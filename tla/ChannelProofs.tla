--------------------------- MODULE ChannelProofs ---------------------------
(***************************************************************************)
(* Proofs about Channel, for any threads, buffers and bounds.              *)
(*                                                                         *)
(* The references come first: of _write_buffers they need no more than     *)
(* whether it is empty, and of the writes how many there are.  The buffers *)
(* and their bytes are at the end.                                         *)
(***************************************************************************)
EXTENDS Channel, Counting

FlagType == [error: BOOLEAN, close: BOOLEAN, cnt: Nat]
IsSeq(s) == \E S : s \in Seq(S)

\* Closures of one kind, references handed out, threads about to post.
Posted(s, k) == Count(s, {c \in Closure : c.k = k})
Held(h)      == Tally(h, {TRUE})
About(p, k)  == Tally(p, {k})

LoopTypes ==
  /\ rd \in BOOLEAN /\ IsSeq(wr)
  /\ lpc \in {"idle", "open_cb", "read_cb", "write_cb", "error_cb", "close_cb"}
  /\ hold \in [Caller -> BOOLEAN]
  /\ pc \in [Caller -> {"idle", "close", "end", "write", "remains", "remains_release"}]
  /\ opens \in 0..2 /\ calls \in [error: Nat, close: Nat]

Types ==
  /\ st \in {"built", "live", "freed"} /\ flag \in FlagType /\ q \in Seq(Closure)
  /\ LoopTypes

\* No operation, callback or thread has to do with the channel.
Unreachable ==
  /\ ~rd /\ wr = <<>> /\ lpc = "idle"
  /\ \A t \in Caller : ~hold[t] /\ pc[t] = "idle"

\* The references, and the number of them.
OpenRef  == opens - One(ClosedDone)
ReadRef  == One(rd)
RunRef   == One(pc[Loop] = "remains_release")
CallRef  == One(lpc \in {"read_cb", "write_cb"})
Others   == OpenRef + ReadRef + Len(wr) + RunRef + CallRef + Held(hold)
Refs == flag.cnt = Others + Posted(q, "write")

\* One closing, from the caller that resets the bit to fire_on_close ...
Closing ==
  /\ About(pc, "close") + Posted(q, "close") + calls.error + One(flag.close) = 1
  /\ flag.error <=> calls.error = 0

\* ... which tells the filters of the error, and then of the close.
Telling ==
  /\ calls.close + One(lpc = "error_cb") = calls.error
  /\ lpc = "close_cb" => calls.close = 1
  /\ lpc \in {"open_cb", "read_cb", "write_cb"} => calls.error = 0
  /\ lpc \in {"open_cb", "read_cb"} => ~rd
  /\ fd \/ calls.error = 1 \/ st = "freed"

\* One end, from the release that reaches zero to the delete.
Ending ==
  About(pc, "end") + Posted(q, "end") + One(st = "freed" /\ opens > 0) = One(IsZero(flag))

\* Before it is opened, until a posted opening is run, and when it is deleted,
\* a channel is not reached by anything else.
Opening ==
  /\ st = "built" => Unreachable /\ q = <<>> /\ opens = 0
  /\ st = "live" => opens > 0
  /\ Posted(q, "open") > 0 => Unreachable /\ q = <<C("open")>> /\ opens = 1 /\ calls.error = 0
  /\ st = "freed" => Unreachable /\ q = <<>>

\* A thread inside a call owns a reference; the loop thread may also be in a
\* callback, or run the closure of a write.
Holding ==
  \A t \in Caller :
    /\ pc[t] \notin {"idle", "end"} =>
         \/ hold[t]
         \/ t = Loop /\ (lpc # "idle" \/ pc[t] = "remains_release")
    /\ pc[t] \in {"remains", "remains_release"} => t = Loop

IInv == Types /\ Refs /\ Closing /\ Telling /\ Ending /\ Opening /\ Holding

-----------------------------------------------------------------------------
(* The counts.                                                             *)

Kind == {"open", "close", "write", "end"}

\* A Boolean as a number.
LEMMA Ones == \A b \in BOOLEAN : One(b) \in Nat /\ (b => One(b) = 1) /\ (~b => One(b) = 0)
BY DEF One

\* The closures of a kind are counted by a number; a queue without closures
\* of any kind is empty.
LEMMA PostedNat ==
  ASSUME NEW s \in Seq(Closure)
  PROVE  /\ \A k \in Kind : Posted(s, k) \in Nat /\ (s = <<>> => Posted(s, k) = 0)
         /\ (\A k \in Kind : Posted(s, k) = 0) => s = <<>>
<1>1. ASSUME NEW k \in Kind
      PROVE  /\ Posted(s, k) \in Nat
             /\ Posted(s, k) = 0 <=> \A n \in DOMAIN s : s[n] \notin {c \in Closure : c.k = k}
  BY CountType DEF Posted
<1>2. ASSUME \A k \in Kind : Posted(s, k) = 0, s # <<>> PROVE FALSE
  <2>1. 1 \in DOMAIN s /\ s[1] \in Closure
    BY <1>2
  <2>2. s[1].k \in Kind
    BY <2>1 DEF Closure, Kind
  <2> QED BY <1>1, <1>2, <2>1, <2>2
<1> QED BY <1>1, <1>2

\* A closure is posted.
LEMMA PostEffect ==
  ASSUME NEW s \in Seq(Closure), NEW c \in Closure
  PROVE  /\ Append(s, c) \in Seq(Closure)
         /\ \A k \in Kind : /\ c.k = k => Posted(Append(s, c), k) = Posted(s, k) + 1
                            /\ c.k # k => Posted(Append(s, c), k) = Posted(s, k)
<1>1. ASSUME NEW k \in Kind
      PROVE  /\ Posted(Append(s, c), k) = Posted(s, k) + IF c \in {d \in Closure : d.k = k} THEN 1 ELSE 0
             /\ Posted(s, k) \in Nat
  BY CountAppend, PostedNat DEF Posted
<1>2. \A k \in Kind : c \in {d \in Closure : d.k = k} <=> c.k = k
  OBVIOUS
<1>3. Append(s, c) \in Seq(Closure)
  OBVIOUS
<1> QED BY <1>1, <1>2, <1>3

\* The first one is taken.
LEMMA TakeEffect ==
  ASSUME NEW s \in Seq(Closure), s # <<>>
  PROVE  /\ Head(s) \in Closure /\ Tail(s) \in Seq(Closure)
         /\ \A k \in Kind : /\ Head(s).k = k => Posted(s, k) = Posted(Tail(s), k) + 1
                            /\ Head(s).k # k => Posted(s, k) = Posted(Tail(s), k)
<1>1. Head(s) \in Closure /\ Tail(s) \in Seq(Closure)
  OBVIOUS
<1>2. ASSUME NEW k \in Kind
      PROVE  /\ Posted(s, k) = Posted(Tail(s), k) + IF Head(s) \in {d \in Closure : d.k = k} THEN 1 ELSE 0
             /\ Posted(Tail(s), k) \in Nat
  <2>1. Posted(Tail(s), k) \in Nat
    BY <1>1, PostedNat
  <2> DEFINE T == {d \in Closure : d.k = k}
  <2> HIDE DEF T
  <2>2. Count(s, T) = Count(Tail(s), T) + IF Head(s) \in T THEN 1 ELSE 0
    BY CountTail
  <2> QED BY <2>1, <2>2 DEF Posted, T
<1>3. \A k \in Kind : Head(s) \in {d \in Closure : d.k = k} <=> Head(s).k = k
  BY <1>1
<1> QED BY <1>1, <1>2, <1>3

\* The closures that the channel posts.
LEMMA Closures ==
  /\ \A k \in {"open", "close", "end"} : C(k) \in Closure /\ C(k).k = k
  /\ \A n \in Lens : [k |-> "write", len |-> n] \in Closure
BY DEF C, Closure

\* The threads that there are.
LEMMA CallerFinite == IsFiniteSet(Caller) /\ Loop \in Caller
<1>1. IsFiniteSet({Loop}) /\ IsFiniteSet(Threads)
  BY ChannelAssumption, FS_Singleton
<1> QED BY <1>1, FS_Union DEF Caller

\* References handed out, counted, and one more or less of them.
LEMMA HeldEffect ==
  ASSUME NEW h \in [Caller -> BOOLEAN]
  PROVE  /\ Held(h) \in Nat /\ (Held(h) = 0 <=> \A t \in Caller : ~h[t])
         /\ \A t \in Caller : ~h[t] => Held([h EXCEPT ![t] = TRUE]) = Held(h) + 1
         /\ \A t \in Caller : h[t] => Held(h) = Held([h EXCEPT ![t] = FALSE]) + 1
         /\ Cardinality({t \in Caller : h[t]}) = Held(h)
<1>1. Held(h) \in Nat /\ (Held(h) = 0 <=> \A t \in Caller : h[t] \notin {TRUE})
  BY CallerFinite, TallyType DEF Held
<1>2. ASSUME NEW t \in Caller, ~h[t] PROVE Held([h EXCEPT ![t] = TRUE]) = Held(h) + 1
  <2> DEFINE g == [h EXCEPT ![t] = TRUE]
             T == {TRUE}
             B == BOOLEAN
  <2>1. /\ h[t] \notin T /\ g[t] \in T /\ h \in [Caller -> B]
        /\ g \in [Caller -> B] /\ \A u \in Caller : u # t => g[u] = h[u]
    BY <1>2
  <2> HIDE DEF g, T, B
  <2>2. Tally(g, T) = Tally(h, T) + 1
    BY <2>1, CallerFinite, TallyChange
  <2> QED BY <2>2 DEF Held, g, T
<1>3. ASSUME NEW t \in Caller, h[t] PROVE Held(h) = Held([h EXCEPT ![t] = FALSE]) + 1
  <2> DEFINE g == [h EXCEPT ![t] = FALSE]
             T == {TRUE}
             B == BOOLEAN
  <2>1. /\ h[t] \in T /\ g[t] \notin T /\ h \in [Caller -> B]
        /\ g \in [Caller -> B] /\ \A u \in Caller : u # t => g[u] = h[u]
    BY <1>3
  <2> HIDE DEF g, T, B
  <2>2. Tally(h, T) = Tally(g, T) + 1
    BY <2>1, CallerFinite, TallyChange
  <2> QED BY <2>2 DEF Held, g, T
<1>4. {t \in Caller : h[t]} = {t \in DOMAIN h : h[t] \in {TRUE}}
  OBVIOUS
<1>5. Cardinality({t \in Caller : h[t]}) = Held(h)
  BY <1>4 DEF Held, Tally
<1> QED BY <1>1, <1>2, <1>3, <1>5

PcType == {"idle", "close", "end", "write", "remains", "remains_release"}

\* The threads about to post, counted ...
LEMMA AboutNat ==
  ASSUME NEW p \in [Caller -> PcType], NEW k \in {"close", "end"}
  PROVE  About(p, k) \in Nat /\ (About(p, k) = 0 <=> \A t \in Caller : p[t] # k)
<1>1. About(p, k) \in Nat /\ (About(p, k) = 0 <=> \A t \in Caller : p[t] \notin {k})
  BY CallerFinite, TallyType DEF About
<1> QED BY <1>1

\* ... when one moves.
LEMMA AboutMove ==
  ASSUME NEW p \in [Caller -> PcType], NEW r \in [Caller -> PcType], NEW t \in Caller,
         \A u \in Caller : u # t => r[u] = p[u], NEW k \in {"close", "end"}
  PROVE  /\ p[t] # k /\ r[t] # k => About(r, k) = About(p, k)
         /\ p[t] # k /\ r[t] = k => About(r, k) = About(p, k) + 1
         /\ p[t] = k /\ r[t] # k => About(p, k) = About(r, k) + 1
<1>1. /\ (p[t] \in {k} <=> r[t] \in {k}) => Tally(r, {k}) = Tally(p, {k})
      /\ p[t] \notin {k} /\ r[t] \in {k} => Tally(r, {k}) = Tally(p, {k}) + 1
      /\ p[t] \in {k} /\ r[t] \notin {k} => Tally(p, {k}) = Tally(r, {k}) + 1
  BY CallerFinite, TallyChange
<1> QED BY <1>1 DEF About

\* Of a sequence, only its length matters.
LEMMA LenEffect ==
  ASSUME NEW s, IsSeq(s)
  PROVE  /\ Len(s) \in Nat /\ (Len(s) = 0 <=> s = <<>>)
         /\ \A e : IsSeq(Append(s, e)) /\ Len(Append(s, e)) = Len(s) + 1
         /\ s # <<>> => IsSeq(Tail(s)) /\ Len(Tail(s)) = Len(s) - 1
<1>1. PICK S : s \in Seq(S)
  BY DEF IsSeq
<1>2. Len(s) \in Nat /\ (Len(s) = 0 <=> s = <<>>)
  BY <1>1
<1>3. ASSUME NEW e PROVE IsSeq(Append(s, e)) /\ Len(Append(s, e)) = Len(s) + 1
  <2>1. s \in Seq(S \cup {e})
    BY <1>1
  <2>2. Append(s, e) \in Seq(S \cup {e}) /\ Len(Append(s, e)) = Len(s) + 1
    BY <2>1
  <2> QED BY <2>2 DEF IsSeq
<1>4. ASSUME s # <<>> PROVE IsSeq(Tail(s)) /\ Len(Tail(s)) = Len(s) - 1
  <2>1. Tail(s) \in Seq(S) /\ Len(Tail(s)) = Len(s) - 1
    BY <1>1, <1>4
  <2> QED BY <2>1 DEF IsSeq
<1> QED BY <1>2, <1>3, <1>4

-----------------------------------------------------------------------------
(* What the invariant says where the channel is in use.                    *)

\* The counts of a state, as numbers.
LEMMA Numbers ==
  ASSUME IInv
  PROVE  /\ \A k \in Kind : Posted(q, k) \in Nat
         /\ About(pc, "close") \in Nat /\ About(pc, "end") \in Nat
         /\ Held(hold) \in Nat /\ Len(wr) \in Nat /\ (Len(wr) = 0 <=> wr = <<>>)
         /\ flag.cnt \in Nat /\ calls.error \in Nat /\ calls.close \in Nat /\ opens \in Nat
         /\ OpenRef \in Int /\ ReadRef \in Nat /\ RunRef \in Nat /\ CallRef \in Nat
<1>1. /\ flag \in FlagType /\ q \in Seq(Closure) /\ IsSeq(wr) /\ hold \in [Caller -> BOOLEAN]
      /\ pc \in [Caller -> PcType] /\ opens \in 0..2 /\ calls \in [error: Nat, close: Nat]
  BY DEF IInv, Types, LoopTypes, PcType
<1>2. /\ \A k \in Kind : Posted(q, k) \in Nat
  BY <1>1, PostedNat
<1>3. About(pc, "close") \in Nat /\ About(pc, "end") \in Nat
  BY <1>1, AboutNat
<1>4. Held(hold) \in Nat
  BY <1>1, HeldEffect
<1>5. Len(wr) \in Nat /\ (Len(wr) = 0 <=> wr = <<>>)
  BY <1>1, LenEffect
<1>6. flag.cnt \in Nat /\ calls.error \in Nat /\ calls.close \in Nat /\ opens \in Nat
  BY <1>1 DEF FlagType
<1>7. OpenRef \in Int /\ ReadRef \in Nat /\ RunRef \in Nat /\ CallRef \in Nat
  BY <1>6 DEF OpenRef, ReadRef, RunRef, CallRef, One
<1> QED BY <1>2, <1>3, <1>4, <1>5, <1>6, <1>7

\* The references of a state, as numbers.
LEMMA Amounts ==
  ASSUME IInv
  PROVE  /\ Posted(q, "write") \in Nat /\ OpenRef \in Int /\ ReadRef \in Nat /\ RunRef \in Nat
         /\ CallRef \in Nat /\ Len(wr) \in Nat /\ Held(hold) \in Nat
         /\ flag.cnt \in Nat /\ flag.cnt = Others + Posted(q, "write")
BY Numbers DEF Kind, IInv, Refs

\* With the count at zero and both bits reset, nothing but the end is left.
LEMMA ZeroIsLast ==
  ASSUME IInv, st = "live", IsZero(flag)
  PROVE  /\ ~rd /\ wr = <<>> /\ lpc = "idle"
         /\ Posted(q, "write") = 0 /\ Posted(q, "close") = 0 /\ Posted(q, "open") = 0
         /\ \A t \in Caller : ~hold[t] /\ pc[t] \in {"idle", "end"}
<1>1. flag.cnt = 0 /\ ~flag.error /\ ~flag.close
  BY DEF IsZero
<1>2. /\ calls.error # 0 /\ opens > 0 /\ opens \in Nat
      /\ About(pc, "close") + Posted(q, "close") + calls.error + One(flag.close) = 1
      /\ calls.error \in Nat /\ calls.close \in Nat /\ About(pc, "close") \in Nat /\ Posted(q, "close") \in Nat
      /\ One(flag.close) = 0
  BY <1>1, Numbers, Ones DEF IInv, Closing, Opening, Kind, Types, FlagType
<1>3. calls.error = 1 /\ About(pc, "close") = 0 /\ Posted(q, "close") = 0
  BY <1>2
<1> DEFINE a == One(ClosedDone)
           b == One(rd)
           c == One(pc[Loop] = "remains_release")
           d == One(lpc \in {"read_cb", "write_cb"})
<1>4. /\ a \in {0, 1} /\ b \in Nat /\ c \in Nat /\ d \in Nat
      /\ a = 1 => ClosedDone
      /\ b = 0 => ~rd
      /\ c = 0 => pc[Loop] # "remains_release"
  BY DEF One
<1> HIDE DEF a, b, c, d
<1>5. 0 = (opens - a) + b + Len(wr) + c + d + Held(hold) + Posted(q, "write")
  BY <1>1 DEF IInv, Refs, Others, OpenRef, ReadRef, RunRef, CallRef, a, b, c, d
<1>6. Len(wr) \in Nat /\ Held(hold) \in Nat /\ Posted(q, "write") \in Nat /\ (Len(wr) = 0 <=> wr = <<>>)
  BY Numbers DEF Kind
<1>7. a = 1 /\ b = 0 /\ Len(wr) = 0 /\ c = 0 /\ Held(hold) = 0 /\ Posted(q, "write") = 0
  BY <1>2, <1>4, <1>5, <1>6
<1>8. calls.close = 1 /\ lpc # "close_cb" /\ ~rd /\ wr = <<>> /\ pc[Loop] # "remains_release"
  BY <1>4, <1>6, <1>7 DEF ClosedDone
<1>9. lpc = "idle"
  BY <1>3, <1>8 DEF IInv, Types, LoopTypes, Telling, One
<1>10. ASSUME NEW t \in Caller PROVE ~hold[t] /\ pc[t] \in {"idle", "end"}
  <2>1. ~hold[t]
    BY <1>7, HeldEffect DEF IInv, Types, LoopTypes
  <2> QED BY <1>8, <1>9, <2>1 DEF IInv, Holding
<1>11. Posted(q, "open") = 0
  <2>1. Posted(q, "open") \in Nat
    BY Numbers DEF Kind
  <2> QED BY <1>3, <2>1 DEF IInv, Opening
<1> QED BY <1>3, <1>7, <1>8, <1>9, <1>10, <1>11

\* Something that has to do with the channel.
Busy ==
  \/ rd \/ wr # <<>> \/ lpc # "idle" \/ \E t \in Caller : hold[t] \/ pc[t] \notin {"idle", "end"}
  \/ q # <<>> /\ Head(q).k \in {"close", "write"}

\* While there is, the channel lives and nobody has begun its end.
LEMMA InUse ==
  ASSUME IInv, Busy
  PROVE  /\ st = "live" /\ opens > 0 /\ ~IsZero(flag) /\ Posted(q, "open") = 0
         /\ About(pc, "end") = 0 /\ Posted(q, "end") = 0
<1>1. st = "live"
  <2>1. st # "built" /\ st # "freed"
    BY DEF Busy, IInv, Opening, Unreachable
  <2> QED BY <2>1 DEF IInv, Types
<1>2. opens > 0
  BY <1>1 DEF IInv, Opening
<1>3. q # <<>> => Head(q) \in Closure /\ Head(q).k \in Kind /\ Posted(q, Head(q).k) # 0
  <2>1. ASSUME q # <<>> PROVE Head(q) \in Closure /\ Tail(q) \in Seq(Closure)
                              /\ \A k \in Kind : Head(q).k = k => Posted(q, k) = Posted(Tail(q), k) + 1
    BY <2>1, TakeEffect DEF IInv, Types
  <2>2. ASSUME q # <<>> PROVE Head(q).k \in Kind
    BY <2>1, <2>2 DEF Closure, Kind
  <2>3. ASSUME q # <<>> PROVE Posted(Tail(q), Head(q).k) \in Nat
    BY <2>1, <2>2, <2>3, PostedNat
  <2> QED BY <2>1, <2>2, <2>3
<1>4. ~IsZero(flag)
  <2> SUFFICES ASSUME IsZero(flag) PROVE FALSE
    OBVIOUS
  <2>1. /\ ~rd /\ wr = <<>> /\ lpc = "idle"
        /\ Posted(q, "write") = 0 /\ Posted(q, "close") = 0
        /\ \A t \in Caller : ~hold[t] /\ pc[t] \in {"idle", "end"}
    BY <1>1, ZeroIsLast
  <2> QED BY <1>3, <2>1 DEF Busy
<1>5. Posted(q, "open") = 0
  <2>1. Posted(q, "open") \in Nat
    BY Numbers DEF Kind
  <2>2. Posted(q, "open") > 0 => Unreachable /\ q = <<C("open")>>
    BY DEF IInv, Opening
  <2>3. C("open").k = "open"
    BY Closures
  <2> QED BY <2>1, <2>2, <2>3 DEF Busy, Unreachable
<1>6. About(pc, "end") = 0 /\ Posted(q, "end") = 0
  <2>1. About(pc, "end") + Posted(q, "end") + 0 = 0
    BY <1>1, <1>4 DEF IInv, Ending, One
  <2>2. About(pc, "end") \in Nat /\ Posted(q, "end") \in Nat
    BY Numbers DEF Kind
  <2> QED BY <2>1, <2>2
<1> QED BY <1>1, <1>2, <1>4, <1>5, <1>6

\* release on the loop thread.
LEMMA ReleaseEffect ==
  ASSUME NEW f \in FlagType, f.cnt >= 1, NEW c \in Seq(Closure), ReleaseOn(f, c)
  PROVE  /\ flag' \in FlagType /\ flag'.cnt = f.cnt - 1 /\ flag'.error = f.error /\ flag'.close = f.close
         /\ q' \in Seq(Closure)
         /\ \A k \in Kind \ {"end"} : Posted(q', k) = Posted(c, k)
         /\ IsZero(flag') => Posted(q', "end") = Posted(c, "end") + 1
         /\ ~IsZero(flag') => Posted(q', "end") = Posted(c, "end")
<1>1. flag' = Release(f) /\ q' = IF IsZero(flag') THEN Append(c, C("end")) ELSE c
  BY DEF ReleaseOn
<1>2. flag' \in FlagType /\ flag'.cnt = f.cnt - 1 /\ flag'.error = f.error /\ flag'.close = f.close
  BY <1>1 DEF Release, FlagType
<1>3. C("end") \in Closure /\ C("end").k = "end"
  BY Closures
<1>4. /\ Append(c, C("end")) \in Seq(Closure)
      /\ \A k \in Kind : /\ C("end").k = k => Posted(Append(c, C("end")), k) = Posted(c, k) + 1
                         /\ C("end").k # k => Posted(Append(c, C("end")), k) = Posted(c, k)
  BY <1>3, PostEffect
<1> QED BY <1>1, <1>2, <1>3, <1>4 DEF Kind

\* A step with the channel in use that leaves the flag at f and the closures
\* at c, and then may release.
LEMMA Settle ==
  ASSUME IInv, st' = "live", opens' > 0, LoopTypes', Telling', Holding',
         NEW f \in FlagType, NEW c \in Seq(Closure), ~IsZero(f),
         Posted(c, "open") = 0, Posted(c, "end") = 0, About(pc', "end") = 0,
         About(pc', "close") + Posted(c, "close") + calls'.error + One(f.close) = 1,
         f.error <=> calls'.error = 0,
         \/ flag' = f /\ q' = c /\ f.cnt = Others' + Posted(c, "write")
         \/ ReleaseOn(f, c) /\ f.cnt = 1 + Others' + Posted(c, "write")
  PROVE  IInv'
<1> DEFINE n == Others'
<1>0. n \in Nat
  <2> DEFINE a == opens' - One(ClosedDone')
             b == One(rd')
             e == One(pc'[Loop] = "remains_release")
             d == One(lpc' \in {"read_cb", "write_cb"})
  <2>1. Len(wr') \in Nat /\ Held(hold') \in Nat
    <3>1. IsSeq(wr') /\ hold' \in [Caller -> BOOLEAN]
      BY DEF LoopTypes
    <3>2. Len(wr') \in Nat
      BY <3>1, LenEffect
    <3>3. Held(hold') \in Nat
      BY <3>1, HeldEffect
    <3> QED BY <3>2, <3>3
  <2>2. a \in Nat
    <3>1. opens' \in 1..2
      BY DEF LoopTypes
    <3>2. One(ClosedDone') \in {0, 1}
      BY DEF One
    <3> QED BY <3>1, <3>2
  <2>3. b \in Nat /\ e \in Nat /\ d \in Nat
    BY DEF One
  <2>4. n = a + b + Len(wr') + e + d + Held(hold')
    BY DEF Others, OpenRef, ReadRef, RunRef, CallRef
  <2> HIDE DEF a, b, d, e, n
  <2> QED BY <2>1, <2>2, <2>3, <2>4
<1> HIDE DEF n
<1>1. \A k \in Kind : Posted(c, k) \in Nat
  BY PostedNat
<1>2. /\ flag' \in FlagType /\ flag'.error = f.error /\ flag'.close = f.close
      /\ q' \in Seq(Closure) /\ flag'.cnt = n + Posted(q', "write")
      /\ Posted(q', "close") = Posted(c, "close") /\ Posted(q', "open") = 0
      /\ (IsZero(flag') => Posted(q', "end") = 1) /\ (~IsZero(flag') => Posted(q', "end") = 0)
  <2>0. \/ flag' = f /\ q' = c /\ f.cnt = n + Posted(c, "write")
        \/ ReleaseOn(f, c) /\ f.cnt = 1 + n + Posted(c, "write")
    BY DEF n
  <2>1. CASE flag' = f /\ q' = c /\ f.cnt = n + Posted(c, "write")
    BY <2>1
  <2>2. CASE ReleaseOn(f, c) /\ f.cnt = 1 + n + Posted(c, "write")
    <3>1. f.cnt >= 1 /\ f.cnt - 1 = n + Posted(c, "write")
      BY <1>0, <1>1, <2>2 DEF Kind
    <3>2. /\ flag' \in FlagType /\ flag'.cnt = f.cnt - 1 /\ flag'.error = f.error /\ flag'.close = f.close
          /\ q' \in Seq(Closure)
          /\ \A k \in Kind \ {"end"} : Posted(q', k) = Posted(c, k)
          /\ IsZero(flag') => Posted(q', "end") = Posted(c, "end") + 1
          /\ ~IsZero(flag') => Posted(q', "end") = Posted(c, "end")
      BY <2>2, <3>1, ReleaseEffect
    <3> QED BY <3>1, <3>2 DEF Kind
  <2> QED BY <2>0, <2>1, <2>2
<1>3. Types'
  BY <1>2 DEF Types
<1>4. Refs'
  BY <1>2 DEF Refs, n
<1>5. Closing'
  BY <1>2 DEF Closing
<1>6. Ending'
  <2>1. One(st' = "freed" /\ opens' > 0) = 0
    BY DEF One
  <2>2. One(IsZero(flag')) = Posted(q', "end")
    BY <1>2 DEF One
  <2>3. Posted(q', "end") \in Nat
    BY <1>2
  <2> QED BY <2>1, <2>2, <2>3 DEF Ending
<1>7. Opening'
  BY <1>2 DEF Opening
<1> QED BY <1>3, <1>4, <1>5, <1>6, <1>7 DEF IInv

-----------------------------------------------------------------------------
(* Calls by threads, and what they post.                                   *)

\* The count, one more and one less; the two bits stay.
LEMMA FlagEffect ==
  ASSUME NEW f \in FlagType
  PROVE  /\ f.cnt \in Nat /\ f.error \in BOOLEAN /\ f.close \in BOOLEAN
         /\ AddRef(f) \in FlagType /\ AddRef(f).cnt = f.cnt + 1
         /\ AddRef(f).error = f.error /\ AddRef(f).close = f.close /\ ~IsZero(AddRef(f))
         /\ f.cnt >= 1 => /\ Release(f) \in FlagType /\ Release(f).cnt = f.cnt - 1
                          /\ Release(f).error = f.error /\ Release(f).close = f.close
<1>1. /\ f.cnt \in Nat /\ f.error \in BOOLEAN /\ f.close \in BOOLEAN
  BY DEF FlagType
<1>2. /\ AddRef(f) \in FlagType /\ AddRef(f).cnt = f.cnt + 1
      /\ AddRef(f).error = f.error /\ AddRef(f).close = f.close
  BY DEF FlagType, AddRef
<1>3. ~IsZero(AddRef(f))
  BY <1>1, <1>2 DEF IsZero
<1>4. ASSUME f.cnt >= 1
      PROVE  /\ Release(f) \in FlagType /\ Release(f).cnt = f.cnt - 1
             /\ Release(f).error = f.error /\ Release(f).close = f.close
  <2>1. f.cnt - 1 \in Nat
    BY <1>1, <1>4
  <2> QED BY <2>1 DEF FlagType, Release
<1> QED BY <1>1, <1>2, <1>3, <1>4

\* Whoever may call the channel keeps it in use.
LEMMA CallerBusy ==
  ASSUME NEW t \in Caller, MayCall(t) PROVE Busy
BY DEF MayCall, Busy

\* A reference is handed out.
LEMMA AddRefStep ==
  ASSUME IInv, NEW t \in Caller, add_ref(t) PROVE IInv'
<1>1. /\ lpc # "idle" /\ ~hold[t] /\ hold' = [hold EXCEPT ![t] = TRUE] /\ flag' = AddRef(flag)
      /\ UNCHANGED <<st, q, fd, rd, wr, lpc, pc, opens, calls>>
  BY DEF add_ref, ioVars, loopVars, history
<1>2. st = "live" /\ opens > 0 /\ Posted(q, "open") = 0 /\ About(pc, "end") = 0 /\ Posted(q, "end") = 0
  BY <1>1, InUse DEF Busy
<1>3. flag \in FlagType /\ q \in Seq(Closure) /\ hold \in [Caller -> BOOLEAN]
  BY DEF IInv, Types, LoopTypes
<1>4. LoopTypes'
  BY <1>1 DEF IInv, Types, LoopTypes, IsSeq
<1>5. Telling'
  BY <1>1 DEF IInv, Telling
<1>6. Holding'
  BY <1>1, <1>3 DEF IInv, Holding
<1>7. flag'.cnt = Others' + Posted(q, "write")
  <2>1. Held(hold') = Held(hold) + 1
    BY <1>1, <1>3, HeldEffect
  <2>2. UNCHANGED <<OpenRef, ReadRef, RunRef, CallRef, wr>>
    BY <1>1 DEF OpenRef, ClosedDone, ReadRef, RunRef, CallRef
  <2>3. flag'.cnt = flag.cnt + 1
    BY <1>1, <1>3, FlagEffect
  <2>4. Len(wr') = Len(wr)
    BY <2>2
  <2> QED BY <2>1, <2>2, <2>3, <2>4, Amounts, SMTT(20) DEF Others
<1>8. /\ flag' \in FlagType /\ ~IsZero(flag') /\ flag'.error = flag.error /\ flag'.close = flag.close
  BY <1>1, <1>3, FlagEffect
<1>9. /\ About(pc', "close") + Posted(q, "close") + calls'.error + One(flag'.close) = 1
      /\ flag'.error <=> calls'.error = 0
  BY <1>1, <1>8 DEF IInv, Closing
<1> QED BY <1>1, <1>2, <1>3, <1>4, <1>5, <1>6, <1>7, <1>8, <1>9, Settle

\* A reference is given back: with the last one the thread has the end to
\* post.
LEMMA ReleaseStep ==
  ASSUME IInv, NEW t \in Caller, release(t) PROVE IInv'
<1>1. /\ hold[t] /\ pc[t] = "idle" /\ hold' = [hold EXCEPT ![t] = FALSE] /\ flag' = Release(flag)
      /\ pc' = [pc EXCEPT ![t] = IF IsZero(flag') THEN "end" ELSE "idle"]
      /\ UNCHANGED <<st, q, fd, rd, wr, lpc, opens, calls>>
  BY DEF release, ioVars, loopVars, history
<1>2. st = "live" /\ opens > 0 /\ Posted(q, "open") = 0 /\ About(pc, "end") = 0 /\ Posted(q, "end") = 0
  BY <1>1, InUse DEF Busy
<1>3. /\ flag \in FlagType /\ q \in Seq(Closure) /\ hold \in [Caller -> BOOLEAN] /\ pc \in [Caller -> PcType]
  BY DEF IInv, Types, LoopTypes, PcType
<1>4. /\ Held(hold) = Held(hold') + 1 /\ Held(hold') \in Nat /\ hold' \in [Caller -> BOOLEAN]
  <2>1. hold' \in [Caller -> BOOLEAN]
    BY <1>1, <1>3
  <2>2. Held(hold') \in Nat
    BY <2>1, HeldEffect
  <2> QED BY <1>1, <1>3, <2>1, <2>2, HeldEffect
<1>5. pc' \in [Caller -> PcType] /\ pc'[Loop] \in {pc[Loop], "idle", "end"} /\ pc'[t] \in {"idle", "end"}
      /\ (t # Loop => pc'[Loop] = pc[Loop]) /\ \A u \in Caller : u # t => pc'[u] = pc[u]
  BY <1>1, <1>3, CallerFinite DEF PcType
<1>6. /\ About(pc', "close") = About(pc, "close")
      /\ IsZero(flag') => About(pc', "end") = 1
      /\ ~IsZero(flag') => About(pc', "end") = 0
  <2>1. pc'[t] # "close" /\ (pc'[t] = "end" <=> IsZero(flag'))
    BY <1>1, <1>3
  <2>2. About(pc', "close") = About(pc, "close")
    BY <1>1, <1>3, <1>5, <2>1, AboutMove
  <2>3. CASE IsZero(flag')
    <3>1. About(pc', "end") = About(pc, "end") + 1
      BY <1>1, <1>3, <1>5, <2>1, <2>3, AboutMove
    <3> QED BY <1>2, <2>2, <2>3, <3>1
  <2>4. CASE ~IsZero(flag')
    <3>1. About(pc', "end") = About(pc, "end")
      BY <1>1, <1>3, <1>5, <2>1, <2>4, AboutMove
    <3> QED BY <1>2, <2>2, <2>4, <3>1
  <2> QED BY <2>3, <2>4
<1>7. LoopTypes'
  BY <1>1, <1>4, <1>5 DEF IInv, Types, LoopTypes, IsSeq, PcType
<1>8. Telling'
  BY <1>1 DEF IInv, Telling
<1>9. Holding'
  <2> SUFFICES ASSUME NEW u \in Caller
               PROVE  /\ pc'[u] \notin {"idle", "end"} =>
                           \/ hold'[u]
                           \/ u = Loop /\ (lpc' # "idle" \/ pc'[u] = "remains_release")
                      /\ pc'[u] \in {"remains", "remains_release"} => u = Loop
    BY DEF Holding
  <2>1. CASE u = t
    BY <1>5, <2>1
  <2>2. CASE u # t
    BY <1>1, <1>3, <1>5, <2>2 DEF IInv, Holding
  <2> QED BY <2>1, <2>2
<1>10. flag'.cnt = Others' + Posted(q, "write") /\ flag.cnt >= 1
  <2>1. UNCHANGED <<OpenRef, ReadRef, CallRef>> /\ Len(wr') = Len(wr)
    BY <1>1 DEF OpenRef, ClosedDone, ReadRef, CallRef
  <2>2. RunRef' = RunRef
    BY <1>1, <1>5 DEF RunRef
  <2>3. OpenRef \in Nat
    <3>1. opens \in 1..2
      BY <1>2 DEF IInv, Types, LoopTypes
    <3> QED BY <3>1 DEF OpenRef, One
  <2>4. flag.cnt >= 1
    BY <1>4, <2>3, Amounts DEF Others
  <2>5. flag'.cnt = flag.cnt - 1
    BY <1>1, <1>3, <2>4, FlagEffect
  <2> QED BY <1>4, <2>1, <2>2, <2>4, <2>5, Amounts, SMTT(20) DEF Others
<1>11. flag' \in FlagType /\ flag'.error = flag.error /\ flag'.close = flag.close
  BY <1>1, <1>3, <1>10, FlagEffect
<1>12. Types' /\ Refs'
  BY <1>1, <1>3, <1>7, <1>10, <1>11 DEF Types, Refs, IInv
<1>13. Closing'
  BY <1>1, <1>6, <1>11 DEF IInv, Closing
<1>14. Ending'
  <2>1. One(st' = "freed" /\ opens' > 0) = 0
    BY <1>1, <1>2 DEF One
  <2>2. Posted(q', "end") = 0
    BY <1>1, <1>2
  <2>3. One(IsZero(flag')) = About(pc', "end") /\ About(pc', "end") \in Nat
    BY <1>6 DEF One
  <2> QED BY <2>1, <2>2, <2>3 DEF Ending
<1>15. Opening'
  BY <1>1, <1>2 DEF Opening
<1> QED BY <1>8, <1>9, <1>12, <1>13, <1>14, <1>15 DEF IInv

\* close: of the callers one resets the bit, and has the closure to post.
LEMMA CloseStep ==
  ASSUME IInv, NEW t \in Caller, close(t) PROVE IInv'
<1>0. MayCall(t)
  BY DEF close
<1>1. /\ pc[t] = "idle" /\ flag.close /\ flag' = [flag EXCEPT !.close = FALSE]
      /\ pc' = [pc EXCEPT ![t] = "close"]
      /\ UNCHANGED <<st, q, fd, rd, wr, lpc, hold, opens, calls>>
  BY DEF close, MayCall, reset_close, ioVars, loopVars, history
<1>2. st = "live" /\ opens > 0 /\ Posted(q, "open") = 0 /\ About(pc, "end") = 0 /\ Posted(q, "end") = 0
  BY <1>0, CallerBusy, InUse
<1>3. /\ flag \in FlagType /\ q \in Seq(Closure) /\ pc \in [Caller -> PcType] /\ "close" \in PcType
  BY DEF IInv, Types, LoopTypes, PcType
<1>4. About(pc', "close") = About(pc, "close") + 1 /\ About(pc', "end") = 0
  <2>1. pc' \in [Caller -> PcType] /\ pc'[t] = "close" /\ \A u \in Caller : u # t => pc'[u] = pc[u]
    BY <1>1, <1>3
  <2>2. About(pc', "close") = About(pc, "close") + 1
    BY <1>1, <1>3, <2>1, AboutMove
  <2>3. About(pc', "end") = About(pc, "end")
    BY <1>1, <1>3, <2>1, AboutMove
  <2> QED BY <1>2, <2>2, <2>3
<1>5. LoopTypes'
  BY <1>1 DEF IInv, Types, LoopTypes, IsSeq
<1>6. Telling'
  BY <1>1 DEF IInv, Telling
<1>7. Holding'
  BY <1>0, <1>1, <1>3 DEF IInv, Holding, MayCall
<1>8. flag' \in FlagType /\ flag'.error = flag.error /\ ~flag'.close /\ flag'.cnt = flag.cnt
  BY <1>1, <1>3 DEF FlagType
<1>9. calls.error = 0 /\ About(pc, "close") = 0 /\ Posted(q, "close") = 0
  <2>1. One(flag.close) = 1
    BY <1>1 DEF One
  <2>2. About(pc, "close") + Posted(q, "close") + calls.error + 1 = 1
    BY <2>1 DEF IInv, Closing
  <2>3. About(pc, "close") \in Nat /\ Posted(q, "close") \in Nat /\ calls.error \in Nat
    BY Numbers DEF Kind
  <2> QED BY <2>2, <2>3
<1>10. ~IsZero(flag')
  BY <1>8, <1>9 DEF IInv, Closing, IsZero
<1>11. flag'.cnt = Others' + Posted(q, "write")
  <2>1. UNCHANGED <<OpenRef, ReadRef, CallRef>> /\ Len(wr') = Len(wr) /\ Held(hold') = Held(hold)
    BY <1>1 DEF OpenRef, ClosedDone, ReadRef, CallRef
  <2>2. RunRef' = RunRef
    BY <1>1, <1>3, CallerFinite DEF RunRef
  <2> QED BY <1>8, <2>1, <2>2, Amounts DEF Others
<1>12. /\ About(pc', "close") + Posted(q, "close") + calls'.error + One(flag'.close) = 1
       /\ flag'.error <=> calls'.error = 0
  <2>1. One(flag'.close) = 0
    BY <1>8 DEF One
  <2>2. calls' = calls
    BY <1>1
  <2>3. flag.error <=> calls.error = 0
    BY DEF IInv, Closing
  <2> QED BY <1>4, <1>8, <1>9, <2>1, <2>2, <2>3
<1> QED BY <1>1, <1>2, <1>3, <1>4, <1>5, <1>6, <1>7, <1>8, <1>10, <1>11, <1>12, Settle

\* A thread moves on and has no closure to post, before or after.
LEMMA PcMove ==
  ASSUME IInv, NEW t \in Caller, NEW v \in PcType \ {"close", "end"}, pc[t] \notin {"close", "end"},
         pc' = [pc EXCEPT ![t] = v]
  PROVE  /\ pc' \in [Caller -> PcType] /\ pc'[t] = v /\ \A u \in Caller : u # t => pc'[u] = pc[u]
         /\ About(pc', "close") = About(pc, "close") /\ About(pc', "end") = About(pc, "end")
<1>1. pc \in [Caller -> PcType]
  BY DEF IInv, Types, LoopTypes, PcType
<1>2. pc' \in [Caller -> PcType] /\ pc'[t] = v /\ \A u \in Caller : u # t => pc'[u] = pc[u]
  BY <1>1
<1>3. About(pc', "close") = About(pc, "close")
  BY <1>1, <1>2, AboutMove
<1>4. About(pc', "end") = About(pc, "end")
  BY <1>1, <1>2, AboutMove
<1> QED BY <1>2, <1>3, <1>4

\* do_write: the thread goes on to post, or the loop thread to write.
LEMMA WriteCallStep ==
  ASSUME IInv, NEW t \in Caller, do_write_off(t) \/ (t = Loop /\ \E len \in Lens : do_write(len)) PROVE IInv'
<1>1. PICK v \in {"write", "remains", "idle"} :
        /\ MayCall(t) /\ pc' = [pc EXCEPT ![t] = v] /\ (v = "remains" => t = Loop)
        /\ UNCHANGED <<st, flag, q, fd, rd, wr, lpc, hold, opens, calls>>
  <2>1. CASE do_write_off(t)
    BY <2>1 DEF do_write_off, ioVars, loopVars
  <2>2. CASE t = Loop /\ \E len \in Lens : do_write(len)
    BY <2>2 DEF do_write, push, after_push, ioVars, loopVars
  <2> QED BY <2>1, <2>2
<1>2. /\ st = "live" /\ opens > 0 /\ ~IsZero(flag) /\ Posted(q, "open") = 0
      /\ About(pc, "end") = 0 /\ Posted(q, "end") = 0
  BY <1>1, CallerBusy, InUse
<1>3. flag \in FlagType /\ q \in Seq(Closure) /\ pc[t] = "idle"
  BY <1>1 DEF IInv, Types, MayCall
<1>4. /\ pc' \in [Caller -> PcType] /\ pc'[t] = v /\ \A u \in Caller : u # t => pc'[u] = pc[u]
      /\ About(pc', "close") = About(pc, "close") /\ About(pc', "end") = 0
  BY <1>1, <1>2, <1>3, PcMove DEF PcType
<1>5. LoopTypes'
  BY <1>1, <1>4 DEF IInv, Types, LoopTypes, IsSeq, PcType
<1>6. Telling'
  BY <1>1 DEF IInv, Telling
<1>7. Holding'
  BY <1>1, <1>4 DEF IInv, Holding, MayCall
<1>8. flag.cnt = Others' + Posted(q, "write")
  <2>1. UNCHANGED <<OpenRef, ReadRef, CallRef>> /\ Len(wr') = Len(wr) /\ Held(hold') = Held(hold)
    BY <1>1 DEF OpenRef, ClosedDone, ReadRef, CallRef
  <2>2. RunRef' = RunRef
    BY <1>3, <1>4, CallerFinite DEF RunRef
  <2> QED BY <2>1, <2>2, Amounts DEF Others
<1>9. /\ About(pc', "close") + Posted(q, "close") + calls'.error + One(flag.close) = 1
      /\ flag.error <=> calls'.error = 0
  BY <1>1, <1>4 DEF IInv, Closing
<1> QED BY <1>1, <1>2, <1>3, <1>4, <1>5, <1>6, <1>7, <1>8, <1>9, Settle

\* The closure of a write is posted, with a reference.
LEMMA ExecuteWriteStep ==
  ASSUME IInv, NEW t \in Caller, execute_write(t) PROVE IInv'
<1>1. PICK len \in Lens :
        /\ pc[t] = "write" /\ pc' = [pc EXCEPT ![t] = "idle"]
        /\ q' = Append(q, [k |-> "write", len |-> len]) /\ flag' = AddRef(flag)
        /\ UNCHANGED <<st, fd, rd, wr, lpc, hold, opens, calls>>
  BY DEF execute_write, post_write, ioVars, loopVars, history
<1>2. /\ st = "live" /\ opens > 0 /\ Posted(q, "open") = 0
      /\ About(pc, "end") = 0 /\ Posted(q, "end") = 0
  BY <1>1, InUse DEF Busy
<1>3. flag \in FlagType /\ q \in Seq(Closure)
  BY <1>1 DEF IInv, Types
<1>4. /\ pc' \in [Caller -> PcType] /\ pc'[t] = "idle" /\ \A u \in Caller : u # t => pc'[u] = pc[u]
      /\ About(pc', "close") = About(pc, "close") /\ About(pc', "end") = 0
  BY <1>1, <1>2, <1>3, PcMove DEF PcType
<1>5. LoopTypes'
  BY <1>1, <1>4 DEF IInv, Types, LoopTypes, IsSeq, PcType
<1>6. Telling'
  BY <1>1 DEF IInv, Telling
<1>7. Holding'
  BY <1>1, <1>4 DEF IInv, Holding
<1>8. /\ q' \in Seq(Closure) /\ Posted(q', "write") = Posted(q, "write") + 1
      /\ Posted(q', "close") = Posted(q, "close") /\ Posted(q', "open") = 0 /\ Posted(q', "end") = 0
  <2> DEFINE c == [k |-> "write", len |-> len]
  <2>1. c \in Closure /\ c.k = "write"
    BY Closures
  <2> HIDE DEF c
  <2>2. /\ Append(q, c) \in Seq(Closure)
        /\ \A k \in Kind : /\ c.k = k => Posted(Append(q, c), k) = Posted(q, k) + 1
                           /\ c.k # k => Posted(Append(q, c), k) = Posted(q, k)
    BY <1>3, <2>1, PostEffect
  <2>3. q' = Append(q, c)
    BY <1>1 DEF c
  <2> QED BY <1>2, <2>1, <2>2, <2>3 DEF Kind
<1>9. /\ flag' \in FlagType /\ ~IsZero(flag') /\ flag'.error = flag.error /\ flag'.close = flag.close
      /\ flag'.cnt = flag.cnt + 1
  BY <1>1, <1>3, FlagEffect
<1>10. flag'.cnt = Others' + Posted(q', "write")
  <2>1. UNCHANGED <<OpenRef, ReadRef, CallRef>> /\ Len(wr') = Len(wr) /\ Held(hold') = Held(hold)
    BY <1>1 DEF OpenRef, ClosedDone, ReadRef, CallRef
  <2>2. RunRef' = RunRef
    BY <1>1, <1>4, CallerFinite DEF RunRef
  <2> QED BY <1>8, <1>9, <2>1, <2>2, Amounts, SMTT(20) DEF Others
<1>11. /\ About(pc', "close") + Posted(q', "close") + calls'.error + One(flag'.close) = 1
       /\ flag'.error <=> calls'.error = 0
  BY <1>1, <1>4, <1>8, <1>9 DEF IInv, Closing
<1> QED BY <1>1, <1>2, <1>4, <1>5, <1>6, <1>7, <1>8, <1>9, <1>10, <1>11, Settle

\* The closure of a close, or of the end, is posted.
LEMMA ExecuteStep ==
  ASSUME IInv, NEW t \in Caller, execute(t) PROVE IInv'
<1>1. PICK k \in {"close", "end"} :
        /\ pc[t] = k /\ q' = Append(q, C(k)) /\ pc' = [pc EXCEPT ![t] = "idle"]
        /\ UNCHANGED <<st, flag, fd, rd, wr, lpc, hold, opens, calls>>
  BY DEF execute, ioVars, loopVars, history
<1>2. flag \in FlagType /\ q \in Seq(Closure) /\ pc \in [Caller -> PcType] /\ "idle" \in PcType
  BY <1>1 DEF IInv, Types, LoopTypes, PcType
<1>3. pc' \in [Caller -> PcType] /\ pc'[t] = "idle" /\ \A u \in Caller : u # t => pc'[u] = pc[u]
  BY <1>1, <1>2
<1>4. /\ About(pc, k) = About(pc', k) + 1 /\ About(pc', k) \in Nat
      /\ \A j \in {"close", "end"} : j # k => About(pc', j) = About(pc, j)
  <2>0. pc[t] = k /\ pc'[t] # k
    BY <1>1, <1>3
  <2>1. About(pc, k) = About(pc', k) + 1
    BY <1>2, <1>3, <2>0, AboutMove
  <2>2. About(pc', k) \in Nat
    BY <1>1, <1>3, AboutNat
  <2>3. ASSUME NEW j \in {"close", "end"}, j # k PROVE About(pc', j) = About(pc, j)
    <3>1. pc[t] # j /\ pc'[t] # j
      BY <1>3, <2>0, <2>3
    <3> QED BY <1>2, <1>3, <3>1, AboutMove
  <2> QED BY <2>1, <2>2, <2>3
<1>5. /\ q' \in Seq(Closure) /\ Posted(q', k) = Posted(q, k) + 1
      /\ \A j \in Kind : j # k => Posted(q', j) = Posted(q, j)
  <2>1. C(k) \in Closure /\ C(k).k = k /\ k \in Kind
    BY <1>1, Closures DEF Kind
  <2>2. /\ Append(q, C(k)) \in Seq(Closure)
        /\ \A j \in Kind : /\ C(k).k = j => Posted(Append(q, C(k)), j) = Posted(q, j) + 1
                           /\ C(k).k # j => Posted(Append(q, C(k)), j) = Posted(q, j)
    BY <1>2, <2>1, PostEffect
  <2> QED BY <1>1, <2>1, <2>2
<1>6. \A j \in Kind : Posted(q, j) \in Nat
  BY Numbers
<1>7. /\ About(pc', "close") + Posted(q', "close") = About(pc, "close") + Posted(q, "close")
      /\ About(pc', "end") + Posted(q', "end") = About(pc, "end") + Posted(q, "end")
      /\ Posted(q', "open") = Posted(q, "open") /\ Posted(q', "write") = Posted(q, "write")
  <2>1. CASE k = "close"
    <3>1. About(pc', "end") = About(pc, "end") /\ Posted(q', "end") = Posted(q, "end")
      BY <1>4, <1>5, <2>1 DEF Kind
    <3>2. About(pc, "close") = About(pc', "close") + 1 /\ Posted(q', "close") = Posted(q, "close") + 1
      BY <1>4, <1>5, <2>1
    <3>3. About(pc', "close") \in Nat /\ Posted(q, "close") \in Nat
      BY <1>4, <1>6, <2>1 DEF Kind
    <3>4. Posted(q', "open") = Posted(q, "open") /\ Posted(q', "write") = Posted(q, "write")
      BY <1>5, <2>1 DEF Kind
    <3> QED BY <3>1, <3>2, <3>3, <3>4
  <2>2. CASE k = "end"
    <3>1. About(pc', "close") = About(pc, "close") /\ Posted(q', "close") = Posted(q, "close")
      BY <1>4, <1>5, <2>2 DEF Kind
    <3>2. About(pc, "end") = About(pc', "end") + 1 /\ Posted(q', "end") = Posted(q, "end") + 1
      BY <1>4, <1>5, <2>2
    <3>3. About(pc', "end") \in Nat /\ Posted(q, "end") \in Nat
      BY <1>4, <1>6, <2>2 DEF Kind
    <3>4. Posted(q', "open") = Posted(q, "open") /\ Posted(q', "write") = Posted(q, "write")
      BY <1>5, <2>2 DEF Kind
    <3> QED BY <3>1, <3>2, <3>3, <3>4
  <2> QED BY <2>1, <2>2
<1>8. st = "live" /\ opens > 0 /\ Posted(q, "open") = 0
  <2>1. ~Unreachable
    BY <1>1 DEF Unreachable
  <2>2. st # "built" /\ st # "freed" /\ ~(Posted(q, "open") > 0)
    BY <2>1 DEF IInv, Opening
  <2>3. Posted(q, "open") = 0
    BY <1>6, <2>2 DEF Kind
  <2> QED BY <2>2, <2>3 DEF IInv, Opening, Types
<1>9. Types'
  BY <1>1, <1>3, <1>5 DEF IInv, Types, LoopTypes, IsSeq, PcType
<1>10. Refs'
  <2>1. UNCHANGED <<OpenRef, ReadRef, CallRef>> /\ Len(wr') = Len(wr) /\ Held(hold') = Held(hold)
    BY <1>1 DEF OpenRef, ClosedDone, ReadRef, CallRef
  <2>2. RunRef' = RunRef
    BY <1>1, <1>3, CallerFinite DEF RunRef
  <2>3. Others' = Others
    BY <2>1, <2>2 DEF Others
  <2> QED BY <1>1, <1>7, <2>3 DEF IInv, Refs
<1>11. Closing'
  BY <1>1, <1>7 DEF IInv, Closing
<1>12. Telling'
  BY <1>1 DEF IInv, Telling
<1>13. Ending'
  BY <1>1, <1>7 DEF IInv, Ending
<1>14. Opening'
  BY <1>1, <1>7, <1>8 DEF Opening
<1>15. Holding'
  BY <1>1, <1>3 DEF IInv, Holding
<1> QED BY <1>9, <1>10, <1>11, <1>12, <1>13, <1>14, <1>15 DEF IInv

-----------------------------------------------------------------------------
(* Steps of the loop thread.                                               *)

\* The posted opening is run: nothing else has to do with the channel yet.
LEMMA RunOpenStep ==
  ASSUME IInv, run_open PROVE IInv'
<1>1. /\ q # <<>> /\ Head(q).k = "open" /\ q' = Tail(q) /\ opens' = opens + 1 /\ flag' = AddRef(flag)
      /\ lpc' = "open_cb" /\ UNCHANGED <<st, fd, rd, wr, hold, pc, calls>>
  BY DEF run_open, Runs, ioVars
<1>2. flag \in FlagType /\ q \in Seq(Closure) /\ pc \in [Caller -> PcType] /\ "open" \in Kind
  BY DEF IInv, Types, LoopTypes, PcType, Kind
<1>3. /\ q' \in Seq(Closure) /\ Posted(q, "open") = Posted(q', "open") + 1
      /\ \A k \in Kind : k # "open" => Posted(q', k) = Posted(q, k)
  BY <1>1, <1>2, TakeEffect
<1>4. Posted(q', "open") \in Nat
  BY <1>2, <1>3, PostedNat
<1>5. Unreachable /\ q = <<C("open")>> /\ opens = 1 /\ calls.error = 0
  BY <1>3, <1>4 DEF IInv, Opening
<1>6. st = "live"
  BY <1>1, <1>5 DEF IInv, Opening, Types
<1>7. q' = <<>>
  BY <1>1, <1>5
<1>8. \A k \in Kind : Posted(q', k) = 0
  BY <1>3, <1>7, PostedNat
<1>9. About(pc, "end") = 0 /\ About(pc, "close") = 0
  BY <1>2, <1>5, AboutNat DEF Unreachable
<1>10. LoopTypes'
  BY <1>1, <1>5 DEF IInv, Types, LoopTypes, IsSeq
<1>11. Telling'
  <2>1. calls' = calls /\ calls.error = 0 /\ lpc' = "open_cb" /\ ~rd' /\ lpc = "idle"
    BY <1>1, <1>5 DEF Unreachable
  <2>2. One(lpc = "error_cb") = 0 /\ One(lpc' = "error_cb") = 0
    BY <2>1 DEF One
  <2> QED BY <1>1, <2>1, <2>2 DEF IInv, Telling
<1>12. Holding'
  BY <1>1, <1>5 DEF Holding, Unreachable
<1>13. flag'.cnt = Others' + Posted(q', "write")
  <2>1. UNCHANGED <<ReadRef, RunRef>> /\ Len(wr') = Len(wr) /\ Held(hold') = Held(hold)
    BY <1>1 DEF ReadRef, RunRef
  <2>2. CallRef' = 0 /\ CallRef = 0
    BY <1>1, <1>5 DEF CallRef, Unreachable, One
  <2>3. calls.close = 0
    <3>1. One(lpc = "error_cb") = 0
      BY <1>5 DEF Unreachable, One
    <3>2. calls.close + One(lpc = "error_cb") = calls.error /\ calls.close \in Nat
      BY Numbers DEF IInv, Telling
    <3> QED BY <1>5, <3>1, <3>2
  <2>4. OpenRef = 1 /\ OpenRef' = 2
    BY <1>1, <1>5, <2>3 DEF OpenRef, ClosedDone, One
  <2>5. flag'.cnt = flag.cnt + 1 /\ Posted(q', "write") = 0 /\ Posted(q, "write") = 0
    BY <1>1, <1>2, <1>3, <1>8, FlagEffect DEF Kind
  <2> QED BY <2>1, <2>2, <2>4, <2>5, Amounts DEF Others
<1>14. /\ flag' \in FlagType /\ ~IsZero(flag') /\ flag'.error = flag.error /\ flag'.close = flag.close
  BY <1>1, <1>2, FlagEffect
<1>15. /\ About(pc', "close") + Posted(q', "close") + calls'.error + One(flag'.close) = 1
       /\ flag'.error <=> calls'.error = 0
  <2>1. Posted(q', "close") = Posted(q, "close")
    BY <1>3 DEF Kind
  <2> QED BY <1>1, <1>14, <2>1 DEF IInv, Closing
<1>16. opens' > 0 /\ st' = "live" /\ About(pc', "end") = 0
  BY <1>1, <1>5, <1>6, <1>9
<1> QED BY <1>3, <1>8, <1>10, <1>11, <1>12, <1>13, <1>14, <1>15, <1>16, Settle DEF Kind

\* The filters have heard of the open: the channel reads, unless it is closed.
LEMMA OpenReturnStep ==
  ASSUME IInv, open_return PROVE IInv'
<1>1. /\ lpc = "open_cb" /\ pc[Loop] = "idle" /\ lpc' = "idle" /\ rd' = flag.close
      /\ flag' = (IF flag.close THEN AddRef(flag) ELSE flag)
      /\ UNCHANGED <<st, q, fd, wr, hold, pc, opens, calls>>
  BY DEF open_return, LoopAt, read, contains_close, history
<1>2. /\ st = "live" /\ opens > 0 /\ ~IsZero(flag) /\ Posted(q, "open") = 0
      /\ About(pc, "end") = 0 /\ Posted(q, "end") = 0
  BY <1>1, InUse DEF Busy
<1>3. flag \in FlagType /\ q \in Seq(Closure) /\ ~rd /\ calls.error = 0
  BY <1>1 DEF IInv, Types, Telling
<1>4. /\ flag' \in FlagType /\ ~IsZero(flag') /\ flag'.error = flag.error /\ flag'.close = flag.close
      /\ flag'.cnt = flag.cnt + One(rd') /\ rd' \in BOOLEAN
  <2>1. CASE flag.close
    BY <1>1, <1>3, <2>1, FlagEffect DEF One
  <2>2. CASE ~flag.close
    <3>1. flag' = flag /\ ~rd' /\ rd' \in BOOLEAN
      BY <1>1, <1>3, <2>2 DEF FlagType
    <3>2. One(rd') = 0 /\ flag.cnt \in Nat
      BY <1>3, <3>1, FlagEffect DEF One
    <3> QED BY <1>2, <1>3, <3>1, <3>2
  <2> QED BY <2>1, <2>2
<1>5. LoopTypes'
  BY <1>1, <1>4 DEF IInv, Types, LoopTypes, IsSeq
<1>6. Telling'
  BY <1>1 DEF IInv, Telling, One
<1>7. Holding'
  BY <1>1 DEF IInv, Holding
<1>8. flag'.cnt = Others' + Posted(q, "write")
  <2>1. UNCHANGED <<RunRef, OpenRef>> /\ Len(wr') = Len(wr) /\ Held(hold') = Held(hold)
    BY <1>1 DEF RunRef, OpenRef, ClosedDone
  <2>2. CallRef' = 0 /\ CallRef = 0 /\ ReadRef = 0 /\ ReadRef' = One(rd') /\ One(rd') \in Nat
    BY <1>1, <1>3 DEF CallRef, ReadRef, One
  <2> QED BY <1>4, <2>1, <2>2, Amounts DEF Others
<1>9. /\ About(pc', "close") + Posted(q, "close") + calls'.error + One(flag'.close) = 1
      /\ flag'.error <=> calls'.error = 0
  BY <1>1, <1>4 DEF IInv, Closing
<1> QED BY <1>1, <1>2, <1>3, <1>4, <1>5, <1>6, <1>7, <1>8, <1>9, Settle

LpcType == {"idle", "open_cb", "read_cb", "write_cb", "error_cb", "close_cb"}

\* The references that come and go with a step of the loop thread.
LoopRefs == OpenRef + ReadRef + Len(wr) + RunRef + CallRef

\* They are a number, before and after.
LEMMA LoopRefsInt ==
  ASSUME LoopTypes, LoopTypes'
  PROVE  /\ LoopRefs \in Int /\ Others = LoopRefs + Held(hold) /\ Held(hold) \in Nat
         /\ LoopRefs' \in Int /\ Others' = LoopRefs' + Held(hold')
<1>1. /\ IsSeq(wr) /\ hold \in [Caller -> BOOLEAN] /\ opens \in Int
      /\ IsSeq(wr') /\ hold' \in [Caller -> BOOLEAN] /\ opens' \in Int
  BY DEF LoopTypes
<1>2. Len(wr) \in Nat /\ Len(wr') \in Nat
  BY <1>1, LenEffect
<1>3. Held(hold) \in Nat /\ Held(hold') \in Nat
  BY <1>1, HeldEffect
<1>4. OpenRef \in Int /\ ReadRef \in Nat /\ RunRef \in Nat /\ CallRef \in Nat
  BY <1>1 DEF OpenRef, ReadRef, RunRef, CallRef, One
<1>5. OpenRef' \in Int /\ ReadRef' \in Nat /\ RunRef' \in Nat /\ CallRef' \in Nat
  BY <1>1 DEF OpenRef, ReadRef, RunRef, CallRef, One
<1>6. LoopRefs \in Int /\ Others = LoopRefs + Held(hold)
  BY <1>2, <1>3, <1>4 DEF LoopRefs, Others
<1>7. LoopRefs' \in Int /\ Others' = LoopRefs' + Held(hold')
  BY <1>2, <1>3, <1>5, SMTT(20) DEF LoopRefs, Others
<1> QED BY <1>3, <1>6, <1>7

\* The step leaves the count at f and the closures at c, with z references
\* still to release.
Balanced(f, c, z) ==
  f.cnt + LoopRefs + Posted(q, "write") = flag.cnt + LoopRefs' + Posted(c, "write") + z

\* A step of the loop thread that hands out no reference, and leaves the
\* thread idle or with the release of a posted write to do.
LEMMA LoopSettle ==
  ASSUME IInv, Busy, UNCHANGED <<st, hold, opens, calls>>, Telling',
         rd' \in BOOLEAN, IsSeq(wr'), lpc' \in LpcType, pc' \in [Caller -> PcType],
         pc[Loop] \notin {"close", "end"}, pc'[Loop] \in {"idle", "remains_release"},
         \A u \in Caller : u # Loop => pc'[u] = pc[u],
         NEW f \in FlagType, NEW c \in Seq(Closure), ~IsZero(f), f.error = flag.error,
         Posted(c, "open") = 0, Posted(c, "end") = 0,
         Posted(c, "close") + One(f.close) = Posted(q, "close") + One(flag.close),
         \/ flag' = f /\ q' = c /\ Balanced(f, c, 0)
         \/ ReleaseOn(f, c) /\ Balanced(f, c, 1)
  PROVE  IInv'
<1>1. st' = "live" /\ opens' > 0 /\ About(pc, "end") = 0
  BY InUse
<1>2. LoopTypes'
  BY DEF IInv, Types, LoopTypes, LpcType, PcType
<1>3. pc \in [Caller -> PcType] /\ Loop \in Caller
  BY CallerFinite DEF IInv, Types, LoopTypes, PcType
<1>4. About(pc', "close") = About(pc, "close")
  <2>1. pc[Loop] # "close" /\ pc'[Loop] # "close"
    OBVIOUS
  <2> QED BY <1>3, <2>1, AboutMove
<1>5. About(pc', "end") = 0
  <2>1. pc[Loop] # "end" /\ pc'[Loop] # "end"
    OBVIOUS
  <2> QED BY <1>1, <1>3, <2>1, AboutMove
<1>6. Holding'
  <2> SUFFICES ASSUME NEW u \in Caller
               PROVE  /\ pc'[u] \notin {"idle", "end"} =>
                           \/ hold'[u]
                           \/ u = Loop /\ (lpc' # "idle" \/ pc'[u] = "remains_release")
                      /\ pc'[u] \in {"remains", "remains_release"} => u = Loop
    BY DEF Holding
  <2>1. CASE u = Loop
    BY <2>1
  <2>2. CASE u # Loop
    BY <2>2 DEF IInv, Holding
  <2> QED BY <2>1, <2>2
<1>7. /\ About(pc', "close") + Posted(c, "close") + calls'.error + One(f.close) = 1
      /\ f.error <=> calls'.error = 0
  <2>1. /\ About(pc, "close") \in Nat /\ calls.error \in Nat /\ Posted(q, "close") \in Nat
    BY Numbers DEF Kind
  <2>2. Posted(c, "close") \in Nat
    BY PostedNat DEF Kind
  <2>3. One(f.close) \in Nat /\ One(flag.close) \in Nat
    BY DEF One
  <2>4. /\ About(pc, "close") + Posted(q, "close") + calls.error + One(flag.close) = 1
        /\ flag.error <=> calls.error = 0
    BY DEF IInv, Closing
  <2>5. calls' = calls
    OBVIOUS
  <2> QED BY <1>4, <2>1, <2>2, <2>3, <2>4, <2>5
<1>8. /\ LoopRefs \in Int /\ LoopRefs' \in Int /\ Held(hold) \in Nat
      /\ Others = LoopRefs + Held(hold) /\ Others' = LoopRefs' + Held(hold)
  BY <1>2, LoopRefsInt DEF IInv, Types
<1>9. Posted(q, "write") \in Nat /\ flag.cnt \in Nat /\ flag.cnt = Others + Posted(q, "write")
  BY Amounts
<1>10. Posted(c, "write") \in Nat /\ f.cnt \in Nat
  BY PostedNat DEF Kind, FlagType
<1>11. \/ flag' = f /\ q' = c /\ f.cnt = Others' + Posted(c, "write")
       \/ ReleaseOn(f, c) /\ f.cnt = 1 + Others' + Posted(c, "write")
  <2> DEFINE h == Held(hold)
             l == LoopRefs
             m == LoopRefs'
             w == Posted(q, "write")
             x == Posted(c, "write")
             n == flag.cnt
             k == f.cnt
  <2>1. /\ h \in Nat /\ l \in Int /\ m \in Int /\ w \in Nat /\ x \in Nat /\ k \in Nat /\ n = (l + h) + w
        /\ Others' = m + h
    BY <1>8, <1>9, <1>10
  <2>2. \/ flag' = f /\ q' = c /\ k + l + w = n + m + x + 0
        \/ ReleaseOn(f, c) /\ k + l + w = n + m + x + 1
    BY DEF Balanced
  <2> HIDE DEF h, l, m, w, x, n, k
  <2>3. k + l + w = n + m + x + 0 => k = (m + h) + x
    BY <2>1
  <2>4. k + l + w = n + m + x + 1 => k = 1 + (m + h) + x
    BY <2>1
  <2>5. \/ flag' = f /\ q' = c /\ k = Others' + x
        \/ ReleaseOn(f, c) /\ k = 1 + Others' + x
    BY <2>1, <2>2, <2>3, <2>4
  <2> QED BY <2>5 DEF k, x
<1> QED BY <1>1, <1>2, <1>5, <1>6, <1>7, <1>11, Settle

\* The closure of a write or of a close is taken from the queue.
LEMMA TakeStep ==
  ASSUME IInv, q # <<>>, NEW k \in {"write", "close"}, Head(q).k = k
  PROVE  /\ Busy /\ Tail(q) \in Seq(Closure) /\ Posted(q, k) = Posted(Tail(q), k) + 1
         /\ \A j \in Kind : j # k => Posted(Tail(q), j) = Posted(q, j)
         /\ Posted(Tail(q), "open") = 0 /\ Posted(Tail(q), "end") = 0
         /\ \A j \in Kind : Posted(Tail(q), j) \in Nat
<1>1. Busy
  BY DEF Busy
<1>2. Posted(q, "open") = 0 /\ Posted(q, "end") = 0
  BY <1>1, InUse
<1>3. q \in Seq(Closure) /\ k \in Kind
  BY DEF IInv, Types, Kind
<1>4. /\ Tail(q) \in Seq(Closure) /\ Posted(q, k) = Posted(Tail(q), k) + 1
      /\ \A j \in Kind : j # k => Posted(Tail(q), j) = Posted(q, j)
  BY <1>3, TakeEffect
<1>5. \A j \in Kind : Posted(Tail(q), j) \in Nat
  BY <1>4, PostedNat
<1> QED BY <1>1, <1>2, <1>4, <1>5 DEF Kind

\* The state of a thread and of the channel that a step of the loop starts from.
LEMMA LoopState ==
  ASSUME IInv, Busy
  PROVE  /\ flag \in FlagType /\ q \in Seq(Closure) /\ rd \in BOOLEAN /\ IsSeq(wr) /\ lpc \in LpcType
         /\ pc \in [Caller -> PcType] /\ ~IsZero(flag) /\ flag.cnt \in Nat
         /\ Posted(q, "open") = 0 /\ Posted(q, "end") = 0
         /\ Posted(q, "write") \in Nat /\ Posted(q, "close") \in Nat
         /\ OpenRef \in Int /\ ReadRef \in Nat /\ RunRef \in Nat /\ CallRef \in Nat /\ Len(wr) \in Nat
<1>1. /\ flag \in FlagType /\ q \in Seq(Closure) /\ rd \in BOOLEAN /\ IsSeq(wr) /\ lpc \in LpcType
      /\ pc \in [Caller -> PcType]
  BY DEF IInv, Types, LoopTypes, PcType, LpcType
<1>2. ~IsZero(flag) /\ Posted(q, "open") = 0 /\ Posted(q, "end") = 0
  BY InUse
<1> QED BY <1>1, <1>2, Numbers DEF Kind

\* The closure of a write is run.
LEMMA RunWriteStep ==
  ASSUME IInv, run_write PROVE IInv'
<1>1. /\ q # <<>> /\ Head(q).k = "write" /\ lpc = "idle" /\ pc[Loop] = "idle"
      /\ UNCHANGED <<st, fd, rd, wr, lpc, hold, opens, calls>>
      /\ \/ pc' = [pc EXCEPT ![Loop] = "remains_release"] /\ flag' = flag /\ q' = Tail(q)
         \/ pc' = [pc EXCEPT ![Loop] = "idle"] /\ ReleaseOn(flag, Tail(q))
         \/ pc' = pc /\ ReleaseOn(flag, Tail(q))
  BY DEF run_write, Runs, LoopAt, push, ioVars, loopVars
<1>2. /\ Busy /\ Tail(q) \in Seq(Closure) /\ Posted(q, "write") = Posted(Tail(q), "write") + 1
      /\ Posted(Tail(q), "close") = Posted(q, "close") /\ Posted(Tail(q), "write") \in Nat
      /\ Posted(Tail(q), "open") = 0 /\ Posted(Tail(q), "end") = 0
  BY <1>1, TakeStep DEF Kind
<1>3. /\ flag \in FlagType /\ rd \in BOOLEAN /\ IsSeq(wr) /\ lpc \in LpcType
      /\ pc \in [Caller -> PcType] /\ ~IsZero(flag) /\ flag.cnt \in Nat
      /\ OpenRef \in Int /\ ReadRef \in Nat /\ RunRef \in Nat /\ CallRef \in Nat /\ Len(wr) \in Nat
  BY <1>2, LoopState
<1>4. Telling'
  BY <1>1 DEF IInv, Telling
<1>5. /\ rd' \in BOOLEAN /\ IsSeq(wr') /\ lpc' \in LpcType
      /\ pc' \in [Caller -> PcType] /\ pc'[Loop] \in {"idle", "remains_release"}
      /\ \A u \in Caller : u # Loop => pc'[u] = pc[u]
  BY <1>1, <1>3, CallerFinite DEF PcType
<1>6. UNCHANGED <<OpenRef, ReadRef, CallRef>> /\ Len(wr') = Len(wr)
  BY <1>1 DEF OpenRef, ClosedDone, ReadRef, CallRef
<1>7. \/ flag' = flag /\ q' = Tail(q) /\ LoopRefs' = LoopRefs + 1
      \/ ReleaseOn(flag, Tail(q)) /\ LoopRefs' = LoopRefs
  <2>1. CASE pc' = [pc EXCEPT ![Loop] = "remains_release"] /\ flag' = flag /\ q' = Tail(q)
    <3>1. RunRef = 0 /\ RunRef' = 1
      BY <1>1, <1>3, <2>1, CallerFinite DEF RunRef, One
    <3> QED BY <1>3, <1>6, <2>1, <3>1 DEF LoopRefs
  <2>2. CASE pc'[Loop] = "idle" /\ ReleaseOn(flag, Tail(q))
    <3>1. RunRef = 0 /\ RunRef' = 0
      BY <1>1, <2>2 DEF RunRef, One
    <3> QED BY <1>3, <1>6, <2>2, <3>1 DEF LoopRefs
  <2>3. pc' = [pc EXCEPT ![Loop] = "idle"] \/ pc' = pc => pc'[Loop] = "idle"
    BY <1>1, <1>3, CallerFinite
  <2> QED BY <1>1, <2>1, <2>2, <2>3
<1>8. \/ flag' = flag /\ q' = Tail(q) /\ Balanced(flag, Tail(q), 0)
      \/ ReleaseOn(flag, Tail(q)) /\ Balanced(flag, Tail(q), 1)
  <2> DEFINE l == LoopRefs
             w == Posted(Tail(q), "write")
             n == flag.cnt
  <2>1. l \in Int /\ w \in Int /\ n \in Int
    BY <1>2, <1>3 DEF LoopRefs
  <2> HIDE DEF l, w, n
  <2>2. n + l + (w + 1) = n + (l + 1) + w + 0 /\ n + l + (w + 1) = n + l + w + 1
    BY <2>1
  <2> QED BY <1>2, <1>7, <2>2 DEF Balanced, l, w, n
<1> QED BY <1>1, <1>2, <1>3, <1>4, <1>5, <1>8, LoopSettle

\* When a step is balanced that runs no closure of a write.
LEMMA BalancedWhen ==
  ASSUME LoopRefs \in Int, flag.cnt \in Int, NEW f, NEW c,
         Posted(c, "write") = Posted(q, "write"), Posted(q, "write") \in Int
  PROVE  /\ f.cnt = flag.cnt /\ LoopRefs' = LoopRefs => Balanced(f, c, 0)
         /\ f.cnt = flag.cnt /\ LoopRefs' = LoopRefs - 1 => Balanced(f, c, 1)
         /\ f.cnt = flag.cnt + 1 /\ LoopRefs' = LoopRefs + 1 => Balanced(f, c, 0)
         /\ f.cnt = flag.cnt + 1 /\ LoopRefs' = LoopRefs => Balanced(f, c, 1)
<1> DEFINE l == LoopRefs
           w == Posted(q, "write")
           n == flag.cnt
<1>1. l \in Int /\ w \in Int /\ n \in Int
  OBVIOUS
<1> HIDE DEF l, w, n
<1>2. /\ n + l + w = n + l + w + 0 /\ n + l + w = n + (l - 1) + w + 1
      /\ (n + 1) + l + w = n + (l + 1) + w + 0 /\ (n + 1) + l + w = n + l + w + 1
  BY <1>1
<1> QED BY <1>2 DEF Balanced, l, w, n

\* An error closes the channel as close does, and posts the closure itself.
LEMMA CloseReleaseEffect ==
  ASSUME IInv, Busy, flag.close, CloseAndRelease,
         NEW f, f = [flag EXCEPT !.close = FALSE], NEW c, c = Append(q, C("close"))
  PROVE  /\ f \in FlagType /\ f.cnt = flag.cnt /\ f.error = flag.error /\ ~IsZero(f) /\ ReleaseOn(f, c)
         /\ c \in Seq(Closure) /\ Posted(c, "open") = 0 /\ Posted(c, "end") = 0
         /\ Posted(c, "write") = Posted(q, "write")
         /\ Posted(c, "close") + One(f.close) = Posted(q, "close") + One(flag.close)
<1>1. /\ flag \in FlagType /\ q \in Seq(Closure) /\ Posted(q, "open") = 0 /\ Posted(q, "end") = 0
      /\ Posted(q, "close") \in Nat
  BY LoopState
<1>2. f \in FlagType /\ f.cnt = flag.cnt /\ f.error = flag.error /\ ~f.close
  BY <1>1 DEF FlagType
<1>3. flag.error
  <2>1. About(pc, "close") + Posted(q, "close") + calls.error + 1 = 1
    BY DEF IInv, Closing, One
  <2>2. About(pc, "close") \in Nat /\ calls.error \in Nat
    BY Numbers
  <2>3. calls.error = 0
    BY <1>1, <2>1, <2>2
  <2> QED BY <2>3 DEF IInv, Closing
<1>4. Release(f).error
  BY <1>2, <1>3 DEF Release, FlagType
<1>5. ~IsZero(f) /\ ReleaseOn(f, c)
  BY <1>2, <1>3, <1>4 DEF IsZero, ReleaseOn, CloseAndRelease
<1>6. C("close") \in Closure /\ C("close").k = "close"
  BY Closures
<1>7. /\ c \in Seq(Closure)
      /\ \A k \in Kind : /\ C("close").k = k => Posted(c, k) = Posted(q, k) + 1
                         /\ C("close").k # k => Posted(c, k) = Posted(q, k)
  BY <1>1, <1>6, PostEffect
<1>8. Posted(c, "close") = Posted(q, "close") + 1 /\ Posted(c, "open") = 0 /\ Posted(c, "end") = 0
      /\ Posted(c, "write") = Posted(q, "write")
  BY <1>1, <1>6, <1>7 DEF Kind
<1>9. One(f.close) = 0 /\ One(flag.close) = 1
  BY <1>2 DEF One
<1>10. Posted(c, "close") + One(f.close) = Posted(q, "close") + One(flag.close)
  <2> DEFINE x == One(f.close)
             y == One(flag.close)
             m == Posted(c, "close")
             n == Posted(q, "close")
  <2>1. x = 0 /\ y = 1 /\ m = n + 1 /\ n \in Nat
    BY <1>1, <1>8, <1>9
  <2> HIDE DEF x, y, m, n
  <2>2. m + x = n + y
    BY <2>1
  <2> QED BY <2>2 DEF x, y, m, n
<1> QED BY <1>2, <1>5, <1>7, <1>8, <1>10

\* A step of the loop thread, between calls of filters, that runs no closure
\* of a write.
LEMMA IdleSettle ==
  ASSUME IInv, Busy, pc[Loop] = "idle", UNCHANGED <<st, hold, pc, opens, calls>>, Telling',
         rd' \in BOOLEAN, IsSeq(wr'), lpc' \in LpcType,
         \/ flag' = flag /\ q' = q /\ LoopRefs' = LoopRefs
         \/ ReleaseOn(flag, q) /\ LoopRefs' = LoopRefs - 1
         \/ flag.close /\ CloseAndRelease /\ LoopRefs' = LoopRefs - 1
         \/ flag.close /\ ReleaseOn(AddRef(flag), q) /\ LoopRefs' = LoopRefs
  PROVE  IInv'
<1>1. /\ flag \in FlagType /\ q \in Seq(Closure) /\ pc' \in [Caller -> PcType] /\ ~IsZero(flag)
      /\ flag.cnt \in Nat /\ Posted(q, "open") = 0 /\ Posted(q, "end") = 0 /\ Posted(q, "write") \in Nat
  BY LoopState
<1>2. LoopRefs \in Int
  BY LoopState DEF LoopRefs
<1>3. pc[Loop] \notin {"close", "end"} /\ pc'[Loop] \in {"idle", "remains_release"}
      /\ \A u \in Caller : u # Loop => pc'[u] = pc[u]
  OBVIOUS
<1>4. CASE flag' = flag /\ q' = q /\ LoopRefs' = LoopRefs
  <2>1. Balanced(flag, q, 0)
    BY <1>1, <1>2, <1>4, BalancedWhen
  <2> QED BY <1>1, <1>3, <1>4, <2>1, LoopSettle
<1>5. CASE ReleaseOn(flag, q) /\ LoopRefs' = LoopRefs - 1
  <2>1. Balanced(flag, q, 1)
    BY <1>1, <1>2, <1>5, BalancedWhen
  <2> QED BY <1>1, <1>3, <1>5, <2>1, LoopSettle
<1>6. CASE flag.close /\ CloseAndRelease /\ LoopRefs' = LoopRefs - 1
  <2> DEFINE f == [flag EXCEPT !.close = FALSE]
             c == Append(q, C("close"))
  <2> HIDE DEF f, c
  <2>1. /\ f \in FlagType /\ f.cnt = flag.cnt /\ f.error = flag.error /\ ~IsZero(f) /\ ReleaseOn(f, c)
        /\ c \in Seq(Closure) /\ Posted(c, "open") = 0 /\ Posted(c, "end") = 0
        /\ Posted(c, "write") = Posted(q, "write")
        /\ Posted(c, "close") + One(f.close) = Posted(q, "close") + One(flag.close)
    BY <1>6, CloseReleaseEffect DEF f, c
  <2>2. Balanced(f, c, 1)
    BY <1>1, <1>2, <1>6, <2>1, BalancedWhen
  <2> QED BY <1>1, <1>3, <2>1, <2>2, LoopSettle
<1>7. CASE flag.close /\ ReleaseOn(AddRef(flag), q) /\ LoopRefs' = LoopRefs
  <2> DEFINE f == AddRef(flag)
  <2> HIDE DEF f
  <2>1. f \in FlagType /\ f.cnt = flag.cnt + 1 /\ f.error = flag.error /\ f.close = flag.close /\ ~IsZero(f)
    BY <1>1, FlagEffect DEF f
  <2>2. Balanced(f, q, 1) /\ ReleaseOn(f, q)
    BY <1>1, <1>2, <1>7, <2>1, BalancedWhen DEF f
  <2> QED BY <1>1, <1>3, <2>1, <2>2, LoopSettle
<1> QED BY <1>4, <1>5, <1>6, <1>7

\* The outstanding read fails.
LEMMA ReadErrorStep ==
  ASSUME IInv, read_error PROVE IInv'
<1>1. /\ lpc = "idle" /\ pc[Loop] = "idle" /\ rd /\ ~rd' /\ rd' \in BOOLEAN
      /\ UNCHANGED <<st, fd, wr, lpc, hold, pc, opens, calls>>
      /\ (flag.close /\ CloseAndRelease) \/ ReleaseOn(flag, q)
  BY DEF read_error, LoopAt, contains_close, loopVars, history
<1>2. Busy
  BY <1>1 DEF Busy
<1>3. /\ IsSeq(wr') /\ lpc' \in LpcType
      /\ OpenRef \in Int /\ ReadRef \in Nat /\ RunRef \in Nat /\ CallRef \in Nat /\ Len(wr) \in Nat
  BY <1>1, <1>2, LoopState
<1>4. Telling'
  BY <1>1 DEF IInv, Telling
<1>5. LoopRefs' = LoopRefs - 1
  <2>1. UNCHANGED <<OpenRef, RunRef, CallRef>> /\ Len(wr') = Len(wr)
    BY <1>1 DEF OpenRef, ClosedDone, RunRef, CallRef
  <2>2. ReadRef = 1 /\ ReadRef' = 0
    BY <1>1 DEF ReadRef, One
  <2> QED BY <1>3, <2>1, <2>2 DEF LoopRefs
<1> QED BY <1>1, <1>2, <1>3, <1>4, <1>5, IdleSettle

\* The outstanding read brings data: its reference goes over to the callback.
LEMMA ReadDataStep ==
  ASSUME IInv, read_data PROVE IInv'
<1>1. /\ lpc = "idle" /\ pc[Loop] = "idle" /\ rd /\ ~rd' /\ rd' \in BOOLEAN
      /\ UNCHANGED <<st, fd, wr, hold, pc, opens, calls>>
      /\ \/ flag.close /\ lpc' = "read_cb" /\ flag' = flag /\ q' = q
         \/ lpc' = lpc /\ ReleaseOn(flag, q)
  BY DEF read_data, LoopAt, contains_close
<1>2. Busy
  BY <1>1 DEF Busy
<1>3. /\ IsSeq(wr') /\ lpc' \in LpcType
      /\ OpenRef \in Int /\ ReadRef \in Nat /\ RunRef \in Nat /\ CallRef \in Nat /\ Len(wr) \in Nat
  BY <1>1, <1>2, LoopState DEF LpcType
<1>4. flag.close => calls.error = 0
  <2>1. About(pc, "close") \in Nat /\ calls.error \in Nat /\ Posted(q, "close") \in Nat
    BY Numbers DEF Kind
  <2> QED BY <2>1 DEF IInv, Closing, One
<1>5. Telling'
  BY <1>1, <1>4 DEF IInv, Telling, One
<1>6. UNCHANGED <<OpenRef, RunRef>> /\ Len(wr') = Len(wr)
  BY <1>1 DEF OpenRef, ClosedDone, RunRef
<1>7. ReadRef = 1 /\ ReadRef' = 0 /\ CallRef = 0
  BY <1>1 DEF ReadRef, CallRef, One
<1>8. CASE lpc' = "read_cb" /\ flag' = flag /\ q' = q
  <2>1. CallRef' = 1
    BY <1>8 DEF CallRef, One
  <2>2. LoopRefs' = LoopRefs
    BY <1>3, <1>6, <1>7, <2>1 DEF LoopRefs
  <2> QED BY <1>1, <1>2, <1>3, <1>5, <1>8, <2>2, IdleSettle
<1>9. CASE lpc' = lpc /\ ReleaseOn(flag, q)
  <2>1. CallRef' = 0
    BY <1>1, <1>9 DEF CallRef, One
  <2>2. LoopRefs' = LoopRefs - 1
    BY <1>3, <1>6, <1>7, <2>1 DEF LoopRefs
  <2> QED BY <1>1, <1>2, <1>3, <1>5, <1>9, <2>2, IdleSettle
<1> QED BY <1>1, <1>8, <1>9

\* The oldest write fails.
LEMMA WriteErrorStep ==
  ASSUME IInv, write_error PROVE IInv'
<1>1. /\ lpc = "idle" /\ pc[Loop] = "idle" /\ wr # <<>> /\ wr' = Tail(wr)
      /\ UNCHANGED <<st, fd, rd, lpc, hold, pc, opens, calls>>
      /\ (flag.close /\ CloseAndRelease) \/ ReleaseOn(flag, q)
  BY DEF write_error, LoopAt, contains_close, loopVars, history
<1>2. Busy
  BY <1>1 DEF Busy
<1>3. /\ rd' \in BOOLEAN /\ lpc' \in LpcType /\ IsSeq(wr)
      /\ OpenRef \in Int /\ ReadRef \in Nat /\ RunRef \in Nat /\ CallRef \in Nat /\ Len(wr) \in Nat
  BY <1>1, <1>2, LoopState
<1>4. Telling'
  BY <1>1 DEF IInv, Telling
<1>5. IsSeq(wr') /\ Len(wr') = Len(wr) - 1
  BY <1>1, <1>3, LenEffect
<1>6. LoopRefs' = LoopRefs - 1
  <2>1. UNCHANGED <<OpenRef, ReadRef, RunRef, CallRef>>
    BY <1>1 DEF OpenRef, ClosedDone, ReadRef, RunRef, CallRef
  <2> QED BY <1>3, <1>5, <2>1 DEF LoopRefs
<1> QED BY <1>1, <1>2, <1>3, <1>4, <1>5, <1>6, IdleSettle

\* The oldest write is done: its reference goes over to the callback.
LEMMA WriteDoneStep ==
  ASSUME IInv, write_done PROVE IInv'
<1>1. /\ lpc = "idle" /\ pc[Loop] = "idle" /\ wr # <<>> /\ wr' = Tail(wr)
      /\ UNCHANGED <<st, fd, rd, hold, pc, opens, calls>>
      /\ \/ flag.close /\ lpc' = "write_cb" /\ flag' = flag /\ q' = q
         \/ lpc' = lpc /\ ReleaseOn(flag, q)
  BY DEF write_done, LoopAt, contains_close
<1>2. Busy
  BY <1>1 DEF Busy
<1>3. /\ rd' \in BOOLEAN /\ lpc' \in LpcType /\ IsSeq(wr)
      /\ OpenRef \in Int /\ ReadRef \in Nat /\ RunRef \in Nat /\ CallRef \in Nat /\ Len(wr) \in Nat
  BY <1>1, <1>2, LoopState DEF LpcType
<1>4. flag.close => calls.error = 0
  <2>1. About(pc, "close") \in Nat /\ calls.error \in Nat /\ Posted(q, "close") \in Nat
    BY Numbers DEF Kind
  <2> QED BY <2>1 DEF IInv, Closing, One
<1>5. Telling'
  BY <1>1, <1>4 DEF IInv, Telling, One
<1>6. UNCHANGED <<OpenRef, RunRef, ReadRef>>
  BY <1>1 DEF OpenRef, ClosedDone, RunRef, ReadRef
<1>7. CallRef = 0 /\ IsSeq(wr') /\ Len(wr') = Len(wr) - 1
  BY <1>1, <1>3, LenEffect DEF CallRef, One
<1>8. CASE lpc' = "write_cb" /\ flag' = flag /\ q' = q
  <2>1. CallRef' = 1
    BY <1>8 DEF CallRef, One
  <2>2. LoopRefs' = LoopRefs
    BY <1>3, <1>6, <1>7, <2>1 DEF LoopRefs
  <2> QED BY <1>1, <1>2, <1>3, <1>5, <1>7, <1>8, <2>2, IdleSettle
<1>9. CASE lpc' = lpc /\ ReleaseOn(flag, q)
  <2>1. CallRef' = 0
    BY <1>1, <1>9 DEF CallRef, One
  <2>2. LoopRefs' = LoopRefs - 1
    BY <1>3, <1>6, <1>7, <2>1 DEF LoopRefs
  <2> QED BY <1>1, <1>2, <1>3, <1>5, <1>7, <1>9, <2>2, IdleSettle
<1> QED BY <1>1, <1>8, <1>9

\* The filters have the data: the channel reads again, unless it is closed.
LEMMA ReadReturnStep ==
  ASSUME IInv, read_return PROVE IInv'
<1>1. /\ lpc = "read_cb" /\ pc[Loop] = "idle" /\ lpc' = "idle"
      /\ UNCHANGED <<st, fd, wr, hold, pc, opens, calls>>
      /\ \/ flag.close /\ read(Release(flag)) /\ q' = q
         \/ ReleaseOn(flag, q) /\ rd' = rd
  BY DEF read_return, LoopAt, contains_close, history
<1>2. Busy
  BY <1>1 DEF Busy
<1>3. /\ IsSeq(wr') /\ lpc' \in LpcType /\ flag \in FlagType /\ rd \in BOOLEAN
      /\ OpenRef \in Int /\ ReadRef \in Nat /\ RunRef \in Nat /\ CallRef \in Nat /\ Len(wr) \in Nat
  BY <1>1, <1>2, LoopState DEF LpcType
<1>4. ~rd
  BY <1>1 DEF IInv, Telling
<1>5. Telling'
  BY <1>1, <1>4 DEF IInv, Telling, One
<1>6. UNCHANGED <<OpenRef, RunRef>> /\ Len(wr') = Len(wr)
  BY <1>1 DEF OpenRef, ClosedDone, RunRef
<1>7. CallRef = 1 /\ CallRef' = 0 /\ ReadRef = 0
  BY <1>1, <1>4 DEF CallRef, ReadRef, One
<1>8. CASE flag.close /\ read(Release(flag)) /\ q' = q
  <2>1. Release(flag).close = flag.close
    BY <1>3 DEF FlagType, Release
  <2>2. rd' = TRUE /\ flag' = AddRef(Release(flag))
    BY <1>3, <1>8, <2>1 DEF read, contains_close, FlagType
  <2>3. AddRef(Release(flag)) = flag
    <3> DEFINE F == [error: BOOLEAN, close: BOOLEAN, cnt: Int]
               g == AddRef(Release(flag))
    <3>1. flag \in F /\ flag.cnt \in Int
      BY <1>3 DEF FlagType
    <3>2. Release(flag) \in F /\ Release(flag).cnt = flag.cnt - 1
          /\ Release(flag).error = flag.error /\ Release(flag).close = flag.close
      BY <3>1 DEF Release
    <3>3. g \in F /\ g.cnt = (flag.cnt - 1) + 1 /\ g.error = flag.error /\ g.close = flag.close
      BY <3>1, <3>2 DEF AddRef
    <3>4. \A a, b \in F : a.error = b.error /\ a.close = b.close /\ a.cnt = b.cnt => a = b
      OBVIOUS
    <3>5. g.cnt = flag.cnt
      BY <3>1, <3>3
    <3> HIDE DEF F, g
    <3>6. g = flag
      BY <3>1, <3>3, <3>4, <3>5
    <3> QED BY <3>6 DEF g
  <2>4. ReadRef' = 1
    BY <2>2 DEF ReadRef, One
  <2>5. LoopRefs' = LoopRefs
    BY <1>3, <1>6, <1>7, <2>4 DEF LoopRefs
  <2> QED BY <1>1, <1>2, <1>3, <1>5, <1>8, <2>2, <2>3, <2>5, IdleSettle
<1>9. CASE ReleaseOn(flag, q) /\ rd' = rd
  <2>1. ReadRef' = ReadRef
    BY <1>9 DEF ReadRef
  <2>2. LoopRefs' = LoopRefs - 1
    BY <1>3, <1>6, <1>7, <2>1 DEF LoopRefs
  <2> QED BY <1>1, <1>2, <1>3, <1>5, <1>9, <2>2, IdleSettle
<1> QED BY <1>1, <1>8, <1>9

\* The filters know of the written bytes: what is left is written, unless the
\* channel is closed.
LEMMA WriteReturnStep ==
  ASSUME IInv, write_return PROVE IInv'
<1>1. /\ lpc = "write_cb" /\ pc[Loop] = "idle" /\ lpc' = "idle"
      /\ UNCHANGED <<st, fd, rd, hold, pc, opens, calls>>
      /\ \/ flag.close /\ wr' = Append(wr, bufs) /\ ReleaseOn(AddRef(flag), q)
         \/ wr' = wr /\ ReleaseOn(flag, q)
  BY DEF write_return, LoopAt, start_remains, Remains, contains_close, history
<1>2. Busy
  BY <1>1 DEF Busy
<1>3. /\ IsSeq(wr) /\ lpc' \in LpcType /\ flag \in FlagType /\ rd' \in BOOLEAN
      /\ OpenRef \in Int /\ ReadRef \in Nat /\ RunRef \in Nat /\ CallRef \in Nat /\ Len(wr) \in Nat
  BY <1>1, <1>2, LoopState DEF LpcType
<1>4. Telling'
  BY <1>1 DEF IInv, Telling, One
<1>5. UNCHANGED <<OpenRef, RunRef, ReadRef>>
  BY <1>1 DEF OpenRef, ClosedDone, RunRef, ReadRef
<1>6. CallRef = 1 /\ CallRef' = 0
  BY <1>1 DEF CallRef, One
<1>7. CASE flag.close /\ wr' = Append(wr, bufs) /\ ReleaseOn(AddRef(flag), q)
  <2>1. IsSeq(wr') /\ Len(wr') = Len(wr) + 1
    BY <1>3, <1>7, LenEffect
  <2>2. LoopRefs' = LoopRefs
    BY <1>3, <1>5, <1>6, <2>1 DEF LoopRefs
  <2> QED BY <1>1, <1>2, <1>3, <1>4, <1>7, <2>1, <2>2, IdleSettle
<1>8. CASE wr' = wr /\ ReleaseOn(flag, q)
  <2>1. LoopRefs' = LoopRefs - 1
    BY <1>3, <1>5, <1>6, <1>8 DEF LoopRefs
  <2> QED BY <1>1, <1>2, <1>3, <1>4, <1>8, <2>1, IdleSettle
<1> QED BY <1>1, <1>7, <1>8

\* The filters know of the close: the reference of the open is given back.
LEMMA CloseReturnStep ==
  ASSUME IInv, close_return PROVE IInv'
<1>1. /\ lpc = "close_cb" /\ pc[Loop] = "idle" /\ lpc' = "idle" /\ ReleaseOn(flag, q)
      /\ UNCHANGED <<st, fd, rd, wr, hold, pc, opens, calls>>
  BY DEF close_return, LoopAt, ioVars, history
<1>2. Busy
  BY <1>1 DEF Busy
<1>3. /\ IsSeq(wr') /\ lpc' \in LpcType /\ rd' \in BOOLEAN
      /\ OpenRef \in Int /\ ReadRef \in Nat /\ RunRef \in Nat /\ CallRef \in Nat /\ Len(wr) \in Nat
  BY <1>1, <1>2, LoopState DEF LpcType
<1>4. Telling'
  BY <1>1 DEF IInv, Telling, One
<1>5. LoopRefs' = LoopRefs - 1
  <2>1. UNCHANGED <<RunRef, ReadRef>> /\ Len(wr') = Len(wr)
    BY <1>1 DEF RunRef, ReadRef
  <2>2. CallRef = 0 /\ CallRef' = 0
    BY <1>1 DEF CallRef, One
  <2>3. ~ClosedDone /\ ClosedDone'
    BY <1>1 DEF IInv, Telling, ClosedDone
  <2>4. OpenRef' = OpenRef - 1
    <3>1. OpenRef = opens - 0 /\ OpenRef' = opens - 1 /\ opens \in Int
      BY <1>1, <2>3, Numbers DEF OpenRef, One
    <3> QED BY <3>1
  <2> QED BY <1>3, <2>1, <2>2, <2>4 DEF LoopRefs
<1> QED BY <1>1, <1>2, <1>3, <1>4, <1>5, IdleSettle

\* write_remains, with the release of a posted write if it was one.
LEMMA WriteRemainsStep ==
  ASSUME IInv, write_remains PROVE IInv'
<1>1. /\ pc[Loop] \in {"remains", "remains_release"} /\ pc' = [pc EXCEPT ![Loop] = "idle"]
      /\ UNCHANGED <<st, fd, rd, lpc, hold, opens, calls>>
      /\ \/ pc[Loop] = "remains" /\ flag' = Remains(flag) /\ q' = q
         \/ pc[Loop] = "remains_release" /\ ReleaseOn(Remains(flag), q)
      /\ wr' = IF flag.close THEN Append(wr, bufs) ELSE wr
  BY DEF write_remains, start_remains, contains_close, loopVars, history
<1>2. Busy
  BY <1>1, CallerFinite DEF Busy
<1>3. /\ flag \in FlagType /\ q \in Seq(Closure) /\ IsSeq(wr) /\ lpc' \in LpcType /\ rd' \in BOOLEAN
      /\ pc \in [Caller -> PcType] /\ ~IsZero(flag) /\ flag.cnt \in Nat
      /\ Posted(q, "open") = 0 /\ Posted(q, "end") = 0 /\ Posted(q, "write") \in Nat
      /\ OpenRef \in Int /\ ReadRef \in Nat /\ RunRef \in Nat /\ CallRef \in Nat /\ Len(wr) \in Nat
  BY <1>1, <1>2, LoopState
<1>4. Telling'
  BY <1>1 DEF IInv, Telling
<1>5. /\ pc[Loop] \notin {"close", "end"} /\ pc' \in [Caller -> PcType]
      /\ pc'[Loop] = "idle" /\ \A u \in Caller : u # Loop => pc'[u] = pc[u]
  BY <1>1, <1>3, CallerFinite DEF PcType
<1> DEFINE f == Remains(flag)
           o == One(flag.close)
<1>6. /\ f \in FlagType /\ f.cnt = flag.cnt + o /\ f.error = flag.error /\ f.close = flag.close /\ ~IsZero(f)
      /\ IsSeq(wr') /\ Len(wr') = Len(wr) + o /\ o \in {0, 1}
  <2>1. CASE flag.close
    <3>1. f = AddRef(flag) /\ wr' = Append(wr, bufs) /\ o = 1
      BY <1>1, <2>1 DEF Remains, contains_close, One
    <3>2. IsSeq(wr') /\ Len(wr') = Len(wr) + 1
      BY <1>3, <3>1, LenEffect
    <3>3. /\ AddRef(flag) \in FlagType /\ AddRef(flag).cnt = flag.cnt + 1 /\ AddRef(flag).error = flag.error
          /\ AddRef(flag).close = flag.close /\ ~IsZero(AddRef(flag))
      BY <1>3, FlagEffect
    <3> HIDE DEF f, o
    <3> QED BY <3>1, <3>2, <3>3
  <2>2. CASE ~flag.close
    <3>1. f = flag /\ wr' = wr /\ o = 0
      BY <1>1, <2>2 DEF Remains, contains_close, One
    <3> HIDE DEF f, o
    <3> QED BY <1>3, <3>1
  <2> QED BY <2>1, <2>2
<1> HIDE DEF f, o
<1>7. LoopRefs' = (OpenRef + ReadRef + (Len(wr) + o) + 0) + CallRef /\ LoopRefs \in Int
  <2>1. UNCHANGED <<OpenRef, ReadRef, CallRef>>
    BY <1>1 DEF OpenRef, ClosedDone, ReadRef, CallRef
  <2>2. RunRef' = 0
    BY <1>5 DEF RunRef, One
  <2> QED BY <1>3, <1>6, <2>1, <2>2 DEF LoopRefs
<1>8. CASE pc[Loop] = "remains" /\ flag' = f /\ q' = q
  <2>1. RunRef = 0
    BY <1>8 DEF RunRef, One
  <2>2. LoopRefs' = LoopRefs + o
    BY <1>3, <1>6, <1>7, <2>1 DEF LoopRefs
  <2>3. Balanced(f, q, 0)
    <3>1. CASE o = 0
      <4>1. f.cnt = flag.cnt /\ LoopRefs' = LoopRefs
        BY <1>3, <1>6, <1>7, <2>2, <3>1
      <4> QED BY <1>3, <1>7, <4>1, BalancedWhen
    <3>2. CASE o = 1
      BY <1>3, <1>6, <1>7, <2>2, <3>2, BalancedWhen
    <3> QED BY <1>6, <3>1, <3>2
  <2> QED BY <1>1, <1>2, <1>3, <1>4, <1>5, <1>6, <1>8, <2>3, LoopSettle
<1>9. CASE pc[Loop] = "remains_release" /\ ReleaseOn(f, q)
  <2>1. RunRef = 1
    BY <1>9 DEF RunRef, One
  <2>2. LoopRefs' = LoopRefs + o - 1
    BY <1>3, <1>6, <1>7, <2>1 DEF LoopRefs
  <2>3. Balanced(f, q, 1)
    <3>1. CASE o = 0
      <4>1. f.cnt = flag.cnt /\ LoopRefs' = LoopRefs - 1
        BY <1>3, <1>6, <1>7, <2>2, <3>1
      <4> QED BY <1>3, <1>7, <4>1, BalancedWhen
    <3>2. CASE o = 1
      <4>1. f.cnt = flag.cnt + 1 /\ LoopRefs' = LoopRefs
        BY <1>3, <1>6, <1>7, <2>2, <3>2
      <4> QED BY <1>3, <1>7, <4>1, BalancedWhen
    <3> QED BY <1>6, <3>1, <3>2
  <2> QED BY <1>1, <1>2, <1>3, <1>4, <1>5, <1>6, <1>9, <2>3, LoopSettle
<1> QED BY <1>1, <1>8, <1>9 DEF f

\* fire_on_close is run: the bit of the error was set, and is reset.
LEMMA RunCloseStep ==
  ASSUME IInv, run_close PROVE IInv'
<1>1. /\ q # <<>> /\ Head(q).k = "close" /\ lpc = "idle" /\ pc[Loop] = "idle" /\ q' = Tail(q) /\ fd' = FALSE
      /\ flag' = [flag EXCEPT !.error = FALSE]
      /\ lpc' = (IF flag.error THEN "error_cb" ELSE "close_cb")
      /\ calls' = [calls EXCEPT !.error = @ + (IF flag.error THEN 1 ELSE 0),
                                !.close = @ + (IF flag.error THEN 0 ELSE 1)]
      /\ UNCHANGED <<st, rd, wr, hold, pc, opens>>
  BY DEF run_close, Runs, LoopAt, reset_error
<1>2. /\ Busy /\ Tail(q) \in Seq(Closure) /\ Posted(q, "close") = Posted(Tail(q), "close") + 1
      /\ Posted(Tail(q), "write") = Posted(q, "write") /\ Posted(Tail(q), "close") \in Nat
      /\ Posted(Tail(q), "open") = 0 /\ Posted(Tail(q), "end") = 0
  BY <1>1, TakeStep DEF Kind
<1>3. st = "live" /\ opens > 0 /\ About(pc, "end") = 0
  BY <1>2, InUse
<1>4. /\ flag \in FlagType /\ calls \in [error: Nat, close: Nat] /\ opens \in 0..2
      /\ calls.error \in Nat /\ calls.close \in Nat /\ About(pc, "close") \in Nat
  BY Numbers DEF IInv, Types, LoopTypes
<1>5. calls.error = 0 /\ About(pc, "close") = 0 /\ Posted(Tail(q), "close") = 0 /\ ~flag.close /\ flag.error
  <2>1. One(flag.close) \in Nat /\ (flag.close => One(flag.close) = 1)
    BY DEF One
  <2>2. About(pc, "close") + (Posted(Tail(q), "close") + 1) + calls.error + One(flag.close) = 1
    BY <1>2 DEF IInv, Closing
  <2>3. calls.error = 0 /\ About(pc, "close") = 0 /\ Posted(Tail(q), "close") = 0 /\ One(flag.close) = 0
    BY <1>2, <1>4, <2>1, <2>2
  <2> QED BY <2>1, <2>3 DEF IInv, Closing
<1>6. calls.close = 0
  <2>1. One(lpc = "error_cb") = 0
    BY <1>1 DEF One
  <2>2. calls.close + One(lpc = "error_cb") = calls.error
    BY DEF IInv, Telling
  <2> QED BY <1>4, <1>5, <2>1, <2>2
<1>7. lpc' = "error_cb" /\ calls' \in [error: Nat, close: Nat] /\ calls'.error = 1 /\ calls'.close = 0
  <2> DEFINE a == calls.error + (IF flag.error THEN 1 ELSE 0)
             b == calls.close + (IF flag.error THEN 0 ELSE 1)
  <2>1. a = 1 /\ b = 0
    BY <1>5, <1>6
  <2>2. calls' = [calls EXCEPT !.error = a, !.close = b]
    BY <1>1
  <2> HIDE DEF a, b
  <2>3. calls' \in [error: Nat, close: Nat] /\ calls'.error = a /\ calls'.close = b
    BY <1>4, <2>1, <2>2
  <2>4. lpc' = "error_cb"
    BY <1>1, <1>5
  <2> QED BY <2>1, <2>3, <2>4
<1>8. LoopTypes'
  BY <1>1, <1>7 DEF IInv, Types, LoopTypes, IsSeq
<1>9. Telling'
  BY <1>1, <1>7 DEF Telling, One
<1>10. Holding'
  BY <1>1 DEF IInv, Holding
<1>11. flag'.cnt = Others' + Posted(Tail(q), "write") /\ flag.cnt >= 1
  <2>1. UNCHANGED <<ReadRef, RunRef>> /\ Len(wr') = Len(wr) /\ Held(hold') = Held(hold)
    BY <1>1 DEF ReadRef, RunRef
  <2>2. CallRef = 0 /\ CallRef' = 0
    BY <1>1, <1>7 DEF CallRef, One
  <2>3. OpenRef = opens /\ OpenRef' = opens
    <3>1. ~ClosedDone /\ ~ClosedDone'
      BY <1>6, <1>7 DEF ClosedDone
    <3> QED BY <1>1, <1>4, <3>1 DEF OpenRef, One
  <2>4. flag'.cnt = flag.cnt
    BY <1>1, <1>4 DEF FlagType
  <2>5. Others' = Others
    BY <2>1, <2>2, <2>3 DEF Others
  <2>6. flag.cnt = Others + Posted(q, "write") /\ flag.cnt >= 1
    BY <1>3, <1>4, <2>3, Amounts DEF Others
  <2> QED BY <1>2, <2>4, <2>5, <2>6
<1>12. flag' \in FlagType /\ ~flag'.error /\ ~flag'.close /\ flag'.cnt = flag.cnt
  BY <1>1, <1>4, <1>5 DEF FlagType
<1>13. ~IsZero(flag')
  BY <1>4, <1>11, <1>12 DEF IsZero, FlagType
<1>14. /\ About(pc', "close") + Posted(Tail(q), "close") + calls'.error + One(flag'.close) = 1
       /\ flag'.error <=> calls'.error = 0
  BY <1>1, <1>5, <1>7, <1>12 DEF One
<1> QED BY <1>1, <1>2, <1>3, <1>8, <1>9, <1>10, <1>11, <1>12, <1>13, <1>14, Settle

\* The filters know of the error: they are told of the close.
LEMMA ErrorReturnStep ==
  ASSUME IInv, error_return PROVE IInv'
<1>1. /\ lpc = "error_cb" /\ pc[Loop] = "idle" /\ lpc' = "close_cb" /\ calls' = [calls EXCEPT !.close = @ + 1]
      /\ UNCHANGED <<st, flag, q, fd, rd, wr, hold, pc, opens>>
  BY DEF error_return, LoopAt, ioVars
<1>2. Busy
  BY <1>1 DEF Busy
<1>3. /\ st = "live" /\ opens > 0 /\ ~IsZero(flag) /\ Posted(q, "open") = 0
      /\ About(pc, "end") = 0 /\ Posted(q, "end") = 0
  BY <1>2, InUse
<1>4. /\ flag \in FlagType /\ q \in Seq(Closure) /\ calls \in [error: Nat, close: Nat] /\ opens \in 0..2
      /\ calls.error \in Nat /\ calls.close \in Nat
  BY Numbers DEF IInv, Types, LoopTypes
<1>5. calls.error = 1 /\ calls.close = 0
  <2>1. One(lpc = "error_cb") = 1
    BY <1>1 DEF One
  <2>2. calls.close + 1 = calls.error
    BY <2>1 DEF IInv, Telling
  <2>3. About(pc, "close") + Posted(q, "close") + calls.error + One(flag.close) = 1
    BY DEF IInv, Closing
  <2>4. About(pc, "close") \in Nat /\ Posted(q, "close") \in Nat /\ One(flag.close) \in Nat
    BY Numbers DEF Kind, One
  <2> QED BY <1>4, <2>2, <2>3, <2>4
<1>6. calls' \in [error: Nat, close: Nat] /\ calls'.error = 1 /\ calls'.close = 1
  BY <1>1, <1>4, <1>5
<1>7. LoopTypes'
  BY <1>1, <1>6 DEF IInv, Types, LoopTypes, IsSeq
<1>8. Telling'
  BY <1>1, <1>6 DEF Telling, One
<1>9. Holding'
  BY <1>1 DEF IInv, Holding
<1>10. flag.cnt = Others' + Posted(q, "write")
  <2>1. UNCHANGED <<ReadRef, RunRef>> /\ Len(wr') = Len(wr) /\ Held(hold') = Held(hold)
    BY <1>1 DEF ReadRef, RunRef
  <2>2. CallRef = 0 /\ CallRef' = 0
    BY <1>1 DEF CallRef, One
  <2>3. OpenRef = opens /\ OpenRef' = opens
    <3>1. ~ClosedDone /\ ~ClosedDone'
      BY <1>1, <1>5 DEF ClosedDone
    <3> QED BY <1>1, <1>4, <3>1 DEF OpenRef, One
  <2>4. Others' = Others
    BY <2>1, <2>2, <2>3 DEF Others
  <2> QED BY <2>4, Amounts
<1>11. /\ About(pc', "close") + Posted(q, "close") + calls'.error + One(flag.close) = 1
       /\ flag.error <=> calls'.error = 0
  BY <1>1, <1>5, <1>6 DEF IInv, Closing
<1> QED BY <1>1, <1>3, <1>4, <1>7, <1>8, <1>9, <1>10, <1>11, Settle

\* The end is run: nothing has to do with the channel any more.
LEMMA RunEndStep ==
  ASSUME IInv, run_end PROVE IInv'
<1>1. /\ q # <<>> /\ Head(q).k = "end" /\ q' = Tail(q) /\ st' = "freed" /\ fd' = FALSE
      /\ UNCHANGED <<flag, rd, wr, lpc, hold, pc, opens, calls>>
  BY DEF run_end, Runs, loopVars, history
<1>2. q \in Seq(Closure) /\ pc \in [Caller -> PcType]
  BY DEF IInv, Types, LoopTypes, PcType
<1>3. /\ Tail(q) \in Seq(Closure) /\ Posted(q, "end") = Posted(Tail(q), "end") + 1
      /\ \A k \in Kind : k # "end" => Posted(Tail(q), k) = Posted(q, k)
  BY <1>1, <1>2, TakeEffect DEF Kind
<1>4. st = "live"
  BY <1>1 DEF IInv, Types, Opening
<1>5. opens > 0
  BY <1>4 DEF IInv, Opening
<1>6. Posted(Tail(q), "end") \in Nat /\ About(pc, "end") \in Nat
  <2>1. Posted(Tail(q), "end") \in Nat
    BY <1>3, PostedNat DEF Kind
  <2> QED BY <2>1, Numbers
<1>7. IsZero(flag) /\ Posted(Tail(q), "end") = 0 /\ About(pc, "end") = 0
  <2>1. One(st = "freed" /\ opens > 0) = 0
    BY <1>4 DEF One
  <2>2. About(pc, "end") + (Posted(Tail(q), "end") + 1) + 0 = One(IsZero(flag))
    BY <1>3, <2>1 DEF IInv, Ending
  <2>3. One(IsZero(flag)) \in {0, 1} /\ (One(IsZero(flag)) = 1 => IsZero(flag))
    BY DEF One
  <2> QED BY <1>6, <2>2, <2>3
<1>8. /\ ~rd /\ wr = <<>> /\ lpc = "idle"
      /\ Posted(q, "write") = 0 /\ Posted(q, "close") = 0 /\ Posted(q, "open") = 0
      /\ \A t \in Caller : ~hold[t] /\ pc[t] \in {"idle", "end"}
  BY <1>4, <1>7, ZeroIsLast
<1>9. \A k \in Kind : Posted(Tail(q), k) = 0
  BY <1>3, <1>7, <1>8 DEF Kind
<1>10. q' = <<>>
  BY <1>1, <1>3, <1>9, PostedNat
<1>11. \A t \in Caller : pc[t] # "end"
  BY <1>2, <1>7, AboutNat
<1>12. Unreachable'
  BY <1>1, <1>8, <1>11 DEF Unreachable
<1>13. Types'
  BY <1>1, <1>3 DEF IInv, Types, LoopTypes, IsSeq
<1>14. Refs'
  <2>1. UNCHANGED <<OpenRef, ReadRef, CallRef, RunRef>> /\ Len(wr') = Len(wr) /\ Held(hold') = Held(hold)
    BY <1>1 DEF OpenRef, ClosedDone, ReadRef, CallRef, RunRef
  <2>2. Others' = Others
    BY <2>1 DEF Others
  <2>3. Posted(q', "write") = Posted(q, "write")
    BY <1>1, <1>3 DEF Kind
  <2> QED BY <1>1, <2>2, <2>3 DEF IInv, Refs
<1>15. Closing'
  <2>1. Posted(q', "close") = Posted(q, "close")
    BY <1>1, <1>3 DEF Kind
  <2> QED BY <1>1, <2>1 DEF IInv, Closing
<1>16. Telling'
  BY <1>1 DEF IInv, Telling
<1>17. Ending'
  <2>1. One(st' = "freed" /\ opens' > 0) = 1 /\ One(IsZero(flag')) = 1
    BY <1>1, <1>5, <1>7 DEF One
  <2>2. About(pc', "end") = 0 /\ Posted(q', "end") = 0
    BY <1>1, <1>7
  <2> QED BY <2>1, <2>2 DEF Ending
<1>18. Opening'
  <2>1. Posted(q', "open") = 0
    BY <1>1, <1>9 DEF Kind
  <2> QED BY <1>1, <1>10, <1>12, <2>1 DEF Opening
<1>19. Holding'
  BY <1>1 DEF IInv, Holding
<1> QED BY <1>13, <1>14, <1>15, <1>16, <1>17, <1>18, <1>19 DEF IInv

-----------------------------------------------------------------------------
(* The channel is built, dropped or opened.                                *)

\* A built channel is as Init leaves it.
LEMMA BuiltState ==
  ASSUME IInv, st = "built"
  PROVE  /\ Unreachable /\ q = <<>> /\ opens = 0 /\ \A k \in Kind : Posted(q, k) = 0
         /\ About(pc, "close") = 0 /\ About(pc, "end") = 0 /\ calls.close = calls.error
         /\ ~IsZero(flag) /\ Held(hold) = 0
<1>1. Unreachable /\ q = <<>> /\ opens = 0
  BY DEF IInv, Opening
<1>2. q \in Seq(Closure) /\ pc \in [Caller -> PcType] /\ hold \in [Caller -> BOOLEAN]
  BY DEF IInv, Types, LoopTypes, PcType
<1>3. \A k \in Kind : Posted(q, k) = 0
  BY <1>1, <1>2, PostedNat
<1>4. About(pc, "close") = 0 /\ About(pc, "end") = 0
  BY <1>1, <1>2, AboutNat DEF Unreachable
<1>5. Held(hold) = 0
  BY <1>1, <1>2, HeldEffect DEF Unreachable
<1>6. calls.close = calls.error
  <2>1. One(lpc = "error_cb") = 0 /\ calls.close + One(lpc = "error_cb") = calls.error
    BY <1>1 DEF Unreachable, IInv, Telling, One
  <2> QED BY <2>1, Numbers
<1>7. ~IsZero(flag)
  <2>1. One(st = "freed" /\ opens > 0) = 0
    BY DEF One
  <2>2. 0 + 0 + 0 = One(IsZero(flag))
    BY <1>3, <1>4, <2>1 DEF IInv, Ending, Kind
  <2> QED BY <2>2 DEF One
<1> QED BY <1>1, <1>3, <1>4, <1>5, <1>6, <1>7

\* A channel that could not be built is deleted at once.
LEMMA DiscardStep ==
  ASSUME IInv, discard PROVE IInv'
<1>1. /\ st = "built" /\ st' = "freed" /\ fd' = FALSE
      /\ UNCHANGED <<flag, q, rd, wr, lpc, hold, pc, opens, calls>>
  BY DEF discard, loopVars, history
<1>2. /\ Unreachable /\ q = <<>> /\ opens = 0 /\ \A k \in Kind : Posted(q, k) = 0
  BY <1>1, BuiltState
<1>3. Types'
  BY <1>1 DEF IInv, Types, LoopTypes, IsSeq
<1>4. Refs'
  <2>1. UNCHANGED <<OpenRef, ReadRef, CallRef, RunRef>> /\ Len(wr') = Len(wr) /\ Held(hold') = Held(hold)
    BY <1>1 DEF OpenRef, ClosedDone, ReadRef, CallRef, RunRef
  <2>2. Others' = Others
    BY <2>1 DEF Others
  <2> QED BY <1>1, <2>2 DEF IInv, Refs
<1>5. Closing'
  BY <1>1 DEF IInv, Closing
<1>6. Telling'
  BY <1>1 DEF IInv, Telling
<1>7. Ending'
  <2>1. One(st = "freed" /\ opens > 0) = 0 /\ One(st' = "freed" /\ opens' > 0) = 0
    BY <1>1, <1>2 DEF One
  <2> QED BY <1>1, <2>1 DEF IInv, Ending
<1>8. Opening'
  <2>1. Unreachable' /\ q' = <<>> /\ Posted(q', "open") = 0
    BY <1>1, <1>2 DEF Unreachable, Kind
  <2> QED BY <1>1, <2>1 DEF Opening
<1>9. Holding'
  BY <1>1 DEF IInv, Holding
<1> QED BY <1>3, <1>4, <1>5, <1>6, <1>7, <1>8, <1>9 DEF IInv

\* fire_on_open takes the reference of the open: on the loop thread the
\* filters hear of it at once, elsewhere the call is posted.
LEMMA FireOnOpenStep ==
  ASSUME IInv, NEW t \in Caller, fire_on_open(t) PROVE IInv'
<1>1. /\ st = "built" /\ st' = "live" /\ opens' = 1 /\ flag' = AddRef(flag)
      /\ \/ lpc' = "open_cb" /\ q' = q
         \/ lpc' = lpc /\ q' = Append(q, C("open"))
      /\ UNCHANGED <<fd, rd, wr, hold, pc, calls>>
  BY DEF fire_on_open, ioVars
<1>2. /\ Unreachable /\ q = <<>> /\ opens = 0 /\ \A k \in Kind : Posted(q, k) = 0
      /\ About(pc, "close") = 0 /\ About(pc, "end") = 0 /\ calls.close = calls.error
      /\ ~IsZero(flag) /\ Held(hold) = 0
  BY <1>1, BuiltState
<1>3. flag \in FlagType /\ q \in Seq(Closure) /\ calls \in [error: Nat, close: Nat]
  BY DEF IInv, Types, LoopTypes
<1>4. /\ flag' \in FlagType /\ ~IsZero(flag') /\ flag'.error = flag.error /\ flag'.close = flag.close
      /\ flag'.cnt = flag.cnt + 1 /\ flag.cnt \in Nat
  BY <1>1, <1>3, FlagEffect
<1>5. q' \in Seq(Closure) /\ \A k \in Kind : k # "open" => Posted(q', k) = 0
  <2>1. CASE q' = q
    BY <1>2, <1>3, <2>1
  <2>2. CASE q' = Append(q, C("open"))
    <3>1. C("open") \in Closure /\ C("open").k = "open"
      BY Closures
    <3>2. /\ Append(q, C("open")) \in Seq(Closure)
          /\ \A k \in Kind : C("open").k # k => Posted(Append(q, C("open")), k) = Posted(q, k)
      BY <1>3, <3>1, PostEffect
    <3> QED BY <1>2, <2>2, <3>1, <3>2
  <2> QED BY <1>1, <2>1, <2>2
<1>6. calls.close = 0 /\ calls.error = 0
  <2>1. ReadRef = 0 /\ RunRef = 0 /\ CallRef = 0 /\ Len(wr) = 0
    BY <1>2, CallerFinite DEF Unreachable, ReadRef, RunRef, CallRef, One
  <2>2. OpenRef = 0 - One(ClosedDone) /\ One(ClosedDone) \in Nat
    BY <1>2 DEF OpenRef, One
  <2>3. flag.cnt = OpenRef
    BY <1>2, <2>1, <2>2, Amounts DEF Others, Kind
  <2>4. One(ClosedDone) = 0
    BY <1>4, <2>2, <2>3
  <2>5. calls.close # 1
    BY <1>2, <2>4 DEF One, ClosedDone, Unreachable
  <2>6. calls.error \in Nat /\ 0 + 0 + calls.error + One(flag.close) = 1 /\ One(flag.close) \in Nat
    BY <1>2, <1>3 DEF IInv, Closing, Kind, One
  <2> QED BY <1>2, <2>5, <2>6
<1>7. LoopTypes'
  BY <1>1, <1>2 DEF IInv, Types, LoopTypes, IsSeq
<1>8. Types'
  BY <1>1, <1>4, <1>5, <1>7 DEF Types
<1>9. Refs'
  <2>1. ReadRef = 0 /\ RunRef = 0 /\ CallRef = 0 /\ Len(wr) = 0 /\ OpenRef = 0
    BY <1>2, <1>6, CallerFinite DEF Unreachable, ReadRef, RunRef, CallRef, OpenRef, ClosedDone, One
  <2>2. ReadRef' = 0 /\ RunRef' = 0 /\ CallRef' = 0 /\ Len(wr') = 0 /\ OpenRef' = 1
    BY <1>1, <1>2, <1>6, CallerFinite DEF Unreachable, ReadRef, RunRef, CallRef, OpenRef, ClosedDone, One
  <2>3. flag.cnt = 0
    <3>1. Others = 0
      BY <1>2, <2>1 DEF Others
    <3>2. Posted(q, "write") = 0
      BY <1>2 DEF Kind
    <3>3. flag.cnt = Others + Posted(q, "write")
      BY Amounts
    <3>4. 0 + 0 = 0
      OBVIOUS
    <3> QED BY <3>1, <3>2, <3>3, <3>4
  <2>4. Held(hold') = 0 /\ Posted(q', "write") = 0
    BY <1>1, <1>2, <1>5 DEF Kind
  <2> QED BY <1>4, <2>2, <2>3, <2>4 DEF Refs, Others
<1>10. Closing'
  <2>1. Posted(q', "close") = Posted(q, "close")
    BY <1>2, <1>5 DEF Kind
  <2> QED BY <1>1, <1>4, <2>1 DEF IInv, Closing
<1>11. Telling'
  <2>1. lpc' \in {"open_cb", "idle"} /\ ~rd' /\ calls'.error = 0 /\ calls'.close = 0
    BY <1>1, <1>2, <1>6 DEF Unreachable
  <2>2. fd' \/ calls'.error = 1 \/ st' = "freed"
    BY <1>1 DEF IInv, Telling
  <2> QED BY <2>1, <2>2 DEF Telling, One
<1>12. Ending'
  <2>1. One(st' = "freed" /\ opens' > 0) = 0 /\ One(IsZero(flag')) = 0
    BY <1>1, <1>4 DEF One
  <2>2. About(pc', "end") = 0 /\ Posted(q', "end") = 0
    BY <1>1, <1>2, <1>5 DEF Kind
  <2> QED BY <2>1, <2>2 DEF Ending
<1>13. Opening'
  <2>1. CASE q' = q
    <3>1. Posted(q', "open") = 0
      BY <1>2, <2>1 DEF Kind
    <3> QED BY <1>1, <3>1 DEF Opening
  <2>2. CASE lpc' = lpc /\ q' = Append(q, C("open"))
    <3>1. Unreachable'
      BY <1>1, <1>2, <2>2 DEF Unreachable
    <3>2. q' = <<C("open")>>
      BY <1>2, <2>2
    <3> QED BY <1>1, <1>6, <3>1, <3>2 DEF Opening
  <2> QED BY <1>1, <2>1, <2>2
<1>14. Holding'
  BY <1>1, <1>2 DEF Holding, Unreachable
<1> QED BY <1>8, <1>9, <1>10, <1>11, <1>12, <1>13, <1>14 DEF IInv

-----------------------------------------------------------------------------
(* The invariant, and what follows from it.                                *)

\* The channel the acceptor or the connector has just made.
LEMMA InitInv == Init => IInv
<1> SUFFICES ASSUME Init PROVE IInv
  OBVIOUS
<1>1. /\ st = "built" /\ flag = [error |-> TRUE, close |-> TRUE, cnt |-> 0] /\ q = <<>> /\ fd = TRUE
      /\ rd = FALSE /\ wr = <<>> /\ lpc = "idle" /\ opens = 0 /\ calls = [error |-> 0, close |-> 0]
      /\ hold \in [Caller -> BOOLEAN] /\ pc \in [Caller -> PcType]
      /\ \A t \in Caller : hold[t] = FALSE /\ pc[t] = "idle"
  BY DEF Init, PcType
<1>2. flag \in FlagType /\ q \in Seq(Closure) /\ calls \in [error: Nat, close: Nat]
      /\ flag.error = TRUE /\ flag.close = TRUE /\ flag.cnt = 0 /\ calls.error = 0 /\ calls.close = 0
  BY <1>1 DEF FlagType
<1>3. IsSeq(wr) /\ Len(wr) = 0
  <2>1. wr \in Seq({}) /\ Len(wr) = 0
    BY <1>1
  <2> QED BY <2>1 DEF IsSeq
<1>4. Types
  <2>1. LoopTypes
    <3>0. 0 \in 0..2 /\ FALSE \in BOOLEAN
      OBVIOUS
    <3>1. rd \in BOOLEAN /\ opens \in 0..2
      BY <1>1, <3>0, Zenon
    <3>2. lpc \in {"idle", "open_cb", "read_cb", "write_cb", "error_cb", "close_cb"}
      BY <1>1
    <3>3. hold \in [Caller -> BOOLEAN] /\ pc \in [Caller -> PcType]
      BY <1>1
    <3>4. calls \in [error: Nat, close: Nat] /\ IsSeq(wr)
      BY <1>2, <1>3
    <3> QED BY <3>1, <3>2, <3>3, <3>4 DEF LoopTypes, PcType
  <2>2. st \in {"built", "live", "freed"}
    BY <1>1
  <2> QED BY <1>2, <2>1, <2>2 DEF Types
<1>5. \A k \in Kind : Posted(q, k) = 0
  BY <1>1, <1>2, PostedNat
<1>6. About(pc, "close") = 0 /\ About(pc, "end") = 0
  BY <1>1, AboutNat
<1>7. Held(hold) = 0
  BY <1>1, HeldEffect
<1>8. Unreachable
  BY <1>1 DEF Unreachable
<1>9. Refs
  <2>1. OpenRef = 0 /\ ReadRef = 0 /\ RunRef = 0 /\ CallRef = 0
    <3>1. ~ClosedDone /\ opens = 0 /\ ~rd /\ pc[Loop] # "remains_release" /\ lpc = "idle"
      BY <1>1, <1>2, CallerFinite DEF ClosedDone
    <3>0. 0 - 0 = 0 /\ One(ClosedDone) = 0
      BY <3>1 DEF One
    <3>2. OpenRef = 0
      BY <3>0, <3>1, Zenon DEF OpenRef
    <3>3. ReadRef = 0 /\ RunRef = 0 /\ CallRef = 0
      BY <3>1 DEF ReadRef, RunRef, CallRef, One
    <3> QED BY <3>2, <3>3
  <2>2. Others = 0
    BY <1>3, <1>7, <2>1 DEF Others
  <2> QED BY <1>2, <1>5, <2>2 DEF Refs, Kind
<1>10. Closing
  BY <1>2, <1>5, <1>6 DEF Closing, One, Kind
<1>11. Telling
  BY <1>1, <1>2 DEF Telling, One
<1>12. Ending
  <2>1. One(st = "freed" /\ opens > 0) = 0 /\ One(IsZero(flag)) = 0
    BY <1>1, <1>2 DEF One, IsZero
  <2> QED BY <1>5, <1>6, <2>1 DEF Ending, Kind
<1>13. Opening
  BY <1>1, <1>5, <1>8 DEF Opening, Kind
<1>14. Holding
  BY <1>1 DEF Holding
<1> QED BY <1>4, <1>9, <1>10, <1>11, <1>12, <1>13, <1>14 DEF IInv

\* No step of the loop thread, of the socket or of another thread breaks it.
LEMMA NextInv == IInv /\ [Next]_vars => IInv'
<1> SUFFICES ASSUME IInv, [Next]_vars PROVE IInv'
  OBVIOUS
<1>1. CASE discard
  BY <1>1, DiscardStep
<1>2. CASE LoopStep
  <2>1. CASE run_open BY <2>1, RunOpenStep
  <2>2. CASE run_write BY <2>2, RunWriteStep
  <2>3. CASE run_close BY <2>3, RunCloseStep
  <2>4. CASE run_end BY <2>4, RunEndStep
  <2>5. CASE write_remains BY <2>5, WriteRemainsStep
  <2>6. CASE open_return BY <2>6, OpenReturnStep
  <2>7. CASE read_return BY <2>7, ReadReturnStep
  <2>8. CASE write_return BY <2>8, WriteReturnStep
  <2>9. CASE error_return BY <2>9, ErrorReturnStep
  <2>10. CASE close_return BY <2>10, CloseReturnStep
  <2> QED BY <1>2, <2>1, <2>2, <2>3, <2>4, <2>5, <2>6, <2>7, <2>8, <2>9, <2>10 DEF LoopStep
<1>3. CASE Complete
  <2>1. CASE read_error BY <2>1, ReadErrorStep
  <2>2. CASE read_data BY <2>2, ReadDataStep
  <2>3. CASE write_error BY <2>3, WriteErrorStep
  <2>4. CASE write_done BY <2>4, WriteDoneStep
  <2> QED BY <1>3, <2>1, <2>2, <2>3, <2>4 DEF Complete
<1>4. ASSUME NEW t \in Caller, Call(t) PROVE IInv'
  <2>1. CASE fire_on_open(t) BY <2>1, FireOnOpenStep
  <2>2. CASE add_ref(t) BY <2>2, AddRefStep
  <2>3. CASE release(t) BY <2>3, ReleaseStep
  <2>4. CASE close(t) BY <2>4, CloseStep
  <2>5. CASE do_write_off(t) BY <2>5, WriteCallStep
  <2> QED BY <1>4, <2>1, <2>2, <2>3, <2>4, <2>5 DEF Call
<1>5. ASSUME NEW t \in Caller, Post(t) PROVE IInv'
  <2>1. CASE execute_write(t) BY <2>1, ExecuteWriteStep
  <2>2. CASE execute(t) BY <2>2, ExecuteStep
  <2> QED BY <1>5, <2>1, <2>2 DEF Post
<1>6. CASE \E len \in Lens : do_write(len)
  <2>1. Loop \in Caller
    BY CallerFinite
  <2> QED BY <1>6, <2>1, WriteCallStep
<1>7. CASE UNCHANGED vars
  <2>1. UNCHANGED <<st, flag, q, fd, rd, wr, lpc, hold, pc, opens, calls>>
    BY <1>7 DEF vars, ioVars, loopVars, history
  <2>2. Types' /\ Closing' /\ Telling' /\ Ending' /\ Holding'
    BY <2>1 DEF IInv, Types, LoopTypes, IsSeq, Closing, Telling, Ending, Holding
  <2>3. Opening'
    BY <2>1 DEF IInv, Opening, Unreachable
  <2>4. Refs'
    BY <2>1 DEF IInv, Refs, Others, OpenRef, ClosedDone, ReadRef, RunRef, CallRef
  <2> QED BY <2>2, <2>3, <2>4 DEF IInv
<1> QED BY <1>1, <1>2, <1>3, <1>4, <1>5, <1>6, <1>7 DEF Next

\* The invariant of a channel.
THEOREM ChannelInvariant == Spec => []IInv
BY InitInv, NextInv, PTL DEF Spec

\* The count of _flag is the number of references that exist, whatever threads
\* call add_ref, release, close and do_write at the same time.
THEOREM RefsAreCounted == Spec => []ChannelRefcount
<1>1. ASSUME IInv PROVE ChannelRefcount
  <2>1. q \in Seq(Closure) /\ hold \in [Caller -> BOOLEAN]
    BY <1>1 DEF IInv, Types, LoopTypes
  <2>2. Cardinality({t \in Caller : hold[t]}) = Held(hold)
    BY <2>1, HeldEffect
  <2>3. {n \in DOMAIN q : q[n].k = "write"} = {n \in DOMAIN q : q[n] \in {c \in Closure : c.k = "write"}}
    <3>1. \A n \in DOMAIN q : q[n] \in Closure
      BY <2>1
    <3> QED BY <3>1
  <2>4. Cardinality({n \in DOMAIN q : q[n].k = "write"}) = Posted(q, "write")
    BY <2>3 DEF Posted, Count, PlacesOf
  <2> DEFINE a == opens - One(ClosedDone)
             b == One(rd)
             l == Len(wr)
             c == One(pc[Loop] = "remains_release")
             d == One(lpc \in {"read_cb", "write_cb"})
             h == Held(hold)
             w == Posted(q, "write")
  <2>5. a \in Int /\ b \in Int /\ l \in Int /\ c \in Int /\ d \in Int /\ h \in Int /\ w \in Int
    BY <1>1, Amounts DEF OpenRef, ReadRef, RunRef, CallRef
  <2>6. flag.cnt = (a + b + l + c + d + h) + w
    BY <1>1 DEF IInv, Refs, Others, OpenRef, ReadRef, RunRef, CallRef
  <2>7. ChannelRefcount <=> flag.cnt = a + b + l + w + c + d + h
    BY <2>2, <2>4 DEF ChannelRefcount
  <2> HIDE DEF a, b, l, c, d, h, w
  <2> QED BY <2>5, <2>6, <2>7
<1> QED BY <1>1, ChannelInvariant, PTL

\* Filters hear of one error and then of one close, however many threads close
\* the channel and whichever operations fail meanwhile.
THEOREM ToldOnce == Spec => []ClosedOnce
<1>1. ASSUME IInv PROVE ClosedOnce
  <2>1. /\ calls.error \in Nat /\ calls.close \in Nat /\ About(pc, "close") \in Nat /\ Posted(q, "close") \in Nat
    BY <1>1, Numbers DEF Kind
  <2>2. /\ About(pc, "close") + Posted(q, "close") + calls.error + One(flag.close) = 1
        /\ calls.close + One(lpc = "error_cb") = calls.error
        /\ lpc \in {"open_cb", "read_cb", "write_cb"} => calls.error = 0
    BY <1>1 DEF IInv, Closing, Telling
  <2>3. /\ One(flag.close) \in Nat /\ One(lpc = "error_cb") \in Nat
        /\ (lpc = "error_cb" => One(lpc = "error_cb") = 1)
    BY DEF One
  <2>4. calls.error <= 1
    BY <2>1, <2>2, <2>3
  <2>5. calls.close <= 1 /\ calls.error = calls.close + One(lpc = "error_cb")
    BY <2>1, <2>2, <2>3, <2>4
  <2>6. ASSUME calls.close = 1 PROVE lpc \in {"idle", "close_cb"}
    <3>1. calls.error = 1 /\ lpc # "error_cb"
      BY <2>1, <2>2, <2>3, <2>4, <2>6
    <3> QED BY <1>1, <2>2, <3>1 DEF IInv, Types, LoopTypes
  <2> QED BY <2>5, <2>6 DEF ClosedOnce
<1> QED BY <1>1, ChannelInvariant, PTL

\* A deleted channel is not reached by any closure, operation, callback or
\* thread: the release that reaches zero is the last.
THEOREM DeletedUnreached == Spec => []NothingAfterFree
<1>1. ASSUME IInv PROVE NothingAfterFree
  BY <1>1 DEF IInv, Opening, Unreachable, NothingAfterFree
<1> QED BY <1>1, ChannelInvariant, PTL

\* Operations start on an open descriptor only: _fd is closed after the bit
\* that read and write_remains look at is reset.
THEOREM StartsOnOpenSocket == Spec => IoOnOpenSocket
<1>1. ASSUME IInv, Next, (rd' /\ ~rd) \/ Len(wr') > Len(wr) PROVE fd
  <2>1. flag.close /\ st # "freed"
    <3>1. Len(wr) \in Nat /\ (wr # <<>> => Len(Tail(wr)) = Len(wr) - 1)
      BY <1>1, LenEffect DEF IInv, Types, LoopTypes
    <3>2. rd' # rd \/ wr' # wr
      BY <1>1, <3>1
    <3>3. ~(wr # <<>> /\ wr' = Tail(wr) /\ rd' = rd)
      BY <1>1, <3>1
    <3>4. ~(wr' = wr /\ rd' = FALSE)
      BY <1>1, <3>1
    <3>5. ~write_error /\ ~write_done /\ ~read_error /\ ~read_data
      BY <3>3, <3>4 DEF write_error, write_done, read_error, read_data
    <3>6. \/ open_return \/ read_return \/ write_return \/ write_remains
      <4>1. ~discard /\ ~run_open /\ ~run_write /\ ~run_close /\ ~run_end /\ ~error_return /\ ~close_return
        BY <3>2 DEF discard, run_open, run_write, run_close, run_end, error_return, close_return, ioVars
      <4>2. \A t \in Caller : ~Call(t) /\ ~Post(t)
        BY <3>2 DEF Call, Post, fire_on_open, add_ref, release, close, do_write_off, execute_write, execute, ioVars
      <4>3. \A len \in Lens : ~do_write(len)
        BY <3>2 DEF do_write, ioVars
      <4> QED BY <1>1, <3>5, <4>1, <4>2, <4>3 DEF Next, LoopStep, Complete
    <3>7. flag \in FlagType
      BY <1>1 DEF IInv, Types
    <3>8. Release(flag).close = flag.close
      BY <3>7 DEF Release, FlagType
    <3>9. flag.close
      BY <3>2, <3>4, <3>6, <3>7, <3>8 DEF open_return, read_return, write_return, write_remains, start_remains,
             read, contains_close, FlagType
    <3>10. Busy
      BY <3>6, CallerFinite DEF Busy, open_return, read_return, write_return, write_remains, LoopAt
    <3> QED BY <1>1, <3>9, <3>10, InUse
  <2>2. calls.error = 0
    <3>1. About(pc, "close") \in Nat /\ calls.error \in Nat /\ Posted(q, "close") \in Nat
      BY <1>1, Numbers DEF Kind
    <3> QED BY <1>1, <2>1, <3>1 DEF IInv, Closing, One
  <2> QED BY <1>1, <2>1, <2>2 DEF IInv, Telling
<1>2. ASSUME IInv, [Next]_vars PROVE [(rd' /\ ~rd) \/ Len(wr') > Len(wr) => fd]_vars
  BY <1>1, <1>2
<1> QED BY <1>2, ChannelInvariant, PTL DEF Spec, IoOnOpenSocket

-----------------------------------------------------------------------------
(* The bytes of buffers. *)

\* Upto(s) sums the buffers of s from the front.
LEMMA UptoIs ==
  ASSUME NEW s \in Seq(Nat)
  PROVE  /\ Len(s) \in Nat /\ Upto(s)[0] = 0
         /\ \A k \in 1..Len(s) : Upto(s)[k] = Upto(s)[k - 1] + s[k]
         /\ \A k \in 0..Len(s) : Upto(s)[k] \in Nat
<1> DEFINE n == Len(s)
           P(g) == g = [k \in 0..n |-> IF k = 0 THEN 0 ELSE g[k - 1] + s[k]]
           Good(g, m) == g[0] = 0 /\ \A k \in 1..m : g[k] = g[k - 1] + s[k]
           K == {m \in 0..n : \E g \in [0..m -> Nat] : Good(g, m)}
<1>1. n \in Nat /\ \A k \in 1..n : s[k] \in Nat
  OBVIOUS
<1>2. 0 \in K
  <2> DEFINE g == [k \in 0..0 |-> 0]
  <2>1. g \in [0..0 -> Nat] /\ g[0] = 0
    OBVIOUS
  <2>2. Good(g, 0)
    BY <2>1
  <2>3. 0 \in 0..n
    BY <1>1
  <2> HIDE DEF g, Good, n
  <2>4. \E x \in [0..0 -> Nat] : Good(x, 0)
    BY <2>1, <2>2
  <2> QED BY <2>3, <2>4
<1>3. ASSUME NEW m \in 0..n, m < n, m \in K PROVE m + 1 \in K
  <2>1. PICK g \in [0..m -> Nat] : Good(g, m)
    BY <1>3
  <2>2. m \in Nat /\ m + 1 \in 1..n /\ s[m + 1] \in Nat /\ g[m] \in Nat
    BY <1>1, <1>3
  <2> DEFINE h == [k \in 0..(m + 1) |-> IF k = m + 1 THEN g[m] + s[m + 1] ELSE g[k]]
  <2>3. \A k \in 0..(m + 1) : k # m + 1 => k \in 0..m
    BY <2>2
  <2>4. h \in [0..(m + 1) -> Nat]
    BY <2>2, <2>3
  <2>5. h[0] = 0
    BY <2>1, <2>2
  <2>6. ASSUME NEW k \in 1..(m + 1) PROVE h[k] = h[k - 1] + s[k]
    <3>1. CASE k = m + 1
      <4>1. k - 1 = m /\ m \in 0..(m + 1) /\ m # m + 1
        BY <2>2, <3>1
      <4>2. h[m] = g[m] /\ h[m + 1] = g[m] + s[m + 1]
        BY <2>2, <4>1
      <4> HIDE DEF h
      <4> QED BY <3>1, <4>1, <4>2
    <3>2. CASE k # m + 1
      <4>1. k \in 1..m /\ k - 1 \in 0..m /\ k - 1 # m + 1 /\ k \in 0..(m + 1) /\ k - 1 \in 0..(m + 1)
        BY <2>2, <3>2
      <4>2. h[k] = g[k] /\ h[k - 1] = g[k - 1]
        BY <3>2, <4>1
      <4> HIDE DEF h
      <4> QED BY <2>1, <4>1, <4>2
    <3> QED BY <3>1, <3>2
  <2> HIDE DEF h
  <2>7. Good(h, m + 1)
    BY <2>5, <2>6
  <2>8. m + 1 \in 0..n
    BY <2>2
  <2> QED BY <2>4, <2>7, <2>8
<1>4. n \in K
  <2>1. n \in 0..n
    BY <1>1
  <2> HIDE DEF K, n
  <2> QED BY <1>1, <1>2, <1>3, <2>1, Climb
<1>5. PICK g \in [0..n -> Nat] : Good(g, n)
  BY <1>4
<1>6. P(g)
  <2>1. \A k \in 0..n : k # 0 => k \in 1..n
    BY <1>1
  <2> QED BY <1>5, <2>1
<1>7. Upto(s) = CHOOSE f : P(f)
  BY DEF Upto
<1> DEFINE u == Upto(s)
<1>8. P(u)
  <2> HIDE DEF P
  <2> QED BY <1>6, <1>7
<1> HIDE DEF u
<1>9. u[0] = 0 /\ \A k \in 1..n : u[k] = u[k - 1] + s[k]
  <2>1. 0 \in 0..n /\ \A k \in 1..n : k \in 0..n /\ k # 0
    BY <1>1
  <2> QED BY <1>8, <2>1
<1>10. \A k \in 0..n : u[k] \in Nat
  <2> DEFINE J == {k \in 0..n : u[k] \in Nat}
  <2>1. 0 \in J
    BY <1>1, <1>9
  <2>2. ASSUME NEW k \in 0..n, k < n, k \in J PROVE k + 1 \in J
    <3>1. k + 1 \in 1..n /\ (k + 1) - 1 = k /\ u[k] \in Nat /\ s[k + 1] \in Nat
      BY <1>1, <2>2
    <3>2. u[k + 1] = u[k] + s[k + 1]
      BY <1>9, <3>1
    <3> QED BY <3>1, <3>2
  <2> HIDE DEF J, n
  <2>3. \A k \in 0..n : k \in J
    BY <1>1, <2>1, <2>2, Climb
  <2> QED BY <2>3 DEF J
<1> QED BY <1>1, <1>9, <1>10 DEF u

\* Sums of a prefix are sums of the whole.
LEMMA UptoPrefix ==
  ASSUME NEW s \in Seq(Nat), NEW t \in Seq(Nat), Len(s) <= Len(t), \A i \in 1..Len(s) : s[i] = t[i]
  PROVE  \A k \in 0..Len(s) : Upto(t)[k] = Upto(s)[k]
<1> DEFINE n == Len(s)
           u == Upto(s)
           v == Upto(t)
           K == {k \in 0..n : v[k] = u[k]}
<1>1. /\ n \in Nat /\ u[0] = 0 /\ \A k \in 1..n : u[k] = u[k - 1] + s[k]
  BY UptoIs
<1>2. /\ Len(t) \in Nat /\ v[0] = 0 /\ \A k \in 1..Len(t) : v[k] = v[k - 1] + t[k]
  BY UptoIs
<1>3. \A k \in 1..n : k \in 1..Len(t) /\ s[k] = t[k]
  BY <1>1, <1>2
<1> HIDE DEF n, u, v
<1>4. 0 \in K
  BY <1>1, <1>2
<1>5. ASSUME NEW k \in 0..n, k < n, k \in K PROVE k + 1 \in K
  <2>1. k + 1 \in 1..n /\ (k + 1) - 1 = k /\ v[k] = u[k] /\ k + 1 \in 0..n
    BY <1>1, <1>5
  <2>2. u[k + 1] = u[k] + s[k + 1] /\ v[k + 1] = v[k] + t[k + 1] /\ s[k + 1] = t[k + 1]
    BY <1>1, <1>2, <1>3, <2>1
  <2> QED BY <2>1, <2>2
<1> HIDE DEF K
<1>6. \A k \in 0..n : k \in K
  BY <1>1, <1>4, <1>5, Climb
<1> QED BY <1>6 DEF K, n, u, v

\* The bytes of buffers, with one more at the end.
LEMMA BytesAppend ==
  ASSUME NEW s \in Seq(Nat), NEW e \in Nat
  PROVE  /\ Append(s, e) \in Seq(Nat) /\ Bytes(s) \in Nat /\ Bytes(Append(s, e)) = Bytes(s) + e
<1> DEFINE t == Append(s, e)
           n == Len(s)
<1>1. n \in Nat /\ t \in Seq(Nat) /\ Len(t) = n + 1 /\ t[n + 1] = e /\ \A i \in 1..n : s[i] = t[i]
  OBVIOUS
<1> HIDE DEF t
<1>2. Upto(t)[n] = Upto(s)[n] /\ Upto(s)[n] \in Nat
  <2>1. n <= Len(t) /\ n \in 0..n
    BY <1>1
  <2>2. \A k \in 0..n : Upto(t)[k] = Upto(s)[k]
    BY <1>1, <2>1, UptoPrefix
  <2>3. Upto(s)[n] \in Nat
    BY <2>1, UptoIs
  <2> QED BY <2>1, <2>2, <2>3
<1>3. Upto(t)[n + 1] = Upto(t)[n] + e
  <2>1. \A k \in 1..Len(t) : Upto(t)[k] = Upto(t)[k - 1] + t[k]
    BY <1>1, UptoIs
  <2>2. n + 1 \in 1..Len(t) /\ (n + 1) - 1 = n
    BY <1>1
  <2> QED BY <1>1, <2>1, <2>2
<1> QED BY <1>1, <1>2, <1>3 DEF Bytes, t

\* No buffers have no bytes.
LEMMA BytesNone == Bytes(<<>>) = 0
<1>1. <<>> \in Seq(Nat) /\ Len(<<>>) = 0
  OBVIOUS
<1> DEFINE s == <<>>
<1>2. s \in Seq(Nat)
  BY <1>1
<1> HIDE DEF s
<1>3. Upto(s)[0] = 0
  BY <1>2, UptoIs
<1> QED BY <1>1, <1>3 DEF Bytes, s

\* A prefix has no more bytes than the whole.
LEMMA BytesPrefix ==
  ASSUME NEW s \in Seq(Nat), NEW t \in Seq(Nat), IsPrefix(s, t)
  PROVE  Bytes(s) \in Nat /\ Bytes(t) \in Nat /\ Bytes(s) <= Bytes(t)
<1> DEFINE n == Len(s)
           l == Len(t)
           v == Upto(t)
           m == l - n
           K == {j \in 0..m : v[n] <= v[n + j]}
<1>1. n \in Nat /\ l \in Nat /\ n <= l /\ SubSeq(s, 1, n) = SubSeq(t, 1, n)
  BY DEF IsPrefix
<1>2. \A i \in 1..n : s[i] = t[i]
  <2> SUFFICES ASSUME NEW i \in 1..n PROVE s[i] = t[i]
    OBVIOUS
  <2>1. SubSeq(s, 1, n)[i] = s[i] /\ SubSeq(t, 1, n)[i] = t[i]
    BY <1>1
  <2> QED BY <1>1, <2>1
<1>3. v[n] = Upto(s)[n] /\ Upto(s)[n] \in Nat
  <2>1. n \in 0..n
    BY <1>1
  <2>2. \A k \in 0..n : v[k] = Upto(s)[k]
    BY <1>1, <1>2, UptoPrefix
  <2>3. Upto(s)[n] \in Nat
    BY <2>1, UptoIs
  <2> QED BY <2>1, <2>2, <2>3
<1>4. (\A k \in 1..l : v[k] = v[k - 1] + t[k]) /\ \A k \in 0..l : v[k] \in Nat
  BY UptoIs
<1>5. \A k \in 1..l : t[k] \in Nat
  OBVIOUS
<1>6. m \in Nat /\ n + m = l
  BY <1>1
<1> HIDE DEF m, v, l, n
<1>7. 0 \in K
  BY <1>1, <1>3, <1>6
<1>8. ASSUME NEW j \in 0..m, j < m, j \in K PROVE j + 1 \in K
  <2> DEFINE k == n + j
  <2>1. k \in 0..l /\ k + 1 \in 1..l /\ (k + 1) - 1 = k /\ n + (j + 1) = k + 1 /\ j + 1 \in 0..m /\ n \in 0..l
    BY <1>1, <1>6, <1>8
  <2>2. v[n] <= v[k]
    BY <1>8
  <2> HIDE DEF k
  <2>3. v[k + 1] = v[k] + t[k + 1] /\ v[k] \in Nat /\ t[k + 1] \in Nat /\ v[n] \in Nat
    BY <1>4, <1>5, <2>1
  <2>4. v[n] <= v[k + 1]
    <3> DEFINE a == v[n]
               b == v[k]
               c == v[k + 1]
               d == t[k + 1]
    <3>1. c = b + d /\ b \in Nat /\ d \in Nat /\ a \in Nat /\ a <= b
      BY <2>2, <2>3
    <3> HIDE DEF a, b, c, d
    <3>2. a <= c
      BY <3>1
    <3> QED BY <3>2 DEF a, c
  <2> QED BY <2>1, <2>4
<1> HIDE DEF K
<1>9. \A j \in 0..m : j \in K
  BY <1>6, <1>7, <1>8, Climb
<1>10. v[n] <= v[l]
  <2>1. m \in 0..m
    BY <1>6
  <2>2. v[n] <= v[n + m]
    BY <1>9, <2>1 DEF K
  <2> QED BY <1>6, <2>2
<1>11. v[l] \in Nat
  BY <1>1, <1>4
<1> QED BY <1>3, <1>10, <1>11 DEF Bytes, v, l, n

\* One turn of the loop: what is left to take, and the buffers that are kept.
Turn == [bytes : Nat, kept : Seq(Nat)]

\* As long as there is something left to take nothing is kept.
Front1(p) == p.bytes = 0 \/ p.kept = <<>>

\* A turn takes a byte or keeps it.
LEMMA TakeIs ==
  ASSUME NEW p \in Turn, NEW len \in Nat, Front1(p)
  PROVE  /\ Take(p, len) \in Turn /\ Front1(Take(p, len))
         /\ Bytes(Take(p, len).kept) + p.bytes = Bytes(p.kept) + len + Take(p, len).bytes
<1> DEFINE b == p.bytes
           c == p.kept
           took == IF b < len THEN b ELSE len
           rest == b - took
           left == len - took
           d == IF took < len THEN Append(c, left) ELSE c
<1>1. b \in Nat /\ c \in Seq(Nat)
  BY DEF Turn
<1>2. Take(p, len) = [bytes |-> rest, kept |-> d]
  BY DEF Take
<1>3. took \in Nat /\ took <= b /\ took <= len /\ (took < len => took = b)
  BY <1>1
<1> HIDE DEF took
<1>4. rest \in Nat /\ left \in Nat /\ b = rest + took /\ len = left + took
  BY <1>1, <1>3
<1>5. Bytes(c) \in Nat /\ Append(c, left) \in Seq(Nat) /\ Bytes(Append(c, left)) = Bytes(c) + left
  <2> HIDE DEF left, c
  <2> QED BY <1>1, <1>4, BytesAppend
<1>6. d \in Seq(Nat) /\ Bytes(d) = Bytes(c) + left
  <2>1. CASE took < len
    BY <1>5, <2>1
  <2>2. CASE ~(took < len)
    <3>1. left = 0 /\ d = c
      BY <1>3, <1>4, <2>2
    <3> QED BY <1>1, <1>5, <3>1
  <2> QED BY <2>1, <2>2
<1>7. rest = 0 \/ d = <<>>
  <2>1. CASE took < len
    BY <1>1, <1>3, <2>1
  <2>2. CASE ~(took < len)
    <3>1. d = c
      BY <2>2
    <3>2. CASE b = 0
      BY <1>3, <1>4, <3>2
    <3> QED BY <3>1, <3>2 DEF Front1
  <2> QED BY <2>1, <2>2
<1> DEFINE r == Take(p, len)
<1> HIDE DEF d
<1>8. r.bytes = rest /\ r.kept = d /\ r \in Turn
  BY <1>2, <1>4, <1>6 DEF Turn
<1>9. Bytes(d) + b = Bytes(c) + len + rest
  <2> DEFINE x == Bytes(d)
             y == Bytes(c)
  <2>1. x = y + left /\ y \in Nat
    BY <1>5, <1>6
  <2> HIDE DEF x, y, rest, left
  <2>2. b \in Nat /\ rest \in Nat /\ left \in Nat /\ took \in Nat /\ b = rest + took /\ len = left + took
    BY <1>1, <1>3, <1>4
  <2> HIDE DEF b
  <2>3. x + b = y + len + rest
    BY <2>1, <2>2
  <2> QED BY <2>3 DEF x, y
<1> HIDE DEF r, rest
<1>10. Front1(r)
  BY <1>7, <1>8 DEF Front1
<1>11. Bytes(r.kept) + p.bytes = Bytes(p.kept) + len + r.bytes
  BY <1>8, <1>9
<1> QED BY <1>8, <1>10, <1>11 DEF r

\* Turns(b, n) makes the turns one after the other.
LEMMA TurnsIs ==
  ASSUME NEW b \in Seq(Nat), NEW n \in Nat
  PROVE  /\ Turns(b, n)[0] = [bytes |-> n, kept |-> <<>>]
         /\ \A k \in 1..Len(b) : Turns(b, n)[k] = Take(Turns(b, n)[k - 1], b[k])
<1> DEFINE l == Len(b)
           z == [bytes |-> n, kept |-> <<>>]
           P(g) == g = [k \in 0..l |-> IF k = 0 THEN z ELSE Take(g[k - 1], b[k])]
           Good(g, m) == g[0] = z /\ \A k \in 1..m : g[k] = Take(g[k - 1], b[k])
           IsFun(g, m) == DOMAIN g = 0..m /\ g = [k \in 0..m |-> g[k]]
           K == {m \in 0..l : \E g : IsFun(g, m) /\ Good(g, m)}
<1>1. l \in Nat
  OBVIOUS
<1>2. Turns(b, n) = CHOOSE f : P(f)
  BY DEF Turns
<1> HIDE DEF z
<1>3. 0 \in K
  <2> DEFINE g == [k \in 0..0 |-> z]
  <2>1. IsFun(g, 0) /\ g[0] = z
    OBVIOUS
  <2>2. Good(g, 0)
    BY <2>1
  <2>3. 0 \in 0..l
    BY <1>1
  <2> HIDE DEF g, Good, l, IsFun
  <2>4. \E x : IsFun(x, 0) /\ Good(x, 0)
    BY <2>1, <2>2
  <2> QED BY <2>3, <2>4
<1>4. ASSUME NEW m \in 0..l, m < l, m \in K PROVE m + 1 \in K
  <2>1. PICK g : IsFun(g, m) /\ Good(g, m)
    BY <1>4
  <2>2. m \in Nat /\ m + 1 \in 0..l
    BY <1>1, <1>4
  <2> DEFINE h == [k \in 0..(m + 1) |-> IF k = m + 1 THEN Take(g[m], b[m + 1]) ELSE g[k]]
  <2>3. IsFun(h, m + 1)
    OBVIOUS
  <2>4. h[0] = z
    BY <2>1, <2>2
  <2>5. ASSUME NEW k \in 1..(m + 1) PROVE h[k] = Take(h[k - 1], b[k])
    <3>1. CASE k = m + 1
      <4>1. k - 1 = m /\ m \in 0..(m + 1) /\ m # m + 1 /\ m + 1 \in 0..(m + 1)
        BY <2>2, <3>1
      <4>2. h[m] = g[m] /\ h[m + 1] = Take(g[m], b[m + 1])
        BY <4>1
      <4> HIDE DEF h
      <4> QED BY <3>1, <4>1, <4>2
    <3>2. CASE k # m + 1
      <4>1. k \in 1..m /\ k - 1 # m + 1 /\ k \in 0..(m + 1) /\ k - 1 \in 0..(m + 1)
        BY <2>2, <3>2
      <4>2. h[k] = g[k] /\ h[k - 1] = g[k - 1]
        BY <3>2, <4>1
      <4> HIDE DEF h
      <4> QED BY <2>1, <4>1, <4>2
    <3> QED BY <3>1, <3>2
  <2> HIDE DEF h
  <2>6. Good(h, m + 1)
    BY <2>4, <2>5
  <2> HIDE DEF Good, IsFun
  <2> QED BY <2>2, <2>3, <2>6
<1>5. l \in K
  <2>1. l \in 0..l
    BY <1>1
  <2> HIDE DEF K, l
  <2> QED BY <1>1, <1>3, <1>4, <2>1, Climb
<1>6. PICK g : IsFun(g, l) /\ Good(g, l)
  BY <1>5
<1>7. P(g)
  <2>1. \A k \in 0..l : k # 0 => k \in 1..l
    BY <1>1
  <2>2. \A k \in 0..l : g[k] = IF k = 0 THEN z ELSE Take(g[k - 1], b[k])
    BY <1>6, <2>1
  <2>3. g = [k \in 0..l |-> g[k]]
    BY <1>6
  <2> QED BY <2>2, <2>3
<1> DEFINE u == Turns(b, n)
<1>8. P(u)
  <2> HIDE DEF P
  <2> QED BY <1>2, <1>7
<1> HIDE DEF u
<1>9. u[0] = z /\ \A k \in 1..l : u[k] = Take(u[k - 1], b[k])
  <2>1. 0 \in 0..l /\ \A k \in 1..l : k \in 0..l /\ k # 0
    BY <1>1
  <2> QED BY <1>8, <2>1
<1> QED BY <1>9 DEF u, z

\* handle_write: what is left of the buffers has the bytes that were not
\* written.
LEMMA Consumed ==
  ASSUME NEW b \in Seq(Nat), NEW n \in Nat, n <= Bytes(b)
  PROVE  consume(b, n) \in Seq(Nat) /\ Bytes(consume(b, n)) \in Nat /\ Bytes(consume(b, n)) + n = Bytes(b)
<1> DEFINE l == Len(b)
           u == Turns(b, n)
           v == Upto(b)
           Fine(k) == /\ u[k] \in Turn /\ Front1(u[k])
                      /\ Bytes(u[k].kept) + n = v[k] + u[k].bytes
           K == {k \in 0..l : Fine(k)}
<1>1. u[0] = [bytes |-> n, kept |-> <<>>] /\ \A k \in 1..l : u[k] = Take(u[k - 1], b[k])
  BY TurnsIs
<1>2. l \in Nat /\ v[0] = 0 /\ (\A k \in 1..l : v[k] = v[k - 1] + b[k]) /\ \A k \in 0..l : v[k] \in Nat
  BY UptoIs
<1>3. \A k \in 1..l : b[k] \in Nat
  OBVIOUS
<1>l. l \in Nat
  OBVIOUS
<1> HIDE DEF l, u, v
<1>4. 0 \in K
  <2>1. u[0].bytes = n /\ u[0].kept = <<>> /\ u[0] \in Turn
    BY <1>1 DEF Turn
  <2>2. Bytes(u[0].kept) = 0
    BY <2>1, BytesNone
  <2>3. Fine(0)
    BY <1>2, <2>1, <2>2 DEF Front1
  <2> QED BY <1>2, <2>3
<1>5. ASSUME NEW k \in 0..l, k < l, k \in K PROVE k + 1 \in K
  <2>0. k \in 0..l /\ k < l
    BY <1>5
  <2>1. k + 1 \in 1..l /\ (k + 1) - 1 = k /\ k + 1 \in 0..l
    BY <1>l, <2>0
  <2> DEFINE p == u[k]
             len == b[k + 1]
             r == u[k + 1]
  <2>2. r = Take(p, len) /\ len \in Nat /\ v[k + 1] = v[k] + len /\ v[k] \in Nat
    BY <1>1, <1>2, <1>3, <2>1
  <2>3. p \in Turn /\ Front1(p) /\ Bytes(p.kept) + n = v[k] + p.bytes
    BY <1>5
  <2> HIDE DEF p, len, r
  <2>4. /\ r \in Turn /\ Front1(r)
        /\ Bytes(r.kept) + p.bytes = Bytes(p.kept) + len + r.bytes
    BY <2>2, <2>3, TakeIs
  <2>5. Bytes(p.kept) \in Nat /\ Bytes(r.kept) \in Nat /\ p.bytes \in Nat /\ r.bytes \in Nat
    <3>1. p.kept \in Seq(Nat) /\ r.kept \in Seq(Nat) /\ 0 \in Nat /\ p.bytes \in Nat /\ r.bytes \in Nat
      BY <2>3, <2>4 DEF Turn
    <3> QED BY <3>1, BytesAppend
  <2>6. Bytes(r.kept) + n = v[k + 1] + r.bytes
    <3> DEFINE B == Bytes(p.kept)
               G == Bytes(r.kept)
               x == p.bytes
               y == r.bytes
               f == v[k]
               g == v[k + 1]
    <3>1. /\ B + n = f + x /\ G + x = B + len + y /\ g = f + len
          /\ B \in Nat /\ G \in Nat /\ x \in Nat /\ y \in Nat /\ f \in Nat /\ len \in Nat
      BY <2>2, <2>3, <2>4, <2>5
    <3> HIDE DEF B, G, x, y, f, g
    <3>2. G + n = g + y
      BY <3>1
    <3> QED BY <3>2 DEF G, g, y
  <2>7. Fine(k + 1)
    BY <2>4, <2>6 DEF r
  <2> QED BY <2>1, <2>7
<1>6. Fine(l)
  <2>1. l \in 0..l
    BY <1>2
  <2> HIDE DEF K
  <2>2. \A k \in 0..l : k \in K
    BY <1>2, <1>4, <1>5, Climb
  <2> QED BY <2>1, <2>2 DEF K
<1> DEFINE d == u[l].kept
           y == u[l].bytes
<1>7. d = consume(b, n) /\ v[l] = Bytes(b)
  BY DEF consume, u, l, v, Bytes
<1>8. d \in Seq(Nat) /\ y \in Nat /\ (y = 0 \/ d = <<>>) /\ Bytes(d) + n = v[l] + y
  BY <1>6 DEF Turn, Front1
<1> HIDE DEF d, y, Fine
<1>9. Bytes(d) \in Nat /\ (d = <<>> => Bytes(d) = 0)
  <2>1. 0 \in Nat
    OBVIOUS
  <2> QED BY <1>8, <2>1, BytesAppend, BytesNone
<1>10. y = 0
  <2>1. CASE d = <<>>
    <3> DEFINE a == Bytes(d)
               w == v[l]
    <3>1. a = 0 /\ a + n = w + y /\ n <= w /\ w \in Nat
      BY <1>2, <1>7, <1>8, <1>9, <2>1
    <3> HIDE DEF a, w
    <3> QED BY <1>8, <3>1
  <2> QED BY <1>8, <2>1
<1>11. Bytes(d) + n = v[l]
  BY <1>2, <1>8, <1>10
<1> QED BY <1>7, <1>8, <1>9, <1>11

-----------------------------------------------------------------------------
(* The buffers and the writes. *)

\* At most one write is outstanding, of buffers that are still in front.
InFlight(w, b) == w = <<>> \/ \E c \in Seq(Nat) : w = <<c>> /\ c # <<>> /\ IsPrefix(c, b)

Small ==
  /\ fd \in BOOLEAN /\ flush \in BOOLEAN
  /\ writes \in 0..MaxWrites /\ reads \in 0..MaxReads

\* The loop thread starts a write when there is none and there are buffers.
Starting == pc[Loop] \in {"remains", "remains_release"}
Waiting  == lpc = "write_cb" /\ ~flush
Turnwise ==
  /\ Starting => wr = <<>> /\ bufs # <<>>
  /\ Waiting => wr = <<>> /\ bufs # <<>> /\ ~Starting

Stored == bufs \in Seq(Nat) /\ InFlight(wr, bufs)
Summed == acc \in Nat /\ sent \in Nat /\ BytesConserved

BInv == Small /\ Turnwise /\ Stored /\ Summed

\* A buffer goes to the end.
LEMMA FlightPush ==
  ASSUME NEW w, NEW b \in Seq(Nat), NEW e \in Nat, InFlight(w, b)
  PROVE  /\ InFlight(w, Append(b, e)) /\ Append(b, e) \in Seq(Nat) /\ Append(b, e) # <<>>
         /\ b = <<>> => w = <<>>
<1> DEFINE t == Append(b, e)
<1>0. t \in Seq(Nat) /\ Len(t) = Len(b) + 1 /\ Len(b) \in Nat /\ \A i \in 1..Len(b) : t[i] = b[i]
  OBVIOUS
<1> HIDE DEF t
<1>t. t # <<>>
  BY <1>0
<1>1. t \in Seq(Nat) /\ t # <<>> /\ Len(t) = Len(b) + 1 /\ \A i \in 1..Len(b) : t[i] = b[i]
  BY <1>0, <1>t
<1> HIDE DEF t
<1>2. CASE w = <<>>
  BY <1>1, <1>2 DEF InFlight, t
<1>3. ASSUME NEW c \in Seq(Nat), w = <<c>>, c # <<>>, IsPrefix(c, b)
      PROVE  InFlight(w, t) /\ b # <<>>
  <2>1. Len(c) \in Nat /\ Len(b) \in Nat /\ Len(c) <= Len(b) /\ SubSeq(c, 1, Len(c)) = SubSeq(b, 1, Len(c))
    BY <1>3 DEF IsPrefix
  <2>2. Len(c) > 0
    BY <1>3
  <2>3. b # <<>>
    BY <2>1, <2>2
  <2>4. SubSeq(b, 1, Len(c)) = SubSeq(t, 1, Len(c))
    <3>1. \A i \in 1..Len(c) : i \in 1..Len(b)
      BY <2>1
    <3>2. SubSeq(b, 1, Len(c)) = [i \in 1..Len(c) |-> b[i]]
      BY <2>1
    <3>3. SubSeq(t, 1, Len(c)) = [i \in 1..Len(c) |-> t[i]]
      BY <1>1, <2>1
    <3> QED BY <1>1, <3>1, <3>2, <3>3
  <2>5. IsPrefix(c, t)
    BY <1>1, <2>1, <2>4 DEF IsPrefix
  <2> QED BY <1>3, <2>3, <2>5 DEF InFlight
<1>4. InFlight(w, t) /\ (b = <<>> => w = <<>>)
  BY <1>1, <1>2, <1>3 DEF InFlight
<1> QED BY <1>1, <1>4 DEF t

\* A write of all buffers starts.
LEMMA FlightStart ==
  ASSUME NEW b \in Seq(Nat), b # <<>>
  PROVE  InFlight(Append(<<>>, b), b)
<1>1. Append(<<>>, b) = <<b>>
  OBVIOUS
<1>2. IsPrefix(b, b)
  BY DEF IsPrefix
<1> QED BY <1>1, <1>2 DEF InFlight

\* The outstanding write ends.
LEMMA FlightEnd ==
  ASSUME NEW w, NEW b, InFlight(w, b), w # <<>>
  PROVE  Tail(w) = <<>> /\ Head(w) \in Seq(Nat) /\ IsPrefix(Head(w), b)
<1>1. PICK c \in Seq(Nat) : w = <<c>> /\ c # <<>> /\ IsPrefix(c, b)
  BY DEF InFlight
<1>2. Tail(<<c>>) = <<>> /\ Head(<<c>>) = c
  OBVIOUS
<1> QED BY <1>1, <1>2

\* A step that leaves buffers and writes alone.
LEMMA Untouched ==
  ASSUME BInv, UNCHANGED <<bufs, wr, acc, sent>>, Small', Starting' => Starting, Waiting' => Waiting
  PROVE  BInv'
<1>1. Stored' /\ Summed'
  BY DEF BInv, Stored, Summed, BytesConserved
<1>2. Turnwise'
  BY DEF BInv, Turnwise
<1> QED BY <1>1, <1>2 DEF BInv

\* do_write and its closure: a buffer is queued.
LEMMA PushStep ==
  ASSUME IInv, BInv, NEW len \in Nat, NEW next \in {"idle", "remains", "remains_release"},
         push(len, next), next # "idle" <=> bufs = <<>>, ~Starting,
         UNCHANGED <<wr, sent, lpc, flush>>, Small'
  PROVE  BInv'
<1> DEFINE b == bufs
           d == Append(bufs, len)
<1>1. b \in Seq(Nat) /\ InFlight(wr, b) /\ acc \in Nat /\ sent \in Nat /\ acc = sent + Bytes(b)
  BY DEF BInv, Stored, Summed, BytesConserved
<1>2. bufs' = d /\ acc' = acc + len /\ pc' = [pc EXCEPT ![Loop] = next]
  BY DEF push
<1>3. pc'[Loop] = next
  BY <1>2, CallerFinite DEF IInv, Types, LoopTypes
<1> HIDE DEF b
<1>4. InFlight(wr, Append(b, len)) /\ Append(b, len) \in Seq(Nat) /\ Append(b, len) # <<>> /\ (b = <<>> => wr = <<>>)
  BY <1>1, FlightPush
<1>5. Bytes(b) \in Nat /\ Bytes(Append(b, len)) = Bytes(b) + len
  BY <1>1, BytesAppend
<1>6. Append(b, len) = d
  BY DEF b
<1> HIDE DEF d
<1>7. Stored'
  BY <1>2, <1>4, <1>6 DEF Stored
<1>8. Summed'
  <2> DEFINE B == Bytes(b)
             D == Bytes(d)
  <2>1. B \in Nat /\ D = B + len /\ acc = sent + B
    BY <1>1, <1>5, <1>6
  <2> HIDE DEF B, D
  <2>2. acc' = sent + D /\ acc' \in Nat
    BY <1>1, <1>2, <2>1, SMTT(20)
  <2> QED BY <1>1, <1>2, <2>2 DEF Summed, BytesConserved, D
<1>9. Turnwise'
  <2>1. Starting' => bufs = <<>>
    BY <1>3 DEF Starting
  <2>2. Waiting' => Waiting
    BY DEF Waiting
  <2>3. Waiting => bufs # <<>> /\ wr = <<>>
    BY DEF BInv, Turnwise
  <2> QED BY <1>2, <1>4, <1>6, <2>1, <2>2, <2>3 DEF Turnwise, b
<1> QED BY <1>7, <1>8, <1>9 DEF BInv

\* write_remains, called by itself or by handle_write, with no write
\* outstanding.
LEMMA StartStep ==
  ASSUME IInv, BInv, Starting \/ Waiting, start_remains, ~Starting', ~Waiting',
         UNCHANGED <<bufs, acc, sent>>, Small'
  PROVE  BInv'
<1> DEFINE b == bufs
<1>1. b \in Seq(Nat) /\ wr = <<>> /\ b # <<>>
  BY DEF BInv, Stored, Turnwise
<1>2. wr' = <<>> \/ wr' = Append(<<>>, b)
  BY <1>1 DEF start_remains
<1> HIDE DEF b
<1>3. InFlight(wr', b)
  BY <1>1, <1>2, FlightStart DEF InFlight
<1>4. Stored'
  BY <1>1, <1>3 DEF Stored, b
<1>5. Summed' /\ Turnwise'
  BY DEF BInv, Summed, BytesConserved, Turnwise
<1> QED BY <1>4, <1>5 DEF BInv

\* handle_write: what was written goes from the front of the buffers to the
\* bytes filters are told of.
LEMMA ReportStep ==
  ASSUME IInv, BInv, wr # <<>>, wr' = Tail(wr), ~Starting, pc' = pc,
         bufs' = consume(bufs, Bytes(Head(wr))), sent' = sent + Bytes(Head(wr)), acc' = acc,
         flush' = (bufs' = <<>>), Small'
  PROVE  BInv'
<1> DEFINE b == bufs
           c == Head(wr)
           n == Bytes(c)
           d == consume(b, n)
<1>1. b \in Seq(Nat) /\ InFlight(wr, b) /\ acc \in Nat /\ sent \in Nat /\ acc = sent + Bytes(b)
  BY DEF BInv, Stored, Summed, BytesConserved
<1>2. bufs' = d /\ sent' = sent + n
  OBVIOUS
<1>3. Tail(wr) = <<>> /\ c \in Seq(Nat) /\ IsPrefix(c, b)
  BY <1>1, FlightEnd
<1> HIDE DEF b, c
<1>4. n \in Nat /\ Bytes(b) \in Nat /\ n <= Bytes(b)
  BY <1>1, <1>3, BytesPrefix
<1> HIDE DEF n
<1>5. d \in Seq(Nat) /\ Bytes(d) \in Nat /\ Bytes(d) + n = Bytes(b)
  BY <1>1, <1>4, Consumed
<1> HIDE DEF d
<1>6. Stored'
  BY <1>2, <1>3, <1>5 DEF Stored, InFlight
<1>7. Summed'
  <2> DEFINE B == Bytes(b)
             D == Bytes(d)
  <2>1. B \in Nat /\ D \in Nat /\ D + n = B /\ acc = sent + B
    BY <1>1, <1>4, <1>5
  <2> HIDE DEF B, D
  <2>2. acc' = sent' + D /\ sent' \in Nat
    <3> DEFINE x == acc
               y == sent
               z == sent'
    <3>1. x \in Nat /\ y \in Nat /\ z = y + n /\ x = y + B /\ n \in Nat
      BY <1>1, <1>2, <1>4, <2>1
    <3> HIDE DEF x, y, z
    <3>2. x = z + D /\ z \in Nat
      BY ONLY <2>1, <3>1
    <3> QED BY <3>2 DEF x, z
  <2> QED BY <1>1, <1>2, <2>2 DEF Summed, BytesConserved, D
<1>8. Turnwise'
  BY <1>3 DEF Turnwise, Starting, Waiting
<1> QED BY <1>6, <1>7, <1>8 DEF BInv

\* Only these steps touch buffers and writes.
LEMMA WriteSteps ==
  ASSUME IInv, BInv, Small',
         \/ run_write \/ write_remains \/ write_return \/ write_error \/ write_done
         \/ \E len \in Lens : do_write(len)
  PROVE  BInv'
<1>t. pc \in [Caller -> {"idle", "close", "end", "write", "remains", "remains_release"}] /\ Loop \in Caller
  BY CallerFinite DEF IInv, Types, LoopTypes
<1>b. BInv
  OBVIOUS
<1>i. IInv
  OBVIOUS
<1>1. CASE run_write
  <2>1. ~Starting /\ UNCHANGED <<wr, sent, lpc, flush>>
    BY <1>1 DEF run_write, Runs, LoopAt, Starting, ioVars, loopVars
  <2>2. Head(q).len \in Nat
    <3>1. q \in Seq(Closure) /\ q # <<>> /\ Head(q).k = "write"
      BY <1>1 DEF run_write, Runs, IInv, Types
    <3>2. Head(q) \in Closure
      BY <3>1
    <3> HIDE DEF IInv, BInv
    <3> QED BY <3>1, <3>2, ChannelAssumption DEF Closure
  <2> DEFINE e == Head(q).len
  <2>3. CASE bufs = <<>> /\ push(e, "remains_release")
    <3> HIDE DEF e
    <3>1. e \in Nat
      BY <2>2 DEF e
    <3> QED BY <2>1, <2>3, <3>1, PushStep
  <2>4. CASE bufs # <<>> /\ push(e, "idle")
    <3> HIDE DEF e
    <3>1. e \in Nat
      BY <2>2 DEF e
    <3> QED BY <2>1, <2>4, <3>1, PushStep
  <2>5. CASE UNCHANGED <<bufs, acc, pc>>
    <3>1. UNCHANGED <<bufs, wr, acc, sent>> /\ Starting' = Starting /\ Waiting' = Waiting
      BY <2>1, <2>5 DEF Starting, Waiting
    <3> QED BY <3>1, Untouched
  <2> QED BY <1>1, <2>3, <2>4, <2>5 DEF run_write
<1>2. CASE write_remains
  <2>1. Starting /\ start_remains /\ UNCHANGED <<bufs, acc, sent, lpc, flush>> /\ pc' = [pc EXCEPT ![Loop] = "idle"]
    BY <1>2 DEF write_remains, Starting, loopVars, history
  <2>2. pc'[Loop] = "idle"
    BY <1>t, <2>1
  <2>3. ~Starting' /\ ~Waiting'
    BY <1>b, <2>1, <2>2 DEF Starting, Waiting, BInv, Turnwise
  <2> QED BY <2>1, <2>3, StartStep
<1>3. CASE write_return
  <2>1. ~Starting /\ lpc = "write_cb" /\ lpc' = "idle" /\ flush' = FALSE /\ UNCHANGED <<bufs, acc, sent, pc>>
    BY <1>3 DEF write_return, LoopAt, Starting, history
  <2>2. ~Starting' /\ ~Waiting'
    BY <2>1 DEF Starting, Waiting
  <2>3. CASE ~flush /\ start_remains
    BY <2>1, <2>2, <2>3, StartStep DEF Waiting
  <2>4. CASE UNCHANGED wr
    BY <2>1, <2>2, <2>4, Untouched
  <2> QED BY <1>3, <2>3, <2>4 DEF write_return
<1>4. ASSUME wr # <<>>, wr' = Tail(wr), UNCHANGED <<bufs, acc, sent, pc, lpc, flush>>, LoopAt("idle") PROVE BInv'
  <2>1. InFlight(wr, bufs) /\ bufs \in Seq(Nat)
    BY <1>b DEF BInv, Stored
  <2>2. Tail(wr) = <<>>
    BY <1>4, <2>1, FlightEnd
  <2>3. Stored'
    BY <1>4, <2>1, <2>2 DEF Stored, InFlight
  <2>4. Summed'
    BY <1>b, <1>4 DEF BInv, Summed, BytesConserved
  <2>5. Turnwise'
    BY <1>4 DEF Turnwise, Starting, Waiting, LoopAt
  <2> QED BY <2>3, <2>4, <2>5 DEF BInv
<1>5. CASE write_error
  BY <1>4, <1>5 DEF write_error, loopVars, history
<1>6. CASE write_done
  <2>1. LoopAt("idle") /\ wr # <<>> /\ wr' = Tail(wr) /\ UNCHANGED <<acc, pc>> /\ ~Starting
    BY <1>6 DEF write_done, LoopAt, Starting
  <2>2. CASE UNCHANGED <<bufs, sent, flush, lpc>>
    BY <1>4, <2>1, <2>2
  <2>3. CASE bufs' = consume(bufs, Bytes(Head(wr))) /\ sent' = sent + Bytes(Head(wr)) /\ flush' = (bufs' = <<>>)
    BY <2>1, <2>3, ReportStep
  <2> QED BY <1>6, <2>2, <2>3 DEF write_done
<1>7. ASSUME NEW len \in Lens, do_write(len) PROVE BInv'
  <2>1. len \in Nat
    BY ChannelAssumption
  <2>2. push(len, after_push) /\ ~Starting /\ UNCHANGED <<wr, sent, lpc, flush>>
    BY <1>7 DEF do_write, MayCall, Starting, ioVars, loopVars
  <2>3. CASE bufs = <<>>
    <3>1. push(len, "remains")
      BY <2>2, <2>3 DEF after_push
    <3> QED BY <2>1, <2>2, <2>3, <3>1, PushStep
  <2>4. CASE bufs # <<>>
    <3>1. push(len, "idle")
      BY <2>2, <2>4 DEF after_push
    <3> QED BY <2>1, <2>2, <2>4, <3>1, PushStep
  <2> QED BY <2>3, <2>4
<1> QED BY <1>1, <1>2, <1>3, <1>5, <1>6, <1>7

\* A counter below its bound counts on.
LEMMA CountOn == \A m \in Nat : 0 \in 0..m /\ \A n \in 0..m : n < m => n + 1 \in 0..m
OBVIOUS

\* Counters within their bounds.
LEMMA SmallStep == BInv /\ [Next]_vars => Small'
<1> SUFFICES ASSUME Small, [Next]_vars PROVE Small'
  BY DEF BInv
<1>1. \A n \in 0..MaxWrites : n < MaxWrites => n + 1 \in 0..MaxWrites
  BY CountOn, ChannelAssumption
<1>2. \A n \in 0..MaxReads : n < MaxReads => n + 1 \in 0..MaxReads
  BY CountOn, ChannelAssumption
<1>3. fd' \in {FALSE, fd}
  BY DEF Next, LoopStep, Complete, Call, Post, discard, run_open, run_write, run_close, run_end, write_remains,
     open_return, read_return, write_return, error_return, close_return, read_error, read_data, write_error,
     write_done, fire_on_open, add_ref, release, close, do_write_off, execute_write, execute, do_write, vars, ioVars
<1>4. flush' \in {FALSE, TRUE, flush}
  BY DEF Next, LoopStep, Complete, Call, Post, discard, run_open, run_write, run_close, run_end, write_remains,
     open_return, read_return, write_return, error_return, close_return, read_error, read_data, write_error,
     write_done, fire_on_open, add_ref, release, close, do_write_off, execute_write, execute, do_write, vars, loopVars
<1>5. writes' = writes \/ (writes < MaxWrites /\ writes' = writes + 1)
  BY DEF Next, LoopStep, Complete, Call, Post, discard, run_open, run_write, run_close, run_end, write_remains,
     open_return, read_return, write_return, error_return, close_return, read_error, read_data, write_error,
     write_done, fire_on_open, add_ref, release, close, do_write_off, execute_write, execute, do_write, vars, history
<1>6. reads' = reads \/ (reads < MaxReads /\ reads' = reads + 1)
  BY DEF Next, LoopStep, Complete, Call, Post, discard, run_open, run_write, run_close, run_end, write_remains,
     open_return, read_return, write_return, error_return, close_return, read_error, read_data, write_error,
     write_done, fire_on_open, add_ref, release, close, do_write_off, execute_write, execute, do_write, vars, history
<1> QED BY <1>1, <1>2, <1>3, <1>4, <1>5, <1>6 DEF Small

\* No step breaks the invariant of the buffers.
LEMMA NextBuffers == IInv /\ BInv /\ [Next]_vars => BInv'
<1> SUFFICES ASSUME IInv, BInv, [Next]_vars PROVE BInv'
  OBVIOUS
<1>s. Small'
  BY SmallStep
<1>t. pc \in [Caller -> {"idle", "close", "end", "write", "remains", "remains_release"}] /\ Loop \in Caller
  BY CallerFinite DEF IInv, Types, LoopTypes
<1>1. CASE \/ run_write \/ write_remains \/ write_return \/ write_error \/ write_done
           \/ \E len \in Lens : do_write(len)
  BY <1>s, <1>1, WriteSteps
<1>2. ASSUME UNCHANGED <<bufs, wr, acc, sent, flush>>,
             pc' = pc \/ \E t \in Caller, x \in {"idle", "close", "end", "write"} : pc' = [pc EXCEPT ![t] = x],
             lpc' = lpc \/ lpc' # "write_cb"
      PROVE  BInv'
  <2>1. Starting' => Starting
    <3>1. ASSUME NEW t \in Caller, NEW x \in {"idle", "close", "end", "write"}, pc' = [pc EXCEPT ![t] = x]
          PROVE  pc'[Loop] = pc[Loop] \/ pc'[Loop] \in {"idle", "close", "end", "write"}
      BY <1>t, <3>1
    <3> QED BY <1>2, <3>1 DEF Starting
  <2>2. Waiting' => Waiting
    BY <1>2 DEF Waiting
  <2> QED BY <1>s, <1>2, <2>1, <2>2, Untouched
<1>3. CASE discard \/ run_open \/ open_return \/ read_return \/ run_close \/ run_end \/ error_return \/ close_return
           \/ read_error \/ read_data
  BY <1>2, <1>3 DEF discard, run_open, open_return, read_return, run_close, run_end, error_return, close_return,
     read_error, read_data, ioVars, loopVars, history
<1>4. ASSUME NEW t \in Caller, Call(t) \/ Post(t) PROVE BInv'
  <2>1. UNCHANGED <<bufs, wr, acc, sent, flush>>
    BY <1>4 DEF Call, Post, fire_on_open, add_ref, release, close, do_write_off, execute_write, execute, ioVars,
       loopVars, history
  <2>2. lpc' = lpc \/ lpc' # "write_cb"
    BY <1>4 DEF Call, Post, fire_on_open, add_ref, release, close, do_write_off, execute_write, execute, loopVars
  <2>3. \/ pc' = pc \/ pc' = [pc EXCEPT ![t] = "idle"] \/ pc' = [pc EXCEPT ![t] = "end"]
        \/ pc' = [pc EXCEPT ![t] = "close"] \/ pc' = [pc EXCEPT ![t] = "write"]
    BY <1>4 DEF Call, Post, fire_on_open, add_ref, release, close, reset_close, do_write_off, execute_write, execute
  <2> QED BY <1>2, <2>1, <2>2, <2>3
<1>5. CASE UNCHANGED vars
  BY <1>2, <1>5 DEF vars, ioVars, loopVars, history
<1> QED BY <1>1, <1>3, <1>4, <1>5 DEF Next, LoopStep, Complete

\* A new channel has no buffers.
LEMMA InitBuffers == Init => BInv
<1> SUFFICES ASSUME Init PROVE BInv
  OBVIOUS
<1>1. Small
  <2>1. 0 \in 0..MaxWrites /\ 0 \in 0..MaxReads
    BY CountOn, ChannelAssumption
  <2> QED BY <2>1 DEF Init, Small
<1>2. Turnwise
  BY CallerFinite DEF Init, Turnwise, Starting, Waiting
<1>3. Stored
  BY DEF Init, Stored, InFlight
<1>4. Summed
  BY BytesNone DEF Init, Summed, BytesConserved
<1> QED BY <1>1, <1>2, <1>3, <1>4 DEF BInv

\* The invariant of a channel's buffers.
THEOREM BuffersInvariant == Spec => []BInv
BY InitBuffers, NextBuffers, ChannelInvariant, PTL DEF Spec

\* The buffers of an outstanding write stay in front: do_write only appends,
\* and a write starts after the one before has been taken off.
THEOREM WritesStayInPlace == Spec => []WritesInPlace
<1>1. ASSUME BInv PROVE WritesInPlace
  <2>1. InFlight(wr, bufs)
    BY <1>1 DEF BInv, Stored
  <2>2. CASE wr = <<>>
    BY <2>2 DEF WritesInPlace
  <2>3. ASSUME NEW c \in Seq(Nat), wr = <<c>>, IsPrefix(c, bufs) PROVE WritesInPlace
    <3>1. DOMAIN <<c>> = {1} /\ <<c>>[1] = c
      OBVIOUS
    <3> QED BY <2>3, <3>1 DEF WritesInPlace
  <2> QED BY <2>1, <2>2, <2>3 DEF InFlight
<1> QED BY <1>1, BuffersInvariant, PTL

\* What filters were told is written, and what is still queued, are together
\* the bytes they gave to do_write.
THEOREM BytesAreConserved == Spec => []BytesConserved
<1>1. BInv => BytesConserved
  BY DEF BInv, Summed
<1> QED BY <1>1, BuffersInvariant, PTL

\* Every variable keeps its type, the reference count that of a natural number.
THEOREM ChannelTypes == Spec => []TypeOK
<1>1. ASSUME IInv, BInv PROVE TypeOK
  <2>1. wr \in Seq(Seq(Nat))
    <3>1. wr = <<>> \/ \E c \in Seq(Nat) : wr = <<c>>
      BY <1>1 DEF BInv, Stored, InFlight
    <3>2. ASSUME NEW c \in Seq(Nat) PROVE <<c>> \in Seq(Seq(Nat))
      OBVIOUS
    <3>3. <<>> \in Seq(Seq(Nat))
      OBVIOUS
    <3> DEFINE S == Seq(Seq(Nat))
    <3>4. <<>> \in S /\ \A c \in Seq(Nat) : <<c>> \in S
      BY <3>2, <3>3
    <3> HIDE DEF S
    <3>5. wr \in S
      BY ONLY <3>1, <3>4
    <3> QED BY <3>5 DEF S
  <2>2. fd \in BOOLEAN /\ flush \in BOOLEAN /\ writes \in 0..MaxWrites /\ reads \in 0..MaxReads /\ bufs \in Seq(Nat)
        /\ acc \in Nat /\ sent \in Nat
    BY <1>1 DEF BInv, Small, Stored, Summed
  <2>3. Types
    BY <1>1 DEF IInv
  <2>4. /\ st \in {"built", "live", "freed"} /\ flag \in FlagType /\ q \in Seq(Closure) /\ rd \in BOOLEAN
        /\ lpc \in {"idle", "open_cb", "read_cb", "write_cb", "error_cb", "close_cb"}
        /\ hold \in [Caller -> BOOLEAN]
        /\ pc \in [Caller -> {"idle", "close", "end", "write", "remains", "remains_release"}]
        /\ opens \in 0..2 /\ calls \in [error: Nat, close: Nat]
    BY <2>3 DEF Types, LoopTypes
  <2> QED BY ONLY <2>1, <2>2, <2>4 DEF TypeOK, FlagType
<1> QED BY <1>1, ChannelInvariant, BuffersInvariant, PTL
=============================================================================
