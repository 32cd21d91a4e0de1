---------------------------- MODULE PartsProofs ----------------------------
(***************************************************************************)
(* Proofs about the smaller parts of the library: slist::queue, for any    *)
(* nodes and queues; byte_buffer, for any buffers, blocks and sizes;       *)
(* pipeline_connector, for any number of addresses, any _timeout and any   *)
(* bounds.                                                                 *)
(***************************************************************************)
EXTENDS Slist, ByteBuffer, Connector, Counting

(* slist::queue: the links of the queues, and that a node is at one place. *)

SlistTypeOK ==
  /\ head \in [Queue -> Node \cup {NoNode}] /\ tail \in [Queue -> Node \cup {NoNode}]
  /\ next \in [Node -> Node \cup {NoNode}]
  /\ seq \in [Queue -> Seq(Node)]

OnePlace ==
  \A qu, r \in Queue : \A i \in DOMAIN seq[qu], j \in DOMAIN seq[r] :
    seq[qu][i] = seq[r][j] => qu = r /\ i = j

SlistInv == SlistTypeOK /\ OnePlace /\ LinksAreSequences

\* What the links of a queue say: it is empty if _head is null, and otherwise
\* starts at _head and ends at _tail.
LEMMA QueueEnds ==
  ASSUME SlistInv, NEW qu \in Queue
  PROVE  /\ seq[qu] \in Seq(Node) /\ DOMAIN seq[qu] = 1..Len(seq[qu]) /\ Len(seq[qu]) \in Nat
         /\ \A i \in DOMAIN seq[qu] : seq[qu][i] \in Node
         /\ empty(qu) <=> seq[qu] = <<>>
         /\ seq[qu] = <<>> <=> Len(seq[qu]) = 0
         /\ ~empty(qu) => /\ head[qu] = seq[qu][1] /\ tail[qu] = seq[qu][Len(seq[qu])]
                         /\ head[qu] \in Node /\ tail[qu] \in Node
         /\ \A i \in DOMAIN seq[qu] :
              next[seq[qu][i]] = IF i = Len(seq[qu]) THEN NoNode ELSE seq[qu][i + 1]
<1>1. seq[qu] \in Seq(Node) /\ Links(qu, seq[qu])
  BY DEF SlistInv, SlistTypeOK, LinksAreSequences
<1>2. seq[qu] # <<>> => Len(seq[qu]) \in Nat \ {0} /\ seq[qu][1] \in Node /\ seq[qu][Len(seq[qu])] \in Node
  BY <1>1
<1> QED BY <1>1, <1>2, SlistAssumption DEF Links, empty

\* push_back keeps the links: the old last node leads to the new one.
LEMMA PushBackKeeps ==
  ASSUME SlistInv, NEW qu \in Queue, NEW n \in Node, push_back(qu, n)
  PROVE  SlistInv'
<1> DEFINE s == seq[qu]
<1>1. /\ s \in Seq(Node) /\ DOMAIN s = 1..Len(s) /\ Len(s) \in Nat
      /\ seq'[qu] = Append(s, n) /\ Len(seq'[qu]) = Len(s) + 1 /\ DOMAIN seq'[qu] = 1..(Len(s) + 1)
      /\ \A i \in 1..Len(s) : seq'[qu][i] = s[i]
      /\ seq'[qu][Len(s) + 1] = n /\ seq'[qu] # <<>>
  BY QueueEnds DEF push_back, SlistInv, SlistTypeOK
<1>2. \A p \in Queue \ {qu} : seq'[p] = seq[p] /\ head'[p] = head[p] /\ tail'[p] = tail[p]
  <2> SUFFICES ASSUME NEW p \in Queue, p # qu
               PROVE  seq'[p] = seq[p] /\ head'[p] = head[p] /\ tail'[p] = tail[p]
    OBVIOUS
  <2>1. seq'[p] = seq[p] /\ tail'[p] = tail[p]
    BY DEF push_back, SlistInv, SlistTypeOK
  <2>2. head'[p] = head[p]
    BY DEF push_back, SlistInv, SlistTypeOK
  <2> QED BY <2>1, <2>2
<1>3. SlistTypeOK'
  <2>1. seq' \in [Queue -> Seq(Node)]
    BY DEF push_back, SlistInv, SlistTypeOK
  <2>2. head' \in [Queue -> Node \cup {NoNode}] /\ tail' \in [Queue -> Node \cup {NoNode}]
    BY DEF push_back, SlistInv, SlistTypeOK
  <2>3. next' \in [Node -> Node \cup {NoNode}]
    BY QueueEnds DEF push_back, SlistInv, SlistTypeOK
  <2> QED BY <2>1, <2>2, <2>3 DEF SlistTypeOK
<1>4. OnePlace'
  BY <1>1, <1>2 DEF push_back, Free, SlistInv, SlistTypeOK, OnePlace
<1>5. \A m \in Node : next'[m] = IF m = n THEN NoNode ELSE IF ~empty(qu) /\ m = tail[qu] THEN n ELSE next[m]
  BY QueueEnds DEF push_back, SlistInv, SlistTypeOK
<1>6. ASSUME NEW p \in Queue PROVE Links(p, seq[p])'
  <2>1. CASE p # qu
    <3>1. ASSUME NEW i \in DOMAIN seq[p]
          PROVE  seq[p][i] \in Node /\ seq[p][i] # n /\ (~empty(qu) => seq[p][i] # tail[qu])
      BY <2>1, QueueEnds DEF push_back, Free, SlistInv, OnePlace
    <3>2. Links(p, seq[p])
      BY DEF SlistInv, LinksAreSequences
    <3> QED BY <2>1, <1>2, <1>5, <3>1, <3>2 DEF Links
  <2>2. CASE p = qu
    <3>1. head'[qu] = seq'[qu][1] /\ tail'[qu] = seq'[qu][Len(seq'[qu])]
      BY <1>1, QueueEnds DEF push_back, SlistInv, SlistTypeOK
    <3>2. ASSUME NEW i \in 1..(Len(s) + 1)
          PROVE  next'[seq'[qu][i]] = IF i = Len(s) + 1 THEN NoNode ELSE seq'[qu][i + 1]
      <4>1. CASE i = Len(s) + 1
        BY <4>1, <1>1, <1>5
      <4>2. CASE i = Len(s)
        <5>1. ~empty(qu) /\ tail[qu] = s[i] /\ s[i] \in Node /\ s[i] # n
          BY <4>2, <1>1, QueueEnds DEF push_back, Free
        <5> QED BY <4>2, <5>1, <1>1, <1>5
      <4>3. CASE i < Len(s)
        <5>1. s[i] \in Node /\ s[i] # n /\ next[s[i]] = s[i + 1]
          BY <4>3, <1>1, QueueEnds DEF push_back, Free
        <5>2. tail[qu] # s[i]
          BY <4>3, <1>1, QueueEnds DEF SlistInv, OnePlace
        <5> QED BY <4>3, <5>1, <5>2, <1>1, <1>5
      <4> QED BY <4>1, <4>2, <4>3, <1>1
    <3> QED BY <2>2, <1>1, <3>1, <3>2 DEF Links
  <2> QED BY <2>1, <2>2
<1>7. ASSUME NEW m \in Node, Free(m)' PROVE next'[m] = NoNode
  <2>1. m # n
    BY <1>1, <1>7 DEF Free
  <2>2. Free(m)
    BY <1>1, <1>2, <1>7, SMTT(20) DEF Free
  <2>3. ~empty(qu) => m # tail[qu]
    BY <1>1, <2>2, QueueEnds DEF Free
  <2> QED BY <2>1, <2>2, <2>3, <1>5 DEF SlistInv, LinksAreSequences
<1> QED BY <1>3, <1>4, <1>6, <1>7 DEF SlistInv, LinksAreSequences

\* push_front keeps them: the new node leads to the old first one.  Into an
\* empty queue it needs that a free node has no next.
LEMMA PushFrontKeeps ==
  ASSUME SlistInv, NEW qu \in Queue, NEW n \in Node, push_front(qu, n)
  PROVE  SlistInv'
<1> DEFINE s == seq[qu]
<1>1. /\ s \in Seq(Node) /\ DOMAIN s = 1..Len(s) /\ Len(s) \in Nat
      /\ seq'[qu] = <<n>> \o s /\ seq'[qu] \in Seq(Node) /\ Len(seq'[qu]) = Len(s) + 1 /\ DOMAIN seq'[qu] = 1..(Len(s) + 1)
      /\ \A i \in 1..Len(s) : seq'[qu][i + 1] = s[i]
      /\ seq'[qu][1] = n /\ seq'[qu] # <<>>
  BY QueueEnds DEF push_front, SlistInv, SlistTypeOK
<1>2. \A p \in Queue \ {qu} : seq'[p] = seq[p] /\ head'[p] = head[p] /\ tail'[p] = tail[p]
  BY DEF push_front, SlistInv, SlistTypeOK, empty
<1>3. SlistTypeOK'
  <2>1. seq' \in [Queue -> Seq(Node)]
    BY <1>1, <1>2 DEF push_front, SlistInv, SlistTypeOK
  <2>2. next' \in [Node -> Node \cup {NoNode}] /\ tail' \in [Queue -> Node \cup {NoNode}]
    BY DEF push_front, SlistInv, SlistTypeOK
  <2>3. head' \in [Queue -> Node \cup {NoNode}]
    BY DEF push_front, SlistInv, SlistTypeOK
  <2> QED BY <2>1, <2>2, <2>3 DEF SlistTypeOK
<1>4. OnePlace'
  <2>1. ASSUME NEW i \in DOMAIN seq'[qu] PROVE seq'[qu][i] = IF i = 1 THEN n ELSE s[i - 1]
    BY <1>1
  <2>2. ASSUME NEW i \in DOMAIN seq'[qu], NEW j \in DOMAIN seq'[qu], seq'[qu][i] = seq'[qu][j]
        PROVE  i = j
    BY <1>1, <2>1, <2>2 DEF push_front, Free, SlistInv, OnePlace
  <2>3. ASSUME NEW p \in Queue \ {qu}, NEW i \in DOMAIN seq'[qu], NEW j \in DOMAIN seq'[p]
        PROVE  seq'[qu][i] # seq'[p][j]
    BY <1>1, <1>2, <2>1 DEF push_front, Free, SlistInv, OnePlace
  <2>4. ASSUME NEW p \in Queue \ {qu}, NEW r \in Queue \ {qu},
               NEW i \in DOMAIN seq'[p], NEW j \in DOMAIN seq'[r], seq'[p][i] = seq'[r][j]
        PROVE  p = r /\ i = j
    BY <1>2, <2>4 DEF SlistInv, OnePlace
  <2> QED BY <2>2, <2>3, <2>4 DEF OnePlace
<1>5. next[n] = NoNode /\ \A m \in Node : next'[m] = IF m = n THEN head[qu] ELSE next[m]
  BY QueueEnds DEF push_front, SlistInv, SlistTypeOK, empty, LinksAreSequences
<1>6. ASSUME NEW p \in Queue PROVE Links(p, seq[p])'
  <2>1. CASE p # qu
    <3>1. ASSUME NEW i \in DOMAIN seq[p] PROVE seq[p][i] \in Node /\ seq[p][i] # n
      BY QueueEnds DEF push_front, Free
    <3>2. Links(p, seq[p])
      BY DEF SlistInv, LinksAreSequences
    <3> QED BY <2>1, <1>2, <1>5, <3>1, <3>2 DEF Links
  <2>2. CASE p = qu
    <3>1. head'[qu] = seq'[qu][1] /\ tail'[qu] = seq'[qu][Len(seq'[qu])]
      BY <1>1, QueueEnds DEF push_front, SlistInv, SlistTypeOK
    <3>2. ASSUME NEW i \in 1..(Len(s) + 1)
          PROVE  next'[seq'[qu][i]] = IF i = Len(s) + 1 THEN NoNode ELSE seq'[qu][i + 1]
      <4>1. CASE i = 1
        <5>1. next'[n] = head[qu]
          BY <1>5
        <5>2. head[qu] = IF Len(s) = 0 THEN NoNode ELSE s[1]
          BY QueueEnds DEF empty
        <5> QED BY <4>1, <5>1, <5>2, <1>1
      <4>2. CASE i > 1
        <5> DEFINE j == i - 1
        <5>1. j \in 1..Len(s) /\ seq'[qu][i] = s[j] /\ (j < Len(s) => seq'[qu][i + 1] = s[j + 1])
          BY <4>2, <1>1
        <5>2. s[j] \in Node /\ s[j] # n /\ next[s[j]] = IF j = Len(s) THEN NoNode ELSE s[j + 1]
          BY <5>1, <1>1, QueueEnds DEF push_front, Free
        <5>3. next'[s[j]] = next[s[j]]
          BY <5>2, <1>5
        <5> QED BY <4>2, <5>1, <5>2, <5>3, <1>1
      <4> QED BY <4>1, <4>2, <1>1
    <3> QED BY <2>2, <1>1, <3>1, <3>2 DEF Links
  <2> QED BY <2>1, <2>2
<1>7. ASSUME NEW m \in Node, Free(m)' PROVE next'[m] = NoNode
  <2>1. m # n
    BY <1>1, <1>7 DEF Free
  <2>2. Free(m)
    <3>1. ASSUME NEW p \in Queue, NEW i \in DOMAIN seq[p] PROVE seq[p][i] # m
      <4>1. CASE p # qu
        BY <4>1, <1>2, <1>7 DEF Free
      <4>2. CASE p = qu
        BY <4>2, <1>1, <1>7 DEF Free
      <4> QED BY <4>1, <4>2
    <3> QED BY <3>1 DEF Free
  <2> QED BY <2>1, <2>2, <1>5 DEF SlistInv, LinksAreSequences
<1> QED BY <1>3, <1>4, <1>6, <1>7 DEF SlistInv, LinksAreSequences

\* pop_front keeps them, and the node that leaves has no next.
LEMMA PopFrontKeeps ==
  ASSUME SlistInv, NEW qu \in Queue, pop_front(qu)
  PROVE  SlistInv'
<1> DEFINE s == seq[qu]
           h == head[qu]
<1>1. /\ s \in Seq(Node) /\ DOMAIN s = 1..Len(s) /\ Len(s) \in Nat \ {0}
      /\ h = s[1] /\ h \in Node /\ tail[qu] = s[Len(s)]
      /\ seq'[qu] \in Seq(Node) /\ Len(seq'[qu]) = Len(s) - 1 /\ DOMAIN seq'[qu] = 1..(Len(s) - 1)
      /\ \A i \in 1..(Len(s) - 1) : seq'[qu][i] = s[i + 1]
      /\ seq'[qu] = <<>> <=> Len(s) = 1
  <2>1. s \in Seq(Node) /\ s # <<>> /\ seq'[qu] = Tail(s)
    BY QueueEnds DEF pop_front, SlistInv, SlistTypeOK
  <2>2. DOMAIN s = 1..Len(s) /\ Len(s) \in Nat \ {0} /\ h = s[1] /\ h \in Node /\ tail[qu] = s[Len(s)]
    BY QueueEnds DEF pop_front
  <2>3. Tail(s) \in Seq(Node) /\ Len(Tail(s)) = Len(s) - 1 /\ \A i \in 1..(Len(s) - 1) : Tail(s)[i] = s[i + 1]
    BY <2>1, HeadTailProperties
  <2>4. DOMAIN Tail(s) = 1..Len(Tail(s)) /\ (Tail(s) = <<>> <=> Len(Tail(s)) = 0)
    BY <2>3, LenProperties, EmptySeq
  <2> QED BY <2>1, <2>2, <2>3, <2>4
<1>2. \A p \in Queue \ {qu} : seq'[p] = seq[p] /\ head'[p] = head[p] /\ tail'[p] = tail[p]
  BY DEF pop_front, SlistInv, SlistTypeOK
<1>3. h = tail[qu] <=> Len(s) = 1
  BY <1>1 DEF SlistInv, OnePlace
<1>4. next[h] = IF Len(s) = 1 THEN NoNode ELSE s[2]
  BY <1>1, QueueEnds
<1>5. SlistTypeOK'
  <2>1. seq' \in [Queue -> Seq(Node)]
    BY <1>1, <1>2 DEF pop_front, SlistInv, SlistTypeOK
  <2> QED BY <1>1, <2>1, ZenonT(30) DEF pop_front, SlistInv, SlistTypeOK
<1>6. OnePlace'
  <2>1. ASSUME NEW i \in DOMAIN seq'[qu], NEW j \in DOMAIN seq'[qu], seq'[qu][i] = seq'[qu][j]
        PROVE  i = j
    <3>1. i \in 1..(Len(s) - 1) /\ j \in 1..(Len(s) - 1)
      BY <1>1
    <3>2. s[i + 1] = s[j + 1]
      BY <1>1, <2>1, <3>1
    <3>3. i + 1 \in DOMAIN s /\ j + 1 \in DOMAIN s /\ i \in Nat /\ j \in Nat
      BY <1>1, <3>1
    <3>4. i + 1 = j + 1
      BY <3>2, <3>3 DEF SlistInv, OnePlace
    <3> QED BY <3>3, <3>4
  <2>2. ASSUME NEW p \in Queue \ {qu}, NEW i \in DOMAIN seq'[qu], NEW j \in DOMAIN seq'[p]
        PROVE  seq'[qu][i] # seq'[p][j]
    <3>1. i + 1 \in DOMAIN s /\ seq'[qu][i] = s[i + 1] /\ j \in DOMAIN seq[p] /\ seq'[p][j] = seq[p][j]
      BY <1>1, <1>2
    <3> QED BY <3>1 DEF SlistInv, OnePlace
  <2>3. ASSUME NEW p \in Queue \ {qu}, NEW r \in Queue \ {qu},
               NEW i \in DOMAIN seq'[p], NEW j \in DOMAIN seq'[r], seq'[p][i] = seq'[r][j]
        PROVE  p = r /\ i = j
    BY <1>2, <2>3 DEF SlistInv, OnePlace
  <2> QED BY <2>1, <2>2, <2>3 DEF OnePlace
<1>7. \A m \in Node : next'[m] = IF m = h THEN NoNode ELSE next[m]
  BY <1>1, <1>3, <1>4 DEF pop_front, SlistInv, SlistTypeOK
<1>8. ASSUME NEW p \in Queue PROVE Links(p, seq[p])'
  <2>1. CASE p # qu
    <3>1. ASSUME NEW i \in DOMAIN seq[p] PROVE seq[p][i] \in Node /\ seq[p][i] # h
      BY <2>1, <1>1, QueueEnds DEF SlistInv, OnePlace
    <3>2. Links(p, seq[p])
      BY DEF SlistInv, LinksAreSequences
    <3> QED BY <2>1, <1>2, <1>7, <3>1, <3>2 DEF Links
  <2>2. CASE p = qu
    <3>1. head'[qu] = IF Len(s) = 1 THEN NoNode ELSE s[2]
      BY <1>1, <1>3, <1>4 DEF pop_front, SlistInv, SlistTypeOK
    <3>2. tail'[qu] = IF Len(s) = 1 THEN NoNode ELSE s[Len(s)]
      BY <1>1, <1>3 DEF pop_front, SlistInv, SlistTypeOK
    <3>3. ASSUME NEW i \in 1..(Len(s) - 1)
          PROVE  next'[seq'[qu][i]] = IF i = Len(s) - 1 THEN NoNode ELSE seq'[qu][i + 1]
      <4>1. s[i + 1] \in Node /\ s[i + 1] # h
        BY <1>1 DEF SlistInv, OnePlace
      <4>2. i + 1 \in DOMAIN s /\ (i + 1) + 1 = i + 2
        BY <1>1
      <4>3. next[s[i + 1]] = IF i + 1 = Len(s) THEN NoNode ELSE s[(i + 1) + 1]
        BY <4>2, QueueEnds
      <4> QED BY <4>1, <4>2, <4>3, <1>1, <1>7, SMTT(20)
    <3>4. Len(s) # 1 => seq'[qu][1] = s[2] /\ seq'[qu][Len(s) - 1] = s[Len(s)]
      BY <1>1
    <3> QED BY <2>2, <1>1, <3>1, <3>2, <3>3, <3>4 DEF Links
  <2> QED BY <2>1, <2>2
<1>9. ASSUME NEW m \in Node, Free(m)', m # h PROVE next'[m] = NoNode
  <2>1. ASSUME NEW p \in Queue, NEW i \in DOMAIN seq[p] PROVE seq[p][i] # m
    <3>1. CASE p # qu
      BY <3>1, <1>2, <1>9 DEF Free
    <3>2. CASE p = qu /\ i = 1
      BY <3>2, <1>1, <1>9
    <3>3. CASE p = qu /\ i # 1
      <4>1. i - 1 \in DOMAIN seq'[qu] /\ seq'[qu][i - 1] = s[i]
        BY <3>3, <1>1
      <4> QED BY <3>3, <4>1, <1>9 DEF Free
    <3> QED BY <3>1, <3>2, <3>3
  <2> QED BY <2>1, <1>7, <1>9 DEF Free, SlistInv, LinksAreSequences
<1> QED BY <1>5, <1>6, <1>7, <1>8, <1>9 DEF SlistInv, LinksAreSequences

\* splice keeps them: the last node of qu leads to the first of r.
LEMMA SpliceKeeps ==
  ASSUME SlistInv, NEW qu \in Queue, NEW r \in Queue, splice(qu, r)
  PROVE  SlistInv'
<1> DEFINE s == seq[qu]
           t == seq[r]
           n == Len(s)
           m == Len(t)
           u == seq'[qu]
<1>1. /\ s \in Seq(Node) /\ DOMAIN s = 1..n /\ n \in Nat
      /\ t \in Seq(Node) /\ DOMAIN t = 1..m /\ m \in Nat \ {0}
      /\ qu # r /\ head[r] = t[1] /\ tail[r] = t[m]
      /\ head[r] \in Node /\ tail[r] \in Node
  BY QueueEnds DEF splice
<1>2. /\ \A i \in 1..n : s[i] \in Node /\ next[s[i]] = IF i = n THEN NoNode ELSE s[i + 1]
      /\ \A i \in 1..m : t[i] \in Node /\ next[t[i]] = IF i = m THEN NoNode ELSE t[i + 1]
      /\ empty(qu) <=> n = 0
      /\ n # 0 => head[qu] = s[1] /\ tail[qu] = s[n]
  BY QueueEnds
<1>3. /\ \A i, j \in 1..n : s[i] = s[j] => i = j
      /\ \A i, j \in 1..m : t[i] = t[j] => i = j
      /\ \A i \in 1..n, j \in 1..m : s[i] # t[j]
      /\ \A p \in Queue \ {qu, r} : \A k \in DOMAIN seq[p] :
           (\A i \in 1..n : seq[p][k] # s[i]) /\ (\A j \in 1..m : seq[p][k] # t[j])
  BY <1>1 DEF SlistInv, OnePlace
<1>4. u = s \o t /\ seq'[r] = <<>> /\ seq' = [seq EXCEPT ![qu] = u, ![r] = <<>>]
  BY <1>1 DEF splice, SlistInv, SlistTypeOK
<1>5. /\ head' = [head EXCEPT ![qu] = IF n = 0 THEN head[r] ELSE s[1], ![r] = NoNode]
      /\ tail' = [tail EXCEPT ![qu] = tail[r], ![r] = NoNode]
      /\ next' = IF n = 0 THEN next ELSE [next EXCEPT ![s[n]] = head[r]]
  BY <1>1, <1>2 DEF splice, SlistInv, SlistTypeOK
<1>6. \A p \in Queue \ {qu, r} : seq'[p] = seq[p] /\ head'[p] = head[p] /\ tail'[p] = tail[p]
  BY DEF splice, SlistInv, SlistTypeOK
<1>7. \A x \in Node : Free(x) <=> /\ \A i \in 1..n : s[i] # x
                                 /\ \A i \in 1..m : t[i] # x
                                 /\ \A p \in Queue \ {qu, r} : \A k \in DOMAIN seq[p] : seq[p][k] # x
  BY <1>1 DEF Free
<1>8. \A x \in Node : Free(x)' <=> /\ \A i \in DOMAIN u : u[i] # x
                                  /\ \A p \in Queue \ {qu, r} : \A k \in DOMAIN seq[p] : seq[p][k] # x
  <2>1. DOMAIN seq'[r] = {} /\ seq'[qu] = u
    BY <1>4
  <2> HIDE DEF u
  <2> QED BY <1>6, <2>1 DEF Free
<1> HIDE DEF s, t, n, m, u
<1>9. /\ u \in Seq(Node) /\ Len(u) = n + m /\ DOMAIN u = 1..(n + m) /\ u # <<>>
      /\ \A i \in 1..n : u[i] = s[i]
      /\ \A i \in 1..m : u[n + i] = t[i]
  <2>1. n = Len(s) /\ m = Len(t)
    BY DEF n, m
  <2> QED BY <1>1, <1>4, <2>1
\* A place of u is one of s or one of t, moved by n.
<1>10. ASSUME NEW i \in DOMAIN u
       PROVE  i \in 1..n \/ \E j \in 1..m : i = n + j
  <2>1. i \in 1..n \/ (i - n \in 1..m /\ i = n + (i - n))
    BY <1>1, <1>9
  <2> QED BY <2>1
<1>11. SlistTypeOK'
  <2>1. seq' \in [Queue -> Seq(Node)]
    <3>1. <<>> \in Seq(Node) /\ seq \in [Queue -> Seq(Node)]
      BY DEF SlistInv, SlistTypeOK
    <3> QED BY <1>4, <1>9, <3>1
  <2>2. \A i \in 1..n : s[i] \in Node
    BY <1>2
  <2>3. n # 0 => s[1] \in Node /\ s[n] \in Node
    BY <1>1, <2>2
  <2>4. head' \in [Queue -> Node \cup {NoNode}] /\ tail' \in [Queue -> Node \cup {NoNode}]
    BY <1>1, <1>5, <2>3 DEF SlistInv, SlistTypeOK
  <2>5. next' \in [Node -> Node \cup {NoNode}]
    BY <1>1, <1>5, <2>3 DEF SlistInv, SlistTypeOK
  <2> QED BY <2>1, <2>4, <2>5 DEF SlistTypeOK
<1>12. OnePlace'
  <2>1. ASSUME NEW i \in DOMAIN u, NEW j \in DOMAIN u, u[i] = u[j] PROVE i = j
    <3>1. CASE i \in 1..n /\ j \in 1..n
      BY <1>3, <1>9, <2>1, <3>1
    <3>2. ASSUME NEW k \in 1..m, i \in 1..n, j = n + k PROVE FALSE
      BY <1>3, <1>9, <2>1, <3>2
    <3>3. ASSUME NEW k \in 1..m, i = n + k, j \in 1..n PROVE FALSE
      BY <1>3, <1>9, <2>1, <3>3
    <3>4. ASSUME NEW k \in 1..m, NEW l \in 1..m, i = n + k, j = n + l PROVE i = j
      BY <1>3, <1>9, <2>1, <3>4
    <3> QED BY <1>10, <3>1, <3>2, <3>3, <3>4
  <2>2. ASSUME NEW p \in Queue \ {qu, r}, NEW i \in DOMAIN u, NEW j \in DOMAIN seq[p]
        PROVE  u[i] # seq[p][j]
    BY <1>3, <1>9, <1>10
  <2>3. ASSUME NEW o \in Queue \ {qu, r}, NEW p \in Queue \ {qu, r},
               NEW i \in DOMAIN seq[o], NEW j \in DOMAIN seq[p], seq[o][i] = seq[p][j]
        PROVE  o = p /\ i = j
    BY <2>3 DEF SlistInv, OnePlace
  <2>4. DOMAIN seq'[r] = {} /\ seq'[qu] = u
    BY <1>4 DEF u
  <2> QED BY <1>6, <2>1, <2>2, <2>3, <2>4 DEF OnePlace
<1>13. \A x \in Node : next'[x] = IF n # 0 /\ x = s[n] THEN t[1] ELSE next[x]
  BY <1>1, <1>5 DEF SlistInv, SlistTypeOK
<1>14. ASSUME NEW p \in Queue \ {qu, r} PROVE Links(p, seq[p])'
  <2>1. ASSUME NEW i \in DOMAIN seq[p] PROVE seq[p][i] \in Node /\ (n # 0 => seq[p][i] # s[n])
    BY <1>1, <1>3, QueueEnds
  <2>2. Links(p, seq[p])
    BY DEF SlistInv, LinksAreSequences
  <2> QED BY <1>6, <1>13, <2>1, <2>2 DEF Links
<1>15. Links(r, seq[r])'
  BY <1>1, <1>4, <1>5 DEF Links, SlistInv, SlistTypeOK
<1>16. Links(qu, seq[qu])'
  <2>1. head'[qu] = u[1]
    <3>1. head'[qu] = IF n = 0 THEN t[1] ELSE s[1]
      BY <1>1, <1>5 DEF SlistInv, SlistTypeOK
    <3>2. CASE n = 0
      BY <1>1, <1>9, <3>1, <3>2
    <3>3. CASE n # 0
      BY <1>1, <1>9, <3>1, <3>3
    <3> QED BY <3>2, <3>3
  <2>2. tail'[qu] = u[n + m]
    <3>1. tail'[qu] = t[m] /\ m \in 1..m
      BY <1>1, <1>5 DEF SlistInv, SlistTypeOK
    <3> QED BY <1>9, <3>1
  <2>3. ASSUME NEW i \in 1..n PROVE next'[u[i]] = u[i + 1] /\ i # n + m
    <3>1. CASE i = n
      <4>1. u[i] = s[n] /\ s[n] \in Node /\ 1 \in 1..m /\ n # 0
        BY <1>1, <1>2, <1>9, <3>1
      <4>2. u[i + 1] = t[1]
        BY <1>9, <3>1, <4>1
      <4> QED BY <1>1, <1>13, <3>1, <4>1, <4>2
    <3>2. CASE i # n
      <4>1. i + 1 \in 1..n
        BY <1>1, <3>2
      <4>2. u[i] = s[i] /\ u[i + 1] = s[i + 1] /\ s[i] \in Node /\ next[s[i]] = s[i + 1]
        BY <1>2, <1>9, <3>2, <4>1
      <4>3. s[i] # s[n]
        BY <1>1, <1>3, <3>2
      <4>4. i # n + m
        BY <1>1
      <4> QED BY <1>13, <4>2, <4>3, <4>4
    <3> QED BY <3>1, <3>2
  <2>4. ASSUME NEW j \in 1..m
        PROVE  next'[u[n + j]] = IF n + j = n + m THEN NoNode ELSE u[(n + j) + 1]
    <3>1. u[n + j] = t[j] /\ t[j] \in Node /\ next[t[j]] = IF j = m THEN NoNode ELSE t[j + 1]
      BY <1>2, <1>9
    <3>2. n # 0 => t[j] # s[n]
      BY <1>1, <1>3
    <3>3. next'[u[n + j]] = next[t[j]]
      BY <1>13, <3>1, <3>2
    <3>4. (n + j = n + m <=> j = m) /\ (n + j) + 1 = n + (j + 1) /\ (j # m => j + 1 \in 1..m)
      BY <1>1
    <3>5. j # m => u[n + (j + 1)] = t[j + 1]
      BY <1>9, <3>4
    <3> QED BY <3>1, <3>3, <3>4, <3>5
  <2>5. ASSUME NEW i \in DOMAIN u PROVE next'[u[i]] = IF i = Len(u) THEN NoNode ELSE u[i + 1]
    BY <1>9, <1>10, <2>3, <2>4
  <2>6. seq'[qu] = u
    BY DEF u
  <2> QED BY <1>9, <2>1, <2>2, <2>5, <2>6 DEF Links
<1>17. ASSUME NEW x \in Node, Free(x)' PROVE next'[x] = NoNode
  <2>1. ASSUME NEW i \in 1..n PROVE s[i] # x
    <3>1. i \in DOMAIN u /\ u[i] = s[i]
      BY <1>1, <1>9
    <3> QED BY <1>8, <1>17, <3>1
  <2>2. ASSUME NEW i \in 1..m PROVE t[i] # x
    <3>1. n + i \in DOMAIN u /\ u[n + i] = t[i]
      BY <1>1, <1>9
    <3> QED BY <1>8, <1>17, <3>1
  <2>3. Free(x)
    BY <1>7, <1>8, <1>17, <2>1, <2>2
  <2>4. n # 0 => x # s[n]
    BY <1>1, <2>1
  <2> QED BY <1>13, <2>3, <2>4 DEF SlistInv, LinksAreSequences
<1> QED BY <1>11, <1>12, <1>14, <1>15, <1>16, <1>17 DEF SlistInv, LinksAreSequences

\* A move keeps them.
LEMMA MoveKeeps ==
  ASSUME SlistInv, NEW qu \in Queue, NEW r \in Queue, move_queue(qu, r)
  PROVE  SlistInv'
<1>1. qu # r /\ seq[qu] = <<>>
  BY QueueEnds DEF move_queue
<1>2. /\ seq'[qu] = seq[r] /\ head'[qu] = head[r] /\ tail'[qu] = tail[r]
      /\ seq'[r] = <<>> /\ head'[r] = NoNode /\ tail'[r] = NoNode
      /\ \A p \in Queue \ {qu, r} : seq'[p] = seq[p] /\ head'[p] = head[p] /\ tail'[p] = tail[p]
      /\ next' = next
  BY <1>1 DEF move_queue, SlistInv, SlistTypeOK
<1>3. SlistTypeOK'
  BY <1>1 DEF move_queue, SlistInv, SlistTypeOK
<1>4. OnePlace'
  BY <1>1, <1>2 DEF SlistInv, OnePlace
<1>5. ASSUME NEW p \in Queue PROVE Links(p, seq[p])'
  <2>1. Links(p, seq[p]) /\ Links(r, seq[r])
    BY DEF SlistInv, LinksAreSequences
  <2> QED BY <1>1, <1>2, <2>1 DEF Links
<1>6. ASSUME NEW m \in Node, Free(m)' PROVE next'[m] = NoNode
  <2>1. Free(m)
    BY <1>1, <1>2, <1>6 DEF Free
  <2> QED BY <2>1, <1>2 DEF SlistInv, LinksAreSequences
<1> QED BY <1>3, <1>4, <1>5, <1>6 DEF SlistInv, LinksAreSequences

\* Whatever nodes are pushed, popped, spliced and moved, the links of every
\* slist::queue lead through exactly its nodes in order, and a node outside all
\* queues has no next.
THEOREM LinksLead == SlistSpec => []LinksAreSequences
<1>1. SlistInit => SlistInv
  BY DEF SlistInit, SlistInv, SlistTypeOK, OnePlace, LinksAreSequences, Links, Free
<1>2. SlistInv /\ [SlistNext]_slistVars => SlistInv'
  <2> SUFFICES ASSUME SlistInv, [SlistNext]_slistVars PROVE SlistInv'
    OBVIOUS
  <2>1. ASSUME NEW qu \in Queue, NEW n \in Node, push_back(qu, n) \/ push_front(qu, n) PROVE SlistInv'
    BY <2>1, PushBackKeeps, PushFrontKeeps
  <2>2. ASSUME NEW qu \in Queue, pop_front(qu) PROVE SlistInv'
    BY <2>2, PopFrontKeeps
  <2>3. ASSUME NEW qu \in Queue, NEW r \in Queue, splice(qu, r) \/ move_queue(qu, r) PROVE SlistInv'
    BY <2>3, SpliceKeeps, MoveKeeps
  <2>4. CASE UNCHANGED slistVars
    BY <2>4 DEF slistVars, SlistInv, SlistTypeOK, OnePlace, LinksAreSequences, Links, Free
  <2> QED BY <2>1, <2>2, <2>3, <2>4 DEF SlistNext
<1>3. SlistInv => LinksAreSequences
  BY DEF SlistInv
<1> QED BY <1>1, <1>2, <1>3, PTL DEF SlistSpec

-----------------------------------------------------------------------------
(* byte_buffer: counts, positions and bytes. *)

BufferRec == [block : Block \cup {NoBlock}, read : Nat, write : Nat]
Octet == Byte \cup {Garbage}

\* The smaller of two numbers.
LEMMA MinOfTwo ==
  ASSUME NEW a \in Nat, NEW b \in Nat
  PROVE  /\ Min({a, b}) \in Nat /\ Min({a, b}) <= a /\ Min({a, b}) <= b
         /\ Min({a, b}) = a \/ Min({a, b}) = b
<1>1. \E x \in {a, b} : \A y \in {a, b} : x <= y
  OBVIOUS
<1>2. Min({a, b}) \in {a, b} /\ \A y \in {a, b} : Min({a, b}) <= y
  BY <1>1 DEF Min
<1> QED BY <1>2

\* A size class holds what it is for: the table's least entry that is large
\* enough, or the size itself.
LEMMA ClassIsLarge ==
  ASSUME NEW sz \in Nat
  PROVE  Class(sz) \in Nat /\ sz <= Class(sz)
<1> DEFINE K == {c \in Table : c >= sz}
<1>1. CASE \E c \in Table : c >= sz
  <2>1. K \in SUBSET Nat /\ K # {}
    BY <1>1, ByteBufferAssumption
  <2>2. \E k \in K : \A j \in K : k <= j
    BY <2>1, LeastNatural
  <2>3. Min(K) \in K
    BY <2>2 DEF Min
  <2>4. Class(sz) = Min(K)
    BY <1>1 DEF Class
  <2> QED BY <2>1, <2>3, <2>4
<1>2. CASE ~\E c \in Table : c >= sz
  BY <1>2 DEF Class
<1> QED BY <1>1, <1>2

\* A new block has its class's size.
LEMMA FilledType ==
  ASSUME NEW sz \in Nat, NEW s \in Seq(Octet)
  PROVE  /\ Filled(sz, s) \in Seq(Octet) /\ Len(Filled(sz, s)) = Class(sz)
<1>1. Class(sz) \in Nat
  BY ClassIsLarge
<1>2. \A i \in 1..Class(sz) : (IF i <= Len(s) THEN s[i] ELSE Garbage) \in Octet
  BY <1>1 DEF Octet
<1> QED BY <1>1, <1>2 DEF Filled

-----------------------------------------------------------------------------
(* The inductive invariant.  A buffer owns its block from reserve() or an  *)
(* allocation until it is copied; that nobody else has an owned block      *)
(* (OwnAlone) is why writing into it is safe, and it needs the counts,     *)
(* since reserve() trusts a count of one.                                  *)

\* The buffers that have block k, as values of buf.
With(k) == {z \in BufferRec : z.block = k}
Counts(r, f) == \A k \in Block : r[k] = Tally(f, With(k))


ByteTypeOK ==
  /\ refcount \in [Block -> Nat] /\ data \in [Block -> Seq(Octet)]
  /\ buf \in [Buffer -> BufferRec] /\ own \in [Buffer -> BOOLEAN]

Within == \A b \in Buffer : buf[b].read <= buf[b].write /\ buf[b].write <= capacity(b)

OwnAlone ==
  \A b, c \in Buffer : b # c /\ own[b] /\ buf[b].block # NoBlock => buf[c].block # buf[b].block

ByteInv == ByteTypeOK /\ Counts(refcount, buf) /\ Within /\ OwnAlone

\* What BytesKept says of one step.
Kept == \A b \in Buffer : buf'[b] = buf[b] => Bytes(b)' = Bytes(b)

\* A block that a buffer has is counted.
LEMMA HeldCounts ==
  ASSUME NEW r, NEW f \in [Buffer -> BufferRec], Counts(r, f), NEW b \in Buffer, f[b].block \in Block
  PROVE  r[f[b].block] # 0
<1> DEFINE T == With(f[b].block)
<1>1. f[b] \in T
  BY DEF With
<1>2. IsFiniteSet(Buffer)
  BY ByteBufferAssumption
<1>3. r[f[b].block] = Tally(f, T)
  BY DEF Counts
<1> HIDE DEF T
<1>4. Tally(f, T) = 0 => f[b] \notin T
  BY <1>2, TallyType
<1> QED BY <1>1, <1>3, <1>4

\* When one buffer changes, the number of buffers of a kind changes with it alone.
LEMMA BuffersTally ==
  ASSUME IsFiniteSet(Buffer), NEW f \in [Buffer -> BufferRec], NEW g \in [Buffer -> BufferRec],
         NEW T, NEW c \in Buffer, \A y \in Buffer : y # c => g[y] = f[y]
  PROVE  /\ (f[c] \in T <=> g[c] \in T) => Tally(g, T) = Tally(f, T)
         /\ f[c] \notin T /\ g[c] \in T => Tally(g, T) = Tally(f, T) + 1
         /\ f[c] \in T /\ g[c] \notin T => Tally(f, T) = Tally(g, T) + 1
BY TallyChange

\* One buffer changes its block: sharing the new one and dropping the old one
\* keeps the counts right, and none falls below zero.
LEMMA CountsFollow ==
  ASSUME NEW r \in [Block -> Nat], NEW f \in [Buffer -> BufferRec], Counts(r, f),
         NEW c \in Buffer, NEW g \in [Buffer -> BufferRec], NEW r2,
         \A y \in Buffer : y # c => g[y] = f[y], r2 = Drop(Share(r, g[c].block), f[c].block)
  PROVE  r2 \in [Block -> Nat] /\ Counts(r2, g)
<1>1. IsFiniteSet(Buffer)
  BY ByteBufferAssumption
<1> DEFINE u == f[c].block
           v == g[c].block
           s == Share(r, v)
<1>2. u \in Block \cup {NoBlock} /\ v \in Block \cup {NoBlock}
  BY DEF BufferRec
<1>3. u \in Block => r[u] # 0
  BY HeldCounts
<1>4. s \in [Block -> Nat] /\ \A k \in Block : s[k] = IF k = v THEN r[k] + 1 ELSE r[k]
  BY <1>2, ByteBufferAssumption DEF Share
<1>5. r2 = Drop(s, u)
  OBVIOUS
<1>6. \A k \in Block : r2[k] = IF k = u THEN s[k] - 1 ELSE s[k]
  BY <1>2, <1>4, <1>5, ByteBufferAssumption DEF Drop
<1>7. r2 \in [Block -> Nat]
  <2>1. CASE u = NoBlock
    BY <2>1, <1>4, <1>5 DEF Drop
  <2>2. CASE u \in Block
    <3>1. s[u] - 1 \in Nat
      BY <2>2, <1>3, <1>4
    <3> QED BY <2>2, <3>1, <1>4, <1>5, ByteBufferAssumption DEF Drop
  <2> QED BY <2>1, <2>2, <1>2
<1>8. ASSUME NEW k \in Block PROVE r2[k] = Tally(g, With(k))
  <2> DEFINE T == With(k)
  <2>1. (f[c] \in T <=> k = u) /\ (g[c] \in T <=> k = v)
    BY DEF With
  <2>2. r[k] = Tally(f, T) /\ r[k] \in Nat
    BY DEF Counts
  <2> HIDE DEF T
  <2>3. /\ (f[c] \in T <=> g[c] \in T) => Tally(g, T) = Tally(f, T)
        /\ f[c] \notin T /\ g[c] \in T => Tally(g, T) = Tally(f, T) + 1
        /\ f[c] \in T /\ g[c] \notin T => Tally(f, T) = Tally(g, T) + 1
    BY <1>1, BuffersTally
  <2>4. Tally(g, T) \in Nat
    BY <1>1, TallyType
  <2>5. r2[k] = IF k = u THEN (IF k = v THEN r[k] + 1 ELSE r[k]) - 1
                ELSE (IF k = v THEN r[k] + 1 ELSE r[k])
    BY <1>4, <1>6
  <2>6. r2[k] = Tally(g, T)
    BY <2>1, <2>2, <2>3, <2>4, <2>5
  <2> QED BY <2>6 DEF T
<1> QED BY <1>7, <1>8 DEF Counts

\* Only blocks that went back lose their bytes.
LEMMA GivenKeeps ==
  ASSUME NEW r, NEW d \in [Block -> Seq(Octet)]
  PROVE  /\ Given(d, r) \in [Block -> Seq(Octet)]
         /\ \A k \in Block : r[k] # 0 => Given(d, r)[k] = d[k]
<1>1. \A k \in Block : (IF r[k] = 0 THEN <<>> ELSE d[k]) \in Seq(Octet)
  OBVIOUS
<1> QED BY <1>1 DEF Given

\* What the positions of a buffer say of its bytes.
LEMMA BytesOf ==
  ASSUME ByteTypeOK, Within, NEW b \in Buffer
  PROVE  /\ buf[b].block \in Block \cup {NoBlock} /\ buf[b].read \in Nat /\ buf[b].write \in Nat
         /\ capacity(b) \in Nat /\ length(b) \in Nat /\ space(b) \in Nat /\ length(b) <= capacity(b)
         /\ Bytes(b) \in Seq(Octet) /\ Len(Bytes(b)) = length(b)
         /\ buf[b].block # NoBlock =>
              /\ capacity(b) = Len(data[buf[b].block]) /\ DOMAIN data[buf[b].block] = 1..capacity(b)
              /\ \A i \in 1..length(b) : Bytes(b)[i] = data[buf[b].block][buf[b].read + i]
<1> DEFINE u == buf[b].block
           s == data[u]
<1>1. u \in Block \cup {NoBlock} /\ buf[b].read \in Nat /\ buf[b].write \in Nat
  BY DEF ByteTypeOK, BufferRec
<1>2. buf[b].read <= buf[b].write /\ buf[b].write <= capacity(b)
  BY DEF Within
<1>3. CASE u = NoBlock
  <2>1. capacity(b) = 0 /\ Bytes(b) = <<>>
    BY <1>3 DEF capacity, Bytes
  <2> QED BY <1>1, <1>2, <1>3, <2>1 DEF length, space
<1>4. CASE u # NoBlock
  <2>1. s \in Seq(Octet) /\ capacity(b) = Len(s) /\ Bytes(b) = SubSeq(s, buf[b].read + 1, buf[b].write)
    BY <1>1, <1>4 DEF ByteTypeOK, capacity, Bytes
  <2>2. Len(s) \in Nat /\ DOMAIN s = 1..Len(s)
    BY <2>1
  <2> DEFINE r == buf[b].read
             w == buf[b].write
  <2>3. r \in Nat /\ w \in Nat /\ r <= w /\ w <= Len(s)
    BY <1>1, <1>2, <2>1
  <2> HIDE DEF s, r, w
  <2>4. /\ SubSeq(s, r + 1, w) \in Seq(Octet) /\ Len(SubSeq(s, r + 1, w)) = w - r
        /\ \A i \in 1..(w - r) : SubSeq(s, r + 1, w)[i] = s[r + i]
    BY <2>1, <2>2, <2>3
  <2>5. length(b) = w - r /\ space(b) = Len(s) - w
    BY <2>1 DEF r, w, length, space
  <2>6. length(b) \in Nat /\ space(b) \in Nat /\ length(b) <= Len(s)
    BY <2>2, <2>3, <2>5
  <2>7. Bytes(b) \in Seq(Octet) /\ Len(Bytes(b)) = length(b)
    BY <2>1, <2>4, <2>5 DEF r, w
  <2>8. \A i \in 1..length(b) : Bytes(b)[i] = s[r + i]
    BY <2>1, <2>4, <2>5 DEF r, w
  <2> QED BY <1>1, <2>1, <2>2, <2>6, <2>7, <2>8 DEF s, r
<1> QED BY <1>3, <1>4

\* A buffer whose block is not written into keeps its bytes,
LEMMA BytesStay ==
  ASSUME ByteTypeOK, NEW b \in Buffer, buf'[b] = buf[b],
         buf[b].block \in Block => data'[buf[b].block] = data[buf[b].block]
  PROVE  Bytes(b)' = Bytes(b)
<1>1. buf[b].block \in Block \cup {NoBlock}
  BY DEF ByteTypeOK, BufferRec
<1> QED BY <1>1 DEF Bytes

\* and its positions stay inside.
LEMMA BlocksStay ==
  ASSUME ByteInv, NEW b \in Buffer, buf'[b] = buf[b],
         buf[b].block \in Block => data'[buf[b].block] = data[buf[b].block]
  PROVE  buf'[b].read <= buf'[b].write /\ buf'[b].write <= capacity(b)'
<1>1. buf[b].block \in Block \cup {NoBlock}
  BY DEF ByteInv, ByteTypeOK, BufferRec
<1>2. buf[b].read <= buf[b].write /\ buf[b].write <= capacity(b)
  BY DEF ByteInv, Within
<1> QED BY <1>1, <1>2, ByteBufferAssumption DEF capacity

\* Buffer c becomes z, of the new block k with bytes d.
Placed(c, k, d, z) ==
  /\ refcount[k] = 0 /\ z.block = k /\ z.read <= z.write /\ z.write <= Len(d)
  /\ refcount' = Drop([refcount EXCEPT ![k] = 1], buf[c].block)
  /\ data' = Given([data EXCEPT ![k] = d], refcount')
  /\ buf' = [buf EXCEPT ![c] = z] /\ own' = [own EXCEPT ![c] = TRUE]

\* A new block in a buffer: nobody has it, so nobody else's bytes change.
LEMMA PlacedKeeps ==
  ASSUME ByteInv, NEW c \in Buffer, NEW k \in Block, NEW d \in Seq(Octet), NEW z \in BufferRec,
         Placed(c, k, d, z)
  PROVE  ByteInv' /\ Kept
<1>1. /\ refcount \in [Block -> Nat] /\ data \in [Block -> Seq(Octet)]
      /\ buf \in [Buffer -> BufferRec] /\ own \in [Buffer -> BOOLEAN] /\ Counts(refcount, buf)
  BY DEF ByteInv, ByteTypeOK
<1>2. /\ buf' \in [Buffer -> BufferRec] /\ buf'[c] = z /\ \A y \in Buffer : y # c => buf'[y] = buf[y]
      /\ own' \in [Buffer -> BOOLEAN] /\ \A y \in Buffer : y # c => own'[y] = own[y]
      /\ refcount[k] = 0 /\ z.block = k /\ z.read <= z.write /\ z.write <= Len(d)
  BY <1>1 DEF Placed
<1>3. [refcount EXCEPT ![k] = 1] = Share(refcount, k)
  BY <1>1, <1>2, ByteBufferAssumption DEF Share
<1>4. refcount' = Drop(Share(refcount, buf'[c].block), buf[c].block)
  BY <1>2, <1>3 DEF Placed
<1>5. refcount' \in [Block -> Nat] /\ Counts(refcount', buf')
  <2>1. \A y \in Buffer : y # c => buf'[y] = buf[y]
    BY <1>2
  <2>2. buf' \in [Buffer -> BufferRec]
    BY <1>2
  <2> QED BY <1>1, <1>4, <2>1, <2>2, CountsFollow
<1> DEFINE e == [data EXCEPT ![k] = d]
<1>6. e \in [Block -> Seq(Octet)] /\ e[k] = d /\ \A j \in Block : j # k => e[j] = data[j]
  BY <1>1
<1>7. data' = Given(e, refcount')
  BY DEF Placed
<1> HIDE DEF e
<1>8. /\ data' \in [Block -> Seq(Octet)]
      /\ \A j \in Block : refcount'[j] # 0 => data'[j] = e[j]
  BY <1>6, <1>7, GivenKeeps
<1>9. ASSUME NEW b \in Buffer PROVE buf[b].block # k
  BY <1>1, <1>2, HeldCounts
<1>10. ASSUME NEW b \in Buffer, buf'[b].block \in Block
       PROVE  refcount'[buf'[b].block] # 0
  <2>1. buf' \in [Buffer -> BufferRec]
    BY <1>2
  <2> QED BY <1>5, <1>10, <2>1, HeldCounts
<1>11. ASSUME NEW b \in Buffer, b # c
       PROVE  buf'[b] = buf[b] /\ (buf[b].block \in Block => data'[buf[b].block] = data[buf[b].block])
  <2>1. buf'[b] = buf[b]
    BY <1>2, <1>11
  <2>2. ASSUME buf[b].block \in Block PROVE data'[buf[b].block] = data[buf[b].block]
    <3>1. buf[b].block # k
      BY <1>9
    <3>2. refcount'[buf[b].block] # 0
      BY <1>10, <2>1, <2>2
    <3> QED BY ONLY <1>6, <1>8, <2>2, <3>1, <3>2
  <2> QED BY <2>1, <2>2
<1>12. data'[k] = d
  BY <1>2, <1>6, <1>8, <1>10
<1>13. Within'
  <2> SUFFICES ASSUME NEW b \in Buffer PROVE buf'[b].read <= buf'[b].write /\ buf'[b].write <= capacity(b)'
    BY DEF Within
  <2>1. CASE b = c
    BY <2>1, <1>2, <1>12, ByteBufferAssumption DEF capacity
  <2>2. CASE b # c
    BY <2>2, <1>11, BlocksStay
  <2> QED BY <2>1, <2>2
<1>14. OwnAlone'
  BY <1>2, <1>9 DEF Placed, ByteInv, OwnAlone
<1>15. Kept
  <2> SUFFICES ASSUME NEW b \in Buffer, buf'[b] = buf[b] PROVE Bytes(b)' = Bytes(b)
    BY DEF Kept
  <2>1. b # c
    BY <1>2, <1>9
  <2>2. ByteTypeOK
    BY DEF ByteInv
  <2> QED BY <2>1, <2>2, <1>11, BytesStay
<1> QED BY <1>2, <1>5, <1>8, <1>13, <1>14, <1>15 DEF ByteInv, ByteTypeOK

\* The same for a block that is filled, if it is large enough for what is put
\* into it.
LEMMA AllocateKeeps ==
  ASSUME ByteInv, NEW c \in Buffer, NEW sz \in Nat, NEW s \in Seq(Octet), Len(s) <= Class(sz),
         Allocate(c, sz, s)
  PROVE  ByteInv' /\ Kept
<1>1. PICK k \in Block :
        /\ refcount[k] = 0
        /\ refcount' = Drop([refcount EXCEPT ![k] = 1], buf[c].block)
        /\ data' = Given([data EXCEPT ![k] = Filled(sz, s)], refcount')
        /\ buf' = [buf EXCEPT ![c] = [block |-> k, read |-> 0, write |-> Len(s)]]
        /\ own' = [own EXCEPT ![c] = TRUE]
  BY DEF Allocate
<1> DEFINE d == Filled(sz, s)
           z == [block |-> k, read |-> 0, write |-> Len(s)]
<1>2. d \in Seq(Octet) /\ Len(s) <= Len(d)
  BY FilledType
<1>3. z \in BufferRec /\ z.block = k /\ z.read <= z.write /\ z.write = Len(s)
  BY DEF BufferRec
<1>4. /\ data' = Given([data EXCEPT ![k] = d], refcount') /\ buf' = [buf EXCEPT ![c] = z]
  BY <1>1
<1> HIDE DEF d, z
<1>5. z.write <= Len(d)
  BY <1>2, <1>3
<1>6. Placed(c, k, d, z)
  BY <1>1, <1>3, <1>4, <1>5 DEF Placed
<1> QED BY <1>2, <1>3, <1>6, PlacedKeeps

\* A part of a sequence, by its start and length.
LEMMA CutType ==
  ASSUME NEW s \in Seq(Octet), NEW a \in Nat, NEW n \in Nat, a + n <= Len(s)
  PROVE  SubSeq(s, a + 1, a + n) \in Seq(Octet) /\ Len(SubSeq(s, a + 1, a + n)) = n
OBVIOUS

\* The operations that make a new block.
LEMMA NewBlockKeeps ==
  ASSUME ByteInv, NEW c \in Buffer, NEW b \in Buffer, NEW m \in Nat, NEW n \in Nat,
         \/ construct(c, n) \/ copy(c, b) \/ sub_buffer(c, b, m, n) \/ shrink_to_fit(b)
  PROVE  ByteInv' /\ Kept
<1>1. ByteTypeOK /\ Within
  BY DEF ByteInv
<1>2. CASE construct(c, n)
  <2> DEFINE s == <<>>
  <2>1. s \in Seq(Octet) /\ Len(s) <= Class(n) /\ Allocate(c, n, s)
    BY <1>2, ClassIsLarge DEF construct
  <2> HIDE DEF s
  <2> QED BY <2>1, AllocateKeeps
<1>3. CASE copy(c, b)
  <2>1. PICK k \in Block :
          /\ refcount[k] = 0
          /\ refcount' = Drop([refcount EXCEPT ![k] = 1], buf[c].block)
          /\ data' = Given([data EXCEPT ![k] = data[buf[b].block]], refcount')
          /\ buf' = [buf EXCEPT ![c] = [buf[b] EXCEPT !.block = k]]
          /\ own' = [own EXCEPT ![c] = TRUE]
    BY <1>3 DEF copy
  <2> DEFINE d == data[buf[b].block]
             z == [buf[b] EXCEPT !.block = k]
  <2>2. buf[b].block \in Block
    BY <1>1, <1>3 DEF copy, ByteTypeOK, BufferRec
  <2>3. d \in Seq(Octet)
    BY <1>1, <2>2 DEF ByteTypeOK
  <2>4. z \in BufferRec /\ z.block = k /\ z.read = buf[b].read /\ z.write = buf[b].write
    BY <1>1 DEF ByteTypeOK, BufferRec
  <2>5. buf[b].read <= buf[b].write /\ buf[b].write <= Len(d)
    BY <1>1, <2>2, ByteBufferAssumption DEF Within, capacity
  <2>6. data' = Given([data EXCEPT ![k] = d], refcount') /\ buf' = [buf EXCEPT ![c] = z]
    BY <2>1
  <2> HIDE DEF d, z
  <2>7. Placed(c, k, d, z)
    BY <2>1, <2>4, <2>5, <2>6 DEF Placed
  <2> QED BY <2>3, <2>4, <2>7, PlacedKeeps
<1>4. CASE sub_buffer(c, b, m, n)
  <2> DEFINE s == SubSeq(Bytes(b), m + 1, m + n)
  <2>1. Bytes(b) \in Seq(Octet) /\ Len(Bytes(b)) = length(b)
    BY <1>1, BytesOf
  <2>2. m + n <= length(b) /\ Allocate(c, n, s)
    BY <1>4 DEF sub_buffer
  <2>3. s \in Seq(Octet) /\ Len(s) = n
    BY <2>1, <2>2, CutType
  <2>4. Len(s) <= Class(n)
    BY <2>3, ClassIsLarge
  <2> HIDE DEF s
  <2> QED BY <2>2, <2>3, <2>4, AllocateKeeps
<1>5. CASE shrink_to_fit(b)
  <2> DEFINE s == Bytes(b)
             l == length(b)
  <2>1. s \in Seq(Octet) /\ Len(s) = l /\ l \in Nat
    BY <1>1, BytesOf
  <2>2. Allocate(b, l, s)
    BY <1>5 DEF shrink_to_fit
  <2> HIDE DEF s, l
  <2>3. Len(s) <= Class(l)
    BY <2>1, ClassIsLarge
  <2> QED BY <2>1, <2>2, <2>3, AllocateKeeps
<1> QED BY <1>2, <1>3, <1>4, <1>5

\* reserve: a block counted once is the buffer's alone; otherwise what fits is
\* copied.
LEMMA ReserveKeeps ==
  ASSUME ByteInv, NEW b \in Buffer, NEW sz \in Nat, reserve(b, sz)
  PROVE  ByteInv' /\ Kept
<1>1. ByteTypeOK /\ Within /\ Counts(refcount, buf) /\ OwnAlone
  BY DEF ByteInv
<1>2. CASE buf[b].block # NoBlock /\ Keeps(b, sz)
  <2>1. own' = [own EXCEPT ![b] = TRUE] /\ UNCHANGED <<refcount, data, buf>> /\ refcount[buf[b].block] = 1
    BY <1>2 DEF reserve, Keeps
  <2>2. own' \in [Buffer -> BOOLEAN] /\ \A y \in Buffer : y # b => own'[y] = own[y]
    BY <1>1, <2>1 DEF ByteTypeOK
  <2>3. ASSUME NEW c \in Buffer, c # b, buf[c].block = buf[b].block PROVE FALSE
    <3> DEFINE k == buf[b].block
               A == {x \in DOMAIN buf : buf[x] \in With(k)}
    <3>1. k \in Block /\ DOMAIN buf = Buffer /\ buf[b] \in With(k) /\ buf[c] \in With(k)
      BY <1>1, <1>2, <2>3 DEF ByteTypeOK, BufferRec, With
    <3>2. Cardinality(A) = 1
      BY <1>1, <2>1, <3>1 DEF Counts, Tally
    <3>3. IsFiniteSet(A) /\ b \in A /\ c \in A
      BY <3>1, FS_Subset, ByteBufferAssumption
    <3> HIDE DEF A
    <3>4. \E x : A = {x}
      BY <3>2, <3>3, FS_Singleton
    <3> QED BY <2>3, <3>3, <3>4
  <2>4. OwnAlone'
    BY <1>1, <2>1, <2>2, <2>3 DEF OwnAlone
  <2>5. Kept
    BY <2>1 DEF Kept, Bytes
  <2>6. Within' /\ Counts(refcount, buf)'
    BY <1>1, <2>1 DEF Within, capacity, Counts
  <2> QED BY <1>1, <2>1, <2>2, <2>4, <2>5, <2>6 DEF ByteInv, ByteTypeOK
<1>3. CASE ~(buf[b].block # NoBlock /\ Keeps(b, sz))
  <2> DEFINE n == Min({length(b), Class(sz)})
             s == SubSeq(Bytes(b), 1, n)
  <2>1. Bytes(b) \in Seq(Octet) /\ Len(Bytes(b)) = length(b) /\ length(b) \in Nat
    BY <1>1, BytesOf
  <2>2. Class(sz) \in Nat
    BY ClassIsLarge
  <2>3. n \in Nat /\ n <= length(b) /\ n <= Class(sz)
    BY <2>1, <2>2, MinOfTwo
  <2>4. Allocate(b, sz, s)
    BY <1>3 DEF reserve
  <2> HIDE DEF n
  <2>5. s \in Seq(Octet) /\ Len(s) = n
    BY <2>1, <2>3
  <2>6. Len(s) <= Class(sz)
    BY <2>3, <2>5
  <2> HIDE DEF s
  <2> QED BY <2>4, <2>5, <2>6, AllocateKeeps
<1> QED BY <1>2, <1>3

\* destroy and assign: the buffer lets go of its block, and another one's may
\* take its place, whose owner then is none.
LEMMA RebindKeeps ==
  ASSUME ByteInv, NEW c \in Buffer, NEW b \in Buffer, destroy(c) \/ assign(c, b)
  PROVE  ByteInv' /\ Kept
<1> DEFINE z == IF destroy(c) THEN Null ELSE buf[b]
<1>1. /\ refcount \in [Block -> Nat] /\ data \in [Block -> Seq(Octet)]
      /\ buf \in [Buffer -> BufferRec] /\ own \in [Buffer -> BOOLEAN]
      /\ Counts(refcount, buf) /\ OwnAlone
  BY DEF ByteInv, ByteTypeOK
<1>2. z \in BufferRec
  BY <1>1 DEF BufferRec, Null
<1>3. /\ buf' = [buf EXCEPT ![c] = z] /\ data' = Given(data, refcount')
      /\ refcount' = Drop(Share(refcount, z.block), buf[c].block)
  <2>1. CASE destroy(c)
    BY <2>1 DEF destroy, Null, Share
  <2>2. CASE ~destroy(c) /\ assign(c, b)
    BY <2>2 DEF assign
  <2> QED BY <2>1, <2>2
<1>4. /\ own' \in [Buffer -> BOOLEAN] /\ \A y \in Buffer : own'[y] => own[y] /\ y # c
      /\ \A y \in Buffer : own'[y] /\ buf[y].block # NoBlock => z.block # buf[y].block
  <2>1. CASE destroy(c)
    BY <1>1, <2>1 DEF destroy, Null
  <2>2. CASE ~destroy(c) /\ assign(c, b)
    <3>1. /\ own' \in [Buffer -> BOOLEAN] /\ \A y \in Buffer : own'[y] => own[y] /\ y # c /\ y # b
      BY <1>1, <2>2 DEF assign
    <3> QED BY <1>1, <2>2, <3>1 DEF OwnAlone
  <2> QED BY <2>1, <2>2
<1>5. /\ z.read <= z.write /\ (z.block = NoBlock => z.write <= 0)
      /\ z.block # NoBlock => z.write <= Len(data[z.block])
  <2>1. CASE destroy(c)
    BY <2>1 DEF Null
  <2>2. CASE ~destroy(c)
    BY <2>2 DEF ByteInv, Within, capacity
  <2> QED BY <2>1, <2>2
<1> HIDE DEF z
<1>6. buf' \in [Buffer -> BufferRec] /\ buf'[c] = z /\ \A y \in Buffer : y # c => buf'[y] = buf[y]
  BY <1>1, <1>2, <1>3
<1>7. refcount' = Drop(Share(refcount, buf'[c].block), buf[c].block)
  BY <1>3, <1>6
<1>8. refcount' \in [Block -> Nat] /\ Counts(refcount', buf')
  BY <1>1, <1>6, <1>7, CountsFollow
<1>9. data' \in [Block -> Seq(Octet)] /\ \A k \in Block : refcount'[k] # 0 => data'[k] = data[k]
  BY <1>1, <1>3, GivenKeeps
<1>10. ASSUME NEW y \in Buffer, buf'[y].block \in Block
       PROVE  data'[buf'[y].block] = data[buf'[y].block]
  BY <1>6, <1>8, <1>9, <1>10, HeldCounts
<1>11. Within'
  <2> SUFFICES ASSUME NEW y \in Buffer PROVE buf'[y].read <= buf'[y].write /\ buf'[y].write <= capacity(y)'
    BY DEF Within
  <2>1. CASE y = c
    <3>1. z.block \in Block \cup {NoBlock}
      BY <1>2 DEF BufferRec
    <3> QED BY <2>1, <3>1, <1>5, <1>6, <1>10 DEF capacity
  <2>2. CASE y # c
    BY <2>2, <1>6, <1>10, BlocksStay
  <2> QED BY <2>1, <2>2
<1>12. OwnAlone'
  <2> SUFFICES ASSUME NEW x \in Buffer, NEW y \in Buffer, x # y, own'[x], buf'[x].block # NoBlock
               PROVE  buf'[y].block # buf'[x].block
    BY DEF OwnAlone
  <2>1. own[x] /\ x # c /\ buf'[x] = buf[x] /\ buf[x].block # NoBlock
    BY <1>4, <1>6
  <2>2. CASE y = c
    BY <2>1, <2>2, <1>4, <1>6
  <2>3. CASE y # c
    BY <2>1, <2>3, <1>1, <1>6 DEF OwnAlone
  <2> QED BY <2>2, <2>3
<1>13. Kept
  <2> SUFFICES ASSUME NEW y \in Buffer, buf'[y] = buf[y] PROVE Bytes(y)' = Bytes(y)
    BY DEF Kept
  <2>1. ByteTypeOK
    BY DEF ByteInv
  <2> QED BY <2>1, <1>10, BytesStay
<1> QED BY <1>4, <1>6, <1>8, <1>9, <1>11, <1>12, <1>13 DEF ByteInv, ByteTypeOK

\* move: the block changes its owner and its count stays.
LEMMA TransferKeeps ==
  ASSUME ByteInv, NEW c \in Buffer, NEW b \in Buffer, move(c, b)
  PROVE  ByteInv' /\ Kept
<1>1. /\ refcount \in [Block -> Nat] /\ data \in [Block -> Seq(Octet)]
      /\ buf \in [Buffer -> BufferRec] /\ own \in [Buffer -> BOOLEAN]
      /\ Counts(refcount, buf) /\ OwnAlone
  BY DEF ByteInv, ByteTypeOK
<1> DEFINE g == [buf EXCEPT ![c] = buf[b]]
           r == Drop(Share(refcount, buf[b].block), buf[c].block)
<1>2. g \in [Buffer -> BufferRec] /\ g[c] = buf[b] /\ \A y \in Buffer : y # c => g[y] = buf[y]
  BY <1>1
<1>3. r = Drop(Share(refcount, g[c].block), buf[c].block)
  BY <1>2
<1>4. /\ refcount' = Drop(r, buf[b].block) /\ buf' = [g EXCEPT ![b] = Null] /\ c # b
      /\ own' = [own EXCEPT ![c] = own[b], ![b] = FALSE] /\ data' = Given(data, refcount')
  BY <1>1 DEF move
<1> HIDE DEF g, r
<1>5. r \in [Block -> Nat] /\ Counts(r, g)
  BY <1>1, <1>2, <1>3, CountsFollow
<1>6. /\ buf' \in [Buffer -> BufferRec] /\ buf'[b] = Null /\ buf'[c] = buf[b]
      /\ \A y \in Buffer : y # b => buf'[y] = g[y]
  BY <1>2, <1>4 DEF BufferRec, Null
<1>7. refcount' = Drop(Share(r, buf'[b].block), g[b].block)
  BY <1>2, <1>4, <1>6 DEF Null, Share
<1>8. refcount' \in [Block -> Nat] /\ Counts(refcount', buf')
  BY <1>2, <1>5, <1>6, <1>7, CountsFollow
<1>9. data' \in [Block -> Seq(Octet)] /\ \A k \in Block : refcount'[k] # 0 => data'[k] = data[k]
  BY <1>1, <1>4, GivenKeeps
<1>10. ASSUME NEW y \in Buffer, buf'[y].block \in Block
       PROVE  data'[buf'[y].block] = data[buf'[y].block]
  BY <1>6, <1>8, <1>9, <1>10, HeldCounts
<1>11. /\ own' \in [Buffer -> BOOLEAN] /\ own'[c] = own[b] /\ own'[b] = FALSE
       /\ \A y \in Buffer : y # b /\ y # c => own'[y] = own[y] /\ buf'[y] = buf[y]
  BY <1>1, <1>2, <1>4, <1>6
<1>12. Within'
  <2> SUFFICES ASSUME NEW y \in Buffer PROVE buf'[y].read <= buf'[y].write /\ buf'[y].write <= capacity(y)'
    BY DEF Within
  <2>1. CASE y = c
    <3>1. buf[b].block \in Block \cup {NoBlock} /\ buf[b].read <= buf[b].write /\ buf[b].write <= capacity(b)
      BY <1>1 DEF BufferRec, ByteInv, Within
    <3> QED BY <2>1, <3>1, <1>6, <1>10, ByteBufferAssumption DEF capacity
  <2>2. CASE y = b
    BY <2>2, <1>6 DEF capacity, Null
  <2>3. CASE y # c /\ y # b
    BY <2>3, <1>10, <1>11, BlocksStay
  <2> QED BY <2>1, <2>2, <2>3
<1>13. OwnAlone'
  <2> SUFFICES ASSUME NEW x \in Buffer, NEW y \in Buffer, x # y, own'[x], buf'[x].block # NoBlock
               PROVE  buf'[y].block # buf'[x].block
    BY DEF OwnAlone
  <2>1. x # b /\ buf'[b].block = NoBlock
    BY <1>6, <1>11 DEF Null
  <2>2. CASE x = c
    BY <2>1, <2>2, <1>1, <1>6, <1>11 DEF OwnAlone
  <2>3. CASE x # c
    BY <2>1, <2>3, <1>1, <1>6, <1>11 DEF OwnAlone
  <2> QED BY <2>2, <2>3
<1>14. Kept
  <2> SUFFICES ASSUME NEW y \in Buffer, buf'[y] = buf[y] PROVE Bytes(y)' = Bytes(y)
    BY DEF Kept
  <2>1. ByteTypeOK
    BY DEF ByteInv
  <2> QED BY <2>1, <1>10, BytesStay
<1> QED BY <1>6, <1>8, <1>9, <1>11, <1>12, <1>13, <1>14 DEF ByteInv, ByteTypeOK

\* swap: two blocks change their owners.
LEMMA SwapKeeps ==
  ASSUME ByteInv, NEW c \in Buffer, NEW b \in Buffer, swap(c, b)
  PROVE  ByteInv' /\ Kept
<1>1. /\ refcount \in [Block -> Nat] /\ data \in [Block -> Seq(Octet)]
      /\ buf \in [Buffer -> BufferRec] /\ own \in [Buffer -> BOOLEAN]
      /\ Counts(refcount, buf) /\ OwnAlone
  BY DEF ByteInv, ByteTypeOK
<1> DEFINE g == [buf EXCEPT ![c] = buf[b]]
           r == Drop(Share(refcount, buf[b].block), buf[c].block)
           r2 == Drop(Share(r, buf[c].block), buf[b].block)
<1>2. g \in [Buffer -> BufferRec] /\ g[c] = buf[b] /\ \A y \in Buffer : y # c => g[y] = buf[y]
  BY <1>1
<1>3. r = Drop(Share(refcount, g[c].block), buf[c].block)
  BY <1>2
<1>4. /\ refcount' = refcount /\ data' = data /\ buf' = [g EXCEPT ![b] = buf[c]]
      /\ own' = [own EXCEPT ![c] = own[b], ![b] = own[c]]
  BY <1>1 DEF swap
<1>5. g[b].block = buf[b].block
  BY <1>2
<1> HIDE DEF g, r
<1>6. r \in [Block -> Nat] /\ Counts(r, g)
  BY <1>1, <1>2, <1>3, CountsFollow
<1>7. /\ buf' \in [Buffer -> BufferRec] /\ buf'[b] = buf[c] /\ buf'[c] = buf[b]
      /\ \A y \in Buffer : y # b => buf'[y] = g[y]
  BY <1>1, <1>2, <1>4
<1>8. r2 = Drop(Share(r, buf'[b].block), g[b].block)
  BY <1>5, <1>7
<1> HIDE DEF r2
<1>9. r2 \in [Block -> Nat] /\ Counts(r2, buf')
  BY <1>2, <1>6, <1>7, <1>8, CountsFollow
<1>10. r2 = refcount
  <2> DEFINE u == buf[b].block
             v == buf[c].block
  <2>1. u \in Block \cup {NoBlock} /\ v \in Block \cup {NoBlock}
    BY <1>1 DEF BufferRec
  <2>2. \A k \in Block : r[k] = refcount[k] + (IF k = u THEN 1 ELSE 0) - (IF k = v THEN 1 ELSE 0)
    BY <1>1, <2>1, ByteBufferAssumption DEF r, Share, Drop
  <2>3. \A k \in Block : r2[k] = r[k] + (IF k = v THEN 1 ELSE 0) - (IF k = u THEN 1 ELSE 0)
    BY <1>6, <2>1, ByteBufferAssumption DEF r2, Share, Drop
  <2> HIDE DEF u, v
  <2>4. ASSUME NEW k \in Block PROVE r2[k] = refcount[k]
    <3>1. r[k] \in Nat /\ refcount[k] \in Nat
      BY <1>1, <1>6
    <3> QED BY <2>2, <2>3, <3>1
  <2> QED BY <1>1, <1>9, <2>4
<1>11. refcount' \in [Block -> Nat] /\ Counts(refcount', buf')
  BY <1>4, <1>9, <1>10
<1>12. /\ own' \in [Buffer -> BOOLEAN] /\ own'[c] = own[b] /\ own'[b] = own[c]
       /\ \A y \in Buffer : y # b /\ y # c => own'[y] = own[y] /\ buf'[y] = buf[y]
  BY <1>1, <1>2, <1>4, <1>7
<1>13. Within'
  <2> SUFFICES ASSUME NEW y \in Buffer PROVE buf'[y].read <= buf'[y].write /\ buf'[y].write <= capacity(y)'
    BY DEF Within
  <2>1. \E x \in Buffer : buf'[y] = buf[x]
    BY <1>7, <1>12
  <2> QED BY <2>1, <1>4 DEF capacity, ByteInv, Within
<1>14. OwnAlone'
  <2> SUFFICES ASSUME NEW x \in Buffer, NEW y \in Buffer, x # y, own'[x], buf'[x].block # NoBlock
               PROVE  buf'[y].block # buf'[x].block
    BY DEF OwnAlone
  <2> DEFINE Was(v) == IF v = c THEN b ELSE IF v = b THEN c ELSE v
  <2>1. \A v \in Buffer : Was(v) \in Buffer /\ buf'[v] = buf[Was(v)] /\ own'[v] = own[Was(v)]
    BY <1>7, <1>12
  <2>2. Was(x) # Was(y)
    OBVIOUS
  <2> HIDE DEF Was
  <2> QED BY <1>1, <2>1, <2>2 DEF OwnAlone
<1>15. Kept
  BY <1>4 DEF Kept, Bytes
<1> QED BY <1>1, <1>4, <1>7, <1>11, <1>12, <1>13, <1>14, <1>15 DEF ByteInv, ByteTypeOK

\* Positions are set, and nothing else.
LEMMA MovedType ==
  ASSUME ByteTypeOK, NEW b \in Buffer, NEW r \in Nat, NEW w \in Nat, Moved(b, r, w)
  PROVE  /\ buf' \in [Buffer -> BufferRec] /\ refcount' = refcount /\ own' = own
         /\ buf'[b].block = buf[b].block /\ buf'[b].read = r /\ buf'[b].write = w
         /\ \A y \in Buffer : y # b => buf'[y] = buf[y]
<1> DEFINE z == [buf[b] EXCEPT !.read = r]
           y == [z EXCEPT !.write = w]
<1>1. buf \in [Buffer -> BufferRec] /\ buf[b] \in BufferRec
  BY DEF ByteTypeOK
<1>2. z \in BufferRec /\ z.block = buf[b].block /\ z.read = r
  BY <1>1 DEF BufferRec
<1>3. [buf EXCEPT ![b].read = r] = [buf EXCEPT ![b] = z]
  BY <1>1
<1> HIDE DEF z
<1>4. y \in BufferRec /\ y.block = buf[b].block /\ y.read = r /\ y.write = w
  BY <1>2 DEF BufferRec
<1>5. [[buf EXCEPT ![b] = z] EXCEPT ![b].write = w] = [buf EXCEPT ![b] = y]
  BY <1>1
<1> HIDE DEF y
<1>6. buf' = [[buf EXCEPT ![b].read = r] EXCEPT ![b].write = w]
  BY DEF Moved
<1>7. buf' = [buf EXCEPT ![b] = y]
  BY <1>3, <1>5, <1>6
<1> QED BY <1>1, <1>4, <1>7 DEF Moved

\* Positions move inside the block, and only an owner's block is written into.
LEMMA MovedKeeps ==
  ASSUME ByteInv, NEW b \in Buffer, NEW r \in Nat, NEW w \in Nat, Moved(b, r, w),
         r <= w, w <= capacity(b), data' \in [Block -> Seq(Octet)],
         \A k \in Block : Len(data'[k]) = Len(data[k]),
         \A k \in Block : data'[k] # data[k] => k = buf[b].block /\ own[b],
         r = buf[b].read /\ w = buf[b].write => data' = data
  PROVE  ByteInv' /\ Kept
<1>1. /\ refcount \in [Block -> Nat] /\ data \in [Block -> Seq(Octet)] /\ ByteTypeOK
      /\ buf \in [Buffer -> BufferRec] /\ own \in [Buffer -> BOOLEAN]
      /\ Counts(refcount, buf) /\ OwnAlone /\ Within
  BY DEF ByteInv, ByteTypeOK
<1>2. /\ buf' \in [Buffer -> BufferRec] /\ refcount' = refcount /\ own' = own
      /\ buf'[b].block = buf[b].block /\ buf'[b].read = r /\ buf'[b].write = w
      /\ \A y \in Buffer : y # b => buf'[y] = buf[y]
  BY <1>1, MovedType
<1>3. \A y \in Buffer : buf'[y].block = buf[y].block /\ buf[y].block \in Block \cup {NoBlock}
  BY <1>1, <1>2 DEF BufferRec
<1>4. \A k \in Block : Tally(buf', With(k)) = Tally(buf, With(k))
  <2> SUFFICES ASSUME NEW k \in Block PROVE Tally(buf', With(k)) = Tally(buf, With(k))
    OBVIOUS
  <2>1. {x \in Buffer : buf'[x] \in With(k)} = {x \in Buffer : buf[x] \in With(k)}
    BY <1>1, <1>2, <1>3 DEF With
  <2>2. DOMAIN buf' = Buffer /\ DOMAIN buf = Buffer
    BY <1>1, <1>2
  <2> QED BY <2>1, <2>2 DEF Tally
<1>5. Counts(refcount', buf')
  BY <1>1, <1>2, <1>4 DEF Counts
<1>6. \A y \in Buffer : capacity(y)' = capacity(y)
  BY <1>3 DEF capacity
<1>7. Within'
  BY <1>1, <1>2, <1>6 DEF Within
<1>8. OwnAlone'
  BY <1>1, <1>2, <1>3, ZenonT(30) DEF OwnAlone
<1>9. ASSUME NEW y \in Buffer, buf'[y] = buf[y] PROVE Bytes(y)' = Bytes(y)
  <2>1. CASE y = b
    <3>1. data' = data
      BY <2>1, <1>2, <1>9
    <3> QED BY <3>1, <1>1, <1>9, BytesStay
  <2>2. CASE y # b
    <3>1. buf[y].block \in Block => data'[buf[y].block] = data[buf[y].block]
      BY <2>2, <1>1, ByteBufferAssumption DEF OwnAlone
    <3> QED BY <3>1, <1>1, <1>9, BytesStay
  <2> QED BY <2>1, <2>2
<1> QED BY <1>1, <1>2, <1>5, <1>7, <1>8, <1>9 DEF ByteInv, ByteTypeOK, Kept

\* The operations that only move positions.
LEMMA PositionsKeep ==
  ASSUME ByteInv, NEW b \in Buffer, NEW n \in Nat,
         unwrite(b, n) \/ read(b, n) \/ unread(b, n) \/ clear(b)
  PROVE  ByteInv' /\ Kept
<1>1. /\ buf[b].read \in Nat /\ buf[b].write \in Nat /\ capacity(b) \in Nat /\ length(b) \in Nat
      /\ buf[b].read <= buf[b].write /\ buf[b].write <= capacity(b)
      /\ length(b) = buf[b].write - buf[b].read
  BY BytesOf DEF ByteInv, Within, length
<1> DEFINE m == Min({n, length(b)})
           l == Min({n, buf[b].read})
<1>2. m \in Nat /\ m <= length(b)
  BY <1>1, MinOfTwo
<1>3. l \in Nat /\ l <= buf[b].read
  BY <1>1, MinOfTwo
<1>4. PICK r, w : Moved(b, r, w) /\ UNCHANGED data /\ r \in Nat /\ w \in Nat /\ r <= w /\ w <= capacity(b)
  <2>1. CASE unwrite(b, n)
    <3>1. Moved(b, buf[b].read, buf[b].write - m) /\ UNCHANGED data
      BY <2>1 DEF unwrite
    <3> HIDE DEF m
    <3> QED BY <3>1, <1>1, <1>2
  <2>2. CASE read(b, n)
    <3>1. Moved(b, buf[b].read + m, buf[b].write) /\ UNCHANGED data
      BY <2>2 DEF read
    <3> HIDE DEF m
    <3> QED BY <3>1, <1>1, <1>2
  <2>3. CASE unread(b, n)
    <3>1. Moved(b, buf[b].read - l, buf[b].write) /\ UNCHANGED data
      BY <2>3 DEF unread
    <3> HIDE DEF l
    <3> QED BY <3>1, <1>1, <1>3
  <2>4. CASE clear(b)
    BY <2>4, <1>1 DEF clear
  <2> QED BY <2>1, <2>2, <2>3, <2>4
<1>5. data' = data /\ data \in [Block -> Seq(Octet)]
  BY <1>4 DEF ByteInv, ByteTypeOK
<1>6. /\ data' \in [Block -> Seq(Octet)] /\ \A k \in Block : Len(data'[k]) = Len(data[k])
      /\ \A k \in Block : data'[k] # data[k] => k = buf[b].block /\ own[b]
      /\ r = buf[b].read /\ w = buf[b].write => data' = data
  BY <1>5
<1> QED BY <1>4, <1>6, MovedKeeps

\* An owner writes into its block.
LEMMA OverwriteKeeps ==
  ASSUME ByteInv, NEW b \in Buffer, NEW r \in Nat, NEW w \in Nat, Moved(b, r, w),
         r <= w, w <= capacity(b), buf[b].block # NoBlock, own[b],
         NEW t, data' = [data EXCEPT ![buf[b].block] = t],
         t \in Seq(Octet), Len(t) = capacity(b),
         r = buf[b].read /\ w = buf[b].write => t = data[buf[b].block]
  PROVE  ByteInv' /\ Kept
<1> DEFINE k == buf[b].block
<1>1. k \in Block /\ data \in [Block -> Seq(Octet)]
  BY DEF ByteInv, ByteTypeOK, BufferRec
<1>2. capacity(b) = Len(data[k])
  BY DEF capacity
<1>3. data' \in [Block -> Seq(Octet)] /\ data'[k] = t /\ \A j \in Block : j # k => data'[j] = data[j]
  BY <1>1
<1>4. \A j \in Block : Len(data'[j]) = Len(data[j])
  BY <1>2, <1>3
<1>5. \A j \in Block : data'[j] # data[j] => j = buf[b].block /\ own[b]
  BY <1>3
<1>6. r = buf[b].read /\ w = buf[b].write => data' = data
  BY <1>1
<1>7. data' \in [Block -> Seq(Octet)]
  BY <1>3
<1> QED BY <1>4, <1>5, <1>6, <1>7, MovedKeeps

\* write: what fits, behind what is there.
LEMMA WriteKeeps ==
  ASSUME ByteInv, NEW b \in Buffer, NEW s \in Seq(Byte), write(b, s)
  PROVE  ByteInv' /\ Kept
<1> DEFINE k == buf[b].block
           w == buf[b].write
           n == Min({Len(s), space(b)})
           o == data[k]
           t == [i \in DOMAIN o |-> IF i \in (w + 1)..(w + n) THEN s[i - w] ELSE o[i]]
<1>1. k # NoBlock /\ own[b] /\ Moved(b, buf[b].read, w + n)
  BY DEF write
<1>2. data' = [data EXCEPT ![k] = t]
  BY DEF write
<1>3. /\ k \in Block /\ buf[b].read \in Nat /\ w \in Nat /\ capacity(b) \in Nat /\ space(b) \in Nat
      /\ DOMAIN o = 1..capacity(b) /\ buf[b].read <= w /\ w <= capacity(b) /\ space(b) = capacity(b) - w
  BY <1>1, BytesOf DEF ByteInv, Within, space
<1>4. o \in Seq(Octet)
  BY <1>3 DEF ByteInv, ByteTypeOK
<1>5. n \in Nat /\ n <= Len(s) /\ n <= space(b)
  <2>1. Len(s) \in Nat
    OBVIOUS
  <2> QED BY <1>3, <2>1, MinOfTwo
<1> HIDE DEF n, o
<1>6. \A i \in 1..capacity(b) : (IF i \in (w + 1)..(w + n) THEN s[i - w] ELSE o[i]) \in Octet
  <2> SUFFICES ASSUME NEW i \in 1..capacity(b)
               PROVE  (IF i \in (w + 1)..(w + n) THEN s[i - w] ELSE o[i]) \in Octet
    OBVIOUS
  <2>1. CASE i \in (w + 1)..(w + n)
    <3>1. i - w \in 1..Len(s)
      BY <2>1, <1>3, <1>5, SMTT(20)
    <3>2. s[i - w] \in Byte
      BY <3>1
    <3> QED BY <2>1, <3>2 DEF Octet
  <2>2. CASE i \notin (w + 1)..(w + n)
    BY <2>2, <1>3, <1>4
  <2> QED BY <2>1, <2>2
<1>7. t \in Seq(Octet) /\ Len(t) = capacity(b)
  <2>1. t \in [1..capacity(b) -> Octet]
    BY <1>3, <1>6
  <2> HIDE DEF t
  <2> QED BY <2>1, <1>3
<1>8. w = w + n => t = o
  <2> SUFFICES ASSUME n = 0 PROVE t = o
    BY <1>3, <1>5
  <2>1. \A i \in 1..capacity(b) : i \notin (w + 1)..(w + n)
    BY <1>3
  <2>2. t = [i \in 1..capacity(b) |-> o[i]]
    BY <2>1, <1>3
  <2> QED BY <2>2, <1>3, <1>4
<1> HIDE DEF t
<1>9. buf[b].read <= w + n /\ w + n <= capacity(b) /\ w + n \in Nat
  BY <1>3, <1>5
<1>10. buf[b].read = buf[b].read /\ w + n = buf[b].write => t = data[buf[b].block]
  BY <1>8 DEF o
<1> DEFINE v == w + n
           a == buf[b].read
<1>11. /\ Moved(b, a, v) /\ a \in Nat /\ v \in Nat /\ a <= v /\ v <= capacity(b)
       /\ a = buf[b].read /\ v = buf[b].write => t = data[buf[b].block]
  BY <1>1, <1>3, <1>9, <1>10
<1> HIDE DEF v, a
<1> QED BY <1>1, <1>2, <1>7, <1>11, OverwriteKeeps

\* fit: the bytes move to the front.
LEMMA FitKeeps ==
  ASSUME ByteInv, NEW b \in Buffer, fit(b)
  PROVE  ByteInv' /\ Kept
<1> DEFINE k == buf[b].block
           l == length(b)
           o == data[k]
           s == Bytes(b)
           t == [i \in DOMAIN o |-> IF i <= l THEN s[i] ELSE o[i]]
<1>1. k # NoBlock /\ own[b] /\ Moved(b, 0, l)
  BY DEF fit
<1>2. data' = [data EXCEPT ![k] = t]
  BY DEF fit
<1>3. /\ k \in Block /\ buf[b].read \in Nat /\ buf[b].write \in Nat /\ capacity(b) \in Nat /\ l \in Nat
      /\ DOMAIN o = 1..capacity(b) /\ l <= capacity(b) /\ l = buf[b].write - buf[b].read
      /\ s \in Seq(Octet) /\ Len(s) = l /\ \A i \in 1..l : s[i] = o[buf[b].read + i]
  BY <1>1, BytesOf DEF ByteInv, length
<1>4. o \in Seq(Octet)
  BY <1>3 DEF ByteInv, ByteTypeOK
<1> HIDE DEF o, s, l
<1>5. \A i \in 1..capacity(b) : (IF i <= l THEN s[i] ELSE o[i]) \in Octet
  BY <1>3, <1>4
<1>6. t \in Seq(Octet) /\ Len(t) = capacity(b)
  <2>1. t \in [1..capacity(b) -> Octet]
    BY <1>3, <1>5
  <2> HIDE DEF t
  <2> QED BY <2>1, <1>3
<1>7. 0 = buf[b].read => t = o
  <2> SUFFICES ASSUME buf[b].read = 0 PROVE t = o
    OBVIOUS
  <2>1. \A i \in 1..capacity(b) : (IF i <= l THEN s[i] ELSE o[i]) = o[i]
    BY <1>3
  <2>2. t = [i \in 1..capacity(b) |-> o[i]]
    BY <2>1, <1>3
  <2> QED BY <2>2, <1>3, <1>4
<1> HIDE DEF t
<1> DEFINE z == 0
<1>8. /\ Moved(b, z, l) /\ z \in Nat /\ l \in Nat /\ z <= l /\ l <= capacity(b)
      /\ z = buf[b].read /\ l = buf[b].write => t = data[buf[b].block]
  BY <1>1, <1>3, <1>7 DEF o
<1> HIDE DEF z
<1> QED BY <1>1, <1>2, <1>6, <1>8, OverwriteKeeps

\* Every step keeps the invariant, and the bytes of the buffers it leaves alone.
LEMMA ByteStep ==
  ASSUME ByteInv, [ByteNext]_byteVars
  PROVE  ByteInv' /\ Kept
<1>1. CASE UNCHANGED byteVars
  <2>1. refcount' = refcount /\ data' = data /\ buf' = buf /\ own' = own
    BY <1>1 DEF byteVars
  <2>2. Within' /\ OwnAlone' /\ ByteTypeOK' /\ Counts(refcount, buf)'
    BY <2>1 DEF ByteInv, ByteTypeOK, Within, capacity, OwnAlone, Counts
  <2>3. Kept
    BY <2>1 DEF Kept, Bytes
  <2> QED BY <2>2, <2>3 DEF ByteInv
<1>2. \A n \in 0..MaxSize : n \in Nat
  OBVIOUS
<1>3. \A n \in 1..MaxSize : n \in Nat /\ \A s \in [1..n -> Byte] : s \in Seq(Byte)
  OBVIOUS
<1>4. ASSUME NEW b \in Buffer, NEW n \in 0..MaxSize, construct(b, n) PROVE ByteInv' /\ Kept
  BY <1>2, <1>4, NewBlockKeeps
<1>5. ASSUME NEW b \in Buffer, destroy(b) PROVE ByteInv' /\ Kept
  BY <1>5, RebindKeeps
<1>6. ASSUME NEW c \in Buffer, NEW b \in Buffer, assign(c, b) PROVE ByteInv' /\ Kept
  BY <1>6, RebindKeeps
<1>7. ASSUME NEW c \in Buffer, NEW b \in Buffer, move(c, b) PROVE ByteInv' /\ Kept
  BY <1>7, TransferKeeps
<1>8. ASSUME NEW c \in Buffer, NEW b \in Buffer, swap(c, b) PROVE ByteInv' /\ Kept
  BY <1>8, SwapKeeps
<1>9. ASSUME NEW c \in Buffer, NEW b \in Buffer, copy(c, b) PROVE ByteInv' /\ Kept
  BY <1>9, NewBlockKeeps
<1>10. ASSUME NEW c \in Buffer, NEW b \in Buffer, NEW m \in 0..MaxSize, NEW n \in 0..MaxSize,
              sub_buffer(c, b, m, n)
       PROVE  ByteInv' /\ Kept
  BY <1>2, <1>10, NewBlockKeeps
<1>11. ASSUME NEW b \in Buffer, NEW n \in 1..MaxSize, NEW s \in [1..n -> Byte], write(b, s)
       PROVE  ByteInv' /\ Kept
  BY <1>3, <1>11, WriteKeeps
<1>12. ASSUME NEW b \in Buffer, NEW n \in 1..MaxSize, unwrite(b, n) \/ read(b, n) \/ unread(b, n)
       PROVE  ByteInv' /\ Kept
  BY <1>3, <1>12, PositionsKeep
<1>13. ASSUME NEW b \in Buffer, clear(b) PROVE ByteInv' /\ Kept
  BY <1>13, PositionsKeep
<1>14. ASSUME NEW b \in Buffer, fit(b) PROVE ByteInv' /\ Kept
  BY <1>14, FitKeeps
<1>15. ASSUME NEW b \in Buffer, shrink_to_fit(b) PROVE ByteInv' /\ Kept
  BY <1>15, NewBlockKeeps
<1>16. ASSUME NEW b \in Buffer, NEW n \in 0..MaxSize, reserve(b, n) PROVE ByteInv' /\ Kept
  BY <1>2, <1>16, ReserveKeeps
<1>17. CASE ByteNext
  BY <1>4, <1>5, <1>6, <1>7, <1>8, <1>9, <1>10, <1>11, <1>12, <1>13, <1>14, <1>15, <1>16, <1>17
     DEF ByteNext
<1> QED BY <1>1, <1>17

\* The inductive invariant of byte_buffer holds: blocks are counted, positions
\* lie inside them, and a buffer that reserved shares its block with none.
THEOREM BufferInvariant == ByteSpec => []ByteInv
<1>1. ByteInit => ByteInv
  <2> SUFFICES ASSUME ByteInit PROVE ByteInv
    OBVIOUS
  <2>1. ByteTypeOK /\ Within /\ OwnAlone
    BY DEF ByteInit, Null, ByteTypeOK, BufferRec, Within, capacity, OwnAlone
  <2>2. ASSUME NEW k \in Block PROVE Tally(buf, With(k)) = 0
    <3> DEFINE T == With(k)
    <3>1. \A b \in Buffer : buf[b] \notin T
      BY ByteBufferAssumption DEF ByteInit, Null, With
    <3>2. IsFiniteSet(Buffer) /\ buf \in [Buffer -> BufferRec]
      BY <2>1, ByteBufferAssumption DEF ByteTypeOK
    <3> HIDE DEF T
    <3> QED BY <3>1, <3>2, TallyType DEF T
  <2> QED BY <2>1, <2>2 DEF ByteInv, Counts, ByteInit
<1> QED BY <1>1, ByteStep, PTL DEF ByteSpec

\* Whatever is done with buffers, in any number and of any sizes, a block's
\* reference count is the number of buffers that have it, and no position leaves
\* its block.
THEOREM BlocksAreCounted == ByteSpec => []BlocksCounted
<1>1. ByteInv => BlocksCounted
  <2> SUFFICES ASSUME ByteInv PROVE BlocksCounted
    OBVIOUS
  <2>1. ASSUME NEW k \in Block PROVE refcount[k] = Cardinality({b \in Buffer : buf[b].block = k})
    <3>1. {b \in DOMAIN buf : buf[b] \in With(k)} = {b \in Buffer : buf[b].block = k}
      BY DEF ByteInv, ByteTypeOK, With
    <3> QED BY <3>1 DEF ByteInv, Counts, Tally
  <2> QED BY <2>1 DEF ByteInv, Within, BlocksCounted
<1> QED BY <1>1, BufferInvariant, PTL

\* No operation on one buffer changes a byte that another one holds: sharing a
\* block is safe as long as those who write reserve first.
THEOREM BytesAreKept == ByteSpec => BytesKept
<1>1. ByteInv /\ [ByteNext]_byteVars => [\A b \in Buffer : buf'[b] = buf[b] => Bytes(b)' = Bytes(b)]_byteVars
  BY ByteStep DEF Kept
<1> QED BY <1>1, BufferInvariant, PTL DEF ByteSpec, BytesKept

-----------------------------------------------------------------------------
(* pipeline_connector: its timer, its one attempt, and what answers it. *)

Code   == {"schedule", "cancel", "unbind", "failed", "aborted"}
Answer == {"failed", "aborted"}

TypeOK ==
  /\ now \in Nat /\ due \in Nat /\ ctime \in Nat
  /\ lpc \in {"out", "mux", "take", "drain", "timers"} /\ tpc \in {"idle", "fire"}
  /\ q \in Seq(Code) /\ ops \in Seq(Code)
  /\ fd \in {"closed", "open", "moved"} /\ dsc \in {"none", "connecting", "ready"}
  /\ inprog \in BOOLEAN /\ queued \in BOOLEAN

\* How many closures and completions of each kind are on their way.
AnswersIn(s)   == Count(s, Answer)
UnbindsIn(s)   == Count(s, {"unbind"})
SchedulesIn(s) == Count(s, {"schedule"})
CancelsIn(s)   == Count(s, {"cancel"})

Answered  == AnswersIn(q) + AnswersIn(ops)
Unbinding == UnbindsIn(q) + UnbindsIn(ops)

\* An attempt is in its descriptor or answered, and is the only one.
OneAnswer ==
  /\ inprog => (dsc = "none" /\ Answered = 1) \/ (dsc # "none" /\ Answered = 0)
  /\ ~inprog => dsc = "none" /\ Answered = 0

\* While an attempt is in progress its timer is on its way or in the list, and
\* nothing takes it out; the socket is open, or its descriptor is about to be
\* unbound, or the attempt is answered; the timer is due within _timeout; and
\* it is due in time, or what ends the attempt is on its way already.
Watched ==
  inprog =>
    /\ fd # "moved"
    /\ CancelsIn(q) + CancelsIn(ops) = 0
    /\ tpc = "fire" \/ queued \/ SchedulesIn(q) + SchedulesIn(ops) > 0
    /\ fd = "closed" /\ dsc # "none" => Unbinding > 0
    /\ now <= due /\ due <= now + Timeout
    /\ now <= ctime + 2 * Timeout
    /\ due <= ctime + 2 * Timeout \/ Unbinding > 0 \/ Answered > 0

\* A descriptor is unbound once, and the next attempt waits for it.
OneUnbind ==
  Unbinding > 0 => fd = "moved" \/ (fd = "closed" /\ dsc # "none" /\ Unbinding = 1)

IInv ==
  /\ TypeOK
  /\ lpc # "drain" => ops = <<>>
  /\ fd = "open" => dsc # "none"
  /\ OneAnswer
  /\ OneUnbind
  /\ Watched

-----------------------------------------------------------------------------
(* What posting and taking a closure do to the counts.                     *)

\* The counts are natural numbers; an empty queue holds nothing, and a queue
\* that holds something is not empty.
LEMMA CountsAreNat ==
  ASSUME NEW s \in Seq(Code)
  PROVE  /\ AnswersIn(s) \in Nat /\ UnbindsIn(s) \in Nat
         /\ SchedulesIn(s) \in Nat /\ CancelsIn(s) \in Nat
         /\ s = <<>> => /\ AnswersIn(s) = 0 /\ UnbindsIn(s) = 0
                        /\ SchedulesIn(s) = 0 /\ CancelsIn(s) = 0
BY CountType, CountSmall DEF AnswersIn, UnbindsIn, SchedulesIn, CancelsIn

\* A closure or completion posted.
LEMMA PostEffect ==
  ASSUME NEW s \in Seq(Code), NEW c \in Code
  PROVE  /\ Append(s, c) \in Seq(Code)
         /\ AnswersIn(Append(s, c)) = AnswersIn(s) + IF c \in Answer THEN 1 ELSE 0
         /\ UnbindsIn(Append(s, c)) = UnbindsIn(s) + IF c = "unbind" THEN 1 ELSE 0
         /\ SchedulesIn(Append(s, c)) = SchedulesIn(s) + IF c = "schedule" THEN 1 ELSE 0
         /\ CancelsIn(Append(s, c)) = CancelsIn(s) + IF c = "cancel" THEN 1 ELSE 0
<1>1. ASSUME NEW S PROVE Count(Append(s, c), S) = Count(s, S) + IF c \in S THEN 1 ELSE 0
  BY CountAppend
<1> QED BY <1>1 DEF AnswersIn, UnbindsIn, SchedulesIn, CancelsIn

\* The first one taken.
LEMMA TakeEffect ==
  ASSUME NEW s \in Seq(Code), s # <<>>
  PROVE  /\ Head(s) \in Code /\ Tail(s) \in Seq(Code)
         /\ AnswersIn(s) = AnswersIn(Tail(s)) + IF Head(s) \in Answer THEN 1 ELSE 0
         /\ UnbindsIn(s) = UnbindsIn(Tail(s)) + IF Head(s) = "unbind" THEN 1 ELSE 0
         /\ SchedulesIn(s) = SchedulesIn(Tail(s)) + IF Head(s) = "schedule" THEN 1 ELSE 0
         /\ CancelsIn(s) = CancelsIn(Tail(s)) + IF Head(s) = "cancel" THEN 1 ELSE 0
<1>1. Head(s) \in Code /\ Tail(s) \in Seq(Code)
  OBVIOUS
<1>2. ASSUME NEW S PROVE Count(s, S) = Count(Tail(s), S) + IF Head(s) \in S THEN 1 ELSE 0
  BY CountTail
<1> QED BY <1>1, <1>2 DEF AnswersIn, UnbindsIn, SchedulesIn, CancelsIn

\* do_connect: a descriptor, or the error completed at once; then what the
\* caller posts.  The socket's descriptor was gone before.
LEMMA DoConnectEffect ==
  ASSUME TypeOK, NEW i, NEW c \in {"none", "schedule"}, NEW after,
         after = IF c = "none" THEN <<>> ELSE <<c>>, do_connect(i, after)
  PROVE  /\ inprog' = TRUE /\ ctime' = now /\ q' \in Seq(Code)
         /\ \/ fd' = "open" /\ dsc' = "connecting" /\ AnswersIn(q') = AnswersIn(q)
            \/ fd' = fd /\ dsc' = dsc /\ AnswersIn(q') = AnswersIn(q) + 1
         /\ UnbindsIn(q') = UnbindsIn(q) /\ CancelsIn(q') = CancelsIn(q)
         /\ SchedulesIn(q') = SchedulesIn(q) + IF c = "schedule" THEN 1 ELSE 0
<1>1. q \in Seq(Code) /\ "failed" \in Code /\ "schedule" \in Code
  BY DEF TypeOK, Code
<1>2. q \o <<>> = q /\ q \o <<"failed">> = Append(q, "failed") /\ q \o <<"schedule">> = Append(q, "schedule")
  BY <1>1
<1>3. Append(q, "failed") \in Seq(Code)
  BY <1>1
<1>4. Append(q, "failed") \o <<>> = Append(q, "failed")
      /\ Append(q, "failed") \o <<"schedule">> = Append(Append(q, "failed"), "schedule")
  BY <1>1, <1>3
<1>5. \/ fd' = "open" /\ dsc' = "connecting" /\ q' = IF c = "none" THEN q ELSE Append(q, "schedule")
      \/ fd' = fd /\ dsc' = dsc
           /\ q' = IF c = "none" THEN Append(q, "failed") ELSE Append(Append(q, "failed"), "schedule")
  BY <1>2, <1>4 DEF do_connect
<1>6. inprog' = TRUE /\ ctime' = now
  BY DEF do_connect
<1>7. /\ AnswersIn(q) \in Nat /\ UnbindsIn(q) \in Nat
      /\ SchedulesIn(q) \in Nat /\ CancelsIn(q) \in Nat
  BY <1>1, CountsAreNat
<1>8. PICK a \in Seq(Code) : a = Append(q, "failed")
  BY <1>3
<1>9. /\ AnswersIn(a) = AnswersIn(q) + 1 /\ UnbindsIn(a) = UnbindsIn(q)
      /\ SchedulesIn(a) = SchedulesIn(q) /\ CancelsIn(a) = CancelsIn(q)
  BY <1>1, <1>7, <1>8, PostEffect DEF Answer
<1>10. ASSUME NEW s \in Seq(Code), NEW t, t = Append(s, "schedule")
       PROVE  /\ t \in Seq(Code)
              /\ AnswersIn(t) = AnswersIn(s) /\ UnbindsIn(t) = UnbindsIn(s)
              /\ SchedulesIn(t) = SchedulesIn(s) + 1 /\ CancelsIn(t) = CancelsIn(s)
  <2>1. /\ AnswersIn(s) \in Nat /\ UnbindsIn(s) \in Nat
        /\ SchedulesIn(s) \in Nat /\ CancelsIn(s) \in Nat
    BY CountsAreNat
  <2> QED BY <1>1, <1>10, <2>1, PostEffect DEF Answer
<1>11. CASE c = "none"
  <2>1. CASE fd' = "open" /\ dsc' = "connecting" /\ q' = q
    BY <1>1, <1>6, <1>7, <1>11, <2>1
  <2>2. CASE fd' = fd /\ dsc' = dsc /\ q' = a
    BY <1>6, <1>7, <1>9, <1>11, <2>2
  <2> QED BY <1>5, <1>8, <1>11, <2>1, <2>2
<1>12. CASE c = "schedule"
  <2>1. CASE fd' = "open" /\ dsc' = "connecting" /\ q' = Append(q, "schedule")
    BY <1>1, <1>6, <1>10, <1>12, <2>1
  <2>2. CASE fd' = fd /\ dsc' = dsc /\ q' = Append(a, "schedule")
    BY <1>1, <1>6, <1>7, <1>9, <1>10, <1>12, <2>2
  <2> QED BY <1>5, <1>8, <1>12, <2>1, <2>2
<1> QED BY <1>11, <1>12

-----------------------------------------------------------------------------
(* The steps. *)

\* The counts of the two queues are natural numbers.
LEMMA QueueCounts ==
  ASSUME TypeOK
  PROVE  /\ AnswersIn(q) \in Nat /\ UnbindsIn(q) \in Nat
         /\ SchedulesIn(q) \in Nat /\ CancelsIn(q) \in Nat
         /\ AnswersIn(ops) \in Nat /\ UnbindsIn(ops) \in Nat
         /\ SchedulesIn(ops) \in Nat /\ CancelsIn(ops) \in Nat
         /\ AnswersIn(<<>>) = 0 /\ UnbindsIn(<<>>) = 0
         /\ SchedulesIn(<<>>) = 0 /\ CancelsIn(<<>>) = 0
         /\ Timeout \in Nat \ {0}
<1>1. <<>> \in Seq(Code)
  OBVIOUS
<1> QED BY <1>1, CountsAreNat, ConnectorAssumption DEF TypeOK

\* connect_sequence: there was no attempt, and nothing was on its way.
LEMMA ConnectStep ==
  ASSUME IInv, connect_before_run \/ connect_on_loop \/ connect_off_loop
  PROVE  IInv'
<1>1. /\ TypeOK /\ ~inprog /\ q = <<>> /\ ops = <<>> /\ fd # "moved"
      /\ due' = now + Timeout /\ now' = now /\ lpc' = lpc /\ ops' = ops
  BY DEF IInv, connect_before_run, connect_on_loop, connect_off_loop, MayConnect, Started
<1>2. \/ do_connect(0, <<"schedule">>) /\ tpc' = tpc /\ queued' = queued
      \/ do_connect(0, <<>>) /\ queued' = TRUE /\ tpc' = tpc
      \/ do_connect(0, <<>>) /\ queued' = queued /\ tpc' = "fire"
  BY DEF connect_before_run, connect_on_loop, connect_off_loop
<1>3. PICK c \in {"none", "schedule"} :
        /\ do_connect(0, IF c = "none" THEN <<>> ELSE <<c>>)
        /\ c = "schedule" \/ queued' = TRUE \/ tpc' = "fire"
        /\ queued' \in {queued, TRUE} /\ tpc' \in {tpc, "fire"}
  BY <1>2
<1>4. /\ inprog' = TRUE /\ ctime' = now /\ q' \in Seq(Code)
      /\ \/ fd' = "open" /\ dsc' = "connecting" /\ AnswersIn(q') = AnswersIn(q)
         \/ fd' = fd /\ dsc' = dsc /\ AnswersIn(q') = AnswersIn(q) + 1
      /\ UnbindsIn(q') = UnbindsIn(q) /\ CancelsIn(q') = CancelsIn(q)
      /\ SchedulesIn(q') = SchedulesIn(q) + IF c = "schedule" THEN 1 ELSE 0
  BY <1>1, <1>3, DoConnectEffect
<1>5. dsc = "none"
  BY <1>1, QueueCounts DEF IInv, OneAnswer, Answered
<1>6. TypeOK'
  <2>1. Timeout \in Nat
    BY ConnectorAssumption
  <2>2. queued' \in BOOLEAN
    BY <1>1, <1>3 DEF TypeOK
  <2> QED BY <1>1, <1>3, <1>4, <2>1, <2>2 DEF TypeOK
<1>7. OneAnswer' /\ (fd = "open" => dsc # "none")'
  <2>1. AnswersIn(q) = 0 /\ AnswersIn(ops) = 0
    BY <1>1, QueueCounts
  <2> QED BY <1>1, <1>4, <1>5, <2>1 DEF IInv, OneAnswer, Answered
<1>8. Watched'
  <2>1. /\ CancelsIn(q') + CancelsIn(ops') = 0
        /\ c = "schedule" => SchedulesIn(q') + SchedulesIn(ops') > 0
    BY <1>1, <1>4, QueueCounts
  <2>2. now \in Nat /\ Timeout \in Nat
    BY <1>1, ConnectorAssumption DEF TypeOK
  <2>3. now <= due' /\ due' <= now + Timeout /\ now <= ctime' + 2 * Timeout /\ due' <= ctime' + 2 * Timeout
    BY <1>1, <1>4, <2>2
  <2> QED BY <1>1, <1>3, <1>4, <1>5, <2>1, <2>3 DEF Watched
<1>9. OneUnbind'
  BY <1>1, <1>4, QueueCounts DEF OneUnbind, Unbinding
<1> QED BY <1>1, <1>6, <1>7, <1>8, <1>9 DEF IInv

\* The thread that started the sequence posts the timer's closure.
LEMMA FireStep ==
  ASSUME IInv, fire_off_loop PROVE IInv'
<1>1. "schedule" \in Code /\ q \in Seq(Code) /\ q' = Append(q, "schedule")
  BY DEF Code, IInv, TypeOK, fire_off_loop
<1>2. /\ q' \in Seq(Code) /\ AnswersIn(q') = AnswersIn(q) /\ UnbindsIn(q') = UnbindsIn(q)
      /\ SchedulesIn(q') = SchedulesIn(q) + 1 /\ CancelsIn(q') = CancelsIn(q)
  BY <1>1, PostEffect, CountsAreNat DEF Answer
<1>3. UNCHANGED <<now, lpc, ops, attempt, timer>> /\ tpc' = "idle"
  BY DEF fire_off_loop
<1>4. TypeOK'
  BY <1>2, <1>3 DEF IInv, TypeOK, attempt, timer
<1>5. OneAnswer'
  BY <1>2, <1>3 DEF IInv, OneAnswer, Answered, attempt
<1>6. Watched'
  <2>1. SchedulesIn(q') + SchedulesIn(ops') > 0
    BY <1>2, <1>3, QueueCounts DEF IInv
  <2> QED BY <1>2, <1>3, <2>1 DEF IInv, Watched, Answered, Unbinding, attempt, timer
<1>7. OneUnbind'
  BY <1>2, <1>3 DEF IInv, OneUnbind, Unbinding, attempt
<1> QED BY <1>3, <1>4, <1>5, <1>6, <1>7 DEF IInv, attempt

\* A step that leaves what the loop does next to another place, or the
\* descriptor readable.
LEMMA MoveStep ==
  ASSUME IInv, run \/ run_drained \/ timer_none \/ answer PROVE IInv'
<1>1. /\ UNCHANGED <<now, q, ops, tpc, fd, inprog, ctime, due, queued>>
      /\ \/ dsc' = dsc /\ ops = <<>> /\ lpc' \in {"mux", "timers"}
         \/ dsc # "none" /\ dsc' = "ready" /\ lpc' = lpc
  BY DEF run, run_drained, timer_none, answer, attempt, timer, caller, IInv
<1>2. TypeOK'
  BY <1>1 DEF IInv, TypeOK
<1>3. OneAnswer'
  BY <1>1 DEF IInv, OneAnswer, Answered
<1>4. Watched'
  BY <1>1 DEF IInv, Watched, Answered, Unbinding
<1>5. OneUnbind'
  BY <1>1 DEF IInv, OneUnbind, Unbinding
<1> QED BY <1>1, <1>2, <1>3, <1>4, <1>5 DEF IInv

\* Time passes: nothing is on its way and the loop is not in its batch, so an
\* attempt in progress has its timer in the list, not yet due.
LEMMA TickStep ==
  ASSUME IInv, tick PROVE IInv'
<1>1. q = <<>> /\ ops = <<>> /\ TypeOK
  BY DEF tick, IInv
<1>2. /\ UNCHANGED <<lpc, q, ops, tpc, attempt, timer>> /\ now' = now + 1
      /\ tpc = "idle" /\ ~(queued /\ due <= now)
  BY DEF tick, caller
<1>3. Answered = 0 /\ Unbinding = 0 /\ SchedulesIn(q) + SchedulesIn(ops) = 0
  BY <1>1, QueueCounts DEF Answered, Unbinding
<1>4. now \in Nat /\ due \in Nat /\ ctime \in Nat /\ Timeout \in Nat
  BY <1>1, ConnectorAssumption DEF TypeOK
<1>5. inprog => now < due /\ due <= now + Timeout /\ due <= ctime + 2 * Timeout
  BY <1>2, <1>3, <1>4 DEF IInv, Watched
<1>6. TypeOK'
  BY <1>1, <1>2 DEF TypeOK, attempt, timer
<1>7. OneAnswer'
  BY <1>2 DEF IInv, OneAnswer, Answered, attempt
<1>8. Watched'
  BY <1>2, <1>4, <1>5 DEF IInv, Watched, Answered, Unbinding, attempt, timer
<1>9. OneUnbind'
  BY <1>2 DEF IInv, OneUnbind, Unbinding, attempt
<1> QED BY <1>2, <1>6, <1>7, <1>8, <1>9 DEF IInv, attempt

\* The batch is taken.
LEMMA TakeStep ==
  ASSUME IInv, run_take PROVE IInv'
<1>1. ops = <<>> /\ ops' = q /\ q' = <<>> /\ TypeOK /\ <<>> \in Seq(Code)
  BY DEF run_take, IInv
<1>2. UNCHANGED <<now, tpc, attempt, timer>> /\ lpc' = "drain"
  BY DEF run_take, caller
<1>3. /\ AnswersIn(q') + AnswersIn(ops') = Answered /\ UnbindsIn(q') + UnbindsIn(ops') = Unbinding
      /\ SchedulesIn(q') + SchedulesIn(ops') = SchedulesIn(q) + SchedulesIn(ops)
      /\ CancelsIn(q') + CancelsIn(ops') = CancelsIn(q) + CancelsIn(ops)
  BY <1>1, QueueCounts DEF Answered, Unbinding
<1>4. TypeOK'
  BY <1>1, <1>2 DEF TypeOK, attempt, timer
<1>5. OneAnswer'
  BY <1>2, <1>3 DEF IInv, OneAnswer, Answered, attempt
<1>6. Watched'
  BY <1>2, <1>3 DEF IInv, Watched, Answered, Unbinding, attempt, timer
<1>7. OneUnbind'
  BY <1>2, <1>3 DEF IInv, OneUnbind, Unbinding, attempt
<1> QED BY <1>2, <1>4, <1>5, <1>6, <1>7 DEF IInv, attempt

\* The event of the connection: the attempt has its descriptor, so no answer
\* is on its way.
LEMMA EventStep ==
  ASSUME IInv, run_event PROVE IInv'
<1>1. TypeOK /\ dsc = "ready" /\ inprog' = FALSE /\ fd' = "moved" /\ dsc' = "none"
      /\ now' = now /\ due' = due /\ ctime' = ctime /\ ops' = ops /\ lpc' = "take"
      /\ tpc' = tpc /\ queued' = queued /\ lpc = "mux"
  BY DEF run_event, IInv, handle_connect_open, handle_connect_build_fail, caller, timer
<1>2. PICK c \in {"cancel", "unbind"} : q' = q \/ q' = Append(q, c)
  BY DEF run_event, handle_connect_open, handle_connect_build_fail, cancel
<1>3. q' \in Seq(Code) /\ AnswersIn(q') = AnswersIn(q)
  <2>1. c \in Code /\ c \notin Answer /\ q \in Seq(Code)
    BY <1>1 DEF Code, Answer, TypeOK
  <2>2. CASE q' = q
    BY <2>1, <2>2
  <2>3. CASE q' = Append(q, c)
    <3>1. AnswersIn(q) \in Nat
      BY <2>1, CountsAreNat
    <3>2. AnswersIn(q') = AnswersIn(q) + 0 /\ q' \in Seq(Code)
      BY <2>1, <2>3, PostEffect
    <3> QED BY <3>1, <3>2
  <2> QED BY <1>2, <2>2, <2>3
<1>4. TypeOK'
  BY <1>1, <1>3 DEF TypeOK
<1>5. OneAnswer'
  BY <1>1, <1>3 DEF IInv, OneAnswer, Answered
<1>6. Watched'
  BY <1>1 DEF Watched
<1>7. OneUnbind'
  BY <1>1 DEF OneUnbind
<1> QED BY <1>1, <1>4, <1>5, <1>6, <1>7 DEF IInv

\* A closure of the batch is run: what it was leaves the counts.
LEMMA NextOp ==
  ASSUME IInv, NEW c \in Code, Next_op(c)
  PROVE  /\ ops' \in Seq(Code) /\ lpc = "drain" /\ ops # <<>>
         /\ AnswersIn(ops') \in Nat /\ UnbindsIn(ops') \in Nat
         /\ SchedulesIn(ops') \in Nat /\ CancelsIn(ops') \in Nat
         /\ AnswersIn(ops) = AnswersIn(ops') + IF c \in Answer THEN 1 ELSE 0
         /\ UnbindsIn(ops) = UnbindsIn(ops') + IF c = "unbind" THEN 1 ELSE 0
         /\ SchedulesIn(ops) = SchedulesIn(ops') + IF c = "schedule" THEN 1 ELSE 0
         /\ CancelsIn(ops) = CancelsIn(ops') + IF c = "cancel" THEN 1 ELSE 0
<1>1. ops \in Seq(Code) /\ ops # <<>> /\ ops' = Tail(ops) /\ Head(ops) = c /\ lpc = "drain"
  BY DEF IInv, TypeOK, Next_op
<1>2. ops' \in Seq(Code)
  BY <1>1
<1> QED BY <1>1, <1>2, TakeEffect, CountsAreNat

\* The timer enters the list, or leaves it; it leaves only when no attempt is
\* in progress.
LEMMA TimerOpStep ==
  ASSUME IInv, op_run_schedule \/ op_run_cancel PROVE IInv'
<1>1. UNCHANGED <<now, lpc, q, tpc, attempt, due>>
  BY DEF op_run_schedule, op_run_cancel, caller
<1>2. PICK c \in {"schedule", "cancel"} : Next_op(c) /\ queued' = (c = "schedule")
  BY DEF op_run_schedule, op_run_cancel
<1>3. c \in Code /\ c \notin Answer /\ c # "unbind"
  BY DEF Code, Answer
<1>4. /\ ops' \in Seq(Code) /\ lpc = "drain"
      /\ AnswersIn(ops') \in Nat /\ UnbindsIn(ops') \in Nat
      /\ SchedulesIn(ops') \in Nat /\ CancelsIn(ops') \in Nat
      /\ AnswersIn(ops) = AnswersIn(ops') + 0 /\ UnbindsIn(ops) = UnbindsIn(ops') + 0
      /\ SchedulesIn(ops) = SchedulesIn(ops') + IF c = "schedule" THEN 1 ELSE 0
      /\ CancelsIn(ops) = CancelsIn(ops') + IF c = "cancel" THEN 1 ELSE 0
  BY <1>2, <1>3, NextOp
<1>5. AnswersIn(ops) = AnswersIn(ops') /\ UnbindsIn(ops) = UnbindsIn(ops')
  BY <1>4
<1>6. TypeOK'
  BY <1>1, <1>2, <1>4 DEF IInv, TypeOK, attempt
<1>7. OneAnswer'
  BY <1>1, <1>5 DEF IInv, OneAnswer, Answered, attempt
<1>8. Watched'
  <2> SUFFICES ASSUME inprog PROVE Watched'
    BY <1>1 DEF Watched, attempt
  <2>1. CancelsIn(q) + CancelsIn(ops) = 0 /\ CancelsIn(q) \in Nat /\ CancelsIn(ops) \in Nat
    BY QueueCounts DEF IInv, Watched
  <2>2. c # "cancel"
    BY <1>4, <2>1
  <2>3. queued' /\ CancelsIn(ops') = CancelsIn(ops)
    <3>1. c = "schedule"
      BY <2>2
    <3>2. queued'
      BY <1>2, <3>1
    <3> QED BY <1>4, <2>1, <3>1, <3>2
  <2> QED BY <1>1, <1>5, <2>3 DEF IInv, Watched, Answered, Unbinding, attempt
<1>9. OneUnbind'
  BY <1>1, <1>5 DEF IInv, OneUnbind, Unbinding, attempt
<1> QED BY <1>1, <1>4, <1>6, <1>7, <1>8, <1>9 DEF IInv, attempt

\* The descriptor is unbound: its operation, if it is still there, completes.
LEMMA UnbindStep ==
  ASSUME IInv, op_run_unbind PROVE IInv'
<1>1. /\ UNCHANGED <<now, lpc, tpc, fd, inprog, ctime, timer>> /\ dsc' = "none"
      /\ Next_op("unbind") /\ q' = IF dsc = "none" THEN q ELSE Append(q, "aborted")
  BY DEF op_run_unbind, caller
<1>2. /\ ops' \in Seq(Code) /\ lpc = "drain"
      /\ AnswersIn(ops') \in Nat /\ UnbindsIn(ops') \in Nat
      /\ SchedulesIn(ops') \in Nat /\ CancelsIn(ops') \in Nat
      /\ AnswersIn(ops) = AnswersIn(ops') /\ UnbindsIn(ops) = UnbindsIn(ops') + 1
      /\ SchedulesIn(ops) = SchedulesIn(ops') /\ CancelsIn(ops) = CancelsIn(ops')
  BY <1>1, NextOp DEF Code, Answer
<1>3. /\ q' \in Seq(Code) /\ UnbindsIn(q') = UnbindsIn(q)
      /\ SchedulesIn(q') = SchedulesIn(q) /\ CancelsIn(q') = CancelsIn(q)
      /\ AnswersIn(q') = IF dsc = "none" THEN AnswersIn(q) ELSE AnswersIn(q) + 1
  <2>1. q \in Seq(Code) /\ "aborted" \in Code
    BY DEF Code, IInv, TypeOK
  <2>2. /\ AnswersIn(q) \in Nat /\ UnbindsIn(q) \in Nat
        /\ SchedulesIn(q) \in Nat /\ CancelsIn(q) \in Nat
    BY <2>1, CountsAreNat
  <2>3. CASE dsc = "none"
    BY <1>1, <2>1, <2>3
  <2>4. CASE dsc # "none"
    BY <1>1, <2>1, <2>2, <2>4, PostEffect DEF Answer
  <2> QED BY <2>3, <2>4
<1>4. /\ fd = "moved" \/ (UnbindsIn(q') + UnbindsIn(ops') = 0 /\ fd = "closed")
      /\ AnswersIn(q) \in Nat /\ UnbindsIn(q) \in Nat
  <2>1. AnswersIn(q) \in Nat /\ UnbindsIn(q) \in Nat
    BY QueueCounts DEF IInv
  <2> QED BY <1>2, <1>3, <2>1 DEF IInv, OneUnbind, Unbinding
<1>5. TypeOK'
  BY <1>1, <1>2, <1>3 DEF IInv, TypeOK, timer
<1>6. OneAnswer'
  BY <1>1, <1>2, <1>3, <1>4 DEF IInv, OneAnswer, Answered
<1>7. Watched'
  <2> SUFFICES ASSUME inprog PROVE Watched'
    BY <1>1 DEF Watched
  <2>1. AnswersIn(q') + AnswersIn(ops') = 1
    BY <1>1, <1>2, <1>3, <1>4 DEF IInv, OneAnswer, Answered
  <2> QED BY <1>1, <1>2, <1>3, <2>1 DEF IInv, Watched, Answered, Unbinding, timer
<1>8. OneUnbind'
  BY <1>1, <1>4 DEF OneUnbind, Unbinding
<1> QED BY <1>1, <1>2, <1>4, <1>5, <1>6, <1>7, <1>8 DEF IInv

\* A completion with an error: it was the attempt's only answer, so the
\* descriptor is gone and nothing is being unbound.
LEMMA HandlerStep ==
  ASSUME IInv, op_run_handler PROVE IInv'
<1>1. UNCHANGED <<now, lpc, tpc, timer>> /\ handle_connect_error
  BY DEF op_run_handler, caller
<1>2. PICK c \in Answer : Next_op(c)
  BY DEF op_run_handler, Answer
<1>3. c \in Code /\ c \notin {"unbind", "schedule", "cancel"}
  BY DEF Code, Answer
<1>4. /\ ops' \in Seq(Code) /\ lpc = "drain"
      /\ AnswersIn(ops') \in Nat /\ UnbindsIn(ops') \in Nat
      /\ SchedulesIn(ops') \in Nat /\ CancelsIn(ops') \in Nat
      /\ AnswersIn(ops) = AnswersIn(ops') + 1 /\ UnbindsIn(ops) = UnbindsIn(ops')
      /\ SchedulesIn(ops) = SchedulesIn(ops') /\ CancelsIn(ops) = CancelsIn(ops')
  BY <1>2, <1>3, NextOp
<1>5. /\ AnswersIn(q) \in Nat /\ UnbindsIn(q) \in Nat /\ SchedulesIn(q) \in Nat
      /\ CancelsIn(q) \in Nat /\ q \in Seq(Code)
  BY QueueCounts DEF IInv, TypeOK
<1>6. inprog /\ dsc = "none" /\ AnswersIn(q) = 0 /\ AnswersIn(ops') = 0
  BY <1>4, <1>5 DEF IInv, OneAnswer, Answered
<1>7. fd = "closed" /\ UnbindsIn(q) = 0 /\ UnbindsIn(ops') = 0
  BY <1>4, <1>5, <1>6, SMTT(20) DEF IInv, TypeOK, Watched, OneUnbind, Unbinding
<1>8. CASE do_connect((idx + 1) % N, <<>>)
  <2>1. /\ inprog' = TRUE /\ ctime' = now /\ q' \in Seq(Code)
        /\ \/ fd' = "open" /\ dsc' = "connecting" /\ AnswersIn(q') = AnswersIn(q)
           \/ fd' = fd /\ dsc' = dsc /\ AnswersIn(q') = AnswersIn(q) + 1
        /\ UnbindsIn(q') = UnbindsIn(q) /\ CancelsIn(q') = CancelsIn(q)
        /\ SchedulesIn(q') = SchedulesIn(q) + 0
    <3>1. TypeOK /\ <<>> = IF "none" = "none" THEN <<>> ELSE <<"none">>
      BY DEF IInv
    <3>2. "none" \in {"none", "schedule"} /\ "none" # "schedule"
      OBVIOUS
    <3> QED BY <1>8, <3>1, <3>2, DoConnectEffect
  <2>2. TypeOK'
    BY <1>1, <1>4, <2>1 DEF IInv, TypeOK, timer
  <2>3. OneAnswer' /\ OneUnbind' /\ (fd = "open" => dsc # "none")'
    BY <1>6, <1>7, <2>1 DEF OneAnswer, OneUnbind, Answered, Unbinding
  <2>4. now \in Nat /\ due \in Nat /\ Timeout \in Nat /\ now <= due /\ due <= now + Timeout
    BY <1>6, ConnectorAssumption DEF IInv, TypeOK, Watched
  <2>5. now <= now + 2 * Timeout /\ due <= now + 2 * Timeout
    BY <2>4
  <2>6. CancelsIn(q) + CancelsIn(ops) = 0
    BY <1>6 DEF IInv, Watched
  <2>7. tpc = "fire" \/ queued \/ SchedulesIn(q) + SchedulesIn(ops) > 0
    BY <1>6 DEF IInv, Watched
  <2>8. SchedulesIn(q') = SchedulesIn(q)
    BY <1>5, <2>1
  <2>9. Watched'
    BY <1>1, <1>4, <1>6, <1>7, <2>1, <2>4, <2>5, <2>6, <2>7, <2>8 DEF Watched, timer
  <2> QED BY <1>1, <1>4, <2>2, <2>3, <2>9 DEF IInv
<1>9. CASE inprog' = FALSE /\ cancel /\ UNCHANGED <<fd, dsc, ctime>>
  <2>1. q' = q \/ q' = Append(q, "cancel")
    BY <1>9 DEF cancel
  <2>2. "cancel" \in Code /\ "cancel" \notin Answer
    BY DEF Code, Answer
  <2>3. q' \in Seq(Code) /\ AnswersIn(q') = 0 /\ UnbindsIn(q') = 0
    <3>1. CASE q' = q
      BY <1>5, <1>6, <1>7, <3>1
    <3>2. CASE q' = Append(q, "cancel")
      BY <1>5, <1>6, <1>7, <2>2, <3>2, PostEffect
    <3> QED BY <2>1, <3>1, <3>2
  <2>4. TypeOK'
    BY <1>1, <1>4, <1>9, <2>3 DEF IInv, TypeOK, timer
  <2>5. OneAnswer' /\ OneUnbind' /\ Watched'
    BY <1>6, <1>7, <1>9, <2>3 DEF OneAnswer, OneUnbind, Watched, Answered, Unbinding
  <2> QED BY <1>1, <1>4, <1>7, <1>9, <2>4, <2>5 DEF IInv
<1> QED BY <1>1, <1>8, <1>9 DEF handle_connect_error

\* on_timer.  While an attempt is in progress the timer is served exactly when
\* it is due: then the attempt is not late, and the timer is due again before
\* twice _timeout; or its socket is closed; or that has happened before.
LEMMA TimerStep ==
  ASSUME IInv, timer_drain PROVE IInv'
<1>1. /\ UNCHANGED <<now, lpc, ops, tpc, dsc, inprog, ctime, queued>>
      /\ due' = due + Timeout /\ due <= now /\ lpc = "timers"
      /\ \/ Late /\ fd = "open" /\ fd' = "closed" /\ q' = Append(q, "unbind")
         \/ ~(Late /\ fd = "open") /\ fd' = fd /\ q' = q
  BY DEF timer_drain, caller
<1>2. /\ now \in Nat /\ due \in Nat /\ ctime \in Nat /\ Timeout \in Nat \ {0} /\ q \in Seq(Code)
      /\ fd \in {"closed", "open", "moved"}
  BY ConnectorAssumption DEF IInv, TypeOK
<1>3. /\ AnswersIn(q) \in Nat /\ UnbindsIn(q) \in Nat /\ SchedulesIn(q) \in Nat /\ CancelsIn(q) \in Nat
      /\ AnswersIn(ops) \in Nat /\ UnbindsIn(ops) \in Nat
  BY QueueCounts DEF IInv
<1>4. inprog => due = now
  BY <1>1, <1>2 DEF IInv, Watched
<1>5. CASE Late /\ fd = "open" /\ fd' = "closed" /\ q' = Append(q, "unbind")
  <2>1. "unbind" \in Code /\ "unbind" \notin Answer
    BY DEF Code, Answer
  <2>2. /\ q' \in Seq(Code) /\ AnswersIn(q') = AnswersIn(q) /\ UnbindsIn(q') = UnbindsIn(q) + 1
        /\ SchedulesIn(q') = SchedulesIn(q) /\ CancelsIn(q') = CancelsIn(q)
    BY <1>2, <1>3, <1>5, <2>1, PostEffect
  <2>3. inprog /\ dsc # "none" /\ UnbindsIn(q) = 0 /\ UnbindsIn(ops) = 0
    BY <1>3, <1>5 DEF IInv, OneUnbind, Unbinding, Late
  <2>4. TypeOK'
    BY <1>1, <1>2, <1>5, <2>2 DEF IInv, TypeOK
  <2>5. OneAnswer' /\ OneUnbind'
    BY <1>1, <1>5, <2>2, <2>3 DEF IInv, OneAnswer, OneUnbind, Answered, Unbinding
  <2>6. now <= due + Timeout /\ due + Timeout <= now + Timeout /\ UnbindsIn(q') + UnbindsIn(ops') > 0
    BY <1>1, <1>2, <1>4, <2>2, <2>3
  <2>7. Watched'
    BY <1>1, <1>5, <2>2, <2>3, <2>6 DEF IInv, Watched, Unbinding
  <2> QED BY <1>1, <1>5, <2>4, <2>5, <2>7 DEF IInv
<1>6. CASE ~(Late /\ fd = "open") /\ fd' = fd /\ q' = q
  <2>1. TypeOK'
    BY <1>1, <1>2, <1>6 DEF IInv, TypeOK
  <2>2. OneAnswer' /\ OneUnbind'
    BY <1>1, <1>6 DEF IInv, OneAnswer, OneUnbind, Answered, Unbinding
  <2>3. Watched'
    <3> SUFFICES ASSUME inprog PROVE Watched'
      BY <1>1 DEF Watched
    <3>1. now <= due + Timeout /\ due + Timeout <= now + Timeout
      BY <1>2, <1>4
    <3>2. ~Late => due + Timeout <= ctime + 2 * Timeout
      BY <1>2, <1>4 DEF Late
    <3>3. Late => fd = "closed"
      BY <1>2, <1>6 DEF IInv, Watched
    <3>4. Late => Unbinding > 0 \/ Answered > 0
      <4>1. dsc = "none" => Answered = 1
        BY DEF IInv, OneAnswer
      <4> QED BY <3>3, <4>1 DEF IInv, Watched
    <3> QED BY <1>1, <1>6, <3>1, <3>2, <3>4 DEF IInv, Watched, Unbinding, Answered
  <2> QED BY <1>1, <1>6, <2>1, <2>2, <2>3 DEF IInv
<1> QED BY <1>1, <1>5, <1>6

-----------------------------------------------------------------------------
\* The cardinality ConnectBounded speaks of is the sum of the two counts.
LEMMA AnswersCounted ==
  ASSUME TypeOK PROVE Cardinality(Answers) = Answered
<1>1. Cardinality(Answers) = Count(q \o ops, Answer)
  BY DEF Answers, Count, PlacesOf, Answer
<1> QED BY <1>1, CountConcat DEF TypeOK, Answered, AnswersIn

\* For any number of addresses and any _timeout, and in whatever order the
\* events, the closures and the timer of pipeline_connector are served: an
\* attempt is answered exactly once, and within twice _timeout.
THEOREM AttemptBounded == Spec => []ConnectBounded
<1>1. Init => IInv
  <2> SUFFICES ASSUME Init PROVE IInv
    OBVIOUS
  <2>1. TypeOK
    <3>1. <<>> \in Seq(Code) /\ FALSE \in BOOLEAN /\ 0 \in Nat
      OBVIOUS
    <3> QED BY <3>1 DEF Init, TypeOK
  <2>2. Answered = 0 /\ Unbinding = 0
    BY <2>1, QueueCounts DEF Init, Answered, Unbinding
  <2> QED BY <2>1, <2>2 DEF Init, IInv, OneAnswer, OneUnbind, Watched
<1>2. IInv /\ [Next]_vars => IInv'
  <2> SUFFICES ASSUME IInv, [Next]_vars PROVE IInv'
    OBVIOUS
  <2>1. CASE UNCHANGED vars
    BY <2>1 DEF vars, caller, attempt, timer, IInv, TypeOK, OneAnswer, OneUnbind, Watched, Answered, Unbinding
  <2>2. CASE LoopStep
    BY <2>2, EventStep, TakeStep, TimerOpStep, UnbindStep, HandlerStep, MoveStep, TimerStep DEF LoopStep
  <2> QED BY <2>1, <2>2, ConnectStep, FireStep, MoveStep, TickStep DEF Next
<1>3. IInv => ConnectBounded
  <2> SUFFICES ASSUME IInv PROVE ConnectBounded
    OBVIOUS
  <2>1. Cardinality(Answers) = Answered
    BY AnswersCounted DEF IInv
  <2>2. inprog => now <= ctime + 2 * Timeout
    BY DEF IInv, Watched
  <2>3. CASE inprog
    BY <2>1, <2>2, <2>3 DEF IInv, OneAnswer, ConnectBounded
  <2>4. CASE ~inprog
    BY <2>1, <2>4 DEF IInv, OneAnswer, ConnectBounded
  <2> QED BY <2>3, <2>4
<1> QED BY <1>1, <1>2, <1>3, PTL DEF Spec
=============================================================================
