------------------------------- MODULE Slist -------------------------------
(***************************************************************************)
(* slist::queue (src/include/tcode/slist.hpp): the intrusive list that     *)
(* every queue of operations is, here as several queues and the nodes that *)
(* move between them.  The other modules take it for a sequence; this one  *)
(* shows that it is one.  (Nothing makes a queue from a chain of nodes or  *)
(* copies one.)                                                            *)
(***************************************************************************)
EXTENDS Naturals, Sequences

CONSTANTS
  Node,
  Queue,
  NoNode  \* nullptr

ASSUME SlistAssumption == NoNode \notin Node

VARIABLES
  head,  \* per queue: _head
  tail,  \* per queue: _tail
  next,  \* per node: _next
  seq    \* what each queue stands for

slistVars == <<head, tail, next, seq>>

SlistInit ==
  /\ head = [q \in Queue |-> NoNode] /\ tail = [q \in Queue |-> NoNode]
  /\ next = [n \in Node |-> NoNode]
  /\ seq = [q \in Queue |-> <<>>]

empty(q) == head[q] = NoNode

Free(n) == \A q \in Queue : \A i \in DOMAIN seq[q] : seq[q][i] # n

push_back(q, n) ==
  /\ Free(n)
  /\ head' = IF empty(q) THEN [head EXCEPT ![q] = n] ELSE head
  /\ tail' = [tail EXCEPT ![q] = n]
  /\ next' = IF empty(q) THEN [next EXCEPT ![n] = NoNode]
             ELSE [next EXCEPT ![tail[q]] = n, ![n] = NoNode]
  /\ seq' = [seq EXCEPT ![q] = Append(@, n)]

\* The first node of a list is taken to have no next.
push_front(q, n) ==
  /\ Free(n)
  /\ head' = [head EXCEPT ![q] = n]
  /\ IF empty(q) THEN tail' = [tail EXCEPT ![q] = n] /\ UNCHANGED next
     ELSE next' = [next EXCEPT ![n] = head[q]] /\ UNCHANGED tail
  /\ seq' = [seq EXCEPT ![q] = <<n>> \o @]

\* Mutant: the node that leaves keeps its next.
pop_front_keeps_next(q) ==
  /\ ~empty(q)
  /\ head' = [head EXCEPT ![q] = IF @ = tail[q] THEN NoNode ELSE next[@]]
  /\ tail' = [tail EXCEPT ![q] = IF head[q] = @ THEN NoNode ELSE @]
  /\ seq' = [seq EXCEPT ![q] = Tail(@)]
  /\ UNCHANGED next

pop_front(q) ==
  /\ ~empty(q)
  /\ IF head[q] = tail[q]
     THEN /\ head' = [head EXCEPT ![q] = NoNode] /\ tail' = [tail EXCEPT ![q] = NoNode]
          /\ UNCHANGED next
     ELSE /\ head' = [head EXCEPT ![q] = next[@]] /\ next' = [next EXCEPT ![head[q]] = NoNode]
          /\ UNCHANGED tail
  /\ seq' = [seq EXCEPT ![q] = Tail(@)]

\* All of r goes behind q.
splice(q, r) ==
  /\ q # r /\ ~empty(r)
  /\ head' = [head EXCEPT ![q] = IF empty(q) THEN head[r] ELSE @, ![r] = NoNode]
  /\ tail' = [tail EXCEPT ![q] = tail[r], ![r] = NoNode]
  /\ next' = IF empty(q) THEN next ELSE [next EXCEPT ![tail[q]] = head[r]]
  /\ seq' = [seq EXCEPT ![q] = @ \o seq[r], ![r] = <<>>]

\* q = std::move( r ), q being a new, empty queue as it is at every use.
move_queue(q, r) ==
  /\ q # r /\ empty(q)
  /\ head' = [head EXCEPT ![q] = head[r], ![r] = NoNode]
  /\ tail' = [tail EXCEPT ![q] = tail[r], ![r] = NoNode]
  /\ seq' = [seq EXCEPT ![q] = seq[r], ![r] = <<>>]
  /\ UNCHANGED next

SlistNext ==
  \/ \E q \in Queue, n \in Node : push_back(q, n)
  \/ \E q \in Queue, n \in Node : push_front(q, n)
  \/ \E q \in Queue : pop_front(q)
  \/ \E q, r \in Queue : splice(q, r)
  \/ \E q, r \in Queue : move_queue(q, r)

SlistSpec == SlistInit /\ [][SlistNext]_slistVars

-----------------------------------------------------------------------------
\* The links of q lead through s, from _head to _tail, and end there.
Links(q, s) ==
  /\ head[q] = IF s = <<>> THEN NoNode ELSE s[1]
  /\ tail[q] = IF s = <<>> THEN NoNode ELSE s[Len(s)]
  /\ \A i \in DOMAIN s : next[s[i]] = IF i = Len(s) THEN NoNode ELSE s[i + 1]

\* After any calls the links of every queue lead through exactly its nodes, in
\* order, and a node in no queue has no next: push_front into an empty queue
\* would bring a stale one, and what it leads to, back into the queue.
LinksAreSequences ==
  /\ \A q \in Queue : Links(q, seq[q])
  /\ \A n \in Node : Free(n) => next[n] = NoNode
=============================================================================
