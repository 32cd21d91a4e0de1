----------------------------- MODULE Completion -----------------------------
(***************************************************************************)
(* What every multiplexer promises the socket layer, whatever it asks the  *)
(* kernel for.  A descriptor is opened, has operations started on either   *)
(* direction, and is closed.  The operations of one direction are answered *)
(* in the order they were started, each exactly once, also those that are  *)
(* left when the descriptor is closed; none is started on a descriptor     *)
(* that is not open; a closed descriptor stays closed.                     *)
(***************************************************************************)
EXTENDS Naturals, Sequences

CONSTANTS Desc, Ev, Op

VARIABLES
  st,     \* descriptors: "none", "open", "closed"
  pend,   \* per descriptor and direction: started and unanswered, in order
  calls   \* how often each operation's handler was called

vars == <<st, pend, calls>>

Init ==
  /\ st = [d \in Desc |-> "none"]
  /\ pend = [d \in Desc |-> [e \in Ev |-> <<>>]]
  /\ calls = [o \in Op |-> 0]

Idle(o) == calls[o] = 0 /\ \A d \in Desc, e \in Ev : \A i \in DOMAIN pend[d][e] : pend[d][e][i] # o

Open(d) ==
  /\ st[d] = "none" /\ st' = [st EXCEPT ![d] = "open"]
  /\ UNCHANGED <<pend, calls>>

Close(d) ==
  /\ st[d] = "open" /\ st' = [st EXCEPT ![d] = "closed"]
  /\ UNCHANGED <<pend, calls>>

Start(d, e, o) ==
  /\ st[d] = "open" /\ Idle(o)
  /\ pend' = [pend EXCEPT ![d][e] = Append(@, o)]
  /\ UNCHANGED <<st, calls>>

\* A connect, or a datagram written to a socket object without descriptor.
OpenStart(d, e, o) ==
  /\ st[d] = "none" /\ Idle(o)
  /\ st' = [st EXCEPT ![d] = "open"]
  /\ pend' = [pend EXCEPT ![d][e] = <<o>>]
  /\ UNCHANGED calls

Finish(d, e) ==
  /\ pend[d][e] # <<>>
  /\ pend' = [pend EXCEPT ![d][e] = Tail(@)]
  /\ calls' = [calls EXCEPT ![Head(pend[d][e])] = @ + 1]

\* A call that is answered without ever reaching a descriptor.
Answer(o) ==
  /\ Idle(o) /\ calls' = [calls EXCEPT ![o] = 1]
  /\ UNCHANGED <<st, pend>>

Next ==
  \/ \E d \in Desc : Open(d) \/ Close(d)
  \/ \E d \in Desc, e \in Ev, o \in Op : Start(d, e, o) \/ OpenStart(d, e, o)
  \/ \E d \in Desc, e \in Ev : Finish(d, e) /\ UNCHANGED st
  \/ \E d, a \in Desc, e \in Ev : st[a] = "none" /\ Finish(d, e) /\ st' = [st EXCEPT ![a] = "open"]
  \/ \E o \in Op : Answer(o)

Spec == Init /\ [][Next]_vars
=============================================================================
