---------------------------- MODULE MCEpollLive ----------------------------
(* Instances of Epoll for TLC with the states of two applications, so that *)
(* each can have what it needs: a server two descriptors, a client every   *)
(* kind of stream operation on one.  What leaves both is a call of the     *)
(* application, never a step of the loop, so fairness is not affected.     *)
EXTENDS Epoll, TLC

Starts(kinds) == \A o \in Op : op[o].kind \in kinds \cup {"none", "dropped"}

\* Only the loop thread calls.
Server == Starts({"accept", "read"}) /\ \A t \in Threads : pc[t] = "idle"

Client ==
  /\ Starts({"task", "connect", "read", "write"})
  /\ \A d \in Desc : sock[d].st # "listening"
  /\ Cardinality({d \in Desc : desc[d].st # "new"}) <= 1

Application == Server \/ Client
=============================================================================
