-------------------------- MODULE MCCompletionPort --------------------------
(* Instances of CompletionPort for TLC, with the states of three           *)
(* applications.                                                           *)
EXTENDS CompletionPort, TLC

\* The kinds of operation an application starts and of descriptor it makes.
Within(kinds, types) ==
  /\ \A o \in Op : op[o].kind \in kinds \cup {"none"}
  /\ \A d \in Desc : desc[d].type \in types \cup {"none", "connecting", "stream"}

Server    == Within({"accept", "readn", "write"}, {"listen"})
Client    == Within({"task", "connect", "read"}, {})
Datagrams == Within({"recv", "send"}, {"dgram"})

Application == Server \/ Client \/ Datagrams

\* Nothing in CompletionPort tells two operations, sockets or descriptors
\* apart.
Symmetry == Permutations(Op) \cup Permutations(Sock) \cup Permutations(Desc)
=============================================================================
