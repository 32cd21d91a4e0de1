------------------------------ MODULE MCEpoll ------------------------------
(* Instances of Epoll for TLC.                                             *)
EXTENDS Epoll, TLC

\* Nothing in Epoll tells two operations, threads, sockets or descriptors
\* apart, so the safety runs identify states up to their names.
Symmetry == Permutations(Op) \cup Permutations(Threads)
              \cup Permutations(Sock) \cup Permutations(Desc)
=============================================================================
