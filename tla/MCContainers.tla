---------------------------- MODULE MCContainers ----------------------------
(* The two containers for TLC, side by side: a behaviour uses one of them. *)
EXTENDS Slist, ByteBuffer, TLC

VARIABLE which

MCInit == SlistInit /\ ByteInit /\ which \in {"slist", "byte_buffer"}

MCNext ==
  \/ which = "slist" /\ SlistNext /\ UNCHANGED <<byteVars, which>>
  \/ which = "byte_buffer" /\ ByteNext /\ UNCHANGED <<slistVars, which>>

MCSpec == MCInit /\ [][MCNext]_<<slistVars, byteVars, which>>

\* Buffers are interchangeable, and so are blocks.
Symmetry == Permutations(Buffer) \cup Permutations(Block)
=============================================================================
