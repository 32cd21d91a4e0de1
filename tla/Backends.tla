------------------------------ MODULE Backends ------------------------------
(***************************************************************************)
(* The multiplexer of a build: io_define.hpp picks epoll, kqueue, poll,    *)
(* select or the completion port.  The three that share module Mux are put *)
(* side by side, so that what they promise is stated once and checked of   *)
(* each.                                                                   *)
(***************************************************************************)
EXTENDS Poll, Kqueue, Select

vars == <<buildVars, muxVars, tabVars, kqVars, selVars>>

\* The state of the multiplexers that are not in the build.
NoPoll   == tab = <<>> /\ pollidx = [d \in Desc |-> 0]
NoKqueue == changes = <<>> /\ filt = [d \in Desc |-> [e \in Ev |-> "none"]]
NoSelect == bound = {} /\ pipe = 0

Init ==
  \/ mux = "poll" /\ PollInit /\ NoKqueue /\ NoSelect
  \/ mux = "kqueue" /\ KqInit /\ NoPoll /\ NoSelect
  \/ mux = "select" /\ SelInit /\ NoPoll /\ NoKqueue

InPoll   == mux = "poll" /\ UNCHANGED <<buildVars, kqVars, selVars>>
InKqueue == mux = "kqueue" /\ UNCHANGED <<buildVars, tabVars, selVars>>
InSelect == mux = "select" /\ UNCHANGED <<buildVars, tabVars, kqVars>>

Next ==
  \/ InPoll /\ PollNext
  \/ InKqueue /\ KqNext
  \/ InSelect /\ SelNext

LoopStep ==
  \/ InPoll /\ PollStep
  \/ InKqueue /\ KqStep
  \/ InSelect /\ SelStep

Spec == Init /\ [][Next]_vars

\* The loop thread runs and handlers return; nothing is assumed of the
\* application or the peer.
FairSpec == Spec /\ WF_vars(LoopStep)

-----------------------------------------------------------------------------
\* "run complete events", poll and select: an operation at the front of its
\* queue whose socket is ready is eventually completed.  kqueue loses the
\* changes behind one that fails, and with them the filter of a descriptor.
ReadyCompletes ==
  \A o \in Op : (mux \in {"poll", "select"} /\ AtFront(o)) ~> op[o].calls = 1
=============================================================================
