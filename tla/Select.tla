------------------------------- MODULE Select -------------------------------
(***************************************************************************)
(* The select(2) multiplexer (src/src/io/select.cpp).  run() copies the    *)
(* two fd sets before it fills the copies, so select() itself is given the *)
(* wake-up pipe and nothing else, and after it returns every descriptor    *)
(* with an operation is found in the copies.  The pipe is never read.      *)
(* What makes operations complete is that the loop spins from the first    *)
(* byte in the pipe on.                                                    *)
(***************************************************************************)
EXTENDS Mux

CONSTANT PipeCap  \* bytes the wake-up pipe holds before a write blocks

VARIABLES
  bound,  \* _desc
  pipe    \* bytes in the wake-up pipe

selVars == <<bound, pipe>>

SelInit == MuxInit /\ lpc = "wait" /\ bound = {} /\ pipe = 0

\* wake_up, n times: a write to a full pipe does not return.
wake_up(n) == pipe + n <= PipeCap /\ pipe' = pipe + n

sel_bind(d) == <<BindC(d)>>

-----------------------------------------------------------------------------
SelWanted(d) == IF d \in bound THEN {e \in Ev : desc[d].q[e] # <<>>} ELSE {}

\* select() watches only the pipe; FD_ISSET looks at the copies.
select_run ==
  /\ lpc = "wait" /\ active > 0 /\ pipe > 0
  /\ evs' = [d \in Desc |-> SelWanted(d)] /\ wk' = TRUE /\ lpc' = "events"
  /\ UNCHANGED <<queueVars, ops, cur, handle, desc, sock, op, selVars>>

\* complete( this , ops[i] ), one direction at a time.
sel_event(d, e) == run_event(d, {e}) /\ UNCHANGED selVars

sel_take    == run_take("wait") /\ UNCHANGED selVars
sel_drained == run_drained("wait") /\ UNCHANGED selVars

sel_op_bind ==
  /\ Next_op("bind") /\ active' = active - 1
  /\ bound' = bound \cup {Head(ops).desc}
  /\ UNCHANGED <<opq, loopVars, handle, desc, sock, op, pipe>>

\* release() wakes the loop up once for all it aborts.
Posted == IF opq' = opq THEN 0 ELSE 1

sel_unbind       == op_run_unbind /\ wake_up(Posted) /\ bound' = bound \ {Head(ops).desc}
sel_accepted     == \E c \in NewDesc : dispatch_accepted(c, sel_bind(c)) /\ wake_up(1) /\ UNCHANGED bound
sel_dispatch_end == dispatch_end /\ wake_up(Posted) /\ UNCHANGED bound

-----------------------------------------------------------------------------
\* Every closure posted is a byte in the pipe.
SelCall ==
  /\ PlainCall \/ \E d \in NewDesc : BindingCall(d, sel_bind(d))
  /\ wake_up(Len(opq') - Len(opq)) /\ UNCHANGED bound

SelStep ==
  \/ select_run
  \/ \E d \in Desc, e \in Ev : sel_event(d, e)
  \/ sel_take
  \/ sel_drained
  \/ sel_op_bind
  \/ sel_unbind
  \/ sel_accepted
  \/ sel_dispatch_end
  \/ PlainStep /\ UNCHANGED selVars

SelNext == SelCall \/ SelStep \/ (KernelStep /\ UNCHANGED selVars)
=============================================================================
