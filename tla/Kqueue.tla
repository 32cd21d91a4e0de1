------------------------------- MODULE Kqueue -------------------------------
(***************************************************************************)
(* The kqueue multiplexer (src/src/io/kqueue.cpp).  bind() and every       *)
(* dispatch append to a list of changes, _changes, which run() hands to    *)
(* kevent() before it waits.  kevent() stops at the first change that      *)
(* fails, there being no room for an error event, and the list is cleared. *)
(* A closed fd takes its filters with it.                                  *)
(***************************************************************************)
EXTENDS Mux, SequencesExt

VARIABLES
  changes,  \* _changes: descriptor, filter, "add", "enable" or "disable"
  filt      \* the kernel's filters: "none", "on" or "off"

kqVars == <<changes, filt>>

Change(d, e, f) == [desc |-> d, ev |-> e, flag |-> f]

KqInit ==
  /\ MuxInit /\ lpc = "change"
  /\ changes = <<>> /\ filt = [d \in Desc |-> [e \in Ev |-> "none"]]

\* _change() for both filters of a new descriptor; nobody is woken up.
kq_bind(d) ==
  /\ changes' = changes \o <<Change(d, "read", "add"), Change(d, "write", "add")>>
  /\ UNCHANGED filt

-----------------------------------------------------------------------------
\* kevent() on one change: a closed fd, or a filter that was never added, is
\* an error, and no later change is looked at.
kevent_apply(state, c) ==
  IF ~state.ok \/ ~desc[c.desc].fd \/ (c.flag # "add" /\ state.filt[c.desc][c.ev] = "none")
  THEN [state EXCEPT !.ok = FALSE]
  ELSE [state EXCEPT !.filt[c.desc][c.ev] = IF c.flag = "disable" THEN "off" ELSE "on"]

\* The head of run(), under _lock.
run_change ==
  /\ lpc = "change" /\ active > 0
  /\ filt' = FoldLeft(kevent_apply, [ok |-> TRUE, filt |-> filt], changes).filt
  /\ changes' = <<>> /\ lpc' = "wait"
  /\ UNCHANGED <<queueVars, ops, wk, evs, cur, handle, desc, sock, op>>

KqReported(d) == {e \in Mask(d) : filt[d][e] = "on"}

kq_run == wait([d \in Desc |-> KqReported(d)]) /\ UNCHANGED kqVars

\* kevent() times out: run() returns and is called again.
kq_timeout ==
  /\ lpc = "wait" /\ opq = <<>> /\ \A d \in Desc : KqReported(d) = {}
  /\ lpc' = "change"
  /\ UNCHANGED <<queueVars, ops, wk, evs, cur, handle, desc, sock, op, kqVars>>

\* One kevent per direction.
kq_event(d, e) == run_event(d, {e}) /\ UNCHANGED kqVars

kq_take    == run_take("change") /\ UNCHANGED kqVars
kq_drained == run_drained("change") /\ UNCHANGED kqVars

\* The closure of unbind: closing the fd removes its filters.
kq_unbind ==
  /\ op_run_unbind
  /\ filt' = [filt EXCEPT ![Head(ops).desc] = [e \in Ev |-> "none"]]
  /\ UNCHANGED changes

kq_accepted == \E c \in NewDesc : dispatch_accepted(c, <<>>) /\ kq_bind(c)

KqWanted(d, e) == IF desc[d].q[e] = <<>> THEN "disable" ELSE "enable"

\* The end of descriptor_dispatch: both filters follow their queues.
kq_dispatch_end ==
  /\ dispatch_end
  /\ LET d == cur.desc IN
       changes' = changes \o <<Change(d, "read", KqWanted(d, "read")), Change(d, "write", KqWanted(d, "write"))>>
  /\ UNCHANGED filt

-----------------------------------------------------------------------------
KqCall ==
  \/ PlainCall /\ UNCHANGED kqVars
  \/ \E d \in NewDesc : BindingCall(d, <<>>) /\ kq_bind(d)

KqStep ==
  \/ run_change
  \/ kq_run
  \/ kq_timeout
  \/ \E d \in Desc, e \in Ev : kq_event(d, e)
  \/ kq_take
  \/ kq_drained
  \/ kq_unbind
  \/ kq_accepted
  \/ kq_dispatch_end
  \/ PlainStep /\ UNCHANGED kqVars

KqNext == KqCall \/ KqStep \/ (KernelStep /\ UNCHANGED kqVars)
=============================================================================
