-------------------------------- MODULE Poll --------------------------------
(***************************************************************************)
(* The poll(2) multiplexer (src/src/io/poll.cpp).  On top of Mux it keeps  *)
(* the table handed to poll(): _events and _desc, filled and emptied by    *)
(* closures that bind() and unbind() post, with each descriptor's position *)
(* stored in the descriptor.  Unbinding moves the last entry.  The entry 0 *)
(* of the pipe is left out; positions start at 1.                          *)
(***************************************************************************)
EXTENDS Mux, Functions

VARIABLES
  tab,     \* _events and _desc: descriptor, directions polled for
  pollidx  \* each descriptor's position in tab; 0 before it has one

tabVars == <<tab, pollidx>>

PollInit == MuxInit /\ lpc = "wait" /\ tab = <<>> /\ pollidx = [d \in Desc |-> 0]

\* bind() posts the closure that adds the entry.
poll_bind(d) == <<BindC(d)>>

\* The directions poll() reports of a descriptor: those its entry asks for.
PollReported(d) ==
  UNION {tab[i].ev \cap Mask(d) : i \in {j \in DOMAIN tab : tab[j].desc = d}}

poll_run == wait([d \in Desc |-> PollReported(d)]) /\ UNCHANGED tabVars

\* The loop over _events: complete( this , _events[i].revents ).
poll_event(d) == run_event(d, evs[d]) /\ UNCHANGED tabVars

poll_take    == run_take("wait") /\ UNCHANGED tabVars
poll_drained == run_drained("wait") /\ UNCHANGED tabVars

\* The closure of bind.
poll_op_bind ==
  /\ Next_op("bind") /\ active' = active - 1
  /\ LET d == Head(ops).desc IN
       /\ tab' = Append(tab, [desc |-> d, ev |-> Ev])
       /\ pollidx' = [pollidx EXCEPT ![d] = Len(tab) + 1]
  /\ UNCHANGED <<opq, loopVars, handle, desc, sock, op>>

\* Mutant: the moved entry's descriptor keeps its old position.
remove_stale_index(i) ==
  LET n == Len(tab) IN
  /\ tab' = [j \in 1..(n - 1) |-> IF j = i THEN tab[n] ELSE tab[j]]
  /\ UNCHANGED pollidx

\* Entry i is overwritten with the last one, which is removed.
remove(i) ==
  LET n == Len(tab) IN
  /\ tab' = [j \in 1..(n - 1) |-> IF j = i THEN tab[n] ELSE tab[j]]
  /\ pollidx' = IF i < n THEN [pollidx EXCEPT ![tab[n].desc] = i] ELSE pollidx

\* The closure of unbind searches the table for the descriptor.
poll_unbind ==
  /\ op_run_unbind
  /\ LET at == {i \in DOMAIN tab : tab[i].desc = Head(ops).desc} IN
       IF at = {} THEN UNCHANGED tabVars ELSE \E i \in at : remove(i)

poll_accepted ==
  /\ \E c \in NewDesc : dispatch_accepted(c, poll_bind(c))
  /\ UNCHANGED tabVars

\* Mutant: poll for what was dispatched instead of what is still queued.
PollWanted_nothing(d) == {}

\* The directions with operations queued.
PollWanted(d) == {e \in Ev : desc[d].q[e] # <<>>}

\* The end of complete(): the entry at the descriptor's position, whatever
\* is there, gets the descriptor's directions.
poll_dispatch_end ==
  /\ dispatch_end
  /\ tab' = [tab EXCEPT ![pollidx[cur.desc]].ev = PollWanted(cur.desc)]
  /\ UNCHANGED pollidx

-----------------------------------------------------------------------------
PollCall ==
  \/ PlainCall /\ UNCHANGED tabVars
  \/ \E d \in NewDesc : BindingCall(d, poll_bind(d)) /\ UNCHANGED tabVars

PollStep ==
  \/ poll_run
  \/ \E d \in Desc : poll_event(d)
  \/ poll_take
  \/ poll_drained
  \/ poll_op_bind
  \/ poll_unbind
  \/ poll_accepted
  \/ poll_dispatch_end
  \/ PlainStep /\ UNCHANGED tabVars

PollNext == PollCall \/ PollStep \/ (KernelStep /\ UNCHANGED tabVars)

-----------------------------------------------------------------------------
\* poll: the table is exactly the descriptors whose bind closure ran and whose
\* unbind closure did not, and each descriptor knows its position, whatever
\* entries were moved meanwhile: complete() never writes another
\* descriptor's entry, and none is polled after it was deleted.
TableIndexed ==
  mux = "poll" =>
    /\ \A i \in DOMAIN tab : desc[tab[i].desc].st = "live" /\ pollidx[tab[i].desc] = i
    /\ \A d \in Live : BindC(d) \notin Range(ops \o opq) /\ desc[d].fd
                         => \E i \in DOMAIN tab : tab[i].desc = d
    /\ cur # Null => \E i \in DOMAIN tab : tab[i].desc = cur.desc
=============================================================================
