------------------------------ MODULE Pipeline ------------------------------
(***************************************************************************)
(* The filters of one channel (src/src/io/ip/tcp/pipeline/pipeline.cpp and *)
(* filter.cpp): a list linked in both directions, the events that go       *)
(* inbound along it and the writes that go outbound, and how a call is     *)
(* made in place inside the pipeline and posted to the engine everywhere   *)
(* else.  Of the channel there are the reference count and the two ends of *)
(* its life; the five inbound events differ in nothing the list sees.      *)
(*                                                                         *)
(* A filter that is called may forward the call or not, write, edit the    *)
(* list, or give references to threads, whose calls come at any time.      *)
(***************************************************************************)
EXTENDS Naturals, SequencesExt

CONSTANTS
  Filters,    \* filter objects
  Threads,    \* threads other than the engine's
  Loop,       \* the engine's thread
  NoFilter,   \* nullptr
  HeadEdits,  \* the list may be edited at its first filter
  MaxEvents,  \* bound: events the channel fires
  MaxEdits,   \* bound: edits
  MaxWrites   \* bound: writes, of all threads together

Caller == Threads \cup {Loop}
Link   == Filters \cup {NoFilter}

ASSUME PipelineAssumption ==
  /\ IsFiniteSet(Threads) /\ Loop \notin Threads /\ NoFilter \notin Filters /\ HeadEdits \in BOOLEAN
  /\ MaxEvents \in Nat /\ MaxEdits \in Nat /\ MaxWrites \in Nat

VARIABLES
  st,       \* the channel: "built", "open", "closing", "closed", "freed"
  _inbound, \* the pipeline's first filter
  inbound,  \* per filter: _inbound
  outbound, \* per filter: _outbound
  stack,    \* the filter calls the loop thread is in, innermost last
  q,        \* calls posted to the engine
  refs,     \* the channel's references
  hold,     \* the threads that own one of them
  chain,    \* history: the filters added and not removed, in their order
  freed,    \* history: the filters deleted, in that order
  written,  \* history: the writes that reached the channel
  writes,   \* history: per thread, the number of its last write
  events,   \* history: events fired
  edits     \* history: edits made

list    == <<_inbound, inbound, outbound, chain>>
history == <<written, writes, events, edits>>
vars    == <<st, list, stack, q, refs, hold, freed, history>>

\* A call of filter f: an inbound event, or a write, the n-th of thread t.
\* The last call of a posted closure is followed by release().
Call(k, f, t, n, last) == [k |-> k, f |-> f, t |-> t, n |-> n, last |-> last]

Close == Call("close", NoFilter, Loop, 0, FALSE)
End   == Call("end", NoFilter, Loop, 0, FALSE)

Init ==
  /\ st = "built" /\ _inbound = NoFilter
  /\ inbound = [f \in Filters |-> NoFilter] /\ outbound = [f \in Filters |-> NoFilter]
  /\ stack = <<>> /\ q = <<>> /\ refs = 0 /\ hold = [t \in Caller |-> FALSE]
  /\ chain = <<>> /\ freed = <<>>
  /\ written = <<>> /\ writes = [t \in Caller |-> 0] /\ events = 0 /\ edits = 0

-----------------------------------------------------------------------------
(* The list. *)

New(f)    == f \notin ToSet(chain) /\ inbound[f] = NoFilter /\ outbound[f] = NoFilter
Pos(f)    == CHOOSE i \in DOMAIN chain : chain[i] = f

\* Where a walk along the inbound links ends.
LastFilter == CHOOSE f \in Filters : /\ inbound[f] = NoFilter
                                     /\ f = _inbound \/ outbound[f] # NoFilter

\* build() adds its filters before the channel is opened.
add(f) ==
  /\ st = "built" /\ New(f)
  /\ chain' = Append(chain, f)
  /\ IF _inbound = NoFilter
     THEN _inbound' = f /\ UNCHANGED <<inbound, outbound>>
     ELSE /\ inbound' = [inbound EXCEPT ![LastFilter] = f]
          /\ outbound' = [outbound EXCEPT ![f] = LastFilter]
          /\ UNCHANGED _inbound
  /\ UNCHANGED <<st, stack, q, refs, hold, freed, history>>

\* Sets a link of f, if there is such a filter.
Set(link, f, to) == IF f = NoFilter THEN link ELSE [link EXCEPT ![f] = to]

\* "To be called in in_pipeline()."
MayEdit(base) ==
  /\ stack # <<>> /\ edits < MaxEdits
  /\ base \in ToSet(chain) /\ (HeadEdits \/ base # chain[1])

Edited == edits' = edits + 1 /\ UNCHANGED <<st, stack, q, refs, hold, freed, written, writes, events>>

\* Mutant: the old neighbour keeps its link to base.
add_inbound_one_way(base, f) ==
  /\ MayEdit(base) /\ New(f)
  /\ inbound' = [inbound EXCEPT ![f] = inbound[base], ![base] = f]
  /\ outbound' = [outbound EXCEPT ![f] = base]
  /\ chain' = InsertAt(chain, Pos(base) + 1, f)
  /\ Edited /\ UNCHANGED _inbound

add_inbound(base, f) ==
  /\ MayEdit(base) /\ New(f)
  /\ inbound' = [inbound EXCEPT ![f] = inbound[base], ![base] = f]
  /\ outbound' = Set([outbound EXCEPT ![f] = base], inbound[base], f)
  /\ chain' = InsertAt(chain, Pos(base) + 1, f)
  /\ Edited /\ UNCHANGED _inbound

add_outbound(base, f) ==
  /\ MayEdit(base) /\ New(f)
  /\ outbound' = [outbound EXCEPT ![f] = outbound[base], ![base] = f]
  /\ inbound' = Set([inbound EXCEPT ![f] = base], outbound[base], f)
  /\ chain' = InsertAt(chain, Pos(base), f)
  /\ Edited /\ UNCHANGED _inbound

\* The removed filter keeps its own links.
remove(f) ==
  /\ MayEdit(f)
  /\ outbound' = Set(outbound, inbound[f], outbound[f])
  /\ inbound' = Set(inbound, outbound[f], inbound[f])
  /\ _inbound' = IF f = _inbound THEN outbound[f] ELSE _inbound
  /\ chain' = RemoveAt(chain, Pos(f))
  /\ Edited

-----------------------------------------------------------------------------
(* Calls.  A frame of the stack is a call under way; its filter forwards   *)
(* it, which replaces the frame, or returns.                               *)

Top == Last(stack)

\* release(), c being the closures so far.
Release(c) ==
  /\ refs' = refs - 1
  /\ q' = IF refs = 1 THEN Append(c, End) ELSE c

\* The channel fires an event: _inbound gets it, if there is one.
fire_filter == stack' = IF _inbound = NoFilter THEN <<>> ELSE <<Call("event", _inbound, Loop, 0, FALSE)>>

fire_on_open ==
  /\ st = "built" /\ st' = "open" /\ refs' = 1 /\ fire_filter
  /\ UNCHANGED <<list, q, hold, freed, history>>

\* A read, a write or an error.
fire_on_event ==
  /\ st = "open" /\ stack = <<>> /\ events < MaxEvents
  /\ events' = events + 1 /\ fire_filter
  /\ UNCHANGED <<st, list, q, refs, hold, freed, written, writes, edits>>

\* close(), by a called filter or whoever has a reference: the close bit
\* falls and the rest is posted.
close(t) ==
  /\ st = "open"
  /\ hold[t] \/ (t = Loop /\ stack # <<>>)
  /\ st' = "closing" /\ q' = Append(q, Close)
  /\ UNCHANGED <<list, stack, refs, hold, freed, history>>

\* Mutant: any thread takes the way that is open to the loop's.
in_pipeline_any(t) == stack # <<>>

in_pipeline(t) == t = Loop /\ stack # <<>>

\* Mutant: a posted call has no reference of its own.
Make_no_ref(t, c) ==
  IF in_pipeline(t)
  THEN stack' = Append(stack, c) /\ UNCHANGED <<q, refs>>
  ELSE q' = Append(q, [c EXCEPT !.last = TRUE]) /\ UNCHANGED <<stack, refs>>

\* A call c made by t: in place, or posted with a reference of its own.
Make(t, c) ==
  IF in_pipeline(t)
  THEN stack' = Append(stack, c) /\ UNCHANGED <<q, refs>>
  ELSE q' = Append(q, [c EXCEPT !.last = TRUE]) /\ refs' = refs + 1 /\ UNCHANGED stack

\* Filter f makes a call on thread t: inside the pipeline the one that is
\* called, otherwise for a thread with a reference, or for a timer's callback.
MayFire(t, f) ==
  /\ f \in ToSet(chain)
  /\ IF t = Loop /\ stack # <<>> THEN f = Top.f /\ Len(stack) < 2 ELSE hold[t]

\* A closure for an outbound link that is null goes to the channel.
fire_filter_do_write(t, f) ==
  /\ MayFire(t, f) /\ FoldFunction(+, 0, writes) < MaxWrites
  /\ writes' = [writes EXCEPT ![t] = @ + 1]
  /\ Make(t, Call("write", outbound[f], t, writes[t] + 1, FALSE))
  /\ UNCHANGED <<st, list, hold, freed, written, events, edits>>

fire_filter_on(t, f) ==
  /\ MayFire(t, f) /\ inbound[f] # NoFilter /\ events < MaxEvents
  /\ events' = events + 1
  /\ Make(t, Call("event", inbound[f], t, 0, FALSE))
  /\ UNCHANGED <<st, list, hold, freed, written, writes, edits>>

\* The innermost call returns; after the last one of a closure, or of the
\* close, comes release().
Return ==
  /\ stack' = Front(stack)
  /\ IF Top.last THEN Release(q) ELSE UNCHANGED <<q, refs>>

\* The filter that is called forwards the call to its neighbour.
forward ==
  /\ stack # <<>> /\ Top.f # NoFilter
  /\ LET next == IF Top.k = "event" THEN inbound[Top.f] ELSE outbound[Top.f]
     IN  IF Top.k = "event" /\ next = NoFilter
         THEN Return
         ELSE stack' = [stack EXCEPT ![Len(stack)].f = next] /\ UNCHANGED <<q, refs>>
  /\ UNCHANGED <<st, list, hold, freed, history>>

\* Or it keeps the call to itself.
swallow ==
  /\ stack # <<>> /\ Top.f # NoFilter /\ Return
  /\ UNCHANGED <<st, list, hold, freed, history>>

\* channel()->do_write(): beyond the last filter, and unless the channel
\* was closed.
do_write ==
  /\ stack # <<>> /\ Top.f = NoFilter /\ Return
  /\ written' = IF st = "open" THEN Append(written, <<Top.t, Top.n>>) ELSE written
  /\ UNCHANGED <<st, list, hold, freed, writes, events, edits>>

\* A called filter gives t a reference, and t, or its timer, gives it back.
add_ref(t) ==
  /\ stack # <<>> /\ ~hold[t]
  /\ hold' = [hold EXCEPT ![t] = TRUE] /\ refs' = refs + 1
  /\ UNCHANGED <<st, list, stack, q, freed, history>>

release(t) ==
  /\ hold[t] /\ hold' = [hold EXCEPT ![t] = FALSE] /\ Release(q)
  /\ UNCHANGED <<st, list, stack, freed, history>>

-----------------------------------------------------------------------------
(* The engine runs a closure. *)

Posted == stack = <<>> /\ q # <<>> /\ q' = Tail(q)

run_call ==
  /\ Posted /\ Head(q) \notin {Close, End} /\ stack' = <<Head(q)>>
  /\ UNCHANGED <<st, list, refs, hold, freed, history>>

\* The error and the close event, and release() of what opening took.
fire_on_close ==
  /\ stack = <<>> /\ q # <<>> /\ Head(q) = Close /\ st' = "closed"
  /\ IF _inbound = NoFilter
     THEN Release(Tail(q)) /\ UNCHANGED stack
     ELSE /\ stack' = <<Call("event", _inbound, Loop, 0, TRUE)>>
          /\ q' = Tail(q) /\ UNCHANGED refs
  /\ UNCHANGED <<list, hold, freed, history>>

\* The filters a walk from _inbound meets, in that order.
Walk == CHOOSE s \in BoundedSeq(Filters, Len(chain) + edits) :
          /\ s = <<>> <=> _inbound = NoFilter
          /\ s # <<>> => s[1] = _inbound /\ inbound[Last(s)] = NoFilter
          /\ \A i \in 1..(Len(s) - 1) : s[i + 1] = inbound[s[i]]

\* filter_on_end_reference: every filter deletes itself, then the channel.
fire_on_end_reference ==
  /\ Posted /\ Head(q) = End /\ st' = "freed" /\ freed' = Walk
  /\ UNCHANGED <<list, stack, refs, hold, history>>

Next ==
  \/ \E f \in Filters : add(f)
  \/ \E b, f \in Filters : add_inbound(b, f)
  \/ \E b, f \in Filters : add_outbound(b, f)
  \/ \E f \in Filters : remove(f)
  \/ fire_on_open
  \/ fire_on_event
  \/ \E t \in Caller : close(t)
  \/ fire_on_close
  \/ \E t \in Caller, f \in Filters : fire_filter_do_write(t, f)
  \/ \E t \in Caller, f \in Filters : fire_filter_on(t, f)
  \/ forward
  \/ swallow
  \/ do_write
  \/ \E t \in Caller : add_ref(t)
  \/ \E t \in Caller : release(t)
  \/ run_call
  \/ fire_on_end_reference

Spec == Init /\ [][Next]_vars

-----------------------------------------------------------------------------
\* However the list was edited while events went along it, its inbound links
\* from _inbound, and its outbound links backwards, join exactly the filters
\* that were added and not removed, in their order.
ListIsChain ==
  LET n == Len(chain)
  IN  /\ _inbound = IF n = 0 THEN NoFilter ELSE chain[1]
      /\ \A i \in 1..n :
           /\ inbound[chain[i]] = IF i = n THEN NoFilter ELSE chain[i + 1]
           /\ outbound[chain[i]] = IF i = 1 THEN NoFilter ELSE chain[i - 1]

\* The filters are deleted each once and after every call: none is left
\* posted, or under way, or to be made by a thread with a reference.
DeletedLast ==
  st = "freed" =>
    /\ ToSet(freed) = ToSet(chain) /\ Len(freed) = Len(chain)
    /\ refs = 0 /\ stack = <<>> /\ q = <<>> /\ \A t \in Caller : ~hold[t]

\* What a thread other than the engine's writes reaches the channel in the
\* order it was written.  (The engine's own thread has no such promise: what
\* it writes in a timer's callback is posted, and overtaken by what it writes
\* in the pipeline.)
WritesOrdered ==
  \A i, j \in DOMAIN written :
    i < j /\ written[i][1] = written[j][1] /\ written[i][1] # Loop => written[i][2] < written[j][2]
=============================================================================
