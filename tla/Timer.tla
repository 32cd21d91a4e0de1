------------------------------- MODULE Timer -------------------------------
(***************************************************************************)
(* Timers: io::timer (src/src/io/timer.cpp), the reference-counted         *)
(* timer::id behind it (timer_id.cpp), and the engine's list of them       *)
(* (timer_schedule, timer_cancel, timer_drain, next_wake_up_time and the   *)
(* loop of engine::run in engine.cpp).                                     *)
(*                                                                         *)
(* The multiplexer is reduced to what the engine uses of it: a FIFO queue  *)
(* of closures that any thread adds to and that ends the loop's wait when  *)
(* it is not empty, which module Epoll establishes.  A step is a           *)
(* call by one thread, or a stretch of the loop thread between two         *)
(* callbacks.                                                              *)
(***************************************************************************)
EXTENDS Integers, Sequences, FiniteSets

CONSTANTS
  Threads,  \* threads other than the one inside engine::run
  Loop,     \* the thread that calls engine::run
  Id,       \* timer::id objects, each with one timer object, created once
  Null,
  Delays,   \* what callers pass to due_time( timespan )
  Reps,     \* what callers pass to repeat
  Ms,       \* clock ticks of a millisecond, the unit of a wait
  Second,   \* clock ticks of the wait when there is no timer
  Rearm,    \* whether callers set or fire a timer that is still scheduled
  MaxTime,  \* bound: the clock stops here
  MaxFires, \* bound: calls of fire, for each timer
  QMax      \* bound: closures waiting when a caller adds one

ASSUME ThreadAssumption == Loop \notin Threads
ASSUME NullAssumption == Null \notin Id \cup Threads \cup {Loop}
ASSUME TimeAssumption ==
  /\ Delays \subseteq Nat /\ Reps \subseteq Nat
  /\ Ms \in Nat \ {0} /\ Second \in Nat \ {0}
  /\ MaxTime \in Nat /\ MaxFires \in Nat /\ QMax \in Nat
  /\ Rearm \in BOOLEAN

Caller == Threads \cup {Loop}

VARIABLES
  now,     \* timestamp::now()
  timers,  \* engine::_timers
  q,       \* the multiplexer's closures, the batch being run first
  batch,   \* how many of them epoll::run still has to run
  tid,     \* engine::_run_thread_id
  lpc,     \* where the loop thread is
  wake,    \* when the wait of epoll::run times out, 0 outside it
  ts,      \* timer_drain's timestamp, 0 outside it
  cur,     \* the timer whose callback is running
  id,      \* the timer::id objects
  owner,   \* whether the timer object still exists
  pc,      \* per thread: the timer it is about to cancel
  fires,   \* history: calls of fire
  ends     \* history: fires that ended, by their last callback

engineVars == <<timers, q, batch, tid>>
loopVars   == <<lpc, wake, ts, cur>>
history    == <<fires, ends>>
vars == <<now, engineVars, loopVars, id, owner, pc, history>>

-----------------------------------------------------------------------------
Closure == [k: {"schedule", "cancel"}, id: Id]
IdType  == [st: {"new", "live", "freed"}, ref: Nat, due: Nat, rep: Nat]

Freed   == [st |-> "freed", ref |-> 0, due |-> 0, rep |-> 0]

\* timer::id::add_ref, and n calls of release: the last one deletes.
AddRef(r)     == [r EXCEPT !.ref = @ + 1]
Release(r, n) == IF r.ref = n THEN Freed ELSE [r EXCEPT !.ref = @ - n]

Elems(s)  == {s[k] : k \in DOMAIN s}
Occ(s, x) == Cardinality({k \in DOMAIN s : s[k] = x})

\* repeat.total_milliseconds() != 0
Repeats(i) == id[i].rep \div Ms # 0

\* Fired, and its last callback not yet due or not yet called.
Scheduled(i) ==
  \/ i \in Elems(timers)
  \/ [k |-> "schedule", id |-> i] \in Elems(q)
  \/ lpc = "drain_cb" /\ cur = i /\ Repeats(i)

Init ==
  /\ now = 0 /\ timers = <<>> /\ q = <<>> /\ batch = 0 /\ tid = Null
  /\ lpc = "out" /\ wake = 0 /\ ts = 0 /\ cur = Null
  /\ id = [i \in Id |-> [st |-> "new", ref |-> 0, due |-> 0, rep |-> 0]]
  /\ owner = [i \in Id |-> FALSE]
  /\ pc = [t \in Caller |-> Null]
  /\ fires = [i \in Id |-> 0] /\ ends = [i \in Id |-> 0]

-----------------------------------------------------------------------------
(* The list, sorted by due time: std::upper_bound finds the place after    *)
(* the last timer that is not due later.  On a list that is not sorted the *)
(* search may end anywhere.                                                *)

Sorted(s, r) == \A j, k \in DOMAIN s : j < k => r[s[j]].due <= r[s[k]].due

Places(s, r, i) ==
  {p \in 0..Len(s) :
     Sorted(s, r) => /\ \A k \in 1..p : r[s[k]].due <= r[i].due
                     /\ \A k \in (p + 1)..Len(s) : r[i].due < r[s[k]].due}

\* Mutant: new timers go to the front.
upper_bound_front(s, r, i) == {0}
upper_bound(s, r, i) == Places(s, r, i)

InsertAfter(s, p, i) == SubSeq(s, 1, p) \o <<i>> \o SubSeq(s, p + 1, Len(s))
EraseAt(s, p)        == SubSeq(s, 1, p - 1) \o SubSeq(s, p + 1, Len(s))

\* timer_schedule on the loop thread: r is id before the call.
ScheduleIn(r, i) ==
  /\ \E p \in upper_bound(timers, r, i) : timers' = InsertAfter(timers, p, i)
  /\ id' = [r EXCEPT ![i] = AddRef(@)]

-----------------------------------------------------------------------------
(* The timer object, on any thread.  The loop thread calls it outside run  *)
(* and inside callbacks.                                                   *)

MayCall(t) == pc[t] = Null /\ (t = Loop => lpc \in {"out", "drain_cb", "cancel_cb"})

in_run_loop(t) == tid = t

new_timer(t, i) ==
  /\ MayCall(t) /\ id[i].st = "new"
  /\ id' = [id EXCEPT ![i].st = "live", ![i].ref = 1]
  /\ owner' = [owner EXCEPT ![i] = TRUE]
  /\ UNCHANGED <<now, engineVars, loopVars, pc, history>>

\* The caller owns the object: no thread is inside a call on it.
delete_timer(t, i) ==
  /\ MayCall(t) /\ owner[i] /\ \A u \in Caller : pc[u] # i
  /\ id' = [id EXCEPT ![i] = Release(@, 1)]
  /\ owner' = [owner EXCEPT ![i] = FALSE]
  /\ UNCHANGED <<now, engineVars, loopVars, pc, history>>

\* due_time( now() + d ).repeat( r )
due_time(t, i, d, r) ==
  /\ MayCall(t) /\ owner[i] /\ (Scheduled(i) => Rearm)
  /\ id' = [id EXCEPT ![i].due = now + d, ![i].rep = r]
  /\ UNCHANGED <<now, engineVars, loopVars, owner, pc, history>>

execute(c) == q' = Append(q, c)

\* The bound on closures, those a cancel is about to post included.
Room == Len(q) + Cardinality({t \in Caller : pc[t] # Null}) < QMax

\* Mutant: the closure holds no reference.
fire_posted_no_ref(i) ==
  /\ execute([k |-> "schedule", id |-> i])
  /\ UNCHANGED <<id, timers>>

\* timer_schedule off the loop: a closure with a reference.
fire_posted(i) ==
  /\ execute([k |-> "schedule", id |-> i])
  /\ id' = [id EXCEPT ![i] = AddRef(@)]
  /\ UNCHANGED timers

fire(t, i) ==
  /\ MayCall(t) /\ owner[i] /\ fires[i] < MaxFires /\ (Scheduled(i) => Rearm)
  /\ fires' = [fires EXCEPT ![i] = @ + 1]
  /\ \/ in_run_loop(t) /\ ScheduleIn(id, i) /\ UNCHANGED q
     \/ ~in_run_loop(t) /\ Room /\ fire_posted(i)
  /\ UNCHANGED <<now, batch, tid, loopVars, owner, pc, ends>>

\* timer::cancel looks at the count first ...
cancel(t, i) ==
  /\ MayCall(t) /\ owner[i] /\ Room /\ id[i].ref # 1
  /\ pc' = [pc EXCEPT ![t] = i]
  /\ UNCHANGED <<now, engineVars, loopVars, id, owner, history>>

\* ... and then engine::timer_cancel takes a reference and posts.
timer_cancel(t) ==
  /\ pc[t] # Null
  /\ execute([k |-> "cancel", id |-> pc[t]])
  /\ id' = [id EXCEPT ![pc[t]] = AddRef(@)]
  /\ pc' = [pc EXCEPT ![t] = Null]
  /\ UNCHANGED <<now, timers, batch, tid, loopVars, owner, history>>

-----------------------------------------------------------------------------
(* engine::run. *)

At(l) == lpc = l /\ pc[Loop] = Null

run ==
  /\ At("out")
  /\ tid' = Loop /\ lpc' = "check"
  /\ UNCHANGED <<now, timers, q, batch, wake, ts, cur, id, owner, pc, history>>

\* Mutant: rounded up.
next_wake_up_time_up ==
  IF timers = <<>> THEN now + Second
  ELSE IF id[Head(timers)].due <= now THEN now
  ELSE now + ((id[Head(timers)].due - now + Ms - 1) \div Ms) * Ms

\* Mutant: the back of the list instead of the front.
next_wake_up_time_back ==
  IF timers = <<>> THEN now + Second
  ELSE IF id[timers[Len(timers)]].due <= now THEN now
  ELSE now + ((id[timers[Len(timers)]].due - now) \div Ms) * Ms

\* In milliseconds, rounded down: the loop wakes early, never late.
next_wake_up_time ==
  IF timers = <<>> THEN now + Second
  ELSE IF id[Head(timers)].due <= now THEN now
  ELSE now + ((id[Head(timers)].due - now) \div Ms) * Ms

\* Mutant: only the engine's count keeps the loop going.
run_check_count ==
  /\ At("check")
  /\ IF q = <<>>
       THEN lpc' = "out" /\ UNCHANGED wake
       ELSE lpc' = "wait" /\ wake' = next_wake_up_time
  /\ UNCHANGED <<now, engineVars, ts, cur, id, owner, pc, history>>

\* The engine's count is the number of closures: it holds nothing else here.
run_check ==
  /\ At("check")
  /\ IF q = <<>> /\ timers = <<>>
       THEN lpc' = "out" /\ UNCHANGED wake
       ELSE lpc' = "wait" /\ wake' = next_wake_up_time
  /\ UNCHANGED <<now, engineVars, ts, cur, id, owner, pc, history>>

\* epoll_wait returns with closures to run, or times out ...
epoll_wait ==
  /\ At("wait") /\ (q # <<>> \/ wake <= now)
  /\ lpc' = "batch" /\ batch' = Len(q) /\ wake' = 0
  /\ UNCHANGED <<now, timers, q, tid, ts, cur, id, owner, pc, history>>

\* ... or returns early, for the event of some socket.
epoll_wait_event ==
  /\ At("wait") /\ q = <<>> /\ now < wake
  /\ lpc' = "batch" /\ wake' = 0
  /\ UNCHANGED <<now, engineVars, ts, cur, id, owner, pc, history>>

run_schedule ==
  /\ At("batch") /\ batch > 0 /\ Head(q).k = "schedule"
  /\ \E i \in {Head(q).id} :
       /\ \E p \in upper_bound(timers, id, i) : timers' = InsertAfter(timers, p, i)
       /\ id' = [id EXCEPT ![i] = Release(AddRef(@), 1)]
  /\ q' = Tail(q) /\ batch' = batch - 1
  /\ UNCHANGED <<now, tid, loopVars, owner, pc, history>>

FirstAt(s, x) == CHOOSE k \in DOMAIN s : s[k] = x /\ \A j \in 1..(k - 1) : s[j] # x

\* Mutant: a timer that is found is not taken out of the list.
cancel_found_keeps(i) ==
  /\ cur' = i /\ lpc' = "cancel_cb"
  /\ ends' = [ends EXCEPT ![i] = @ + 1]
  /\ UNCHANGED <<timers, id>>

\* Found: erased, and its callback told so.
cancel_found(i) ==
  /\ timers' = EraseAt(timers, FirstAt(timers, i))
  /\ cur' = i /\ lpc' = "cancel_cb"
  /\ ends' = [ends EXCEPT ![i] = @ + 1]
  /\ UNCHANGED id

run_cancel ==
  /\ At("batch") /\ batch > 0 /\ Head(q).k = "cancel"
  /\ \E i \in {Head(q).id} :
       \/ i \in Elems(timers) /\ cancel_found(i)
       \/ /\ i \notin Elems(timers)
          /\ id' = [id EXCEPT ![i] = Release(@, 1)]
          /\ UNCHANGED <<timers, cur, lpc, ends>>
  /\ q' = Tail(q) /\ batch' = batch - 1
  /\ UNCHANGED <<now, tid, wake, ts, owner, pc, fires>>

\* The list's reference, then the closure's.
cancel_return ==
  /\ At("cancel_cb")
  /\ id' = [id EXCEPT ![cur] = Release(@, 2)]
  /\ cur' = Null /\ lpc' = "batch"
  /\ UNCHANGED <<now, engineVars, wake, ts, owner, pc, history>>

drain_begin ==
  /\ At("batch") /\ batch = 0
  /\ ts' = now /\ lpc' = "drain"
  /\ UNCHANGED <<now, engineVars, wake, cur, id, owner, pc, history>>

drain_next ==
  /\ At("drain")
  /\ IF timers # <<>> /\ id[Head(timers)].due <= ts
       THEN cur' = Head(timers) /\ timers' = Tail(timers) /\ lpc' = "drain_cb" /\ UNCHANGED ts
       ELSE lpc' = "check" /\ ts' = 0 /\ UNCHANGED <<cur, timers>>
  /\ UNCHANGED <<now, q, batch, tid, wake, id, owner, pc, history>>

\* Mutant: the list's reference is kept, as if timer_schedule took it over.
again_no_add_ref(i) ==
  LET r == [id EXCEPT ![i].due = @ + id[i].rep]
  IN  \E p \in upper_bound(timers, r, i) :
        /\ timers' = InsertAfter(timers, p, i)
        /\ id' = [r EXCEPT ![i] = Release(@, 1)]

\* A repeating timer is scheduled again, then released for having been popped.
again(i) ==
  LET r == [id EXCEPT ![i].due = @ + id[i].rep]
  IN  \E p \in upper_bound(timers, r, i) :
        /\ timers' = InsertAfter(timers, p, i)
        /\ id' = [r EXCEPT ![i] = Release(AddRef(@), 1)]

drain_return ==
  /\ At("drain_cb")
  /\ \/ Repeats(cur) /\ again(cur) /\ UNCHANGED ends
     \/ /\ ~Repeats(cur)
        /\ id' = [id EXCEPT ![cur] = Release(@, 1)]
        /\ ends' = [ends EXCEPT ![cur] = @ + 1]
        /\ UNCHANGED timers
  /\ cur' = Null /\ lpc' = "drain"
  /\ UNCHANGED <<now, q, batch, tid, wake, ts, owner, pc, fires>>

Tick ==
  /\ now < MaxTime /\ now' = now + 1
  /\ UNCHANGED <<engineVars, loopVars, id, owner, pc, history>>

-----------------------------------------------------------------------------
Call(t) ==
  \/ \E i \in Id : new_timer(t, i) \/ delete_timer(t, i) \/ fire(t, i) \/ cancel(t, i)
  \/ \E i \in Id, d \in Delays, r \in Reps : due_time(t, i, d, r)

LoopStep ==
  \/ run_check \/ epoll_wait \/ run_schedule \/ run_cancel \/ cancel_return
  \/ drain_begin \/ drain_next \/ drain_return

Next ==
  \/ \E t \in Caller : Call(t) \/ timer_cancel(t)
  \/ run \/ LoopStep \/ epoll_wait_event \/ Tick

Spec == Init /\ [][Next]_vars

\* The loop thread runs and callbacks return; a thread inside cancel goes on;
\* time passes.
FairSpec ==
  /\ Spec /\ WF_vars(LoopStep) /\ WF_vars(Tick)
  /\ \A t \in Caller : WF_vars(timer_cancel(t))

-----------------------------------------------------------------------------
(* Properties. *)

\* The types of the variables, and that the bounds bound.
TypeOK ==
  /\ now \in 0..MaxTime /\ timers \in Seq(Id) /\ q \in Seq(Closure)
  /\ batch \in Nat /\ batch <= Len(q) /\ tid \in {Null, Loop}
  /\ lpc \in {"out", "check", "wait", "batch", "cancel_cb", "drain", "drain_cb"}
  /\ wake \in Nat /\ ts \in 0..MaxTime /\ cur \in Id \cup {Null}
  /\ id \in [Id -> IdType] /\ owner \in [Id -> BOOLEAN]
  /\ pc \in [Caller -> Id \cup {Null}]
  /\ fires \in [Id -> Nat] /\ ends \in [Id -> Nat]

\* The list stays sorted, so its front is the next timer due: inserting,
\* erasing, repeating (engine.cpp:29-76).
TimersSorted == Sorted(timers, id)

\* engine::run never waits past a timer's due time (next_wake_up_time is
\* taken from the front only, before the wait).
NeverOversleeps == lpc = "wait" => \A i \in Elems(timers) : wake <= id[i].due \/ wake <= now

\* A timer::id's count is the number of pointers to it: the timer object,
\* the list, closures, the callback being run.  So it is deleted with the
\* last of them and never while one is left, whoever destroys, cancels or
\* fires in whatever order.
References(i) ==
  (IF owner[i] THEN 1 ELSE 0) + Occ(timers, i)
    + Cardinality({k \in DOMAIN q : q[k].id = i})
    + (IF cur = i THEN (IF lpc = "cancel_cb" THEN 2 ELSE 1) ELSE 0)
IdRefcount ==
  \A i \in Id :
    /\ id[i].ref = References(i)
    /\ id[i].st = "live" <=> References(i) > 0

\* Every fire ends in exactly one last callback: none is lost or answered
\* twice between the posted closure, the list, a cancel and a drain.
FireEndsOnce ==
  \A i \in Id :
    fires[i] = ends[i] + Occ(timers, i) + Occ(q, [k |-> "schedule", id |-> i])
                 + (IF lpc = "drain_cb" /\ cur = i THEN 1 ELSE 0)

\* run returns only with every timer fired before it answered: one in the
\* list, or on its way to it, keeps the loop going (engine.cpp:19).
RunReturnsIdle ==
  [][lpc = "check" /\ lpc' = "out" => \A i \in Id : fires[i] = ends[i]]_vars

\* A posted cancel stops the timer, a repeating one too, unless run is left.
CancelStops ==
  \A i \in Id :
    [k |-> "cancel", id |-> i] \in Elems(q) ~> (~Scheduled(i) \/ lpc = "out")

\* A timer in the list leaves it when its time has come.
DueFires ==
  \A i \in Id :
    i \in Elems(timers) /\ id[i].due <= MaxTime ~> (i \notin Elems(timers) \/ lpc = "out")
=============================================================================
