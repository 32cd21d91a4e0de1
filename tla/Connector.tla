----------------------------- MODULE Connector -----------------------------
(***************************************************************************)
(* pipeline_connector (src/src/io/ip/tcp/pipeline/connector.cpp): connects *)
(* to a sequence of addresses, one after the other, with a repeating timer *)
(* that closes the socket of an attempt that takes too long; on success    *)
(* the socket is moved into a channel.  Composed with what it uses of the  *)
(* engine: the operation queue, one socket, the timer, and the order in    *)
(* which a turn of the loop serves them (events, closures, timers).        *)
(*                                                                         *)
(* Time is counted in steps the loop and the callers take none of.         *)
(***************************************************************************)
EXTENDS Naturals, Sequences, FiniteSets

CONSTANTS
  N,        \* addresses in the sequence
  Timeout,  \* _timeout
  MaxNow,   \* bound on time
  MaxCalls  \* bound on calls of connect_sequence

ASSUME ConnectorAssumption ==
  N \in Nat \ {0} /\ Timeout \in Nat \ {0} /\ MaxNow \in Nat /\ MaxCalls \in Nat

VARIABLES
  now,     \* the clock
  lpc,     \* the loop: "out" before run(), then "mux", "take", "drain", "timers"
  calls,   \* calls of connect_sequence so far
  tpc,     \* a caller off the loop, between do_connect() and _timer.fire()
  off,     \* history: the sequence was started off the loop, inside run()
  q,       \* closures and completions in the engine's queue
  ops,     \* the batch the loop took
  fd,      \* _fd: "closed", "open", or "moved" into a channel
  dsc,     \* the descriptor of the attempt: "none", "connecting", "ready"
  inprog,  \* _connect_in_progress
  ctime,   \* _connect_time
  idx,     \* _current_address_index
  due,     \* the timer's due time
  queued,  \* the timer is in the engine's list
  ended,   \* the sequence came to its end: opened, or do_continue said no
  crash    \* a null engine or a null descriptor was used

attempt == <<fd, dsc, inprog, ctime, idx>>
timer   == <<due, queued>>
caller  == <<calls, tpc, off>>
vars    == <<now, lpc, q, ops, caller, attempt, timer, ended, crash>>

Init ==
  /\ now = 0 /\ lpc = "out" /\ q = <<>> /\ ops = <<>>
  /\ calls = 0 /\ tpc = "idle" /\ off = FALSE
  /\ fd = "closed" /\ dsc = "none" /\ inprog = FALSE /\ ctime = 0 /\ idx = 0
  /\ due = 0 /\ queued = FALSE /\ ended = FALSE /\ crash = "none"

Running == crash = "none"

-----------------------------------------------------------------------------
(* do_connect() to address i: the operation is left with a new descriptor, *)
(* or completes with an error; after is what the caller posts next.        *)

do_connect(i, after) ==
  /\ inprog' = TRUE /\ ctime' = now /\ idx' = i
  /\ \/ fd' = "open" /\ dsc' = "connecting" /\ q' = q \o after
     \/ UNCHANGED <<fd, dsc>> /\ q' = q \o <<"failed">> \o after

\* What the application may do: start a sequence when the last one ended,
\* its cancellation included, and the socket was not given to a channel.
MayConnect ==
  /\ Running /\ calls < MaxCalls /\ tpc = "idle"
  /\ ~inprog /\ fd # "moved" /\ q = <<>> /\ ops = <<>> /\ ~queued

Started == due' = now + Timeout /\ calls' = calls + 1 /\ ended' = FALSE

\* _timer.fire() posts the closure that inserts the timer, unless it is
\* called on the loop thread inside run().
connect_before_run ==
  /\ MayConnect /\ lpc = "out" /\ Started /\ off' = FALSE /\ do_connect(0, <<"schedule">>)
  /\ UNCHANGED <<now, lpc, ops, tpc, queued, crash>>

connect_on_loop ==
  /\ MayConnect /\ lpc # "out" /\ Started /\ do_connect(0, <<>>)
  /\ queued' = TRUE /\ off' = FALSE
  /\ UNCHANGED <<now, lpc, ops, tpc, crash>>

connect_off_loop ==
  /\ MayConnect /\ lpc # "out" /\ Started /\ do_connect(0, <<>>)
  /\ tpc' = "fire" /\ off' = TRUE
  /\ UNCHANGED <<now, lpc, ops, queued, crash>>

fire_off_loop ==
  /\ tpc = "fire" /\ tpc' = "idle" /\ q' = Append(q, "schedule")
  /\ UNCHANGED <<now, lpc, ops, calls, off, attempt, timer, ended, crash>>

-----------------------------------------------------------------------------
(* handle_connect. *)

Holds(s, c) == \E i \in DOMAIN s : s[i] = c

\* Mutant: the timer is left to itself.
cancel_never == q' = q

\* _timer.cancel(): nothing to do when only the timer object refers to it.
cancel ==
  q' = IF queued \/ Holds(q \o ops, "schedule") \/ Holds(q \o ops, "cancel")
       THEN Append(q, "cancel") ELSE q

\* Success: the channel takes the socket, and its first read uses the
\* descriptor without a look.
handle_connect_open ==
  /\ inprog' = FALSE /\ fd' = "moved" /\ dsc' = "none"
  /\ ended' = TRUE /\ cancel
  /\ crash' = IF fd = "open" THEN "none" ELSE "null descriptor"
  /\ UNCHANGED <<ctime, idx>>

\* build() says no: the channel is deleted, with the socket, and then
\* _fd.close() finds no engine in the socket that was moved from.
handle_connect_build_fail ==
  /\ inprog' = FALSE /\ fd' = "moved" /\ dsc' = "none"
  /\ q' = IF fd = "open" THEN Append(q, "unbind") ELSE q
  /\ crash' = "null engine"
  /\ UNCHANGED <<ctime, idx, ended>>

\* Mutant: the next address is tried with the time of the first.
handle_connect_error_old_time ==
  \/ /\ inprog' = TRUE /\ idx' = (idx + 1) % N
     /\ \/ fd' = "open" /\ dsc' = "connecting" /\ q' = q
        \/ UNCHANGED <<fd, dsc>> /\ q' = q \o <<"failed">>
     /\ UNCHANGED <<ctime, ended, crash>>
  \/ /\ inprog' = FALSE /\ idx' = (idx + 1) % N /\ ended' = TRUE /\ q' = q
     /\ UNCHANGED <<fd, dsc, ctime, crash>>

\* An error: on to the next address if do_continue says so.  _fd has no
\* descriptor here, so its close() does nothing.
handle_connect_error ==
  \/ do_connect((idx + 1) % N, <<>>) /\ UNCHANGED <<ended, crash>>
  \/ /\ inprog' = FALSE /\ idx' = (idx + 1) % N /\ ended' = TRUE /\ cancel
     /\ UNCHANGED <<fd, dsc, ctime, crash>>

-----------------------------------------------------------------------------
(* A turn of the loop: the event, the batch of closures, the timer.        *)

run ==
  /\ lpc = "out" /\ lpc' = "mux"
  /\ UNCHANGED <<now, q, ops, caller, attempt, timer, ended, crash>>

\* The connection was answered before the wait returned: the event is
\* served before the closures, whether or not one of them closes the socket.
run_event ==
  /\ Running /\ lpc = "mux" /\ dsc = "ready" /\ lpc' = "take"
  /\ handle_connect_open \/ handle_connect_build_fail
  /\ UNCHANGED <<now, ops, caller, timer>>

run_take ==
  /\ Running
  /\ lpc = "take" \/ (lpc = "mux" /\ dsc # "ready")
  /\ ops' = q /\ q' = <<>> /\ lpc' = "drain"
  /\ UNCHANGED <<now, caller, attempt, timer, ended, crash>>

Next_op(c) == Running /\ lpc = "drain" /\ ops # <<>> /\ Head(ops) = c /\ ops' = Tail(ops)

op_run_schedule ==
  /\ Next_op("schedule") /\ queued' = TRUE
  /\ UNCHANGED <<now, lpc, q, caller, attempt, due, ended, crash>>

op_run_cancel ==
  /\ Next_op("cancel") /\ queued' = FALSE
  /\ UNCHANGED <<now, lpc, q, caller, attempt, due, ended, crash>>

\* The fd is closed; the operation, if it is still there, is aborted.
op_run_unbind ==
  /\ Next_op("unbind") /\ dsc' = "none"
  /\ q' = IF dsc = "none" THEN q ELSE Append(q, "aborted")
  /\ UNCHANGED <<now, lpc, caller, fd, inprog, ctime, idx, timer, ended, crash>>

op_run_handler ==
  /\ Next_op("aborted") \/ Next_op("failed")
  /\ handle_connect_error
  /\ UNCHANGED <<now, lpc, caller, timer>>

run_drained ==
  /\ Running /\ lpc = "drain" /\ ops = <<>> /\ lpc' = "timers"
  /\ UNCHANGED <<now, q, ops, caller, attempt, timer, ended, crash>>

\* on_timer's condition.
Late == inprog /\ now > ctime + Timeout

\* timer_drain: on_timer, and the timer is due again one _timeout later.
timer_drain ==
  /\ Running /\ lpc = "timers" /\ queued /\ due <= now
  /\ due' = due + Timeout
  /\ IF Late /\ fd = "open" THEN fd' = "closed" /\ q' = Append(q, "unbind") ELSE UNCHANGED <<fd, q>>
  /\ UNCHANGED <<now, lpc, ops, caller, dsc, inprog, ctime, idx, queued, ended, crash>>

timer_none ==
  /\ Running /\ lpc = "timers" /\ ~(queued /\ due <= now) /\ lpc' = "mux"
  /\ UNCHANGED <<now, q, ops, caller, attempt, timer, ended, crash>>

-----------------------------------------------------------------------------
\* The network answers.  A refused connection looks like an accepted one.
answer ==
  /\ dsc = "connecting" /\ dsc' = "ready"
  /\ UNCHANGED <<now, lpc, q, ops, caller, fd, inprog, ctime, idx, timer, ended, crash>>

\* Time passes while the loop waits.
tick ==
  /\ now < MaxNow /\ tpc = "idle" /\ lpc = "mux"
  /\ q = <<>> /\ dsc # "ready" /\ ~(queued /\ due <= now)
  /\ now' = now + 1
  /\ UNCHANGED <<lpc, q, ops, caller, attempt, timer, ended, crash>>

LoopStep ==
  \/ run_event
  \/ run_take
  \/ op_run_schedule
  \/ op_run_cancel
  \/ op_run_unbind
  \/ op_run_handler
  \/ run_drained
  \/ timer_drain
  \/ timer_none

Next ==
  \/ connect_before_run
  \/ connect_on_loop
  \/ connect_off_loop
  \/ fire_off_loop
  \/ run
  \/ LoopStep
  \/ answer
  \/ tick

Spec == Init /\ [][Next]_vars

\* Inside run() the loop thread keeps running.
FairSpec == Spec /\ WF_vars(LoopStep)

-----------------------------------------------------------------------------
Answers == {i \in DOMAIN (q \o ops) : (q \o ops)[i] \in {"failed", "aborted"}}

\* An attempt is answered exactly once: while one is in progress there is
\* either its descriptor, with the operation in it, or one completion on its
\* way, and otherwise neither; and it is answered within twice _timeout.
\* (Twice: the timer is set before the first attempt starts and on_timer
\* wants strictly more than _timeout to have passed.)
ConnectBounded ==
  /\ inprog => now <= ctime + 2 * Timeout
  /\ (IF dsc = "none" THEN 0 ELSE 1) + Cardinality(Answers) = IF inprog THEN 1 ELSE 0

\* When a sequence has ended, opened or given up, its timer leaves the
\* engine's list, whatever order the timer's closures and the connection's
\* events came in; a timer left there keeps run() from returning.  A sequence
\* that another thread starts inside run() may end before that thread calls
\* _timer.fire(), and then nobody cancels the timer.
TimerStops == (ended /\ lpc # "out" /\ ~off) ~> (~queued \/ ~Running)
=============================================================================
