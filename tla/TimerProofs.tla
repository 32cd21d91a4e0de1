---------------------------- MODULE TimerProofs ----------------------------
(***************************************************************************)
(* Proofs about Timer, for any threads, timers, delays and bounds.         *)
(***************************************************************************)
EXTENDS Timer, Counting

\* How often a timer is in a list, in how many closures, and in how many that
\* schedule it; the references of the callback being run; the fire it is of.
Sched(i)          == [k |-> "schedule", id |-> i]
Of(i)             == {c \in Closure : c.id = i}
Listed(s, i)      == Count(s, {i})
Posted(s, i)      == Count(s, Of(i))
Scheduling(s, i)  == Count(s, {Sched(i)})
Pinned(l, c, i)   == IF c = i THEN (IF l = "cancel_cb" THEN 2 ELSE 1) ELSE 0
Draining(l, c, i) == IF l = "drain_cb" /\ c = i THEN 1 ELSE 0
Owned(o, i)       == IF o[i] THEN 1 ELSE 0

\* A callback runs for a timer, and a thread about to cancel one calls an
\* object that exists.
Shape ==
  /\ cur # Null <=> lpc \in {"cancel_cb", "drain_cb"}
  /\ \A t \in Caller : pc[t] # Null => owner[pc[t]]

Counted(i) ==
  /\ id[i].ref = Owned(owner, i) + Listed(timers, i) + Posted(q, i) + Pinned(lpc, cur, i)
  /\ id[i].st = "live" <=> id[i].ref > 0

Ended(i) ==
  fires[i] = ends[i] + Listed(timers, i) + Scheduling(q, i) + Draining(lpc, cur, i)

IInv == TypeOK /\ Shape /\ \A i \in Id : Counted(i) /\ Ended(i)

-----------------------------------------------------------------------------
(* What the steps do to the counts.                                        *)

\* The counts are natural numbers; a timer is in the list if it is counted.
LEMMA ListedNat ==
  ASSUME NEW s \in Seq(Id), NEW i \in Id
  PROVE  /\ Listed(s, i) \in Nat
         /\ i \in Elems(s) <=> Listed(s, i) > 0
         /\ s = <<>> => Listed(s, i) = 0
         /\ Occ(s, i) = Listed(s, i)
<1>1. Listed(s, i) \in Nat /\ (Listed(s, i) = 0 <=> \A k \in DOMAIN s : s[k] \notin {i})
  BY CountType DEF Listed
<1>2. Occ(s, i) = Listed(s, i)
  BY DEF Occ, Listed, Count, PlacesOf
<1>3. i \in Elems(s) <=> \E k \in DOMAIN s : s[k] = i
  BY DEF Elems
<1> QED BY <1>1, <1>2, <1>3

\* The same for the closures.
LEMMA PostedNat ==
  ASSUME NEW s \in Seq(Closure), NEW i \in Id
  PROVE  /\ Posted(s, i) \in Nat /\ Scheduling(s, i) \in Nat
         /\ s = <<>> => Posted(s, i) = 0 /\ Scheduling(s, i) = 0
         /\ Sched(i) \in Elems(s) <=> Scheduling(s, i) > 0
         /\ Occ(s, Sched(i)) = Scheduling(s, i)
         /\ Cardinality({k \in DOMAIN s : s[k].id = i}) = Posted(s, i)
<1>1. Posted(s, i) \in Nat /\ (Posted(s, i) = 0 <=> \A k \in DOMAIN s : s[k] \notin Of(i))
  BY CountType DEF Posted
<1>2. Scheduling(s, i) \in Nat /\ (Scheduling(s, i) = 0 <=> \A k \in DOMAIN s : s[k] \notin {Sched(i)})
  BY CountType DEF Scheduling
<1>3. Occ(s, Sched(i)) = Scheduling(s, i)
  BY DEF Occ, Scheduling, Count, PlacesOf
<1>4. {k \in DOMAIN s : s[k].id = i} = PlacesOf(s, Of(i))
  BY DEF PlacesOf, Of
<1>5. Sched(i) \in Elems(s) <=> \E k \in DOMAIN s : s[k] = Sched(i)
  BY DEF Elems
<1>6. Cardinality({k \in DOMAIN s : s[k].id = i}) = Posted(s, i)
  BY <1>4 DEF Posted, Count
<1> QED BY <1>1, <1>2, <1>3, <1>5, <1>6

\* The list with a timer inserted.
LEMMA InsertEffect ==
  ASSUME NEW s \in Seq(Id), NEW i \in Id, NEW p \in 0..Len(s)
  PROVE  /\ InsertAfter(s, p, i) \in Seq(Id)
         /\ \A j \in Id : Listed(InsertAfter(s, p, i), j) = Listed(s, j) + IF j = i THEN 1 ELSE 0
<1>1. ASSUME NEW j \in Id
      PROVE  Count(InsertAfter(s, p, i), {j}) = Count(s, {j}) + IF i \in {j} THEN 1 ELSE 0
  BY CountInsert DEF InsertAfter
<1>2. InsertAfter(s, p, i) \in Seq(Id)
  BY CountInsert DEF InsertAfter
<1> QED BY <1>1, <1>2 DEF Listed

\* The list with a timer that is in it erased.
LEMMA EraseEffect ==
  ASSUME NEW s \in Seq(Id), NEW i \in Elems(s)
  PROVE  /\ EraseAt(s, FirstAt(s, i)) \in Seq(Id) /\ FirstAt(s, i) \in 1..Len(s)
         /\ \A j \in Id : Listed(s, j) = Listed(EraseAt(s, FirstAt(s, i)), j) + IF j = i THEN 1 ELSE 0
<1> DEFINE H(k) == k \in DOMAIN s /\ s[k] = i /\ \A j \in 1..(k - 1) : s[j] # i
           K == {k \in DOMAIN s : s[k] = i}
           p == FirstAt(s, i)
<1>1. K # {} /\ K \in SUBSET Nat
  BY DEF Elems
<1>2. PICK k \in K : \A j \in K : k <= j
  BY <1>1, LeastNatural
<1>3. k \in DOMAIN s /\ s[k] = i /\ \A j \in 1..(k - 1) : s[j] # i
  BY <1>2
<1>4. p \in DOMAIN s /\ s[p] = i
  BY <1>3 DEF FirstAt
<1>5. p \in 1..Len(s) /\ s[p] = i
  BY <1>4
<1> HIDE DEF p
<1>6. EraseAt(s, p) \in Seq(Id)
  BY <1>5, CountErase DEF EraseAt
<1>7. ASSUME NEW j \in Id PROVE Count(s, {j}) = Count(EraseAt(s, p), {j}) + IF s[p] \in {j} THEN 1 ELSE 0
  BY <1>5, CountErase DEF EraseAt
<1> QED BY <1>5, <1>6, <1>7 DEF Listed, p

\* The list with its front taken.
LEMMA FrontEffect ==
  ASSUME NEW s \in Seq(Id), s # <<>>
  PROVE  /\ Head(s) \in Id /\ Tail(s) \in Seq(Id)
         /\ \A j \in Id : Listed(s, j) = Listed(Tail(s), j) + IF j = Head(s) THEN 1 ELSE 0
<1>1. ASSUME NEW j \in Id PROVE Count(s, {j}) = Count(Tail(s), {j}) + IF Head(s) \in {j} THEN 1 ELSE 0
  BY CountTail
<1> QED BY <1>1, CountTail DEF Listed

\* A closure posted.
LEMMA PostEffect ==
  ASSUME NEW s \in Seq(Closure), NEW x \in {"schedule", "cancel"}, NEW i \in Id
  PROVE  LET t == Append(s, [k |-> x, id |-> i]) IN
         /\ t \in Seq(Closure) /\ Len(t) = Len(s) + 1
         /\ \A j \in Id :
              /\ Posted(t, j) = Posted(s, j) + IF j = i THEN 1 ELSE 0
              /\ Scheduling(t, j) = Scheduling(s, j) + IF j = i /\ x = "schedule" THEN 1 ELSE 0
<1> DEFINE c == [k |-> x, id |-> i]
<1>1. c \in Closure /\ \A j \in Id : (c \in Of(j) <=> j = i) /\ (c \in {Sched(j)} <=> j = i /\ x = "schedule")
  BY DEF Closure, Of, Sched
<1> HIDE DEF c
<1>2. Append(s, c) \in Seq(Closure) /\ Len(Append(s, c)) = Len(s) + 1
  BY <1>1
<1>3. ASSUME NEW j \in Id
      PROVE  /\ Count(Append(s, c), Of(j)) = Count(s, Of(j)) + IF c \in Of(j) THEN 1 ELSE 0
             /\ Count(Append(s, c), {Sched(j)}) = Count(s, {Sched(j)}) + IF c \in {Sched(j)} THEN 1 ELSE 0
  BY <1>1, CountAppend
<1>4. ASSUME NEW j \in Id
      PROVE  /\ Posted(Append(s, c), j) = Posted(s, j) + IF j = i THEN 1 ELSE 0
             /\ Scheduling(Append(s, c), j) = Scheduling(s, j) + IF j = i /\ x = "schedule" THEN 1 ELSE 0
  BY <1>1, <1>3 DEF Posted, Scheduling
<1> QED BY <1>2, <1>4 DEF c

\* The first closure taken.
LEMMA TakeEffect ==
  ASSUME NEW s \in Seq(Closure), s # <<>>
  PROVE  /\ Head(s).id \in Id /\ Head(s).k \in {"schedule", "cancel"}
         /\ Tail(s) \in Seq(Closure) /\ Len(Tail(s)) = Len(s) - 1 /\ Len(s) \in Nat
         /\ \A j \in Id :
              /\ Posted(s, j) = Posted(Tail(s), j) + IF j = Head(s).id THEN 1 ELSE 0
              /\ Scheduling(s, j) = Scheduling(Tail(s), j)
                                      + IF j = Head(s).id /\ Head(s).k = "schedule" THEN 1 ELSE 0
<1> DEFINE c == Head(s)
<1>1. c \in Closure /\ Tail(s) \in Seq(Closure) /\ Len(Tail(s)) = Len(s) - 1 /\ Len(s) \in Nat
  OBVIOUS
<1>2. ASSUME NEW j \in Id
      PROVE  /\ Count(s, Of(j)) = Count(Tail(s), Of(j)) + IF c \in Of(j) THEN 1 ELSE 0
             /\ Count(s, {Sched(j)}) = Count(Tail(s), {Sched(j)}) + IF c \in {Sched(j)} THEN 1 ELSE 0
  BY CountTail
<1> HIDE DEF c
<1>3. /\ c.id \in Id /\ c.k \in {"schedule", "cancel"}
      /\ \A j \in Id : (c \in Of(j) <=> j = c.id) /\ (c \in {Sched(j)} <=> j = c.id /\ c.k = "schedule")
  BY <1>1 DEF Closure, Of, Sched
<1>4. ASSUME NEW j \in Id
      PROVE  /\ Posted(s, j) = Posted(Tail(s), j) + IF j = c.id THEN 1 ELSE 0
             /\ Scheduling(s, j) = Scheduling(Tail(s), j) + IF j = c.id /\ c.k = "schedule" THEN 1 ELSE 0
  BY <1>2, <1>3 DEF Posted, Scheduling
<1> QED BY <1>1, <1>3, <1>4 DEF c

\* add_ref and release on a timer::id.
LEMMA RefEffect ==
  ASSUME NEW r \in IdType
  PROVE  /\ r.ref \in Nat /\ r.due \in Nat /\ r.rep \in Nat /\ r.st \in {"new", "live", "freed"}
         /\ AddRef(r) \in IdType /\ AddRef(r).ref = r.ref + 1 /\ AddRef(r).st = r.st
         /\ AddRef(r).due = r.due /\ AddRef(r).rep = r.rep
         /\ \A n \in {1, 2} : r.ref >= n =>
              /\ Release(r, n) \in IdType /\ Release(r, n).ref = r.ref - n
              /\ r.ref = n => Release(r, n) = Freed
              /\ r.ref # n => /\ Release(r, n).st = r.st
                              /\ Release(r, n).due = r.due /\ Release(r, n).rep = r.rep
<1>1. r.ref \in Nat /\ r.due \in Nat /\ r.rep \in Nat /\ r.st \in {"new", "live", "freed"}
  BY DEF IdType
<1>2. AddRef(r) \in IdType /\ AddRef(r).ref = r.ref + 1 /\ AddRef(r).st = r.st
      /\ AddRef(r).due = r.due /\ AddRef(r).rep = r.rep
  BY DEF IdType, AddRef
<1>3. ASSUME NEW n \in {1, 2}, r.ref >= n
      PROVE  /\ Release(r, n) \in IdType /\ Release(r, n).ref = r.ref - n
             /\ r.ref = n => Release(r, n) = Freed
             /\ r.ref # n => /\ Release(r, n).st = r.st
                             /\ Release(r, n).due = r.due /\ Release(r, n).rep = r.rep
  <2>1. CASE r.ref = n
    BY <1>1, <2>1 DEF Release, Freed, IdType
  <2>2. CASE r.ref # n
    <3>1. r.ref - n \in Nat
      BY <1>1, <1>3, <2>2
    <3> QED BY <2>2, <3>1 DEF Release, IdType
  <2> QED BY <2>1, <2>2
<1> QED BY <1>1, <1>2, <1>3

\* add_ref, then release, of an object that is referred to.
LEMMA RefAndBack ==
  ASSUME NEW r \in IdType, r.ref >= 1
  PROVE  Release(AddRef(r), 1) = r
<1> DEFINE R(n) == [st |-> r.st, ref |-> n, due |-> r.due, rep |-> r.rep]
<1>1. r.ref \in Nat /\ r.ref + 1 # 1 /\ (r.ref + 1) - 1 = r.ref
  BY DEF IdType
<1>2. r = R(r.ref)
  BY DEF IdType
<1>3. AddRef(r) = R(r.ref + 1)
  BY DEF AddRef, IdType
<1>4. Release(R(r.ref + 1), 1) = R((r.ref + 1) - 1)
  BY <1>1 DEF Release
<1> QED BY <1>1, <1>2, <1>3, <1>4

-----------------------------------------------------------------------------
(* The steps keep the counts.                                              *)

\* What the invariant says of one timer, as numbers.
Num(i) ==
  /\ Owned(owner, i) \in Nat /\ Listed(timers, i) \in Nat /\ Posted(q, i) \in Nat
  /\ Scheduling(q, i) \in Nat /\ Pinned(lpc, cur, i) \in Nat /\ Draining(lpc, cur, i) \in Nat
  /\ fires[i] \in Nat /\ ends[i] \in Nat /\ id[i].ref \in Nat
  /\ id[i].ref = Owned(owner, i) + Listed(timers, i) + Posted(q, i) + Pinned(lpc, cur, i)
  /\ id[i].st = "live" <=> id[i].ref > 0
  /\ fires[i] = ends[i] + Listed(timers, i) + Scheduling(q, i) + Draining(lpc, cur, i)

\* These are numbers, and a timer that is not in a callback is not held by it.
LEMMA Numbers ==
  ASSUME IInv, NEW i \in Id
  PROVE  /\ Num(i) /\ id[i] \in IdType /\ i # Null
         /\ owner[i] => Owned(owner, i) = 1
         /\ cur # i => Pinned(lpc, cur, i) = 0 /\ Draining(lpc, cur, i) = 0
<1>1. timers \in Seq(Id) /\ q \in Seq(Closure) /\ id[i] \in IdType /\ fires[i] \in Nat /\ ends[i] \in Nat
  BY DEF IInv, TypeOK
<1>2. id[i].ref \in Nat
  BY <1>1, RefEffect
<1>3. Counted(i) /\ Ended(i)
  BY DEF IInv
<1>4. i # Null
  BY NullAssumption
<1>5. Listed(timers, i) \in Nat /\ Posted(q, i) \in Nat /\ Scheduling(q, i) \in Nat
  BY <1>1, ListedNat, PostedNat
<1>6. /\ Owned(owner, i) \in Nat /\ (owner[i] => Owned(owner, i) = 1)
      /\ Pinned(lpc, cur, i) \in Nat /\ Draining(lpc, cur, i) \in Nat
      /\ cur # i => Pinned(lpc, cur, i) = 0 /\ Draining(lpc, cur, i) = 0
  BY DEF Owned, Pinned, Draining
<1> QED BY <1>1, <1>2, <1>3, <1>4, <1>5, <1>6 DEF Counted, Ended, Num

\* Steps that touch no timer.
LEMMA QuietStep ==
  ASSUME IInv, TypeOK', Shape', UNCHANGED <<timers, q, id, owner, fires, ends, cur>>,
         lpc' = lpc \/ cur = Null
  PROVE  IInv'
<1>1. ASSUME NEW j \in Id PROVE Pinned(lpc', cur', j) = Pinned(lpc, cur, j) /\ Draining(lpc', cur', j) = Draining(lpc, cur, j)
  BY NullAssumption DEF Pinned, Draining
<1>2. ASSUME NEW j \in Id PROVE Counted(j)' /\ Ended(j)'
  BY <1>1 DEF IInv, Counted, Ended
<1> QED BY <1>2 DEF IInv

\* new timer.
LEMMA NewStep ==
  ASSUME IInv, NEW t \in Caller, NEW i \in Id, new_timer(t, i) PROVE IInv'
<1>1. /\ id[i].st = "new" /\ id' = [id EXCEPT ![i].st = "live", ![i].ref = 1]
      /\ owner' = [owner EXCEPT ![i] = TRUE]
      /\ UNCHANGED <<now, engineVars, loopVars, pc, history>>
  BY DEF new_timer
<1>2. /\ id[i].ref = 0 /\ Owned(owner, i) = 0 /\ Listed(timers, i) = 0 /\ Posted(q, i) = 0
      /\ Pinned(lpc, cur, i) = 0
  <2>1. Num(i)
    BY Numbers
  <2> QED BY <1>1, <2>1 DEF Num
<1>3. /\ id' \in [Id -> IdType] /\ id'[i].st = "live" /\ id'[i].ref = 1
      /\ \A j \in Id : j # i => id'[j] = id[j]
  BY <1>1 DEF IInv, TypeOK, IdType
<1>4. owner' \in [Id -> BOOLEAN] /\ \A j \in Id : Owned(owner', j) = IF j = i THEN 1 ELSE Owned(owner, j)
  BY <1>1 DEF IInv, TypeOK, Owned
<1>5. TypeOK'
  BY <1>1, <1>3, <1>4 DEF IInv, TypeOK, engineVars, loopVars, history
<1>6. Shape'
  BY <1>1 DEF IInv, TypeOK, Shape, loopVars
<1>7. ASSUME NEW j \in Id PROVE Counted(j)' /\ Ended(j)'
  <2>1. Counted(j)'
    <3>1. CASE j = i
      <4>1. /\ id'[i].ref = 1 /\ id'[i].st = "live" /\ Owned(owner', i) = 1 /\ Listed(timers', i) = 0
            /\ Posted(q', i) = 0 /\ Pinned(lpc', cur', i) = 0
        BY <1>1, <1>2, <1>3, <1>4 DEF engineVars, loopVars
      <4> QED BY <3>1, <4>1 DEF Counted
    <3>2. CASE j # i
      BY <1>1, <1>3, <1>4, <3>2 DEF IInv, Counted, engineVars, loopVars
    <3> QED BY <3>1, <3>2
  <2>2. Ended(j)'
    BY <1>1 DEF IInv, Ended, engineVars, loopVars, history
  <2> QED BY <2>1, <2>2
<1> QED BY <1>5, <1>6, <1>7 DEF IInv

\* A timer object is destroyed: its reference goes, and the object with the
\* last one.
LEMMA DeleteStep ==
  ASSUME IInv, NEW t \in Caller, NEW i \in Id, delete_timer(t, i) PROVE IInv'
<1>1. /\ owner[i] /\ (\A u \in Caller : pc[u] # i) /\ id' = [id EXCEPT ![i] = Release(@, 1)]
      /\ owner' = [owner EXCEPT ![i] = FALSE]
      /\ UNCHANGED <<now, engineVars, loopVars, pc, history>>
  BY DEF delete_timer
<1>2. /\ id[i] \in IdType /\ id[i].ref \in Nat /\ id[i].ref >= 1 /\ id[i].st = "live" /\ Owned(owner, i) = 1
      /\ id[i].ref - 1 = 0 + Listed(timers, i) + Posted(q, i) + Pinned(lpc, cur, i)
  <2>1. Num(i) /\ id[i] \in IdType /\ Owned(owner, i) = 1
    BY <1>1, Numbers
  <2> QED BY <2>1 DEF Num
<1>3. /\ id' \in [Id -> IdType] /\ id'[i] = Release(id[i], 1) /\ id'[i].ref = id[i].ref - 1
      /\ \A j \in Id : j # i => id'[j] = id[j]
  BY <1>1, <1>2, RefEffect DEF IInv, TypeOK
<1>4. id'[i].st = "live" <=> id'[i].ref > 0
  BY <1>2, <1>3, RefEffect DEF Freed
<1>5. owner' \in [Id -> BOOLEAN] /\ \A j \in Id : Owned(owner', j) = IF j = i THEN 0 ELSE Owned(owner, j)
  BY <1>1 DEF IInv, TypeOK, Owned
<1>6. TypeOK'
  BY <1>1, <1>3, <1>5 DEF IInv, TypeOK, engineVars, loopVars, history
<1>7. Shape'
  BY <1>1 DEF IInv, TypeOK, Shape, loopVars
<1>8. ASSUME NEW j \in Id PROVE Counted(j)' /\ Ended(j)'
  <2>1. Counted(j)'
    BY <1>1, <1>2, <1>3, <1>4, <1>5 DEF IInv, Counted, engineVars, loopVars
  <2>2. Ended(j)'
    BY <1>1 DEF IInv, Ended, engineVars, loopVars, history
  <2> QED BY <2>1, <2>2
<1> QED BY <1>6, <1>7, <1>8 DEF IInv

\* due_time and repeat.
LEMMA DueStep ==
  ASSUME IInv, NEW t \in Caller, NEW i \in Id, NEW d \in Delays, NEW r \in Reps, due_time(t, i, d, r)
  PROVE  IInv'
<1>1. /\ id' = [id EXCEPT ![i].due = now + d, ![i].rep = r]
      /\ UNCHANGED <<now, engineVars, loopVars, owner, pc, history>>
  BY DEF due_time
<1>2. now + d \in Nat /\ r \in Nat
  BY TimeAssumption DEF IInv, TypeOK
<1>3. id' \in [Id -> IdType] /\ \A j \in Id : id'[j].ref = id[j].ref /\ id'[j].st = id[j].st
  BY <1>1, <1>2, ZenonT(30) DEF IInv, TypeOK, IdType
<1>4. TypeOK'
  BY <1>1, <1>3 DEF IInv, TypeOK, engineVars, loopVars, history
<1>5. Shape'
  BY <1>1 DEF IInv, Shape, loopVars
<1>6. ASSUME NEW j \in Id PROVE Counted(j)' /\ Ended(j)'
  BY <1>1, <1>3 DEF IInv, Counted, Ended, engineVars, loopVars, history
<1> QED BY <1>4, <1>5, <1>6 DEF IInv

\* A place that upper_bound finds is one of the list.
LEMMA Bound ==
  ASSUME NEW s \in Seq(Id), NEW r, NEW i, NEW p \in upper_bound(s, r, i) PROVE p \in 0..Len(s)
BY DEF upper_bound, Places

\* fire: the timer enters the list with a reference, or a closure is posted
\* with one.
LEMMA FireStep ==
  ASSUME IInv, NEW t \in Caller, NEW i \in Id, fire(t, i) PROVE IInv'
<1>1. /\ owner[i] /\ id' = [id EXCEPT ![i] = AddRef(@)] /\ fires' = [fires EXCEPT ![i] = @ + 1]
      /\ UNCHANGED <<now, batch, tid, loopVars, owner, pc, ends>>
      /\ \/ q' = q /\ \E p \in upper_bound(timers, id, i) : timers' = InsertAfter(timers, p, i)
         \/ timers' = timers /\ q' = Append(q, [k |-> "schedule", id |-> i])
  BY DEF fire, ScheduleIn, fire_posted, execute
<1>2. timers \in Seq(Id) /\ q \in Seq(Closure)
  BY DEF IInv, TypeOK
<1>3. id[i] \in IdType /\ id[i].ref \in Nat /\ id[i].ref > 0 /\ id[i].st = "live"
  <2>1. Num(i) /\ id[i] \in IdType /\ Owned(owner, i) = 1
    BY <1>1, Numbers
  <2> QED BY <2>1 DEF Num
<1>4. /\ id' \in [Id -> IdType] /\ id'[i].ref = id[i].ref + 1 /\ id'[i].st = "live"
      /\ \A j \in Id : j # i => id'[j] = id[j]
  BY <1>1, <1>3, RefEffect DEF IInv, TypeOK
<1>5. fires' \in [Id -> Nat] /\ \A j \in Id : fires'[j] = fires[j] + IF j = i THEN 1 ELSE 0
  BY <1>1 DEF IInv, TypeOK
<1>6. \/ /\ q' = q /\ timers' \in Seq(Id)
         /\ \A j \in Id : Listed(timers', j) = Listed(timers, j) + IF j = i THEN 1 ELSE 0
      \/ /\ timers' = timers /\ q' \in Seq(Closure) /\ Len(q') = Len(q) + 1
         /\ \A j \in Id : /\ Posted(q', j) = Posted(q, j) + IF j = i THEN 1 ELSE 0
                          /\ Scheduling(q', j) = Scheduling(q, j) + IF j = i THEN 1 ELSE 0
  <2>1. CASE q' = q /\ \E p \in upper_bound(timers, id, i) : timers' = InsertAfter(timers, p, i)
    BY <1>2, <2>1, Bound, InsertEffect
  <2>2. CASE timers' = timers /\ q' = Append(q, [k |-> "schedule", id |-> i])
    BY <1>2, <2>2, PostEffect
  <2> QED BY <1>1, <2>1, <2>2
<1>7. TypeOK'
  <2>1. timers' \in Seq(Id) /\ q' \in Seq(Closure) /\ batch \in Nat /\ batch <= Len(q')
    BY <1>2, <1>6 DEF IInv, TypeOK
  <2> QED BY <1>1, <1>4, <1>5, <2>1 DEF IInv, TypeOK, loopVars
<1>8. Shape'
  BY <1>1 DEF IInv, Shape, loopVars
<1>9. ASSUME NEW j \in Id PROVE Counted(j)' /\ Ended(j)'
  <2>1. Num(j)
    BY Numbers
  <2>2. /\ ends' = ends /\ owner' = owner /\ fires'[j] = fires[j] + IF j = i THEN 1 ELSE 0
        /\ Pinned(lpc', cur', j) = Pinned(lpc, cur, j) /\ Draining(lpc', cur', j) = Draining(lpc, cur, j)
    BY <1>1, <1>5 DEF loopVars
  <2>3. /\ id'[j].ref = id[j].ref + IF j = i THEN 1 ELSE 0
        /\ id'[j].st = "live" <=> id'[j].ref > 0
    <3>1. CASE j = i
      BY <1>3, <1>4, <3>1
    <3>2. CASE j # i
      BY <1>4, <2>1, <3>2 DEF Num
    <3> QED BY <3>1, <3>2
  <2>4. CASE /\ q' = q
             /\ \A l \in Id : Listed(timers', l) = Listed(timers, l) + IF l = i THEN 1 ELSE 0
    BY <2>1, <2>2, <2>3, <2>4 DEF Num, Counted, Ended
  <2>5. CASE /\ timers' = timers
             /\ \A l \in Id : /\ Posted(q', l) = Posted(q, l) + IF l = i THEN 1 ELSE 0
                              /\ Scheduling(q', l) = Scheduling(q, l) + IF l = i THEN 1 ELSE 0
    BY <2>1, <2>2, <2>3, <2>5 DEF Num, Counted, Ended
  <2> QED BY <1>6, <2>4, <2>5
<1> QED BY <1>7, <1>8, <1>9 DEF IInv

\* cancel finds a count, and then posts a closure with a reference: the
\* object still exists, so nothing was freed in between.
LEMMA CancelStep ==
  ASSUME IInv, NEW t \in Caller, NEW i \in Id, cancel(t, i) PROVE IInv'
<1>1. /\ owner[i] /\ pc' = [pc EXCEPT ![t] = i]
      /\ UNCHANGED <<now, engineVars, loopVars, id, owner, history>>
  BY DEF cancel
<1>2. TypeOK'
  BY <1>1 DEF IInv, TypeOK, engineVars, loopVars, history
<1>3. Shape'
  BY <1>1 DEF IInv, TypeOK, Shape, loopVars
<1> QED BY <1>1, <1>2, <1>3, QuietStep DEF engineVars, loopVars, history

\* timer_cancel posts the closure of a cancel with a reference.
LEMMA TimerCancelStep ==
  ASSUME IInv, NEW t \in Caller, timer_cancel(t) PROVE IInv'
<1>1. PICK i \in Id : i = pc[t] /\ owner[i]
  BY DEF IInv, TypeOK, Shape, timer_cancel
<1>2. /\ id' = [id EXCEPT ![i] = AddRef(@)] /\ q' = Append(q, [k |-> "cancel", id |-> i])
      /\ pc' = [pc EXCEPT ![t] = Null]
      /\ UNCHANGED <<now, timers, batch, tid, loopVars, owner, history>>
  BY <1>1 DEF timer_cancel, execute
<1>3. id[i] \in IdType /\ id[i].ref \in Nat /\ id[i].ref > 0 /\ id[i].st = "live"
  <2>1. Num(i) /\ id[i] \in IdType /\ Owned(owner, i) = 1
    BY <1>1, Numbers
  <2> QED BY <2>1 DEF Num
<1>4. /\ id' \in [Id -> IdType] /\ id'[i].ref = id[i].ref + 1 /\ id'[i].st = "live"
      /\ \A j \in Id : j # i => id'[j] = id[j]
  BY <1>2, <1>3, RefEffect DEF IInv, TypeOK
<1>5. /\ q' \in Seq(Closure) /\ Len(q') = Len(q) + 1
      /\ \A j \in Id : /\ Posted(q', j) = Posted(q, j) + IF j = i THEN 1 ELSE 0
                       /\ Scheduling(q', j) = Scheduling(q, j) + 0
  BY <1>2, PostEffect DEF IInv, TypeOK
<1>6. TypeOK'
  <2>1. batch \in Nat /\ batch <= Len(q') /\ pc' \in [Caller -> Id \cup {Null}]
    BY <1>2, <1>5 DEF IInv, TypeOK
  <2> QED BY <1>2, <1>4, <1>5, <2>1 DEF IInv, TypeOK, loopVars, history
<1>7. Shape'
  BY <1>2 DEF IInv, TypeOK, Shape, loopVars
<1>8. ASSUME NEW j \in Id PROVE Counted(j)' /\ Ended(j)'
  <2>1. Num(j)
    BY Numbers
  <2>2. /\ ends' = ends /\ fires' = fires /\ owner' = owner /\ timers' = timers
        /\ Pinned(lpc', cur', j) = Pinned(lpc, cur, j) /\ Draining(lpc', cur', j) = Draining(lpc, cur, j)
    BY <1>2 DEF loopVars, history
  <2>3. /\ id'[j].ref = id[j].ref + IF j = i THEN 1 ELSE 0
        /\ id'[j].st = "live" <=> id'[j].ref > 0
    <3>1. CASE j = i
      BY <1>3, <1>4, <3>1
    <3>2. CASE j # i
      BY <1>4, <2>1, <3>2 DEF Num
    <3> QED BY <3>1, <3>2
  <2>4. Posted(q', j) = Posted(q, j) + IF j = i THEN 1 ELSE 0
    BY <1>5
  <2>5. Scheduling(q', j) = Scheduling(q, j)
    BY <1>5, <2>1 DEF Num
  <2> QED BY <2>1, <2>2, <2>3, <2>4, <2>5 DEF Num, Counted, Ended
<1> QED BY <1>6, <1>7, <1>8 DEF IInv

\* The loop moves on, or time does.
LEMMA MoveStep ==
  ASSUME IInv, run \/ run_check \/ epoll_wait \/ epoll_wait_event \/ drain_begin \/ Tick
  PROVE  IInv'
<1>1. UNCHANGED <<timers, q, id, owner, pc, fires, ends, cur>>
  BY DEF run, run_check, epoll_wait, epoll_wait_event, drain_begin, Tick, engineVars, loopVars, history
<1>2. CASE Tick
  <2>1. now' \in 0..MaxTime
    BY <1>2, TimeAssumption DEF Tick, IInv, TypeOK
  <2>2. TypeOK' /\ lpc' = lpc
    BY <1>1, <1>2, <2>1 DEF Tick, IInv, TypeOK, engineVars, loopVars, history
  <2>3. Shape'
    BY <1>1, <2>2 DEF IInv, Shape
  <2> QED BY <1>1, <2>2, <2>3, QuietStep
<1>3. CASE run \/ run_check \/ epoll_wait \/ epoll_wait_event \/ drain_begin
  <2>1. lpc \in {"out", "check", "wait", "batch"} /\ lpc' \in {"out", "check", "wait", "batch", "drain"}
    BY <1>3 DEF run, run_check, epoll_wait, epoll_wait_event, drain_begin, At
  <2>2. cur = Null
    BY <2>1 DEF IInv, Shape
  <2>3. wake' \in Nat
    <3>1. next_wake_up_time \in Nat
      <4>1. now \in Nat /\ Ms \in Nat \ {0} /\ Second \in Nat
        BY TimeAssumption DEF IInv, TypeOK
      <4>2. CASE timers = <<>>
        BY <4>1, <4>2 DEF next_wake_up_time
      <4>3. CASE timers # <<>>
        <5>1. id[Head(timers)].due \in Nat
          BY <4>3, FrontEffect, RefEffect DEF IInv, TypeOK
        <5>2. CASE id[Head(timers)].due <= now
          BY <4>1, <4>3, <5>2 DEF next_wake_up_time
        <5>3. CASE ~(id[Head(timers)].due <= now)
          <6>1. (id[Head(timers)].due - now) \div Ms \in Nat
            BY <4>1, <5>1, <5>3
          <6>2. ((id[Head(timers)].due - now) \div Ms) * Ms \in Nat
            BY <4>1, <6>1
          <6> QED BY <4>1, <4>3, <5>3, <6>2 DEF next_wake_up_time
        <5> QED BY <5>2, <5>3
      <4> QED BY <4>2, <4>3
    <3> QED BY <1>3, <3>1 DEF run, run_check, epoll_wait, epoll_wait_event, drain_begin, IInv, TypeOK, loopVars
  <2>4. tid' \in {Null, Loop} /\ ts' \in 0..MaxTime /\ now' = now
    BY <1>3 DEF run, run_check, epoll_wait, epoll_wait_event, drain_begin, IInv, TypeOK, engineVars
  <2>5. batch' \in Nat /\ batch' <= Len(q)
    BY <1>3 DEF run, run_check, epoll_wait, epoll_wait_event, drain_begin, IInv, TypeOK, engineVars
  <2>6. TypeOK'
    BY <1>1, <2>1, <2>3, <2>4, <2>5 DEF IInv, TypeOK
  <2>7. Shape'
    BY <1>1, <2>1, <2>2 DEF IInv, Shape
  <2> QED BY <1>1, <2>2, <2>6, <2>7, QuietStep
<1> QED BY <1>2, <1>3

\* The closure of a fire is run: its reference becomes the list's.
LEMMA RunScheduleStep ==
  ASSUME IInv, run_schedule PROVE IInv'
<1> DEFINE i == Head(q).id
<1>1. /\ lpc = "batch" /\ batch > 0 /\ Head(q).k = "schedule" /\ q' = Tail(q) /\ batch' = batch - 1
      /\ id' = [id EXCEPT ![i] = Release(AddRef(@), 1)]
      /\ \E p \in upper_bound(timers, id, i) : timers' = InsertAfter(timers, p, i)
      /\ UNCHANGED <<now, tid, loopVars, owner, pc, history>>
  BY DEF run_schedule, At
<1>2. timers \in Seq(Id) /\ q \in Seq(Closure) /\ q # <<>> /\ batch \in Nat /\ batch <= Len(q)
  BY <1>1 DEF IInv, TypeOK
<1>3. /\ i \in Id /\ q' \in Seq(Closure) /\ Len(q') = Len(q) - 1 /\ Len(q) \in Nat
      /\ \A j \in Id : /\ Posted(q, j) = Posted(q', j) + IF j = i THEN 1 ELSE 0
                       /\ Scheduling(q, j) = Scheduling(q', j) + IF j = i THEN 1 ELSE 0
  BY <1>1, <1>2, TakeEffect
<1> HIDE DEF i
<1>4. /\ timers' \in Seq(Id)
      /\ \A j \in Id : Listed(timers', j) = Listed(timers, j) + IF j = i THEN 1 ELSE 0
  BY <1>1, <1>2, <1>3, Bound, InsertEffect
<1>5. ASSUME NEW j \in Id PROVE Posted(q', j) \in Nat /\ Scheduling(q', j) \in Nat
  BY <1>3, PostedNat
<1>6. id' = id
  <2>1. Num(i) /\ id[i] \in IdType /\ id \in [Id -> IdType]
    BY <1>3, Numbers DEF IInv, TypeOK
  <2>2. id[i].ref >= 1
    BY <1>3, <1>5, <2>1, SMTT(20) DEF Num
  <2>3. Release(AddRef(id[i]), 1) = id[i]
    BY <2>1, <2>2, RefAndBack
  <2> QED BY <1>1, <2>1, <2>3
<1>7. TypeOK'
  BY <1>1, <1>2, <1>3, <1>4, <1>6 DEF IInv, TypeOK, loopVars, history
<1>8. Shape'
  BY <1>1 DEF IInv, Shape, loopVars
<1>9. ASSUME NEW j \in Id PROVE Counted(j)' /\ Ended(j)'
  <2>1. Num(j)
    BY Numbers
  <2>2. /\ Posted(q, j) = Posted(q', j) + IF j = i THEN 1 ELSE 0
        /\ Scheduling(q, j) = Scheduling(q', j) + IF j = i THEN 1 ELSE 0
        /\ Listed(timers', j) = Listed(timers, j) + IF j = i THEN 1 ELSE 0
        /\ Posted(q', j) \in Nat /\ Scheduling(q', j) \in Nat
    BY <1>3, <1>4, <1>5
  <2>3. /\ owner' = owner /\ fires' = fires /\ ends' = ends /\ lpc' = lpc /\ cur' = cur
    BY <1>1 DEF loopVars, history
  <2>4. Counted(j)'
    <3>1. Listed(timers', j) + Posted(q', j) = Listed(timers, j) + Posted(q, j) /\ Listed(timers', j) \in Nat
      <4>1. Listed(timers, j) \in Nat
        BY <2>1 DEF Num
      <4>2. CASE j = i
        BY <2>2, <4>1, <4>2
      <4>3. CASE j # i
        BY <2>2, <4>1, <4>3
      <4> QED BY <4>2, <4>3
    <3>2. id'[j].ref = Owned(owner', j) + Listed(timers', j) + Posted(q', j) + Pinned(lpc', cur', j)
      BY <1>6, <2>1, <2>2, <2>3, <3>1 DEF Num
    <3>3. id'[j].st = "live" <=> id'[j].ref > 0
      BY <1>6, <2>1 DEF Num
    <3> QED BY <3>2, <3>3 DEF Counted
  <2>5. Ended(j)'
    <3>1. Listed(timers', j) + Scheduling(q', j) = Listed(timers, j) + Scheduling(q, j) /\ Listed(timers', j) \in Nat
      <4>1. Listed(timers, j) \in Nat
        BY <2>1 DEF Num
      <4>2. CASE j = i
        BY <2>2, <4>1, <4>2
      <4>3. CASE j # i
        BY <2>2, <4>1, <4>3
      <4> QED BY <4>2, <4>3
    <3>2. fires'[j] = ends'[j] + Listed(timers', j) + Scheduling(q', j) + Draining(lpc', cur', j)
      BY <2>1, <2>2, <2>3, <3>1 DEF Num
    <3> QED BY <3>2 DEF Ended
  <2> QED BY <2>4, <2>5
<1> QED BY <1>7, <1>8, <1>9 DEF IInv

\* The closure of a cancel is run: a timer that is found moves, with the
\* list's reference and the closure's, to its callback; else the closure's
\* goes.
LEMMA RunCancelStep ==
  ASSUME IInv, run_cancel PROVE IInv'
<1> DEFINE i == Head(q).id
<1>1. /\ lpc = "batch" /\ batch > 0 /\ Head(q).k = "cancel" /\ q' = Tail(q) /\ batch' = batch - 1
      /\ \/ i \in Elems(timers) /\ cancel_found(i)
         \/ /\ i \notin Elems(timers) /\ id' = [id EXCEPT ![i] = Release(@, 1)]
            /\ UNCHANGED <<timers, cur, lpc, ends>>
      /\ UNCHANGED <<now, tid, wake, ts, owner, pc, fires>>
  BY DEF run_cancel, At
<1>2. timers \in Seq(Id) /\ q \in Seq(Closure) /\ q # <<>> /\ batch \in Nat /\ batch <= Len(q) /\ cur = Null
  BY <1>1 DEF IInv, TypeOK, Shape
<1>3. /\ i \in Id /\ q' \in Seq(Closure) /\ Len(q') = Len(q) - 1 /\ Len(q) \in Nat
      /\ \A j \in Id : /\ Posted(q, j) = Posted(q', j) + IF j = i THEN 1 ELSE 0
                       /\ Scheduling(q, j) = Scheduling(q', j) + 0
  BY <1>1, <1>2, TakeEffect
<1> HIDE DEF i
<1>4. ASSUME NEW j \in Id
      PROVE  /\ Posted(q', j) \in Nat /\ Scheduling(q', j) \in Nat /\ Scheduling(q, j) = Scheduling(q', j)
             /\ Posted(q, j) = Posted(q', j) + IF j = i THEN 1 ELSE 0
             /\ Pinned(lpc, cur, j) = 0 /\ Draining(lpc, cur, j) = 0 /\ Num(j) /\ j # Null
  <2>1. Posted(q', j) \in Nat /\ Scheduling(q', j) \in Nat
    BY <1>3, PostedNat
  <2>2. Num(j) /\ j # Null /\ Pinned(lpc, cur, j) = 0 /\ Draining(lpc, cur, j) = 0
    BY <1>2, Numbers, NullAssumption
  <2>3. /\ Posted(q, j) = Posted(q', j) + IF j = i THEN 1 ELSE 0
        /\ Scheduling(q, j) = Scheduling(q', j) + 0
    BY <1>3
  <2>4. Scheduling(q, j) = Scheduling(q', j)
    BY <2>1, <2>3
  <2> QED BY <2>1, <2>2, <2>3, <2>4
<1>5. CASE i \in Elems(timers) /\ cancel_found(i)
  <2>1. /\ timers' = EraseAt(timers, FirstAt(timers, i)) /\ cur' = i /\ lpc' = "cancel_cb"
        /\ ends' = [ends EXCEPT ![i] = @ + 1] /\ id' = id
    BY <1>5 DEF cancel_found
  <2>2. /\ timers' \in Seq(Id)
        /\ \A j \in Id : Listed(timers, j) = Listed(timers', j) + IF j = i THEN 1 ELSE 0
    BY <1>2, <1>5, <2>1, EraseEffect
  <2>3. TypeOK'
    BY <1>1, <1>2, <1>3, <2>1, <2>2 DEF IInv, TypeOK
  <2>4. Shape'
    BY <1>1, <1>3, <1>4, <2>1 DEF IInv, Shape
  <2>5. ASSUME NEW j \in Id PROVE Counted(j)' /\ Ended(j)'
    <3>1. Listed(timers', j) \in Nat /\ Listed(timers, j) = Listed(timers', j) + IF j = i THEN 1 ELSE 0
      BY <2>2, ListedNat
    <3>2. Pinned(lpc', cur', j) = (IF j = i THEN 2 ELSE 0) /\ Draining(lpc', cur', j) = 0
      BY <2>1 DEF Pinned, Draining
    <3>3. ends'[j] = ends[j] + IF j = i THEN 1 ELSE 0
      <4>1. ends \in [Id -> Nat] /\ ends[j] \in Nat
        BY DEF IInv, TypeOK
      <4> QED BY <2>1, <4>1
    <3>4. Counted(j)'
      <4>1. /\ Num(j) /\ Posted(q', j) \in Nat /\ Pinned(lpc, cur, j) = 0
            /\ Posted(q, j) = Posted(q', j) + IF j = i THEN 1 ELSE 0
        BY <1>4
      <4>2. Listed(timers', j) + Posted(q', j) + Pinned(lpc', cur', j) = Listed(timers, j) + Posted(q, j)
        BY <3>1, <3>2, <4>1
      <4>3. owner' = owner /\ id' = id
        BY <1>1, <2>1
      <4>4. Pinned(lpc', cur', j) \in Nat
        BY <3>2
      <4>5. id[j].ref = Owned(owner, j) + Listed(timers', j) + Posted(q', j) + Pinned(lpc', cur', j)
        BY <3>1, <4>1, <4>2, <4>4 DEF Num
      <4> QED BY <4>1, <4>3, <4>5 DEF Num, Counted
    <3>5. Ended(j)'
      <4>1. Num(j) /\ Scheduling(q', j) = Scheduling(q, j) /\ Draining(lpc, cur, j) = 0
        BY <1>4
      <4>2. ends'[j] + Listed(timers', j) = ends[j] + Listed(timers, j) /\ ends'[j] \in Nat
        BY <3>1, <3>3, <4>1 DEF Num
      <4>3. fires[j] = ends'[j] + Listed(timers', j) + Scheduling(q', j) + 0
        BY <3>1, <4>1, <4>2 DEF Num
      <4> QED BY <1>1, <3>2, <4>3 DEF Ended
    <3> QED BY <3>4, <3>5
  <2> QED BY <2>3, <2>4, <2>5 DEF IInv
<1>6. CASE id' = [id EXCEPT ![i] = Release(@, 1)] /\ UNCHANGED <<timers, cur, lpc, ends>>
  <2>1. id[i] \in IdType /\ id[i].ref \in Nat /\ id[i].ref >= 1 /\ id[i].st = "live"
    BY <1>3, <1>4, Numbers DEF Num
  <2>2. /\ id' \in [Id -> IdType] /\ id'[i] = Release(id[i], 1) /\ id'[i].ref = id[i].ref - 1
        /\ \A j \in Id : j # i => id'[j] = id[j]
    BY <1>3, <1>6, <2>1, RefEffect DEF IInv, TypeOK
  <2>3. id'[i].st = "live" <=> id'[i].ref > 0
    BY <2>1, <2>2, RefEffect DEF Freed
  <2>4. TypeOK'
    BY <1>1, <1>2, <1>3, <1>6, <2>2 DEF IInv, TypeOK
  <2>5. Shape'
    BY <1>1, <1>6 DEF IInv, Shape
  <2>6. ASSUME NEW j \in Id PROVE Counted(j)' /\ Ended(j)'
    <3>1. id'[j].ref = id[j].ref - (IF j = i THEN 1 ELSE 0) /\ (id'[j].st = "live" <=> id'[j].ref > 0)
      <4>1. CASE j = i
        BY <2>2, <2>3, <4>1
      <4>2. CASE j # i
        BY <1>4, <2>2, <4>2 DEF Num
      <4> QED BY <4>1, <4>2
    <3>2. Counted(j)'
      BY <1>1, <1>4, <1>6, <3>1 DEF Num, Counted
    <3>3. Ended(j)'
      BY <1>1, <1>4, <1>6 DEF Num, Ended
    <3> QED BY <3>2, <3>3
  <2> QED BY <2>4, <2>5, <2>6 DEF IInv
<1> QED BY <1>1, <1>5, <1>6

\* A reference count that loses n of the references it counts.
LEMMA Dropped ==
  ASSUME IInv, NEW i \in Id, NEW n \in {1, 2}, Pinned(lpc, cur, i) = n,
         id' = [id EXCEPT ![i] = Release(@, n)]
  PROVE  /\ id' \in [Id -> IdType] /\ id'[i].ref = id[i].ref - n
         /\ id'[i].ref = Owned(owner, i) + Listed(timers, i) + Posted(q, i) + 0
         /\ id'[i].st = "live" <=> id'[i].ref > 0
         /\ \A j \in Id : j # i => id'[j] = id[j]
<1>1. Num(i) /\ id[i] \in IdType /\ id \in [Id -> IdType]
  BY Numbers DEF IInv, TypeOK
<1>2. /\ id[i].ref \in Nat /\ id[i].ref >= n /\ id[i].st = "live"
      /\ id[i].ref - n = Owned(owner, i) + Listed(timers, i) + Posted(q, i) + 0
  BY <1>1 DEF Num
<1>3. /\ id' \in [Id -> IdType] /\ id'[i] = Release(id[i], n) /\ id'[i].ref = id[i].ref - n
      /\ \A j \in Id : j # i => id'[j] = id[j]
  BY <1>1, <1>2, RefEffect
<1>4. id'[i].st = "live" <=> id'[i].ref > 0
  <2>1. CASE id[i].ref = n
    BY <1>1, <1>2, <1>3, <2>1, RefEffect DEF Freed
  <2>2. CASE id[i].ref # n
    BY <1>1, <1>2, <1>3, <2>2, RefEffect
  <2> QED BY <2>1, <2>2
<1> QED BY <1>2, <1>3, <1>4

\* The callback of a cancelled timer returns: both its references go.
LEMMA CancelReturnStep ==
  ASSUME IInv, cancel_return PROVE IInv'
<1> DEFINE i == cur
<1>1. /\ lpc = "cancel_cb" /\ id' = [id EXCEPT ![i] = Release(@, 2)] /\ cur' = Null /\ lpc' = "batch"
      /\ UNCHANGED <<now, engineVars, wake, ts, owner, pc, history>>
  BY DEF cancel_return, At
<1>2. i \in Id /\ i = cur
  BY <1>1 DEF IInv, TypeOK, Shape
<1> HIDE DEF i
<1>3. Pinned(lpc, cur, i) = 2 /\ Draining(lpc, cur, i) = 0
  BY <1>1, <1>2 DEF Pinned, Draining
<1>4. /\ id' \in [Id -> IdType] /\ id'[i].ref = id[i].ref - 2
      /\ id'[i].ref = Owned(owner, i) + Listed(timers, i) + Posted(q, i) + 0
      /\ id'[i].st = "live" <=> id'[i].ref > 0
      /\ \A j \in Id : j # i => id'[j] = id[j]
  BY <1>1, <1>2, <1>3, Dropped
<1>5. TypeOK'
  BY <1>1, <1>4 DEF IInv, TypeOK, engineVars, history
<1>6. Shape'
  BY <1>1 DEF IInv, Shape
<1>7. ASSUME NEW j \in Id PROVE Counted(j)' /\ Ended(j)'
  <2>1. /\ Pinned(lpc', cur', j) = 0 /\ Draining(lpc', cur', j) = 0
        /\ UNCHANGED <<timers, q, owner, fires, ends>>
    BY <1>1, NullAssumption DEF Pinned, Draining, engineVars, history
  <2>2. CASE j = i
    BY <1>2, <1>3, <1>4, <2>1, <2>2 DEF IInv, Counted, Ended
  <2>3. CASE j # i
    BY <1>2, <1>4, <2>1, <2>3, Numbers DEF IInv, Counted, Ended
  <2> QED BY <2>2, <2>3
<1> QED BY <1>5, <1>6, <1>7 DEF IInv

\* A timer that is due moves, with the list's reference, to its callback.
LEMMA DrainNextStep ==
  ASSUME IInv, drain_next PROVE IInv'
<1>1. /\ lpc = "drain" /\ cur = Null /\ timers \in Seq(Id)
      /\ UNCHANGED <<now, q, batch, tid, wake, id, owner, pc, history>>
  BY DEF drain_next, At, IInv, Shape, TypeOK
<1>2. CASE timers # <<>> /\ cur' = Head(timers) /\ timers' = Tail(timers) /\ lpc' = "drain_cb" /\ ts' = ts
  <2> DEFINE i == Head(timers)
  <2>1. /\ i \in Id /\ timers' \in Seq(Id) /\ cur' = i
        /\ \A j \in Id : Listed(timers, j) = Listed(timers', j) + IF j = i THEN 1 ELSE 0
    BY <1>1, <1>2, FrontEffect
  <2> HIDE DEF i
  <2>2. TypeOK'
    BY <1>1, <1>2, <2>1 DEF IInv, TypeOK, history
  <2>3. Shape'
    BY <1>1, <1>2, <2>1, NullAssumption DEF IInv, Shape
  <2>4. ASSUME NEW j \in Id PROVE Counted(j)' /\ Ended(j)'
    <3>1. /\ Num(j) /\ Pinned(lpc, cur, j) = 0 /\ Draining(lpc, cur, j) = 0
      BY <1>1, Numbers, NullAssumption
    <3>2. Listed(timers', j) \in Nat /\ Listed(timers, j) = Listed(timers', j) + IF j = i THEN 1 ELSE 0
      BY <2>1, ListedNat
    <3>3. UNCHANGED <<q, owner, id, fires, ends>>
      BY <1>1 DEF history
    <3>4. /\ Pinned(lpc', cur', j) = IF j = i THEN 1 ELSE 0
          /\ Draining(lpc', cur', j) = IF j = i THEN 1 ELSE 0
      BY <1>2, <2>1 DEF Pinned, Draining
    <3>5. CASE j = i
      BY <3>1, <3>2, <3>3, <3>4, <3>5 DEF Num, Counted, Ended
    <3>6. CASE j # i
      BY <3>1, <3>2, <3>3, <3>4, <3>6 DEF Num, Counted, Ended
    <3> QED BY <3>5, <3>6
  <2> QED BY <2>2, <2>3, <2>4 DEF IInv
<1>3. CASE lpc' = "check" /\ ts' = 0 /\ UNCHANGED <<cur, timers>>
  <2>1. TypeOK'
    BY <1>1, <1>3, TimeAssumption DEF IInv, TypeOK, history
  <2>2. Shape'
    BY <1>1, <1>3 DEF IInv, Shape
  <2> QED BY <1>1, <1>3, <2>1, <2>2, QuietStep DEF history
<1> QED BY <1>2, <1>3 DEF drain_next

\* The callback of a timer that was due returns: a repeating one enters the
\* list again with the reference it had, another one has ended.
LEMMA DrainReturnStep ==
  ASSUME IInv, drain_return PROVE IInv'
<1> DEFINE i == cur
           r == [id EXCEPT ![i].due = @ + id[i].rep]
<1>1. /\ lpc = "drain_cb" /\ cur' = Null /\ lpc' = "drain"
      /\ UNCHANGED <<now, q, batch, tid, wake, ts, owner, pc, fires>>
      /\ \/ /\ id' = [r EXCEPT ![i] = Release(AddRef(@), 1)] /\ UNCHANGED ends
            /\ \E p \in upper_bound(timers, r, i) : timers' = InsertAfter(timers, p, i)
         \/ /\ id' = [id EXCEPT ![i] = Release(@, 1)] /\ UNCHANGED timers
            /\ ends' = [ends EXCEPT ![i] = @ + 1]
  BY DEF drain_return, At, again
<1>2. i \in Id /\ i = cur /\ timers \in Seq(Id) /\ id \in [Id -> IdType] /\ ends \in [Id -> Nat]
  BY <1>1 DEF IInv, TypeOK, Shape
<1> HIDE DEF i
<1>3. Pinned(lpc, cur, i) = 1 /\ Draining(lpc, cur, i) = 1
  BY <1>1, <1>2 DEF Pinned, Draining
<1>4. Shape'
  BY <1>1 DEF IInv, Shape
<1>5. ASSUME NEW j \in Id
      PROVE  /\ Pinned(lpc', cur', j) = 0 /\ Draining(lpc', cur', j) = 0 /\ Num(j)
             /\ j # i => Pinned(lpc, cur, j) = 0 /\ Draining(lpc, cur, j) = 0
             /\ UNCHANGED <<q, owner, fires>>
  <2>1. Pinned(lpc', cur', j) = 0 /\ Draining(lpc', cur', j) = 0
    BY <1>1, NullAssumption DEF Pinned, Draining
  <2>2. Num(j) /\ (j # i => Pinned(lpc, cur, j) = 0 /\ Draining(lpc, cur, j) = 0)
    BY <1>2, Numbers
  <2> QED BY <1>1, <2>1, <2>2
<1>6. CASE /\ id' = [id EXCEPT ![i] = Release(@, 1)] /\ UNCHANGED timers
           /\ ends' = [ends EXCEPT ![i] = @ + 1]
  <2>1. /\ id' \in [Id -> IdType] /\ id'[i].ref = id[i].ref - 1
        /\ id'[i].ref = Owned(owner, i) + Listed(timers, i) + Posted(q, i) + 0
        /\ id'[i].st = "live" <=> id'[i].ref > 0
        /\ \A j \in Id : j # i => id'[j] = id[j]
    BY <1>2, <1>3, <1>6, Dropped
  <2>2. ends' \in [Id -> Nat] /\ ends'[i] = ends[i] + 1 /\ \A j \in Id : j # i => ends'[j] = ends[j]
    BY <1>2, <1>6
  <2>3. TypeOK'
    BY <1>1, <1>6, <2>1, <2>2 DEF IInv, TypeOK
  <2>4. ASSUME NEW j \in Id PROVE Counted(j)' /\ Ended(j)'
    <3>1. /\ Pinned(lpc', cur', j) = 0 /\ Draining(lpc', cur', j) = 0 /\ Num(j)
          /\ j # i => Pinned(lpc, cur, j) = 0 /\ Draining(lpc, cur, j) = 0
          /\ UNCHANGED <<q, owner, fires, timers>>
      BY <1>5, <1>6
    <3>2. CASE j = i
      <4>1. Counted(j)'
        <5>1. /\ id'[j].ref = Owned(owner, j) + Listed(timers, j) + Posted(q, j) + 0
              /\ id'[j].st = "live" <=> id'[j].ref > 0
          BY <2>1, <3>2
        <5> QED BY <3>1, <5>1 DEF Counted
      <4>2. fires[j] = (ends[j] + 1) + Listed(timers, j) + Scheduling(q, j) + 0
        BY <1>3, <3>1, <3>2 DEF Num
      <4>3. ends'[j] = ends[j] + 1
        BY <2>2, <3>2
      <4> QED BY <3>1, <4>1, <4>2, <4>3 DEF Ended
    <3>3. CASE j # i
      <4>1. id'[j] = id[j] /\ ends'[j] = ends[j] /\ Pinned(lpc, cur, j) = 0 /\ Draining(lpc, cur, j) = 0
        BY <2>1, <2>2, <3>1, <3>3
      <4> QED BY <3>1, <4>1 DEF Num, Counted, Ended
    <3> QED BY <3>2, <3>3
  <2> QED BY <1>4, <2>3, <2>4 DEF IInv
<1>7. CASE /\ id' = [r EXCEPT ![i] = Release(AddRef(@), 1)] /\ UNCHANGED ends
           /\ \E p \in upper_bound(timers, r, i) : timers' = InsertAfter(timers, p, i)
  <2>1. Num(i) /\ id[i] \in IdType
    BY <1>2, Numbers
  <2>2. id[i].ref \in Nat /\ id[i].ref >= 1
    BY <1>3, <2>1 DEF Num
  <2>3. /\ r \in [Id -> IdType] /\ r[i].ref = id[i].ref
        /\ \A j \in Id : r[j].ref = id[j].ref /\ r[j].st = id[j].st
    <3>1. id[i].due + id[i].rep \in Nat
      BY <2>1, RefEffect
    <3> QED BY <1>2, <3>1, ZenonT(30) DEF IdType
  <2>4. Release(AddRef(r[i]), 1) = r[i]
    BY <1>2, <2>2, <2>3, RefAndBack
  <2>5. id' = r
    BY <1>2, <1>7, <2>3, <2>4
  <2>6. /\ timers' \in Seq(Id)
        /\ \A j \in Id : Listed(timers', j) = Listed(timers, j) + IF j = i THEN 1 ELSE 0
    BY <1>2, <1>7, Bound, InsertEffect
  <2> HIDE DEF r
  <2>7. TypeOK'
    BY <1>1, <1>7, <2>3, <2>5, <2>6 DEF IInv, TypeOK
  <2>8. ASSUME NEW j \in Id PROVE Counted(j)' /\ Ended(j)'
    <3>1. id'[j].ref = id[j].ref /\ id'[j].st = id[j].st
      BY <2>3, <2>5
    <3>2. /\ Pinned(lpc', cur', j) = 0 /\ Draining(lpc', cur', j) = 0 /\ Num(j)
          /\ j # i => Pinned(lpc, cur, j) = 0 /\ Draining(lpc, cur, j) = 0
          /\ UNCHANGED <<q, owner, fires, ends>>
      BY <1>5, <1>7
    <3>3. Listed(timers', j) = Listed(timers, j) + IF j = i THEN 1 ELSE 0
      BY <2>6
    <3>4. /\ Listed(timers', j) \in Nat /\ Listed(timers', j) = Listed(timers, j) + Pinned(lpc, cur, j)
          /\ Pinned(lpc, cur, j) = Draining(lpc, cur, j)
      <4>1. CASE j = i
        BY <1>3, <3>2, <3>3, <4>1 DEF Num
      <4>2. CASE j # i
        BY <3>2, <3>3, <4>2 DEF Num
      <4> QED BY <4>1, <4>2
    <3>5. Counted(j)'
      BY <3>1, <3>2, <3>4 DEF Num, Counted
    <3>6. Ended(j)'
      BY <3>2, <3>4 DEF Num, Ended
    <3> QED BY <3>5, <3>6
  <2> QED BY <1>4, <2>7, <2>8 DEF IInv
<1> QED BY <1>1, <1>6, <1>7

-----------------------------------------------------------------------------
(* The invariant, and what follows from it.                                *)

\* It holds of a new engine.
LEMMA InitIInv == Init => IInv
<1> SUFFICES ASSUME Init PROVE IInv
  OBVIOUS
<1>1. TypeOK
  BY TimeAssumption DEF Init, TypeOK, IdType, Caller
<1>2. Shape
  BY DEF Init, Shape
<1>3. ASSUME NEW i \in Id PROVE Counted(i) /\ Ended(i)
  <2>1. timers = <<>> /\ q = <<>> /\ timers \in Seq(Id) /\ q \in Seq(Closure)
    BY DEF Init
  <2>2. Listed(timers, i) = 0 /\ Posted(q, i) = 0 /\ Scheduling(q, i) = 0
    BY <2>1, ListedNat, PostedNat
  <2>3. Owned(owner, i) = 0 /\ Pinned(lpc, cur, i) = 0 /\ Draining(lpc, cur, i) = 0
    BY NullAssumption DEF Init, Owned, Pinned, Draining
  <2>4. id[i].ref = 0 /\ id[i].st = "new" /\ fires[i] = 0 /\ ends[i] = 0
    BY DEF Init
  <2> QED BY <2>2, <2>3, <2>4 DEF Counted, Ended
<1> QED BY <1>1, <1>2, <1>3 DEF IInv

\* A call by some thread keeps it.
LEMMA CallIInv ==
  ASSUME IInv, NEW t \in Caller, Call(t) PROVE IInv'
<1>1. ASSUME NEW i \in Id, new_timer(t, i) \/ delete_timer(t, i) \/ fire(t, i) \/ cancel(t, i) PROVE IInv'
  BY <1>1, NewStep, DeleteStep, FireStep, CancelStep
<1>2. ASSUME NEW i \in Id, NEW d \in Delays, NEW r \in Reps, due_time(t, i, d, r) PROVE IInv'
  BY <1>2, DueStep
<1> QED BY <1>1, <1>2 DEF Call

\* So does every step.
LEMMA NextIInv ==
  ASSUME IInv, [Next]_vars PROVE IInv'
<1>1. CASE UNCHANGED vars
  <2>1. TypeOK' /\ Shape'
    BY <1>1 DEF vars, IInv, TypeOK, Shape, engineVars, loopVars, history
  <2> QED BY <1>1, <2>1, QuietStep DEF vars, engineVars, loopVars, history
<1>2. ASSUME NEW t \in Caller, Call(t) \/ timer_cancel(t) PROVE IInv'
  BY <1>2, CallIInv, TimerCancelStep
<1>3. CASE run \/ run_check \/ epoll_wait \/ epoll_wait_event \/ drain_begin \/ Tick
  BY <1>3, MoveStep
<1>4. CASE run_schedule
  BY <1>4, RunScheduleStep
<1>5. CASE run_cancel
  BY <1>5, RunCancelStep
<1>6. CASE cancel_return
  BY <1>6, CancelReturnStep
<1>7. CASE drain_next
  BY <1>7, DrainNextStep
<1>8. CASE drain_return
  BY <1>8, DrainReturnStep
<1> QED BY <1>1, <1>2, <1>3, <1>4, <1>5, <1>6, <1>7, <1>8 DEF Next, LoopStep

\* The references that are counted are the ones that IdRefcount lists.
LEMMA CountedReferences ==
  ASSUME IInv PROVE IdRefcount /\ FireEndsOnce
<1>1. ASSUME NEW i \in Id
      PROVE  /\ Num(i) /\ Occ(timers, i) = Listed(timers, i) /\ Occ(q, Sched(i)) = Scheduling(q, i)
             /\ Cardinality({k \in DOMAIN q : q[k].id = i}) = Posted(q, i)
  BY Numbers, ListedNat, PostedNat DEF IInv, TypeOK
<1>2. ASSUME NEW i \in Id PROVE References(i) = id[i].ref
  BY <1>1 DEF References, Num, Owned, Pinned
<1>3. IdRefcount
  BY <1>1, <1>2 DEF IdRefcount, Num
<1>4. FireEndsOnce
  BY <1>1 DEF FireEndsOnce, Num, Draining, Sched
<1> QED BY <1>3, <1>4

\* IInv is an invariant: the types hold, callbacks run for timers, and the
\* two sums of timer::id are kept by every step.
THEOREM TimerInvariant == Spec => []IInv
BY InitIInv, NextIInv, PTL DEF Spec

\* For any number of threads and timers, a timer::id is deleted with the last
\* pointer to it and never before (IdRefcount), whether or not callers set or
\* fire a timer that is still scheduled.
THEOREM IdCounted == Spec => []IdRefcount
BY TimerInvariant, CountedReferences, PTL

\* Each fire has had its last callback, or is in the list, in a closure or in
\* its callback, once (FireEndsOnce).
THEOREM EachFireEnds == Spec => []FireEndsOnce
BY TimerInvariant, CountedReferences, PTL

\* engine::run returns only when every fire has ended (RunReturnsIdle).
THEOREM ReturnsIdle == Spec => RunReturnsIdle
<1>1. ASSUME IInv, [Next]_vars, lpc = "check", lpc' = "out" PROVE \A i \in Id : fires[i] = ends[i]
  <2>1. q = <<>> /\ timers = <<>>
    <3>1. run_check
      BY <1>1 DEF Next, Call, LoopStep, vars, loopVars, At, new_timer, delete_timer, fire, cancel, due_time,
                  timer_cancel, run, epoll_wait, epoll_wait_event, run_schedule, run_cancel, cancel_found,
                  cancel_return, drain_begin, drain_next, drain_return, Tick
    <3> QED BY <1>1, <3>1 DEF run_check
  <2>2. ASSUME NEW i \in Id PROVE fires[i] = ends[i]
    <3>1. Num(i) /\ Listed(timers, i) = 0 /\ Scheduling(q, i) = 0
      BY <1>1, <2>1, Numbers, ListedNat, PostedNat DEF IInv, TypeOK
    <3>2. Draining(lpc, cur, i) = 0
      BY <1>1 DEF Draining
    <3> QED BY <3>1, <3>2 DEF Num
  <2> QED BY <2>2
<1>2. IInv /\ [Next]_vars => [lpc = "check" /\ lpc' = "out" => \A i \in Id : fires[i] = ends[i]]_vars
  BY <1>1
<1> QED BY <1>2, TimerInvariant, PTL DEF Spec, RunReturnsIdle

-----------------------------------------------------------------------------
(* The list is sorted, where callers do not set or fire a timer that is    *)
(* still scheduled: a timer's due time does not change while it is in the  *)
(* list, and it is there once.                                             *)

\* upper_bound's place keeps the list sorted.
LEMMA InsertSorted ==
  ASSUME NEW s \in Seq(Id), NEW r \in [Id -> IdType], NEW i \in Id, Sorted(s, r),
         NEW p \in upper_bound(s, r, i)
  PROVE  Sorted(InsertAfter(s, p, i), r)
<1> DEFINE u == InsertAfter(s, p, i)
           D(x) == r[x].due
<1>1. /\ p \in 0..Len(s) /\ Len(s) \in Nat
      /\ \A k \in 1..p : r[s[k]].due <= r[i].due
      /\ \A k \in (p + 1)..Len(s) : r[i].due < r[s[k]].due
  BY DEF upper_bound, Places
<1>2. /\ DOMAIN u = 1..(Len(s) + 1)
      /\ \A k \in 1..(Len(s) + 1) : u[k] = IF k <= p THEN s[k] ELSE IF k = p + 1 THEN i ELSE s[k - 1]
  <2> DEFINE a == SubSeq(s, 1, p)
             b == SubSeq(s, p + 1, Len(s))
  <2>1. /\ a \in Seq(Id) /\ b \in Seq(Id) /\ Len(a) = p /\ Len(b) = Len(s) - p
        /\ \A k \in 1..p : a[k] = s[k]
        /\ \A k \in 1..(Len(s) - p) : b[k] = s[p + k]
    BY <1>1
  <2> HIDE DEF a, b
  <2>2. /\ a \o <<i>> \in Seq(Id) /\ Len(a \o <<i>>) = p + 1
        /\ \A k \in 1..(p + 1) : (a \o <<i>>)[k] = IF k <= p THEN s[k] ELSE i
    BY <1>1, <2>1
  <2>3. /\ DOMAIN ((a \o <<i>>) \o b) = 1..(Len(s) + 1)
        /\ \A k \in 1..(p + 1) : ((a \o <<i>>) \o b)[k] = (a \o <<i>>)[k]
        /\ \A k \in (p + 2)..(Len(s) + 1) : ((a \o <<i>>) \o b)[k] = b[k - (p + 1)]
    BY <1>1, <2>1, <2>2
  <2>4. u = (a \o <<i>>) \o b
    BY DEF InsertAfter, a, b
  <2> HIDE DEF u
  <2>5. ASSUME NEW k \in 1..(Len(s) + 1)
        PROVE  u[k] = IF k <= p THEN s[k] ELSE IF k = p + 1 THEN i ELSE s[k - 1]
    <3>1. CASE k <= p + 1
      <4>1. k \in 1..(p + 1) /\ p \in Nat
        BY <1>1, <3>1
      <4>2. u[k] = IF k <= p THEN s[k] ELSE i
        BY <2>2, <2>3, <2>4, <4>1
      <4>3. k <= p \/ k = p + 1
        BY <4>1
      <4> QED BY <4>1, <4>2, <4>3
    <3>2. CASE k > p + 1
      <4>1. k - (p + 1) \in 1..(Len(s) - p) /\ p + (k - (p + 1)) = k - 1 /\ k \in (p + 2)..(Len(s) + 1)
        BY <1>1, <3>2
      <4>2. u[k] = b[k - (p + 1)]
        BY <2>3, <2>4, <4>1
      <4>3. b[k - (p + 1)] = s[p + (k - (p + 1))]
        BY <2>1, <4>1
      <4>4. ~(k <= p) /\ k # p + 1
        BY <1>1, <3>2
      <4> QED BY <4>1, <4>2, <4>3, <4>4
    <3> QED BY <1>1, <3>1, <3>2
  <2> QED BY <2>3, <2>4, <2>5
<1>3. \A x \in Id : D(x) \in Nat
  BY DEF IdType
<1>4. \A k \in 1..Len(s) : s[k] \in Id
  OBVIOUS
<1>5. \A j, k \in 1..Len(s) : j < k => D(s[j]) <= D(s[k])
  BY DEF Sorted
<1>6. (\A k \in 1..p : D(s[k]) <= D(i)) /\ (\A k \in (p + 1)..Len(s) : D(i) < D(s[k]))
  BY <1>1
<1> HIDE DEF u, D
<1>7. ASSUME NEW j \in 1..(Len(s) + 1), NEW k \in 1..(Len(s) + 1), j < k PROVE D(u[j]) <= D(u[k])
  <2>1. CASE k <= p
    <3>1. u[j] = s[j] /\ u[k] = s[k] /\ j \in 1..Len(s) /\ k \in 1..Len(s)
      BY <1>1, <1>2, <1>7, <2>1
    <3> QED BY <1>5, <1>7, <3>1
  <2>2. CASE k = p + 1
    <3>1. u[j] = s[j] /\ u[k] = i /\ j \in 1..p
      BY <1>1, <1>2, <1>7, <2>2
    <3> QED BY <1>6, <3>1
  <2>3. CASE k > p + 1
    <3>1. u[k] = s[k - 1] /\ k - 1 \in (p + 1)..Len(s) /\ k - 1 \in 1..Len(s)
      BY <1>1, <1>2, <1>7, <2>3
    <3>2. CASE j <= p
      <4>1. u[j] = s[j] /\ j \in 1..Len(s) /\ j < k - 1
        BY <1>1, <1>2, <2>3, <3>2
      <4> QED BY <1>5, <3>1, <4>1
    <3>3. CASE j = p + 1
      <4>1. u[j] = i
        BY <1>1, <1>2, <3>3
      <4>2. D(i) < D(s[k - 1])
        BY <1>6, <3>1
      <4> QED BY <1>3, <1>4, <3>1, <4>1, <4>2
    <3>4. CASE j > p + 1
      <4>1. u[j] = s[j - 1] /\ j - 1 \in 1..Len(s) /\ j - 1 < k - 1
        BY <1>1, <1>2, <1>7, <3>4
      <4> QED BY <1>5, <3>1, <4>1
    <3> QED BY <1>1, <3>2, <3>3, <3>4
  <2> QED BY <1>1, <2>1, <2>2, <2>3
<1> QED BY <1>2, <1>7 DEF Sorted, u, D

\* A sorted list stays sorted without one of its timers.
LEMMA EraseSorted ==
  ASSUME NEW s \in Seq(Id), NEW r, Sorted(s, r), NEW p \in 1..Len(s)
  PROVE  Sorted(EraseAt(s, p), r)
<1> DEFINE u == EraseAt(s, p)
<1>1. /\ DOMAIN u = 1..(Len(s) - 1) /\ Len(s) \in Nat
      /\ \A k \in 1..(Len(s) - 1) : u[k] = IF k < p THEN s[k] ELSE s[k + 1]
  <2> DEFINE a == SubSeq(s, 1, p - 1)
             b == SubSeq(s, p + 1, Len(s))
  <2>1. /\ a \in Seq(Id) /\ b \in Seq(Id) /\ Len(a) = p - 1 /\ Len(b) = Len(s) - p /\ Len(s) \in Nat
        /\ \A k \in 1..(p - 1) : a[k] = s[k]
        /\ \A k \in 1..(Len(s) - p) : b[k] = s[p + k]
    OBVIOUS
  <2> HIDE DEF a, b
  <2>2. /\ DOMAIN (a \o b) = 1..(Len(s) - 1)
        /\ \A k \in 1..(p - 1) : (a \o b)[k] = a[k]
        /\ \A k \in p..(Len(s) - 1) : (a \o b)[k] = b[k - (p - 1)]
    BY <2>1
  <2>3. u = a \o b
    BY DEF EraseAt, a, b
  <2> HIDE DEF u
  <2>4. ASSUME NEW k \in 1..(Len(s) - 1)
        PROVE  u[k] = IF k < p THEN s[k] ELSE s[k + 1]
    <3>1. CASE k < p
      BY <2>1, <2>2, <2>3, <3>1
    <3>2. CASE k >= p
      <4>1. k - (p - 1) \in 1..(Len(s) - p) /\ p + (k - (p - 1)) = k + 1 /\ k \in p..(Len(s) - 1)
        BY <2>1, <3>2
      <4> QED BY <2>1, <2>2, <2>3, <3>2, <4>1
    <3> QED BY <3>1, <3>2
  <2> QED BY <2>1, <2>2, <2>3, <2>4
<1> HIDE DEF u
<1>2. ASSUME NEW j \in DOMAIN u, NEW k \in DOMAIN u, j < k PROVE r[u[j]].due <= r[u[k]].due
  <2>1. j \in 1..(Len(s) - 1) /\ k \in 1..(Len(s) - 1) /\ DOMAIN s = 1..Len(s)
    BY <1>1
  <2>2. CASE k < p
    <3>1. u[j] = s[j] /\ u[k] = s[k] /\ j \in 1..Len(s) /\ k \in 1..Len(s)
      BY <1>1, <1>2, <2>1, <2>2
    <3> QED BY <1>2, <2>1, <3>1 DEF Sorted
  <2>3. CASE k >= p /\ j < p
    <3>1. u[j] = s[j] /\ u[k] = s[k + 1] /\ j \in 1..Len(s) /\ k + 1 \in 1..Len(s) /\ j < k + 1
      BY <1>1, <1>2, <2>1, <2>3
    <3> QED BY <2>1, <3>1 DEF Sorted
  <2>4. CASE k >= p /\ j >= p
    <3>1. u[j] = s[j + 1] /\ u[k] = s[k + 1] /\ j + 1 \in 1..Len(s) /\ k + 1 \in 1..Len(s) /\ j + 1 < k + 1
      BY <1>1, <1>2, <2>1, <2>4
    <3> QED BY <2>1, <3>1 DEF Sorted
  <2> QED BY <2>1, <2>2, <2>3, <2>4
<1> QED BY <1>2 DEF Sorted, u

\* And without the front, which is not due after the others.
LEMMA TailSorted ==
  ASSUME NEW s \in Seq(Id), NEW r \in [Id -> IdType], Sorted(s, r), s # <<>>
  PROVE  Sorted(Tail(s), r) /\ \A i \in Elems(s) : r[Head(s)].due <= r[i].due
<1>1. /\ Len(s) \in Nat \ {0} /\ DOMAIN Tail(s) = 1..(Len(s) - 1)
      /\ \A k \in 1..(Len(s) - 1) : Tail(s)[k] = s[k + 1]
  OBVIOUS
<1>2. Head(s) = s[1] /\ Head(s) \in Id /\ DOMAIN s = 1..Len(s)
  OBVIOUS
<1>3. Sorted(Tail(s), r)
  BY <1>1, <1>2 DEF Sorted
<1>4. ASSUME NEW i \in Elems(s) PROVE r[Head(s)].due <= r[i].due
  <2>1. PICK k \in 1..Len(s) : i = s[k]
    BY <1>2 DEF Elems
  <2>2. r[Head(s)].due \in Nat
    BY <1>2 DEF IdType
  <2>3. CASE k = 1
    BY <1>2, <2>1, <2>2, <2>3
  <2>4. CASE k # 1
    BY <1>1, <1>2, <2>1, <2>4 DEF Sorted
  <2> QED BY <2>3, <2>4
<1> QED BY <1>3, <1>4

\* Rounding down to whole milliseconds.
LEMMA RoundDown ==
  ASSUME NEW x \in Nat, NEW m \in Nat \ {0}
  PROVE  (x \div m) * m <= x /\ (x \div m) * m \in Nat
<1>1. (x \div m) * m <= x
  OBVIOUS
<1>2. x \div m \in Nat
  OBVIOUS
<1>3. (x \div m) * m \in Nat
  BY <1>2
<1> QED BY <1>1, <1>3

\* A fired timer is in the list or in a closure, once, and in neither while it
\* is to be scheduled again.
Again(i) == lpc = "drain_cb" /\ cur = i /\ Repeats(i)
Alone(i) ==
  /\ Listed(timers, i) + Scheduling(q, i) <= 1
  /\ Again(i) => Listed(timers, i) + Scheduling(q, i) = 0

SInv == (\A i \in Id : Alone(i)) /\ TimersSorted /\ NeverOversleeps

\* A timer that is not scheduled is in neither.
LEMMA Unscheduled ==
  ASSUME IInv, NEW i \in Id, ~Scheduled(i)
  PROVE  Listed(timers, i) = 0 /\ Scheduling(q, i) = 0 /\ ~Again(i)
<1>1. /\ Listed(timers, i) \in Nat /\ (i \in Elems(timers) <=> Listed(timers, i) > 0)
      /\ Scheduling(q, i) \in Nat /\ (Sched(i) \in Elems(q) <=> Scheduling(q, i) > 0)
  BY ListedNat, PostedNat DEF IInv, TypeOK
<1> QED BY <1>1 DEF Scheduled, Again, Sched

\* The due times in a list decide whether it is sorted.
LEMMA SameDue ==
  ASSUME NEW s \in Seq(Id), NEW r, NEW u, \A i \in Elems(s) : r[i].due = u[i].due, Sorted(s, r)
  PROVE  Sorted(s, u)
BY DEF Sorted, Elems

\* A step that leaves the list, and the due times in it, alone.
LEMMA ListKept ==
  ASSUME IInv, SInv, timers' = timers,
         \A j \in Id : Scheduling(q', j) = Scheduling(q, j),
         \A j \in Id : Listed(timers, j) > 0 => id'[j].due = id[j].due,
         \A j \in Id : Again(j)' => Again(j) \/ Listed(timers, j) + Scheduling(q, j) = 0,
         lpc' = "wait" => lpc = "wait" /\ wake' = wake /\ now' >= now,
         now' \in Nat
  PROVE  SInv'
<1>1. timers \in Seq(Id) /\ now \in Nat /\ wake \in Nat
  BY DEF IInv, TypeOK
<1>2. \A j \in Elems(timers) : j \in Id /\ id'[j].due = id[j].due
  <2>1. ASSUME NEW j \in Elems(timers) PROVE j \in Id
    BY <1>1 DEF Elems
  <2> QED BY <1>1, <2>1, ListedNat
<1>3. ASSUME NEW j \in Id PROVE Alone(j)'
  <2>1. Alone(j)
    BY DEF SInv
  <2>2. Listed(timers', j) + Scheduling(q', j) = Listed(timers, j) + Scheduling(q, j)
    OBVIOUS
  <2> QED BY <2>1, <2>2 DEF Alone
<1>4. TimersSorted'
  <2>1. Sorted(timers, id)
    BY DEF SInv, TimersSorted
  <2>2. Sorted(timers, id')
    BY <1>1, <1>2, <2>1, SameDue
  <2> QED BY <2>2 DEF TimersSorted
<1>5. NeverOversleeps'
  <2> SUFFICES ASSUME lpc' = "wait", NEW i \in Elems(timers) PROVE wake' <= id'[i].due \/ wake' <= now'
    BY DEF NeverOversleeps
  <2>1. wake <= id[i].due \/ wake <= now
    BY DEF SInv, NeverOversleeps
  <2>2. id'[i].due = id[i].due /\ wake' = wake /\ now' >= now
    BY <1>2
  <2> QED BY <1>1, <2>1, <2>2
<1> QED BY <1>3, <1>4, <1>5 DEF SInv

\* A release changes no due time, unless it frees.
LEMMA ReleaseKeeps ==
  ASSUME IInv, NEW i \in Id, NEW n \in {1, 2}, id[i].ref >= n, id' = [id EXCEPT ![i] = Release(@, n)]
  PROVE  \A j \in Id : j # i \/ id[j].ref > n => id'[j].due = id[j].due /\ id'[j].rep = id[j].rep
<1>1. id[i] \in IdType /\ id \in [Id -> IdType] /\ id[i].ref \in Nat
  BY Numbers DEF IInv, TypeOK, Num
<1>2. id[i].ref # n => Release(id[i], n).due = id[i].due /\ Release(id[i], n).rep = id[i].rep
  BY <1>1, RefEffect
<1>3. id'[i] = Release(id[i], n) /\ \A j \in Id : j # i => id'[j] = id[j]
  BY <1>1
<1>4. ASSUME NEW j \in Id, j # i \/ id[j].ref > n PROVE id'[j].due = id[j].due /\ id'[j].rep = id[j].rep
  <2>1. CASE j # i
    BY <1>3, <2>1
  <2>2. CASE j = i
    BY <1>1, <1>2, <1>3, <1>4, <2>2
  <2> QED BY <2>1, <2>2
<1> QED BY <1>4

\* Calls that leave the list alone.
LEMMA CallSorted ==
  ASSUME IInv, SInv, ~Rearm, NEW t \in Caller, NEW i \in Id,
         \/ new_timer(t, i) \/ delete_timer(t, i) \/ cancel(t, i)
         \/ \E d \in Delays, r \in Reps : due_time(t, i, d, r)
  PROVE  SInv'
<1>1. UNCHANGED <<now, timers, q, lpc, cur, wake>> /\ now \in Nat
  <2>1. now \in Nat
    BY DEF IInv, TypeOK
  <2>2. CASE new_timer(t, i) \/ delete_timer(t, i) \/ cancel(t, i)
    BY <2>1, <2>2 DEF new_timer, delete_timer, cancel, engineVars, loopVars
  <2>3. CASE \E d \in Delays, r \in Reps : due_time(t, i, d, r)
    BY <2>1, <2>3 DEF due_time, engineVars, loopVars
  <2> QED BY <2>2, <2>3
<1>2. ASSUME NEW j \in Id PROVE Num(j) /\ id \in [Id -> IdType] /\ id[j] \in IdType
  BY Numbers DEF IInv, TypeOK
<1>3. ASSUME \A j \in Id : Listed(timers, j) > 0 => id'[j].due = id[j].due,
             \A j \in Id : Again(j)' => Again(j) \/ Listed(timers, j) + Scheduling(q, j) = 0
      PROVE  SInv'
  BY <1>1, <1>3, ListKept
<1>4. CASE new_timer(t, i) \/ cancel(t, i)
  <2>1. \A j \in Id : id'[j].due = id[j].due /\ id'[j].rep = id[j].rep
    BY <1>2, <1>4 DEF new_timer, cancel, IdType
  <2>2. \A j \in Id : Again(j)' => Again(j)
    BY <1>1, <2>1 DEF Again, Repeats
  <2> QED BY <1>3, <2>1, <2>2
<1>5. CASE delete_timer(t, i)
  <2>1. owner[i] /\ id' = [id EXCEPT ![i] = Release(@, 1)]
    BY <1>5 DEF delete_timer
  <2>2. Owned(owner, i) = 1 /\ id[i].ref >= 1
    BY <1>2, <2>1 DEF Num, Owned
  <2>3. ASSUME NEW j \in Id, Listed(timers, j) > 0 \/ cur = j
        PROVE  id'[j].due = id[j].due /\ id'[j].rep = id[j].rep
    <3>1. cur = j => Pinned(lpc, cur, j) >= 1
      BY DEF Pinned
    <3>2. j = i => id[j].ref > 1
      BY <1>2, <2>2, <2>3, <3>1 DEF Num
    <3> QED BY <2>1, <2>2, <3>2, ReleaseKeeps
  <2>4. \A j \in Id : Again(j)' => Again(j)
    BY <1>1, <2>3 DEF Again, Repeats
  <2> QED BY <1>3, <2>3, <2>4
<1>6. CASE \E d \in Delays, r \in Reps : due_time(t, i, d, r)
  <2>1. ~Scheduled(i) /\ \A j \in Id : j # i => id'[j] = id[j]
    BY <1>2, <1>6 DEF due_time
  <2>2. Listed(timers, i) = 0 /\ Scheduling(q, i) = 0
    BY <2>1, Unscheduled
  <2>3. \A j \in Id : Again(j)' => Again(j) \/ Listed(timers, j) + Scheduling(q, j) = 0
    BY <1>1, <2>1, <2>2 DEF Again, Repeats
  <2> QED BY <1>3, <2>1, <2>2, <2>3
<1> QED BY <1>4, <1>5, <1>6

\* fire puts a timer in the list in its place, on the loop thread, which is
\* then not waiting.
LEMMA FireSorted ==
  ASSUME IInv, SInv, ~Rearm, NEW t \in Caller, NEW i \in Id, fire(t, i) PROVE SInv'
<1>1. /\ ~Scheduled(i) /\ id' = [id EXCEPT ![i] = AddRef(@)]
      /\ UNCHANGED <<now, lpc, cur, wake>>
      /\ \/ /\ q' = q /\ t = tid /\ MayCall(t)
            /\ \E p \in upper_bound(timers, id, i) : timers' = InsertAfter(timers, p, i)
         \/ timers' = timers /\ q' = Append(q, [k |-> "schedule", id |-> i])
  BY DEF fire, ScheduleIn, fire_posted, execute, loopVars, in_run_loop
<1>2. timers \in Seq(Id) /\ q \in Seq(Closure) /\ id \in [Id -> IdType] /\ now \in Nat
  BY DEF IInv, TypeOK
<1>3. \A j \in Id : id'[j].due = id[j].due /\ id'[j].rep = id[j].rep
  BY <1>1, <1>2, RefEffect
<1>4. Listed(timers, i) = 0 /\ Scheduling(q, i) = 0 /\ ~Again(i)
  BY <1>1, Unscheduled
<1>5. \A j \in Id : Again(j)' <=> Again(j)
  BY <1>1, <1>3 DEF Again, Repeats
<1>6. CASE /\ q' = q /\ t = tid /\ MayCall(t)
           /\ \E p \in upper_bound(timers, id, i) : timers' = InsertAfter(timers, p, i)
  <2>1. PICK p \in upper_bound(timers, id, i) : timers' = InsertAfter(timers, p, i)
    BY <1>6
  <2>2. /\ timers' \in Seq(Id)
        /\ \A j \in Id : Listed(timers', j) = Listed(timers, j) + IF j = i THEN 1 ELSE 0
    BY <1>2, <2>1, Bound, InsertEffect
  <2>3. lpc # "wait"
    BY <1>6, NullAssumption DEF MayCall, IInv, TypeOK, Caller
  <2>4. ASSUME NEW j \in Id PROVE Alone(j)'
    <3>1. CASE j = i
      <4>1. Listed(timers', j) + Scheduling(q', j) = 1
        BY <1>4, <1>6, <2>2, <3>1
      <4> QED BY <1>4, <1>5, <3>1, <4>1 DEF Alone
    <3>2. CASE j # i
      <4>1. Listed(timers, j) \in Nat
        BY <1>2, ListedNat
      <4>2. Listed(timers', j) = Listed(timers, j)
        BY <2>2, <3>2, <4>1
      <4> QED BY <1>5, <1>6, <4>2 DEF SInv, Alone
    <3> QED BY <3>1, <3>2
  <2>5. Sorted(timers', id)
    BY <1>2, <2>1, InsertSorted DEF SInv, TimersSorted
  <2>6. \A j \in Elems(timers') : j \in Id /\ id[j].due = id'[j].due
    <3>1. ASSUME NEW j \in Elems(timers') PROVE j \in Id
      BY <2>2 DEF Elems
    <3> QED BY <1>3, <3>1
  <2>7. TimersSorted'
    BY <2>2, <2>5, <2>6, SameDue DEF TimersSorted
  <2>8. NeverOversleeps'
    BY <1>1, <2>3 DEF NeverOversleeps
  <2> QED BY <2>4, <2>7, <2>8 DEF SInv
<1>7. CASE timers' = timers /\ q' = Append(q, [k |-> "schedule", id |-> i])
  <2>1. \A j \in Id : Scheduling(q', j) = Scheduling(q, j) + IF j = i THEN 1 ELSE 0
    BY <1>2, <1>7, PostEffect
  <2>2. ASSUME NEW j \in Id PROVE Alone(j)'
    <3>1. CASE j = i
      <4>1. Listed(timers', j) + Scheduling(q', j) = 1
        BY <1>4, <1>7, <2>1, <3>1
      <4> QED BY <1>4, <1>5, <3>1, <4>1 DEF Alone
    <3>2. CASE j # i
      <4>1. Scheduling(q, j) \in Nat
        BY <1>2, PostedNat
      <4>2. Scheduling(q', j) = Scheduling(q, j)
        BY <2>1, <3>2, <4>1
      <4> QED BY <1>5, <1>7, <4>2 DEF SInv, Alone
    <3> QED BY <3>1, <3>2
  <2>3. \A j \in Elems(timers) : j \in Id /\ id[j].due = id'[j].due
    <3>1. ASSUME NEW j \in Elems(timers) PROVE j \in Id
      BY <1>2 DEF Elems
    <3> QED BY <1>3, <3>1
  <2>4. TimersSorted'
    BY <1>2, <1>7, <2>3, SameDue DEF SInv, TimersSorted
  <2>5. NeverOversleeps'
    BY <1>1, <1>7, <2>3 DEF SInv, NeverOversleeps
  <2> QED BY <2>2, <2>4, <2>5 DEF SInv
<1> QED BY <1>1, <1>6, <1>7

\* timer_cancel, time, and the loop where it does not look at timers.
LEMMA QuietSorted ==
  ASSUME IInv, SInv,
         \/ \E t \in Caller : timer_cancel(t)
         \/ run \/ epoll_wait \/ epoll_wait_event \/ drain_begin \/ Tick \/ UNCHANGED vars
  PROVE  SInv'
<1>1. timers' = timers /\ now' \in Nat /\ now' >= now /\ now \in Nat
  <2>1. now \in Nat
    BY DEF IInv, TypeOK
  <2>2. timers' = timers /\ now' \in {now, now + 1}
    BY DEF timer_cancel, run, epoll_wait, epoll_wait_event, drain_begin, Tick, vars, engineVars
  <2> QED BY <2>1, <2>2
<1>2. \A j \in Id : id'[j].due = id[j].due /\ id'[j].rep = id[j].rep
  <2>1. CASE \E t \in Caller : timer_cancel(t)
    <3>1. PICK i \in Id : id' = [id EXCEPT ![i] = AddRef(@)]
      BY <2>1 DEF timer_cancel, IInv, TypeOK
    <3>2. id \in [Id -> IdType]
      BY DEF IInv, TypeOK
    <3> QED BY <3>1, <3>2, RefEffect
  <2>2. CASE run \/ epoll_wait \/ epoll_wait_event \/ drain_begin \/ Tick \/ UNCHANGED vars
    BY <2>2 DEF run, epoll_wait, epoll_wait_event, drain_begin, Tick, vars
  <2> QED BY <2>1, <2>2
<1>3. \A j \in Id : Scheduling(q', j) = Scheduling(q, j)
  <2>1. CASE \E t \in Caller : timer_cancel(t)
    <3>1. PICK i \in Id : q' = Append(q, [k |-> "cancel", id |-> i])
      BY <2>1 DEF timer_cancel, IInv, TypeOK, execute
    <3>2. q \in Seq(Closure)
      BY DEF IInv, TypeOK
    <3>3. \A j \in Id : Scheduling(q', j) = Scheduling(q, j) + 0
      BY <3>1, <3>2, PostEffect
    <3>4. \A j \in Id : Scheduling(q, j) \in Nat
      BY <3>2, PostedNat
    <3> QED BY <3>3, <3>4
  <2>2. CASE run \/ epoll_wait \/ epoll_wait_event \/ drain_begin \/ Tick \/ UNCHANGED vars
    BY <2>2 DEF run, epoll_wait, epoll_wait_event, drain_begin, Tick, vars, engineVars
  <2> QED BY <2>1, <2>2
<1>4. /\ lpc' \in {"wait", "drain_cb"} => lpc' = lpc /\ cur' = cur
      /\ lpc' = "wait" => wake' = wake
  BY DEF timer_cancel, run, epoll_wait, epoll_wait_event, drain_begin, Tick, vars, loopVars
<1>5. \A j \in Id : Again(j)' => Again(j)
  BY <1>2, <1>4 DEF Again, Repeats
<1> QED BY <1>1, <1>2, <1>3, <1>4, <1>5, ListKept

\* Before it waits, the loop looks at the front of the list, which is due
\* first, and rounds down.
LEMMA CheckSorted ==
  ASSUME IInv, SInv, run_check PROVE SInv'
<1>1. UNCHANGED <<now, timers, q, cur, id>> /\ lpc' \in {"out", "wait"}
      /\ (lpc' = "wait" => wake' = next_wake_up_time)
  BY DEF run_check, engineVars
<1>2. timers \in Seq(Id) /\ id \in [Id -> IdType] /\ now \in Nat /\ Sorted(timers, id)
  BY DEF IInv, TypeOK, SInv, TimersSorted
<1>3. ASSUME NEW j \in Id PROVE Alone(j)'
  <2>1. ~Again(j)'
    BY <1>1 DEF Again
  <2> QED BY <1>1, <2>1 DEF SInv, Alone
<1>4. TimersSorted'
  BY <1>1, <1>2 DEF TimersSorted
<1>5. NeverOversleeps'
  <2> SUFFICES ASSUME lpc' = "wait", NEW i \in Elems(timers) PROVE wake' <= id[i].due \/ wake' <= now
    BY <1>1 DEF NeverOversleeps
  <2> DEFINE d == id[Head(timers)].due
  <2>1. timers # <<>> /\ i \in Id
    BY <1>2 DEF Elems
  <2>2. d <= id[i].due /\ Head(timers) \in Id
    BY <1>2, <2>1, TailSorted, FrontEffect
  <2>3. d \in Nat /\ id[i].due \in Nat
    BY <1>2, <2>1, <2>2 DEF IdType
  <2>4. wake' = IF d <= now THEN now ELSE now + ((d - now) \div Ms) * Ms
    BY <1>1, <2>1 DEF next_wake_up_time
  <2> HIDE DEF d
  <2>5. CASE d <= now
    BY <1>2, <2>4, <2>5
  <2>6. CASE ~(d <= now)
    <3>1. d - now \in Nat /\ Ms \in Nat \ {0}
      BY <1>2, <2>3, <2>6, TimeAssumption
    <3>2. ((d - now) \div Ms) * Ms <= d - now /\ ((d - now) \div Ms) * Ms \in Nat
      BY <3>1, RoundDown
    <3>3. now + ((d - now) \div Ms) * Ms <= d
      BY <1>2, <2>3, <3>2
    <3>4. wake' <= d /\ wake' \in Nat
      BY <1>2, <2>4, <2>6, <3>2, <3>3
    <3> QED BY <2>2, <2>3, <3>4
  <2> QED BY <2>5, <2>6
<1> QED BY <1>3, <1>4, <1>5 DEF SInv

\* A posted fire is put in the list.
LEMMA RunScheduleSorted ==
  ASSUME IInv, SInv, run_schedule PROVE SInv'
<1> DEFINE i == Head(q).id
<1>1. /\ lpc = "batch" /\ batch > 0 /\ Head(q).k = "schedule" /\ q' = Tail(q)
      /\ id' = [id EXCEPT ![i] = Release(AddRef(@), 1)] /\ lpc' = "batch"
      /\ \E p \in upper_bound(timers, id, i) : timers' = InsertAfter(timers, p, i)
  BY DEF run_schedule, At, loopVars
<1>2. timers \in Seq(Id) /\ q \in Seq(Closure) /\ q # <<>> /\ id \in [Id -> IdType] /\ Sorted(timers, id)
  BY <1>1 DEF IInv, TypeOK, SInv, TimersSorted
<1>3. /\ i \in Id /\ q' \in Seq(Closure)
      /\ \A j \in Id : /\ Scheduling(q, j) = Scheduling(q', j) + IF j = i THEN 1 ELSE 0
                       /\ Posted(q, j) = Posted(q', j) + IF j = i THEN 1 ELSE 0
  BY <1>1, <1>2, TakeEffect
<1> HIDE DEF i
<1>4. PICK p \in upper_bound(timers, id, i) : timers' = InsertAfter(timers, p, i)
  BY <1>1
<1>5. \A j \in Id : Listed(timers', j) = Listed(timers, j) + IF j = i THEN 1 ELSE 0
  BY <1>2, <1>3, <1>4, Bound, InsertEffect
<1>6. id' = id
  <2>1. Num(i) /\ id[i] \in IdType
    BY <1>3, Numbers
  <2>2. Posted(q, i) = Posted(q', i) + 1 /\ Posted(q', i) \in Nat
    BY <1>3, PostedNat
  <2>3. id[i].ref >= 1
    BY <2>1, <2>2 DEF Num
  <2>4. Release(AddRef(id[i]), 1) = id[i]
    BY <2>1, <2>3, RefAndBack
  <2> QED BY <1>1, <1>2, <2>4
<1>7. ASSUME NEW j \in Id PROVE Alone(j)'
  <2>1. /\ Listed(timers', j) = Listed(timers, j) + IF j = i THEN 1 ELSE 0
        /\ Scheduling(q, j) = Scheduling(q', j) + IF j = i THEN 1 ELSE 0
        /\ Listed(timers, j) \in Nat /\ Scheduling(q', j) \in Nat
    BY <1>2, <1>3, <1>5, ListedNat, PostedNat
  <2>2. Listed(timers', j) + Scheduling(q', j) = Listed(timers, j) + Scheduling(q, j)
    <3>1. CASE j = i
      BY <2>1, <3>1
    <3>2. CASE j # i
      BY <2>1, <3>2
    <3> QED BY <3>1, <3>2
  <2> QED BY <1>1, <2>2 DEF SInv, Alone, Again
<1>8. TimersSorted'
  BY <1>2, <1>3, <1>4, <1>6, InsertSorted DEF TimersSorted
<1>9. NeverOversleeps'
  BY <1>1 DEF NeverOversleeps
<1> QED BY <1>7, <1>8, <1>9 DEF SInv

\* A cancelled timer is taken out of the list, or nothing is.
LEMMA RunCancelSorted ==
  ASSUME IInv, SInv, run_cancel PROVE SInv'
<1> DEFINE i == Head(q).id
<1>1. /\ lpc = "batch" /\ batch > 0 /\ Head(q).k = "cancel" /\ q' = Tail(q) /\ now' = now
      /\ \/ i \in Elems(timers) /\ cancel_found(i)
         \/ /\ i \notin Elems(timers) /\ id' = [id EXCEPT ![i] = Release(@, 1)]
            /\ UNCHANGED <<timers, cur, lpc, ends>>
  BY DEF run_cancel, At
<1>2. timers \in Seq(Id) /\ q \in Seq(Closure) /\ q # <<>> /\ Sorted(timers, id) /\ now \in Nat
  BY <1>1 DEF IInv, TypeOK, SInv, TimersSorted
<1>3. /\ i \in Id /\ q' \in Seq(Closure)
      /\ \A j \in Id : /\ Scheduling(q, j) = Scheduling(q', j) + 0
                       /\ Posted(q, j) = Posted(q', j) + IF j = i THEN 1 ELSE 0
  BY <1>1, <1>2, TakeEffect
<1> HIDE DEF i
<1>4. ASSUME NEW j \in Id
      PROVE  Scheduling(q', j) = Scheduling(q, j) /\ Scheduling(q, j) \in Nat /\ Posted(q', j) \in Nat
  <2>1. Scheduling(q', j) \in Nat /\ Posted(q', j) \in Nat
    BY <1>3, PostedNat
  <2> QED BY <1>3, <2>1
<1>5. CASE i \in Elems(timers) /\ cancel_found(i)
  <2>1. timers' = EraseAt(timers, FirstAt(timers, i)) /\ lpc' = "cancel_cb" /\ id' = id
    BY <1>5 DEF cancel_found
  <2>2. /\ timers' \in Seq(Id) /\ FirstAt(timers, i) \in 1..Len(timers)
        /\ \A j \in Id : Listed(timers, j) = Listed(timers', j) + IF j = i THEN 1 ELSE 0
    BY <1>2, <1>5, <2>1, EraseEffect
  <2>3. ASSUME NEW j \in Id PROVE Alone(j)'
    <3>1. Listed(timers', j) \in Nat /\ Listed(timers, j) >= Listed(timers', j)
      <4>1. Listed(timers', j) \in Nat
        BY <2>2, ListedNat
      <4> QED BY <2>2, <4>1
    <3>2. Listed(timers, j) + Scheduling(q, j) <= 1 /\ Listed(timers, j) \in Nat
      BY <1>2, ListedNat DEF SInv, Alone
    <3>3. Listed(timers', j) + Scheduling(q', j) <= 1
      BY <1>4, <3>1, <3>2
    <3>4. ~Again(j)'
      BY <2>1 DEF Again
    <3> QED BY <3>3, <3>4 DEF Alone
  <2>4. TimersSorted'
    BY <1>2, <2>1, <2>2, EraseSorted DEF TimersSorted
  <2>5. NeverOversleeps'
    BY <2>1 DEF NeverOversleeps
  <2> QED BY <2>3, <2>4, <2>5 DEF SInv
<1>6. CASE id' = [id EXCEPT ![i] = Release(@, 1)] /\ UNCHANGED <<timers, cur, lpc, ends>>
  <2>1. Num(i) /\ Posted(q, i) = Posted(q', i) + 1 /\ Posted(q', i) \in Nat
    BY <1>3, <1>4, Numbers
  <2>2. id[i].ref >= 1 /\ (Listed(timers, i) > 0 => id[i].ref > 1)
    BY <2>1 DEF Num
  <2>3. \A j \in Id : Listed(timers, j) > 0 => id'[j].due = id[j].due
    BY <1>3, <1>6, <2>2, ReleaseKeeps
  <2>4. \A j \in Id : ~Again(j)'
    BY <1>1, <1>6 DEF Again
  <2> QED BY <1>1, <1>2, <1>4, <1>6, <2>3, <2>4, ListKept
<1> QED BY <1>1, <1>5, <1>6

\* The callback of a cancelled timer returns.
LEMMA CancelReturnSorted ==
  ASSUME IInv, SInv, cancel_return PROVE SInv'
<1> DEFINE i == cur
<1>1. /\ lpc = "cancel_cb" /\ id' = [id EXCEPT ![i] = Release(@, 2)] /\ lpc' = "batch"
      /\ UNCHANGED <<now, timers, q>>
  BY DEF cancel_return, At, engineVars
<1>2. i \in Id /\ i = cur /\ now \in Nat
  BY <1>1 DEF IInv, TypeOK, Shape
<1> HIDE DEF i
<1>3. Pinned(lpc, cur, i) = 2 /\ Num(i)
  BY <1>1, <1>2, Numbers DEF Pinned
<1>4. id[i].ref >= 2 /\ (Listed(timers, i) > 0 => id[i].ref > 2)
  BY <1>3 DEF Num
<1>5. \A j \in Id : Listed(timers, j) > 0 => id'[j].due = id[j].due
  BY <1>1, <1>2, <1>4, ReleaseKeeps
<1>6. \A j \in Id : ~Again(j)'
  BY <1>1 DEF Again
<1> QED BY <1>1, <1>2, <1>5, <1>6, ListKept

\* The front of the list goes to its callback: it was in the list once.
LEMMA DrainNextSorted ==
  ASSUME IInv, SInv, drain_next PROVE SInv'
<1>1. UNCHANGED <<now, q, id>> /\ lpc' # "wait" /\ now \in Nat
  BY DEF drain_next, IInv, TypeOK
<1>2. timers \in Seq(Id) /\ id \in [Id -> IdType] /\ Sorted(timers, id)
  BY DEF IInv, TypeOK, SInv, TimersSorted
<1>3. CASE timers # <<>> /\ cur' = Head(timers) /\ timers' = Tail(timers) /\ lpc' = "drain_cb"
  <2> DEFINE i == Head(timers)
  <2>1. /\ i \in Id /\ timers' \in Seq(Id) /\ cur' = i
        /\ \A j \in Id : Listed(timers, j) = Listed(timers', j) + IF j = i THEN 1 ELSE 0
    BY <1>2, <1>3, FrontEffect
  <2> HIDE DEF i
  <2>2. ASSUME NEW j \in Id PROVE Alone(j)'
    <3>1. /\ Listed(timers', j) \in Nat /\ Listed(timers, j) \in Nat /\ Scheduling(q, j) \in Nat
          /\ Listed(timers, j) = Listed(timers', j) + IF j = i THEN 1 ELSE 0
      <4>1. Scheduling(q, j) \in Nat
        BY PostedNat DEF IInv, TypeOK
      <4> QED BY <1>2, <2>1, <4>1, ListedNat
    <3>2. Listed(timers, j) + Scheduling(q, j) <= 1
      BY DEF SInv, Alone
    <3>3. CASE j = i
      <4>1. Listed(timers', j) + Scheduling(q', j) = 0
        BY <1>1, <3>1, <3>2, <3>3
      <4> QED BY <4>1 DEF Alone
    <3>4. CASE j # i
      <4>1. Listed(timers', j) + Scheduling(q', j) <= 1
        BY <1>1, <3>1, <3>2, <3>4
      <4>2. ~Again(j)'
        BY <2>1, <3>4 DEF Again
      <4> QED BY <4>1, <4>2 DEF Alone
    <3> QED BY <3>3, <3>4
  <2>3. TimersSorted'
    BY <1>1, <1>2, <1>3, TailSorted DEF TimersSorted
  <2>4. NeverOversleeps'
    BY <1>1 DEF NeverOversleeps
  <2> QED BY <2>2, <2>3, <2>4 DEF SInv
<1>4. CASE lpc' = "check" /\ UNCHANGED <<cur, timers>>
  <2>1. \A j \in Id : ~Again(j)'
    BY <1>4 DEF Again
  <2> QED BY <1>1, <1>4, <2>1, ListKept
<1> QED BY <1>3, <1>4 DEF drain_next

\* A repeating timer is not in the list when its due time moves, and enters it
\* in its new place.
LEMMA DrainReturnSorted ==
  ASSUME IInv, SInv, drain_return PROVE SInv'
<1> DEFINE i == cur
           r == [id EXCEPT ![i].due = @ + id[i].rep]
<1>1. /\ lpc = "drain_cb" /\ lpc' = "drain" /\ UNCHANGED <<now, q>>
      /\ \/ /\ id' = [r EXCEPT ![i] = Release(AddRef(@), 1)] /\ Again(i)
            /\ \E p \in upper_bound(timers, r, i) : timers' = InsertAfter(timers, p, i)
         \/ id' = [id EXCEPT ![i] = Release(@, 1)] /\ UNCHANGED timers
  BY DEF drain_return, At, again, Again
<1>2. i \in Id /\ i = cur /\ timers \in Seq(Id) /\ id \in [Id -> IdType] /\ now \in Nat /\ Sorted(timers, id)
  BY <1>1 DEF IInv, TypeOK, Shape, SInv, TimersSorted
<1> HIDE DEF i
<1>3. Pinned(lpc, cur, i) = 1 /\ Num(i) /\ id[i] \in IdType
  BY <1>1, <1>2, Numbers DEF Pinned
<1>4. id[i].ref >= 1 /\ (Listed(timers, i) > 0 => id[i].ref > 1)
  BY <1>3 DEF Num
<1>5. \A j \in Id : ~Again(j)'
  BY <1>1 DEF Again
<1>6. CASE id' = [id EXCEPT ![i] = Release(@, 1)] /\ UNCHANGED timers
  <2>1. \A j \in Id : Listed(timers, j) > 0 => id'[j].due = id[j].due
    BY <1>2, <1>4, <1>6, ReleaseKeeps
  <2> QED BY <1>1, <1>2, <1>5, <1>6, <2>1, ListKept
<1>7. CASE /\ id' = [r EXCEPT ![i] = Release(AddRef(@), 1)] /\ Again(i)
           /\ \E p \in upper_bound(timers, r, i) : timers' = InsertAfter(timers, p, i)
  <2>1. /\ r \in [Id -> IdType] /\ r[i].ref = id[i].ref /\ \A j \in Id : j # i => r[j] = id[j]
    <3>1. id[i].due + id[i].rep \in Nat
      BY <1>3, RefEffect
    <3> QED BY <1>2, <3>1 DEF IdType
  <2>2. Release(AddRef(r[i]), 1) = r[i]
    BY <1>2, <1>4, <2>1, RefAndBack
  <2>3. id' = r
    BY <1>2, <1>7, <2>1, <2>2
  <2> HIDE DEF r
  <2>4. PICK p \in upper_bound(timers, r, i) : timers' = InsertAfter(timers, p, i)
    BY <1>7
  <2>5. \A j \in Id : Listed(timers', j) = Listed(timers, j) + IF j = i THEN 1 ELSE 0
    BY <1>2, <2>4, Bound, InsertEffect
  <2>6. Listed(timers, i) + Scheduling(q, i) = 0 /\ Listed(timers, i) \in Nat /\ Scheduling(q, i) \in Nat
    BY <1>2, <1>3, <1>7 DEF SInv, Alone, Num
  <2>7. ASSUME NEW j \in Id PROVE Alone(j)'
    <3>1. /\ Listed(timers', j) = Listed(timers, j) + IF j = i THEN 1 ELSE 0
          /\ Listed(timers, j) \in Nat /\ q' = q
      BY <1>1, <1>2, <2>5, ListedNat
    <3>2. Listed(timers', j) + Scheduling(q', j) <= 1
      <4>1. CASE j = i
        BY <2>6, <3>1, <4>1
      <4>2. CASE j # i
        BY <3>1, <4>2 DEF SInv, Alone
      <4> QED BY <4>1, <4>2
    <3> QED BY <1>5, <3>2 DEF Alone
  <2>8. TimersSorted'
    <3>1. i \notin Elems(timers)
      BY <1>2, <2>6, ListedNat
    <3>2. \A j \in Elems(timers) : j \in Id /\ j # i
      BY <1>2, <3>1 DEF Elems
    <3>3. Sorted(timers, r)
      BY <1>2, <2>1, <3>2, SameDue
    <3>4. Sorted(timers', r)
      BY <1>2, <2>1, <2>4, <3>3, InsertSorted
    <3> QED BY <2>3, <3>4 DEF TimersSorted
  <2>9. NeverOversleeps'
    BY <1>1 DEF NeverOversleeps
  <2> QED BY <2>7, <2>8, <2>9 DEF SInv
<1> QED BY <1>1, <1>6, <1>7

\* Every step keeps the list sorted.
LEMMA NextSorted ==
  ASSUME IInv, SInv, ~Rearm, [Next]_vars PROVE SInv'
<1>1. ASSUME NEW t \in Caller, Call(t) PROVE SInv'
  <2>1. ASSUME NEW i \in Id, fire(t, i) PROVE SInv'
    BY <2>1, FireSorted
  <2>2. ASSUME NEW i \in Id,
               \/ new_timer(t, i) \/ delete_timer(t, i) \/ cancel(t, i)
               \/ \E d \in Delays, r \in Reps : due_time(t, i, d, r)
        PROVE  SInv'
    BY <2>2, CallSorted
  <2> QED BY <1>1, <2>1, <2>2 DEF Call
<1>2. CASE \/ \E t \in Caller : timer_cancel(t)
           \/ run \/ epoll_wait \/ epoll_wait_event \/ drain_begin \/ Tick \/ UNCHANGED vars
  BY <1>2, QuietSorted
<1>3. CASE run_check
  BY <1>3, CheckSorted
<1>4. CASE run_schedule
  BY <1>4, RunScheduleSorted
<1>5. CASE run_cancel
  BY <1>5, RunCancelSorted
<1>6. CASE cancel_return
  BY <1>6, CancelReturnSorted
<1>7. CASE drain_next
  BY <1>7, DrainNextSorted
<1>8. CASE drain_return
  BY <1>8, DrainReturnSorted
<1> QED BY <1>1, <1>2, <1>3, <1>4, <1>5, <1>6, <1>7, <1>8 DEF Next, LoopStep

\* The engine's list has no timer.
LEMMA InitSorted ==
  ASSUME Init PROVE SInv
<1>1. timers = <<>> /\ q = <<>> /\ timers \in Seq(Id) /\ q \in Seq(Closure) /\ lpc = "out"
  BY DEF Init
<1>2. ASSUME NEW i \in Id PROVE Alone(i)
  <2>1. Listed(timers, i) = 0 /\ Scheduling(q, i) = 0
    BY <1>1, ListedNat, PostedNat
  <2> QED BY <1>1, <2>1 DEF Alone, Again
<1>3. TimersSorted
  BY <1>1 DEF TimersSorted, Sorted
<1>4. NeverOversleeps
  BY <1>1 DEF NeverOversleeps
<1> QED BY <1>2, <1>3, <1>4 DEF SInv

\* As long as callers set and fire only timers that are not scheduled, the
\* list is sorted by due time at every step (TimersSorted).
THEOREM ListSorted ==
  ASSUME ~Rearm PROVE Spec => []TimersSorted
<1>1. Init => SInv
  BY InitSorted
<1>2. IInv /\ SInv /\ [Next]_vars => SInv'
  BY NextSorted
<1>3. SInv => TimersSorted
  BY DEF SInv
<1> QED BY <1>1, <1>2, <1>3, TimerInvariant, PTL DEF Spec

\* And the loop never waits past the due time of a timer in it, whatever the
\* unit in which it waits (NeverOversleeps).
THEOREM WaitsInTime ==
  ASSUME ~Rearm PROVE Spec => []NeverOversleeps
<1>1. Init => SInv
  BY InitSorted
<1>2. IInv /\ SInv /\ [Next]_vars => SInv'
  BY NextSorted
<1>3. SInv => NeverOversleeps
  BY DEF SInv
<1> QED BY <1>1, <1>2, <1>3, TimerInvariant, PTL DEF Spec
=============================================================================
