--------------------------- MODULE PipelineProofs ---------------------------
(***************************************************************************)
(* Proofs about the pipeline, for any filters and threads and any numbers  *)
(* of events, edits and writes, and for edits away from the first filter.  *)
(***************************************************************************)
EXTENDS Pipeline, Counting

(* The inductive invariant. *)

States == {"built", "open", "closing", "closed", "freed"}

\* Calls under way or posted, those with a reference of their own, and those
\* made in place by a called filter.
CallRec == [k : {"event", "write", "close", "end"}, f : Link, t : Caller, n : Nat, last : BOOLEAN]
Frame   == {c \in CallRec : c.k = "write" \/ (c.k = "event" /\ c.f # NoFilter)}
Owed    == {c \in Frame : c.last}
Upper   == {c \in Frame : ~c.last /\ c.t = Loop}
Closure == Owed \cup {Close, End}

ListTypeOK ==
  /\ _inbound \in Link /\ inbound \in [Filters -> Link] /\ outbound \in [Filters -> Link]
  /\ chain \in Seq(Filters) /\ edits \in Nat

\* What ListIsChain says, of any links, and that no filter is there twice.
OnePlace(c) == \A i, j \in DOMAIN c : c[i] = c[j] => i = j
IsList(c, first, in, out) ==
  /\ first = IF Len(c) = 0 THEN NoFilter ELSE c[1]
  /\ \A i \in 1..Len(c) :
       /\ in[c[i]] = IF i = Len(c) THEN NoFilter ELSE c[i + 1]
       /\ out[c[i]] = IF i = 1 THEN NoFilter ELSE c[i - 1]

LinkInv == OnePlace(chain) /\ IsList(chain, _inbound, inbound, outbound)

\* Before the channel opens nobody edits, and filters outside have no links.
Clean(c, in, out) == \A f \in Filters : f \notin ToSet(c) => in[f] = NoFilter /\ out[f] = NoFilter
BuiltClean == st = "built" => LinkInv /\ Clean(chain, inbound, outbound)

CallTypeOK ==
  /\ st \in States /\ stack \in Seq(Frame) /\ q \in Seq(Closure)
  /\ refs \in Nat /\ hold \in [Caller -> BOOLEAN]

\* The reference that opening took, until it goes to the close event; and the
\* one of the closure that the outermost call belongs to.
Opened == IF st \in {"open", "closing"} THEN 1 ELSE 0
Bottom == IF stack = <<>> THEN 0 ELSE IF stack[1].last THEN 1 ELSE 0

RefsAre  == refs = Tally(hold, {TRUE}) + Count(q, Owed) + Bottom + Opened
CloseIs  == Count(q, {Close}) = IF st = "closing" THEN 1 ELSE 0
EndIs    == Count(q, {End}) = IF refs = 0 /\ st \notin {"built", "freed"} THEN 1 ELSE 0
StackIs  == /\ \A i \in DOMAIN stack : i > 1 => stack[i] \in Upper
            /\ stack # <<>> => Opened + Bottom >= 1

Quiet ==
  st \in {"built", "freed"} => stack = <<>> /\ q = <<>> /\ refs = 0 /\ \A t \in Caller : ~hold[t]

FreedAll == st = "freed" => freed = chain

CallInv == CallTypeOK /\ RefsAre /\ CloseIs /\ EndIs /\ StackIs /\ Quiet

OrderTypeOK == written \in Seq(Caller \X Nat) /\ writes \in [Caller -> Nat]

\* The n-th write of t is under way; it is the j-th closure; it is behind.
InStack(t, n) == \E i \in DOMAIN stack : stack[i].k = "write" /\ stack[i].t = t /\ stack[i].n = n
InQueue(j, t) == q[j].k = "write" /\ q[j].t = t

OrderInv ==
  /\ OrderTypeOK /\ WritesOrdered
  /\ \A t \in Threads :
       /\ \A i \in DOMAIN written : written[i][1] = t => written[i][2] <= writes[t]
       /\ \A n \in Nat : InStack(t, n) =>
            /\ n <= writes[t]
            /\ \A i \in DOMAIN written : written[i][1] = t => written[i][2] < n
       /\ \A j \in DOMAIN q : InQueue(j, t) =>
            /\ q[j].n <= writes[t]
            /\ \A i \in DOMAIN written : written[i][1] = t => written[i][2] < q[j].n
            /\ \A n \in Nat : InStack(t, n) => n < q[j].n
            /\ \A i \in DOMAIN q : i < j /\ InQueue(i, t) => q[i].n < q[j].n

BaseInv == ListTypeOK /\ BuiltClean /\ CallInv /\ OrderInv
PipeInv == BaseInv /\ LinkInv /\ FreedAll

-----------------------------------------------------------------------------
(* The list. *)

\* d is c with f at position p; and c without its p-th element.
Spliced(d, c, p, f) ==
  /\ Len(d) = Len(c) + 1 /\ d[p] = f
  /\ \A i \in 1..Len(c) : (i < p => d[i] = c[i]) /\ (i >= p => d[i + 1] = c[i])
Cut(d, c, p) ==
  /\ Len(d) = Len(c) - 1
  /\ \A i \in 1..Len(d) : (i < p => d[i] = c[i]) /\ (i >= p => d[i] = c[i + 1])

\* InsertAt puts an element at its position.
LEMMA Inserted ==
  ASSUME NEW S, NEW s \in Seq(S), NEW e \in S, NEW p \in 1..(Len(s) + 1)
  PROVE  InsertAt(s, p, e) \in Seq(S) /\ Spliced(InsertAt(s, p, e), s, p, e)
<1> DEFINE n == Len(s)
           a == SubSeq(s, 1, p - 1)
           b == SubSeq(s, p, n)
           v == <<e>>
           c == a \o v
<1>1. n \in Nat /\ p \in Nat /\ p >= 1 /\ p <= n + 1
  OBVIOUS
<1>2. a \in Seq(S) /\ Len(a) = p - 1 /\ \A i \in 1..(p - 1) : a[i] = s[i]
  BY <1>1
<1>3. b \in Seq(S) /\ Len(b) = n - p + 1 /\ \A i \in 1..(n - p + 1) : b[i] = s[p - 1 + i]
  BY <1>1
<1>4. InsertAt(s, p, e) = c \o b
  BY DEF InsertAt
<1>5. v \in Seq(S) /\ Len(v) = 1 /\ v[1] = e
  OBVIOUS
<1> HIDE DEF a, b, n, v
<1>6. /\ c \in Seq(S) /\ Len(c) = Len(a) + Len(v)
      /\ \A i \in 1..Len(a) : c[i] = a[i]
      /\ \A i \in 1..Len(v) : c[Len(a) + i] = v[i]
  <2>1. a \in Seq(S) /\ v \in Seq(S)
    BY <1>2, <1>5
  <2> QED BY <2>1
<1>7. Len(c) = p /\ c[p] = e /\ \A i \in 1..(p - 1) : c[i] = s[i]
  <2>1. c[Len(a) + 1] = v[1]
    BY <1>5, <1>6
  <2> QED BY <1>1, <1>2, <1>5, <1>6, <2>1
<1> HIDE DEF c
<1>8. /\ c \o b \in Seq(S) /\ Len(c \o b) = Len(c) + Len(b)
      /\ \A i \in 1..Len(c) : (c \o b)[i] = c[i]
      /\ \A i \in 1..Len(b) : (c \o b)[Len(c) + i] = b[i]
  <2>1. c \in Seq(S) /\ b \in Seq(S)
    BY <1>3, <1>6
  <2> QED BY <2>1
<1>9. Len(c \o b) = n + 1
  BY <1>1, <1>3, <1>7, <1>8
<1>10. (c \o b)[p] = e
  BY <1>1, <1>7, <1>8
<1>11. ASSUME NEW i \in 1..n, i < p PROVE (c \o b)[i] = s[i]
  <2>1. i \in 1..p /\ i \in 1..(p - 1)
    BY <1>1, <1>11
  <2> QED BY <2>1, <1>7, <1>8
<1>12. ASSUME NEW i \in 1..n, i >= p PROVE (c \o b)[i + 1] = s[i]
  <2> DEFINE j == i - p + 1
  <2>1. j \in 1..(n - p + 1) /\ p + j = i + 1 /\ p - 1 + j = i
    BY <1>1, <1>12
  <2> HIDE DEF j
  <2>2. (c \o b)[p + j] = b[j] /\ b[j] = s[p - 1 + j]
    BY <2>1, <1>3, <1>7, <1>8
  <2> QED BY <2>1, <2>2
<1> QED BY <1>4, <1>8, <1>9, <1>10, <1>11, <1>12 DEF n, Spliced

\* RemoveAt takes the element at a position away.
LEMMA Removed ==
  ASSUME NEW S, NEW s \in Seq(S), NEW p \in 1..Len(s)
  PROVE  RemoveAt(s, p) \in Seq(S) /\ Cut(RemoveAt(s, p), s, p)
<1> DEFINE n == Len(s)
           a == SubSeq(s, 1, p - 1)
           b == SubSeq(s, p + 1, n)
<1>1. n \in Nat /\ p \in Nat /\ p >= 1 /\ p <= n
  OBVIOUS
<1>2. a \in Seq(S) /\ Len(a) = p - 1 /\ \A i \in 1..(p - 1) : a[i] = s[i]
  BY <1>1
<1>3. b \in Seq(S) /\ Len(b) = n - p /\ \A i \in 1..(n - p) : b[i] = s[p + i]
  BY <1>1
<1>4. RemoveAt(s, p) = a \o b
  BY DEF RemoveAt
<1> HIDE DEF a, b, n
<1>5. /\ a \o b \in Seq(S) /\ Len(a \o b) = Len(a) + Len(b)
      /\ \A i \in 1..Len(a) : (a \o b)[i] = a[i]
      /\ \A i \in 1..Len(b) : (a \o b)[Len(a) + i] = b[i]
  <2>1. a \in Seq(S) /\ b \in Seq(S)
    BY <1>2, <1>3
  <2> QED BY <2>1
<1>6. Len(a \o b) = n - 1
  BY <1>1, <1>2, <1>3, <1>5
<1>7. ASSUME NEW i \in 1..(n - 1), i < p PROVE (a \o b)[i] = s[i]
  BY <1>1, <1>2, <1>5, <1>7
<1>8. ASSUME NEW i \in 1..(n - 1), i >= p PROVE (a \o b)[i] = s[i + 1]
  <2> DEFINE j == i - p + 1
  <2>1. j \in 1..(n - p) /\ (p - 1) + j = i /\ p + j = i + 1
    BY <1>1, <1>8
  <2> HIDE DEF j
  <2>2. (a \o b)[(p - 1) + j] = b[j] /\ b[j] = s[p + j]
    BY <2>1, <1>2, <1>3, <1>5
  <2> QED BY <2>1, <2>2
<1> QED BY <1>4, <1>5, <1>6, <1>7, <1>8 DEF n, Cut

\* The elements of a spliced list: the new one, or an old one where it was or
\* one further.
LEMMA SplicedAt ==
  ASSUME NEW c \in Seq(Filters), NEW d, NEW f, NEW p \in 1..(Len(c) + 1), Spliced(d, c, p, f),
         NEW j \in 1..Len(d)
  PROVE  \/ j = p /\ d[j] = f
         \/ j < p /\ j \in 1..Len(c) /\ d[j] = c[j]
         \/ j > p /\ j - 1 \in 1..Len(c) /\ d[j] = c[j - 1]
<1>1. Len(c) \in Nat /\ Len(d) = Len(c) + 1 /\ d[p] = f /\ p \in Nat /\ j \in Nat
  BY DEF Spliced
<1>2. CASE j < p
  BY <1>1, <1>2 DEF Spliced
<1>3. CASE j > p
  <2>1. j - 1 \in 1..Len(c) /\ j - 1 >= p /\ (j - 1) + 1 = j
    BY <1>1, <1>3
  <2>2. d[(j - 1) + 1] = c[j - 1]
    BY <2>1 DEF Spliced
  <2> QED BY <1>3, <2>1, <2>2
<1> QED BY <1>1, <1>2, <1>3

\* A filter is linked in at position p, behind another one.
LinkedIn(c, p, f, in, out, in2, out2) ==
  /\ in2[f] = IF p <= Len(c) THEN c[p] ELSE NoFilter
  /\ in2[c[p - 1]] = f /\ out2[f] = c[p - 1]
  /\ p <= Len(c) => out2[c[p]] = f
  /\ \A g \in Filters : g # f /\ g # c[p - 1] => in2[g] = in[g]
  /\ \A g \in Filters : g # f /\ (p <= Len(c) => g # c[p]) => out2[g] = out[g]

\* The list stays one.
LEMMA InsertLinks ==
  ASSUME NEW c \in Seq(Filters), NEW first, NEW in, NEW out, OnePlace(c), IsList(c, first, in, out),
         NEW f \in Filters, \A i \in DOMAIN c : c[i] # f, NEW p \in 2..(Len(c) + 1),
         NEW d, d \in Seq(Filters), Spliced(d, c, p, f),
         NEW in2, NEW out2, LinkedIn(c, p, f, in, out, in2, out2)
  PROVE  OnePlace(d) /\ IsList(d, first, in2, out2)
<1> DEFINE n == Len(c)
<1>1. n \in Nat /\ DOMAIN c = 1..n /\ DOMAIN d = 1..(n + 1) /\ Len(d) = n + 1 /\ d[p] = f
  BY DEF Spliced
<1>2. p \in Nat /\ p >= 2 /\ p <= n + 1 /\ p \in 1..(n + 1)
  BY <1>1
<1>3. \A i \in 1..n : c[i] \in Filters /\ c[i] # f
  BY <1>1
<1>4. \A j \in 1..(n + 1) : \/ j = p /\ d[j] = f
                            \/ j < p /\ j \in 1..n /\ d[j] = c[j]
                            \/ j > p /\ j - 1 \in 1..n /\ d[j] = c[j - 1]
  <2> SUFFICES ASSUME NEW j \in 1..(n + 1)
               PROVE  \/ j = p /\ d[j] = f
                      \/ j < p /\ j \in 1..n /\ d[j] = c[j]
                      \/ j > p /\ j - 1 \in 1..n /\ d[j] = c[j - 1]
    OBVIOUS
  <2>1. j \in 1..Len(d) /\ p \in 1..(Len(c) + 1)
    BY <1>1, <1>2
  <2> QED BY <2>1, SplicedAt
<1>5. \A i, j \in 1..n : c[i] = c[j] => i = j
  BY <1>1 DEF OnePlace
<1>6. \A i \in 1..n : in[c[i]] = IF i = n THEN NoFilter ELSE c[i + 1]
  BY DEF IsList
<1>7. \A i \in 1..n : out[c[i]] = IF i = 1 THEN NoFilter ELSE c[i - 1]
  BY DEF IsList
<1>8. \A i \in 1..n : (i < p => d[i] = c[i]) /\ (i >= p => d[i + 1] = c[i])
  BY DEF Spliced
<1>9. OnePlace(d)
  <2>1. \A i, j \in 1..(n + 1) : d[i] = d[j] => i = j
    <3> SUFFICES ASSUME NEW i \in 1..(n + 1), NEW j \in 1..(n + 1), d[i] = d[j] PROVE i = j
      OBVIOUS
    <3>1. \/ i = p /\ d[i] = f
          \/ i < p /\ i \in 1..n /\ d[i] = c[i]
          \/ i > p /\ i - 1 \in 1..n /\ d[i] = c[i - 1]
      BY <1>4
    <3>2. \/ j = p /\ d[j] = f
          \/ j < p /\ j \in 1..n /\ d[j] = c[j]
          \/ j > p /\ j - 1 \in 1..n /\ d[j] = c[j - 1]
      BY <1>4
    <3> QED BY <3>1, <3>2, <1>1, <1>2, <1>3, <1>5
  <2> QED BY <2>1, <1>1 DEF OnePlace
<1>10. first = d[1]
  <2>1. 1 \in 1..n /\ n # 0 /\ 1 < p
    BY <1>1, <1>2
  <2>2. first = c[1]
    BY <2>1 DEF IsList
  <2> QED BY <2>1, <2>2, <1>8
<1>11. ASSUME NEW i \in 1..n, i < p
       PROVE  in2[d[i]] = d[i + 1] /\ out2[d[i]] = IF i = 1 THEN NoFilter ELSE d[i - 1]
  <2>1. d[i] = c[i] /\ c[i] \in Filters /\ c[i] # f /\ (i # 1 => d[i - 1] = c[i - 1])
    BY <1>1, <1>2, <1>3, <1>8, <1>11
  <2>2. p <= n => c[i] # c[p]
    BY <1>1, <1>2, <1>5, <1>11
  <2>3. out2[c[i]] = out[c[i]]
    BY <2>1, <2>2 DEF LinkedIn
  <2>4. CASE i = p - 1
    <3>1. in2[c[i]] = f /\ d[i + 1] = f
      BY <2>4, <1>1, <1>2 DEF LinkedIn
    <3> QED BY <3>1, <2>1, <2>3, <1>7
  <2>5. CASE i # p - 1
    <3>1. i < n /\ i + 1 < p /\ i + 1 \in 1..n /\ p - 1 \in 1..n
      BY <2>5, <1>1, <1>2, <1>11
    <3>2. c[i] # c[p - 1] /\ d[i + 1] = c[i + 1]
      BY <2>5, <3>1, <1>5, <1>8
    <3>3. in2[c[i]] = in[c[i]]
      BY <2>1, <3>2 DEF LinkedIn
    <3> QED BY <2>1, <2>3, <3>1, <3>2, <3>3, <1>6, <1>7
  <2> QED BY <2>4, <2>5
<1>12. ASSUME NEW i \in 1..n, i >= p
       PROVE  /\ in2[d[i + 1]] = IF i = n THEN NoFilter ELSE d[i + 2]
              /\ out2[d[i + 1]] = d[i]
  <2>1. d[i + 1] = c[i] /\ c[i] \in Filters /\ c[i] # f /\ p <= n
    BY <1>1, <1>2, <1>3, <1>8, <1>12
  <2>2. p - 1 \in 1..n /\ c[i] # c[p - 1]
    BY <1>1, <1>2, <1>5, <1>12
  <2>3. in2[c[i]] = in[c[i]]
    BY <2>1, <2>2 DEF LinkedIn
  <2>4. i # n => d[i + 2] = c[i + 1]
    <3> SUFFICES ASSUME i # n PROVE d[i + 2] = c[i + 1]
      OBVIOUS
    <3>1. i + 1 \in 1..n /\ i + 1 >= p /\ (i + 1) + 1 = i + 2
      BY <1>1, <1>2, <1>12
    <3>2. d[(i + 1) + 1] = c[i + 1]
      BY <3>1, <1>8
    <3> QED BY <3>1, <3>2
  <2>5. CASE i = p
    BY <2>1, <2>3, <2>4, <2>5, <1>1, <1>6 DEF LinkedIn
  <2>6. CASE i # p
    <3>1. i - 1 \in 1..n /\ i - 1 >= p /\ (i - 1) + 1 = i /\ p \in 1..n /\ i # 1
      BY <2>6, <2>1, <1>1, <1>2, <1>12
    <3>2. c[i] # c[p]
      BY <2>6, <3>1, <1>5
    <3>3. out2[c[i]] = out[c[i]]
      BY <2>1, <3>2 DEF LinkedIn
    <3>4. d[(i - 1) + 1] = c[i - 1]
      BY <3>1, <1>8
    <3> QED BY <2>1, <2>3, <2>4, <3>1, <3>3, <3>4, <1>6, <1>7
  <2> QED BY <2>5, <2>6
<1>13. ASSUME NEW j \in 1..(n + 1)
       PROVE  /\ in2[d[j]] = IF j = n + 1 THEN NoFilter ELSE d[j + 1]
              /\ out2[d[j]] = IF j = 1 THEN NoFilter ELSE d[j - 1]
  <2>1. CASE j < p
    <3>1. j \in 1..n /\ j # n + 1
      BY <2>1, <1>1, <1>2
    <3> QED BY <3>1, <2>1, <1>11
  <2>2. CASE j > p
    <3>1. j - 1 \in 1..n /\ j - 1 >= p /\ (j - 1) + 1 = j /\ (j - 1) + 2 = j + 1 /\ j # 1
      BY <2>2, <1>1, <1>2
    <3>2. /\ in2[d[(j - 1) + 1]] = IF j - 1 = n THEN NoFilter ELSE d[(j - 1) + 2]
          /\ out2[d[(j - 1) + 1]] = d[j - 1]
      BY <3>1, <1>12
    <3>3. j - 1 = n <=> j = n + 1
      BY <1>1
    <3> QED BY <3>1, <3>2, <3>3
  <2>3. CASE j = p
    <3>1. d[p - 1] = c[p - 1] /\ p # 1
      BY <1>1, <1>2, <1>8
    <3>2. p <= n => d[p + 1] = c[p]
      BY <1>1, <1>2, <1>8
    <3>3. p <= n <=> p # n + 1
      BY <1>1, <1>2
    <3> QED BY <2>3, <3>1, <3>2, <3>3, <1>1 DEF LinkedIn
  <2> QED BY <2>1, <2>2, <2>3, <1>2
<1>14. first = IF Len(d) = 0 THEN NoFilter ELSE d[1]
  BY <1>1, <1>10
<1>15. \A j \in 1..Len(d) : /\ in2[d[j]] = IF j = Len(d) THEN NoFilter ELSE d[j + 1]
                            /\ out2[d[j]] = IF j = 1 THEN NoFilter ELSE d[j - 1]
  BY <1>1, <1>13
<1>16. IsList(d, first, in2, out2)
  BY ONLY <1>14, <1>15 DEF IsList
<1> QED BY <1>9, <1>16

\* A filter behind the first one is taken out: its neighbours get its links.
LinkedOut(c, p, in, out, in2, out2) ==
  /\ in2[c[p - 1]] = in[c[p]]
  /\ p < Len(c) => out2[c[p + 1]] = out[c[p]]
  /\ \A g \in Filters : g # c[p - 1] => in2[g] = in[g]
  /\ \A g \in Filters : (p < Len(c) => g # c[p + 1]) => out2[g] = out[g]

\* The list stays one.
LEMMA RemoveLinks ==
  ASSUME NEW c \in Seq(Filters), NEW first, NEW in, NEW out, OnePlace(c), IsList(c, first, in, out),
         NEW p \in 2..Len(c), NEW d, d \in Seq(Filters), Cut(d, c, p),
         NEW in2, NEW out2, LinkedOut(c, p, in, out, in2, out2)
  PROVE  OnePlace(d) /\ IsList(d, first, in2, out2)
<1> DEFINE n == Len(c)
<1>1. n \in Nat /\ DOMAIN c = 1..n /\ DOMAIN d = 1..(n - 1) /\ Len(d) = n - 1
  BY DEF Cut
<1>2. p \in Nat /\ p >= 2 /\ p <= n /\ p - 1 \in 1..n /\ p \in 1..n
  BY <1>1
<1>3. \A i \in 1..n : c[i] \in Filters
  BY <1>1
<1>5. \A i, j \in 1..n : c[i] = c[j] => i = j
  BY <1>1 DEF OnePlace
<1>6. \A i \in 1..n : in[c[i]] = IF i = n THEN NoFilter ELSE c[i + 1]
  BY DEF IsList
<1>7. \A i \in 1..n : out[c[i]] = IF i = 1 THEN NoFilter ELSE c[i - 1]
  BY DEF IsList
<1>8. \A i \in 1..(n - 1) : (i < p => d[i] = c[i]) /\ (i >= p => d[i] = c[i + 1])
  BY <1>1 DEF Cut
<1>0. n \in Nat /\ p \in Nat /\ p >= 2 /\ p <= n
  BY <1>1, <1>2
<1> HIDE DEF n
<1>4. \A j \in 1..(n - 1) : j \in Nat /\ j >= 1 /\ j < n /\ (j # n - 1 => j < n - 1) /\ (j # p - 1 /\ j < p => j < p - 1)
  BY <1>0
<1>9. OnePlace(d)
  <2>1. \A i, j \in 1..(n - 1) : d[i] = d[j] => i = j
    <3> SUFFICES ASSUME NEW i \in 1..(n - 1), NEW j \in 1..(n - 1), d[i] = d[j] PROVE i = j
      OBVIOUS
    <3>1. i \in 1..n /\ i + 1 \in 1..n /\ j \in 1..n /\ j + 1 \in 1..n
      BY <1>1
    <3>2. (i < p => d[i] = c[i]) /\ (i >= p => d[i] = c[i + 1])
      BY <1>8
    <3>3. (j < p => d[j] = c[j]) /\ (j >= p => d[j] = c[j + 1])
      BY <1>8
    <3> QED BY <3>1, <3>2, <3>3, <1>2, <1>5
  <2> QED BY <2>1, <1>1 DEF OnePlace
<1>10. first = d[1] /\ n - 1 # 0
  <2>1. 1 \in 1..(n - 1) /\ n # 0 /\ 1 < p
    BY <1>1, <1>2
  <2>2. first = c[1]
    BY <2>1 DEF n, IsList
  <2> QED BY <2>1, <2>2, <1>1, <1>8
<1>11. ASSUME NEW j \in 1..(n - 1), j < p
       PROVE  /\ in2[d[j]] = IF j = n - 1 THEN NoFilter ELSE d[j + 1]
              /\ out2[d[j]] = IF j = 1 THEN NoFilter ELSE d[j - 1]
  <2>1. d[j] = c[j] /\ c[j] \in Filters /\ j \in 1..n /\ (j # 1 => d[j - 1] = c[j - 1])
    BY <1>1, <1>2, <1>3, <1>8, <1>11
  <2>2. p < n => c[j] # c[p + 1]
    <3>1. p < n => p + 1 \in 1..n /\ j # p + 1
      BY <1>1, <1>2, <1>11
    <3> QED BY <2>1, <3>1, <1>5
  <2>3. out2[c[j]] = out[c[j]]
    BY <2>1, <2>2 DEF n, LinkedOut
  <2>4. CASE j = p - 1
    <3>1. in2[c[j]] = in[c[p]]
      BY <2>4 DEF LinkedOut
    <3>2. p = n <=> j = n - 1
      BY <2>4, <1>1, <1>2
    <3>3. j # n - 1 => d[j + 1] = c[p + 1]
      <4> SUFFICES ASSUME j # n - 1 PROVE d[j + 1] = c[p + 1]
        OBVIOUS
      <4>1. j \in Nat /\ j < n - 1
        BY <1>4
      <4>3. j + 1 = p /\ p \in 1..(n - 1) /\ p >= p
        BY <2>4, <4>1, <1>0
      <4>2. d[p] = c[p + 1]
        BY <4>3, <1>8
      <4> QED BY <4>2, <4>3
    <3> QED BY <3>1, <3>2, <3>3, <2>1, <2>3, <1>2, <1>6, <1>7
  <2>5. CASE j # p - 1
    <3>0. j \in Nat /\ j < p - 1
      BY <2>5, <1>4, <1>11
    <3>1. j # n - 1 /\ j # n /\ j + 1 < p /\ j + 1 \in 1..(n - 1)
      BY <3>0, <1>0
    <3>2. c[j] # c[p - 1] /\ d[j + 1] = c[j + 1]
      BY <2>1, <2>5, <3>1, <1>2, <1>5, <1>8
    <3>3. in2[c[j]] = in[c[j]]
      BY <2>1, <3>2 DEF LinkedOut
    <3> QED BY <2>1, <2>3, <3>1, <3>2, <3>3, <1>6, <1>7
  <2> QED BY <2>4, <2>5
<1>12. ASSUME NEW j \in 1..(n - 1), j >= p
       PROVE  /\ in2[d[j]] = IF j = n - 1 THEN NoFilter ELSE d[j + 1]
              /\ out2[d[j]] = IF j = 1 THEN NoFilter ELSE d[j - 1]
  <2> DEFINE k == j + 1
  <2>1. d[j] = c[k] /\ k \in 1..n /\ c[k] \in Filters /\ k # p - 1 /\ j # 1 /\ k # 1
    BY <1>1, <1>2, <1>3, <1>8, <1>12
  <2>2. in2[c[k]] = in[c[k]]
    BY <2>1, <1>2, <1>5 DEF LinkedOut
  <2>3. j # n - 1 => d[j + 1] = c[k + 1] /\ k # n
    <3> SUFFICES ASSUME j # n - 1 PROVE d[j + 1] = c[k + 1] /\ k # n
      OBVIOUS
    <3>0. j \in Nat /\ j < n - 1
      BY <1>4
    <3>1. j + 1 \in 1..(n - 1) /\ j + 1 >= p /\ k # n
      BY <3>0, <1>0, <1>12
    <3> QED BY <3>1, <1>8
  <2>4. j = n - 1 => k = n
    BY <1>1
  <2>5. in2[d[j]] = IF j = n - 1 THEN NoFilter ELSE d[j + 1]
    BY <2>1, <2>2, <2>3, <2>4, <1>6
  <2>6. CASE j = p
    <3>1. p < n /\ k = p + 1 /\ d[j - 1] = c[p - 1] /\ p # 1
      <4>1. j - 1 \in 1..(n - 1) /\ j - 1 < p /\ p < n /\ p # 1
        BY <2>6, <1>1, <1>2, <1>12
      <4> QED BY <2>6, <4>1, <1>8
    <3>2. out2[c[k]] = out[c[p]]
      BY <3>1 DEF n, LinkedOut
    <3> QED BY <2>1, <2>5, <3>1, <3>2, <1>2, <1>7
  <2>7. CASE j # p
    <3>1. j - 1 \in 1..(n - 1) /\ j - 1 >= p /\ (j - 1) + 1 = j /\ k - 1 = j /\ k # p + 1 /\ p + 1 \in 1..n
      BY <2>7, <1>1, <1>2, <1>12
    <3>2. d[j - 1] = c[(j - 1) + 1]
      BY <3>1, <1>8
    <3>3. c[k] # c[p + 1]
      BY <2>1, <3>1, <1>5
    <3> HIDE DEF k
    <3>4. out2[c[k]] = out[c[k]]
      BY <2>1, <3>3 DEF n, LinkedOut
    <3>5. out[c[k]] = c[k - 1]
      BY <2>1, <1>7
    <3> QED BY <2>1, <2>5, <3>1, <3>2, <3>4, <3>5
  <2> QED BY <2>6, <2>7
<1>14. first = IF Len(d) = 0 THEN NoFilter ELSE d[1]
  BY <1>1, <1>10
<1>15. \A j \in 1..Len(d) : /\ in2[d[j]] = IF j = Len(d) THEN NoFilter ELSE d[j + 1]
                            /\ out2[d[j]] = IF j = 1 THEN NoFilter ELSE d[j - 1]
  <2> SUFFICES ASSUME NEW j \in 1..(n - 1)
               PROVE  /\ in2[d[j]] = IF j = n - 1 THEN NoFilter ELSE d[j + 1]
                      /\ out2[d[j]] = IF j = 1 THEN NoFilter ELSE d[j - 1]
    BY <1>1
  <2>1. j < p \/ j >= p
    BY <1>2
  <2> QED BY <2>1, <1>11, <1>12
<1>16. IsList(d, first, in2, out2)
  BY ONLY <1>14, <1>15 DEF IsList
<1> QED BY <1>9, <1>16

\* A filter of the list has a position in it.
LEMMA PosOf ==
  ASSUME chain \in Seq(Filters), NEW f \in ToSet(chain)
  PROVE  Pos(f) \in 1..Len(chain) /\ chain[Pos(f)] = f
<1>1. \E i \in DOMAIN chain : chain[i] = f
  BY DEF ToSet
<1>2. Pos(f) \in DOMAIN chain /\ chain[Pos(f)] = f
  BY <1>1 DEF Pos
<1> QED BY <1>2

\* The edits and their types, at the first filter too.
LEMMA EditTypes ==
  ASSUME ListTypeOK, NEW b \in Filters, NEW f \in Filters,
         add_inbound(b, f) \/ add_outbound(b, f) \/ remove(f)
  PROVE  ListTypeOK'
<1>1. /\ _inbound \in Link /\ inbound \in [Filters -> Link] /\ outbound \in [Filters -> Link]
      /\ chain \in Seq(Filters) /\ edits \in Nat
  BY DEF ListTypeOK
<1>2. inbound[b] \in Link /\ outbound[b] \in Link /\ inbound[f] \in Link /\ outbound[f] \in Link /\ f \in Link
  BY <1>1 DEF Link
<1>3. edits' \in Nat
  BY <1>1 DEF add_inbound, add_outbound, remove, Edited
<1>4. ASSUME NEW l \in [Filters -> Link], NEW x \in Link, NEW y \in Link PROVE Set(l, x, y) \in [Filters -> Link]
  BY DEF Set, Link
<1>5. ASSUME NEW l \in [Filters -> Link], NEW x \in Filters, NEW y \in Link
      PROVE  [l EXCEPT ![x] = y] \in [Filters -> Link]
  OBVIOUS
<1>6. CASE add_inbound(b, f)
  <2> DEFINE l == [outbound EXCEPT ![f] = b]
  <2>1. l \in [Filters -> Link]
    BY <1>1 DEF Link
  <2>2. outbound' = Set(l, inbound[b], f)
    BY <1>6 DEF add_inbound
  <2> HIDE DEF l
  <2>3. outbound' \in [Filters -> Link]
    BY <2>1, <2>2, <1>2, <1>4
  <2>4. inbound' \in [Filters -> Link] /\ _inbound' = _inbound
    BY <1>1, <1>2, <1>6 DEF add_inbound
  <2> DEFINE p == Pos(b) + 1
  <2>5. p \in 1..(Len(chain) + 1)
    BY <1>1, <1>6, PosOf DEF add_inbound, MayEdit
  <2>6. chain' = InsertAt(chain, p, f)
    BY <1>6 DEF add_inbound
  <2> HIDE DEF p
  <2>7. chain' \in Seq(Filters)
    BY <1>1, <2>5, <2>6, Inserted
  <2> QED BY <1>1, <1>3, <2>3, <2>4, <2>7 DEF ListTypeOK
<1>7. CASE add_outbound(b, f)
  <2> DEFINE l == [inbound EXCEPT ![f] = b]
  <2>1. l \in [Filters -> Link]
    BY <1>1 DEF Link
  <2>2. inbound' = Set(l, outbound[b], f)
    BY <1>7 DEF add_outbound
  <2> HIDE DEF l
  <2>3. inbound' \in [Filters -> Link]
    BY <2>1, <2>2, <1>2, <1>4
  <2>4. outbound' \in [Filters -> Link] /\ _inbound' = _inbound
    BY <1>1, <1>2, <1>7 DEF add_outbound
  <2> DEFINE p == Pos(b)
  <2>5. p \in 1..(Len(chain) + 1)
    BY <1>1, <1>7, PosOf DEF add_outbound, MayEdit
  <2>6. chain' = InsertAt(chain, p, f)
    BY <1>7 DEF add_outbound
  <2> HIDE DEF p
  <2>7. chain' \in Seq(Filters)
    BY <1>1, <2>5, <2>6, Inserted
  <2> QED BY <1>1, <1>3, <2>3, <2>4, <2>7 DEF ListTypeOK
<1>8. CASE remove(f)
  <2>1. /\ outbound' = Set(outbound, inbound[f], outbound[f])
        /\ inbound' = Set(inbound, outbound[f], inbound[f]) /\ _inbound' \in Link
    BY <1>1, <1>2, <1>8 DEF remove
  <2>2. outbound' \in [Filters -> Link] /\ inbound' \in [Filters -> Link]
    BY <2>1, <1>1, <1>2, <1>4
  <2> DEFINE p == Pos(f)
  <2>3. p \in 1..Len(chain)
    BY <1>1, <1>8, PosOf DEF remove, MayEdit
  <2>4. chain' = RemoveAt(chain, p)
    BY <1>8 DEF remove
  <2> HIDE DEF p
  <2>5. chain' \in Seq(Filters)
    BY <1>1, <2>3, <2>4, Removed
  <2> QED BY <1>3, <2>1, <2>2, <2>5 DEF ListTypeOK
<1> QED BY <1>6, <1>7, <1>8

\* add_inbound links its filter in behind base,
LEMMA AddInboundLinks ==
  ASSUME ListTypeOK, LinkInv, NEW b \in Filters, NEW f \in Filters, add_inbound(b, f)
  PROVE  LinkInv'
<1>1. /\ inbound \in [Filters -> Link] /\ outbound \in [Filters -> Link] /\ chain \in Seq(Filters)
      /\ OnePlace(chain) /\ IsList(chain, _inbound, inbound, outbound)
  BY DEF ListTypeOK, LinkInv
<1> DEFINE p == Pos(b) + 1
           n == Len(chain)
<1>2. p \in 2..(n + 1) /\ p - 1 \in 1..n /\ chain[p - 1] = b /\ (p <= n => p \in 1..n) /\ n \in Nat
  BY <1>1, PosOf DEF add_inbound, MayEdit
<1>3. chain' = InsertAt(chain, p, f) /\ _inbound' = _inbound
  BY DEF add_inbound
<1>4. \A i \in DOMAIN chain : chain[i] # f
  BY DEF add_inbound, New, ToSet
<1> HIDE DEF p
<1>5. chain' \in Seq(Filters) /\ Spliced(chain', chain, p, f)
  BY <1>1, <1>2, <1>3, Inserted
<1>6. inbound[b] = IF p <= n THEN chain[p] ELSE NoFilter
  <2>1. inbound[chain[p - 1]] = IF p - 1 = n THEN NoFilter ELSE chain[(p - 1) + 1]
    BY <1>1, <1>2 DEF IsList
  <2>2. (p - 1) + 1 = p /\ (p - 1 = n <=> ~(p <= n))
    BY <1>2
  <2> QED BY <1>2, <2>1, <2>2
<1>7. b # f /\ (p <= n => chain[p] # f /\ chain[p] \in Filters)
  BY <1>1, <1>2, <1>4
<1>8. inbound' = [inbound EXCEPT ![f] = inbound[b], ![b] = f]
  BY DEF add_inbound
<1>9. inbound'[f] = inbound[b] /\ inbound'[b] = f /\ \A g \in Filters : g # f /\ g # b => inbound'[g] = inbound[g]
  BY <1>1, <1>7, <1>8
<1>10. outbound' = Set([outbound EXCEPT ![f] = b], inbound[b], f)
  BY DEF add_inbound
<1>11. /\ outbound'[f] = b /\ (p <= n => outbound'[chain[p]] = f)
       /\ \A g \in Filters : g # f /\ (p <= n => g # chain[p]) => outbound'[g] = outbound[g]
  <2>1. CASE p <= n
    <3>1. outbound' = [[outbound EXCEPT ![f] = b] EXCEPT ![chain[p]] = f]
      BY <2>1, <1>6, <1>7, <1>10, PipelineAssumption DEF Set
    <3> QED BY <2>1, <3>1, <1>1, <1>7
  <2>2. CASE ~(p <= n)
    <3>1. outbound' = [outbound EXCEPT ![f] = b]
      BY <2>2, <1>6, <1>10 DEF Set
    <3> QED BY <2>2, <3>1, <1>1
  <2> QED BY <2>1, <2>2
<1>12. LinkedIn(chain, p, f, inbound, outbound, inbound', outbound')
  BY <1>2, <1>6, <1>9, <1>11 DEF LinkedIn
<1>13. OnePlace(chain') /\ IsList(chain', _inbound, inbound', outbound')
  BY <1>1, <1>2, <1>4, <1>5, <1>12, InsertLinks
<1> QED BY <1>3, <1>13 DEF LinkInv

\* add_outbound in front of it, if it is not the first,
LEMMA AddOutboundLinks ==
  ASSUME ~HeadEdits, ListTypeOK, LinkInv, NEW b \in Filters, NEW f \in Filters, add_outbound(b, f)
  PROVE  LinkInv'
<1>1. /\ inbound \in [Filters -> Link] /\ outbound \in [Filters -> Link] /\ chain \in Seq(Filters)
      /\ OnePlace(chain) /\ IsList(chain, _inbound, inbound, outbound)
  BY DEF ListTypeOK, LinkInv
<1> DEFINE p == Pos(b)
           n == Len(chain)
<1>2. p \in 1..n /\ chain[p] = b /\ p # 1 /\ n \in Nat
  BY <1>1, PosOf DEF add_outbound, MayEdit
<1>3. chain' = InsertAt(chain, p, f) /\ _inbound' = _inbound
  BY DEF add_outbound
<1>4. \A i \in DOMAIN chain : chain[i] # f
  BY DEF add_outbound, New, ToSet
<1> HIDE DEF p
<1>5. p \in 2..(n + 1) /\ p - 1 \in 1..n /\ p <= n /\ p \in 1..(n + 1)
  BY <1>2
<1>6. chain' \in Seq(Filters) /\ Spliced(chain', chain, p, f)
  BY <1>1, <1>3, <1>5, Inserted
<1> DEFINE a == chain[p - 1]
<1>7. outbound[b] = a
  BY <1>1, <1>2 DEF IsList
<1>8. b # f /\ a # f /\ a \in Filters /\ a # b
  <2>1. p - 1 # p
    BY <1>2
  <2> QED BY <2>1, <1>1, <1>2, <1>4, <1>5 DEF OnePlace
<1>9. outbound' = [outbound EXCEPT ![f] = outbound[b], ![b] = f]
  BY DEF add_outbound
<1>10. outbound'[f] = a /\ outbound'[b] = f /\ \A g \in Filters : g # f /\ g # b => outbound'[g] = outbound[g]
  BY <1>1, <1>7, <1>8, <1>9
<1>11. inbound' = Set([inbound EXCEPT ![f] = b], outbound[b], f)
  BY DEF add_outbound
<1> HIDE DEF a
<1>12. inbound' = [[inbound EXCEPT ![f] = b] EXCEPT ![a] = f]
  BY <1>7, <1>8, <1>11, PipelineAssumption DEF Set
<1>13. inbound'[f] = b /\ inbound'[a] = f /\ \A g \in Filters : g # f /\ g # a => inbound'[g] = inbound[g]
  BY <1>1, <1>8, <1>12
<1>14. LinkedIn(chain, p, f, inbound, outbound, inbound', outbound')
  BY <1>2, <1>5, <1>10, <1>13 DEF a, LinkedIn
<1>15. OnePlace(chain') /\ IsList(chain', _inbound, inbound', outbound')
  BY <1>1, <1>4, <1>5, <1>6, <1>14, InsertLinks
<1> QED BY <1>3, <1>15 DEF LinkInv

\* and remove takes one out that is not the first.
LEMMA RemoveKeepsLinks ==
  ASSUME ~HeadEdits, ListTypeOK, LinkInv, NEW f \in Filters, remove(f)
  PROVE  LinkInv'
<1>1. /\ inbound \in [Filters -> Link] /\ outbound \in [Filters -> Link] /\ chain \in Seq(Filters)
      /\ OnePlace(chain) /\ IsList(chain, _inbound, inbound, outbound)
  BY DEF ListTypeOK, LinkInv
<1> DEFINE p == Pos(f)
           n == Len(chain)
<1>2. p \in 1..n /\ chain[p] = f /\ f # chain[1] /\ n \in Nat
  BY <1>1, PosOf DEF remove, MayEdit
<1>3. chain' = RemoveAt(chain, p)
  BY DEF remove
<1> HIDE DEF p
<1>4. p \in 2..n /\ p - 1 \in 1..n /\ (p < n => p + 1 \in 1..n)
  BY <1>2
<1>5. _inbound' = _inbound
  <2>1. _inbound = chain[1]
    BY <1>1, <1>2 DEF IsList
  <2> QED BY <2>1, <1>2 DEF remove
<1>6. chain' \in Seq(Filters) /\ Cut(chain', chain, p)
  BY <1>1, <1>2, <1>3, Removed
<1> DEFINE a == chain[p - 1]
           z == chain[p + 1]
<1>7. outbound[f] = a /\ a \in Filters
  BY <1>1, <1>2, <1>4 DEF IsList
<1>8. inbound[f] = (IF p < n THEN z ELSE NoFilter) /\ (p < n => z \in Filters)
  BY <1>1, <1>2, <1>4 DEF IsList
<1>9. inbound' = Set(inbound, outbound[f], inbound[f]) /\ outbound' = Set(outbound, inbound[f], outbound[f])
  BY DEF remove
<1> HIDE DEF a, z
<1>10. inbound' = [inbound EXCEPT ![a] = inbound[f]]
  BY <1>7, <1>9, PipelineAssumption DEF Set
<1>11. inbound'[a] = inbound[f] /\ \A g \in Filters : g # a => inbound'[g] = inbound[g]
  BY <1>1, <1>7, <1>10
<1>12. /\ p < n => outbound'[z] = outbound[f]
       /\ \A g \in Filters : (p < n => g # z) => outbound'[g] = outbound[g]
  <2>1. CASE p < n
    <3>1. outbound' = [outbound EXCEPT ![z] = outbound[f]]
      BY <2>1, <1>8, <1>9, PipelineAssumption DEF Set
    <3> QED BY <2>1, <3>1, <1>1, <1>8
  <2>2. CASE ~(p < n)
    BY <2>2, <1>8, <1>9 DEF Set
  <2> QED BY <2>1, <2>2
<1>13. LinkedOut(chain, p, inbound, outbound, inbound', outbound')
  BY <1>2, <1>11, <1>12 DEF a, z, LinkedOut
<1>14. OnePlace(chain') /\ IsList(chain', _inbound, inbound', outbound')
  BY <1>1, <1>4, <1>6, <1>13, RemoveLinks
<1> QED BY <1>5, <1>14 DEF LinkInv

\* While the channel is built, the walk along the inbound links ends at the
\* last filter added.
LEMMA LastFilterIs ==
  ASSUME ListTypeOK, LinkInv, Clean(chain, inbound, outbound), _inbound # NoFilter
  PROVE  Len(chain) \in Nat \ {0} /\ LastFilter = chain[Len(chain)]
<1> DEFINE n == Len(chain)
           l == chain[n]
           P(f) == inbound[f] = NoFilter /\ (f = _inbound \/ outbound[f] # NoFilter)
<1>1. chain \in Seq(Filters) /\ OnePlace(chain) /\ IsList(chain, _inbound, inbound, outbound)
  BY DEF ListTypeOK, LinkInv
<1>2. n \in Nat /\ n # 0 /\ DOMAIN chain = 1..n
  BY <1>1 DEF IsList
<1>3. \A i \in 1..n : chain[i] \in Filters
  BY <1>1
<1>4. l \in Filters /\ P(l)
  <2>1. n \in 1..n /\ (n # 1 => n - 1 \in 1..n)
    BY <1>2
  <2>2. inbound[l] = NoFilter /\ outbound[l] = IF n = 1 THEN NoFilter ELSE chain[n - 1]
    BY <1>1, <2>1 DEF IsList
  <2>3. _inbound = chain[1]
    BY <1>1, <1>2 DEF IsList
  <2> QED BY <2>1, <2>2, <2>3, <1>3, PipelineAssumption
<1>5. ASSUME NEW f \in Filters, P(f) PROVE f = l
  <2>1. CASE f \in ToSet(chain)
    <3>1. PICK i \in 1..n : chain[i] = f
      BY <2>1, <1>2 DEF ToSet
    <3>2. inbound[chain[i]] = IF i = n THEN NoFilter ELSE chain[i + 1]
      BY <1>1 DEF IsList
    <3>3. i # n => i + 1 \in 1..n
      <4>1. n \in Nat
        BY <1>2
      <4> QED BY <4>1
    <3>4. i = n
      BY <3>1, <3>2, <3>3, <1>3, <1>5, PipelineAssumption
    <3> QED BY <3>1, <3>4
  <2>2. CASE f \notin ToSet(chain)
    <3>1. outbound[f] = NoFilter
      BY <2>2 DEF Clean
    <3>2. _inbound = chain[1]
      BY <1>1, <1>2 DEF IsList
    <3>3. 1 \in DOMAIN chain
      <4>1. n \in Nat /\ n # 0
        BY <1>2
      <4>2. 1 \in 1..n
        BY <4>1
      <4> QED BY <4>2, <1>2
    <3> QED BY <2>2, <3>1, <3>2, <3>3, <1>5 DEF ToSet
  <2> QED BY <2>1, <2>2
<1>6. LastFilter = CHOOSE f \in Filters : P(f)
  BY DEF LastFilter
<1> HIDE DEF P, l
<1>7. LastFilter = l
  BY <1>4, <1>5, <1>6
<1> QED BY <1>2, <1>7 DEF l

\* add links its filter in at the end.
LEMMA AddLinks ==
  ASSUME ListTypeOK, BuiltClean, NEW f \in Filters, add(f)
  PROVE  ListTypeOK' /\ BuiltClean'
<1>1. /\ inbound \in [Filters -> Link] /\ outbound \in [Filters -> Link] /\ chain \in Seq(Filters)
      /\ edits \in Nat /\ _inbound \in Link
      /\ OnePlace(chain) /\ IsList(chain, _inbound, inbound, outbound)
      /\ LinkInv /\ Clean(chain, inbound, outbound)
  BY DEF add, ListTypeOK, BuiltClean, LinkInv
<1> DEFINE n == Len(chain)
           p == n + 1
<1>2. n \in Nat /\ DOMAIN chain = 1..n
  BY <1>1
<1>3. chain' = Append(chain, f) /\ edits' = edits
  BY DEF add, history
<1>4. /\ chain' \in Seq(Filters) /\ Len(chain') = n + 1 /\ chain'[n + 1] = f
      /\ \A i \in 1..n : chain'[i] = chain[i]
  BY <1>1, <1>3
<1>5. \A i \in DOMAIN chain : chain[i] # f
  BY DEF add, New, ToSet
<1>6. inbound[f] = NoFilter /\ outbound[f] = NoFilter
  BY DEF add, New
<1>7. ASSUME NEW g \in Filters, g \notin ToSet(chain') PROVE g \notin ToSet(chain) /\ g # f
  <2>1. DOMAIN chain' = 1..(n + 1)
    BY <1>4
  <2> QED BY <2>1, <1>2, <1>4, <1>7 DEF ToSet
<1>8. CASE _inbound = NoFilter
  <2>1. _inbound' = f /\ inbound' = inbound /\ outbound' = outbound
    BY <1>8 DEF add
  <2>2. n = 0
    <3> SUFFICES ASSUME n # 0 PROVE FALSE
      OBVIOUS
    <3>1. n \in Nat
      BY <1>2
    <3>2. 1 \in 1..n
      BY <3>1
    <3>3. _inbound = chain[1]
      BY <1>1 DEF IsList
    <3>4. chain[1] \in Filters
      BY <3>2, <1>1
    <3> QED BY <3>3, <3>4, <1>8, PipelineAssumption
  <2>3. Len(chain') = 1 /\ chain'[1] = f /\ DOMAIN chain' = 1..1
    BY <2>2, <1>4
  <2>4. OnePlace(chain')
    BY <2>3 DEF OnePlace
  <2>5. IsList(chain', _inbound', inbound', outbound')
    BY <2>1, <2>3, <1>6 DEF IsList
  <2>6. ListTypeOK'
    BY <1>1, <1>3, <1>4, <2>1 DEF ListTypeOK, Link
  <2>7. Clean(chain', inbound', outbound')
    BY <1>1, <1>7, <2>1 DEF Clean
  <2> QED BY <2>4, <2>5, <2>6, <2>7 DEF BuiltClean, LinkInv
<1>9. CASE _inbound # NoFilter
  <2> DEFINE l == chain[n]
  <2>1. n # 0 /\ LastFilter = l
    BY <1>1, <1>9, LastFilterIs
  <2>2. inbound' = [inbound EXCEPT ![l] = f] /\ outbound' = [outbound EXCEPT ![f] = l] /\ _inbound' = _inbound
    BY <1>9, <2>1 DEF add
  <2>3. l \in Filters /\ l # f /\ p \in 2..(n + 1) /\ p - 1 = n /\ ~(p <= n) /\ n \in DOMAIN chain
    BY <1>1, <1>2, <1>5, <2>1
  <2>4. ListTypeOK'
    BY <1>1, <1>3, <1>4, <2>2, <2>3 DEF ListTypeOK, Link
  <2>5. Spliced(chain', chain, p, f)
    BY <1>2, <1>4 DEF Spliced
  <2>6. LinkedIn(chain, p, f, inbound, outbound, inbound', outbound')
    <3>1. /\ inbound'[f] = NoFilter /\ inbound'[l] = f /\ outbound'[f] = l
          /\ \A g \in Filters : g # l => inbound'[g] = inbound[g]
          /\ \A g \in Filters : g # f => outbound'[g] = outbound[g]
      BY <1>1, <1>6, <2>2, <2>3
    <3> QED BY <2>3, <3>1 DEF LinkedIn
  <2>7. OnePlace(chain') /\ IsList(chain', _inbound, inbound', outbound')
    <3> HIDE DEF p
    <3> QED BY <1>1, <1>4, <1>5, <2>3, <2>5, <2>6, InsertLinks
  <2>8. ASSUME NEW g \in Filters, g \notin ToSet(chain') PROVE inbound'[g] = NoFilter /\ outbound'[g] = NoFilter
    <3>1. g \notin ToSet(chain) /\ g # f
      BY <1>7, <2>8
    <3>2. g # l
      BY <3>1, <2>3 DEF ToSet
    <3> QED BY <3>1, <3>2, <1>1, <2>2 DEF Clean
  <2>9. Clean(chain', inbound', outbound')
    BY <2>8 DEF Clean
  <2> QED BY <2>2, <2>4, <2>7, <2>9 DEF BuiltClean, LinkInv
<1> QED BY <1>8, <1>9

\* A walk from _inbound meets the filters of the list in their order.
LEMMA WalkIsChain ==
  ASSUME ListTypeOK, LinkInv
  PROVE  Walk = chain
<1> DEFINE n == Len(chain)
           P(s) == /\ s = <<>> <=> _inbound = NoFilter
                   /\ s # <<>> => s[1] = _inbound /\ inbound[Last(s)] = NoFilter
                   /\ \A i \in 1..(Len(s) - 1) : s[i + 1] = inbound[s[i]]
           B == BoundedSeq(Filters, n + edits)
<1>1. chain \in Seq(Filters) /\ edits \in Nat /\ OnePlace(chain) /\ IsList(chain, _inbound, inbound, outbound)
  BY DEF ListTypeOK, LinkInv
<1>2. n \in Nat /\ DOMAIN chain = 1..n /\ (chain = <<>> <=> n = 0) /\ \A i \in 1..n : chain[i] \in Filters
  BY <1>1
<1>3. \A i \in 1..n : inbound[chain[i]] = IF i = n THEN NoFilter ELSE chain[i + 1]
  BY <1>1 DEF IsList
<1>4. _inbound = IF n = 0 THEN NoFilter ELSE chain[1]
  BY <1>1 DEF IsList
<1>5. chain \in B
  <2>1. chain \in [1..n -> Filters] /\ n \in 0..(n + edits)
    BY <1>1, <1>2
  <2> QED BY <2>1 DEF BoundedSeq, SeqOf
<1>6. P(chain)
  <2>1. chain = <<>> <=> _inbound = NoFilter
    <3>1. n # 0 => chain[1] \in Filters
      BY <1>2
    <3> QED BY <3>1, <1>2, <1>4, PipelineAssumption
  <2>2. chain # <<>> => chain[1] = _inbound /\ inbound[Last(chain)] = NoFilter
    <3> SUFFICES ASSUME n # 0 PROVE chain[1] = _inbound /\ inbound[chain[n]] = NoFilter
      BY <1>2 DEF Last
    <3>1. n \in Nat
      BY <1>2
    <3>2. n \in 1..n
      BY <3>1
    <3> QED BY <3>2, <1>3, <1>4
  <2>3. \A i \in 1..(n - 1) : chain[i + 1] = inbound[chain[i]]
    <3> SUFFICES ASSUME NEW i \in 1..(n - 1) PROVE chain[i + 1] = inbound[chain[i]]
      OBVIOUS
    <3>1. n \in Nat
      BY <1>2
    <3>2. i \in 1..n /\ i # n
      BY <3>1
    <3> QED BY <3>2, <1>3
  <2> QED BY <2>1, <2>2, <2>3
<1>7. ASSUME NEW s \in B, P(s) PROVE s = chain
  <2>1. PICK m \in 0..(n + edits) : s \in [1..m -> Filters]
    BY DEF BoundedSeq, SeqOf
  <2>2. m \in Nat /\ s \in Seq(Filters) /\ Len(s) = m /\ (s = <<>> <=> m = 0)
    BY <1>1, <1>2, <2>1
  <2>3. m = 0 <=> n = 0
    BY <1>2, <1>6, <1>7, <2>2
  <2>4. /\ s # <<>> => s[1] = _inbound /\ inbound[s[m]] = NoFilter
        /\ \A i \in 1..(m - 1) : s[i + 1] = inbound[s[i]]
    BY <1>7, <2>2 DEF Last
  <2> HIDE DEF P, n
  <2> DEFINE D == {i \in Nat : i \in 1..m /\ ~(i <= n /\ s[i] = chain[i])}
  <2>5. D = {}
    <3> SUFFICES ASSUME D # {} PROVE FALSE
      OBVIOUS
    <3>1. D \in SUBSET Nat
      OBVIOUS
    <3>2. PICK k \in D : \A j \in D : k <= j
      BY <3>1, LeastNatural
    <3>3. k \in 1..m /\ ~(k <= n /\ s[k] = chain[k])
      BY <3>2
    <3>4. CASE k = 1
      BY <3>3, <3>4, <1>2, <1>4, <2>2, <2>3, <2>4
    <3>5. CASE k # 1
      <4> DEFINE j == k - 1
      <4>1. j \in Nat /\ j \in 1..m /\ j \in 1..(m - 1) /\ j + 1 = k /\ ~(k <= j)
        BY <3>3, <3>5, <2>2
      <4>2. j <= n /\ s[j] = chain[j]
        BY <3>2, <4>1
      <4>3. s[k] = inbound[s[j]]
        BY <2>4, <4>1
      <4>4. j \in 1..n
        BY <4>1, <4>2, <1>2
      <4>5. s[k] \in Filters
        BY <2>1, <3>3
      <4>6. j # n /\ s[k] = chain[k]
        BY <4>1, <4>2, <4>3, <4>4, <4>5, <1>3, PipelineAssumption
      <4>7. k <= n
        BY <4>1, <4>4, <4>6, <1>2
      <4> QED BY <3>3, <4>6, <4>7
    <3> QED BY <3>4, <3>5
  <2>6. \A i \in 1..m : i <= n /\ s[i] = chain[i]
    BY <2>5
  <2>7. m = n
    <3>1. CASE m = 0
      BY <3>1, <2>3
    <3>2. CASE m # 0
      <4>1. m \in 1..m /\ m <= n /\ s[m] = chain[m] /\ m \in 1..n
        BY <3>2, <2>2, <2>6, <1>2
      <4>2. inbound[chain[m]] = NoFilter
        BY <3>2, <4>1, <2>2, <2>4
      <4>3. m # n => chain[m + 1] \in Filters
        BY <4>1, <1>2
      <4> QED BY <4>1, <4>2, <4>3, <1>3, PipelineAssumption
    <3> QED BY <3>1, <3>2
  <2>8. chain \in [1..n -> Filters]
    BY <1>1, <1>2 DEF n
  <2> QED BY <2>1, <2>6, <2>7, <2>8
<1>8. Walk = CHOOSE s \in B : P(s)
  BY DEF Walk
<1> HIDE DEF P, B
<1> QED BY <1>5, <1>6, <1>7, <1>8

-----------------------------------------------------------------------------
(* Calls and references. *)

\* The fields of a call.
LEMMA CallFields ==
  ASSUME NEW k \in {"event", "write", "close", "end"}, NEW f \in Link, NEW t \in Caller, NEW n \in Nat,
         NEW last \in BOOLEAN
  PROVE  /\ Call(k, f, t, n, last) \in CallRec
         /\ Call(k, f, t, n, last).k = k /\ Call(k, f, t, n, last).f = f
         /\ Call(k, f, t, n, last).t = t /\ Call(k, f, t, n, last).n = n
         /\ Call(k, f, t, n, last).last = last
BY DEF Call, CallRec

\* The two ends are no frames, and all other closures have a reference.
LEMMA Closures ==
  /\ Close \in Closure /\ End \in Closure /\ Close # End
  /\ Close \notin Owed /\ End \notin Owed /\ Owed \subseteq Closure /\ Owed \subseteq Frame
  /\ \A c \in Closure : c \in Owed \/ c = Close \/ c = End
  /\ \A c \in Owed : c \in Frame /\ c.last
<1>1. Close.k = "close" /\ End.k = "end"
  BY DEF Close, End, Call
<1>2. \A c \in Frame : c.k # "close" /\ c.k # "end"
  BY DEF Frame
<1> QED BY <1>1, <1>2 DEF Closure, Owed

\* Posting a closure.
LEMMA QueueAppend ==
  ASSUME NEW s \in Seq(Closure), NEW e \in Closure
  PROVE  /\ Append(s, e) \in Seq(Closure)
         /\ Count(Append(s, e), Owed) = Count(s, Owed) + IF e \in Owed THEN 1 ELSE 0
         /\ Count(Append(s, e), {Close}) = Count(s, {Close}) + IF e = Close THEN 1 ELSE 0
         /\ Count(Append(s, e), {End}) = Count(s, {End}) + IF e = End THEN 1 ELSE 0
<1>1. ASSUME NEW T
      PROVE  Append(s, e) \in Seq(Closure) /\ Count(Append(s, e), T) = Count(s, T) + IF e \in T THEN 1 ELSE 0
  BY CountAppend
<1> DEFINE A == {Close}
           B == {End}
<1>2. e \in A <=> e = Close
  OBVIOUS
<1>3. e \in B <=> e = End
  OBVIOUS
<1> HIDE DEF A, B
<1>4. /\ Count(Append(s, e), A) = Count(s, A) + IF e = Close THEN 1 ELSE 0
      /\ Count(Append(s, e), B) = Count(s, B) + IF e = End THEN 1 ELSE 0
  BY <1>1, <1>2, <1>3
<1> QED BY <1>1, <1>4 DEF A, B

\* Taking the first one.
LEMMA QueueTail ==
  ASSUME NEW s \in Seq(Closure), s # <<>>
  PROVE  /\ Tail(s) \in Seq(Closure) /\ Head(s) \in Closure
         /\ Count(s, Owed) = Count(Tail(s), Owed) + IF Head(s) \in Owed THEN 1 ELSE 0
         /\ Count(s, {Close}) = Count(Tail(s), {Close}) + IF Head(s) = Close THEN 1 ELSE 0
         /\ Count(s, {End}) = Count(Tail(s), {End}) + IF Head(s) = End THEN 1 ELSE 0
<1> DEFINE e == Head(s)
           u == Tail(s)
<1>1. ASSUME NEW T
      PROVE  e \in Closure /\ u \in Seq(Closure) /\ Count(s, T) = Count(u, T) + IF e \in T THEN 1 ELSE 0
  BY CountTail
<1> DEFINE A == {Close}
           B == {End}
<1>2. e \in A <=> e = Close
  OBVIOUS
<1>3. e \in B <=> e = End
  OBVIOUS
<1> HIDE DEF A, B, e, u
<1>4. /\ Count(s, A) = Count(u, A) + IF e = Close THEN 1 ELSE 0
      /\ Count(s, B) = Count(u, B) + IF e = End THEN 1 ELSE 0
  BY <1>1, <1>2, <1>3
<1> QED BY <1>1, <1>4 DEF A, B, e, u

\* Counts of a queue are numbers; where none is positive it is empty.
LEMMA QueueCounts ==
  ASSUME NEW s \in Seq(Closure)
  PROVE  /\ Count(s, Owed) \in Nat /\ Count(s, {Close}) \in Nat /\ Count(s, {End}) \in Nat
         /\ Count(s, Owed) = 0 /\ Count(s, {Close}) = 0 /\ Count(s, {End}) = 0 => s = <<>>
         /\ s = <<>> => Count(s, Owed) = 0 /\ Count(s, {Close}) = 0 /\ Count(s, {End}) = 0
<1>1. ASSUME NEW T PROVE Count(s, T) \in Nat /\ (Count(s, T) = 0 <=> \A k \in DOMAIN s : s[k] \notin T)
  BY CountType
<1>2. ASSUME NEW k \in DOMAIN s PROVE s[k] \in Owed \/ s[k] \in {Close} \/ s[k] \in {End}
  <2>1. s[k] \in Closure
    OBVIOUS
  <2> QED BY <2>1, Closures
<1>3. (\A k \in DOMAIN s : FALSE) => s = <<>>
  <2>1. s # <<>> => 1 \in DOMAIN s
    OBVIOUS
  <2> QED BY <2>1
<1>4. s = <<>> => \A k \in DOMAIN s : FALSE
  OBVIOUS
<1> DEFINE A == {Close}
           B == {End}
<1>5. \A k \in DOMAIN s : s[k] \in Owed \/ s[k] \in A \/ s[k] \in B
  BY <1>2
<1> HIDE DEF A, B
<1>6. /\ Count(s, Owed) \in Nat /\ Count(s, A) \in Nat /\ Count(s, B) \in Nat
      /\ Count(s, Owed) = 0 /\ Count(s, A) = 0 /\ Count(s, B) = 0 => s = <<>>
      /\ s = <<>> => Count(s, Owed) = 0 /\ Count(s, A) = 0 /\ Count(s, B) = 0
  BY <1>1, <1>3, <1>4, <1>5
<1> QED BY <1>6 DEF A, B

\* The references that threads own.
LEMMA Holders ==
  ASSUME NEW h \in [Caller -> BOOLEAN]
  PROVE  /\ Tally(h, {TRUE}) \in Nat
         /\ Tally(h, {TRUE}) = 0 <=> \A t \in Caller : ~h[t]
         /\ \A t \in Caller : ~h[t] => Tally([h EXCEPT ![t] = TRUE], {TRUE}) = Tally(h, {TRUE}) + 1
         /\ \A t \in Caller : h[t] => Tally(h, {TRUE}) = Tally([h EXCEPT ![t] = FALSE], {TRUE}) + 1
<1> DEFINE T == {TRUE}
<1>1. IsFiniteSet(Caller)
  <2>1. IsFiniteSet(Threads) /\ IsFiniteSet({Loop})
    BY PipelineAssumption, FS_Singleton
  <2> QED BY <2>1, FS_Union DEF Caller
<1>2. \A b \in BOOLEAN : b \in T <=> b
  OBVIOUS
<1> HIDE DEF T
<1>3. Tally(h, T) \in Nat /\ (Tally(h, T) = 0 <=> \A x \in Caller : h[x] \notin T)
  BY <1>1, TallyType
<1>4. Tally(h, T) = 0 <=> \A x \in Caller : ~h[x]
  BY <1>2, <1>3
<1>5. ASSUME NEW t \in Caller, ~h[t] PROVE Tally([h EXCEPT ![t] = TRUE], T) = Tally(h, T) + 1
  <2> DEFINE g == [h EXCEPT ![t] = TRUE]
  <2>1. g \in [Caller -> BOOLEAN] /\ g[t] = TRUE /\ \A y \in Caller : y # t => g[y] = h[y]
    OBVIOUS
  <2> HIDE DEF g
  <2>2. g[t] \in T /\ h[t] \notin T
    BY <2>1, <1>2, <1>5
  <2>3. /\ (h[t] \in T <=> g[t] \in T) => Tally(g, T) = Tally(h, T)
        /\ h[t] \notin T /\ g[t] \in T => Tally(g, T) = Tally(h, T) + 1
        /\ h[t] \in T /\ g[t] \notin T => Tally(h, T) = Tally(g, T) + 1
    <3>1. g \in [Caller -> BOOLEAN] /\ \A y \in Caller : y # t => g[y] = h[y]
      BY <2>1
    <3> QED BY <1>1, <3>1, TallyChange
  <2> QED BY <2>2, <2>3 DEF g
<1>6. ASSUME NEW t \in Caller, h[t] PROVE Tally(h, T) = Tally([h EXCEPT ![t] = FALSE], T) + 1
  <2> DEFINE g == [h EXCEPT ![t] = FALSE]
  <2>1. g \in [Caller -> BOOLEAN] /\ g[t] = FALSE /\ \A y \in Caller : y # t => g[y] = h[y]
    OBVIOUS
  <2> HIDE DEF g
  <2>2. g[t] \notin T /\ h[t] \in T
    BY <2>1, <1>2, <1>6
  <2>3. /\ (h[t] \in T <=> g[t] \in T) => Tally(g, T) = Tally(h, T)
        /\ h[t] \notin T /\ g[t] \in T => Tally(g, T) = Tally(h, T) + 1
        /\ h[t] \in T /\ g[t] \notin T => Tally(h, T) = Tally(g, T) + 1
    <3>1. g \in [Caller -> BOOLEAN] /\ \A y \in Caller : y # t => g[y] = h[y]
      BY <2>1
    <3> QED BY <1>1, <3>1, TallyChange
  <2> QED BY <2>2, <2>3 DEF g
<1> QED BY <1>3, <1>4, <1>5, <1>6 DEF T

\* Where somebody may still call, the channel lives.
LEMMA Alive ==
  ASSUME CallInv, (\E t \in Caller : hold[t]) \/ stack # <<>>
  PROVE  /\ refs >= 1 /\ st \notin {"built", "freed"} /\ Count(q, {End}) = 0
         /\ Opened \in Nat /\ Bottom \in Nat /\ Tally(hold, {TRUE}) \in Nat /\ Count(q, Owed) \in Nat
<1> DEFINE H == Tally(hold, {TRUE})
           O == Count(q, Owed)
<1>1. CallTypeOK /\ RefsAre /\ EndIs /\ StackIs /\ Quiet
  BY DEF CallInv
<1>2. H \in Nat /\ (H = 0 <=> \A t \in Caller : ~hold[t])
  BY <1>1, Holders DEF CallTypeOK
<1>3. O \in Nat
  BY <1>1, QueueCounts DEF CallTypeOK
<1>4. Opened \in Nat /\ Bottom \in Nat
  BY DEF Opened, Bottom
<1>5. refs = H + O + Bottom + Opened
  BY <1>1 DEF RefsAre
<1>6. H # 0 \/ Opened + Bottom >= 1
  BY <1>1, <1>2 DEF StackIs
<1> HIDE DEF H, O
<1>7. refs >= 1
  BY <1>2, <1>3, <1>4, <1>5, <1>6
<1>8. st \notin {"built", "freed"}
  BY <1>1, <1>7 DEF Quiet
<1>9. Count(q, {End}) = 0
  BY <1>1, <1>7, <1>8 DEF EndIs
<1> QED BY <1>2, <1>3, <1>4, <1>7, <1>8, <1>9 DEF H, O

\* release() posts the end with the last reference and not before.
LEMMA ReleasePosts ==
  ASSUME refs \in Nat, refs >= 1, NEW c \in Seq(Closure), Count(c, {End}) = 0, Release(c)
  PROVE  /\ refs' \in Nat /\ refs = refs' + 1 /\ q' \in Seq(Closure)
         /\ Count(q', Owed) = Count(c, Owed) /\ Count(q', {Close}) = Count(c, {Close})
         /\ Count(q', {End}) = IF refs' = 0 THEN 1 ELSE 0
<1>1. refs' = refs - 1 /\ q' = IF refs = 1 THEN Append(c, End) ELSE c
  BY DEF Release
<1>2. End \in Closure /\ End \notin Owed /\ End # Close
  BY Closures
<1>3. /\ Append(c, End) \in Seq(Closure)
      /\ Count(Append(c, End), Owed) = Count(c, Owed) + IF End \in Owed THEN 1 ELSE 0
      /\ Count(Append(c, End), {Close}) = Count(c, {Close}) + IF End = Close THEN 1 ELSE 0
      /\ Count(Append(c, End), {End}) = Count(c, {End}) + IF End = End THEN 1 ELSE 0
  <2> DEFINE e == End
  <2>1. e \in Closure
    BY <1>2
  <2> HIDE DEF e
  <2>2. /\ Append(c, e) \in Seq(Closure)
        /\ Count(Append(c, e), Owed) = Count(c, Owed) + IF e \in Owed THEN 1 ELSE 0
        /\ Count(Append(c, e), {Close}) = Count(c, {Close}) + IF e = Close THEN 1 ELSE 0
        /\ Count(Append(c, e), {End}) = Count(c, {End}) + IF e = End THEN 1 ELSE 0
    BY <2>1, QueueAppend
  <2> QED BY <2>2 DEF e
<1>4. Count(c, Owed) \in Nat /\ Count(c, {Close}) \in Nat
  BY QueueCounts
<1>5. CASE refs = 1
  BY <1>1, <1>2, <1>3, <1>4, <1>5
<1>6. CASE refs # 1
  BY <1>1, <1>6
<1> QED BY <1>5, <1>6

\* Calls go on unless one of these variables changes.
LEMMA CallsSame ==
  ASSUME CallInv, UNCHANGED <<st, stack, q, refs, hold>>
  PROVE  CallInv'
BY DEF CallInv, CallTypeOK, RefsAre, CloseIs, EndIs, StackIs, Quiet, Opened, Bottom

\* An event of the channel, with a first filter or none.
LEMMA FireFilter ==
  ASSUME _inbound \in Link, fire_filter
  PROVE  /\ stack' \in Seq(Frame) /\ Bottom' = 0 /\ (\A i \in DOMAIN stack' : ~(i > 1))
         /\ \A i \in DOMAIN stack' : stack'[i].k = "event"
<1>1. CASE _inbound = NoFilter
  <2>1. stack' = <<>>
    BY <1>1 DEF fire_filter
  <2> QED BY <2>1 DEF Bottom
<1>2. CASE _inbound # NoFilter
  <2> DEFINE c == Call("event", _inbound, Loop, 0, FALSE)
  <2>1. stack' = <<c>>
    BY <1>2 DEF fire_filter
  <2>2. c \in CallRec /\ c.k = "event" /\ c.f = _inbound /\ c.last = FALSE
    BY DEF Call, CallRec, Caller
  <2> HIDE DEF c
  <2>3. c \in Frame
    BY <2>2, <1>2 DEF Frame
  <2> QED BY <2>1, <2>2, <2>3 DEF Bottom
<1> QED BY <1>1, <1>2

\* fire_on_open takes the first reference.
LEMMA OpenKeeps ==
  ASSUME CallInv, _inbound \in Link, fire_on_open
  PROVE  CallInv'
<1>1. /\ st = "built" /\ st' = "open" /\ refs' = 1 /\ fire_filter /\ q' = q /\ hold' = hold
  BY DEF fire_on_open
<1>2. /\ CallTypeOK /\ q = <<>> /\ \A t \in Caller : ~hold[t]
  BY <1>1 DEF CallInv, Quiet
<1>3. /\ stack' \in Seq(Frame) /\ Bottom' = 0 /\ (\A i \in DOMAIN stack' : ~(i > 1))
  BY <1>1, FireFilter
<1>4. Opened' = 1
  BY <1>1 DEF Opened
<1>5. Count(q, Owed) = 0 /\ Count(q, {Close}) = 0 /\ Count(q, {End}) = 0
  BY <1>2, QueueCounts DEF CallTypeOK
<1>6. Tally(hold, {TRUE}) = 0
  BY <1>2, Holders DEF CallTypeOK
<1>7. CallTypeOK'
  BY <1>1, <1>2, <1>3 DEF CallTypeOK, States
<1>8. RefsAre'
  BY <1>1, <1>3, <1>4, <1>5, <1>6 DEF RefsAre
<1>9. CloseIs' /\ EndIs' /\ Quiet'
  BY <1>1, <1>5 DEF CloseIs, EndIs, Quiet
<1>10. StackIs'
  BY <1>3, <1>4 DEF StackIs
<1> QED BY <1>7, <1>8, <1>9, <1>10 DEF CallInv

\* Other events need none: the loop runs them while the channel is open.
LEMMA EventKeeps ==
  ASSUME CallInv, _inbound \in Link, fire_on_event
  PROVE  CallInv'
<1>1. /\ st = "open" /\ st' = st /\ stack = <<>> /\ refs' = refs /\ fire_filter /\ q' = q /\ hold' = hold
  BY DEF fire_on_event
<1>2. CallTypeOK /\ RefsAre /\ CloseIs /\ EndIs /\ Quiet
  BY DEF CallInv
<1>3. /\ stack' \in Seq(Frame) /\ Bottom' = 0 /\ (\A i \in DOMAIN stack' : ~(i > 1))
  BY <1>1, FireFilter
<1>4. Opened' = 1 /\ Opened = 1 /\ Bottom = 0
  BY <1>1 DEF Opened, Bottom
<1>5. CallTypeOK'
  BY <1>1, <1>2, <1>3 DEF CallTypeOK
<1>6. RefsAre'
  BY <1>1, <1>2, <1>3, <1>4 DEF RefsAre
<1>7. CloseIs' /\ EndIs' /\ Quiet'
  BY <1>1, <1>2 DEF CloseIs, EndIs, Quiet
<1>8. StackIs'
  BY <1>3, <1>4 DEF StackIs
<1> QED BY <1>5, <1>6, <1>7, <1>8 DEF CallInv

\* close() is posted once.
LEMMA CloseKeeps ==
  ASSUME CallInv, NEW t \in Caller, close(t)
  PROVE  CallInv'
<1>1. /\ st = "open" /\ st' = "closing" /\ q' = Append(q, Close)
      /\ stack' = stack /\ refs' = refs /\ hold' = hold
  BY DEF close
<1>2. CallTypeOK /\ RefsAre /\ CloseIs /\ EndIs /\ Quiet /\ StackIs
  BY DEF CallInv
<1> DEFINE e == Close
<1>3. e \in Closure /\ e \notin Owed /\ e = Close /\ e # End
  BY Closures
<1>4. q' = Append(q, e)
  BY <1>1
<1> HIDE DEF e
<1>5. /\ q' \in Seq(Closure)
      /\ Count(q', Owed) = Count(q, Owed) + IF e \in Owed THEN 1 ELSE 0
      /\ Count(q', {Close}) = Count(q, {Close}) + IF e = Close THEN 1 ELSE 0
      /\ Count(q', {End}) = Count(q, {End}) + IF e = End THEN 1 ELSE 0
  BY <1>2, <1>3, <1>4, QueueAppend DEF CallTypeOK
<1>6. Count(q, Owed) \in Nat /\ Count(q, {Close}) \in Nat /\ Count(q, {End}) \in Nat
  BY <1>2, QueueCounts DEF CallTypeOK
<1>7. Count(q', Owed) = Count(q, Owed) /\ Count(q', {Close}) = 1 /\ Count(q', {End}) = Count(q, {End})
  BY <1>1, <1>2, <1>3, <1>5, <1>6 DEF CloseIs
<1>8. Opened' = Opened /\ Bottom' = Bottom
  BY <1>1 DEF Opened, Bottom
<1>9. CallTypeOK'
  BY <1>1, <1>2, <1>5 DEF CallTypeOK, States
<1>10. RefsAre'
  BY <1>1, <1>2, <1>7, <1>8 DEF RefsAre
<1>11. CloseIs' /\ EndIs' /\ Quiet'
  BY <1>1, <1>2, <1>7 DEF CloseIs, EndIs, Quiet
<1>12. StackIs'
  BY <1>1, <1>2, <1>8 DEF StackIs
<1> QED BY <1>9, <1>10, <1>11, <1>12 DEF CallInv

\* What is left of a stack whose innermost call returns.
LEMMA FrontOf ==
  ASSUME NEW S, NEW s \in Seq(S), s # <<>>
  PROVE  /\ Front(s) \in Seq(S) /\ Last(s) \in S /\ Last(s) = s[Len(s)] /\ Len(s) \in Nat \ {0}
         /\ Len(Front(s)) = Len(s) - 1 /\ DOMAIN Front(s) = 1..(Len(s) - 1) /\ DOMAIN s = 1..Len(s)
         /\ \A i \in 1..(Len(s) - 1) : Front(s)[i] = s[i]
<1>1. Len(s) \in Nat /\ Len(s) # 0
  OBVIOUS
<1>2. Front(s) = SubSeq(s, 1, Len(s) - 1)
  BY DEF Front
<1> DEFINE n == Len(s) - 1
<1>3. n \in Nat /\ n <= Len(s)
  BY <1>1
<1> HIDE DEF n
<1>4. /\ SubSeq(s, 1, n) \in Seq(S) /\ Len(SubSeq(s, 1, n)) = n /\ DOMAIN SubSeq(s, 1, n) = 1..n
      /\ \A i \in 1..n : SubSeq(s, 1, n)[i] = s[i]
  BY <1>3
<1> QED BY <1>1, <1>2, <1>4 DEF n, Last

\* A call made by t, in place or posted with a reference.
LEMMA MakeKeeps ==
  ASSUME CallInv, NEW t \in Caller, NEW c \in Frame, ~c.last, c.t = t,
         hold[t] \/ (t = Loop /\ stack # <<>>), Make(t, c), st' = st, hold' = hold
  PROVE  CallInv'
<1>1. CallTypeOK /\ RefsAre /\ CloseIs /\ EndIs /\ Quiet /\ StackIs
  BY DEF CallInv
<1>2. /\ refs >= 1 /\ st \notin {"built", "freed"} /\ Count(q, {End}) = 0
      /\ Opened \in Nat /\ Bottom \in Nat /\ Tally(hold, {TRUE}) \in Nat /\ Count(q, Owed) \in Nat
  BY Alive
<1>3. CASE in_pipeline(t)
  <2>1. t = Loop /\ stack # <<>> /\ stack' = Append(stack, c) /\ q' = q /\ refs' = refs
    BY <1>3 DEF Make, in_pipeline
  <2>2. stack \in Seq(Frame) /\ Len(stack) \in Nat /\ Len(stack) # 0 /\ DOMAIN stack = 1..Len(stack)
    BY <1>1, <2>1 DEF CallTypeOK
  <2>3. c \in Upper
    BY <2>1 DEF Upper
  <2>4. /\ stack' \in Seq(Frame) /\ Len(stack') = Len(stack) + 1 /\ DOMAIN stack' = 1..(Len(stack) + 1)
        /\ \A i \in 1..Len(stack) : stack'[i] = stack[i]
        /\ stack'[Len(stack) + 1] = c /\ stack' # <<>>
    BY <2>1, <2>2
  <2>5. stack'[1] = stack[1]
    BY <2>2, <2>4
  <2>6. Bottom' = Bottom /\ Opened' = Opened
    BY <2>1, <2>4, <2>5 DEF Bottom, Opened
  <2>7. ASSUME NEW i \in DOMAIN stack', i > 1 PROVE stack'[i] \in Upper
    <3>1. CASE i = Len(stack) + 1
      BY <3>1, <2>3, <2>4
    <3>2. CASE i # Len(stack) + 1
      <4>1. i \in 1..Len(stack)
        BY <3>2, <2>2, <2>4
      <4> QED BY <4>1, <2>2, <2>4, <2>7, <1>1 DEF StackIs
    <3> QED BY <3>1, <3>2
  <2>8. StackIs'
    BY <1>1, <2>1, <2>6, <2>7 DEF StackIs
  <2>9. CallTypeOK'
    BY <1>1, <2>1, <2>4 DEF CallTypeOK
  <2>10. RefsAre' /\ CloseIs' /\ EndIs'
    BY <1>1, <2>1, <2>6 DEF RefsAre, CloseIs, EndIs
  <2>11. Quiet'
    BY <1>2 DEF Quiet
  <2> QED BY <2>8, <2>9, <2>10, <2>11 DEF CallInv
<1>4. CASE ~in_pipeline(t)
  <2> DEFINE e == [c EXCEPT !.last = TRUE]
  <2>1. q' = Append(q, e) /\ refs' = refs + 1 /\ stack' = stack
    BY <1>4 DEF Make
  <2>2. e \in Owed
    BY DEF Owed, Frame, CallRec
  <2> HIDE DEF e
  <2>3. e \in Closure /\ e # Close /\ e # End
    BY <2>2, Closures
  <2>4. /\ q' \in Seq(Closure)
        /\ Count(q', Owed) = Count(q, Owed) + IF e \in Owed THEN 1 ELSE 0
        /\ Count(q', {Close}) = Count(q, {Close}) + IF e = Close THEN 1 ELSE 0
        /\ Count(q', {End}) = Count(q, {End}) + IF e = End THEN 1 ELSE 0
    BY <1>1, <2>1, <2>3, QueueAppend DEF CallTypeOK
  <2>5. Count(q, Owed) \in Nat /\ Count(q, {Close}) \in Nat /\ Count(q, {End}) \in Nat
    BY <1>1, QueueCounts DEF CallTypeOK
  <2>6. /\ Count(q', Owed) = Count(q, Owed) + 1 /\ Count(q', {Close}) = Count(q, {Close})
        /\ Count(q', {End}) = Count(q, {End})
    BY <2>2, <2>3, <2>4, <2>5
  <2>7. Bottom' = Bottom /\ Opened' = Opened
    BY <2>1 DEF Bottom, Opened
  <2>8. StackIs'
    BY <1>1, <2>1, <2>7 DEF StackIs
  <2>9. CallTypeOK' /\ refs \in Nat
    BY <1>1, <2>1, <2>4 DEF CallTypeOK
  <2> DEFINE H == Tally(hold, {TRUE})
             O == Count(q, Owed)
             P == Count(q', Owed)
             B == Bottom
             X == Opened
  <2>10. refs = H + O + B + X /\ P = O + 1 /\ H \in Nat /\ O \in Nat /\ B \in Nat /\ X \in Nat
    BY <1>1, <1>2, <2>6 DEF RefsAre
  <2>11. RefsAre' <=> refs + 1 = H + P + B + X
    BY <2>1, <2>7 DEF RefsAre
  <2> HIDE DEF H, O, P, B, X
  <2>12. RefsAre'
    BY <2>10, <2>11
  <2>13. CloseIs' /\ EndIs'
    BY <1>1, <1>2, <2>1, <2>6, <2>9 DEF CloseIs, EndIs
  <2>14. Quiet'
    BY <1>2 DEF Quiet
  <2> QED BY <2>8, <2>9, <2>12, <2>13, <2>14 DEF CallInv
<1> QED BY <1>3, <1>4

\* The innermost call returns, and gives back what the outermost owed.
LEMMA ReturnKeeps ==
  ASSUME CallInv, stack # <<>>, Return, st' = st, hold' = hold
  PROVE  CallInv'
<1>1. CallTypeOK /\ RefsAre /\ CloseIs /\ EndIs /\ Quiet /\ StackIs
  BY DEF CallInv
<1>2. /\ refs >= 1 /\ st \notin {"built", "freed"} /\ Count(q, {End}) = 0
      /\ Opened \in Nat /\ Bottom \in Nat /\ Tally(hold, {TRUE}) \in Nat /\ Count(q, Owed) \in Nat
  BY Alive
<1> DEFINE n == Len(stack)
<1>3. /\ Front(stack) \in Seq(Frame) /\ Last(stack) \in Frame /\ Last(stack) = stack[n] /\ n \in Nat \ {0}
      /\ Len(Front(stack)) = n - 1 /\ DOMAIN Front(stack) = 1..(n - 1) /\ DOMAIN stack = 1..n
      /\ \A i \in 1..(n - 1) : Front(stack)[i] = stack[i]
  BY <1>1, FrontOf DEF CallTypeOK
<1>4. stack' = Front(stack) /\ (IF Top.last THEN Release(q) ELSE q' = q /\ refs' = refs) /\ Top = stack[n]
  BY <1>3 DEF Return, Top
<1>5. Quiet'
  BY <1>2 DEF Quiet
<1>6. Opened' = Opened
  BY DEF Opened
<1>7. CASE n = 1
  <2>1. stack' = <<>> /\ Top = stack[1]
    BY <1>3, <1>4, <1>7
  <2>2. Bottom' = 0 /\ Bottom = IF Top.last THEN 1 ELSE 0
    BY <2>1 DEF Bottom
  <2>3. StackIs'
    BY <2>1 DEF StackIs
  <2>4. CASE Top.last
    <3>1. Release(q)
      BY <1>4, <2>4
    <3>2. /\ refs' \in Nat /\ refs = refs' + 1 /\ q' \in Seq(Closure)
          /\ Count(q', Owed) = Count(q, Owed) /\ Count(q', {Close}) = Count(q, {Close})
          /\ Count(q', {End}) = IF refs' = 0 THEN 1 ELSE 0
      BY <1>1, <1>2, <3>1, ReleasePosts DEF CallTypeOK
    <3>3. CallTypeOK'
      BY <1>1, <1>3, <1>4, <3>2 DEF CallTypeOK
    <3> DEFINE H == Tally(hold, {TRUE})
               O == Count(q, Owed)
               X == Opened
               r == refs
               r2 == refs'
    <3>4. r = H + O + 1 + X /\ H \in Nat /\ O \in Nat /\ X \in Nat /\ r2 \in Nat /\ r = r2 + 1
      BY <1>1, <1>2, <2>2, <2>4, <3>2 DEF RefsAre
    <3>5. RefsAre' <=> r2 = H + O + 0 + X
      BY <1>6, <2>2, <3>2 DEF RefsAre
    <3> HIDE DEF H, O, X, r, r2
    <3>6. RefsAre'
      <4>1. r2 = H + O + 0 + X
        BY <3>4
      <4> QED BY <3>5, <4>1
    <3>7. CloseIs' /\ EndIs'
      BY <1>1, <1>2, <3>2 DEF CloseIs, EndIs
    <3> QED BY <1>5, <2>3, <3>3, <3>6, <3>7 DEF CallInv
  <2>5. CASE ~Top.last
    <3>1. q' = q /\ refs' = refs /\ Bottom = 0
      BY <1>4, <2>2, <2>5
    <3>2. CallTypeOK'
      BY <1>1, <1>3, <1>4, <3>1 DEF CallTypeOK
    <3>3. RefsAre' /\ CloseIs' /\ EndIs'
      BY <1>1, <1>6, <2>2, <3>1 DEF RefsAre, CloseIs, EndIs
    <3> QED BY <1>5, <2>3, <3>2, <3>3 DEF CallInv
  <2> QED BY <2>4, <2>5
<1>8. CASE n # 1
  <2>1. n > 1 /\ n \in DOMAIN stack /\ n - 1 \in Nat /\ n - 1 # 0 /\ 1 \in 1..(n - 1)
    BY <1>3, <1>8
  <2>2. ~Top.last
    BY <1>1, <1>4, <2>1 DEF StackIs, Upper
  <2>3. q' = q /\ refs' = refs
    BY <1>4, <2>2
  <2>4. stack' # <<>> /\ stack'[1] = stack[1]
    BY <1>3, <1>4, <2>1
  <2>5. Bottom' = Bottom
    BY <2>4 DEF Bottom
  <2>6. ASSUME NEW i \in DOMAIN stack', i > 1 PROVE stack'[i] \in Upper
    <3>1. i \in 1..(n - 1) /\ i \in DOMAIN stack
      BY <1>3, <1>4
    <3> QED BY <1>1, <1>3, <1>4, <2>6, <3>1 DEF StackIs
  <2>7. StackIs'
    BY <1>1, <1>6, <2>5, <2>6 DEF StackIs
  <2>8. CallTypeOK'
    BY <1>1, <1>3, <1>4, <2>3 DEF CallTypeOK
  <2>9. RefsAre' /\ CloseIs' /\ EndIs'
    BY <1>1, <1>6, <2>3, <2>5 DEF RefsAre, CloseIs, EndIs
  <2> QED BY <1>5, <2>7, <2>8, <2>9 DEF CallInv
<1> QED BY <1>7, <1>8

\* A called filter gives a thread a reference.
LEMMA AddRefKeeps ==
  ASSUME CallInv, NEW t \in Caller, add_ref(t)
  PROVE  CallInv'
<1>1. CallTypeOK /\ RefsAre /\ CloseIs /\ EndIs /\ Quiet /\ StackIs
  BY DEF CallInv
<1>2. /\ stack # <<>> /\ ~hold[t] /\ hold' = [hold EXCEPT ![t] = TRUE] /\ refs' = refs + 1
      /\ st' = st /\ stack' = stack /\ q' = q
  BY DEF add_ref
<1>3. /\ refs >= 1 /\ st \notin {"built", "freed"} /\ Count(q, {End}) = 0
      /\ Opened \in Nat /\ Bottom \in Nat /\ Tally(hold, {TRUE}) \in Nat /\ Count(q, Owed) \in Nat
  BY <1>2, Alive
<1>4. Bottom' = Bottom /\ Opened' = Opened
  BY <1>2 DEF Bottom, Opened
<1>5. CallTypeOK' /\ refs \in Nat
  BY <1>1, <1>2 DEF CallTypeOK
<1>6. Tally(hold', {TRUE}) = Tally(hold, {TRUE}) + 1
  BY <1>1, <1>2, Holders DEF CallTypeOK
<1> DEFINE H == Tally(hold, {TRUE})
           G == Tally(hold', {TRUE})
           O == Count(q, Owed)
           B == Bottom
           X == Opened
           r == refs
<1>7. r = H + O + B + X /\ G = H + 1 /\ H \in Nat /\ O \in Nat /\ B \in Nat /\ X \in Nat
  BY <1>1, <1>3, <1>6 DEF RefsAre
<1>8. RefsAre' <=> r + 1 = G + O + B + X
  BY <1>2, <1>4 DEF RefsAre
<1> HIDE DEF H, G, O, B, X, r
<1>9. RefsAre'
  <2>1. r + 1 = G + O + B + X
    BY <1>7
  <2> QED BY <1>8, <2>1
<1>10. CloseIs' /\ EndIs'
  BY <1>1, <1>2, <1>3, <1>5 DEF CloseIs, EndIs
<1>11. StackIs' /\ Quiet'
  BY <1>1, <1>2, <1>3, <1>4 DEF StackIs, Quiet
<1> QED BY <1>5, <1>9, <1>10, <1>11 DEF CallInv

\* A thread gives its reference back.
LEMMA ReleaseKeeps ==
  ASSUME CallInv, NEW t \in Caller, release(t)
  PROVE  CallInv'
<1>1. CallTypeOK /\ RefsAre /\ CloseIs /\ EndIs /\ Quiet /\ StackIs
  BY DEF CallInv
<1>2. /\ hold[t] /\ hold' = [hold EXCEPT ![t] = FALSE] /\ Release(q) /\ st' = st /\ stack' = stack
  BY DEF release
<1>3. /\ refs >= 1 /\ st \notin {"built", "freed"} /\ Count(q, {End}) = 0
      /\ Opened \in Nat /\ Bottom \in Nat /\ Tally(hold, {TRUE}) \in Nat /\ Count(q, Owed) \in Nat
  BY <1>2, Alive
<1>4. /\ refs' \in Nat /\ refs = refs' + 1 /\ q' \in Seq(Closure)
      /\ Count(q', Owed) = Count(q, Owed) /\ Count(q', {Close}) = Count(q, {Close})
      /\ Count(q', {End}) = IF refs' = 0 THEN 1 ELSE 0
  BY <1>1, <1>2, <1>3, ReleasePosts DEF CallTypeOK
<1>5. Bottom' = Bottom /\ Opened' = Opened
  BY <1>2 DEF Bottom, Opened
<1>6. CallTypeOK'
  BY <1>1, <1>2, <1>4 DEF CallTypeOK
<1>7. Tally(hold, {TRUE}) = Tally(hold', {TRUE}) + 1
  BY <1>1, <1>2, Holders DEF CallTypeOK
<1>8. Tally(hold', {TRUE}) \in Nat
  BY <1>6, Holders DEF CallTypeOK
<1> DEFINE H == Tally(hold, {TRUE})
           G == Tally(hold', {TRUE})
           O == Count(q, Owed)
           B == Bottom
           X == Opened
           r == refs
           r2 == refs'
<1>9. r = H + O + B + X /\ H = G + 1 /\ G \in Nat /\ O \in Nat /\ B \in Nat /\ X \in Nat /\ r2 \in Nat /\ r = r2 + 1
  BY <1>1, <1>3, <1>4, <1>7, <1>8 DEF RefsAre
<1>10. RefsAre' <=> r2 = G + O + B + X
  BY <1>4, <1>5 DEF RefsAre
<1> HIDE DEF H, G, O, B, X, r, r2
<1>11. RefsAre'
  <2>1. r2 = G + O + B + X
    BY <1>9
  <2> QED BY <1>10, <2>1
<1>12. CloseIs' /\ EndIs'
  BY <1>1, <1>2, <1>3, <1>4 DEF CloseIs, EndIs
<1>13. StackIs' /\ Quiet'
  BY <1>1, <1>2, <1>3, <1>5 DEF StackIs, Quiet
<1> QED BY <1>6, <1>11, <1>12, <1>13 DEF CallInv

\* A closure's reference is its outermost call's while it runs.
LEMMA RunKeeps ==
  ASSUME CallInv, run_call
  PROVE  CallInv'
<1>1. CallTypeOK /\ RefsAre /\ CloseIs /\ EndIs /\ Quiet /\ StackIs
  BY DEF CallInv
<1> DEFINE h == Head(q)
           u == Tail(q)
<1>2. /\ stack = <<>> /\ q # <<>> /\ q' = u /\ h # Close /\ h # End /\ stack' = <<h>>
      /\ st' = st /\ refs' = refs /\ hold' = hold
  BY DEF run_call, Posted
<1>3. /\ u \in Seq(Closure) /\ h \in Closure
      /\ Count(q, Owed) = Count(u, Owed) + IF h \in Owed THEN 1 ELSE 0
      /\ Count(q, {Close}) = Count(u, {Close}) + IF h = Close THEN 1 ELSE 0
      /\ Count(q, {End}) = Count(u, {End}) + IF h = End THEN 1 ELSE 0
  BY <1>1, <1>2, QueueTail DEF CallTypeOK
<1>4. Count(u, Owed) \in Nat /\ Count(u, {Close}) \in Nat /\ Count(u, {End}) \in Nat
  BY <1>3, QueueCounts
<1>5. Tally(hold, {TRUE}) \in Nat
  BY <1>1, Holders DEF CallTypeOK
<1> HIDE DEF h, u
<1>6. h \in Owed /\ h \in Frame /\ h.last
  BY <1>2, <1>3, Closures
<1>7. Bottom' = 1 /\ Bottom = 0 /\ Opened' = Opened /\ Opened \in Nat
  BY <1>2, <1>6 DEF Bottom, Opened
<1>8. /\ Count(q, Owed) = Count(q', Owed) + 1 /\ Count(q', {Close}) = Count(q, {Close})
      /\ Count(q', {End}) = Count(q, {End})
  BY <1>2, <1>3, <1>4, <1>6
<1>9. CallTypeOK'
  BY <1>1, <1>2, <1>3, <1>6 DEF CallTypeOK
<1> DEFINE H == Tally(hold, {TRUE})
           O == Count(q, Owed)
           P == Count(q', Owed)
           X == Opened
           r == refs
<1>10. r = H + O + 0 + X /\ O = P + 1 /\ H \in Nat /\ P \in Nat /\ X \in Nat
  BY <1>1, <1>2, <1>4, <1>5, <1>7, <1>8 DEF RefsAre
<1>11. RefsAre' <=> r = H + P + 1 + X
  BY <1>2, <1>7 DEF RefsAre
<1> HIDE DEF H, O, P, X, r
<1>12. RefsAre'
  <2>1. r = H + P + 1 + X
    BY <1>10
  <2> QED BY <1>11, <2>1
<1>13. CloseIs' /\ EndIs'
  BY <1>1, <1>2, <1>8 DEF CloseIs, EndIs
<1>14. StackIs'
  <2>1. \A i \in DOMAIN stack' : ~(i > 1)
    BY <1>2
  <2> QED BY <1>7, <2>1 DEF StackIs
<1>15. Quiet'
  BY <1>1, <1>2 DEF Quiet
<1> QED BY <1>9, <1>12, <1>13, <1>14, <1>15 DEF CallInv

\* The close event runs with the reference that opening took; without a
\* filter it is given back at once.
LEMMA FireCloseKeeps ==
  ASSUME CallInv, _inbound \in Link, fire_on_close
  PROVE  CallInv'
<1>1. CallTypeOK /\ RefsAre /\ CloseIs /\ EndIs /\ Quiet /\ StackIs
  BY DEF CallInv
<1> DEFINE u == Tail(q)
<1>2. /\ stack = <<>> /\ q # <<>> /\ Head(q) = Close /\ st' = "closed" /\ hold' = hold
      /\ IF _inbound = NoFilter
         THEN Release(u) /\ stack' = stack
         ELSE stack' = <<Call("event", _inbound, Loop, 0, TRUE)>> /\ q' = u /\ refs' = refs
  BY DEF fire_on_close
<1>3. /\ u \in Seq(Closure)
      /\ Count(q, Owed) = Count(u, Owed) + IF Close \in Owed THEN 1 ELSE 0
      /\ Count(q, {Close}) = Count(u, {Close}) + IF Close = Close THEN 1 ELSE 0
      /\ Count(q, {End}) = Count(u, {End}) + IF Close = End THEN 1 ELSE 0
  BY <1>1, <1>2, QueueTail DEF CallTypeOK
<1>4. Count(u, Owed) \in Nat /\ Count(u, {Close}) \in Nat /\ Count(u, {End}) \in Nat
  BY <1>3, QueueCounts
<1>5. Tally(hold, {TRUE}) \in Nat
  BY <1>1, Holders DEF CallTypeOK
<1> HIDE DEF u
<1>6. Count(q, Owed) = Count(u, Owed) /\ Count(q, {Close}) = Count(u, {Close}) + 1 /\ Count(q, {End}) = Count(u, {End})
  BY <1>3, <1>4, Closures
<1>7. st = "closing" /\ Count(u, {Close}) = 0
  <2>1. Count(q, {Close}) >= 1
    BY <1>4, <1>6
  <2>2. Count(q, {Close}) = IF st = "closing" THEN 1 ELSE 0
    BY <1>1 DEF CloseIs
  <2>3. st = "closing"
    BY <2>1, <2>2
  <2> QED BY <2>2, <2>3, <1>4, <1>6
<1>8. Opened = 1 /\ Opened' = 0 /\ Bottom = 0
  BY <1>2, <1>7 DEF Opened, Bottom
<1> DEFINE H == Tally(hold, {TRUE})
           O == Count(u, Owed)
           r == refs
<1>9. r = H + O + 0 + 1 /\ H \in Nat /\ O \in Nat /\ r \in Nat
  BY <1>1, <1>4, <1>5, <1>6, <1>8 DEF RefsAre, CallTypeOK
<1> HIDE DEF H, O
<1>10. r >= 1
  BY <1>9
<1>11. Count(u, {End}) = 0
  BY <1>1, <1>6, <1>7, <1>10 DEF EndIs, r
<1>12. Quiet'
  BY <1>2 DEF Quiet
<1>13. CASE _inbound = NoFilter
  <2>1. Release(u) /\ stack' = <<>>
    BY <1>2, <1>13
  <2>2. /\ refs' \in Nat /\ refs = refs' + 1 /\ q' \in Seq(Closure)
        /\ Count(q', Owed) = Count(u, Owed) /\ Count(q', {Close}) = Count(u, {Close})
        /\ Count(q', {End}) = IF refs' = 0 THEN 1 ELSE 0
    <3>1. refs \in Nat /\ refs >= 1
      BY <1>9, <1>10 DEF r
    <3> QED BY <1>3, <1>11, <2>1, <3>1, ReleasePosts
  <2>3. CallTypeOK'
    BY <1>1, <1>2, <1>3, <2>1, <2>2 DEF CallTypeOK, States
  <2>4. Bottom' = 0 /\ StackIs'
    BY <2>1 DEF Bottom, StackIs
  <2> DEFINE r2 == refs'
  <2>5. r = r2 + 1 /\ r2 \in Nat
    BY <2>2 DEF r
  <2>6. RefsAre' <=> r2 = H + O + 0 + 0
    BY <1>2, <1>8, <2>2, <2>4 DEF RefsAre, H, O
  <2> HIDE DEF r, r2
  <2>7. r2 = H + O + 0 + 0
    BY <1>9, <2>5
  <2>8. RefsAre'
    BY <2>6, <2>7
  <2>9. CloseIs' /\ EndIs'
    BY <1>2, <1>7, <2>2 DEF CloseIs, EndIs
  <2> QED BY <1>12, <2>3, <2>4, <2>8, <2>9 DEF CallInv
<1>14. CASE _inbound # NoFilter
  <2> DEFINE c == Call("event", _inbound, Loop, 0, TRUE)
  <2>1. stack' = <<c>> /\ q' = u /\ refs' = r
    BY <1>2, <1>14 DEF r
  <2>2. c \in CallRec /\ c.k = "event" /\ c.f = _inbound /\ c.last = TRUE
    BY DEF Call, CallRec, Caller
  <2> HIDE DEF c
  <2>3. c \in Frame
    BY <2>2, <1>14 DEF Frame
  <2>4. stack' \in Seq(Frame) /\ Bottom' = 1 /\ \A i \in DOMAIN stack' : ~(i > 1)
    BY <2>1, <2>2, <2>3 DEF Bottom
  <2>5. CallTypeOK'
    BY <1>1, <1>2, <1>3, <2>1, <2>4 DEF CallTypeOK, States, r
  <2>6. StackIs'
    BY <1>8, <2>4 DEF StackIs
  <2>7. RefsAre' <=> r = H + O + 1 + 0
    BY <1>2, <1>8, <2>1, <2>4 DEF RefsAre, H, O
  <2>8. CloseIs' /\ EndIs'
    BY <1>2, <1>7, <1>10, <1>11, <2>1 DEF CloseIs, EndIs
  <2> HIDE DEF r
  <2>9. r = H + O + 1 + 0
    BY <1>9
  <2>10. RefsAre'
    BY <2>7, <2>9
  <2> QED BY <1>12, <2>5, <2>6, <2>8, <2>10 DEF CallInv
<1> QED BY <1>13, <1>14

\* When the end is run nothing else is left.
LEMMA EndKeeps ==
  ASSUME CallInv, fire_on_end_reference
  PROVE  CallInv' /\ st \notin {"built", "freed"}
<1>1. CallTypeOK /\ RefsAre /\ CloseIs /\ EndIs /\ Quiet /\ StackIs
  BY DEF CallInv
<1> DEFINE u == Tail(q)
<1>2. /\ stack = <<>> /\ q # <<>> /\ q' = u /\ Head(q) = End /\ st' = "freed"
      /\ stack' = stack /\ refs' = refs /\ hold' = hold
  BY DEF fire_on_end_reference, Posted
<1>3. /\ u \in Seq(Closure)
      /\ Count(q, Owed) = Count(u, Owed) + IF End \in Owed THEN 1 ELSE 0
      /\ Count(q, {Close}) = Count(u, {Close}) + IF End = Close THEN 1 ELSE 0
      /\ Count(q, {End}) = Count(u, {End}) + IF End = End THEN 1 ELSE 0
  BY <1>1, <1>2, QueueTail DEF CallTypeOK
<1>4. Count(u, Owed) \in Nat /\ Count(u, {Close}) \in Nat /\ Count(u, {End}) \in Nat
  BY <1>3, QueueCounts
<1>5. Tally(hold, {TRUE}) \in Nat /\ (Tally(hold, {TRUE}) = 0 <=> \A t \in Caller : ~hold[t])
  BY <1>1, Holders DEF CallTypeOK
<1> HIDE DEF u
<1>6. Count(q, Owed) = Count(u, Owed) /\ Count(q, {Close}) = Count(u, {Close}) /\ Count(q, {End}) = Count(u, {End}) + 1
  BY <1>3, <1>4, Closures
<1>7. refs = 0 /\ st \notin {"built", "freed"} /\ Count(u, {End}) = 0
  <2>1. Count(q, {End}) >= 1
    BY <1>4, <1>6
  <2>2. Count(q, {End}) = IF refs = 0 /\ st \notin {"built", "freed"} THEN 1 ELSE 0
    BY <1>1 DEF EndIs
  <2>3. refs = 0 /\ st \notin {"built", "freed"}
    BY <2>1, <2>2
  <2>4. Count(q, {End}) = 1
    BY <2>2, <2>3
  <2> QED BY <2>3, <2>4, <1>4, <1>6
<1>8. Bottom = 0 /\ Opened \in Nat
  BY <1>2 DEF Bottom, Opened
<1> DEFINE H == Tally(hold, {TRUE})
           O == Count(u, Owed)
           X == Opened
<1>9. 0 = H + O + 0 + X /\ H \in Nat /\ O \in Nat /\ X \in Nat
  BY <1>1, <1>4, <1>5, <1>6, <1>7, <1>8 DEF RefsAre
<1> HIDE DEF H, O, X
<1>10. H = 0 /\ O = 0 /\ X = 0
  BY <1>9
<1>11. st # "closing"
  BY <1>10 DEF X, Opened
<1>12. Count(u, {Close}) = 0
  BY <1>1, <1>6, <1>11 DEF CloseIs
<1>13. u = <<>>
  BY <1>3, <1>7, <1>10, <1>12, QueueCounts DEF O
<1>14. \A t \in Caller : ~hold[t]
  BY <1>5, <1>10 DEF H
<1>15. CallTypeOK'
  BY <1>1, <1>2, <1>3 DEF CallTypeOK, States
<1>16. Bottom' = 0 /\ Opened' = 0 /\ StackIs'
  BY <1>2 DEF Bottom, Opened, StackIs
<1>17. RefsAre'
  BY <1>2, <1>7, <1>10, <1>16 DEF RefsAre, H, O
<1>18. CloseIs' /\ EndIs'
  BY <1>2, <1>7, <1>12 DEF CloseIs, EndIs
<1>19. Quiet'
  BY <1>2, <1>7, <1>13, <1>14 DEF Quiet
<1> QED BY <1>7, <1>15, <1>16, <1>17, <1>18, <1>19 DEF CallInv

\* The frame of a call that goes on to another filter, or to the channel.
LEMMA FrameMoves ==
  ASSUME NEW c \in Frame, NEW g \in Link, c.k = "event" => g # NoFilter
  PROVE  /\ [c EXCEPT !.f = g] \in Frame /\ [c EXCEPT !.f = g].k = c.k /\ [c EXCEPT !.f = g].t = c.t
         /\ [c EXCEPT !.f = g].n = c.n /\ [c EXCEPT !.f = g].last = c.last
         /\ c \in Upper => [c EXCEPT !.f = g] \in Upper
<1> DEFINE d == [c EXCEPT !.f = g]
<1>1. c \in CallRec /\ (c.k = "write" \/ c.k = "event")
  BY DEF Frame
<1>2. d \in CallRec /\ d.k = c.k /\ d.t = c.t /\ d.n = c.n /\ d.last = c.last /\ d.f = g
  BY <1>1 DEF CallRec
<1> HIDE DEF d
<1>3. d \in Frame
  BY <1>1, <1>2 DEF Frame
<1>4. c \in Upper => d \in Upper
  BY <1>2, <1>3 DEF Upper
<1> QED BY <1>2, <1>3, <1>4 DEF d

\* A called filter forwards the call: its frame stays, with another filter.
LEMMA Forwarded ==
  ASSUME CallInv, ListTypeOK, forward
  PROVE  \/ Return
         \/ /\ stack' \in Seq(Frame) /\ DOMAIN stack' = DOMAIN stack /\ q' = q /\ refs' = refs
            /\ \A i \in DOMAIN stack :
                 /\ stack'[i].k = stack[i].k /\ stack'[i].t = stack[i].t /\ stack'[i].n = stack[i].n
                 /\ stack'[i].last = stack[i].last /\ (stack[i] \in Upper => stack'[i] \in Upper)
<1> DEFINE n == Len(stack)
           next == IF Top.k = "event" THEN inbound[Top.f] ELSE outbound[Top.f]
           d == [stack[n] EXCEPT !.f = next]
<1>1. /\ stack # <<>> /\ Top.f # NoFilter
      /\ IF Top.k = "event" /\ next = NoFilter THEN Return
         ELSE stack' = [stack EXCEPT ![n] = d] /\ q' = q /\ refs' = refs
  BY DEF forward
<1>2. stack \in Seq(Frame)
  BY DEF CallInv, CallTypeOK
<1>3. n \in Nat /\ n # 0 /\ DOMAIN stack = 1..n /\ Top = stack[n] /\ n \in 1..n
  BY <1>1, <1>2 DEF Top, Last
<1>4. stack[n] \in Frame
  BY <1>2, <1>3
<1>5. Top.f \in Filters
  <2>1. Top.f \in Link
    BY <1>3, <1>4 DEF Frame, CallRec
  <2> QED BY <1>1, <2>1 DEF Link
<1>6. next \in Link
  BY <1>5 DEF ListTypeOK
<1> HIDE DEF next
<1>7. CASE ~(Top.k = "event" /\ next = NoFilter)
  <2>1. stack[n].k = "event" => next # NoFilter
    BY <1>3, <1>7
  <2>2. /\ d \in Frame /\ d.k = stack[n].k /\ d.t = stack[n].t /\ d.n = stack[n].n /\ d.last = stack[n].last
        /\ stack[n] \in Upper => d \in Upper
    BY <1>4, <1>6, <2>1, FrameMoves
  <2>3. stack' = [stack EXCEPT ![n] = d] /\ q' = q /\ refs' = refs
    BY <1>1, <1>7
  <2> HIDE DEF d
  <2>4. stack' \in Seq(Frame) /\ DOMAIN stack' = DOMAIN stack /\ stack'[n] = d
        /\ \A i \in DOMAIN stack : i # n => stack'[i] = stack[i]
    BY <1>2, <1>3, <2>2, <2>3
  <2> QED BY <2>2, <2>3, <2>4
<1> QED BY <1>1, <1>7

\* Forwarding keeps what the stack owes.
LEMMA ForwardKeeps ==
  ASSUME CallInv, ListTypeOK, forward
  PROVE  CallInv'
<1>1. CallTypeOK /\ RefsAre /\ CloseIs /\ EndIs /\ Quiet /\ StackIs
  BY DEF CallInv
<1>2. stack # <<>> /\ st' = st /\ hold' = hold
  BY DEF forward
<1>3. CASE Return
  BY <1>2, <1>3, ReturnKeeps
<1>4. CASE ~Return
  <2>1. /\ stack' \in Seq(Frame) /\ DOMAIN stack' = DOMAIN stack /\ q' = q /\ refs' = refs
        /\ \A i \in DOMAIN stack :
             /\ stack'[i].last = stack[i].last /\ (stack[i] \in Upper => stack'[i] \in Upper)
    BY <1>4, Forwarded
  <2>2. stack' # <<>> /\ 1 \in DOMAIN stack
    BY <1>1, <1>2, <2>1 DEF CallTypeOK
  <2>3. Bottom' = Bottom /\ Opened' = Opened
    BY <1>2, <2>1, <2>2 DEF Bottom, Opened
  <2>4. CallTypeOK'
    BY <1>1, <1>2, <2>1 DEF CallTypeOK
  <2>5. RefsAre' /\ CloseIs' /\ EndIs'
    BY <1>1, <1>2, <2>1, <2>3 DEF RefsAre, CloseIs, EndIs
  <2>6. StackIs'
    BY <1>1, <1>2, <2>1, <2>3 DEF StackIs
  <2>7. Quiet'
    BY <1>1, <1>2 DEF Quiet
  <2> QED BY <2>4, <2>5, <2>6, <2>7 DEF CallInv
<1> QED BY <1>3, <1>4

-----------------------------------------------------------------------------
(* The order of writes. *)

\* The writes of threads that are posted were so before, d places further
\* back; and those under way were under way.
QueueKept(d) ==
  \A t \in Threads : \A j \in DOMAIN q' :
    q'[j].k = "write" /\ q'[j].t = t => j \in Nat /\ j + d \in DOMAIN q /\ q'[j] = q[j + d]
StackKept ==
  \A t \in Threads : \A n \in Nat : InStack(t, n)' => InStack(t, n)

\* Then nothing is said of the order that was not known.
LEMMA OrderKept ==
  ASSUME OrderInv, written' = written, OrderTypeOK', \A t \in Threads : writes'[t] = writes[t],
         NEW d \in Nat, QueueKept(d), StackKept
  PROVE  OrderInv'
<1>1. WritesOrdered'
  BY DEF OrderInv, WritesOrdered
<1> SUFFICES ASSUME NEW t \in Threads
             PROVE  /\ \A i \in DOMAIN written : written[i][1] = t => written[i][2] <= writes[t]
                    /\ \A n \in Nat : InStack(t, n)' =>
                         /\ n <= writes[t]
                         /\ \A i \in DOMAIN written : written[i][1] = t => written[i][2] < n
                    /\ \A j \in DOMAIN q' : InQueue(j, t)' =>
                         /\ q'[j].n <= writes[t]
                         /\ \A i \in DOMAIN written : written[i][1] = t => written[i][2] < q'[j].n
                         /\ \A n \in Nat : InStack(t, n)' => n < q'[j].n
                         /\ \A i \in DOMAIN q' : i < j /\ InQueue(i, t)' => q'[i].n < q'[j].n
  BY <1>1 DEF OrderInv
<1>2. \A i \in DOMAIN written : written[i][1] = t => written[i][2] <= writes[t]
  BY DEF OrderInv
<1>3. ASSUME NEW n \in Nat, InStack(t, n)'
      PROVE  /\ n <= writes[t] /\ InStack(t, n)
             /\ \A i \in DOMAIN written : written[i][1] = t => written[i][2] < n
  <2>1. InStack(t, n)
    BY <1>3 DEF StackKept
  <2> QED BY <2>1 DEF OrderInv
<1>4. ASSUME NEW j \in DOMAIN q', InQueue(j, t)'
      PROVE  /\ q'[j].n <= writes[t]
             /\ \A i \in DOMAIN written : written[i][1] = t => written[i][2] < q'[j].n
             /\ \A n \in Nat : InStack(t, n)' => n < q'[j].n
             /\ \A i \in DOMAIN q' : i < j /\ InQueue(i, t)' => q'[i].n < q'[j].n
  <2> DEFINE m == j + d
  <2>1. j \in Nat /\ m \in DOMAIN q /\ q'[j] = q[m] /\ InQueue(m, t)
    BY <1>4 DEF QueueKept, InQueue
  <2>2. /\ q[m].n <= writes[t]
        /\ \A i \in DOMAIN written : written[i][1] = t => written[i][2] < q[m].n
        /\ \A n \in Nat : InStack(t, n) => n < q[m].n
        /\ \A i \in DOMAIN q : i < m /\ InQueue(i, t) => q[i].n < q[m].n
    <3> HIDE DEF m
    <3> QED BY <2>1 DEF OrderInv
  <2>3. ASSUME NEW i \in DOMAIN q', i < j, InQueue(i, t)' PROVE q'[i].n < q'[j].n
    <3> DEFINE l == i + d
    <3>1. i \in Nat /\ l \in DOMAIN q /\ q'[i] = q[l] /\ InQueue(l, t)
      BY <2>3 DEF QueueKept, InQueue
    <3>2. l < m
      BY <2>1, <2>3, <3>1
    <3> HIDE DEF l, m
    <3> QED BY <2>1, <2>2, <3>1, <3>2
  <2> HIDE DEF m
  <2> QED BY <2>1, <2>2, <2>3, <1>3
<1> QED BY <1>2, <1>3, <1>4

\* The queue is the same; or only its end came in, or only its head went.
LEMMA QueueKeeps ==
  ASSUME q \in Seq(Closure), NEW c \in Seq(Closure), NEW d \in Nat,
         \A j \in DOMAIN c : j + d \in DOMAIN q /\ c[j] = q[j + d],
         q' = c \/ \E e : q' = Append(c, e) /\ ~(e.k = "write" /\ e.t \in Threads)
  PROVE  QueueKept(d)
<1> SUFFICES ASSUME NEW t \in Threads, NEW j \in DOMAIN q', q'[j].k = "write" /\ q'[j].t = t
             PROVE  j \in Nat /\ j + d \in DOMAIN q /\ q'[j] = q[j + d]
  BY DEF QueueKept
<1>1. Len(c) \in Nat /\ DOMAIN c = 1..Len(c)
  OBVIOUS
<1>2. CASE q' = c
  BY <1>1, <1>2
<1>3. ASSUME NEW e, q' = Append(c, e), ~(e.k = "write" /\ e.t \in Threads) PROVE j \in DOMAIN c /\ q'[j] = c[j]
  <2>1. DOMAIN q' = 1..(Len(c) + 1) /\ q'[Len(c) + 1] = e /\ \A i \in 1..Len(c) : q'[i] = c[i]
    <3>1. c \in Seq(Closure \cup {e}) /\ e \in Closure \cup {e}
      OBVIOUS
    <3> QED BY <1>3, <3>1
  <2>2. j # Len(c) + 1
    BY <2>1, <1>3
  <2>3. j \in 1..Len(c)
    BY <1>1, <2>1, <2>2
  <2> QED BY <1>1, <2>1, <2>3
<1> QED BY <1>1, <1>2, <1>3

\* What the actions do to the queue: release() posts the end at most,
LEMMA ReleaseQueue ==
  ASSUME q \in Seq(Closure), Release(q) \/ q' = q \/ q' = Append(q, Close)
  PROVE  QueueKept(0)
<1>1. End.k = "end" /\ Close.k = "close"
  BY DEF End, Close, Call
<1>2. q' = q \/ \E e : q' = Append(q, e) /\ ~(e.k = "write" /\ e.t \in Threads)
  BY <1>1 DEF Release
<1> DEFINE d == 0
<1>3. d \in Nat /\ \A j \in DOMAIN q : j + d \in DOMAIN q /\ q[j] = q[j + d]
  OBVIOUS
<1> HIDE DEF d
<1>4. QueueKept(d)
  BY <1>2, <1>3, QueueKeeps
<1> QED BY <1>4 DEF d

\* and the engine takes the first closure.
LEMMA TailQueue ==
  ASSUME q \in Seq(Closure), q # <<>>, Release(Tail(q)) \/ q' = Tail(q)
  PROVE  QueueKept(1)
<1>1. End.k = "end"
  BY DEF End, Call
<1> DEFINE u == Tail(q)
           d == 1
<1>2. q' = u \/ \E e : q' = Append(u, e) /\ ~(e.k = "write" /\ e.t \in Threads)
  BY <1>1 DEF Release
<1>3. d \in Nat /\ u \in Seq(Closure) /\ \A j \in DOMAIN u : j + d \in DOMAIN q /\ u[j] = q[j + d]
  OBVIOUS
<1> HIDE DEF u, d
<1>4. QueueKept(d)
  BY <1>2, <1>3, QueueKeeps
<1> QED BY <1>4 DEF d

\* The stack of the loop: it loses its innermost call,
LEMMA ReturnStack ==
  ASSUME stack \in Seq(Frame), stack # <<>>, stack' = Front(stack)
  PROVE  StackKept
<1> DEFINE n == Len(stack)
<1>1. /\ n \in Nat \ {0} /\ DOMAIN Front(stack) = 1..(n - 1) /\ DOMAIN stack = 1..n
      /\ \A i \in 1..(n - 1) : Front(stack)[i] = stack[i]
  BY FrontOf
<1>2. \A i \in DOMAIN stack' : i \in DOMAIN stack /\ stack'[i] = stack[i]
  BY <1>1
<1> QED BY <1>2 DEF StackKept, InStack

\* or gets a call of the loop's own, or holds an event only.
LEMMA LoopStack ==
  ASSUME stack \in Seq(Frame),
         \/ stack' = stack
         \/ \E c : stack' = Append(stack, c) /\ c.t = Loop
         \/ \A i \in DOMAIN stack' : stack'[i].k = "event"
  PROVE  StackKept
<1> SUFFICES ASSUME NEW t \in Threads, NEW n \in Nat, NEW i \in DOMAIN stack',
                    stack'[i].k = "write", stack'[i].t = t, stack'[i].n = n
             PROVE  InStack(t, n)
  BY DEF StackKept, InStack
<1>1. CASE stack' = stack
  BY <1>1 DEF InStack
<1>2. ASSUME NEW c, stack' = Append(stack, c), c.t = Loop PROVE InStack(t, n)
  <2>1. Len(stack) \in Nat /\ DOMAIN stack = 1..Len(stack)
    OBVIOUS
  <2>2. DOMAIN stack' = 1..(Len(stack) + 1) /\ stack'[Len(stack) + 1] = c
        /\ \A k \in 1..Len(stack) : stack'[k] = stack[k]
    <3>1. stack \in Seq(Frame \cup {c}) /\ c \in Frame \cup {c}
      OBVIOUS
    <3> QED BY <1>2, <3>1
  <2>3. i # Len(stack) + 1
    BY <1>2, <2>2, PipelineAssumption
  <2>4. i \in DOMAIN stack /\ stack'[i] = stack[i]
    BY <2>1, <2>2, <2>3
  <2> QED BY <2>4 DEF InStack
<1>3. CASE \A k \in DOMAIN stack' : stack'[k].k = "event"
  BY <1>3
<1> QED BY <1>1, <1>2, <1>3

\* The order of writes is kept by every step in which none is made, posted,
\* run or passed on to the channel.
LEMMA OrderMost ==
  ASSUME OrderInv, CallInv, ListTypeOK,
         \/ \E f \in Filters : add(f)
         \/ \E b, f \in Filters : add_inbound(b, f) \/ add_outbound(b, f)
         \/ \E f \in Filters : remove(f)
         \/ fire_on_open \/ fire_on_event \/ fire_on_close \/ fire_on_end_reference
         \/ forward \/ swallow
         \/ \E t \in Caller : close(t) \/ add_ref(t) \/ release(t)
  PROVE  OrderInv'
<1>1. stack \in Seq(Frame) /\ q \in Seq(Closure) /\ _inbound \in Link /\ OrderTypeOK
  BY DEF CallInv, CallTypeOK, ListTypeOK, OrderInv
<1>2. written' = written /\ writes' = writes
  BY DEF add, add_inbound, add_outbound, remove, Edited, fire_on_open, fire_on_event, fire_on_close,
         fire_on_end_reference, forward, swallow, close, add_ref, release, history
<1>3. OrderTypeOK'
  BY <1>1, <1>2 DEF OrderTypeOK
<1>4. StackKept /\ \E d \in Nat : QueueKept(d)
  <2>0. 0 \in Nat /\ 1 \in Nat
    OBVIOUS
  <2>1. ASSUME stack' = stack, q' = q PROVE StackKept /\ QueueKept(0)
    BY <1>1, <2>1, LoopStack, ReleaseQueue
  <2>2. CASE \E f \in Filters : add(f)
    BY <2>0, <2>1, <2>2 DEF add
  <2>3. CASE \E b, f \in Filters : add_inbound(b, f) \/ add_outbound(b, f)
    BY <2>0, <2>1, <2>3 DEF add_inbound, add_outbound, Edited
  <2>4. CASE \E f \in Filters : remove(f)
    BY <2>0, <2>1, <2>4 DEF remove, Edited
  <2>5. CASE fire_on_open \/ fire_on_event
    <3>1. q' = q /\ fire_filter
      BY <2>5 DEF fire_on_open, fire_on_event
    <3>2. \A i \in DOMAIN stack' : stack'[i].k = "event"
      BY <1>1, <3>1, FireFilter
    <3>3. StackKept
      BY <1>1, <3>2, LoopStack
    <3>4. QueueKept(0)
      BY <1>1, <3>1, ReleaseQueue
    <3> QED BY <2>0, <3>3, <3>4
  <2>6. CASE fire_on_close
    <3>1. q # <<>> /\ (Release(Tail(q)) \/ q' = Tail(q))
      BY <2>6 DEF fire_on_close
    <3>2. QueueKept(1)
      BY <1>1, <3>1, TailQueue
    <3>3. stack' = stack \/ \A i \in DOMAIN stack' : stack'[i].k = "event"
      <4> DEFINE c == Call("event", _inbound, Loop, 0, TRUE)
      <4>1. stack' = stack \/ stack' = <<c>>
        BY <2>6 DEF fire_on_close
      <4>2. c.k = "event"
        BY DEF Call
      <4> HIDE DEF c
      <4> QED BY ONLY <4>1, <4>2
    <3>4. StackKept
      BY <1>1, <3>3, LoopStack
    <3> QED BY <2>0, <3>2, <3>4
  <2>7. CASE fire_on_end_reference
    <3>1. q # <<>> /\ q' = Tail(q) /\ stack' = stack
      BY <2>7 DEF fire_on_end_reference, Posted
    <3>2. QueueKept(1)
      BY <1>1, <3>1, TailQueue
    <3>3. StackKept
      BY <1>1, <3>1, LoopStack
    <3> QED BY <2>0, <3>2, <3>3
  <2>8. CASE Return /\ stack # <<>>
    <3>1. stack' = Front(stack) /\ (Release(q) \/ q' = q)
      BY <2>8 DEF Return
    <3>2. StackKept
      BY <1>1, <2>8, <3>1, ReturnStack
    <3>3. QueueKept(0)
      BY <1>1, <3>1, ReleaseQueue
    <3> QED BY <2>0, <3>2, <3>3
  <2>9. CASE forward /\ ~Return
    <3>1. /\ DOMAIN stack' = DOMAIN stack /\ q' = q
          /\ \A i \in DOMAIN stack :
               stack'[i].k = stack[i].k /\ stack'[i].t = stack[i].t /\ stack'[i].n = stack[i].n
      BY <2>9, Forwarded
    <3>2. StackKept
      BY <3>1 DEF StackKept, InStack
    <3>3. QueueKept(0)
      BY <1>1, <3>1, ReleaseQueue
    <3> QED BY <2>0, <3>2, <3>3
  <2>10. CASE forward \/ swallow
    <3>1. stack # <<>> /\ (swallow => Return)
      BY <2>10 DEF forward, swallow
    <3> QED BY <3>1, <2>8, <2>9, <2>10
  <2>11. CASE \E t \in Caller : close(t) \/ add_ref(t) \/ release(t)
    <3>1. stack' = stack /\ (Release(q) \/ q' = q \/ q' = Append(q, Close))
      BY <2>11 DEF close, add_ref, release
    <3>2. StackKept
      BY <1>1, <3>1, LoopStack
    <3>3. QueueKept(0)
      BY <1>1, <3>1, ReleaseQueue
    <3> QED BY <2>0, <3>2, <3>3
  <2> QED BY <2>2, <2>3, <2>4, <2>5, <2>6, <2>7, <2>10, <2>11
<1>5. \A t \in Threads : writes'[t] = writes[t]
  BY <1>2
<1>6. PICK d \in Nat : QueueKept(d)
  BY <1>4
<1> QED BY <1>2, <1>3, <1>4, <1>5, <1>6, OrderKept

\* An event made by a filter, in place or posted.
LEMMA OrderEvent ==
  ASSUME OrderInv, CallInv, NEW t \in Caller, NEW f \in Filters, fire_filter_on(t, f)
  PROVE  OrderInv'
<1> DEFINE c == Call("event", inbound[f], t, 0, FALSE)
           e == [c EXCEPT !.last = TRUE]
<1>1. stack \in Seq(Frame) /\ q \in Seq(Closure) /\ OrderTypeOK
  BY DEF CallInv, CallTypeOK, OrderInv
<1>2. written' = written /\ writes' = writes /\ Make(t, c)
  BY DEF fire_filter_on
<1>3. c.k = "event" /\ c.t = t /\ e.k = "event"
  BY DEF Call
<1>4. \/ t = Loop /\ stack' = Append(stack, c) /\ q' = q
      \/ stack' = stack /\ q' = Append(q, e)
  BY <1>2 DEF Make, in_pipeline
<1> HIDE DEF c, e
<1>5. StackKept
  BY <1>1, <1>3, <1>4, LoopStack
<1>6. QueueKept(0)
  <2>1. q' = q \/ \E x : q' = Append(q, x) /\ ~(x.k = "write" /\ x.t \in Threads)
    BY <1>3, <1>4
  <2> DEFINE d == 0
  <2>2. d \in Nat /\ \A j \in DOMAIN q : j + d \in DOMAIN q /\ q[j] = q[j + d]
    BY <1>1
  <2> HIDE DEF d
  <2>3. QueueKept(d)
    BY <1>1, <2>1, <2>2, QueueKeeps
  <2> QED BY <2>3 DEF d
<1>7. OrderTypeOK' /\ \A x \in Threads : writes'[x] = writes[x]
  BY <1>1, <1>2 DEF OrderTypeOK
<1> DEFINE d == 0
<1>8. d \in Nat /\ QueueKept(d)
  BY <1>6
<1> HIDE DEF d
<1> QED BY <1>2, <1>5, <1>7, <1>8, OrderKept

\* A thread posts its next write behind all it posted.
LEMMA OrderPost ==
  ASSUME OrderInv, CallInv, NEW t \in Threads, NEW e, e.k = "write", e.t = t, e.n = writes[t] + 1,
         q' = Append(q, e), stack' = stack, written' = written, writes' = [writes EXCEPT ![t] = @ + 1]
  PROVE  OrderInv'
<1>1. stack \in Seq(Frame) /\ q \in Seq(Closure) /\ OrderTypeOK
  BY DEF CallInv, CallTypeOK, OrderInv
<1>2. t \in Caller /\ writes \in [Caller -> Nat] /\ written \in Seq(Caller \X Nat)
  BY <1>1 DEF Caller, OrderTypeOK
<1>3. writes' \in [Caller -> Nat] /\ writes'[t] = writes[t] + 1 /\ \A x \in Threads : x # t => writes'[x] = writes[x]
  BY <1>2 DEF Caller
<1>4. OrderTypeOK' /\ WritesOrdered'
  BY <1>2, <1>3 DEF OrderTypeOK, OrderInv, WritesOrdered
<1> DEFINE m == Len(q)
<1>5. m \in Nat /\ DOMAIN q = 1..m
  BY <1>1
<1>6. DOMAIN q' = 1..(m + 1) /\ q'[m + 1] = e /\ \A i \in 1..m : q'[i] = q[i]
  <2>1. q \in Seq(Closure \cup {e}) /\ e \in Closure \cup {e}
    BY <1>1
  <2> QED BY <2>1
<1> HIDE DEF m
<1>7. \A j \in DOMAIN q' : (j \in DOMAIN q /\ q'[j] = q[j]) \/ (j = m + 1 /\ q'[j] = e)
  BY <1>5, <1>6
<1>8. \A x \in Threads : writes[x] \in Nat /\ writes'[x] \in Nat /\ writes[x] <= writes'[x]
  BY <1>2, <1>3 DEF Caller
<1>9. \A i \in DOMAIN written : written[i][2] \in Nat
  BY <1>2
<1> SUFFICES ASSUME NEW x \in Threads
             PROVE  /\ \A i \in DOMAIN written : written[i][1] = x => written[i][2] <= writes'[x]
                    /\ \A n \in Nat : InStack(x, n) =>
                         /\ n <= writes'[x]
                         /\ \A i \in DOMAIN written : written[i][1] = x => written[i][2] < n
                    /\ \A j \in DOMAIN q' : InQueue(j, x)' =>
                         /\ q'[j].n <= writes'[x]
                         /\ \A i \in DOMAIN written : written[i][1] = x => written[i][2] < q'[j].n
                         /\ \A n \in Nat : InStack(x, n) => n < q'[j].n
                         /\ \A i \in DOMAIN q' : i < j /\ InQueue(i, x)' => q'[i].n < q'[j].n
  BY <1>4 DEF OrderInv, InStack
<1>10. /\ \A i \in DOMAIN written : written[i][1] = x => written[i][2] <= writes[x]
       /\ \A n \in Nat : InStack(x, n) =>
            /\ n <= writes[x]
            /\ \A i \in DOMAIN written : written[i][1] = x => written[i][2] < n
       /\ \A j \in DOMAIN q : InQueue(j, x) =>
            /\ q[j].n <= writes[x]
            /\ \A i \in DOMAIN written : written[i][1] = x => written[i][2] < q[j].n
            /\ \A n \in Nat : InStack(x, n) => n < q[j].n
            /\ \A i \in DOMAIN q : i < j /\ InQueue(i, x) => q[i].n < q[j].n
  BY DEF OrderInv
<1>11. \A i \in DOMAIN written : written[i][1] = x => written[i][2] <= writes'[x]
  BY <1>8, <1>9, <1>10
<1>12. \A n \in Nat : InStack(x, n) => n <= writes'[x]
  BY <1>8, <1>10
<1>13. \A j \in DOMAIN q : InQueue(j, x) => q[j].n \in Nat
  <2> SUFFICES ASSUME NEW j \in DOMAIN q, InQueue(j, x) PROVE q[j].n \in Nat
    OBVIOUS
  <2>1. q[j] \in Closure
    BY <1>1
  <2>2. q[j] \in Owed
    <3>1. End.k = "end" /\ Close.k = "close"
      BY DEF End, Close, Call
    <3>2. q[j] # End /\ q[j] # Close
      BY <3>1 DEF InQueue
    <3> QED BY <2>1, <3>2, Closures
  <2> QED BY <2>2 DEF Owed, Frame, CallRec
<1>14. ASSUME NEW j \in DOMAIN q', InQueue(j, x)'
       PROVE  /\ q'[j].n <= writes'[x]
              /\ \A i \in DOMAIN written : written[i][1] = x => written[i][2] < q'[j].n
              /\ \A n \in Nat : InStack(x, n) => n < q'[j].n
              /\ \A i \in DOMAIN q' : i < j /\ InQueue(i, x)' => q'[i].n < q'[j].n
  <2>1. CASE j \in DOMAIN q /\ q'[j] = q[j]
    <3>1. InQueue(j, x)
      BY <1>14, <2>1 DEF InQueue
    <3>2. q[j].n <= writes'[x]
      BY <1>8, <1>10, <1>13, <2>1, <3>1
    <3>3. ASSUME NEW i \in DOMAIN q', i < j, InQueue(i, x)' PROVE q'[i].n < q[j].n
      <4>1. i \in DOMAIN q /\ q'[i] = q[i]
        <5>1. j \in Nat /\ j <= m /\ i # m + 1
          BY <1>5, <2>1, <3>3
        <5> QED BY <1>7, <5>1
      <4>2. InQueue(i, x)
        BY <3>3, <4>1 DEF InQueue
      <4> QED BY <1>10, <2>1, <3>1, <3>3, <4>1, <4>2
    <3> QED BY <1>10, <2>1, <3>1, <3>2, <3>3
  <2>2. CASE j = m + 1 /\ q'[j] = e
    <3>1. x = t
      BY <1>14, <2>2 DEF InQueue
    <3> DEFINE w == writes[x]
               v == writes'[x]
    <3>2. w \in Nat /\ q'[j].n = w + 1 /\ v = w + 1
      BY <1>3, <1>8, <2>2, <3>1
    <3>3. \A i \in DOMAIN written : written[i][1] = x => written[i][2] <= w
      BY <1>10
    <3>4. \A n \in Nat : InStack(x, n) => n <= w
      BY <1>10
    <3>5. ASSUME NEW i \in DOMAIN q', i < j, InQueue(i, x)' PROVE q'[i].n <= w /\ q'[i].n \in Nat
      <4>1. i \in DOMAIN q /\ q'[i] = q[i]
        <5>1. i # m + 1
          BY <1>5, <2>2, <3>5
        <5> QED BY <1>7, <5>1
      <4>2. InQueue(i, x)
        BY <3>5, <4>1 DEF InQueue
      <4> QED BY <1>10, <1>13, <4>1, <4>2
    <3> HIDE DEF w, v
    <3>6. q'[j].n <= v
      BY <3>2
    <3>7. \A i \in DOMAIN written : written[i][1] = x => written[i][2] < q'[j].n
      BY <1>9, <3>2, <3>3
    <3>8. \A n \in Nat : InStack(x, n) => n < q'[j].n
      BY <3>2, <3>4
    <3>9. \A i \in DOMAIN q' : i < j /\ InQueue(i, x)' => q'[i].n < q'[j].n
      BY <3>2, <3>5
    <3> QED BY <3>6, <3>7, <3>8, <3>9 DEF v
  <2> QED BY <1>7, <2>1, <2>2
<1> QED BY <1>10, <1>11, <1>12, <1>14

\* A write made by a filter: of the loop in place, of a thread posted.
LEMMA OrderWrite ==
  ASSUME OrderInv, CallInv, NEW t \in Caller, NEW f \in Filters, fire_filter_do_write(t, f)
  PROVE  OrderInv'
<1> DEFINE c == Call("write", outbound[f], t, writes[t] + 1, FALSE)
           e == [c EXCEPT !.last = TRUE]
<1>1. stack \in Seq(Frame) /\ q \in Seq(Closure) /\ OrderTypeOK
  BY DEF CallInv, CallTypeOK, OrderInv
<1>2. written' = written /\ writes' = [writes EXCEPT ![t] = @ + 1] /\ Make(t, c)
  BY DEF fire_filter_do_write
<1>3. c.t = t /\ e.k = "write" /\ e.t = t /\ e.n = writes[t] + 1
  BY DEF Call
<1>4. \/ t = Loop /\ stack' = Append(stack, c) /\ q' = q
      \/ stack' = stack /\ q' = Append(q, e)
  BY <1>2 DEF Make, in_pipeline
<1> HIDE DEF c, e
<1>5. CASE t \in Threads
  <2>1. stack' = stack /\ q' = Append(q, e)
    BY <1>4, <1>5, PipelineAssumption
  <2> QED BY <1>2, <1>3, <1>5, <2>1, OrderPost
<1>6. CASE t = Loop
  <2>1. StackKept
    BY <1>1, <1>3, <1>4, <1>6, LoopStack
  <2>2. q' = q \/ \E x : q' = Append(q, x) /\ ~(x.k = "write" /\ x.t \in Threads)
    BY <1>3, <1>4, <1>6, PipelineAssumption
  <2>3. OrderTypeOK'
    BY <1>1, <1>2 DEF OrderTypeOK
  <2>4. \A x \in Threads : writes'[x] = writes[x]
    BY <1>1, <1>2, <1>6, PipelineAssumption DEF OrderTypeOK, Caller
  <2> DEFINE d == 0
  <2>5. d \in Nat /\ \A j \in DOMAIN q : j + d \in DOMAIN q /\ q[j] = q[j + d]
    BY <1>1
  <2> HIDE DEF d
  <2>6. QueueKept(d)
    BY <1>1, <2>2, <2>5, QueueKeeps
  <2>7. written' = written
    BY <1>2
  <2> QED BY <2>1, <2>3, <2>4, <2>5, <2>6, <2>7, OrderKept
<1> QED BY <1>5, <1>6 DEF Caller

\* The engine runs the first closure, and the write in it is under way.
LEMMA OrderRun ==
  ASSUME OrderInv, CallInv, run_call
  PROVE  OrderInv'
<1> DEFINE h == Head(q)
<1>1. q \in Seq(Closure) /\ OrderTypeOK
  BY DEF CallInv, CallTypeOK, OrderInv
<1>2. /\ q # <<>> /\ q' = Tail(q) /\ stack' = <<h>> /\ written' = written /\ writes' = writes
  BY DEF run_call, Posted, history
<1>3. 1 \in DOMAIN q /\ h = q[1]
  BY <1>1, <1>2
<1>4. \A j \in DOMAIN q' : j \in Nat /\ j >= 1 /\ j + 1 \in DOMAIN q /\ q'[j] = q[j + 1]
  BY <1>1, <1>2
<1> HIDE DEF h
<1>5. OrderTypeOK' /\ WritesOrdered'
  BY <1>1, <1>2 DEF OrderTypeOK, OrderInv, WritesOrdered
<1> SUFFICES ASSUME NEW x \in Threads
             PROVE  /\ \A i \in DOMAIN written : written[i][1] = x => written[i][2] <= writes[x]
                    /\ \A n \in Nat : InStack(x, n)' =>
                         /\ n <= writes[x]
                         /\ \A i \in DOMAIN written : written[i][1] = x => written[i][2] < n
                    /\ \A j \in DOMAIN q' : InQueue(j, x)' =>
                         /\ q'[j].n <= writes[x]
                         /\ \A i \in DOMAIN written : written[i][1] = x => written[i][2] < q'[j].n
                         /\ \A n \in Nat : InStack(x, n)' => n < q'[j].n
                         /\ \A i \in DOMAIN q' : i < j /\ InQueue(i, x)' => q'[i].n < q'[j].n
  BY <1>2, <1>5 DEF OrderInv
<1>6. /\ \A i \in DOMAIN written : written[i][1] = x => written[i][2] <= writes[x]
      /\ \A j \in DOMAIN q : InQueue(j, x) =>
           /\ q[j].n <= writes[x]
           /\ \A i \in DOMAIN written : written[i][1] = x => written[i][2] < q[j].n
           /\ \A i \in DOMAIN q : i < j /\ InQueue(i, x) => q[i].n < q[j].n
  BY DEF OrderInv
<1>7. ASSUME NEW n \in Nat, InStack(x, n)' PROVE InQueue(1, x) /\ n = q[1].n
  <2>1. h.k = "write" /\ h.t = x /\ h.n = n
    BY <1>2, <1>7 DEF InStack
  <2> QED BY <1>3, <2>1 DEF InQueue
<1>8. ASSUME NEW j \in DOMAIN q', InQueue(j, x)'
      PROVE  /\ q'[j].n <= writes[x]
             /\ \A i \in DOMAIN written : written[i][1] = x => written[i][2] < q'[j].n
             /\ \A n \in Nat : InStack(x, n)' => n < q'[j].n
             /\ \A i \in DOMAIN q' : i < j /\ InQueue(i, x)' => q'[i].n < q'[j].n
  <2> DEFINE m == j + 1
  <2>1. m \in DOMAIN q /\ q'[j] = q[m] /\ j \in Nat /\ 1 < m
    BY <1>4
  <2>2. \A i \in DOMAIN q' : i < j => i + 1 < m
    BY <1>4, <2>1
  <2> HIDE DEF m
  <2>3. InQueue(m, x)
    BY <1>8, <2>1 DEF InQueue
  <2>4. ASSUME NEW n \in Nat, InStack(x, n)' PROVE n < q[m].n
    BY <1>3, <1>6, <1>7, <2>1, <2>3, <2>4
  <2>5. ASSUME NEW i \in DOMAIN q', i < j, InQueue(i, x)' PROVE q'[i].n < q[m].n
    <3> DEFINE l == i + 1
    <3>1. l \in DOMAIN q /\ q'[i] = q[l] /\ l < m
      BY <1>4, <2>2, <2>5
    <3> HIDE DEF l
    <3>2. InQueue(l, x)
      BY <2>5, <3>1 DEF InQueue
    <3> QED BY <1>6, <2>1, <2>3, <3>1, <3>2
  <2> QED BY <1>6, <2>1, <2>3, <2>4, <2>5
<1>9. ASSUME NEW n \in Nat, InStack(x, n)'
      PROVE  n <= writes[x] /\ \A i \in DOMAIN written : written[i][1] = x => written[i][2] < n
  BY <1>3, <1>6, <1>7, <1>9
<1> QED BY <1>6, <1>8, <1>9

\* The n-th write of t reaches the channel, and if t is a thread it was the
\* one of t that was under way.
Reached(t, n) ==
  /\ written' = Append(written, <<t, n>>) /\ writes' = writes
  /\ t \in Threads => InStack(t, n) /\ \A k \in Nat : ~InStack(t, k)'

\* A write that is under way reaches the channel.
LEMMA OrderReach ==
  ASSUME OrderInv, NEW t \in Caller, NEW n \in Nat, Reached(t, n), QueueKept(0), StackKept
  PROVE  OrderInv'
<1>0. /\ written' = Append(written, <<t, n>>) /\ writes' = writes
      /\ t \in Threads => InStack(t, n) /\ \A k \in Nat : ~InStack(t, k)'
  BY DEF Reached
<1>1. written \in Seq(Caller \X Nat) /\ writes \in [Caller -> Nat] /\ WritesOrdered
  BY DEF OrderInv, OrderTypeOK
<1> DEFINE w == <<t, n>>
           m == Len(written)
<1>2. w \in Caller \X Nat /\ w[1] = t /\ w[2] = n /\ m \in Nat /\ DOMAIN written = 1..m
  BY <1>1
<1>3. written' = Append(written, w)
  BY <1>0
<1> HIDE DEF w, m
<1>4. /\ written' \in Seq(Caller \X Nat) /\ DOMAIN written' = 1..(m + 1) /\ written'[m + 1] = w
      /\ \A i \in 1..m : written'[i] = written[i]
  BY <1>1, <1>2, <1>3 DEF m
<1>5. OrderTypeOK'
  BY <1>0, <1>1, <1>4 DEF OrderTypeOK
<1>6. \A i \in DOMAIN written' : (i \in DOMAIN written /\ written'[i] = written[i]) \/ (i = m + 1 /\ written'[i] = w)
  BY <1>2, <1>4
<1>7. t \in Threads => /\ n <= writes[t]
                       /\ \A i \in DOMAIN written : written[i][1] = t => written[i][2] < n
                       /\ \A j \in DOMAIN q : InQueue(j, t) => n < q[j].n
  BY <1>0 DEF OrderInv
<1>8. WritesOrdered'
  <2> SUFFICES ASSUME NEW i \in DOMAIN written', NEW j \in DOMAIN written', i < j,
                      written'[i][1] = written'[j][1], written'[i][1] # Loop
               PROVE  written'[i][2] < written'[j][2]
    BY DEF WritesOrdered
  <2>1. i \in DOMAIN written /\ written'[i] = written[i]
    <3>1. i # m + 1
      BY <1>2, <1>4
    <3> QED BY <1>6, <3>1
  <2>2. CASE j \in DOMAIN written /\ written'[j] = written[j]
    BY <1>1, <2>1, <2>2 DEF WritesOrdered
  <2>3. CASE written'[j] = w
    <3>1. t \in Threads /\ written[i][1] = t
      BY <1>2, <2>1, <2>3 DEF Caller
    <3> QED BY <1>2, <1>7, <2>1, <2>3, <3>1
  <2> QED BY <1>6, <2>2, <2>3
<1> SUFFICES ASSUME NEW x \in Threads
             PROVE  /\ \A i \in DOMAIN written' : written'[i][1] = x => written'[i][2] <= writes[x]
                    /\ \A k \in Nat : InStack(x, k)' =>
                         /\ k <= writes[x]
                         /\ \A i \in DOMAIN written' : written'[i][1] = x => written'[i][2] < k
                    /\ \A j \in DOMAIN q' : InQueue(j, x)' =>
                         /\ q'[j].n <= writes[x]
                         /\ \A i \in DOMAIN written' : written'[i][1] = x => written'[i][2] < q'[j].n
                         /\ \A k \in Nat : InStack(x, k)' => k < q'[j].n
                         /\ \A i \in DOMAIN q' : i < j /\ InQueue(i, x)' => q'[i].n < q'[j].n
  BY <1>0, <1>5, <1>8 DEF OrderInv
<1>9. /\ \A i \in DOMAIN written : written[i][1] = x => written[i][2] <= writes[x]
      /\ \A k \in Nat : InStack(x, k) =>
           /\ k <= writes[x]
           /\ \A i \in DOMAIN written : written[i][1] = x => written[i][2] < k
      /\ \A j \in DOMAIN q : InQueue(j, x) =>
           /\ q[j].n <= writes[x]
           /\ \A i \in DOMAIN written : written[i][1] = x => written[i][2] < q[j].n
           /\ \A k \in Nat : InStack(x, k) => k < q[j].n
           /\ \A i \in DOMAIN q : i < j /\ InQueue(i, x) => q[i].n < q[j].n
  BY DEF OrderInv
<1>10. ASSUME NEW i \in DOMAIN written', written'[i][1] = x
       PROVE  (i \in DOMAIN written /\ written'[i] = written[i]) \/ (x = t /\ written'[i][2] = n)
  BY <1>2, <1>6, <1>10
<1>11. ASSUME NEW k \in Nat, InStack(x, k)' PROVE InStack(x, k) /\ x # t
  BY <1>0, <1>11 DEF StackKept
<1>12. ASSUME NEW j \in DOMAIN q', InQueue(j, x)' PROVE j \in DOMAIN q /\ q'[j] = q[j] /\ InQueue(j, x)
  <2>1. j \in Nat /\ j + 0 \in DOMAIN q /\ q'[j] = q[j + 0]
    BY <1>12 DEF QueueKept, InQueue
  <2>2. j + 0 = j
    BY <2>1
  <2> QED BY <2>1, <2>2, <1>12 DEF InQueue
<1>13. \A i \in DOMAIN written' : written'[i][1] = x => written'[i][2] <= writes[x]
  BY <1>7, <1>9, <1>10
<1>14. ASSUME NEW k \in Nat, InStack(x, k)'
       PROVE  k <= writes[x] /\ \A i \in DOMAIN written' : written'[i][1] = x => written'[i][2] < k
  BY <1>9, <1>10, <1>11, <1>14
<1>15. ASSUME NEW j \in DOMAIN q', InQueue(j, x)'
       PROVE  /\ q'[j].n <= writes[x]
              /\ \A i \in DOMAIN written' : written'[i][1] = x => written'[i][2] < q'[j].n
              /\ \A k \in Nat : InStack(x, k)' => k < q'[j].n
              /\ \A i \in DOMAIN q' : i < j /\ InQueue(i, x)' => q'[i].n < q'[j].n
  <2>1. j \in DOMAIN q /\ q'[j] = q[j] /\ InQueue(j, x)
    BY <1>12, <1>15
  <2>2. q[j].n <= writes[x]
    BY <1>9, <2>1
  <2>3. ASSUME NEW i \in DOMAIN written', written'[i][1] = x PROVE written'[i][2] < q[j].n
    BY <1>7, <1>9, <1>10, <2>1, <2>3
  <2>4. \A k \in Nat : InStack(x, k)' => k < q[j].n
    BY <1>9, <1>11, <2>1
  <2>5. \A i \in DOMAIN q' : i < j /\ InQueue(i, x)' => q'[i].n < q[j].n
    BY <1>9, <1>12, <2>1
  <2> QED BY <2>1, <2>2, <2>3, <2>4, <2>5
<1> QED BY <1>13, <1>14, <1>15

\* do_write, at the end of the filters: what a called filter writes for itself
\* is the loop's, so a thread's write has no call around it.
LEMMA OrderDoWrite ==
  ASSUME OrderInv, CallInv, do_write
  PROVE  OrderInv'
<1>1. stack \in Seq(Frame) /\ q \in Seq(Closure) /\ OrderTypeOK /\ StackIs
  BY DEF CallInv, CallTypeOK, OrderInv
<1>2. /\ stack # <<>> /\ Top.f = NoFilter /\ stack' = Front(stack) /\ (Release(q) \/ q' = q) /\ writes' = writes
      /\ written' = IF st = "open" THEN Append(written, <<Top.t, Top.n>>) ELSE written
  BY DEF do_write, Return
<1>3. StackKept
  BY <1>1, <1>2, ReturnStack
<1>4. QueueKept(0)
  BY <1>1, <1>2, ReleaseQueue
<1> DEFINE n == Len(stack)
<1>5. /\ Last(stack) \in Frame /\ Last(stack) = stack[n] /\ n \in Nat \ {0}
      /\ DOMAIN Front(stack) = 1..(n - 1) /\ DOMAIN stack = 1..n
  BY <1>1, <1>2, FrontOf
<1>6. /\ Top \in Frame /\ Top = stack[n] /\ n \in DOMAIN stack
  BY <1>5 DEF Top
<1>7. Top.k = "write" /\ Top.t \in Caller /\ Top.n \in Nat
  BY <1>2, <1>6 DEF Frame, CallRec
<1>8. CASE st = "open"
  <2> DEFINE t == Top.t
             k == Top.n
  <2>1. written' = Append(written, <<t, k>>) /\ t \in Caller /\ k \in Nat
    BY <1>2, <1>7, <1>8
  <2>2. ASSUME t \in Threads PROVE InStack(t, k) /\ \A j \in Nat : ~InStack(t, j)'
    <3>1. InStack(t, k)
      BY <1>6, <1>7 DEF InStack
    <3>2. n = 1
      <4>1. Top \notin Upper
        BY <2>2, PipelineAssumption DEF Upper
      <4>2. ~(n > 1)
        BY <1>1, <1>6, <4>1 DEF StackIs
      <4> QED BY <1>5, <4>2
    <3>3. DOMAIN stack' = {}
      BY <1>2, <1>5, <3>2
    <3> QED BY <3>1, <3>3 DEF InStack
  <2> HIDE DEF t, k
  <2>3. Reached(t, k)
    BY <1>2, <2>1, <2>2 DEF Reached
  <2>4. t \in Caller /\ k \in Nat
    BY <2>1
  <2> QED BY <1>3, <1>4, <2>3, <2>4, OrderReach
<1>9. CASE st # "open"
  <2>1. written' = written /\ OrderTypeOK' /\ \A x \in Threads : writes'[x] = writes[x]
    BY <1>1, <1>2, <1>9 DEF OrderTypeOK
  <2> DEFINE d == 0
  <2>2. d \in Nat /\ QueueKept(d)
    BY <1>4
  <2> HIDE DEF d
  <2> QED BY <1>3, <2>1, <2>2, OrderKept
<1> QED BY <1>8, <1>9

-----------------------------------------------------------------------------
(* The steps. *)

Edits == \/ \E b, f \in Filters : add_inbound(b, f)
         \/ \E b, f \in Filters : add_outbound(b, f)
         \/ \E f \in Filters : remove(f)

Calls == \/ fire_on_open \/ fire_on_event \/ fire_on_close \/ fire_on_end_reference
         \/ forward \/ swallow \/ do_write \/ run_call
         \/ \E t \in Caller : close(t)
         \/ \E t \in Caller : add_ref(t)
         \/ \E t \in Caller : release(t)
         \/ \E t \in Caller, f \in Filters : fire_filter_do_write(t, f)
         \/ \E t \in Caller, f \in Filters : fire_filter_on(t, f)

\* The steps are those that add a filter, edit the list, or make a call.
LEMMA Steps ==
  Next <=> (\E f \in Filters : add(f)) \/ Edits \/ Calls
BY DEF Next, Edits, Calls

\* Calls leave the list alone, and what was built is not built again.
LEMMA CallsList ==
  ASSUME Calls
  PROVE  UNCHANGED <<_inbound, inbound, outbound, chain, edits>> /\ (st' = "built" => st = "built")
<1>1. CASE fire_on_open \/ fire_on_event \/ fire_on_close \/ fire_on_end_reference
  BY <1>1 DEF fire_on_open, fire_on_event, fire_on_close, fire_on_end_reference, list, history
<1>2. CASE forward \/ swallow \/ do_write \/ run_call
  BY <1>2 DEF forward, swallow, do_write, run_call, list, history
<1>3. CASE \/ \E t \in Caller : close(t)
           \/ \E t \in Caller : add_ref(t)
           \/ \E t \in Caller : release(t)
  BY <1>3 DEF close, add_ref, release, list, history
<1>4. CASE \/ \E t \in Caller, f \in Filters : fire_filter_do_write(t, f)
           \/ \E t \in Caller, f \in Filters : fire_filter_on(t, f)
  BY <1>4 DEF fire_filter_do_write, fire_filter_on, list
<1> QED BY <1>1, <1>2, <1>3, <1>4 DEF Calls

\* A call that a filter may make keeps the references.
LEMMA FireKeeps ==
  ASSUME CallInv, ListTypeOK, OrderTypeOK, NEW t \in Caller, NEW f \in Filters,
         fire_filter_do_write(t, f) \/ fire_filter_on(t, f)
  PROVE  CallInv'
<1>1. hold[t] \/ (t = Loop /\ stack # <<>>)
  BY DEF fire_filter_do_write, fire_filter_on, MayFire
<1>2. st' = st /\ hold' = hold
  BY DEF fire_filter_do_write, fire_filter_on
<1>3. inbound[f] \in Link /\ outbound[f] \in Link /\ writes[t] \in Nat
  BY DEF ListTypeOK, OrderTypeOK
<1>4. CASE fire_filter_do_write(t, f)
  <2> DEFINE c == Call("write", outbound[f], t, writes[t] + 1, FALSE)
  <2>1. Make(t, c)
    BY <1>4 DEF fire_filter_do_write
  <2>2. c \in Frame /\ ~c.last /\ c.t = t
    <3>1. c \in CallRec /\ c.k = "write" /\ c.t = t /\ c.last = FALSE
      BY <1>3 DEF Call, CallRec
    <3> HIDE DEF c
    <3> QED BY <3>1 DEF Frame
  <2> HIDE DEF c
  <2> QED BY <1>1, <1>2, <2>1, <2>2, MakeKeeps
<1>5. CASE fire_filter_on(t, f)
  <2> DEFINE c == Call("event", inbound[f], t, 0, FALSE)
  <2>1. Make(t, c) /\ inbound[f] # NoFilter
    BY <1>5 DEF fire_filter_on
  <2>2. c \in Frame /\ ~c.last /\ c.t = t
    <3>1. c \in CallRec /\ c.k = "event" /\ c.t = t /\ c.last = FALSE /\ c.f = inbound[f]
      BY <1>3 DEF Call, CallRec
    <3> HIDE DEF c
    <3> QED BY <2>1, <3>1 DEF Frame
  <2> HIDE DEF c
  <2> QED BY <1>1, <1>2, <2>1, <2>2, MakeKeeps
<1> QED BY <1>4, <1>5

\* Calls keep the references and the order of writes.
LEMMA CallsKeep ==
  ASSUME CallInv, ListTypeOK, OrderInv, Calls
  PROVE  CallInv' /\ OrderInv'
<1>1. _inbound \in Link /\ OrderTypeOK
  BY DEF ListTypeOK, OrderInv
<1>2. CASE fire_on_open
  BY <1>1, <1>2, OpenKeeps, OrderMost
<1>3. CASE fire_on_event
  BY <1>1, <1>3, EventKeeps, OrderMost
<1>4. CASE fire_on_close
  BY <1>1, <1>4, FireCloseKeeps, OrderMost
<1>5. CASE fire_on_end_reference
  BY <1>5, EndKeeps, OrderMost
<1>6. CASE forward
  BY <1>6, ForwardKeeps, OrderMost
<1>7. CASE swallow
  <2>1. stack # <<>> /\ Return /\ st' = st /\ hold' = hold
    BY <1>7 DEF swallow
  <2> QED BY <1>7, <2>1, ReturnKeeps, OrderMost
<1>8. CASE do_write
  <2>1. stack # <<>> /\ Return /\ st' = st /\ hold' = hold
    BY <1>8 DEF do_write
  <2> QED BY <1>8, <2>1, ReturnKeeps, OrderDoWrite
<1>9. CASE run_call
  BY <1>9, RunKeeps, OrderRun
<1>10. ASSUME NEW t \in Caller, close(t) PROVE CallInv' /\ OrderInv'
  BY <1>10, CloseKeeps, OrderMost
<1>11. ASSUME NEW t \in Caller, add_ref(t) PROVE CallInv' /\ OrderInv'
  BY <1>11, AddRefKeeps, OrderMost
<1>12. ASSUME NEW t \in Caller, release(t) PROVE CallInv' /\ OrderInv'
  BY <1>12, ReleaseKeeps, OrderMost
<1>13. ASSUME NEW t \in Caller, NEW f \in Filters, fire_filter_do_write(t, f) PROVE CallInv' /\ OrderInv'
  BY <1>1, <1>13, FireKeeps, OrderWrite
<1>14. ASSUME NEW t \in Caller, NEW f \in Filters, fire_filter_on(t, f) PROVE CallInv' /\ OrderInv'
  BY <1>1, <1>14, FireKeeps, OrderEvent
<1> QED BY <1>2, <1>3, <1>4, <1>5, <1>6, <1>7, <1>8, <1>9, <1>10, <1>11, <1>12, <1>13, <1>14 DEF Calls

\* The list is edited inside a call only, and calls go on as they were.
LEMMA EditsKeep ==
  ASSUME CallInv, ListTypeOK, OrderInv, Edits
  PROVE  /\ CallInv' /\ OrderInv' /\ ListTypeOK'
         /\ st' = st /\ freed' = freed /\ st \notin {"built", "freed"}
<1>1. stack # <<>> /\ UNCHANGED <<st, stack, q, refs, hold, freed>>
  BY DEF Edits, add_inbound, add_outbound, remove, MayEdit, Edited
<1>2. CallInv'
  BY <1>1, CallsSame
<1>3. st \notin {"built", "freed"}
  BY <1>1, Alive
<1>4. OrderInv'
  BY OrderMost DEF Edits
<1>5. ListTypeOK'
  BY EditTypes DEF Edits
<1> QED BY <1>1, <1>2, <1>3, <1>4, <1>5

\* What every step keeps, edits at the first filter included.
LEMMA BaseStep ==
  ASSUME BaseInv, [Next]_vars
  PROVE  BaseInv'
<1>1. ListTypeOK /\ BuiltClean /\ CallInv /\ OrderInv
  BY DEF BaseInv
<1>2. CASE UNCHANGED vars
  <2>1. UNCHANGED <<st, _inbound, inbound, outbound, chain, stack, q, refs, hold, written, writes, edits>>
    BY <1>2 DEF vars, list, history
  <2>2. CallInv'
    BY <1>1, <2>1, CallsSame
  <2>3. ListTypeOK' /\ BuiltClean'
    BY <1>1, <2>1 DEF ListTypeOK, BuiltClean, LinkInv
  <2>4. OrderInv'
    BY <1>1, <2>1, ZenonT(30) DEF OrderInv, OrderTypeOK, WritesOrdered, InStack, InQueue
  <2> QED BY <2>2, <2>3, <2>4 DEF BaseInv
<1>3. ASSUME NEW f \in Filters, add(f) PROVE BaseInv'
  <2>1. UNCHANGED <<st, stack, q, refs, hold>>
    BY <1>3 DEF add
  <2>2. CallInv'
    BY <1>1, <2>1, CallsSame
  <2>3. OrderInv'
    BY <1>1, <1>3, OrderMost
  <2>4. ListTypeOK' /\ BuiltClean'
    BY <1>1, <1>3, AddLinks
  <2> QED BY <2>2, <2>3, <2>4 DEF BaseInv
<1>4. CASE Edits
  <2>1. /\ CallInv' /\ OrderInv' /\ ListTypeOK' /\ st' = st /\ st \notin {"built", "freed"}
    BY <1>1, <1>4, EditsKeep
  <2> QED BY <2>1 DEF BaseInv, BuiltClean
<1>5. CASE Calls
  <2>1. CallInv' /\ OrderInv'
    BY <1>1, <1>5, CallsKeep
  <2>2. UNCHANGED <<_inbound, inbound, outbound, chain, edits>> /\ (st' = "built" => st = "built")
    BY <1>5, CallsList
  <2>3. ListTypeOK'
    BY <1>1, <2>2 DEF ListTypeOK
  <2>4. BuiltClean'
    BY <1>1, <2>2 DEF BuiltClean, LinkInv
  <2> QED BY <2>1, <2>3, <2>4 DEF BaseInv
<1> QED BY <1>2, <1>3, <1>4, <1>5, Steps

\* The inductive invariant holds in the initial states.
LEMMA PipeInit ==
  ASSUME Init
  PROVE  PipeInv
<1>1. /\ st = "built" /\ _inbound = NoFilter
      /\ inbound = [f \in Filters |-> NoFilter] /\ outbound = [f \in Filters |-> NoFilter]
      /\ stack = <<>> /\ q = <<>> /\ refs = 0 /\ hold = [t \in Caller |-> FALSE]
      /\ chain = <<>> /\ written = <<>> /\ writes = [t \in Caller |-> 0] /\ edits = 0
  BY DEF Init
<1>2. ListTypeOK
  BY <1>1 DEF ListTypeOK, Link
<1>3. LinkInv
  BY <1>1 DEF LinkInv, OnePlace, IsList
<1>4. BuiltClean
  BY <1>1, <1>3 DEF BuiltClean, Clean
<1>5. CallTypeOK
  BY <1>1 DEF CallTypeOK, States
<1>6. Tally(hold, {TRUE}) = 0 /\ \A t \in Caller : ~hold[t]
  <2>1. \A t \in Caller : ~hold[t]
    BY <1>1
  <2> QED BY <1>5, <2>1, Holders DEF CallTypeOK
<1>7. Count(q, Owed) = 0 /\ Count(q, {Close}) = 0 /\ Count(q, {End}) = 0
  BY <1>1, <1>5, QueueCounts DEF CallTypeOK
<1>8. RefsAre
  BY <1>1, <1>6, <1>7 DEF RefsAre, Bottom, Opened
<1>9. CloseIs /\ EndIs /\ StackIs /\ Quiet
  BY <1>1, <1>6, <1>7 DEF CloseIs, EndIs, StackIs, Quiet
<1>10. OrderInv
  <2>1. DOMAIN written = {} /\ DOMAIN stack = {} /\ DOMAIN q = {}
    BY <1>1
  <2>2. OrderTypeOK
    BY <1>1 DEF OrderTypeOK
  <2> QED BY <2>1, <2>2 DEF OrderInv, WritesOrdered, InStack
<1>11. FreedAll
  BY <1>1 DEF FreedAll
<1> QED BY <1>2, <1>3, <1>4, <1>5, <1>8, <1>9, <1>10, <1>11 DEF PipeInv, BaseInv, CallInv

\* Every step keeps the list, if edits stay away from the first filter.
LEMMA PipeStep ==
  ASSUME ~HeadEdits, PipeInv, [Next]_vars
  PROVE  PipeInv'
<1>1. BaseInv /\ LinkInv /\ FreedAll /\ ListTypeOK /\ CallInv /\ OrderInv /\ BuiltClean
  BY DEF PipeInv, BaseInv
<1>2. BaseInv'
  BY <1>1, BaseStep
<1>3. CASE UNCHANGED vars
  BY <1>1, <1>2, <1>3 DEF PipeInv, LinkInv, FreedAll, vars, list
<1>4. ASSUME NEW f \in Filters, add(f) PROVE PipeInv'
  <2>1. st = "built" /\ st' = "built"
    BY <1>4 DEF add
  <2>2. BuiltClean'
    BY <1>2 DEF BaseInv
  <2> QED BY <1>2, <2>1, <2>2 DEF PipeInv, BuiltClean, FreedAll
<1>5. CASE Edits
  <2>1. st' = st /\ st \notin {"built", "freed"}
    BY <1>1, <1>5, EditsKeep
  <2>2. LinkInv'
    BY <1>1, <1>5, AddInboundLinks, AddOutboundLinks, RemoveKeepsLinks DEF Edits
  <2> QED BY <1>2, <2>1, <2>2 DEF PipeInv, FreedAll
<1>6. CASE Calls
  <2>1. UNCHANGED <<_inbound, inbound, outbound, chain>>
    BY <1>6, CallsList
  <2>2. LinkInv'
    BY <1>1, <2>1 DEF LinkInv
  <2>3. CASE fire_on_end_reference
    <3>1. freed' = Walk
      BY <2>3 DEF fire_on_end_reference
    <3>2. Walk = chain
      BY <1>1, WalkIsChain
    <3> QED BY <1>2, <2>1, <2>2, <3>1, <3>2 DEF PipeInv, FreedAll
  <2>4. CASE ~fire_on_end_reference
    <3>1. freed' = freed /\ (st' = "freed" => st = "freed")
      <4>1. CASE fire_on_open \/ fire_on_event \/ fire_on_close \/ forward \/ swallow \/ do_write \/ run_call
        BY <4>1 DEF fire_on_open, fire_on_event, fire_on_close, forward, swallow, do_write, run_call
      <4>2. CASE \/ \E t \in Caller : close(t)
                 \/ \E t \in Caller : add_ref(t)
                 \/ \E t \in Caller : release(t)
        BY <4>2 DEF close, add_ref, release
      <4>3. CASE \/ \E t \in Caller, f \in Filters : fire_filter_do_write(t, f)
                 \/ \E t \in Caller, f \in Filters : fire_filter_on(t, f)
        BY <4>3 DEF fire_filter_do_write, fire_filter_on
      <4> QED BY <1>6, <2>4, <4>1, <4>2, <4>3 DEF Calls
    <3> QED BY <1>1, <1>2, <2>1, <2>2, <3>1 DEF PipeInv, FreedAll
  <2> QED BY <2>3, <2>4
<1> QED BY <1>3, <1>4, <1>5, <1>6, Steps

-----------------------------------------------------------------------------
\* The references, the queue, the stack and the order of writes, wherever the
\* list is edited.
THEOREM CallsInvariant == Spec => []BaseInv
<1>1. Init => BaseInv
  BY PipeInit DEF PipeInv
<1>2. BaseInv /\ [Next]_vars => BaseInv'
  BY BaseStep
<1> QED BY <1>1, <1>2, PTL DEF Spec

\* The writes of a thread reach the channel in their order, for any numbers of
\* threads and filters, wherever the list is edited, and although calls are
\* made in place inside the pipeline and posted everywhere else.
THEOREM WritesInOrder == Spec => []WritesOrdered
<1>1. BaseInv => WritesOrdered
  BY DEF BaseInv, OrderInv
<1> QED BY <1>1, CallsInvariant, PTL

\* The whole invariant, if edits stay away from the first filter.
THEOREM PipelineInvariant == ASSUME ~HeadEdits PROVE Spec => []PipeInv
<1>1. Init => PipeInv
  BY PipeInit
<1>2. PipeInv /\ [Next]_vars => PipeInv'
  BY PipeStep
<1> QED BY <1>1, <1>2, PTL DEF Spec

\* Then the links of add_inbound, add_outbound and remove join the filters of
\* the list in their order, in both directions.
THEOREM LinksFormTheList == ASSUME ~HeadEdits PROVE Spec => []ListIsChain
<1>1. PipeInv => ListIsChain
  BY ONLY DEF PipeInv, LinkInv, IsList, ListIsChain
<1> QED BY <1>1, PipelineInvariant, PTL

\* And on the last reference every filter is deleted once, after every call.
THEOREM FiltersDeletedLast == ASSUME ~HeadEdits PROVE Spec => []DeletedLast
<1>1. PipeInv => DeletedLast
  <2> SUFFICES ASSUME PipeInv, st = "freed" PROVE DeletedLast
    BY DEF DeletedLast
  <2>1. freed = chain
    BY DEF PipeInv, FreedAll
  <2>2. stack = <<>> /\ q = <<>> /\ refs = 0 /\ \A t \in Caller : ~hold[t]
    BY DEF PipeInv, BaseInv, CallInv, Quiet
  <2> QED BY <2>1, <2>2 DEF DeletedLast
<1> QED BY <1>1, PipelineInvariant, PTL
=============================================================================
