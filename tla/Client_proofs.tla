--------------------------- MODULE Client_proofs ---------------------------
(***************************************************************************)
(* Proofs about module Client: the wait counters of the queue are exact,   *)
(* for all setups.                                                         *)
(***************************************************************************)
EXTENDS Client, FiniteSetTheorems, TLAPS

\* s is a sequence, whatever its elements are.
IsSeq(s) == s \in Seq({s[i] : i \in DOMAIN s})

\* The fields of an operation (cluster_op_t).
Fields == {"kind", "id", "units", "vals", "flush", "imm", "st", "wait", "retry", "ret",
           "reslice", "parts", "miss", "floor"}
IsOp(op) == DOMAIN op = Fields /\ op.flush \in BOOLEAN /\ op.imm \in BOOLEAN /\ op.wait \in Int

\* What leaves the queue without adjusting the counters holds back nobody.
Good(op) == IsOp(op) /\ (op.kind = "sync" \/ (IsWrite(op) /\ op.flush) => Counted(op))
\* A request of the user that is not in the queue yet: a SYNC, or a write when
\* there is a writeback cache
Fresh(op) == /\ IsOp(op) /\ ~op.flush
             /\ op.kind = "sync" => ~op.imm
             /\ IsWrite(op) => setup.wb

\* prev_wait of each counted operation is the number of operations before it
\* that block it: WaitsExact for any queue.
Exact(q) ==
  \A i \in DOMAIN q : q[i].kind # "read" /\ Counted(q[i]) =>
    q[i].wait = Cardinality({j \in 1..i-1 : Blocks(q[j], q[i])})

\* The queue, and a list of requests that wait for write-back (writeback_overflow)
QueueOk(q) == IsSeq(q) /\ (\A i \in DOMAIN q : Good(q[i])) /\ Exact(q)
FreshAll(s) == IsSeq(s) /\ \A i \in DOMAIN s : Fresh(s[i])
\* What the running handler has still to do
EntryOk(e) ==
  /\ e.k = "add" => Good(e.op)
  /\ e.k = "list" => setup.wb /\ DOMAIN e = {"k", "all", "end", "rest"}
  /\ e.k = "ovf" => DOMAIN e = {"k", "rest"} /\ FreshAll(e.rest)
TodoOk(t) == IsSeq(t) /\ \A i \in DOMAIN t : EntryOk(t[i])

\* The inductive invariant
CInv == /\ QueueOk(queue) /\ TodoOk(todo) /\ FreshAll(overflow)
        /\ ~setup.wb => wbq = <<>>

-----------------------------------------------------------------------------
\* Facts about sequences that do not name the set of their elements
LEMMA SeqFacts ==
  ASSUME NEW S, NEW s \in Seq(S)
  PROVE  /\ IsSeq(s)
         /\ \A i \in DOMAIN s : s[i] \in S
         /\ Len(s) \in Nat /\ DOMAIN s = 1..Len(s)
<1> DEFINE T == {s[i] : i \in DOMAIN s}
<1>1. /\ \A i \in DOMAIN s : s[i] \in S
      /\ Len(s) \in Nat /\ DOMAIN s = 1..Len(s)
  OBVIOUS
<1>2. s \in [1..Len(s) -> T]
  BY <1>1
<1>3. s \in Seq(T)
  BY <1>1, <1>2
<1> QED BY <1>1, <1>3 DEF IsSeq

LEMMA DomainFacts ==
  ASSUME NEW s, IsSeq(s)
  PROVE  Len(s) \in Nat /\ DOMAIN s = 1..Len(s)
BY DEF IsSeq

LEMMA JoinFacts ==
  ASSUME NEW s, IsSeq(s), NEW t, IsSeq(t)
  PROVE  /\ IsSeq(s \o t)
         /\ Len(s \o t) = Len(s) + Len(t)
         /\ \A i \in DOMAIN (s \o t) : (s \o t)[i] = IF i <= Len(s) THEN s[i] ELSE t[i - Len(s)]
<1> DEFINE S == {s[i] : i \in DOMAIN s} \cup {t[i] : i \in DOMAIN t}
<1>1. s \in Seq(S) /\ t \in Seq(S)
  BY DEF IsSeq
<1>2. (s \o t) \in Seq(S)
  BY <1>1
<1>3. IsSeq(s \o t)
  BY <1>2, SeqFacts
<1>4. Len(s) \in Nat /\ Len(t) \in Nat /\ Len(s \o t) = Len(s) + Len(t)
  BY <1>1
<1>5. \A i \in DOMAIN (s \o t) : (s \o t)[i] = IF i <= Len(s) THEN s[i] ELSE t[i - Len(s)]
  BY <1>1, <1>4
<1> QED BY <1>3, <1>4, <1>5

LEMMA TailFacts ==
  ASSUME NEW s, IsSeq(s), s # <<>>
  PROVE  /\ IsSeq(Tail(s)) /\ Head(s) = s[1] /\ 1 \in DOMAIN s
         /\ \A i \in DOMAIN Tail(s) : Tail(s)[i] = s[i + 1] /\ i + 1 \in DOMAIN s
<1> DEFINE S == {s[i] : i \in DOMAIN s}
<1>1. s \in Seq(S)
  BY DEF IsSeq
<1>2. Tail(s) \in Seq(S) /\ Head(s) = s[1] /\ 1 \in DOMAIN s
  BY <1>1
<1>3. \A i \in DOMAIN Tail(s) : Tail(s)[i] = s[i + 1] /\ i + 1 \in DOMAIN s
  BY <1>1, <1>2
<1>4. IsSeq(Tail(s))
  BY <1>2, SeqFacts
<1> QED BY <1>2, <1>3, <1>4

LEMMA FunFacts ==
  ASSUME NEW n \in Nat, NEW f, DOMAIN f = 1..n, f = [i \in 1..n |-> f[i]]
  PROVE  IsSeq(f) /\ Len(f) = n
<1> DEFINE S == {f[i] : i \in 1..n}
<1>1. f \in [1..n -> S]
  OBVIOUS
<1>2. f \in Seq(S)
  BY <1>1
<1>3. IsSeq(f)
  BY <1>2, SeqFacts
<1>4. Len(f) = n
  BY <1>1, <1>2
<1> QED BY <1>3, <1>4

(***************************************************************************)
(* Counting                                                                *)
(***************************************************************************)
LEMMA ImageCard ==
  ASSUME NEW A, IsFiniteSet(A), NEW f, f \in [A -> {f[x] : x \in A}],
         \A x, y \in A : f[x] = f[y] => x = y
  PROVE  IsFiniteSet({f[x] : x \in A}) /\ Cardinality({f[x] : x \in A}) = Cardinality(A)
<1> DEFINE T == {f[x] : x \in A}
<1>1. f \in Bijection(A, T)
  BY DEF Bijection, Injection, Surjection, IsInjective
<1>2. ExistsBijection(A, T)
  BY <1>1 DEF ExistsBijection
<1> HIDE DEF T
<1>3. IsFiniteSet(T) /\ Cardinality(T) = Cardinality(A)
  BY <1>2, FS_Bijection
<1> QED BY <1>3 DEF T

LEMMA SetUpTo ==
  ASSUME NEW n \in Int, NEW S \in SUBSET (1..n)
  PROVE  IsFiniteSet(S) /\ Cardinality(S) \in Nat
<1>1. IsFiniteSet(1..n)
  BY FS_Interval
<1> QED BY <1>1, FS_Subset, FS_CardinalityType

\* Numbers from i on are moved up by one.
LEMMA SkipCard ==
  ASSUME NEW n \in Int, NEW A \in SUBSET (1..n), NEW i \in Int
  PROVE  Cardinality({IF j < i THEN j ELSE j + 1 : j \in A}) = Cardinality(A)
<1> DEFINE f == [j \in A |-> IF j < i THEN j ELSE j + 1]
<1>1. IsFiniteSet(A)
  BY SetUpTo
<1>2. f \in [A -> {f[x] : x \in A}]
  OBVIOUS
<1>3. \A x, y \in A : f[x] = f[y] => x = y
  OBVIOUS
<1>4. {f[x] : x \in A} = {IF j < i THEN j ELSE j + 1 : j \in A}
  OBVIOUS
<1> HIDE DEF f
<1> QED BY <1>1, <1>2, <1>3, <1>4, ImageCard

LEMMA ShiftCard ==
  ASSUME NEW n \in Int, NEW A \in SUBSET (1..n), NEW d \in Int
  PROVE  Cardinality({j + d : j \in A}) = Cardinality(A)
<1> DEFINE f == [j \in A |-> j + d]
<1>1. IsFiniteSet(A)
  BY SetUpTo
<1>2. f \in [A -> {f[x] : x \in A}]
  OBVIOUS
<1>3. \A x, y \in A : f[x] = f[y] => x = y
  OBVIOUS
<1>4. {f[x] : x \in A} = {j + d : j \in A}
  OBVIOUS
<1> HIDE DEF f
<1> QED BY <1>1, <1>2, <1>3, <1>4, ImageCard

(***************************************************************************)
(* The queue                                                               *)
(***************************************************************************)
\* All that the counters depend on stays as it is.
SameOp(a, b) ==
  IsOp(b) /\ b.kind = a.kind /\ b.flush = a.flush /\ b.imm = a.imm /\ b.wait = a.wait

LEMMA SameQueue ==
  ASSUME NEW q, QueueOk(q), NEW r, IsSeq(r), DOMAIN r = DOMAIN q,
         \A i \in DOMAIN q : SameOp(q[i], r[i])
  PROVE  QueueOk(r)
<1>1. \A i \in DOMAIN r : Good(r[i])
  BY DEF QueueOk, Good, SameOp, IsWrite, Counted
<1>2. Len(q) \in Nat /\ DOMAIN q = 1..Len(q)
  BY DomainFacts DEF QueueOk
<1>3. ASSUME NEW i \in DOMAIN r, r[i].kind # "read", Counted(r[i])
      PROVE  r[i].wait = Cardinality({j \in 1..i-1 : Blocks(r[j], r[i])})
  <2>1. \A j \in 1..i-1 : j \in DOMAIN q
    BY <1>2
  <2>2. \A j \in 1..i-1 : Blocks(r[j], r[i]) <=> Blocks(q[j], q[i])
    BY <2>1 DEF Blocks, SameOp, IsWrite
  <2>3. q[i].wait = Cardinality({j \in 1..i-1 : Blocks(q[j], q[i])})
    BY <1>3 DEF QueueOk, Exact, SameOp, Counted
  <2>4. {j \in 1..i-1 : Blocks(r[j], r[i])} = {j \in 1..i-1 : Blocks(q[j], q[i])}
    BY <2>2
  <2> QED BY <2>3, <2>4 DEF SameOp
<1> QED BY <1>1, <1>3 DEF QueueOk, Exact

\* An operation is added at the end and counts its blockers (calc_wait).
LEMMA AppendOk ==
  ASSUME NEW q, QueueOk(q), NEW op, Good(op)
  PROVE  QueueOk(Append2(q, op))
<1> DEFINE n == IF Counted(op) THEN Cardinality({i \in DOMAIN q : Blocks(q[i], op)}) ELSE 0
           new == [op EXCEPT !.wait = n]
           r == Append(q, new)
<1>1. Len(q) \in Nat /\ DOMAIN q = 1..Len(q)
  BY DomainFacts DEF QueueOk
<1>2. n \in Int
  <2> DEFINE B == {i \in DOMAIN q : Blocks(q[i], op)}
  <2>1. B \in SUBSET (1..Len(q))
    BY <1>1
  <2> HIDE DEF B
  <2>2. Len(q) \in Int
    BY <1>1
  <2>3. Cardinality(B) \in Nat
    BY <2>1, <2>2, SetUpTo
  <2> QED BY <2>3 DEF B
<1> HIDE DEF n
<1>3. /\ new.kind = op.kind /\ new.flush = op.flush /\ new.imm = op.imm /\ new.wait = n
      /\ IsOp(new)
  BY <1>2 DEF Good, IsOp, Fields
<1>4. Good(new)
  BY <1>3 DEF Good, IsWrite, Counted
<1> HIDE DEF new
<1>5. IsSeq(r) /\ Len(r) = Len(q) + 1 /\ r[Len(q) + 1] = new
      /\ \A i \in 1..Len(q) : r[i] = q[i]
  <2> DEFINE S == {q[i] : i \in DOMAIN q} \cup {new}
  <2>1. q \in Seq(S) /\ new \in S
    BY DEF QueueOk, IsSeq
  <2>2. r \in Seq(S)
    BY <2>1
  <2>3. IsSeq(r)
    BY <2>2, SeqFacts
  <2>4. Len(r) = Len(q) + 1 /\ r[Len(q) + 1] = new /\ \A i \in 1..Len(q) : r[i] = q[i]
    BY <2>1
  <2> QED BY <2>3, <2>4
<1> HIDE DEF r
<1>6. DOMAIN r = 1..(Len(q) + 1)
  BY <1>5, DomainFacts
<1>7. \A i \in DOMAIN r : Good(r[i])
  BY <1>1, <1>4, <1>5, <1>6 DEF QueueOk
<1>8. ASSUME NEW i \in DOMAIN r, r[i].kind # "read", Counted(r[i])
      PROVE  r[i].wait = Cardinality({j \in 1..i-1 : Blocks(r[j], r[i])})
  <2>1. CASE i = Len(q) + 1
    <3>1. \A j \in 1..i-1 : Blocks(r[j], r[i]) <=> Blocks(q[j], op)
      BY <1>1, <1>3, <1>5, <2>1 DEF Blocks, IsWrite
    <3>2. {j \in 1..i-1 : Blocks(r[j], r[i])} = {j \in DOMAIN q : Blocks(q[j], op)}
      BY <1>1, <2>1, <3>1
    <3>3. Counted(op)
      BY <1>3, <1>5, <1>8, <2>1 DEF Counted
    <3> QED BY <1>3, <1>5, <2>1, <3>2, <3>3 DEF n
  <2>2. CASE i \in 1..Len(q)
    <3>1. {j \in 1..i-1 : Blocks(r[j], r[i])} = {j \in 1..i-1 : Blocks(q[j], q[i])}
      BY <1>1, <1>5, <2>2
    <3> QED BY <1>1, <1>5, <1>8, <2>2, <3>1 DEF QueueOk, Exact
  <2> QED BY <1>1, <1>6, <2>1, <2>2
<1>9. QueueOk(r)
  BY <1>5, <1>7, <1>8 DEF QueueOk, Exact
<1> QED BY <1>9 DEF r, new, n, Append2

\* What inc_wait changes: the counters behind the operation, nothing else.
LEMMA IncWaitFacts ==
  ASSUME NEW q, IsSeq(q), \A k \in DOMAIN q : IsOp(q[k]), NEW from \in Int, NEW a, NEW inc \in Int
  PROVE  /\ IsSeq(IncWait(q, from, a, inc)) /\ Len(IncWait(q, from, a, inc)) = Len(q)
         /\ DOMAIN IncWait(q, from, a, inc) = DOMAIN q
         /\ \A k \in DOMAIN q : LET x == IncWait(q, from, a, inc)[k] IN
              /\ IsOp(x)
              /\ x.kind = q[k].kind /\ x.flush = q[k].flush /\ x.imm = q[k].imm
              /\ x.wait = IF k >= from /\ Counts(a, q[k]) THEN q[k].wait + inc ELSE q[k].wait
<1> DEFINE r == IncWait(q, from, a, inc)
<1>1. Len(q) \in Nat /\ DOMAIN q = 1..Len(q)
  BY DomainFacts
<1>2. DOMAIN r = 1..Len(q) /\ r = [k \in 1..Len(q) |-> r[k]]
  BY <1>1 DEF IncWait
<1>3. IsSeq(r) /\ Len(r) = Len(q)
  <2> HIDE DEF r
  <2> QED BY <1>1, <1>2, FunFacts
<1>4. ASSUME NEW k \in DOMAIN q
      PROVE  /\ IsOp(r[k])
             /\ r[k].kind = q[k].kind /\ r[k].flush = q[k].flush /\ r[k].imm = q[k].imm
             /\ r[k].wait = IF k >= from /\ Counts(a, q[k]) THEN q[k].wait + inc ELSE q[k].wait
  <2>1. CASE k >= from /\ Counts(a, q[k])
    <3>1. r[k] = [q[k] EXCEPT !.wait = q[k].wait + inc]
      BY <2>1 DEF IncWait
    <3>2. IsOp(q[k])
      OBVIOUS
    <3> HIDE DEF r
    <3> QED BY <2>1, <3>1, <3>2 DEF IsOp, Fields
  <2>2. CASE ~(k >= from /\ Counts(a, q[k]))
    <3>1. r[k] = q[k]
      BY <2>2 DEF IncWait
    <3> HIDE DEF r
    <3> QED BY <2>2, <3>1
  <2> QED BY <2>1, <2>2
<1> QED BY <1>1, <1>2, <1>3, <1>4

\* The queue without its i-th operation, position by position
LEMMA RemoveFacts ==
  ASSUME NEW q, IsSeq(q), NEW i \in DOMAIN q
  PROVE  /\ IsSeq(RemoveAt(q, i)) /\ Len(RemoveAt(q, i)) = Len(q) - 1
         /\ DOMAIN RemoveAt(q, i) = 1..(Len(q) - 1)
         /\ \A k \in 1..(Len(q) - 1) : RemoveAt(q, i)[k] = IF k < i THEN q[k] ELSE q[k + 1]
<1> DEFINE S == {q[k] : k \in DOMAIN q}
           a == SubSeq(q, 1, i - 1)
           b == SubSeq(q, i + 1, Len(q))
<1>1. Len(q) \in Nat /\ DOMAIN q = 1..Len(q) /\ q \in Seq(S)
  BY DomainFacts DEF IsSeq
<1>2. i \in 1..Len(q)
  BY <1>1
<1> HIDE DEF S
<1>3. /\ a \in Seq(S) /\ Len(a) = i - 1 /\ \A k \in 1..(i - 1) : a[k] = q[k]
  BY <1>1, <1>2
<1>4. /\ b \in Seq(S) /\ Len(b) = Len(q) - i /\ \A k \in 1..(Len(q) - i) : b[k] = q[i + k]
  BY <1>1, <1>2
<1> HIDE DEF a, b
<1>5. RemoveAt(q, i) = a \o b
  BY DEF RemoveAt, a, b
<1>6. (a \o b) \in Seq(S) /\ Len(a \o b) = Len(q) - 1
  <2>1. a \in Seq(S) /\ b \in Seq(S)
    BY <1>3, <1>4
  <2>2. (a \o b) \in Seq(S)
    BY <2>1
  <2>3. Len(a \o b) = Len(a) + Len(b)
    BY <2>1
  <2> QED BY <1>1, <1>2, <1>3, <1>4, <2>2, <2>3
<1>7. IsSeq(a \o b) /\ DOMAIN (a \o b) = 1..(Len(q) - 1)
  BY <1>6, SeqFacts
<1>8. ASSUME NEW k \in 1..(Len(q) - 1)
      PROVE  (a \o b)[k] = IF k < i THEN q[k] ELSE q[k + 1]
  <2>1. (a \o b)[k] = IF k <= Len(a) THEN a[k] ELSE b[k - Len(a)]
    <3>1. IsSeq(a) /\ IsSeq(b)
      BY <1>3, <1>4, SeqFacts
    <3>2. k \in DOMAIN (a \o b)
      BY <1>7
    <3> QED BY <3>1, <3>2, JoinFacts
  <2>2. CASE k < i
    BY <1>1, <1>2, <1>3, <2>1, <2>2
  <2>3. CASE ~(k < i)
    <3>1. k - (i - 1) \in 1..(Len(q) - i) /\ i + (k - (i - 1)) = k + 1
      BY <1>1, <1>2, <2>3
    <3> QED BY <1>1, <1>2, <1>3, <1>4, <2>1, <2>3, <3>1
  <2> QED BY <2>2, <2>3
<1> QED BY <1>5, <1>6, <1>7, <1>8

\* An operation leaves the queue (erase_op).
LEMMA RemoveOk ==
  ASSUME NEW q, QueueOk(q), NEW i \in DOMAIN q, NEW op, SameOp(q[i], op)
  PROVE  QueueOk(IF Counted(op) THEN IncWait(RemoveAt(q, i), i, op, -1) ELSE RemoveAt(q, i))
<1> DEFINE r == RemoveAt(q, i)
           s == IF Counted(op) THEN IncWait(r, i, op, -1) ELSE r
           n == Len(q)
           at(k) == IF k < i THEN k ELSE k + 1
<1>1. n \in Nat /\ DOMAIN q = 1..n /\ i \in 1..n
  BY DomainFacts DEF QueueOk
<1>2. IsSeq(r) /\ Len(r) = n - 1 /\ DOMAIN r = 1..(n - 1) /\ \A k \in 1..(n - 1) : r[k] = q[at(k)] /\ at(k) \in 1..n
  <2>1. IsSeq(q)
    BY DEF QueueOk
  <2>2. IsSeq(r) /\ Len(r) = n - 1 /\ DOMAIN r = 1..(n - 1)
        /\ \A k \in 1..(n - 1) : r[k] = IF k < i THEN q[k] ELSE q[k + 1]
    BY <2>1, RemoveFacts
  <2> HIDE DEF r
  <2> QED BY <1>1, <2>2
<1> HIDE DEF r
<1>3. \A k \in 1..(n - 1) : Good(r[k])
  BY <1>1, <1>2 DEF QueueOk
<1>4. Good(op) /\ Good(q[i])
  BY <1>1 DEF QueueOk, Good, SameOp, IsWrite, Counted
<1>5. /\ IsSeq(s) /\ DOMAIN s = 1..(n - 1)
      /\ \A k \in 1..(n - 1) :
           /\ IsOp(s[k]) /\ s[k].kind = r[k].kind /\ s[k].flush = r[k].flush /\ s[k].imm = r[k].imm
           /\ s[k].wait = IF Counted(op) /\ k >= i /\ Counts(op, r[k]) THEN r[k].wait - 1 ELSE r[k].wait
  <2>1. CASE Counted(op)
    <3>1. \A k \in DOMAIN r : IsOp(r[k])
      BY <1>2, <1>3 DEF Good
    <3>2. i \in Int /\ -1 \in Int
      BY <1>1
    <3>3. s = IncWait(r, i, op, -1)
      BY <2>1
    <3> HIDE DEF s
    <3>4. IsSeq(s) /\ DOMAIN s = DOMAIN r
      BY <1>2, <3>1, <3>2, <3>3, IncWaitFacts
    <3>5. \A k \in DOMAIN r :
           /\ IsOp(s[k]) /\ s[k].kind = r[k].kind /\ s[k].flush = r[k].flush /\ s[k].imm = r[k].imm
           /\ s[k].wait = IF k >= i /\ Counts(op, r[k]) THEN r[k].wait + (-1) ELSE r[k].wait
      BY <1>2, <3>1, <3>2, <3>3, IncWaitFacts
    <3>6. \A k \in DOMAIN r : r[k].wait + (-1) = r[k].wait - 1
      BY <3>1 DEF IsOp
    <3> QED BY <1>2, <2>1, <3>4, <3>5, <3>6
  <2>2. CASE ~Counted(op)
    BY <1>2, <1>3, <2>2 DEF Good
  <2> QED BY <2>1, <2>2
<1> HIDE DEF s
<1>6. \A k \in DOMAIN s : Good(s[k])
  BY <1>3, <1>5 DEF Good, IsWrite, Counted
<1>7. ASSUME NEW k \in DOMAIN s, s[k].kind # "read", Counted(s[k])
      PROVE  s[k].wait = Cardinality({j \in 1..k-1 : Blocks(s[j], s[k])})
  <2> DEFINE b == q[at(k)]
             A == {j \in 1..k-1 : Blocks(s[j], s[k])}
             B == {j \in 1..at(k)-1 : Blocks(q[j], b)}
  <2>1. k \in 1..(n - 1) /\ k \in Int /\ at(k) \in 1..n /\ r[k] = b /\ b.wait \in Int
    BY <1>1, <1>2, <1>3, <1>5 DEF Good, IsOp
  <2>2. b.kind # "read" /\ Counted(b) /\ s[k].kind = b.kind /\ s[k].flush = b.flush
    BY <1>5, <1>7, <2>1 DEF Counted
  <2>3. b.wait = Cardinality(B)
    BY <1>1, <2>1, <2>2 DEF QueueOk, Exact
  <2>4. \A j \in 1..k-1 : at(j) \in 1..n /\ (Blocks(s[j], s[k]) <=> Blocks(q[at(j)], b))
    <3> TAKE j \in 1..k-1
    <3>1. j \in 1..(n - 1)
      BY <2>1
    <3>2. s[j].kind = q[at(j)].kind /\ s[j].flush = q[at(j)].flush /\ s[j].imm = q[at(j)].imm /\ at(j) \in 1..n
      BY <1>2, <1>5, <3>1
    <3> HIDE DEF at, b
    <3> QED BY <2>2, <3>2 DEF Blocks, IsWrite
  <2>5. Blocks(q[i], b) <=> Counted(op) /\ Counts(op, b)
    <3> HIDE DEF at, b
    <3> QED BY <1>4, <2>2 DEF Blocks, Counts, IsWrite, Counted, SameOp, Good
  <2>6. A \in SUBSET (1..(k-1)) /\ k - 1 \in Int
    BY <2>1
  <2>7. CASE k < i
    <3>1. A = B
      BY <1>1, <2>1, <2>4, <2>7
    <3>2. s[k].wait = b.wait
      BY <1>1, <1>5, <2>1, <2>7
    <3> QED BY <2>3, <3>1, <3>2
  <2>8. CASE k >= i
    <3>1. at(k) = k + 1
      BY <1>1, <2>1, <2>8
    <3>2. B \in SUBSET (1..k) /\ IsFiniteSet(B) /\ Cardinality(B) \in Nat
      <4>1. B \in SUBSET (1..k)
        BY <2>1, <3>1
      <4> HIDE DEF B
      <4> QED BY <2>1, <4>1, SetUpTo
    <3>3. {at(j) : j \in A} = B \ {i}
      <4>1. ASSUME NEW j \in A PROVE at(j) \in B \ {i}
        BY <1>1, <2>1, <2>4, <3>1, <4>1
      <4>2. ASSUME NEW x \in B \ {i} PROVE \E j \in A : x = at(j)
        <5>1. CASE x < i
          <6>1. x \in 1..(k-1) /\ at(x) = x
            BY <1>1, <2>1, <2>8, <3>1, <5>1
          <6> QED BY <2>4, <6>1
        <5>2. CASE x > i
          <6>1. x - 1 \in 1..(k-1) /\ at(x - 1) = x
            BY <1>1, <2>1, <2>8, <3>1, <5>2
          <6> QED BY <2>4, <6>1
        <5> QED BY <1>1, <2>1, <3>1, <5>1, <5>2
      <4> QED BY <4>1, <4>2
    <3>4. Cardinality({at(j) : j \in A}) = Cardinality(A)
      <4>1. i \in Int
        BY <1>1
      <4> HIDE DEF A
      <4> QED BY <2>6, <4>1, SkipCard
    <3>5. Cardinality(B \ {i}) = IF i \in B THEN Cardinality(B) - 1 ELSE Cardinality(B)
      <4> HIDE DEF B
      <4> QED BY <3>2, FS_RemoveElement
    <3>6. i \in B <=> Blocks(q[i], b)
      BY <1>1, <2>1, <2>8, <3>1
    <3>7. s[k].wait = IF Counted(op) /\ Counts(op, b) THEN b.wait - 1 ELSE b.wait
      BY <1>5, <2>1, <2>8
    <3> HIDE DEF A, B, b
    <3>8. s[k].wait = Cardinality(A)
      BY <2>3, <2>5, <3>3, <3>4, <3>5, <3>6, <3>7
    <3> QED BY <3>8 DEF A
  <2> QED BY <1>1, <2>1, <2>7, <2>8
<1>8. QueueOk(s)
  BY <1>5, <1>6, <1>7 DEF QueueOk, Exact
<1> QED BY <1>8 DEF s, r

\* A flush made from cached buffers is a write with flush set.
LEMMA FlushOpFacts ==
  ASSUME NEW c, NEW units, NEW id
  PROVE  /\ IsOp(FlushOp(c, units, id))
         /\ FlushOp(c, units, id).kind = "write"
         /\ FlushOp(c, units, id).flush = TRUE
         /\ FlushOp(c, units, id).imm = FALSE
         /\ FlushOp(c, units, id).wait = 0
<1> DEFINE vals == [u \in Units |-> IF u \in units THEN c[u].val ELSE 0]
<1>1. FlushOp(c, units, id) = Op("write", id, units, vals, TRUE)
  BY DEF FlushOp
<1> HIDE DEF vals
<1> QED BY <1>1 DEF Op, IsOp, Fields

\* Flushes are pushed in front of the queue (unshift_op).
LEMMA PushOk ==
  ASSUME NEW q, QueueOk(q), NEW c, NEW runs, IsSeq(runs), NEW id
  PROVE  QueueOk(Unshift(q, c, runs, id))
<1> DEFINE n == Len(runs)
           each == [i \in DOMAIN runs |-> FlushOp(c, runs[i], id + i - 1)]
           front == Reverse(each)
           f == FlushOp(c, {}, id)
           w == IncWait(q, 1, f, n)
           r == front \o w
           Flush(x) == IsOp(x) /\ x.kind = "write" /\ x.flush = TRUE /\ x.imm = FALSE /\ x.wait = 0
<1>1. n \in Nat /\ DOMAIN runs = 1..n
  BY DomainFacts
<1> HIDE DEF n
<1>2. Flush(f)
  BY FlushOpFacts
<1>3. \A i \in 1..n : Flush(each[i])
  <2> TAKE i \in 1..n
  <2> DEFINE x == id + i - 1
             us == runs[i]
  <2>1. each[i] = FlushOp(c, us, x)
    BY <1>1
  <2> HIDE DEF each, x, us
  <2> QED BY <2>1, FlushOpFacts
<1>4. IsSeq(each) /\ Len(each) = n
  <2>1. DOMAIN each = 1..n /\ each = [i \in 1..n |-> each[i]]
    BY <1>1
  <2> HIDE DEF each
  <2> QED BY <1>1, <2>1, FunFacts
<1> HIDE DEF each
<1>5. IsSeq(front) /\ Len(front) = n
  <2>1. DOMAIN front = 1..n /\ front = [i \in 1..n |-> front[i]]
    BY <1>4 DEF Reverse
  <2> HIDE DEF front
  <2> QED BY <1>1, <2>1, FunFacts
<1>6. \A i \in 1..n : Flush(front[i])
  <2> TAKE i \in 1..n
  <2>1. front[i] = each[(n - i) + 1]
    BY <1>4 DEF Reverse
  <2>2. (n - i) + 1 \in 1..n
    BY <1>1
  <2> QED BY <1>3, <2>1, <2>2
<1> HIDE DEF front, f
<1>7. /\ IsSeq(q) /\ (\A k \in DOMAIN q : IsOp(q[k])) /\ 1 \in Int /\ n \in Int
      /\ Len(q) \in Nat /\ DOMAIN q = 1..Len(q)
  BY <1>1, DomainFacts DEF QueueOk, Good
<1>8. /\ IsSeq(w) /\ Len(w) = Len(q) /\ DOMAIN w = DOMAIN q
      /\ \A k \in DOMAIN q :
           /\ IsOp(w[k]) /\ w[k].kind = q[k].kind /\ w[k].flush = q[k].flush /\ w[k].imm = q[k].imm
           /\ w[k].wait = IF k >= 1 /\ Counts(f, q[k]) THEN q[k].wait + n ELSE q[k].wait
  BY <1>7, IncWaitFacts
<1> HIDE DEF w
<1>9. /\ IsSeq(r) /\ DOMAIN r = 1..(n + Len(q))
      /\ \A k \in 1..(n + Len(q)) : r[k] = IF k <= n THEN front[k] ELSE w[k - n]
  <2>1. IsSeq(r) /\ Len(r) = n + Len(q) /\ \A k \in DOMAIN r : r[k] = IF k <= n THEN front[k] ELSE w[k - n]
    BY <1>5, <1>8, JoinFacts
  <2> HIDE DEF r
  <2>2. DOMAIN r = 1..(n + Len(q))
    BY <2>1, DomainFacts
  <2> QED BY <2>1, <2>2
<1> HIDE DEF r
<1>10. \A k \in DOMAIN r : k <= n \/ (k - n \in 1..Len(q) /\ k - n \in DOMAIN q /\ k > n)
  BY <1>1, <1>7, <1>9
<1>11. \A k \in DOMAIN r : Good(r[k])
  <2> TAKE k \in DOMAIN r
  <2>1. CASE k <= n
    BY <1>1, <1>6, <1>7, <1>9, <2>1 DEF Good, Counted
  <2>2. CASE k > n
    BY <1>1, <1>7, <1>8, <1>9, <1>10, <2>2 DEF QueueOk, Good, IsWrite, Counted
  <2> QED BY <1>1, <1>7, <1>9, <2>1, <2>2
<1>12. ASSUME NEW k \in DOMAIN r, r[k].kind # "read", Counted(r[k])
       PROVE  r[k].wait = Cardinality({j \in 1..k-1 : Blocks(r[j], r[k])})
  <2> DEFINE A == {j \in 1..k-1 : Blocks(r[j], r[k])}
  <2>1. k \in 1..(n + Len(q)) /\ k \in Int
    BY <1>1, <1>7, <1>9
  <2>2. CASE k <= n
    <3>1. Flush(r[k]) /\ \A j \in 1..k-1 : Flush(r[j])
      BY <1>1, <1>6, <1>7, <1>9, <2>1, <2>2
    <3>2. A = {}
      BY <3>1 DEF Blocks, IsWrite
    <3> QED BY <3>1, <3>2, FS_EmptySet
  <2>3. CASE k > n
    <3> DEFINE m == k - n
               b == q[m]
               B == {j \in 1..m-1 : Blocks(q[j], b)}
               F == {j \in 1..n : Blocks(r[j], r[k])}
               C == {j + n : j \in B}
    <3>1. m \in 1..Len(q) /\ m \in DOMAIN q /\ m \in Int /\ k = m + n /\ r[k] = w[m]
      BY <1>1, <1>7, <1>9, <1>10, <2>1, <2>3
    <3> HIDE DEF m
    <3>2. /\ r[k].kind = b.kind /\ r[k].flush = b.flush /\ r[k].imm = b.imm /\ b.wait \in Int
          /\ r[k].wait = IF Counts(f, b) THEN b.wait + n ELSE b.wait
      BY <1>7, <1>8, <3>1 DEF IsOp
    <3>3. b.wait = Cardinality(B)
      BY <1>12, <3>1, <3>2 DEF QueueOk, Exact, Counted
    <3>4. \A j \in 1..n : Blocks(r[j], r[k]) <=> Counts(f, b)
      <4> TAKE j \in 1..n
      <4>1. Flush(r[j])
        BY <1>1, <1>6, <1>7, <1>9
      <4> HIDE DEF b
      <4> QED BY <1>2, <1>12, <3>2, <4>1 DEF Blocks, Counts, IsWrite
    <3>5. Cardinality(F) = IF Counts(f, b) THEN n ELSE 0
      <4>1. CASE Counts(f, b)
        <5>1. F = 1..n
          BY <3>4, <4>1
        <5> HIDE DEF F
        <5> QED BY <1>1, <4>1, <5>1, FS_Interval
      <4>2. CASE ~Counts(f, b)
        <5>1. F = {}
          BY <3>4, <4>2
        <5> HIDE DEF F
        <5> QED BY <4>2, <5>1, FS_EmptySet
      <4> QED BY <4>1, <4>2
    <3>6. B \in SUBSET (1..(m - 1)) /\ m - 1 \in Int /\ n \in Int
      BY <1>1, <3>1
    <3>7. Cardinality(C) = Cardinality(B)
      <4> HIDE DEF B
      <4> QED BY <3>6, ShiftCard
    <3>8. \A j \in 1..m-1 : Blocks(r[j + n], r[k]) <=> Blocks(q[j], b)
      <4> TAKE j \in 1..m-1
      <4>1. j \in DOMAIN q /\ j + n \in 1..(n + Len(q)) /\ j + n > n /\ (j + n) - n = j
        BY <1>1, <1>7, <3>1
      <4>2. r[j + n] = w[j]
        BY <1>1, <1>9, <4>1
      <4>3. r[j + n].kind = q[j].kind /\ r[j + n].flush = q[j].flush /\ r[j + n].imm = q[j].imm
        BY <1>8, <4>1, <4>2
      <4> HIDE DEF b
      <4> QED BY <3>2, <4>3 DEF Blocks, IsWrite
    <3>9. A = F \cup C /\ F \cap C = {}
      <4>1. ASSUME NEW j \in A PROVE j \in F \cup C
        <5>1. CASE j <= n
          BY <1>1, <3>1, <4>1, <5>1
        <5>2. CASE j > n
          <6>1. j - n \in 1..m-1 /\ (j - n) + n = j
            BY <1>1, <3>1, <4>1, <5>2
          <6> QED BY <3>8, <4>1, <6>1
        <5> QED BY <1>1, <3>1, <4>1, <5>1, <5>2
      <4>2. ASSUME NEW j \in F PROVE j \in A
        BY <1>1, <3>1, <4>2
      <4>3. ASSUME NEW j \in B PROVE j + n \in A /\ j + n > n
        BY <1>1, <3>1, <3>8, <4>3
      <4> QED BY <1>1, <4>1, <4>2, <4>3
    <3>10. IsFiniteSet(F) /\ IsFiniteSet(C)
      <4>1. F \in SUBSET (1..n) /\ C \in SUBSET (1..(m + n)) /\ n \in Int /\ m + n \in Int
        BY <1>1, <3>1
      <4> HIDE DEF F, C
      <4> QED BY <4>1, SetUpTo
    <3>11. Cardinality(A) = Cardinality(F) + Cardinality(C)
      <4> HIDE DEF A, F, C
      <4>1. Cardinality(F \cup C) = Cardinality(F) + Cardinality(C) - Cardinality({})
        BY <3>9, <3>10, FS_Union
      <4>2. Cardinality(F) \in Nat /\ Cardinality(C) \in Nat /\ Cardinality({}) = 0
        BY <3>10, FS_CardinalityType, FS_EmptySet
      <4> QED BY <3>9, <4>1, <4>2
    <3> HIDE DEF A, B, C, F, b
    <3>12. r[k].wait = Cardinality(A)
      BY <1>1, <3>2, <3>3, <3>5, <3>7, <3>11
    <3> QED BY <3>12 DEF A
  <2> QED BY <1>1, <2>1, <2>2, <2>3
<1>13. QueueOk(r)
  BY <1>9, <1>11, <1>12 DEF QueueOk, Exact
<1> QED BY <1>13 DEF r, w, f, front, each, n, Unshift

\* One operation, or every one, changes in fields the counters do not read.
LEMMA ReplaceOk ==
  ASSUME NEW q, QueueOk(q), NEW i \in DOMAIN q, NEW op, SameOp(q[i], op)
  PROVE  QueueOk([q EXCEPT ![i] = op])
<1> DEFINE r == [q EXCEPT ![i] = op]
<1>1. Len(q) \in Nat /\ DOMAIN q = 1..Len(q) /\ \A k \in DOMAIN q : IsOp(q[k])
  BY DomainFacts DEF QueueOk, Good
<1>2. DOMAIN r = 1..Len(q) /\ r = [k \in 1..Len(q) |-> r[k]]
  BY <1>1
<1>3. \A k \in DOMAIN q : SameOp(q[k], r[k])
  BY <1>1 DEF SameOp
<1> HIDE DEF r
<1>4. IsSeq(r) /\ DOMAIN r = DOMAIN q
  BY <1>1, <1>2, FunFacts
<1>5. QueueOk(r)
  BY <1>3, <1>4, SameQueue
<1> QED BY <1>5 DEF r

LEMMA MapOk ==
  ASSUME NEW q, QueueOk(q), NEW r, DOMAIN r = DOMAIN q, r = [k \in DOMAIN r |-> r[k]],
         \A k \in DOMAIN q : SameOp(q[k], r[k])
  PROVE  QueueOk(r)
<1>1. Len(q) \in Nat /\ DOMAIN q = 1..Len(q)
  BY DomainFacts DEF QueueOk
<1>2. IsSeq(r)
  BY <1>1, FunFacts
<1> QED BY <1>2, SameQueue

(***************************************************************************)
(* The work of the running handler                                         *)
(***************************************************************************)
LEMMA TodoJoin ==
  ASSUME NEW s, TodoOk(s), NEW t, TodoOk(t)
  PROVE  TodoOk(s \o t)
<1>1. IsSeq(s) /\ IsSeq(t)
  BY DEF TodoOk
<1>2. IsSeq(s \o t) /\ Len(s \o t) = Len(s) + Len(t)
      /\ \A i \in DOMAIN (s \o t) : (s \o t)[i] = IF i <= Len(s) THEN s[i] ELSE t[i - Len(s)]
  BY <1>1, JoinFacts
<1>3. /\ Len(s) \in Nat /\ DOMAIN s = 1..Len(s)
      /\ Len(t) \in Nat /\ DOMAIN t = 1..Len(t)
      /\ DOMAIN (s \o t) = 1..(Len(s) + Len(t))
  BY <1>1, <1>2, DomainFacts
<1>4. ASSUME NEW i \in DOMAIN (s \o t) PROVE EntryOk((s \o t)[i])
  <2>1. CASE i <= Len(s)
    BY <1>2, <1>3, <2>1 DEF TodoOk
  <2>2. CASE i > Len(s)
    <3>1. i - Len(s) \in DOMAIN t /\ ~(i <= Len(s))
      BY <1>3, <2>2
    <3> QED BY <1>2, <3>1 DEF TodoOk
  <2> QED BY <1>3, <2>1, <2>2
<1> QED BY <1>2, <1>4 DEF TodoOk

LEMMA TodoTail ==
  ASSUME NEW t, TodoOk(t), t # <<>>
  PROVE  TodoOk(Tail(t)) /\ EntryOk(Head(t))
<1>1. IsSeq(t)
  BY DEF TodoOk
<1> QED BY <1>1, TailFacts DEF TodoOk

LEMMA OneSeq ==
  ASSUME NEW e
  PROVE  IsSeq(<<e>>) /\ DOMAIN <<e>> = {1} /\ <<e>>[1] = e
<1>1. <<e>> \in Seq({e})
  OBVIOUS
<1>2. IsSeq(<<e>>)
  BY <1>1, SeqFacts
<1> QED BY <1>2

LEMMA NilSeq == IsSeq(<<>>) /\ DOMAIN <<>> = {}
<1>1. <<>> \in Seq({})
  OBVIOUS
<1>2. IsSeq(<<>>)
  BY <1>1, SeqFacts
<1> QED BY <1>2

LEMMA TodoOne ==
  ASSUME NEW e, EntryOk(e)
  PROVE  TodoOk(<<e>>)
BY OneSeq DEF TodoOk

LEMMA TodoNil == TodoOk(<<>>)
BY NilSeq DEF TodoOk

LEMMA GoEntry == \A id : EntryOk(Go(id)) /\ EntryOk(Visit(id))
BY DEF EntryOk, Go, Visit

LEMMA GoNowOk ==
  ASSUME NEW q, NEW op
  PROVE  TodoOk(GoNow(q, op))
<1>1. TodoOk(<<Go(op.id)>>)
  BY GoEntry, TodoOne
<1> QED BY <1>1, TodoNil DEF GoNow

LEMMA ContinueOpsOk ==
  ASSUME NEW q, IsSeq(q)
  PROVE  TodoOk(ContinueOps(q))
<1> DEFINE t == ContinueOps(q)
<1>1. Len(q) \in Nat /\ DOMAIN q = 1..Len(q)
  BY DomainFacts
<1>2. DOMAIN t = 1..Len(q) /\ t = [k \in 1..Len(q) |-> t[k]] /\ \A k \in DOMAIN t : EntryOk(t[k])
  BY <1>1, GoEntry DEF ContinueOps
<1> HIDE DEF t
<1>3. TodoOk(t)
  BY <1>1, <1>2, FunFacts DEF TodoOk
<1> QED BY <1>3 DEF t

LEMMA ReleasedOk ==
  ASSUME NEW q, IsSeq(q), NEW from, NEW a
  PROVE  TodoOk(Released(q, from, a))
<1> DEFINE free == {i \in DOMAIN q : i >= from /\ Counts(a, q[i]) /\ q[i].wait = 0}
           n == Cardinality(free)
           t == [k \in 1..n |-> Go(q[Nth(free, k)].id)]
<1>1. free \in SUBSET (1..Len(q)) /\ Len(q) \in Int
  BY DomainFacts
<1> HIDE DEF free
<1>2. n \in Nat
  BY <1>1, SetUpTo
<1> HIDE DEF n
<1>3. DOMAIN t = 1..n /\ t = [k \in 1..n |-> t[k]] /\ \A k \in DOMAIN t : EntryOk(t[k])
  BY GoEntry
<1>4. t = Released(q, from, a)
  BY DEF free, n, Released
<1> HIDE DEF t
<1>5. TodoOk(t)
  BY <1>2, <1>3, FunFacts DEF TodoOk
<1> QED BY <1>4, <1>5

LEMMA FreshAppend ==
  ASSUME NEW s, FreshAll(s), NEW op, Fresh(op)
  PROVE  FreshAll(Append(s, op))
<1> DEFINE S == {s[i] : i \in DOMAIN s} \cup {op}
<1>1. s \in Seq(S) /\ op \in S /\ Len(s) \in Nat /\ DOMAIN s = 1..Len(s)
  BY DomainFacts DEF FreshAll, IsSeq
<1>2. \A x \in S : Fresh(x)
  BY DEF FreshAll
<1> HIDE DEF S
<1>3. Append(s, op) \in Seq(S)
  BY <1>1
<1>4. IsSeq(Append(s, op)) /\ \A i \in DOMAIN Append(s, op) : Append(s, op)[i] \in S
  BY <1>3, SeqFacts
<1> QED BY <1>2, <1>4 DEF FreshAll

LEMMA FreshTail ==
  ASSUME NEW s, FreshAll(s), s # <<>>
  PROVE  FreshAll(Tail(s)) /\ Fresh(Head(s))
<1>1. IsSeq(s)
  BY DEF FreshAll
<1> QED BY <1>1, TailFacts DEF FreshAll

LEMMA FreshNil == FreshAll(<<>>)
BY NilSeq DEF FreshAll

LEMMA FreshIsGood == \A op : Fresh(op) => Good(op)
BY DEF Fresh, Good, Counted

(***************************************************************************)
(* Steps that keep what the counters depend on                             *)
(***************************************************************************)
LEMMA CheckedFacts ==
  ASSUME NEW op, IsOp(op)
  PROVE  /\ IsOp(Checked(op)) /\ Checked(op).kind = op.kind /\ Checked(op).flush = op.flush
         /\ Checked(op).wait = op.wait
BY DEF Checked, IsOp, Fields

LEMMA SliceOk ==
  ASSUME NEW op, IsOp(op)
  PROVE  SameOp(op, Slice(op))
BY DEF Slice, SameOp, IsOp, Fields

LEMMA RetriedOk ==
  ASSUME NEW op, IsOp(op)
  PROVE  SameOp(op, Retried(op))
<1>1. CASE op.reslice
  BY <1>1, SliceOk DEF Retried
<1>2. CASE ~op.reslice
  BY <1>2 DEF Retried, SameOp, IsOp, Fields
<1> QED BY <1>1, <1>2

LEMMA SendOk ==
  ASSUME NEW op, IsOp(op)
  PROVE  SameOp(op, Send(op))
BY DEF Send, SameOp, IsOp, Fields

LEMMA SameTwice ==
  ASSUME NEW a, NEW b, NEW c, SameOp(a, b), SameOp(b, c)
  PROVE  SameOp(a, c)
BY DEF SameOp

LEMMA BeforeSendOk ==
  ASSUME NEW op, IsOp(op)
  PROVE  SameOp(op, BeforeSend(op))
<1>1. SameOp(op, op)
  BY DEF SameOp
<1> QED BY <1>1, SliceOk, RetriedOk DEF BeforeSend

\* The state after a step keeps the invariant.  (No step changes setup.)
Kept == QueueOk(queue') /\ TodoOk(todo') /\ FreshAll(overflow')

\* An operation finishes, and the ones it held back are continued.
LEMMA EraseKeeps ==
  ASSUME CInv, todo # <<>>, NEW i \in DOMAIN queue, NEW op, SameOp(queue[i], op), NEW c, Erase(i, op, c)
  PROVE  Kept
<1> DEFINE q0 == RemoveAt(queue, i)
           q == IF Counted(op) THEN IncWait(q0, i, op, -1) ELSE q0
           rel == IF Counted(op) THEN Released(q, i, op) ELSE <<>>
           ovf == IF op.flush THEN <<[k |-> "ovf", rest |-> overflow]>> ELSE <<>>
<1>1. QueueOk(q)
  BY RemoveOk DEF CInv
<1>2. queue' = q /\ todo' = rel \o ovf \o Tail(todo) /\ overflow' = IF op.flush THEN <<>> ELSE overflow
  BY DEF Erase
<1> HIDE DEF q
<1>3. TodoOk(rel)
  BY <1>1, ReleasedOk, TodoNil DEF QueueOk
<1>4. TodoOk(ovf)
  <2>1. EntryOk([k |-> "ovf", rest |-> overflow])
    BY DEF EntryOk, CInv
  <2> QED BY <2>1, TodoOne, TodoNil
<1>5. TodoOk(Tail(todo))
  BY TodoTail DEF CInv
<1> HIDE DEF rel, ovf
<1>6. TodoOk(rel \o ovf)
  BY <1>3, <1>4, TodoJoin
<1>7. TodoOk(rel \o ovf \o Tail(todo))
  BY <1>5, <1>6, TodoJoin
<1>8. FreshAll(overflow')
  BY <1>2, FreshNil DEF CInv
<1> QED BY <1>1, <1>2, <1>7, <1>8 DEF Kept

LEMMA ReplaceKeeps ==
  ASSUME CInv, todo # <<>>, NEW i \in DOMAIN queue, NEW op, SameOp(queue[i], op),
         queue' = [queue EXCEPT ![i] = op], todo' = Tail(todo), UNCHANGED overflow
  PROVE  Kept
<1>1. QueueOk(queue')
  BY ReplaceOk DEF CInv
<1> QED BY <1>1, TodoTail DEF CInv, Kept

\* continue_rw and continue_sync, in each of their states
LEMMA ContinueRwKeeps ==
  ASSUME CInv, todo # <<>>, NEW i \in DOMAIN queue, ContinueRw(i)
  PROVE  Kept
<1> DEFINE was == queue[i]
           ready == BeforeSend(was)
           op == IF Sends(was) THEN Send(ready) ELSE [was EXCEPT !.st = 2]
<1>1. IsOp(was)
  BY DEF CInv, QueueOk, Good
<1>2. SameOp(was, was)
  BY <1>1 DEF SameOp
<1>3. SameOp(was, op)
  <2>1. SameOp(was, ready) /\ IsOp(ready)
    BY <1>1, BeforeSendOk DEF SameOp
  <2>2. SameOp(ready, Send(ready))
    BY <2>1, SendOk
  <2>3. SameOp(was, Send(ready))
    BY <2>1, <2>2, SameTwice
  <2>4. SameOp(was, [was EXCEPT !.st = 2])
    BY <1>1 DEF SameOp, IsOp, Fields
  <2> QED BY <2>3, <2>4
<1>4. \/ Erase(i, was, cache)
      \/ \E c : Erase(i, op, c)
      \/ queue' = [queue EXCEPT ![i] = op] /\ todo' = Tail(todo) /\ UNCHANGED overflow
  BY DEF ContinueRw, Finish
<1> HIDE DEF op, was
<1>5. CASE Erase(i, was, cache)
  BY <1>2, <1>5, EraseKeeps DEF was
<1>6. CASE \E c : Erase(i, op, c)
  BY <1>3, <1>6, EraseKeeps DEF was
<1>7. CASE queue' = [queue EXCEPT ![i] = op] /\ todo' = Tail(todo) /\ UNCHANGED overflow
  BY <1>3, <1>7, ReplaceKeeps DEF was
<1> QED BY <1>4, <1>5, <1>6, <1>7

LEMMA ContinueSyncKeeps ==
  ASSUME CInv, todo # <<>>, NEW i \in DOMAIN queue, ContinueSync(i)
  PROVE  Kept
<1> DEFINE was == queue[i]
           sent == [was EXCEPT !.parts = [o \in Connected |-> [s |-> "sent", o |-> o, after |-> {}]], !.st = 1]
           again == [was EXCEPT !.parts = NoParts, !.ret = "ok", !.st = 0]
<1>1. IsOp(was)
  BY DEF CInv, QueueOk, Good
<1>2. SameOp(was, was) /\ SameOp(was, sent) /\ SameOp(was, again)
  BY <1>1 DEF SameOp, IsOp, Fields
<1>3. \/ \E c : Erase(i, was, c)
      \/ \E c : Erase(i, sent, c)
      \/ queue' = [queue EXCEPT ![i] = sent] /\ todo' = Tail(todo) /\ UNCHANGED overflow
      \/ queue' = [queue EXCEPT ![i] = again] /\ todo' = Tail(todo) /\ UNCHANGED overflow
      \/ queue' = queue /\ todo' = Tail(todo) /\ UNCHANGED overflow
  BY DEF ContinueSync, SyncEnd, SyncSend
<1> HIDE DEF sent, again, was
<1>4. CASE \E c : Erase(i, was, c)
  BY <1>2, <1>4, EraseKeeps DEF was
<1>5. CASE \E c : Erase(i, sent, c)
  BY <1>2, <1>5, EraseKeeps DEF was
<1>6. CASE queue' = [queue EXCEPT ![i] = sent] /\ todo' = Tail(todo) /\ UNCHANGED overflow
  BY <1>2, <1>6, ReplaceKeeps DEF was
<1>7. CASE queue' = [queue EXCEPT ![i] = again] /\ todo' = Tail(todo) /\ UNCHANGED overflow
  BY <1>2, <1>7, ReplaceKeeps DEF was
<1>8. CASE queue' = queue /\ todo' = Tail(todo) /\ UNCHANGED overflow
  BY <1>8, TodoTail DEF CInv, Kept
<1> QED BY <1>3, <1>4, <1>5, <1>6, <1>7, <1>8

LEMMA AppendKeeps ==
  ASSUME CInv, todo # <<>>, NEW op, Good(op), NEW rest, TodoOk(rest),
         queue' = Append2(queue, op), todo' = GoNow(queue, op) \o rest, UNCHANGED overflow
  PROVE  Kept
<1>1. QueueOk(queue')
  BY AppendOk DEF CInv
<1>2. TodoOk(todo')
  BY GoNowOk, TodoJoin
<1> QED BY <1>1, <1>2 DEF CInv, Kept

LEMMA EntriesOk ==
  /\ EntryOk([k |-> "limit"]) /\ EntryOk([k |-> "ack"])
  /\ \A all : EntryOk(Writeback(all))
  /\ \A op : Good(op) => EntryOk(Add(op))
BY DEF EntryOk, Writeback, Add

LEMMA TwoEntries ==
  ASSUME NEW a, EntryOk(a), NEW b, EntryOk(b), NEW t, TodoOk(t)
  PROVE  TodoOk(<<a, b>> \o t) /\ TodoOk(<<a, b>>)
<1>1. <<a, b>> = <<a>> \o <<b>>
  OBVIOUS
<1>2. TodoOk(<<a>> \o <<b>>)
  BY TodoOne, TodoJoin
<1> QED BY <1>1, <1>2, TodoJoin

\* start_writebacks takes the list of positions.
LEMMA WritebackKeeps ==
  ASSUME CInv, todo # <<>>, WritebackStep(Head(todo)), UNCHANGED <<queue, overflow>>
  PROVE  Kept
<1> DEFINE e == Head(todo)
           f == [k |-> "list", all |-> e.all, end |-> FALSE, rest |-> wbq]
<1>1. TodoOk(Tail(todo))
  BY TodoTail DEF CInv
<1>2. CASE wbq = <<>>
  <2>1. todo' = Tail(todo)
    BY <1>2 DEF WritebackStep
  <2> QED BY <1>1, <2>1 DEF CInv, Kept
<1>3. CASE wbq # <<>>
  <2>1. todo' = <<f>> \o Tail(todo)
    BY <1>3 DEF WritebackStep
  <2>2. EntryOk(f)
    BY <1>3 DEF CInv, EntryOk
  <2> HIDE DEF f
  <2>3. TodoOk(<<f>> \o Tail(todo))
    BY <1>1, <2>2, TodoOne, TodoJoin
  <2> QED BY <2>1, <2>3 DEF CInv, Kept
<1> QED BY <1>2, <1>3

\* The flush of a run is about to be added, after a SYNC or not.
LEMMA ListKeeps ==
  ASSUME CInv, todo # <<>>, Head(todo).k = "list", ListStep(Head(todo)), UNCHANGED <<queue, overflow>>
  PROVE  Kept
<1> DEFINE e == Head(todo)
           sync == Op("sync", nextId + 1, {}, <<>>, TRUE)
           two == <<Writeback(TRUE), Add(sync)>>
<1>1. TodoOk(Tail(todo)) /\ EntryOk(e)
  BY TodoTail DEF CInv
<1>2. setup.wb /\ DOMAIN e = {"k", "all", "end", "rest"} /\ e.k = "list"
  BY <1>1 DEF EntryOk
<1>3. PICK end, units :
        LET f == [e EXCEPT !.rest = Tail(e.rest), !.end = end]
            then == <<f>> \o Tail(todo)
            op == Checked(FlushOp(cache, units, nextId))
        IN  \/ todo' = Tail(todo)
            \/ todo' = then
            \/ todo' = two \o <<Add(op)>> \o then
            \/ todo' = <<>> \o <<Add(op)>> \o then
  BY DEF ListStep
<1> DEFINE f == [e EXCEPT !.rest = Tail(e.rest), !.end = end]
           then == <<f>> \o Tail(todo)
           op == Checked(FlushOp(cache, units, nextId))
<1>4. EntryOk(f)
  BY <1>2 DEF EntryOk
<1>5. Good(op)
  BY <1>2, FlushOpFacts, CheckedFacts DEF Good, Counted
<1>6. Good(sync)
  BY DEF Good, Op, IsOp, Fields, Counted
<1> HIDE DEF f, op, sync, e
<1>7. TodoOk(then) /\ TodoOk(two) /\ TodoOk(<<Add(op)>>) /\ TodoOk(<<>>)
  BY <1>1, <1>4, <1>5, <1>6, EntriesOk, TwoEntries, TodoOne, TodoNil, TodoJoin
<1> HIDE DEF then, two
<1>8. TodoOk(two \o <<Add(op)>> \o then) /\ TodoOk(<<>> \o <<Add(op)>> \o then)
  <2>1. TodoOk(two \o <<Add(op)>>) /\ TodoOk(<<>> \o <<Add(op)>>)
    BY <1>7, TodoJoin
  <2> QED BY <1>7, <2>1, TodoJoin
<1>9. TodoOk(todo')
  BY <1>1, <1>3, <1>7, <1>8 DEF f, op, then, e
<1> QED BY <1>9 DEF CInv, Kept

\* The first request of the overflow is taken, or the list is put back.
LEMMA OverflowKeeps ==
  ASSUME CInv, todo # <<>>, Head(todo).k = "ovf", OverflowStep(Head(todo)), UNCHANGED queue
  PROVE  Kept
<1> DEFINE e == Head(todo)
           op == Head(e.rest)
           e2 == [e EXCEPT !.rest = Tail(e.rest)]
           then == <<e2>> \o Tail(todo)
<1>1. TodoOk(Tail(todo)) /\ EntryOk(e)
  BY TodoTail DEF CInv
<1>2. FreshAll(e.rest) /\ DOMAIN e = {"k", "rest"}
  BY <1>1 DEF EntryOk
<1>3. CASE e.rest = <<>> \/ Active >= setup.iodepth
  <2>1. todo' = Tail(todo) /\ overflow' = e.rest
    BY <1>3 DEF OverflowStep
  <2> QED BY <1>1, <1>2, <2>1 DEF CInv, Kept
<1>4. CASE ~(e.rest = <<>> \/ Active >= setup.iodepth)
  <2>1. e.rest # <<>>
    BY <1>4
  <2>2. FreshAll(Tail(e.rest)) /\ Fresh(op)
    BY <1>2, <2>1, FreshTail
  <2>3. EntryOk(e2)
    BY <1>2, <2>2 DEF EntryOk
  <2>4. TodoOk(then)
    BY <1>1, <2>3, TodoOne, TodoJoin
  <2>5. /\ overflow' = overflow
        /\ \/ todo' = <<[k |-> "limit"], [k |-> "ack"]>> \o then
           \/ todo' = <<Writeback(TRUE), Add(op)>> \o then
    BY <1>4 DEF OverflowStep, CopyDirty
  <2> HIDE DEF op, then
  <2>6. TodoOk(todo')
    BY <2>2, <2>4, <2>5, EntriesOk, FreshIsGood, TwoEntries
  <2> QED BY <2>5, <2>6 DEF CInv, Kept
<1> QED BY <1>3, <1>4

\* One step of the running handler
LEMMA StepKeeps ==
  ASSUME CInv, Step
  PROVE  Kept
<1> DEFINE e == Head(todo)
<1>1. todo # <<>>
  BY DEF Step, Idle
<1>2. TodoOk(Tail(todo)) /\ EntryOk(e)
  BY <1>1, TodoTail DEF CInv
<1>3. \/ UNCHANGED <<queue, overflow>> /\ todo' = Tail(todo)
      \/ \E i \in DOMAIN queue : ContinueSync(i) \/ ContinueRw(i)
      \/ WritebackStep(e) /\ UNCHANGED <<queue, overflow>>
      \/ e.k = "list" /\ ListStep(e) /\ UNCHANGED <<queue, overflow>>
      \/ LimitStep /\ UNCHANGED <<queue, overflow>>
      \/ e.k = "add" /\ AddStep(e.op) /\ UNCHANGED overflow
      \/ e.k = "ovf" /\ OverflowStep(e) /\ UNCHANGED queue
  <2>1. ASSUME e.id \in Ids(queue) PROVE Pos(queue, e.id) \in DOMAIN queue
    BY <2>1 DEF Ids, Pos
  <2> QED BY <2>1 DEF Step
<1>4. CASE UNCHANGED <<queue, overflow>> /\ todo' = Tail(todo)
  BY <1>2, <1>4 DEF CInv, Kept
<1>5. CASE \E i \in DOMAIN queue : ContinueSync(i) \/ ContinueRw(i)
  BY <1>1, <1>5, ContinueSyncKeeps, ContinueRwKeeps
<1>6. CASE WritebackStep(e) /\ UNCHANGED <<queue, overflow>>
  BY <1>1, <1>6, WritebackKeeps
<1>10. CASE e.k = "list" /\ ListStep(e) /\ UNCHANGED <<queue, overflow>>
  BY <1>1, <1>10, ListKeeps
<1>7. CASE LimitStep /\ UNCHANGED <<queue, overflow>>
  <2>1. TodoOk(<<Writeback(FALSE)>> \o todo)
    BY EntriesOk, TodoOne, TodoJoin DEF CInv
  <2>2. TodoOk(todo')
    BY <1>2, <1>7, <2>1 DEF LimitStep
  <2> QED BY <1>7, <2>2 DEF LimitStep, CInv, Kept
<1>8. CASE e.k = "add" /\ AddStep(e.op) /\ UNCHANGED overflow
  <2>1. Good(e.op)
    BY <1>2, <1>8 DEF EntryOk
  <2> QED BY <1>1, <1>2, <1>8, <2>1, AppendKeeps DEF AddStep
<1>9. CASE e.k = "ovf" /\ OverflowStep(e) /\ UNCHANGED queue
  BY <1>1, <1>9, OverflowKeeps
<1> QED BY <1>3, <1>4, <1>5, <1>6, <1>7, <1>8, <1>9, <1>10

(***************************************************************************)
(* The user's requests                                                     *)
(***************************************************************************)
\* execute, for a write
LEMMA UserWriteKeeps ==
  ASSUME CInv, NEW units, UserWrite(units)
  PROVE  Kept
<1> DEFINE n == setup.writes - left.writes + 1
           vals == [u \in Units |-> IF u \in units THEN n ELSE 0]
           new == Op("write", nextId, units, vals, FALSE)
           op == Checked(new)
           sync == Op("sync", nextId + 1, {}, <<>>, TRUE)
           q == IF SyncFirst(op) THEN Append2(queue, sync) ELSE queue
           first == IF SyncFirst(op) THEN GoNow(queue, sync) ELSE <<>>
<1>1. Write(new)
  BY DEF UserWrite
<1> HIDE DEF vals
<1>2. IsOp(op) /\ op.kind = "write" /\ op.flush = FALSE /\ new.flush = FALSE
  <2>1. IsOp(new) /\ new.kind = "write" /\ new.flush = FALSE
    BY DEF Op, IsOp, Fields
  <2> HIDE DEF new
  <2> QED BY <2>1, CheckedFacts
<1>3. Good(op)
  BY <1>2 DEF Good, IsWrite
<1>4. Good(sync)
  BY DEF Good, Op, IsOp, Fields, Counted
<1> HIDE DEF new, sync
<1>5. CASE Buffered(new)
  <2>1. Fresh(op)
    BY <1>2, <1>5 DEF Fresh, Buffered
  <2>2. \/ overflow' = Append(overflow, op) /\ UNCHANGED <<queue, todo>>
        \/ todo' = <<[k |-> "limit"], [k |-> "ack"]>> \o todo /\ UNCHANGED <<queue, overflow>>
    BY <1>1, <1>5 DEF Write, WriteBuffered, CopyDirty
  <2>3. CASE overflow' = Append(overflow, op) /\ UNCHANGED <<queue, todo>>
    BY <2>1, <2>3, FreshAppend DEF CInv, Kept
  <2>4. CASE todo' = <<[k |-> "limit"], [k |-> "ack"]>> \o todo /\ UNCHANGED <<queue, overflow>>
    BY <2>4, EntriesOk, TwoEntries DEF CInv, Kept
  <2> QED BY <2>2, <2>3, <2>4
<1>6. CASE ~Buffered(new)
  <2>1. WriteThrough(op)
    BY <1>1, <1>6 DEF Write
  <2>2. queue' = Append2(q, op) /\ todo' = first \o GoNow(q, op) \o todo /\ overflow' = overflow
    BY <2>1 DEF WriteThrough, sync
  <2>3. QueueOk(q)
    BY <1>4, AppendOk DEF CInv
  <2>4. TodoOk(first)
    BY GoNowOk, TodoNil
  <2> HIDE DEF op, q, first
  <2>5. QueueOk(queue')
    BY <1>3, <2>2, <2>3, AppendOk
  <2>6. TodoOk(first \o GoNow(q, op))
    BY <2>4, GoNowOk, TodoJoin
  <2>7. TodoOk(todo')
    BY <2>2, <2>6, TodoJoin DEF CInv
  <2> QED BY <2>2, <2>5, <2>7 DEF CInv, Kept
<1> QED BY <1>5, <1>6

LEMMA UserSyncKeeps ==
  ASSUME CInv, UserSync
  PROVE  Kept
<1> DEFINE op == SyncOp(nextId)
<1>1. Fresh(op)
  BY DEF SyncOp, Op, Fresh, IsOp, Fields, IsWrite
<1>2. /\ queue' = queue
      /\ \/ overflow' = Append(overflow, op) /\ todo' = todo
         \/ todo' = <<Writeback(TRUE), Add(op)>> \o todo /\ overflow' = overflow
  BY DEF UserSync, StartSync
<1> HIDE DEF op
<1>3. CASE overflow' = Append(overflow, op) /\ todo' = todo
  BY <1>1, <1>2, <1>3, FreshAppend DEF CInv, Kept
<1>4. CASE todo' = <<Writeback(TRUE), Add(op)>> \o todo /\ overflow' = overflow
  BY <1>1, <1>2, <1>4, EntriesOk, FreshIsGood, TwoEntries DEF CInv, Kept
<1> QED BY <1>2, <1>3, <1>4

LEMMA UserReadKeeps ==
  ASSUME CInv, NEW units, UserRead(units)
  PROVE  Kept
<1> DEFINE new == [Op("read", nextId, units, [u \in Units |-> 0], FALSE) EXCEPT !.floor = acked]
           op == Checked(new)
<1>1. queue' = Append2(queue, op) /\ todo' = <<Go(nextId)>> \o todo /\ overflow' = overflow
  BY DEF UserRead
<1>2. IsOp(new) /\ new.kind = "read"
  BY DEF Op, IsOp, Fields
<1> HIDE DEF new
<1>3. Good(op)
  BY <1>2, CheckedFacts DEF Good, IsWrite
<1> HIDE DEF op
<1>4. QueueOk(queue')
  BY <1>1, <1>3, AppendOk DEF CInv
<1>5. TodoOk(todo')
  BY <1>1, GoEntry, TodoOne, TodoJoin DEF CInv
<1> QED BY <1>1, <1>4, <1>5 DEF CInv, Kept

(***************************************************************************)
(* Answers, connections, timers, the cluster state                         *)
(***************************************************************************)
LEMMA RunsSeq ==
  ASSUME NEW S \in SUBSET Units, NEW key
  PROVE  IsSeq(Runs(S, key))
<1> DEFINE starts == {u \in S : ~\E v \in S : v = u - 1 /\ Adjacent(u, v) /\ key[u] = key[v]}
           n == Cardinality(starts)
<1>1. starts \in SUBSET Units
  OBVIOUS
<1>2. DOMAIN Runs(S, key) = 1..n /\ Runs(S, key) = [i \in 1..n |-> Runs(S, key)[i]]
  BY DEF Runs
<1> HIDE DEF starts
<1>3. n \in Nat
  BY <1>1, UnitsAssumption, FS_Subset, FS_CardinalityType
<1> QED BY <1>2, <1>3, FunFacts

LEMMA RepeatFacts ==
  ASSUME NEW q, QueueOk(q), NEW c, NEW affected
  PROVE  QueueOk(Repeat(q, c, affected).queue) /\ TodoOk(Repeat(q, c, affected).todo)
<1> DEFINE runs == Runs(Obsolete(c, affected), AllOne)
           t == [i \in DOMAIN runs |-> Go(nextId + i - 1)]
<1>1. IsSeq(runs)
  BY RunsSeq DEF Obsolete
<1>2. /\ Repeat(q, c, affected).queue = Unshift(q, c, runs, nextId)
      /\ Repeat(q, c, affected).todo = t
  BY DEF Repeat
<1> HIDE DEF runs
<1>3. QueueOk(Unshift(q, c, runs, nextId))
  BY <1>1, PushOk
<1>4. Len(runs) \in Nat /\ DOMAIN runs = 1..Len(runs)
  BY <1>1, DomainFacts
<1>5. DOMAIN t = 1..Len(runs) /\ t = [i \in 1..Len(runs) |-> t[i]] /\ \A i \in DOMAIN t : EntryOk(t[i])
  BY <1>4, GoEntry
<1> HIDE DEF t
<1>6. TodoOk(t)
  BY <1>4, <1>5, FunFacts DEF TodoOk
<1> QED BY <1>2, <1>3, <1>6

LEMMA StopClientKeeps ==
  ASSUME CInv, NEW o, NEW q, QueueOk(q), StopClient(o, q), UNCHANGED overflow
  PROVE  Kept
<1> DEFINE lost == [i \in DOMAIN q |-> [q[i] EXCEPT !.parts =
                     [g \in DOMAIN q[i].parts |->
                        IF q[i].parts[g].o = o /\ InFlight(q[i].parts[g])
                          THEN [q[i].parts[g] EXCEPT !.s = "lost"] ELSE q[i].parts[g]]]]
           affected == {u \in Units : view[setup.obj[u]] = o}
           r == Repeat(lost, cache, affected)
<1>1. /\ queue' = r.queue
      /\ todo' = r.todo \o (IF r.todo = <<>> THEN <<>> ELSE ContinueOps(r.queue))
  BY DEF StopClient
<1>2. QueueOk(lost)
  <2>1. DOMAIN lost = DOMAIN q /\ lost = [i \in DOMAIN lost |-> lost[i]]
    OBVIOUS
  <2>2. \A i \in DOMAIN q : IsOp(q[i])
    BY DEF QueueOk, Good
  <2>3. \A i \in DOMAIN q : SameOp(q[i], lost[i])
    BY <2>2 DEF SameOp, IsOp, Fields
  <2> HIDE DEF lost
  <2> QED BY <2>1, <2>3, MapOk
<1> HIDE DEF lost
<1>3. QueueOk(r.queue) /\ TodoOk(r.todo)
  BY <1>2, RepeatFacts
<1> HIDE DEF r
<1>4. TodoOk(ContinueOps(r.queue))
  BY <1>3, ContinueOpsOk DEF QueueOk
<1>5. TodoOk(todo')
  BY <1>1, <1>3, <1>4, TodoNil, TodoJoin
<1> QED BY <1>1, <1>3, <1>5 DEF CInv, Kept

LEMMA GoIfEndedOk ==
  ASSUME NEW op
  PROVE  TodoOk(GoIfEnded(op))
<1>1. TodoOk(<<Go(op.id)>>)
  BY GoEntry, TodoOne
<1> QED BY <1>1, TodoNil DEF GoIfEnded

LEMMA ReplyKeeps ==
  ASSUME CInv, NEW i \in DOMAIN queue, NEW g, Reply(i, g)
  PROVE  Kept
<1> DEFINE was == queue[i]
<1>1. IsOp(was)
  BY DEF CInv, QueueOk, Good
<1>2. overflow' = overflow
  BY DEF Reply
<1>3. CASE PartOk(i, g)
  <2> DEFINE op == [was EXCEPT !.parts[g].s = "done"]
  <2>1. SameOp(was, op)
    BY <1>1 DEF SameOp, IsOp, Fields
  <2>2. queue' = [queue EXCEPT ![i] = op] /\ todo' = GoIfEnded(op)
    BY <1>3 DEF PartOk
  <2> HIDE DEF op
  <2>3. QueueOk(queue')
    BY <2>1, <2>2, ReplaceOk DEF CInv
  <2> QED BY <1>2, <2>2, <2>3, GoIfEndedOk DEF CInv, Kept
<1>4. ASSUME NEW x, PartError(i, g, x) PROVE Kept
  <2> DEFINE ret == WorseError(was.ret, x)
             op == [was EXCEPT !.parts[g].s = "error", !.ret = ret,
                               !.retry = @ \/ ret = "EPIPE" \/ (ret = "EIO" /\ setup.retryEio)]
             q == [queue EXCEPT ![i] = op]
  <2>1. SameOp(was, op)
    BY <1>1 DEF SameOp, IsOp, Fields
  <2>2. \/ StopClient(op.parts[g].o, q)
        \/ queue' = q /\ todo' = GoIfEnded(op)
    BY <1>4 DEF PartError
  <2> HIDE DEF op
  <2>3. QueueOk(q)
    BY <2>1, ReplaceOk DEF CInv
  <2> HIDE DEF q
  <2>4. CASE StopClient(op.parts[g].o, q)
    BY <1>2, <2>3, <2>4, StopClientKeeps
  <2>5. CASE queue' = q /\ todo' = GoIfEnded(op)
    BY <1>2, <2>3, <2>5, GoIfEndedOk DEF CInv, Kept
  <2> QED BY <2>2, <2>4, <2>5
<1> QED BY <1>3, <1>4 DEF Reply

LEMMA MapKeeps ==
  ASSUME CInv, NEW r, queue' = r, DOMAIN r = DOMAIN queue, r = [k \in DOMAIN r |-> r[k]],
         \A k \in DOMAIN queue : SameOp(queue[k], r[k]),
         todo' = ContinueOps(queue) \/ todo' = todo, UNCHANGED overflow
  PROVE  Kept
<1>1. QueueOk(queue')
  BY MapOk DEF CInv
<1>2. TodoOk(ContinueOps(queue))
  BY ContinueOpsOk DEF CInv, QueueOk
<1> QED BY <1>1, <1>2 DEF CInv, Kept

LEMMA SameKeeps ==
  ASSUME CInv, queue' = queue, todo' = ContinueOps(queue) \/ todo' = todo, UNCHANGED overflow
  PROVE  Kept
<1>1. TodoOk(ContinueOps(queue))
  BY ContinueOpsOk DEF CInv, QueueOk
<1> QED BY <1>1 DEF CInv, Kept

LEMMA TimerKeeps ==
  ASSUME CInv, NEW S, Timer(S)
  PROVE  Kept
<1> DEFINE r == [i \in DOMAIN queue |-> IF i \in S THEN [queue[i] EXCEPT !.retry = FALSE] ELSE queue[i]]
<1>1. queue' = r /\ todo' = ContinueOps(queue) /\ overflow' = overflow
  BY DEF Timer
<1>2. \A k \in DOMAIN queue : IsOp(queue[k])
  BY DEF CInv, QueueOk, Good
<1>3. \A k \in DOMAIN queue : SameOp(queue[k], r[k])
  BY <1>2 DEF SameOp, IsOp, Fields
<1>4. DOMAIN r = DOMAIN queue /\ r = [k \in DOMAIN r |-> r[k]]
  OBVIOUS
<1> HIDE DEF r
<1> QED BY <1>1, <1>3, <1>4, MapKeeps

LEMMA ResliceKeeps ==
  ASSUME CInv, Reslice
  PROVE  Kept
<1> DEFINE r == [i \in DOMAIN queue |-> IF queue[i].kind = "sync" THEN queue[i] ELSE [queue[i] EXCEPT !.reslice = TRUE]]
<1>1. queue' = r /\ todo' = ContinueOps(queue) /\ overflow' = overflow
  BY DEF Reslice
<1>2. \A k \in DOMAIN queue : IsOp(queue[k])
  BY DEF CInv, QueueOk, Good
<1>3. \A k \in DOMAIN queue : SameOp(queue[k], r[k])
  BY <1>2 DEF SameOp, IsOp, Fields
<1>4. DOMAIN r = DOMAIN queue /\ r = [k \in DOMAIN r |-> r[k]]
  OBVIOUS
<1> HIDE DEF r
<1> QED BY <1>1, <1>3, <1>4, MapKeeps

LEMMA SeeKeeps ==
  ASSUME CInv, NEW g, See(g)
  PROVE  Kept
<1> DEFINE r == Repeat(queue, cache, UnitsOf(g))
<1>1. queue' = r.queue /\ todo' = r.todo \o ContinueOps(r.queue) /\ overflow' = overflow
  BY DEF See
<1>2. QueueOk(r.queue) /\ TodoOk(r.todo)
  BY RepeatFacts DEF CInv
<1> HIDE DEF r
<1>3. TodoOk(ContinueOps(r.queue))
  BY <1>2, ContinueOpsOk DEF QueueOk
<1>4. TodoOk(todo')
  BY <1>1, <1>2, <1>3, TodoJoin
<1> QED BY <1>1, <1>2, <1>4 DEF CInv, Kept

(***************************************************************************)
(* The OSDs                                                                *)
(***************************************************************************)
LEMMA AnswerKeeps ==
  ASSUME CInv, NEW i \in DOMAIN queue, NEW g, NEW s, Answer(i, g, s), UNCHANGED <<todo, overflow>>
  PROVE  Kept
<1> DEFINE op == [queue[i] EXCEPT !.parts[g].s = s]
<1>1. queue' = [queue EXCEPT ![i] = op]
  BY DEF Answer
<1>2. IsOp(queue[i])
  BY DEF CInv, QueueOk, Good
<1>3. SameOp(queue[i], op)
  BY <1>2 DEF SameOp, IsOp, Fields
<1> HIDE DEF op
<1> QED BY <1>1, <1>3, ReplaceOk DEF CInv, Kept

LEMMA ExecReadKeeps ==
  ASSUME CInv, NEW i \in DOMAIN queue, NEW g, ExecRead(i, g)
  PROVE  Kept
<1> DEFINE was == queue[i]
           op == [was EXCEPT !.parts[g].s = "ok",
                             !.vals = [u \in Units |-> IF u \in was.miss \cap UnitsOf(g) THEN vol[u] ELSE @[u]]]
<1>1. queue' = [queue EXCEPT ![i] = op] /\ UNCHANGED <<todo, overflow>>
  BY DEF ExecRead, OtherThanOsd
<1>2. IsOp(was)
  BY DEF CInv, QueueOk, Good
<1>3. SameOp(was, op)
  BY <1>2 DEF SameOp, IsOp, Fields
<1> HIDE DEF op
<1> QED BY <1>1, <1>3, ReplaceOk DEF CInv, Kept

(***************************************************************************)
(* The invariant                                                           *)
(***************************************************************************)
LEMMA WbqKept ==
  ASSUME CInv, Next, ~setup.wb
  PROVE  wbq' = <<>>
<1>1. wbq = <<>>
  BY DEF CInv
<1>2. CASE User
  <2>1. ASSUME NEW units, UserWrite(units) PROVE wbq' = wbq
    BY <2>1 DEF UserWrite, Write, Buffered, WriteThrough
  <2> QED BY <1>1, <1>2, <2>1 DEF User, UserRead, UserSync
<1>3. CASE Step
  <2>1. todo # <<>>
    BY <1>3 DEF Step, Idle
  <2>2. EntryOk(Head(todo))
    BY <2>1, TodoTail DEF CInv
  <2>3. ASSUME Head(todo).k = "ovf", OverflowStep(Head(todo)) PROVE wbq' = wbq
    <3> DEFINE e == Head(todo)
    <3>1. FreshAll(e.rest)
      BY <2>2, <2>3 DEF EntryOk
    <3>2. CASE e.rest = <<>> \/ Active >= setup.iodepth
      BY <2>3, <3>2 DEF OverflowStep
    <3>3. CASE ~(e.rest = <<>> \/ Active >= setup.iodepth)
      <4>1. Fresh(Head(e.rest))
        BY <3>1, <3>3, FreshTail
      <4>2. ~IsWrite(Head(e.rest))
        BY <4>1 DEF Fresh
      <4> QED BY <2>3, <3>3, <4>2 DEF OverflowStep
    <3> QED BY <3>2, <3>3
  <2>4. ASSUME NEW e, WritebackStep(e) PROVE wbq' = wbq
    BY <1>1, <2>4 DEF WritebackStep
  <2>5. Head(todo).k # "list"
    BY <2>2 DEF EntryOk
  <2> QED BY <1>1, <1>3, <2>3, <2>4, <2>5 DEF Step
<1>4. CASE Client /\ ~Step
  BY <1>1, <1>4 DEF Client, Reply, Notice, Connect, Timer, See
<1>5. CASE Osd
  BY <1>1, <1>5 DEF Osd, ExecWrite, ExecRead, ExecSync, Refuse, GainPrimary, OtherThanOsd, clientVars
<1>6. CASE Fault
  BY <1>1, <1>6 DEF Fault, IOError, LosePrimary, NetDrop, Reslice, OtherThanOsd, clientVars
<1> QED BY <1>2, <1>3, <1>4, <1>5, <1>6 DEF Next

LEMMA NextKeeps ==
  ASSUME CInv, Next
  PROVE  Kept
<1>1. CASE User
  BY <1>1, UserWriteKeeps, UserReadKeeps, UserSyncKeeps DEF User
<1>2. CASE Client
  <2>1. CASE Step
    BY <2>1, StepKeeps
  <2>2. CASE \E i \in DOMAIN queue : \E g \in DOMAIN queue[i].parts : Reply(i, g)
    BY <2>2, ReplyKeeps
  <2>3. ASSUME NEW o \in OSDs, Notice(o) PROVE Kept
    <3>1. QueueOk(queue) /\ StopClient(o, queue) /\ overflow' = overflow
      BY <2>3 DEF Notice, CInv
    <3> QED BY <3>1, StopClientKeeps
  <2>4. ASSUME NEW o \in OSDs, Connect(o) PROVE Kept
    BY <2>4, SameKeeps DEF Connect
  <2>5. CASE \E S \in SUBSET Waiting \ {{}} : Timer(S)
    BY <2>5, TimerKeeps
  <2>6. CASE \E g \in PGs : See(g)
    BY <2>6, SeeKeeps
  <2> QED BY <1>2, <2>1, <2>2, <2>3, <2>4, <2>5, <2>6 DEF Client
<1>3. CASE Osd
  <2>1. ASSUME NEW i \in DOMAIN queue, NEW g \in DOMAIN queue[i].parts,
               ExecWrite(i, g) \/ ExecSync(i, g) \/ Refuse(i, g)
        PROVE  Kept
    <3>1. UNCHANGED <<todo, overflow>> /\ (Answer(i, g, "ok") \/ Answer(i, g, "EPIPE"))
      BY <2>1 DEF ExecWrite, ExecSync, Refuse, OtherThanOsd
    <3> QED BY <3>1, AnswerKeeps
  <2>2. ASSUME NEW g \in PGs, NEW o \in OSDs, GainPrimary(g, o) PROVE Kept
    BY <2>2, SameKeeps DEF GainPrimary, clientVars
  <2> QED BY <1>3, <2>1, <2>2, ExecReadKeeps DEF Osd
<1>4. CASE Fault
  <2>1. ASSUME NEW i \in DOMAIN queue, NEW g \in DOMAIN queue[i].parts, IOError(i, g) PROVE Kept
    BY <2>1, AnswerKeeps DEF IOError, OtherThanOsd
  <2>2. ASSUME NEW g \in PGs, NEW crash \in BOOLEAN, NEW keep \in BOOLEAN, LosePrimary(g, crash, keep)
        PROVE  Kept
    BY <2>2, SameKeeps DEF LosePrimary, clientVars
  <2>3. ASSUME NEW o \in OSDs, NetDrop(o) PROVE Kept
    BY <2>3, SameKeeps DEF NetDrop, clientVars
  <2> QED BY <1>4, <2>1, <2>2, <2>3, ResliceKeeps DEF Fault
<1> QED BY <1>1, <1>2, <1>3, <1>4 DEF Next

LEMMA SetupKept ==
  ASSUME Next
  PROVE  setup' = setup
BY DEF Next, User, UserWrite, UserRead, UserSync, Client, Step, Reply, Notice, Connect, Timer, See,
       Osd, ExecWrite, ExecRead, ExecSync, Refuse, GainPrimary, Fault, IOError, LosePrimary, NetDrop,
       Reslice, OtherThanOsd

LEMMA InitOk == Init => CInv
<1> SUFFICES ASSUME Init PROVE CInv
  OBVIOUS
<1>1. queue = <<>> /\ todo = <<>> /\ overflow = <<>> /\ wbq = <<>>
  BY DEF Init
<1> QED BY <1>1, NilSeq DEF CInv, QueueOk, Exact, TodoOk, FreshAll

LEMMA KeptIsEnough ==
  ASSUME Kept, setup' = setup, ~setup.wb => wbq' = <<>>
  PROVE  CInv'
<1>1. QueueOk(queue)'
  BY DEF Kept, QueueOk, Good, Exact, Counted, Blocks, IsOp, IsWrite, IsSeq
<1>2. FreshAll(overflow)'
  BY DEF Kept, FreshAll, Fresh, IsOp, IsWrite, IsSeq
<1>3. TodoOk(todo)'
  BY DEF Kept, TodoOk, EntryOk, Good, Counted, FreshAll, Fresh, IsOp, IsWrite, IsSeq
<1> QED BY <1>1, <1>2, <1>3 DEF CInv

\* The sequences of the client are well-formed: its queue counts exactly, what
\* leaves the queue silently holds back nobody, and postponed requests are those
\* that erase_op and execute_internal may put into the queue later.
THEOREM ClientInvariant == Spec => []CInv
<1>1. ASSUME CInv, Next PROVE CInv'
  BY <1>1, NextKeeps, SetupKept, WbqKept, KeptIsEnough
<1>2. ASSUME CInv, UNCHANGED vars PROVE CInv'
  <2>1. setup' = setup /\ queue' = queue /\ todo' = todo /\ overflow' = overflow /\ wbq' = wbq
    BY <1>2 DEF vars, clientVars
  <2>2. Kept
    BY <1>2, <2>1 DEF CInv, Kept
  <2> QED BY <1>2, <2>1, <2>2, KeptIsEnough DEF CInv
<1>3. CInv /\ [Next]_vars => CInv'
  BY <1>1, <1>2
<1> QED BY InitOk, <1>3, PTL DEF Spec

\* prev_wait is always the number of earlier operations that an operation waits
\* for (calc_wait, inc_wait, unshift_op, erase_op), for any units, OSDs and setups.
THEOREM AlwaysWaitsExact == Spec => []WaitsExact
<1>1. CInv => WaitsExact
  BY DEF CInv, QueueOk, Exact, WaitsExact
<1> QED BY <1>1, ClientInvariant, PTL

=============================================================================
