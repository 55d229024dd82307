---------------------------- MODULE RdmaCm_proofs ----------------------------
(***************************************************************************)
(* Proofs about connecting with the RDMA connection manager, for every set *)
(* of ids and OSDs and every bound on the events.                          *)
(*                                                                         *)
(* CmExact is not inductive: the handlers of copied events look an id up   *)
(* by its address and trust the event's kind.  What makes them right is    *)
(* the order of events: the answer to an id comes before its failures, no  *)
(* answer follows a failure, and a destroyed id has no more events in the  *)
(* kernel.  So an answer that was copied still belongs to the id that      *)
(* asked, in the state in which it asked; only a copied failure may name   *)
(* an address that is used again, and it just ends the new attempt.        *)
(***************************************************************************)
EXTENDS RdmaCm, FiniteSetTheorems, TLAPS

-----------------------------------------------------------------------------
(* The inductive invariant.                                                 *)

Kinds == {"addr", "route", "established", "failed", "request", "gone"}
CmStates == {"free", "request", "addr", "route", "connect", "accept", "up"}
EventSet == [kind : Kinds, id : Ids, ok : BOOLEAN]
IdSet == [st : CmStates, osd : CmOsds \union {NoOsd}, qp : BOOLEAN, timer : BOOLEAN,
          asked : BOOLEAN, dead : BOOLEAN]

CmTypeOK ==
  /\ cm \in [Ids -> IdSet]
  /\ byid \in [Ids -> {"none", "client", "deleted"}]
  /\ events \in Seq(EventSet) /\ copied \in Seq(EventSet)
  /\ phase \in {"idle", "read", "handle"}
  /\ used \in Int
  /\ attempts \in [CmOsds -> Nat] /\ ended \in [CmOsds -> Nat]

\* What a state says about the other fields, and about rdmacm_connections.
Sane(k, by) ==
  /\ k.st = "free" => k = FreeId
  /\ k.st = "request" => ~k.qp /\ ~k.asked /\ k.osd = NoOsd
  /\ k.st = "addr" => ~k.qp
  /\ k.st = "up" => ~k.asked
  /\ k.st = "up" <=> by = "client"
IdInv == \A i \in Ids : Sane(cm[i], byid[i])

Answers == {"addr", "route", "established"}

\* The event is about what an id k is and does.
Fits(k, e) ==
  \/ e.kind = "request" /\ k.st = "request"
  \/ e.kind = "addr" /\ k.st = "addr" /\ ~k.asked
  \/ e.kind = "route" /\ k.st = "route" /\ ~k.asked
  \/ e.kind = "established" /\ k.st \in {"connect", "accept"} /\ ~k.asked
  \/ /\ e.kind = "failed" /\ ~e.ok
     /\ k.st \notin {"free", "request"}
     /\ k.dead \/ (k.st \in {"connect", "accept", "up"} /\ ~k.asked)

\* Everything in the kernel fits its id; of the copies, the answers always do and
\* the failures until handling begins.
EventInv ==
  /\ \A p \in DOMAIN events : events[p].kind # "gone" => Fits(cm[events[p].id], events[p])
  /\ \A p \in DOMAIN copied :
       /\ copied[p].kind \notin {"gone", "request"}
       /\ copied[p].kind = "failed" => ~copied[p].ok
       /\ phase = "read" \/ copied[p].kind \in Answers => Fits(cm[copied[p].id], copied[p])

Last == {"failed", "gone"}

\* Only failures follow an event of the same id.
OrderInv ==
  /\ phase = "idle" => copied = << >>
  /\ \A p, q \in DOMAIN events :
       p < q /\ events[p].id = events[q].id /\ events[p].kind # "gone" => events[q].kind \in Last
  /\ \A p, q \in DOMAIN copied :
       p < q /\ copied[p].id = copied[q].id => copied[q].kind \in Last
  /\ \A p \in DOMAIN copied, q \in DOMAIN events :
       copied[p].id = events[q].id /\ (phase = "read" \/ copied[p].kind \in Answers)
       => events[q].kind \in Last

CmInv == CmTypeOK /\ IdInv /\ EventInv /\ OrderInv /\ CmExact

-----------------------------------------------------------------------------
(* Counting.                                                                *)

Qps == {i \in Ids : cm[i].qp}
Trying(o) == {i \in Ids : Connecting(i) /\ cm[i].osd = o}

\* A member more or less.
LEMMA OneMore ==
  ASSUME NEW S, S \subseteq Ids, NEW i \in Ids
  PROVE  /\ Cardinality(S) \in Nat
         /\ i \notin S => Cardinality(S \union {i}) = Cardinality(S) + 1
         /\ i \in S => Cardinality(S \ {i}) = Cardinality(S) - 1
<1>1. IsFiniteSet(S)
  BY RdmaCmAssumption, FS_Subset
<1>2. Cardinality(S) \in Nat
  BY <1>1, FS_CardinalityType
<1>3. i \notin S => Cardinality(S \union {i}) = Cardinality(S) + 1
  BY <1>1, FS_AddElement
<1>4. i \in S => Cardinality(S \ {i}) = Cardinality(S) - 1
  BY <1>1, FS_RemoveElement
<1> QED
  BY <1>2, <1>3, <1>4

Tries(k) == k.st \in {"addr", "route", "connect", "accept"}
One(b) == IF b THEN 1 ELSE 0

\* One member that is or is not there afterwards.
LEMMA Recount ==
  ASSUME NEW S, S \subseteq Ids, NEW i \in Ids, NEW T, NEW in \in BOOLEAN,
         T = IF in THEN S \union {i} ELSE S \ {i}
  PROVE  /\ Cardinality(S) \in Nat
         /\ Cardinality(T) = Cardinality(S) + One(in) - One(i \in S)
<1>1. /\ Cardinality(S) \in Nat
      /\ i \notin S => Cardinality(S \union {i}) = Cardinality(S) + 1
      /\ i \in S => Cardinality(S \ {i}) = Cardinality(S) - 1
  BY OneMore
<1> DEFINE x == One(in)
           y == One(i \in S)
<1> HIDE DEF x, y
<1>2. CASE in /\ i \in S
  <2>1. T = S
    BY <1>2
  <2>2. x = 1 /\ y = 1
    BY <1>2 DEF One, x, y
  <2>3. Cardinality(T) = Cardinality(S) + x - y
    BY ONLY <1>1, <2>1, <2>2
  <2> QED
    BY <1>1, <2>3 DEF x, y
<1>3. CASE in /\ i \notin S
  <2>1. T = S \union {i}
    BY <1>3
  <2>2. x = 1 /\ y = 0
    BY <1>3 DEF One, x, y
  <2>3. Cardinality(T) = Cardinality(S) + x - y
    BY <1>1, <1>3, <2>1, <2>2
  <2> QED
    BY <1>1, <2>3 DEF x, y
<1>4. CASE ~in /\ i \in S
  <2>1. T = S \ {i}
    BY <1>4
  <2>2. x = 0 /\ y = 1
    BY <1>4 DEF One, x, y
  <2>3. Cardinality(T) = Cardinality(S) + x - y
    BY <1>1, <1>4, <2>1, <2>2
  <2> QED
    BY <1>1, <2>3 DEF x, y
<1>5. CASE ~in /\ i \notin S
  <2>1. T = S
    BY <1>5
  <2>2. x = 0 /\ y = 0
    BY <1>5 DEF One, x, y
  <2>3. Cardinality(T) = Cardinality(S) + x - y
    BY ONLY <1>1, <2>1, <2>2
  <2> QED
    BY <1>1, <2>3 DEF x, y
<1> QED
  BY <1>2, <1>3, <1>4, <1>5

\* What the change of one id does to the number of queue pairs.
LEMMA QpCount ==
  ASSUME CmTypeOK, NEW i \in Ids, NEW r \in IdSet, cm' = [cm EXCEPT ![i] = r]
  PROVE  /\ Cardinality(Qps) \in Nat
         /\ Cardinality(Qps') = Cardinality(Qps) + One(r.qp) - One(cm[i].qp)
<1>1. Qps \subseteq Ids
  BY DEF Qps
<1>2. r.qp \in BOOLEAN /\ cm[i].qp \in BOOLEAN
  BY DEF CmTypeOK, IdSet
<1>3. Qps' = IF r.qp THEN Qps \union {i} ELSE Qps \ {i}
  BY DEF Qps, CmTypeOK
<1>4. One(i \in Qps) = One(cm[i].qp)
  BY <1>2 DEF Qps, One
<1>5. /\ Cardinality(Qps) \in Nat
      /\ Cardinality(Qps') = Cardinality(Qps) + One(r.qp) - One(i \in Qps)
  BY ONLY <1>1, <1>2, <1>3, i \in Ids, Recount
<1> QED
  BY ONLY <1>4, <1>5

\* The same for the attempts to connect to an OSD.
LEMMA TryCount ==
  ASSUME CmTypeOK, NEW i \in Ids, NEW r \in IdSet, cm' = [cm EXCEPT ![i] = r], NEW o \in CmOsds
  PROVE  /\ Cardinality(Trying(o)) \in Nat
         /\ Cardinality(Trying(o)') = Cardinality(Trying(o)) + One(Tries(r) /\ r.osd = o)
                                      - One(Tries(cm[i]) /\ cm[i].osd = o)
<1> DEFINE S == Trying(o)
           T == Trying(o)'
           in == Tries(r) /\ r.osd = o
           was == Tries(cm[i]) /\ cm[i].osd = o
<1>1. S \subseteq Ids
  BY DEF Trying
<1>2. in \in BOOLEAN
  OBVIOUS
<1>3. T = IF in THEN S \union {i} ELSE S \ {i}
  BY DEF Trying, CmTypeOK, Connecting, Tries
<1>4. i \in S <=> was
  BY DEF Trying, Connecting, Tries
<1> HIDE DEF S, T, in, was
<1>5. One(i \in S) = One(was)
  BY <1>4 DEF One
<1>6. /\ Cardinality(S) \in Nat
      /\ Cardinality(T) = Cardinality(S) + One(in) - One(i \in S)
  BY ONLY <1>1, <1>2, <1>3, i \in Ids, Recount
<1>7. Cardinality(T) = Cardinality(S) + One(in) - One(was)
  BY ONLY <1>5, <1>6
<1> QED
  BY <1>6, <1>7 DEF S, T, in, was

\* CmExact after the change of one id, from what changes about it.
LEMMA ExactStep ==
  ASSUME CmTypeOK, CmTypeOK', CmExact, NEW i \in Ids, NEW r \in IdSet, cm' = [cm EXCEPT ![i] = r],
         r.timer <=> Tries(r),
         used' = used + Share * (One(r.qp) - One(cm[i].qp)),
         \A o \in CmOsds : attempts'[o] - ended'[o] = attempts[o] - ended[o]
            + One(Tries(r) /\ r.osd = o) - One(Tries(cm[i]) /\ cm[i].osd = o)
  PROVE  CmExact'
<1>1. used' = Share * Cardinality(Qps')
  <2> DEFINE a == One(r.qp)
             b == One(cm[i].qp)
             c == Cardinality(Qps)
  <2>1. used = Share * c
    BY DEF CmExact, Qps
  <2>2. a \in Int /\ b \in Int /\ Share \in Int
    BY RdmaCmAssumption DEF One
  <2>3. c \in Nat /\ Cardinality(Qps') = c + a - b
    BY ONLY QpCount, CmTypeOK, i \in Ids, r \in IdSet, cm' = [cm EXCEPT ![i] = r]
  <2> HIDE DEF a, b, c
  <2>4. Share * c + Share * (a - b) = Share * (c + a - b)
    BY <2>2, <2>3
  <2> QED
    BY <2>1, <2>3, <2>4 DEF a, b
<1>2. \A j \in Ids : cm'[j].timer <=> Tries(cm'[j])
  BY DEF CmExact, Connecting, Tries, CmTypeOK
<1>3. ASSUME NEW o \in CmOsds
      PROVE  attempts'[o] - ended'[o] = Cardinality(Trying(o)')
  <2>1. attempts[o] - ended[o] = Cardinality(Trying(o))
    BY DEF CmExact, Trying
  <2> QED
    BY <2>1, TryCount
<1> QED
  BY <1>1, <1>2, <1>3 DEF CmExact, Qps, Trying, Connecting, Tries

-----------------------------------------------------------------------------
(* Sequences of events.                                                     *)

LEMMA MemberOf ==
  ASSUME NEW s \in Seq(EventSet)
  PROVE  /\ \A p \in DOMAIN s : s[p] \in EventSet /\ s[p].id \in Ids
         /\ DOMAIN s \subseteq Nat
<1>1. \A p \in DOMAIN s : s[p] \in EventSet
  OBVIOUS
<1>2. \A e \in EventSet : e.id \in Ids
  BY DEF EventSet
<1> QED
  BY <1>1, <1>2

LEMMA TailOf ==
  ASSUME NEW S, NEW s \in Seq(S), s # << >>
  PROVE  /\ Tail(s) \in Seq(S) /\ Head(s) = s[1] /\ 1 \in DOMAIN s /\ Head(s) \in S
         /\ \A p \in DOMAIN Tail(s) : p \in Nat /\ p + 1 \in DOMAIN s /\ p + 1 > 1 /\ Tail(s)[p] = s[p + 1]
OBVIOUS

LEMMA AppendOf ==
  ASSUME NEW S, NEW s \in Seq(S), NEW x \in S
  PROVE  /\ Append(s, x) \in Seq(S)
         /\ \A p \in DOMAIN s : p \in Nat /\ p < Len(s) + 1 /\ p \in DOMAIN Append(s, x) /\ Append(s, x)[p] = s[p]
         /\ Append(s, x)[Len(s) + 1] = x /\ Len(s) + 1 \in DOMAIN Append(s, x)
         /\ \A p \in DOMAIN Append(s, x) : p \in DOMAIN s \/ p = Len(s) + 1
OBVIOUS

LEMMA WithoutOf ==
  ASSUME NEW s \in Seq(EventSet), NEW i \in Ids
  PROVE  /\ Without(s, i) \in Seq(EventSet)
         /\ DOMAIN Without(s, i) = DOMAIN s
         /\ \A p \in DOMAIN s :
              /\ Without(s, i)[p].id = s[p].id
              /\ s[p].id = i => Without(s, i)[p].kind = "gone"
              /\ s[p].id # i => Without(s, i)[p] = s[p]
<1>1. \A p \in DOMAIN s : s[p] \in EventSet
  OBVIOUS
<1>2. \A e \in EventSet : /\ [e EXCEPT !.kind = "gone"] \in EventSet
                          /\ [e EXCEPT !.kind = "gone"].id = e.id
                          /\ [e EXCEPT !.kind = "gone"].kind = "gone"
  BY DEF EventSet, Kinds
<1>3. DOMAIN s = 1..Len(s) /\ Len(s) \in Nat
  OBVIOUS
<1>4. \A p \in DOMAIN s : Without(s, i)[p] = IF s[p].id = i THEN [s[p] EXCEPT !.kind = "gone"] ELSE s[p]
  BY DEF Without
<1>5. \A p \in DOMAIN s : Without(s, i)[p] \in EventSet
  BY <1>1, <1>2, <1>4
<1>6. Without(s, i) \in Seq(EventSet)
  BY <1>3, <1>5 DEF Without
<1>7. DOMAIN Without(s, i) = DOMAIN s
  BY DEF Without
<1>8. ASSUME NEW p \in DOMAIN s
      PROVE  /\ Without(s, i)[p].id = s[p].id
             /\ s[p].id = i => Without(s, i)[p].kind = "gone"
             /\ s[p].id # i => Without(s, i)[p] = s[p]
  <2>1. CASE s[p].id = i
    <3>1. Without(s, i)[p] = [s[p] EXCEPT !.kind = "gone"]
      BY <1>4, <2>1
    <3>2. Without(s, i)[p].id = s[p].id /\ Without(s, i)[p].kind = "gone"
      BY <1>1, <1>2, <3>1
    <3> QED
      BY <2>1, <3>2
  <2>2. CASE s[p].id # i
    <3>1. Without(s, i)[p] = s[p]
      BY <1>4, <2>2
    <3> QED
      BY <2>2, <3>1
  <2> QED
    BY <2>1, <2>2
<1> QED
  BY <1>6, <1>7, <1>8

-----------------------------------------------------------------------------
(* What the changes of one id do to the events.                             *)

\* Nothing fits a free id, and only a request one that waits to be accepted.
LEMMA FitsFree ==
  ASSUME NEW k, NEW e, Fits(k, e)
  PROVE  k.st # "free" /\ (k.st = "request" => e.kind = "request")
BY DEF Fits

\* A new event of an id, with a change of that id that the others still fit.
LEMMA Appended ==
  ASSUME CmTypeOK, EventInv, OrderInv, NEW i \in Ids, NEW r, cm' = [cm EXCEPT ![i] = r],
         NEW e \in EventSet, e.id = i, e.kind # "gone", events' = Append(events, e),
         UNCHANGED <<copied, phase>>, Fits(r, e),
         \A f \in EventSet : Fits(cm[i], f) => Fits(r, f),
         e.kind = "failed" \/ \A f \in EventSet : ~Fits(cm[i], f)
  PROVE  EventInv' /\ OrderInv'
<1>1. events \in Seq(EventSet) /\ copied \in Seq(EventSet) /\ cm \in [Ids -> IdSet]
  BY DEF CmTypeOK
<1> DEFINE n == Len(events) + 1
<1>2. /\ \A p \in DOMAIN events : p \in Nat /\ p < n /\ p \in DOMAIN events' /\ events'[p] = events[p]
      /\ events'[n] = e
      /\ \A p \in DOMAIN events' : p \in DOMAIN events \/ p = n
  BY <1>1, AppendOf
<1>3. n \in Nat
  BY <1>1
<1>4. /\ \A p \in DOMAIN events : events[p] \in EventSet /\ events[p].id \in Ids
      /\ \A p \in DOMAIN copied : copied[p] \in EventSet /\ copied[p].id \in Ids
  BY <1>1, MemberOf
<1> HIDE DEF n
<1>5. \A j \in Ids : cm'[j] = IF j = i THEN r ELSE cm[j]
  BY <1>1
<1>6. \A f \in EventSet : f.id \in Ids /\ Fits(cm[f.id], f) => Fits(cm'[f.id], f)
  BY <1>5
<1>7. ASSUME e.kind # "failed"
      PROVE  /\ \A p \in DOMAIN events : events[p].id = i => events[p].kind = "gone"
             /\ \A p \in DOMAIN copied : copied[p].id = i => phase # "read" /\ copied[p].kind \notin Answers
  BY <1>4, <1>7 DEF EventInv
<1>8. EventInv'
  <2>1. \A p \in DOMAIN events' : events'[p].kind # "gone" => Fits(cm'[events'[p].id], events'[p])
    BY <1>2, <1>4, <1>5, <1>6 DEF EventInv
  <2>2. \A p \in DOMAIN copied : phase = "read" \/ copied[p].kind \in Answers => Fits(cm'[copied[p].id], copied[p])
    BY <1>4, <1>6 DEF EventInv
  <2> QED
    BY <2>1, <2>2 DEF EventInv
<1>9. OrderInv'
  <2>1. ASSUME NEW p \in DOMAIN events', NEW q \in DOMAIN events', p < q, events'[p].id = events'[q].id,
               events'[p].kind # "gone"
        PROVE  events'[q].kind \in Last
    <3>1. p \in DOMAIN events
      BY <1>2, <1>3, <2>1
    <3>2. CASE q \in DOMAIN events
      BY <1>2, <2>1, <3>1, <3>2 DEF OrderInv
    <3>3. CASE q = n
      BY <1>2, <1>7, <2>1, <3>1, <3>3 DEF Last
    <3> QED
      BY <1>2, <3>2, <3>3
  <2>2. ASSUME NEW p \in DOMAIN copied, NEW q \in DOMAIN events', copied[p].id = events'[q].id,
               phase = "read" \/ copied[p].kind \in Answers
        PROVE  events'[q].kind \in Last
    BY <1>2, <1>7, <2>2 DEF OrderInv, Last
  <2> QED
    BY <2>1, <2>2 DEF OrderInv
<1> QED
  BY <1>8, <1>9

\* An id is destroyed, outside of the loop that copies events.  At most one copy is
\* taken off, and no answer to the id is left.
LEMMA Destroyed ==
  ASSUME CmTypeOK, EventInv, OrderInv, NEW i \in Ids, Destroy(i), phase # "read", UNCHANGED phase,
         NEW d \in {0, 1},
         \A p \in DOMAIN copied' : p \in Nat /\ p + d \in DOMAIN copied /\ copied'[p] = copied[p + d],
         phase = "idle" => copied' = << >>,
         \A p \in DOMAIN copied' : copied'[p].id = i => copied'[p].kind \notin Answers
  PROVE  EventInv' /\ OrderInv'
<1>1. events \in Seq(EventSet) /\ copied \in Seq(EventSet) /\ cm \in [Ids -> IdSet]
  BY DEF CmTypeOK
<1>2. /\ DOMAIN events' = DOMAIN events
      /\ \A p \in DOMAIN events :
           /\ events'[p].id = events[p].id
           /\ events[p].id = i => events'[p].kind = "gone"
           /\ events[p].id # i => events'[p] = events[p]
  BY <1>1, WithoutOf DEF Destroy
<1>3. \A j \in Ids : j # i => cm'[j] = cm[j]
  BY <1>1 DEF Destroy
<1>4. /\ \A p \in DOMAIN events : events[p].id \in Ids
      /\ \A p \in DOMAIN copied : copied[p].id \in Ids
      /\ DOMAIN events \subseteq Nat /\ DOMAIN copied \subseteq Nat
  BY <1>1, MemberOf
<1>5. EventInv'
  <2>1. \A p \in DOMAIN events' : events'[p].kind # "gone" => Fits(cm'[events'[p].id], events'[p])
    BY <1>2, <1>3, <1>4 DEF EventInv
  <2>2. ASSUME NEW p \in DOMAIN copied'
        PROVE  /\ copied'[p].kind \notin {"gone", "request"}
               /\ copied'[p].kind = "failed" => ~copied'[p].ok
               /\ copied'[p].kind \in Answers => Fits(cm'[copied'[p].id], copied'[p])
    <3>1. p + d \in DOMAIN copied /\ copied'[p] = copied[p + d] /\ copied[p + d].id \in Ids
      BY <1>4
    <3> QED
      BY <1>3, <3>1 DEF EventInv
  <2> QED
    BY <2>1, <2>2 DEF EventInv
<1>6. OrderInv'
  <2>1. \A p, q \in DOMAIN events' :
          p < q /\ events'[p].id = events'[q].id /\ events'[p].kind # "gone" => events'[q].kind \in Last
    BY <1>2 DEF OrderInv, Last
  <2>2. ASSUME NEW p \in DOMAIN copied', NEW q \in DOMAIN copied', p < q, copied'[p].id = copied'[q].id
        PROVE  copied'[q].kind \in Last
    <3>1. p + d \in DOMAIN copied /\ copied'[p] = copied[p + d] /\ p \in Nat
      OBVIOUS
    <3>2. q + d \in DOMAIN copied /\ copied'[q] = copied[q + d] /\ q \in Nat
      OBVIOUS
    <3>3. p + d < q + d
      BY <2>2, <3>1, <3>2
    <3> QED
      BY <2>2, <3>1, <3>2, <3>3 DEF OrderInv
  <2>3. ASSUME NEW p \in DOMAIN copied', NEW q \in DOMAIN events', copied'[p].id = events'[q].id,
               copied'[p].kind \in Answers
        PROVE  events'[q].kind \in Last
    <3>1. p + d \in DOMAIN copied /\ copied'[p] = copied[p + d]
      OBVIOUS
    <3>2. events[q].kind \in Last
      BY <1>2, <2>3, <3>1 DEF OrderInv
    <3> QED
      BY <1>2, <3>2 DEF Last
  <2> QED
    BY <2>1, <2>2, <2>3 DEF OrderInv
<1> QED
  BY <1>5, <1>6

\* An answer is handled: nothing but failures of its id is left.
LEMMA Handled ==
  ASSUME CmTypeOK, EventInv, OrderInv, copied # << >>, phase = "handle", UNCHANGED phase,
         Head(copied).kind \in Answers, NEW r, cm' = [cm EXCEPT ![Head(copied).id] = r],
         UNCHANGED events, copied' = Tail(copied),
         \A f \in EventSet : f.kind = "failed" /\ Fits(cm[Head(copied).id], f) => Fits(r, f)
  PROVE  EventInv' /\ OrderInv'
<1> DEFINE e == Head(copied)
           i == e.id
<1>1. events \in Seq(EventSet) /\ copied \in Seq(EventSet) /\ cm \in [Ids -> IdSet]
  BY DEF CmTypeOK
<1>2. /\ e = copied[1] /\ 1 \in DOMAIN copied
      /\ \A p \in DOMAIN copied' : p \in Nat /\ p + 1 \in DOMAIN copied /\ p + 1 > 1 /\ copied'[p] = copied[p + 1]
  BY <1>1, TailOf
<1>3. /\ \A p \in DOMAIN events : events[p] \in EventSet /\ events[p].id \in Ids
      /\ \A p \in DOMAIN copied : copied[p] \in EventSet /\ copied[p].id \in Ids
  BY <1>1, MemberOf
<1>4. \A j \in Ids : cm'[j] = IF j = i THEN r ELSE cm[j]
  BY <1>1, <1>2, <1>3
<1>5. \A q \in DOMAIN events : events[q].id = i => events[q].kind \in Last
  BY <1>2 DEF OrderInv
<1>6. \A q \in DOMAIN copied' : copied'[q].id = i => copied'[q].kind \notin Answers
  <2> SUFFICES ASSUME NEW q \in DOMAIN copied', copied'[q].id = i
               PROVE  copied'[q].kind \notin Answers
    OBVIOUS
  <2>1. copied[q + 1].kind \in Last
    BY <1>2 DEF OrderInv
  <2> QED
    BY <1>2, <2>1 DEF Last, Answers
<1> HIDE DEF e, i
<1>7. EventInv'
  <2>1. ASSUME NEW p \in DOMAIN events, events[p].kind # "gone"
        PROVE  Fits(cm'[events[p].id], events[p])
    <3>1. Fits(cm[events[p].id], events[p])
      BY <2>1 DEF EventInv
    <3>2. CASE events[p].id = i
      BY <1>3, <1>4, <1>5, <2>1, <3>1, <3>2 DEF Last, i, e
    <3> QED
      BY <1>3, <1>4, <3>1, <3>2
  <2>2. ASSUME NEW p \in DOMAIN copied'
        PROVE  /\ copied'[p].kind \notin {"gone", "request"}
               /\ copied'[p].kind = "failed" => ~copied'[p].ok
               /\ copied'[p].kind \in Answers => Fits(cm'[copied'[p].id], copied'[p])
    <3>1. p + 1 \in DOMAIN copied /\ copied'[p] = copied[p + 1] /\ copied[p + 1].id \in Ids
      BY <1>2, <1>3
    <3> QED
      BY <1>4, <1>6, <3>1 DEF EventInv
  <2> QED
    BY <2>1, <2>2 DEF EventInv
<1>8. OrderInv'
  <2>2. ASSUME NEW p \in DOMAIN copied', NEW q \in DOMAIN copied', p < q, copied'[p].id = copied'[q].id
        PROVE  copied'[q].kind \in Last
    <3>1. p + 1 < q + 1
      BY <1>2, <2>2
    <3> QED
      BY <1>2, <2>2, <3>1 DEF OrderInv
  <2>3. ASSUME NEW p \in DOMAIN copied', NEW q \in DOMAIN events, copied'[p].id = events[q].id,
               copied'[p].kind \in Answers
        PROVE  events[q].kind \in Last
    BY <1>2, <2>3 DEF OrderInv
  <2> QED
    BY <2>2, <2>3 DEF OrderInv
<1> QED
  BY <1>7, <1>8

-----------------------------------------------------------------------------
(* The steps.                                                               *)

LEMMA SaneStep ==
  ASSUME CmTypeOK, IdInv, NEW i \in Ids, NEW r, cm' = [cm EXCEPT ![i] = r],
         \A j \in Ids : j # i => byid'[j] = byid[j], Sane(r, byid'[i])
  PROVE  IdInv'
BY DEF CmTypeOK, IdInv

LEMMA FreeIdSet ==
  /\ FreeId \in IdSet
  /\ FreeId.st = "free" /\ FreeId.osd = NoOsd /\ ~FreeId.qp /\ ~FreeId.timer /\ ~FreeId.asked
  /\ ~FreeId.dead
BY DEF FreeId, IdSet, CmStates

LEMMA IdTyped ==
  ASSUME NEW k \in IdSet
  PROVE  /\ k.st \in CmStates /\ k.osd \in CmOsds \union {NoOsd}
         /\ k.qp \in BOOLEAN /\ k.timer \in BOOLEAN /\ k.asked \in BOOLEAN /\ k.dead \in BOOLEAN
BY DEF IdSet

\* The share that a destroyed id gives back.
LEMMA Released ==
  ASSUME CmTypeOK, NEW i \in Ids, Release(i)
  PROVE  used' = used + Share * (One(FreeId.qp) - One(cm[i].qp))
<1>1. used \in Int /\ Share \in Nat
  BY RdmaCmAssumption DEF CmTypeOK
<1>2. One(FreeId.qp) = 0
  BY FreeIdSet DEF One
<1>3. CASE cm[i].qp
  <2>1. One(cm[i].qp) = 1
    BY <1>3 DEF One
  <2>2. used' = used - Share
    BY <1>3 DEF Release, Reserve
  <2> QED
    BY <1>1, <1>2, <2>1, <2>2
<1>4. CASE ~cm[i].qp
  <2>1. One(cm[i].qp) = 0
    BY <1>4 DEF One
  <2>2. used' = used
    BY <1>4 DEF Release, Reserve
  <2> QED
    BY <1>1, <1>2, <2>1, <2>2
<1> QED
  BY <1>3, <1>4

\* An id that connects is given up.
LEMMA ErrorStep ==
  ASSUME CmInv, NEW i \in Ids, CmError(i), Connecting(i), phase # "read",
         UNCHANGED <<byid, phase, attempts>>, copied' \in Seq(EventSet), NEW d \in {0, 1},
         \A p \in DOMAIN copied' : p \in Nat /\ p + d \in DOMAIN copied /\ copied'[p] = copied[p + d],
         phase = "idle" => copied' = << >>,
         \A p \in DOMAIN copied' : copied'[p].id = i => copied'[p].kind \notin Answers
  PROVE  CmInv'
<1>1. CmTypeOK /\ IdInv /\ EventInv /\ OrderInv /\ CmExact
  BY DEF CmInv
<1>2. Destroy(i) /\ Release(i) /\ EndAttempt(cm[i].osd)
  BY DEF CmError
<1>3. cm' = [cm EXCEPT ![i] = FreeId]
  BY <1>2 DEF Destroy
<1>4. cm[i] \in IdSet /\ Tries(cm[i]) /\ Sane(cm[i], byid[i])
  BY <1>1 DEF CmTypeOK, Connecting, Tries, IdInv
<1>5. CmTypeOK'
  <2>1. cm' \in [Ids -> IdSet]
    BY <1>1, <1>3, FreeIdSet DEF CmTypeOK
  <2>2. events' \in Seq(EventSet)
    BY <1>1, <1>2, WithoutOf DEF CmTypeOK, Destroy
  <2>3. used' \in Int
    BY <1>1, <1>2, RdmaCmAssumption DEF CmTypeOK, Release, Reserve
  <2>4. ended' \in [CmOsds -> Nat]
    <3>1. ended \in [CmOsds -> Nat]
      BY <1>1 DEF CmTypeOK
    <3>2. cm[i].osd = NoOsd \/ cm[i].osd \in CmOsds
      BY <1>4, IdTyped
    <3> QED
      BY <1>2, <3>1, <3>2 DEF EndAttempt
  <2> QED
    BY <1>1, <2>1, <2>2, <2>3, <2>4 DEF CmTypeOK
<1>6. IdInv'
  <2>1. Sane(FreeId, byid'[i])
    BY <1>4, FreeIdSet DEF Sane, Tries
  <2> QED
    BY <1>1, <1>3, <2>1, SaneStep
<1>7. EventInv' /\ OrderInv'
  BY <1>1, <1>2, Destroyed
<1>8. CmExact'
  <2>1. ~Tries(FreeId) /\ ~FreeId.timer /\ ~FreeId.qp /\ FreeId \in IdSet
    BY FreeIdSet DEF Tries
  <2>2. used' = used + Share * (One(FreeId.qp) - One(cm[i].qp))
    BY <1>1, <1>2, Released
  <2>3. ASSUME NEW o \in CmOsds
        PROVE  attempts'[o] - ended'[o] = attempts[o] - ended[o] + One(Tries(FreeId) /\ FreeId.osd = o)
                                          - One(Tries(cm[i]) /\ cm[i].osd = o)
    <3>1. One(Tries(FreeId) /\ FreeId.osd = o) = 0
      BY <2>1 DEF One
    <3>2. One(Tries(cm[i]) /\ cm[i].osd = o) = IF cm[i].osd = o THEN 1 ELSE 0
      BY <1>4 DEF One
    <3>3. ended'[o] = ended[o] + (IF cm[i].osd = o THEN 1 ELSE 0)
      <4>1. o # NoOsd /\ ended \in [CmOsds -> Nat]
        BY <1>1, RdmaCmAssumption DEF CmTypeOK
      <4>2. cm[i].osd \in CmOsds \union {NoOsd}
        BY <1>4, IdTyped
      <4> QED
        BY <1>2, <4>1, <4>2 DEF EndAttempt
    <3>4. attempts[o] \in Nat /\ ended[o] \in Nat
      BY <1>1 DEF CmTypeOK
    <3> QED
      BY <3>1, <3>2, <3>3, <3>4
  <2> QED
    BY <1>1, <1>3, <1>5, <2>1, <2>2, <2>3, ExactStep
<1> QED
  BY <1>5, <1>6, <1>7, <1>8 DEF CmInv

\* A client is stopped.
LEMMA StopStep ==
  ASSUME CmInv, NEW i \in Ids, CmStop(i), cm[i].st = "up", phase # "read",
         UNCHANGED <<phase, attempts, ended>>, copied' \in Seq(EventSet), NEW d \in {0, 1},
         \A p \in DOMAIN copied' : p \in Nat /\ p + d \in DOMAIN copied /\ copied'[p] = copied[p + d],
         phase = "idle" => copied' = << >>
  PROVE  CmInv'
<1>1. CmTypeOK /\ IdInv /\ EventInv /\ OrderInv /\ CmExact
  BY DEF CmInv
<1>2. Destroy(i) /\ Release(i) /\ byid' = [byid EXCEPT ![i] = "deleted"]
  BY DEF CmStop
<1>3. cm' = [cm EXCEPT ![i] = FreeId]
  BY <1>2 DEF Destroy
<1>4. cm[i] \in IdSet /\ ~Tries(cm[i])
  BY <1>1 DEF CmTypeOK, Tries
<1>5. CmTypeOK'
  <2>1. cm' \in [Ids -> IdSet]
    BY <1>1, <1>3, FreeIdSet DEF CmTypeOK
  <2>2. events' \in Seq(EventSet)
    BY <1>1, <1>2, WithoutOf DEF CmTypeOK, Destroy
  <2>3. used' \in Int
    BY <1>1, <1>2, RdmaCmAssumption DEF CmTypeOK, Release, Reserve
  <2>4. byid' \in [Ids -> {"none", "client", "deleted"}]
    BY <1>1, <1>2 DEF CmTypeOK
  <2> QED
    BY <1>1, <2>1, <2>2, <2>3, <2>4 DEF CmTypeOK
<1>6. IdInv'
  <2>1. byid'[i] = "deleted" /\ \A j \in Ids : j # i => byid'[j] = byid[j]
    BY <1>1, <1>2 DEF CmTypeOK
  <2>2. Sane(FreeId, byid'[i])
    BY <2>1, FreeIdSet DEF Sane
  <2> QED
    BY <1>1, <1>3, <2>1, <2>2, SaneStep
<1>7. \A p \in DOMAIN copied' : copied'[p].id = i => copied'[p].kind \notin Answers
  <2> SUFFICES ASSUME NEW p \in DOMAIN copied', copied'[p].id = i, copied'[p].kind \in Answers
               PROVE  FALSE
    OBVIOUS
  <2>1. p + d \in DOMAIN copied /\ copied'[p] = copied[p + d]
    OBVIOUS
  <2>2. Fits(cm[i], copied[p + d])
    BY <1>1, <2>1 DEF EventInv
  <2> QED
    BY <2>1, <2>2 DEF Fits, Answers
<1>8. EventInv' /\ OrderInv'
  BY <1>1, <1>2, <1>7, Destroyed
<1>9. CmExact'
  <2>1. ~Tries(FreeId) /\ ~FreeId.timer /\ ~FreeId.qp /\ FreeId \in IdSet
    BY FreeIdSet DEF Tries
  <2>2. used' = used + Share * (One(FreeId.qp) - One(cm[i].qp))
    BY <1>1, <1>2, Released
  <2>3. ASSUME NEW o \in CmOsds
        PROVE  attempts'[o] - ended'[o] = attempts[o] - ended[o] + One(Tries(FreeId) /\ FreeId.osd = o)
                                          - One(Tries(cm[i]) /\ cm[i].osd = o)
    <3>1. One(Tries(FreeId) /\ FreeId.osd = o) = 0 /\ One(Tries(cm[i]) /\ cm[i].osd = o) = 0
      BY <1>4, <2>1 DEF One
    <3>2. attempts[o] \in Nat /\ ended[o] \in Nat
      BY <1>1 DEF CmTypeOK
    <3> QED
      BY <3>1, <3>2
  <2> QED
    BY <1>1, <1>3, <1>5, <2>1, <2>2, <2>3, ExactStep
<1> QED
  BY <1>5, <1>6, <1>8, <1>9 DEF CmInv

\* A change of an id that counts for the same as before.
LEMMA SameCounts ==
  ASSUME CmInv, CmTypeOK', NEW i \in Ids, NEW r \in IdSet, cm' = [cm EXCEPT ![i] = r],
         r.qp = cm[i].qp, r.timer = cm[i].timer, r.osd = cm[i].osd, Tries(r) = Tries(cm[i]),
         UNCHANGED <<used, attempts, ended>>
  PROVE  CmExact'
<1>1. CmTypeOK /\ CmExact
  BY DEF CmInv
<1>2. r.timer <=> Tries(r)
  BY <1>1 DEF CmExact, Connecting, Tries
<1> DEFINE x == One(cm[i].qp)
<1>3. x \in Int /\ used \in Int /\ Share \in Int
  BY <1>1, RdmaCmAssumption DEF One, CmTypeOK
<1>4. x - x = 0
  BY <1>3
<1> HIDE DEF x
<1>5. used' = used + Share * (x - x)
  BY <1>3, <1>4
<1>6. used' = used + Share * (One(r.qp) - One(cm[i].qp))
  BY <1>5 DEF x
<1>7. ASSUME NEW o \in CmOsds
      PROVE  attempts'[o] - ended'[o] = attempts[o] - ended[o] + One(Tries(r) /\ r.osd = o)
                                        - One(Tries(cm[i]) /\ cm[i].osd = o)
  <2> DEFINE y == One(Tries(cm[i]) /\ cm[i].osd = o)
  <2>1. y \in Int /\ attempts[o] \in Nat /\ ended[o] \in Nat
    BY <1>1 DEF One, CmTypeOK
  <2>2. One(Tries(r) /\ r.osd = o) = y
    OBVIOUS
  <2> HIDE DEF y
  <2>3. attempts[o] - ended[o] = attempts[o] - ended[o] + y - y
    BY <2>1
  <2> QED
    BY <2>2, <2>3 DEF y
<1> QED
  BY <1>1, <1>2, <1>6, <1>7, ExactStep

LEMMA TryStep ==
  ASSUME CmInv, NEW o \in CmOsds, CmTryConnect(o)
  PROVE  CmInv'
<1>1. CmTypeOK /\ IdInv /\ EventInv /\ OrderInv /\ CmExact
  BY DEF CmInv
<1>2. /\ phase # "read" /\ attempts' = [attempts EXCEPT ![o] = @ + 1]
      /\ UNCHANGED <<byid, events, copied, phase, used>>
  BY DEF CmTryConnect
<1>3. attempts \in [CmOsds -> Nat] /\ ended \in [CmOsds -> Nat] /\ used \in Int
  BY <1>1 DEF CmTypeOK
<1>4. \A p \in CmOsds : attempts'[p] = attempts[p] + (IF p = o THEN 1 ELSE 0) /\ attempts'[p] \in Nat
  BY <1>2, <1>3
<1>5. ASSUME NEW i \in Ids, cm[i].st = "free", ended' = ended,
             cm' = [cm EXCEPT ![i] = [FreeId EXCEPT !.st = "addr", !.osd = o, !.timer = TRUE, !.asked = TRUE]]
      PROVE  CmInv'
  <2> DEFINE r == [FreeId EXCEPT !.st = "addr", !.osd = o, !.timer = TRUE, !.asked = TRUE]
  <2>1. /\ r \in IdSet /\ r.st = "addr" /\ r.osd = o /\ r.timer = TRUE /\ r.asked = TRUE
        /\ r.qp = FALSE /\ r.dead = FALSE
    BY DEF FreeId, IdSet, CmStates
  <2>2. cm' = [cm EXCEPT ![i] = r]
    BY <1>5
  <2> HIDE DEF r
  <2>3. cm[i] = FreeId /\ byid[i] # "client" /\ ~Tries(cm[i]) /\ ~cm[i].qp
    BY <1>1, <1>5, FreeIdSet DEF IdInv, Sane, Tries
  <2>4. CmTypeOK'
    <3>1. cm' \in [Ids -> IdSet]
      BY <1>1, <2>1, <2>2 DEF CmTypeOK
    <3>2. attempts' \in [CmOsds -> Nat]
      BY <1>2, <1>3
    <3> QED
      BY <1>1, <1>2, <1>5, <3>1, <3>2 DEF CmTypeOK
  <2>5. IdInv'
    <3>1. Sane(r, byid'[i])
      BY <1>2, <2>1, <2>3 DEF Sane
    <3> QED
      BY <1>1, <1>2, <2>2, <3>1, SaneStep
  <2>6. EventInv'
    <3>1. \A j \in Ids : j # i => cm'[j] = cm[j]
      BY <1>1, <2>2 DEF CmTypeOK
    <3>2. /\ \A p \in DOMAIN events : events[p].id \in Ids
          /\ \A p \in DOMAIN copied : copied[p].id \in Ids
      BY <1>1, MemberOf DEF CmTypeOK
    <3>3. \A f : ~Fits(cm[i], f)
      BY <1>5, FitsFree
    <3>4. \A p \in DOMAIN events : events[p].kind # "gone" => Fits(cm'[events[p].id], events[p])
      BY <1>1, <3>1, <3>2, <3>3 DEF EventInv
    <3>5. \A p \in DOMAIN copied :
            phase = "read" \/ copied[p].kind \in Answers => Fits(cm'[copied[p].id], copied[p])
      BY <1>1, <3>1, <3>2, <3>3 DEF EventInv
    <3> QED
      BY <1>1, <1>2, <3>4, <3>5 DEF EventInv
  <2>7. OrderInv'
    BY <1>1, <1>2 DEF OrderInv
  <2>8. CmExact'
    <3>1. used' = used + Share * (One(r.qp) - One(cm[i].qp))
      <4>1. One(r.qp) = 0 /\ One(cm[i].qp) = 0
        BY <2>1, <2>3 DEF One
      <4> QED
        BY <1>2, <1>3, <4>1, RdmaCmAssumption
    <3>2. ASSUME NEW p \in CmOsds
          PROVE  attempts'[p] - ended'[p] = attempts[p] - ended[p] + One(Tries(r) /\ r.osd = p)
                                            - One(Tries(cm[i]) /\ cm[i].osd = p)
      <4>1. One(Tries(r) /\ r.osd = p) = (IF p = o THEN 1 ELSE 0)
        BY <2>1 DEF One, Tries
      <4>2. One(Tries(cm[i]) /\ cm[i].osd = p) = 0
        BY <2>3 DEF One
      <4> QED
        BY <1>3, <1>4, <1>5, <4>1, <4>2
    <3>3. r.timer <=> Tries(r)
      BY <2>1 DEF Tries
    <3> QED
      BY <1>1, <2>1, <2>2, <2>4, <3>1, <3>2, <3>3, ExactStep
  <2> QED
    BY <2>4, <2>5, <2>6, <2>7, <2>8 DEF CmInv
<1>6. ASSUME EndAttempt(o), cm' = cm
      PROVE  CmInv'
  <2>1. ended' = [ended EXCEPT ![o] = @ + 1]
    BY <1>6, RdmaCmAssumption DEF EndAttempt
  <2>2. \A p \in CmOsds : ended'[p] = ended[p] + (IF p = o THEN 1 ELSE 0)
    BY <1>3, <2>1
  <2>3. CmTypeOK'
    <3>1. ended' \in [CmOsds -> Nat] /\ attempts' \in [CmOsds -> Nat]
      BY <1>2, <1>3, <2>1
    <3> QED
      BY <1>1, <1>2, <1>6, <3>1 DEF CmTypeOK
  <2>4. \A p \in CmOsds : attempts'[p] - ended'[p] = attempts[p] - ended[p]
    BY <1>3, <1>4, <2>2
  <2>5. CmExact'
    BY <1>1, <1>2, <1>6, <2>4 DEF CmExact, Connecting
  <2>6. IdInv' /\ EventInv' /\ OrderInv'
    BY <1>1, <1>2, <1>6 DEF IdInv, EventInv, OrderInv
  <2> QED
    BY <2>3, <2>5, <2>6 DEF CmInv
<1> QED
  BY <1>5, <1>6 DEF CmTryConnect

\* The kernel answers: the id asked, so nothing else of it is on its way.
LEMMA AnswerStep ==
  ASSUME CmInv, NEW i \in Ids, CmAnswer(i)
  PROVE  CmInv'
<1>1. CmTypeOK /\ IdInv /\ EventInv /\ OrderInv /\ CmExact
  BY DEF CmInv
<1>2. /\ cm[i].asked /\ ~cm[i].dead /\ cm' = [cm EXCEPT ![i].asked = FALSE]
      /\ UNCHANGED <<byid, copied, phase, used, attempts, ended>>
  BY DEF CmAnswer
<1>3. cm[i] \in IdSet /\ Sane(cm[i], byid[i])
  BY <1>1 DEF CmTypeOK, IdInv
<1> DEFINE r == [cm[i] EXCEPT !.asked = FALSE]
<1>4. /\ r \in IdSet /\ r.st = cm[i].st /\ r.osd = cm[i].osd /\ r.qp = cm[i].qp
      /\ r.timer = cm[i].timer /\ r.asked = FALSE /\ r.dead = cm[i].dead
  BY <1>3 DEF IdSet
<1>5. cm' = [cm EXCEPT ![i] = r]
  BY <1>2
<1>6. cm[i].st \in {"addr", "route", "connect", "accept"}
  <2>1. cm[i].st \in CmStates
    BY <1>3, IdTyped
  <2>2. cm[i].st # "free"
    BY <1>2, <1>3, FreeIdSet DEF Sane
  <2> QED
    BY <1>2, <1>3, <2>1, <2>2 DEF Sane, CmStates
<1> HIDE DEF r
<1>7. PICK ok \in BOOLEAN :
        LET kind == CASE cm[i].st = "addr" -> "addr" [] cm[i].st = "route" -> "route"
                      [] OTHER -> IF ok THEN "established" ELSE "failed"
        IN events' = Append(events, CmEvent(kind, i, ok))
  BY DEF CmAnswer
<1> DEFINE kind == CASE cm[i].st = "addr" -> "addr" [] cm[i].st = "route" -> "route"
                     [] OTHER -> IF ok THEN "established" ELSE "failed"
           e == CmEvent(kind, i, ok)
<1>8. /\ kind \in Kinds /\ kind # "gone"
      /\ \/ kind = "addr" /\ cm[i].st = "addr"
         \/ kind = "route" /\ cm[i].st = "route"
         \/ kind = "established" /\ cm[i].st \in {"connect", "accept"}
         \/ kind = "failed" /\ ~ok /\ cm[i].st \in {"connect", "accept"}
  BY <1>6 DEF Kinds
<1> HIDE DEF kind
<1>9. e \in EventSet /\ e.id = i /\ e.kind = kind /\ e.ok = ok
  BY <1>8 DEF CmEvent, EventSet
<1>10. events' = Append(events, e)
  BY <1>7 DEF kind
<1> HIDE DEF e
<1>11. Fits(r, e)
  BY <1>4, <1>8, <1>9 DEF Fits
<1>12. \A f \in EventSet : ~Fits(cm[i], f)
  BY <1>2, <1>6 DEF Fits
<1>13. EventInv' /\ OrderInv'
  BY <1>1, <1>2, <1>5, <1>8, <1>9, <1>10, <1>11, <1>12, Appended
<1>14. CmTypeOK'
  <2>1. cm' \in [Ids -> IdSet]
    BY <1>1, <1>4, <1>5 DEF CmTypeOK
  <2>2. events' \in Seq(EventSet)
    BY <1>1, <1>9, <1>10, AppendOf DEF CmTypeOK
  <2> QED
    BY <1>1, <1>2, <2>1, <2>2 DEF CmTypeOK
<1>15. IdInv'
  <2>1. Sane(r, byid'[i])
    BY <1>2, <1>3, <1>4, <1>6 DEF Sane
  <2> QED
    BY <1>1, <1>2, <1>5, <2>1, SaneStep
<1>16. CmExact'
  <2>1. Tries(r) = Tries(cm[i])
    BY <1>4 DEF Tries
  <2> QED
    BY <1>2, <1>4, <1>5, <1>14, <2>1, SameCounts
<1> QED
  BY <1>13, <1>14, <1>15, <1>16 DEF CmInv

LEMMA BreakStep ==
  ASSUME CmInv, NEW i \in Ids, CmBreaks(i)
  PROVE  CmInv'
<1>1. CmTypeOK /\ IdInv /\ EventInv /\ OrderInv /\ CmExact
  BY DEF CmInv
<1>2. /\ Connecting(i) \/ cm[i].st = "up"
      /\ cm' = [cm EXCEPT ![i].dead = TRUE]
      /\ events' = Append(events, CmEvent("failed", i, FALSE))
      /\ UNCHANGED <<byid, copied, phase, used, attempts, ended>>
  BY DEF CmBreaks
<1>3. cm[i] \in IdSet /\ Sane(cm[i], byid[i])
  BY <1>1 DEF CmTypeOK, IdInv
<1> DEFINE r == [cm[i] EXCEPT !.dead = TRUE]
           e == CmEvent("failed", i, FALSE)
<1>4. /\ r \in IdSet /\ r.st = cm[i].st /\ r.osd = cm[i].osd /\ r.qp = cm[i].qp
      /\ r.timer = cm[i].timer /\ r.asked = cm[i].asked /\ r.dead = TRUE
  BY <1>3 DEF IdSet
<1>5. cm' = [cm EXCEPT ![i] = r]
  BY <1>2
<1>6. e \in EventSet /\ e.id = i /\ e.kind = "failed" /\ e.ok = FALSE
  BY DEF CmEvent, EventSet, Kinds
<1>7. cm[i].st \notin {"free", "request"}
  BY <1>2 DEF Connecting
<1> HIDE DEF r, e
<1>8. Fits(r, e) /\ \A f \in EventSet : Fits(cm[i], f) => Fits(r, f)
  BY <1>4, <1>6, <1>7 DEF Fits
<1>9. events' = Append(events, e)
  BY <1>2 DEF e
<1>10. EventInv' /\ OrderInv'
  BY <1>1, <1>2, <1>5, <1>6, <1>8, <1>9, Appended
<1>11. CmTypeOK'
  <2>1. cm' \in [Ids -> IdSet]
    BY <1>1, <1>4, <1>5 DEF CmTypeOK
  <2>2. events' \in Seq(EventSet)
    BY <1>1, <1>6, <1>9, AppendOf DEF CmTypeOK
  <2> QED
    BY <1>1, <1>2, <2>1, <2>2 DEF CmTypeOK
<1>12. IdInv'
  <2>1. Sane(r, byid'[i])
    BY <1>2, <1>3, <1>4, <1>7 DEF Sane
  <2> QED
    BY <1>1, <1>2, <1>5, <2>1, SaneStep
<1>13. CmExact'
  <2>1. Tries(r) = Tries(cm[i])
    BY <1>4 DEF Tries
  <2> QED
    BY <1>2, <1>4, <1>5, <1>11, <2>1, SameCounts
<1> QED
  BY <1>10, <1>11, <1>12, <1>13 DEF CmInv

LEMMA RequestStep ==
  ASSUME CmInv, NEW i \in Ids, CmRequest(i)
  PROVE  CmInv'
<1>1. CmTypeOK /\ IdInv /\ EventInv /\ OrderInv /\ CmExact
  BY DEF CmInv
<1>2. /\ cm[i].st = "free"
      /\ cm' = [cm EXCEPT ![i] = [FreeId EXCEPT !.st = "request"]]
      /\ events' = Append(events, CmEvent("request", i, TRUE))
      /\ UNCHANGED <<byid, copied, phase, used, attempts, ended>>
  BY DEF CmRequest
<1>3. cm[i] = FreeId /\ byid[i] # "client"
  BY <1>1, <1>2 DEF IdInv, Sane
<1> DEFINE r == [FreeId EXCEPT !.st = "request"]
           e == CmEvent("request", i, TRUE)
<1>4. /\ r \in IdSet /\ r.st = "request" /\ r.osd = NoOsd /\ r.qp = FALSE
      /\ r.timer = FALSE /\ r.asked = FALSE /\ r.dead = FALSE
  BY DEF FreeId, IdSet, CmStates
<1>5. cm' = [cm EXCEPT ![i] = r]
  BY <1>2
<1>6. e \in EventSet /\ e.id = i /\ e.kind = "request"
  BY DEF CmEvent, EventSet, Kinds
<1>7. FreeId.qp = FALSE /\ FreeId.timer = FALSE /\ FreeId.osd = NoOsd /\ FreeId.st = "free"
  BY DEF FreeId
<1> HIDE DEF r, e
<1>8. Fits(r, e) /\ \A f \in EventSet : ~Fits(cm[i], f)
  BY <1>2, <1>4, <1>6, FitsFree DEF Fits
<1>9. events' = Append(events, e)
  BY <1>2 DEF e
<1>10. EventInv' /\ OrderInv'
  BY <1>1, <1>2, <1>5, <1>6, <1>8, <1>9, Appended
<1>11. CmTypeOK'
  <2>1. cm' \in [Ids -> IdSet]
    BY <1>1, <1>4, <1>5 DEF CmTypeOK
  <2>2. events' \in Seq(EventSet)
    BY <1>1, <1>6, <1>9, AppendOf DEF CmTypeOK
  <2> QED
    BY <1>1, <1>2, <2>1, <2>2 DEF CmTypeOK
<1>12. IdInv'
  <2>1. Sane(r, byid'[i])
    BY <1>2, <1>3, <1>4 DEF Sane
  <2> QED
    BY <1>1, <1>2, <1>5, <2>1, SaneStep
<1>13. CmExact'
  <2>1. Tries(r) = Tries(cm[i])
    BY <1>3, <1>4, <1>7 DEF Tries
  <2>2. r.qp = cm[i].qp /\ r.timer = cm[i].timer /\ r.osd = cm[i].osd
    BY <1>3, <1>4, <1>7
  <2> QED
    BY <1>2, <1>4, <1>5, <1>11, <2>1, <2>2, SameCounts
<1> QED
  BY <1>10, <1>11, <1>12, <1>13 DEF CmInv

\* A queue pair is created for an id that has none.
LEMMA QpStep ==
  ASSUME CmInv, CmTypeOK', NEW i \in Ids, NEW st \in {"route", "accept"}, CreateQp(i, st),
         ~cm[i].qp, Tries(cm[i]) \/ cm[i].osd = NoOsd, UNCHANGED <<attempts, ended>>
  PROVE  CmExact'
<1>1. CmTypeOK /\ CmExact
  BY DEF CmInv
<1>2. cm[i] \in IdSet /\ used \in Int /\ Share \in Nat
  BY <1>1, RdmaCmAssumption DEF CmTypeOK
<1> DEFINE r == [cm[i] EXCEPT !.st = st, !.qp = TRUE, !.timer = TRUE, !.asked = TRUE]
<1>3. /\ r \in IdSet /\ r.st = st /\ r.osd = cm[i].osd /\ r.qp = TRUE /\ r.timer = TRUE
  BY <1>2 DEF IdSet, CmStates
<1>4. cm' = [cm EXCEPT ![i] = r] /\ used' = used + Share
  BY DEF CreateQp, Reserve
<1> HIDE DEF r
<1>5. Tries(r)
  BY <1>3 DEF Tries
<1>6. used' = used + Share * (One(r.qp) - One(cm[i].qp))
  <2>1. One(r.qp) = 1 /\ One(cm[i].qp) = 0
    BY <1>3 DEF One
  <2>2. Share * (1 - 0) = Share
    BY <1>2
  <2> QED
    BY <1>4, <2>1, <2>2
<1>7. ASSUME NEW o \in CmOsds
      PROVE  attempts'[o] - ended'[o] = attempts[o] - ended[o] + One(Tries(r) /\ r.osd = o)
                                        - One(Tries(cm[i]) /\ cm[i].osd = o)
  <2> DEFINE y == One(Tries(cm[i]) /\ cm[i].osd = o)
  <2>1. o # NoOsd
    BY RdmaCmAssumption
  <2>2. (Tries(r) /\ r.osd = o) <=> (Tries(cm[i]) /\ cm[i].osd = o)
    BY <1>3, <1>5, <2>1
  <2>3. One(Tries(r) /\ r.osd = o) = y
    BY <2>2 DEF One
  <2>4. y \in Int /\ attempts[o] \in Nat /\ ended[o] \in Nat
    BY <1>1 DEF One, CmTypeOK
  <2> HIDE DEF y
  <2>5. attempts[o] - ended[o] = attempts[o] - ended[o] + y - y
    BY <2>4
  <2> QED
    BY <2>3, <2>5 DEF y
<1> QED
  BY <1>1, <1>3, <1>4, <1>5, <1>6, <1>7, ExactStep

\* A request is accepted, or its id is destroyed.
LEMMA AcceptStep ==
  ASSUME CmInv, phase = "read", events # << >>, Head(events).kind = "request",
         CmAccept(Head(events).id), UNCHANGED <<byid, copied, phase, attempts, ended>>
  PROVE  CmInv'
<1> DEFINE e == Head(events)
           i == e.id
           t == Tail(events)
<1>1. CmTypeOK /\ IdInv /\ EventInv /\ OrderInv /\ CmExact
  BY DEF CmInv
<1>2. events \in Seq(EventSet) /\ copied \in Seq(EventSet) /\ cm \in [Ids -> IdSet]
  BY <1>1 DEF CmTypeOK
<1>3. /\ t \in Seq(EventSet) /\ e = events[1] /\ 1 \in DOMAIN events
      /\ \A p \in DOMAIN t : p \in Nat /\ p + 1 \in DOMAIN events /\ p + 1 > 1 /\ t[p] = events[p + 1]
  BY <1>2, TailOf
<1>4. /\ \A p \in DOMAIN events : events[p] \in EventSet /\ events[p].id \in Ids
      /\ \A p \in DOMAIN copied : copied[p] \in EventSet /\ copied[p].id \in Ids
  BY <1>2, MemberOf
<1>5. i \in Ids /\ e.kind = "request"
  BY <1>3, <1>4
<1>6. cm[i].st = "request"
  BY <1>1, <1>3, <1>5 DEF EventInv, Fits
<1>7. cm[i] \in IdSet /\ ~cm[i].qp /\ ~cm[i].asked /\ cm[i].osd = NoOsd /\ byid[i] # "client" /\ ~Tries(cm[i])
  BY <1>1, <1>2, <1>5, <1>6 DEF IdInv, Sane, Tries
<1>8. CmAccept(i) /\ phase = "read"
  OBVIOUS
<1> HIDE DEF e, i, t
<1>9. \A p \in DOMAIN t : t[p].id = i => t[p].kind = "gone"
  <2> SUFFICES ASSUME NEW p \in DOMAIN t, t[p].id = i, t[p].kind # "gone"
               PROVE  FALSE
    OBVIOUS
  <2>1. p + 1 \in DOMAIN events /\ 1 < p + 1 /\ t[p] = events[p + 1]
    BY <1>3
  <2>2. Fits(cm[i], events[p + 1])
    BY <1>1, <2>1 DEF EventInv
  <2>3. events[p + 1].kind = "request"
    BY <1>6, <2>2, FitsFree
  <2>4. events[p + 1].kind \in Last
    BY <1>1, <1>3, <1>5, <2>1 DEF OrderInv, i
  <2> QED
    BY <2>3, <2>4 DEF Last
<1>10. \A p \in DOMAIN copied : copied[p].id # i
  <2> SUFFICES ASSUME NEW p \in DOMAIN copied, copied[p].id = i
               PROVE  FALSE
    OBVIOUS
  <2>1. Fits(cm[i], copied[p]) /\ copied[p].kind # "request"
    BY <1>1, <1>8 DEF EventInv
  <2> QED
    BY <1>6, <2>1, FitsFree
\* Whatever becomes of the id, the other events are the same.
<1>11. ASSUME NEW r, cm' = [cm EXCEPT ![i] = r], DOMAIN events' = DOMAIN t,
              \A p \in DOMAIN t : /\ t[p].id = i => events'[p].id = i /\ events'[p].kind = "gone"
                                  /\ t[p].id # i => events'[p] = t[p]
       PROVE  EventInv' /\ OrderInv'
  <2>1. \A j \in Ids : j # i => cm'[j] = cm[j]
    BY <1>2, <1>11
  <2>2. EventInv'
    <3>1. ASSUME NEW p \in DOMAIN events', events'[p].kind # "gone"
          PROVE  Fits(cm'[events'[p].id], events'[p])
      <4>1. t[p].id # i /\ events'[p] = t[p] /\ t[p] = events[p + 1] /\ p + 1 \in DOMAIN events
        BY <1>3, <1>11, <3>1
      <4> QED
        BY <1>1, <1>4, <2>1, <3>1, <4>1 DEF EventInv
    <3>2. \A p \in DOMAIN copied : Fits(cm'[copied[p].id], copied[p])
      BY <1>1, <1>4, <1>8, <1>10, <2>1 DEF EventInv
    <3> QED
      BY <1>1, <3>1, <3>2 DEF EventInv
  <2>3. OrderInv'
    <3>1. ASSUME NEW p \in DOMAIN events', NEW q \in DOMAIN events', p < q, events'[p].id = events'[q].id,
                 events'[p].kind # "gone"
          PROVE  events'[q].kind \in Last
      <4>1. t[p].id # i /\ events'[p] = t[p] /\ t[p] = events[p + 1] /\ p + 1 \in DOMAIN events /\ p \in Nat
        BY <1>3, <1>11, <3>1
      <4>2. t[q].id # i /\ events'[q] = t[q] /\ t[q] = events[q + 1] /\ q + 1 \in DOMAIN events /\ q \in Nat
        BY <1>3, <1>11, <3>1, <4>1
      <4>3. p + 1 < q + 1
        BY <3>1, <4>1, <4>2
      <4> QED
        BY <1>1, <3>1, <4>1, <4>2, <4>3 DEF OrderInv
    <3>2. ASSUME NEW p \in DOMAIN copied, NEW q \in DOMAIN events', copied[p].id = events'[q].id
          PROVE  events'[q].kind \in Last
      <4>1. t[q].id # i
        BY <1>10, <1>11, <3>2
      <4>2. events'[q] = events[q + 1] /\ q + 1 \in DOMAIN events
        BY <1>3, <1>11, <4>1
      <4> QED
        BY <1>1, <1>8, <3>2, <4>2 DEF OrderInv
    <3> QED
      BY <1>1, <3>1, <3>2 DEF OrderInv
  <2> QED
    BY <2>2, <2>3
<1>12. ASSUME CreateQp(i, "accept"), events' = t
       PROVE  CmInv'
  <2> DEFINE r == [cm[i] EXCEPT !.st = "accept", !.qp = TRUE, !.timer = TRUE, !.asked = TRUE]
  <2>1. /\ r \in IdSet /\ r.st = "accept"
    BY <1>7 DEF IdSet, CmStates
  <2>2. cm' = [cm EXCEPT ![i] = r] /\ used' = used + Share
    BY <1>12 DEF CreateQp, Reserve
  <2> HIDE DEF r
  <2>3. CmTypeOK'
    <3>1. cm' \in [Ids -> IdSet]
      BY <1>2, <2>1, <2>2
    <3>2. used' \in Int
      BY <1>1, <2>2, RdmaCmAssumption DEF CmTypeOK
    <3> QED
      BY <1>1, <1>3, <1>12, <3>1, <3>2 DEF CmTypeOK
  <2>4. IdInv'
    <3>1. Sane(r, byid'[i])
      BY <1>7, <2>1 DEF Sane
    <3> QED
      BY <1>1, <1>5, <2>2, <3>1, SaneStep
  <2>5. EventInv' /\ OrderInv'
    <3>1. \A p \in DOMAIN t : /\ t[p].id = i => events'[p].id = i /\ events'[p].kind = "gone"
                              /\ t[p].id # i => events'[p] = t[p]
      BY <1>9, <1>12
    <3> QED
      BY <1>11, <1>12, <2>2, <3>1
  <2>6. CmExact'
    BY <1>5, <1>7, <1>12, <2>3, QpStep
  <2> QED
    BY <2>3, <2>4, <2>5, <2>6 DEF CmInv
<1>13. ASSUME cm' = [cm EXCEPT ![i] = FreeId], events' = Without(t, i), used' = used
       PROVE  CmInv'
  <2>1. CmTypeOK'
    <3>1. cm' \in [Ids -> IdSet]
      BY <1>2, <1>13, FreeIdSet
    <3>2. events' \in Seq(EventSet)
      BY <1>3, <1>5, <1>13, WithoutOf
    <3> QED
      BY <1>1, <1>13, <3>1, <3>2 DEF CmTypeOK
  <2>2. IdInv'
    <3>1. Sane(FreeId, byid'[i])
      BY <1>7, FreeIdSet DEF Sane
    <3> QED
      BY <1>1, <1>5, <1>13, <3>1, SaneStep
  <2>3. EventInv' /\ OrderInv'
    <3>1. /\ DOMAIN events' = DOMAIN t
          /\ \A p \in DOMAIN t : /\ t[p].id = i => events'[p].id = i /\ events'[p].kind = "gone"
                                 /\ t[p].id # i => events'[p] = t[p]
      BY <1>3, <1>5, <1>13, WithoutOf
    <3> QED
      BY <1>11, <1>13, <3>1
  <2>4. CmExact'
    <3>1. cm[i].timer = FALSE
      BY <1>1, <1>5, <1>7, IdTyped DEF CmExact, Connecting, Tries
    <3>2. FreeId \in IdSet /\ FreeId.qp = cm[i].qp /\ FreeId.timer = cm[i].timer /\ FreeId.osd = cm[i].osd
      BY <1>7, <3>1, FreeIdSet, IdTyped DEF FreeId
    <3>3. Tries(FreeId) = Tries(cm[i])
      BY <1>7, FreeIdSet DEF Tries
    <3> QED
      BY <1>5, <1>13, <2>1, <3>2, <3>3, SameCounts
  <2> QED
    BY <2>1, <2>2, <2>3, <2>4 DEF CmInv
<1> QED
  BY <1>8, <1>12, <1>13 DEF CmAccept, t

\* An event is copied, or is not reported any more.
LEMMA CopyStep ==
  ASSUME CmInv, phase = "read", events # << >>, Head(events).kind # "request", events' = Tail(events),
         copied' = IF Head(events).kind = "gone" THEN copied ELSE Append(copied, Head(events)),
         UNCHANGED <<cm, byid, phase, used, attempts, ended>>
  PROVE  CmInv'
<1> DEFINE e == Head(events)
           t == Tail(events)
           n == Len(copied) + 1
<1>1. CmTypeOK /\ IdInv /\ EventInv /\ OrderInv /\ CmExact
  BY DEF CmInv
<1>2. events \in Seq(EventSet) /\ copied \in Seq(EventSet)
  BY <1>1 DEF CmTypeOK
<1>3. /\ t \in Seq(EventSet) /\ e = events[1] /\ 1 \in DOMAIN events /\ e \in EventSet
      /\ \A p \in DOMAIN t : p \in Nat /\ p + 1 \in DOMAIN events /\ p + 1 > 1 /\ t[p] = events[p + 1]
  BY <1>2, TailOf
<1>4. /\ Append(copied, e) \in Seq(EventSet)
      /\ \A p \in DOMAIN copied : p \in Nat /\ p < n /\ Append(copied, e)[p] = copied[p]
      /\ Append(copied, e)[n] = e
      /\ \A p \in DOMAIN Append(copied, e) : p \in DOMAIN copied \/ p = n
  BY <1>2, <1>3, AppendOf
<1>5. n \in Nat
  BY <1>2
<1>6. copied' = IF e.kind = "gone" THEN copied ELSE Append(copied, e)
  OBVIOUS
<1>7. e.kind # "request" /\ events' = t /\ phase = "read" /\ phase' = "read"
  OBVIOUS
<1> HIDE DEF e, t, n
<1>8. \A p \in DOMAIN copied' : \/ p \in DOMAIN copied /\ copied'[p] = copied[p]
                                \/ p = n /\ copied'[p] = e /\ e.kind # "gone"
  BY <1>4, <1>6
<1>9. \A p \in DOMAIN copied : p < n /\ p \in Nat
  BY <1>4
<1>10. CmTypeOK'
  BY <1>1, <1>2, <1>3, <1>4, <1>6, <1>7 DEF CmTypeOK
<1>11. e.kind # "gone" => Fits(cm[e.id], e)
  BY <1>1, <1>3 DEF EventInv
<1>12. e.kind = "failed" => ~e.ok
  BY <1>11 DEF Fits
<1>13. EventInv'
  <2>1. \A p \in DOMAIN t : t[p].kind # "gone" => Fits(cm[t[p].id], t[p])
    BY <1>1, <1>3 DEF EventInv
  <2>2. ASSUME NEW p \in DOMAIN copied'
        PROVE  /\ copied'[p].kind \notin {"gone", "request"}
               /\ copied'[p].kind = "failed" => ~copied'[p].ok
               /\ Fits(cm[copied'[p].id], copied'[p])
    BY <1>1, <1>7, <1>8, <1>11, <1>12 DEF EventInv
  <2> QED
    BY <1>7, <2>1, <2>2 DEF EventInv
<1>14. OrderInv'
  <2>1. ASSUME NEW p \in DOMAIN t, NEW q \in DOMAIN t, p < q, t[p].id = t[q].id, t[p].kind # "gone"
        PROVE  t[q].kind \in Last
    <3>1. p + 1 < q + 1
      BY <1>3, <2>1
    <3> QED
      BY <1>1, <1>3, <2>1, <3>1 DEF OrderInv
  <2>2. ASSUME NEW p \in DOMAIN copied', NEW q \in DOMAIN copied', p < q, copied'[p].id = copied'[q].id
        PROVE  copied'[q].kind \in Last
    <3>1. p \in DOMAIN copied /\ copied'[p] = copied[p]
      BY <1>5, <1>8, <1>9, <2>2
    <3>2. CASE q \in DOMAIN copied /\ copied'[q] = copied[q]
      BY <1>1, <2>2, <3>1, <3>2 DEF OrderInv
    <3>3. CASE copied'[q] = e
      BY <1>1, <1>3, <1>7, <2>2, <3>1, <3>3 DEF OrderInv
    <3> QED
      BY <1>8, <3>2, <3>3
  <2>3. ASSUME NEW p \in DOMAIN copied', NEW q \in DOMAIN t, copied'[p].id = t[q].id
        PROVE  t[q].kind \in Last
    <3>1. q + 1 \in DOMAIN events /\ 1 < q + 1 /\ t[q] = events[q + 1]
      BY <1>3
    <3>2. CASE p \in DOMAIN copied /\ copied'[p] = copied[p]
      BY <1>1, <1>7, <2>3, <3>1, <3>2 DEF OrderInv
    <3>3. CASE copied'[p] = e /\ e.kind # "gone"
      BY <1>1, <1>3, <2>3, <3>1, <3>3 DEF OrderInv
    <3> QED
      BY <1>8, <3>2, <3>3
  <2> QED
    BY <1>7, <2>1, <2>2, <2>3 DEF OrderInv
<1>15. IdInv' /\ CmExact'
  BY <1>1 DEF IdInv, CmExact, Connecting
<1> QED
  BY <1>10, <1>13, <1>14, <1>15 DEF CmInv

LEMMA ReadStep ==
  ASSUME CmInv, CmRead
  PROVE  CmInv'
<1>1. phase = "read" /\ UNCHANGED <<byid, attempts, ended>>
  BY DEF CmRead
<1>2. CASE events = << >>
  <2>1. phase' = "handle" /\ UNCHANGED <<cm, events, copied, used>>
    BY <1>2 DEF CmRead
  <2>2. CmTypeOK /\ IdInv /\ EventInv /\ OrderInv /\ CmExact
    BY DEF CmInv
  <2>3. CmTypeOK'
    BY <1>1, <2>1, <2>2 DEF CmTypeOK
  <2>4. IdInv' /\ CmExact'
    BY <1>1, <2>1, <2>2 DEF IdInv, CmExact, Connecting
  <2>5. EventInv' /\ OrderInv'
    BY <1>1, <2>1, <2>2 DEF EventInv, OrderInv
  <2> QED
    BY <2>3, <2>4, <2>5 DEF CmInv
<1>3. CASE events # << >> /\ Head(events).kind = "request"
  <2>1. CmAccept(Head(events).id) /\ UNCHANGED <<copied, phase>>
    BY <1>3 DEF CmRead
  <2> QED
    BY <1>1, <1>3, <2>1, AcceptStep
<1>4. CASE events # << >> /\ Head(events).kind # "request"
  <2>1. /\ copied' = IF Head(events).kind = "gone" THEN copied ELSE Append(copied, Head(events))
        /\ events' = Tail(events) /\ UNCHANGED <<cm, used, phase>>
    BY <1>4 DEF CmRead
  <2> QED
    BY <1>1, <1>4, <2>1, CopyStep
<1> QED
  BY <1>2, <1>3, <1>4

\* What is left of the copies when the first one is taken off.
LEMMA CopiesLeft ==
  ASSUME CmInv, copied # << >>, copied' = Tail(copied)
  PROVE  /\ Head(copied) \in EventSet /\ Head(copied).id \in Ids
         /\ Head(copied).kind \in Answers \union {"failed"}
         /\ Head(copied).kind = "failed" => ~Head(copied).ok
         /\ Head(copied).kind \in Answers => Fits(cm[Head(copied).id], Head(copied))
         /\ copied' \in Seq(EventSet)
         /\ \A p \in DOMAIN copied' : p \in Nat /\ p + 1 \in DOMAIN copied /\ copied'[p] = copied[p + 1]
         /\ \A p \in DOMAIN copied' : copied'[p].id = Head(copied).id => copied'[p].kind \notin Answers
<1>1. CmTypeOK /\ EventInv /\ OrderInv
  BY DEF CmInv
<1>2. copied \in Seq(EventSet)
  BY <1>1 DEF CmTypeOK
<1> DEFINE e == Head(copied)
<1>3. /\ copied' \in Seq(EventSet) /\ e = copied[1] /\ 1 \in DOMAIN copied /\ e \in EventSet
      /\ \A p \in DOMAIN copied' : p \in Nat /\ p + 1 \in DOMAIN copied /\ p + 1 > 1 /\ copied'[p] = copied[p + 1]
  BY <1>2, TailOf
<1> HIDE DEF e
<1>4. e.id \in Ids /\ e.kind \in Kinds
  BY <1>3 DEF EventSet
<1>5. e.kind \notin {"gone", "request"} /\ (e.kind = "failed" => ~e.ok)
      /\ (e.kind \in Answers => Fits(cm[e.id], e))
  BY <1>1, <1>3 DEF EventInv
<1>6. e.kind \in Answers \union {"failed"}
  BY <1>4, <1>5 DEF Kinds, Answers
<1>7. ASSUME NEW p \in DOMAIN copied', copied'[p].id = e.id
      PROVE  copied'[p].kind \notin Answers
  <2>1. copied[p + 1].kind \in Last
    BY <1>1, <1>3, <1>7 DEF OrderInv
  <2> QED
    BY <1>3, <2>1 DEF Last, Answers
<1> QED
  BY <1>3, <1>4, <1>5, <1>6, <1>7 DEF e

\* A copied event that nobody waits for.
LEMMA IgnoreStep ==
  ASSUME CmInv, phase = "handle", copied # << >>, copied' = Tail(copied), CmIgnore,
         UNCHANGED <<phase, attempts>>
  PROVE  CmInv'
<1>1. CmTypeOK /\ IdInv /\ EventInv /\ OrderInv /\ CmExact
  BY DEF CmInv
<1>2. UNCHANGED <<cm, byid, events, used, ended>>
  BY DEF CmIgnore
<1>3. /\ copied' \in Seq(EventSet)
      /\ \A p \in DOMAIN copied' : p \in Nat /\ p + 1 \in DOMAIN copied /\ copied'[p] = copied[p + 1]
  BY CopiesLeft
<1>4. CmTypeOK'
  BY <1>1, <1>2, <1>3 DEF CmTypeOK
<1>5. IdInv' /\ CmExact'
  BY <1>1, <1>2 DEF IdInv, CmExact, Connecting
<1>6. EventInv'
  BY <1>1, <1>2, <1>3 DEF EventInv
<1>7. OrderInv'
  <2>1. ASSUME NEW p \in DOMAIN copied', NEW q \in DOMAIN copied', p < q, copied'[p].id = copied'[q].id
        PROVE  copied'[q].kind \in Last
    <3>1. p + 1 < q + 1
      BY <1>3, <2>1
    <3> QED
      BY <1>1, <1>3, <2>1, <3>1 DEF OrderInv
  <2>2. ASSUME NEW p \in DOMAIN copied', NEW q \in DOMAIN events, copied'[p].id = events[q].id,
               copied'[p].kind \in Answers
        PROVE  events[q].kind \in Last
    BY <1>1, <1>3, <2>2 DEF OrderInv
  <2> QED
    BY <1>1, <1>2, <2>1, <2>2 DEF OrderInv
<1> QED
  BY <1>4, <1>5, <1>6, <1>7 DEF CmInv

\* The address or the route is resolved and the next step is begun.
LEMMA ResolvedStep ==
  ASSUME CmInv, phase = "handle", copied # << >>, copied' = Tail(copied),
         NEW st \in {"route", "connect"}, Head(copied).kind = (IF st = "route" THEN "addr" ELSE "route"),
         IF st = "route" THEN CreateQp(Head(copied).id, st)
         ELSE cm' = [cm EXCEPT ![Head(copied).id].st = st, ![Head(copied).id].asked = TRUE] /\ used' = used,
         UNCHANGED <<byid, events, phase, attempts, ended>>
  PROVE  CmInv'
<1> DEFINE e == Head(copied)
           i == e.id
<1>1. CmTypeOK /\ IdInv /\ EventInv /\ OrderInv /\ CmExact
  BY DEF CmInv
<1>2. i \in Ids /\ copied' \in Seq(EventSet) /\ e.kind \in Answers /\ Fits(cm[i], e)
  BY CopiesLeft DEF Answers
<1>3. cm[i].st = e.kind /\ e.kind \in {"addr", "route"}
  BY <1>2 DEF Fits
<1>4. cm[i] \in IdSet /\ Sane(cm[i], byid[i])
  BY <1>1, <1>2 DEF CmTypeOK, IdInv
<1> DEFINE r == IF st = "route" THEN [cm[i] EXCEPT !.st = st, !.qp = TRUE, !.timer = TRUE, !.asked = TRUE]
                ELSE [cm[i] EXCEPT !.st = st, !.asked = TRUE]
<1>5. /\ r \in IdSet /\ r.st = st /\ r.osd = cm[i].osd /\ r.dead = cm[i].dead
      /\ st = "connect" => r.qp = cm[i].qp /\ r.timer = cm[i].timer
  BY <1>4 DEF IdSet, CmStates
<1>6. cm' = [cm EXCEPT ![i] = r]
  BY DEF CreateQp, Reserve
<1>7. \A f \in EventSet : f.kind = "failed" /\ Fits(cm[i], f) => Fits(r, f)
  BY <1>3, <1>5 DEF Fits
<1>8. used' \in Int
  BY <1>1, RdmaCmAssumption DEF CmTypeOK, CreateQp, Reserve
<1>9. byid[i] # "client"
  BY <1>3, <1>4 DEF Sane
<1>10. EventInv' /\ OrderInv'
  <2> HIDE DEF r
  <2>1. \A f \in EventSet : f.kind = "failed" /\ Fits(cm[Head(copied).id], f) => Fits(r, f)
    BY <1>7
  <2>2. Head(copied).kind \in Answers /\ cm' = [cm EXCEPT ![Head(copied).id] = r]
    BY <1>2, <1>6
  <2> QED
    BY <1>1, <2>1, <2>2, Handled
<1> HIDE DEF r
<1>11. CmTypeOK'
  <2>1. cm' \in [Ids -> IdSet]
    BY <1>1, <1>5, <1>6 DEF CmTypeOK
  <2> QED
    BY <1>1, <1>2, <1>8, <2>1 DEF CmTypeOK
<1>12. IdInv'
  <2>1. Sane(r, byid'[i])
    BY <1>5, <1>9 DEF Sane
  <2> HIDE DEF i
  <2> QED
    BY <1>1, <1>2, <1>6, <2>1, SaneStep
<1>13. Tries(cm[i])
  BY <1>3 DEF Tries
<1>14. CASE st = "route"
  <2>1. ~cm[i].qp
    BY <1>3, <1>4, <1>14 DEF Sane
  <2>2. CreateQp(i, st)
    BY <1>14
  <2> HIDE DEF i
  <2>3. CmExact'
    BY <1>2, <1>11, <1>13, <1>14, <2>1, <2>2, QpStep
  <2> QED
    BY <1>10, <1>11, <1>12, <2>3 DEF CmInv
<1>15. CASE st = "connect"
  <2>1. Tries(r) = Tries(cm[i])
    BY <1>5, <1>13, <1>15 DEF Tries
  <2>2. used' = used
    BY <1>15
  <2> HIDE DEF i
  <2>3. CmExact'
    BY <1>2, <1>5, <1>6, <1>11, <1>15, <2>1, <2>2, SameCounts
  <2> QED
    BY <1>10, <1>11, <1>12, <2>3 DEF CmInv
<1> QED
  BY <1>14, <1>15

\* The connection is established: its attempt ends.
LEMMA UpStep ==
  ASSUME CmInv, phase = "handle", copied # << >>, copied' = Tail(copied), Head(copied).kind = "established",
         cm' = [cm EXCEPT ![Head(copied).id].st = "up", ![Head(copied).id].timer = FALSE],
         byid' = [byid EXCEPT ![Head(copied).id] = "client"], EndAttempt(cm[Head(copied).id].osd),
         UNCHANGED <<events, used, phase, attempts>>
  PROVE  CmInv'
<1> DEFINE e == Head(copied)
           i == e.id
<1>1. CmTypeOK /\ IdInv /\ EventInv /\ OrderInv /\ CmExact
  BY DEF CmInv
<1>2. i \in Ids /\ copied' \in Seq(EventSet) /\ e.kind \in Answers /\ Fits(cm[i], e)
  BY CopiesLeft DEF Answers
<1>3. cm[i].st \in {"connect", "accept"} /\ ~cm[i].asked
  BY <1>2 DEF Fits
<1>4. cm[i] \in IdSet /\ Tries(cm[i])
  BY <1>1, <1>2, <1>3 DEF CmTypeOK, Tries
<1> DEFINE r == [cm[i] EXCEPT !.st = "up", !.timer = FALSE]
<1>5. /\ r \in IdSet /\ r.st = "up" /\ r.timer = FALSE /\ r.osd = cm[i].osd /\ r.dead = cm[i].dead
      /\ r.qp = cm[i].qp /\ r.asked = cm[i].asked
  BY <1>4 DEF IdSet, CmStates
<1>6. cm' = [cm EXCEPT ![i] = r]
  OBVIOUS
<1>7. \A f \in EventSet : f.kind = "failed" /\ Fits(cm[i], f) => Fits(r, f)
  BY <1>3, <1>5 DEF Fits
<1> HIDE DEF r
<1>8. EventInv' /\ OrderInv'
  <2>1. \A f \in EventSet : f.kind = "failed" /\ Fits(cm[Head(copied).id], f) => Fits(r, f)
    BY <1>7
  <2>2. Head(copied).kind \in Answers /\ cm' = [cm EXCEPT ![Head(copied).id] = r]
    BY <1>2, <1>6
  <2> QED
    BY <1>1, <2>1, <2>2, Handled
<1>9. EndAttempt(cm[i].osd) /\ byid' = [byid EXCEPT ![i] = "client"]
  OBVIOUS
<1> HIDE DEF i, e
<1>10. cm[i].osd = NoOsd \/ cm[i].osd \in CmOsds
  BY <1>4, IdTyped
<1>11. ended \in [CmOsds -> Nat] /\ attempts \in [CmOsds -> Nat] /\ used \in Int /\ Share \in Int
  BY <1>1, RdmaCmAssumption DEF CmTypeOK
<1>12. CmTypeOK'
  <2>1. cm' \in [Ids -> IdSet]
    BY <1>1, <1>5, <1>6 DEF CmTypeOK
  <2>2. byid' \in [Ids -> {"none", "client", "deleted"}]
    BY <1>1, <1>9 DEF CmTypeOK
  <2>3. ended' \in [CmOsds -> Nat]
    <3> DEFINE o == cm[i].osd
    <3>1. EndAttempt(o) /\ (o = NoOsd \/ o \in CmOsds) /\ ended \in [CmOsds -> Nat]
      BY <1>9, <1>10, <1>11
    <3> HIDE DEF o
    <3>2. CASE o = NoOsd
      BY ONLY <3>1, <3>2 DEF EndAttempt
    <3>3. CASE o # NoOsd
      <4>1. ended' = [ended EXCEPT ![o] = @ + 1] /\ o \in CmOsds
        BY ONLY <3>1, <3>3 DEF EndAttempt
      <4> QED
        BY ONLY <3>1, <4>1
    <3> QED
      BY ONLY <3>2, <3>3
  <2> QED
    BY <1>1, <1>2, <2>1, <2>2, <2>3 DEF CmTypeOK
<1>13. IdInv'
  <2>1. byid'[i] = "client" /\ \A j \in Ids : j # i => byid'[j] = byid[j]
    BY <1>1, <1>2, <1>9 DEF CmTypeOK
  <2>2. Sane(r, byid'[i])
    BY <1>3, <1>5, <2>1 DEF Sane
  <2> QED
    BY <1>1, <1>2, <1>6, <2>1, <2>2, SaneStep
<1>14. CmExact'
  <2>1. ~Tries(r)
    BY <1>5 DEF Tries
  <2>2. used' = used + Share * (One(r.qp) - One(cm[i].qp))
    <3> DEFINE x == One(cm[i].qp)
    <3>1. x \in Int
      BY DEF One
    <3> HIDE DEF x
    <3>2. used = used + Share * (x - x)
      BY <1>11, <3>1
    <3> QED
      BY <1>5, <3>2 DEF x
  <2>3. ASSUME NEW o \in CmOsds
        PROVE  attempts'[o] - ended'[o] = attempts[o] - ended[o] + One(Tries(r) /\ r.osd = o)
                                          - One(Tries(cm[i]) /\ cm[i].osd = o)
    <3>1. One(Tries(r) /\ r.osd = o) = 0
      BY <2>1 DEF One
    <3>2. One(Tries(cm[i]) /\ cm[i].osd = o) = IF cm[i].osd = o THEN 1 ELSE 0
      BY <1>4 DEF One
    <3>3. ended'[o] = ended[o] + (IF cm[i].osd = o THEN 1 ELSE 0)
      <4> DEFINE d == cm[i].osd
      <4>1. EndAttempt(d) /\ (d = NoOsd \/ d \in CmOsds) /\ ended \in [CmOsds -> Nat] /\ NoOsd \notin CmOsds
        BY <1>9, <1>10, <1>11, RdmaCmAssumption
      <4> HIDE DEF d
      <4>2. CASE d = NoOsd
        <5>1. ended' = ended /\ d # o
          BY ONLY <4>1, <4>2, o \in CmOsds DEF EndAttempt
        <5> QED
          BY ONLY <4>1, <5>1, o \in CmOsds DEF d
      <4>3. CASE d # NoOsd
        <5>1. ended' = [ended EXCEPT ![d] = @ + 1] /\ d \in CmOsds
          BY ONLY <4>1, <4>3 DEF EndAttempt
        <5>2. ended'[o] = ended[o] + (IF d = o THEN 1 ELSE 0)
          BY ONLY <4>1, <5>1, o \in CmOsds
        <5> QED
          BY ONLY <5>2 DEF d
      <4> QED
        BY ONLY <4>2, <4>3
    <3>4. attempts[o] \in Nat /\ ended[o] \in Nat
      BY <1>11
    <3> QED
      BY <3>1, <3>2, <3>3, <3>4
  <2>4. r.timer <=> Tries(r)
    BY <1>5, <2>1
  <2> QED
    BY <1>1, <1>2, <1>5, <1>6, <1>12, <2>2, <2>3, <2>4, ExactStep
<1> QED
  BY <1>8, <1>12, <1>13, <1>14 DEF CmInv

LEMMA HandleStep ==
  ASSUME CmInv, CmHandle
  PROVE  CmInv'
<1> DEFINE e == Head(copied)
           i == e.id
<1>1. /\ phase = "handle" /\ copied # << >> /\ copied' = Tail(copied)
      /\ UNCHANGED <<phase, attempts>>
  BY DEF CmHandle
<1>2. /\ i \in Ids /\ e.kind \in Answers \union {"failed"} /\ (e.kind = "failed" => ~e.ok)
      /\ copied' \in Seq(EventSet)
      /\ \A p \in DOMAIN copied' : p \in Nat /\ p + 1 \in DOMAIN copied /\ copied'[p] = copied[p + 1]
      /\ \A p \in DOMAIN copied' : copied'[p].id = i => copied'[p].kind \notin Answers
  BY <1>1, CopiesLeft
<1>3. IdInv
  BY DEF CmInv
\* A client or a connecting id is destroyed.
<1>4. ASSUME NEW j \in Ids, cm[j].st = "up", CmStop(j), UNCHANGED ended
      PROVE  CmInv'
  BY <1>1, <1>2, <1>4, StopStep
<1>5. ASSUME Connecting(i), CmError(i), UNCHANGED byid
      PROVE  CmInv'
  BY <1>1, <1>2, <1>5, ErrorStep
<1>6. ASSUME CmIgnore
      PROVE  CmInv'
  BY <1>1, <1>6, IgnoreStep
<1>7. CASE e.kind = "failed" /\ byid[i] = "client"
  <2>1. CmStop(i) /\ UNCHANGED ended
    BY <1>7 DEF CmHandle
  <2>2. cm[i].st = "up"
    BY <1>2, <1>3, <1>7 DEF IdInv, Sane
  <2> QED
    BY <1>2, <1>4, <2>1, <2>2
<1>8. CASE e.kind = "failed" /\ byid[i] = "deleted"
  <2>1. CmIgnore \/ \E j \in Ids : cm[j].st = "up" /\ CmStop(j) /\ UNCHANGED ended
    BY <1>8 DEF CmHandle
  <2> QED
    BY <1>4, <1>6, <2>1
<1>9. CASE ~(e.kind = "failed" /\ byid[i] \in {"client", "deleted"})
  <2>1. IF ~Connecting(i) THEN CmIgnore
        ELSE CASE e.kind = "addr" -> CmResolved(e, "route") /\ UNCHANGED byid
               [] e.kind = "route" -> CmResolved(e, "connect") /\ UNCHANGED byid
               [] OTHER -> CmEstablished(e)
    BY <1>9 DEF CmHandle
  <2>2. CASE ~Connecting(i)
    BY <1>6, <2>1, <2>2
  <2>3. CASE Connecting(i) /\ e.kind = "addr"
    <3>1. CmResolved(e, "route") /\ UNCHANGED byid
      BY <2>1, <2>3
    <3>2. CASE CmError(i)
      BY <1>5, <2>3, <3>1, <3>2
    <3>3. CASE CreateQp(i, "route") /\ UNCHANGED <<events, ended>>
      BY <1>1, <2>3, <3>1, <3>3, ResolvedStep
    <3> QED
      BY <3>1, <3>2, <3>3 DEF CmResolved
  <2>4. CASE Connecting(i) /\ e.kind = "route"
    <3>1. CmResolved(e, "connect") /\ UNCHANGED byid
      BY <2>1, <2>4
    <3>2. CASE CmError(i)
      BY <1>5, <2>4, <3>1, <3>2
    <3>3. CASE /\ cm' = [cm EXCEPT ![i].st = "connect", ![i].asked = TRUE] /\ used' = used
               /\ UNCHANGED <<events, ended>>
      BY <1>1, <2>4, <3>1, <3>3, ResolvedStep
    <3> QED
      BY <3>1, <3>2, <3>3 DEF CmResolved
  <2>5. CASE Connecting(i) /\ e.kind \notin {"addr", "route"}
    <3>1. CmEstablished(e)
      BY <2>1, <2>5
    <3>2. CASE ~e.ok
      BY <1>5, <2>5, <3>1, <3>2 DEF CmEstablished
    <3>3. CASE e.ok
      <4>1. e.kind = "established"
        BY <1>2, <2>5, <3>3 DEF Answers
      <4> QED
        BY <1>1, <3>1, <3>3, <4>1, UpStep DEF CmEstablished
    <3> QED
      BY <3>2, <3>3
  <2> QED
    BY <2>2, <2>3, <2>4, <2>5
<1> QED
  BY <1>7, <1>8, <1>9

LEMMA IdleStep ==
  ASSUME CmInv, CmStart \/ CmHandled \/ UNCHANGED cmVars
  PROVE  CmInv'
<1>1. CmTypeOK /\ IdInv /\ EventInv /\ OrderInv /\ CmExact
  BY DEF CmInv
<1>2. /\ UNCHANGED <<cm, byid, events, copied, used, attempts, ended>>
      /\ phase' = phase \/ (copied = << >> /\ phase' \in {"idle", "read"})
  BY <1>1 DEF CmStart, CmHandled, cmVars, OrderInv
<1>3. CmTypeOK'
  BY <1>1, <1>2 DEF CmTypeOK
<1>4. IdInv' /\ CmExact'
  BY <1>1, <1>2 DEF IdInv, CmExact, Connecting
<1>5. EventInv' /\ OrderInv'
  BY <1>1, <1>2 DEF EventInv, OrderInv
<1> QED
  BY <1>3, <1>4, <1>5 DEF CmInv

-----------------------------------------------------------------------------
(* The theorems.                                                            *)

LEMMA CmInitInv ==
  ASSUME CmInit
  PROVE  CmInv
<1>1. CmTypeOK
  BY FreeIdSet DEF CmInit, CmTypeOK
<1>2. IdInv
  BY FreeIdSet DEF CmInit, IdInv, Sane
<1>3. EventInv /\ OrderInv
  BY DEF CmInit, EventInv, OrderInv
<1>4. CmExact
  <2>1. {i \in Ids : cm[i].qp} = {}
    BY FreeIdSet DEF CmInit
  <2>2. \A i \in Ids : ~cm[i].timer /\ ~Connecting(i)
    BY FreeIdSet DEF CmInit, Connecting
  <2>3. \A o \in CmOsds : {i \in Ids : Connecting(i) /\ cm[i].osd = o} = {}
    BY <2>2
  <2>4. Cardinality({}) = 0 /\ Share * 0 = 0
    BY FS_EmptySet, RdmaCmAssumption
  <2>5. used = Share * Cardinality({i \in Ids : cm[i].qp})
    <3>1. used = 0
      BY DEF CmInit
    <3> QED
      BY ONLY <2>1, <2>4, <3>1
  <2>6. ASSUME NEW o \in CmOsds
        PROVE  attempts[o] - ended[o] = Cardinality({i \in Ids : Connecting(i) /\ cm[i].osd = o})
    <3>1. attempts[o] - ended[o] = 0
      BY DEF CmInit
    <3>2. {i \in Ids : Connecting(i) /\ cm[i].osd = o} = {}
      BY <2>3
    <3> QED
      BY ONLY <2>4, <3>1, <3>2
  <2> QED
    BY <2>2, <2>5, <2>6 DEF CmExact
<1> QED
  BY <1>1, <1>2, <1>3, <1>4 DEF CmInv

LEMMA CmNextInv ==
  ASSUME CmInv, [CmNext]_cmVars
  PROVE  CmInv'
<1>1. ASSUME NEW i \in Ids, CmTimeout(i)
      PROVE  CmInv'
  <2>1. /\ phase = "idle" /\ cm[i].timer /\ CmError(i)
        /\ UNCHANGED <<byid, copied, phase, attempts>>
    BY <1>1 DEF CmTimeout
  <2>2. Connecting(i) /\ copied = << >> /\ copied \in Seq(EventSet)
    BY <2>1 DEF CmInv, CmExact, OrderInv, CmTypeOK
  <2>3. DOMAIN copied' = {} /\ copied' \in Seq(EventSet) /\ copied' = << >>
    BY <2>1, <2>2
  <2> QED
    BY <2>1, <2>2, <2>3, ErrorStep
<1>2. ASSUME NEW i \in Ids, CmClientStops(i)
      PROVE  CmInv'
  <2>1. /\ phase = "idle" /\ cm[i].st = "up" /\ CmStop(i)
        /\ UNCHANGED <<copied, phase, attempts, ended>>
    BY <1>2 DEF CmClientStops
  <2>2. copied = << >> /\ copied \in Seq(EventSet)
    BY <2>1 DEF CmInv, OrderInv, CmTypeOK
  <2>3. DOMAIN copied' = {} /\ copied' \in Seq(EventSet) /\ copied' = << >>
    BY <2>1, <2>2
  <2> QED
    BY <2>1, <2>3, StopStep
<1> QED
  BY <1>1, <1>2, TryStep, AnswerStep, BreakStep, RequestStep, ReadStep, HandleStep, IdleStep DEF CmNext

(* The inductive invariant holds in every reachable state: every answer     *)
(* that handle_rdmacm_events finds among its copies belongs to the id that  *)
(* asked for it, in the state in which it asked.                            *)
THEOREM CmInvariant == CmSpec => []CmInv
<1>1. CmInit => CmInv
  BY CmInitInv
<1>2. CmInv /\ [CmNext]_cmVars => CmInv'
  BY CmNextInv
<1> QED
  BY <1>1, <1>2, PTL DEF CmSpec

(* used_max_cqe is the share of the queue pairs that exist, exactly the ids *)
(* that connect have a timer, and an attempt is held by one id until it     *)
(* ends, once, although handle_rdmacm_events works on copied events whose   *)
(* ids may be destroyed and used again meanwhile.                           *)
THEOREM CmAlwaysExact == CmSpec => []CmExact
<1>1. CmInv => CmExact
  BY DEF CmInv
<1> QED
  BY <1>1, CmInvariant, PTL

==============================================================================
