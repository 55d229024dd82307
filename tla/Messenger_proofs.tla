------------------------- MODULE Messenger_proofs -------------------------
(***************************************************************************)
(* The callback of an operation runs once and a reply goes to where its    *)
(* request came from, for every number of connections, descriptors, OSDs,  *)
(* operations, requests and faults.                                        *)
(***************************************************************************)
EXTENDS Messenger, FiniteSetTheorems, TLAPS

-----------------------------------------------------------------------------
(* Lists, that is sequences whose elements have no common set.             *)

IsList(s) == Len(s) \in Nat /\ s = [i \in 1..Len(s) |-> s[i]]
LEMMA IsSeq == ASSUME NEW S, NEW s \in Seq(S) PROVE IsList(s)
BY DEF IsList
LEMMA ListCat ==
  ASSUME NEW p, NEW s, IsList(p), IsList(s)
  PROVE  /\ IsList(p \o s) /\ Len(p \o s) = Len(p) + Len(s)
         /\ \A i \in 1..Len(p) : (p \o s)[i] = p[i]
         /\ \A i \in 1..Len(s) : (p \o s)[Len(p) + i] = s[i]
<1> DEFINE S == {p[i] : i \in 1..Len(p)} \union {s[i] : i \in 1..Len(s)}
<1>1. p \in Seq(S) /\ s \in Seq(S)
  BY DEF IsList
<1> HIDE DEF S
<1>2. p \o s \in Seq(S)
  BY <1>1
<1>3. IsList(p \o s)
  BY <1>2, IsSeq
<1> QED BY <1>1, <1>3
LEMMA ListTail ==
  ASSUME NEW s, IsList(s), s # << >>
  PROVE  /\ IsList(Tail(s)) /\ Len(s) \in Nat /\ Len(s) > 0 /\ Len(Tail(s)) = Len(s) - 1 /\ Head(s) = s[1]
         /\ \A i \in 1..(Len(s) - 1) : Tail(s)[i] = s[i + 1]
<1> DEFINE S == {s[i] : i \in 1..Len(s)}
<1>1. s \in Seq(S)
  BY DEF IsList
<1> HIDE DEF S
<1>2. Tail(s) \in Seq(S)
  BY <1>1
<1>3. IsList(Tail(s))
  BY <1>2, IsSeq
<1> QED BY <1>1, <1>3
LEMMA ListSub ==
  ASSUME NEW s, IsList(s), NEW m \in 1..(Len(s) + 1), NEW n \in 0..Len(s), m <= n + 1
  PROVE  /\ IsList(SubSeq(s, m, n)) /\ Len(SubSeq(s, m, n)) = n - m + 1
         /\ \A i \in 1..(n - m + 1) : SubSeq(s, m, n)[i] = s[m + i - 1]
<1> DEFINE S == {s[i] : i \in 1..Len(s)}
<1>1. s \in Seq(S)
  BY DEF IsList
<1> HIDE DEF S
<1>4. Len(s) \in Nat /\ m \in Nat /\ n \in Nat
  BY <1>1
<1>2. SubSeq(s, m, n) \in Seq(S)
  BY <1>1, <1>4
<1>3. IsList(SubSeq(s, m, n))
  BY <1>2, IsSeq
<1> QED BY <1>1, <1>3, <1>4
LEMMA ListAppend ==
  ASSUME NEW s, IsList(s), NEW a
  PROVE  /\ IsList(Append(s, a)) /\ Len(Append(s, a)) = Len(s) + 1
         /\ \A i \in 1..Len(s) : Append(s, a)[i] = s[i]
         /\ Append(s, a)[Len(s) + 1] = a
<1> DEFINE S == {s[i] : i \in 1..Len(s)} \union {a}
<1>1. s \in Seq(S) /\ a \in S
  BY DEF IsList
<1> HIDE DEF S
<1>2. Append(s, a) \in Seq(S)
  BY <1>1
<1>3. IsList(Append(s, a))
  BY <1>2, IsSeq
<1> QED BY <1>1, <1>3
LEMMA ListOne ==
  /\ IsList(<< >>) /\ Len(<< >>) = 0
  /\ \A a : IsList(<<a>>) /\ Len(<<a>>) = 1 /\ <<a>>[1] = a
  /\ \A a, b : IsList(<<a, b>>) /\ Len(<<a, b>>) = 2 /\ <<a, b>>[1] = a /\ <<a, b>>[2] = b
BY DEF IsList
LEMMA ListEmpty ==
  ASSUME NEW s, IsList(s)
  PROVE  s = << >> <=> Len(s) = 0
BY DEF IsList
LEMMA ListSame ==
  ASSUME NEW s, NEW t, IsList(s), IsList(t), Len(s) = Len(t), \A i \in 1..Len(s) : s[i] = t[i]
  PROVE  s = t
BY DEF IsList

-----------------------------------------------------------------------------
(* The shape of the records that the actions update. *)
ConnShape ==
  /\ conn = [c \in Conns |-> conn[c]]
  /\ \A c \in Conns : DOMAIN conn[c] = {"st", "fd", "osd", "inosd", "ping", "idle", "refs"}

ReadShape ==
  /\ rd = [c \in Conns |-> rd[c]]
  /\ \A c \in Conns : /\ DOMAIN rd[c] = {"ready", "q", "busy", "full", "eof", "got", "op"}
                      /\ IsList(rd[c].got)

WriteShape ==
  /\ wr = [c \in Conns |-> wr[c]]
  /\ \A c \in Conns :
       /\ DOMAIN wr[c] = {"box", "next", "n", "state", "q", "res", "held", "zc"}
       /\ IsList(wr[c].box) /\ IsList(wr[c].next) /\ IsList(wr[c].held) /\ IsList(wr[c].zc)

NetShape ==
  /\ net = [c \in Conns |-> net[c]]
  /\ \A c \in Conns : DOMAIN net[c] = {"in", "edge", "peer", "out"} /\ IsList(net[c].in)

OpsShape ==
  /\ sent = [c \in Conns |-> sent[c]] /\ received = [c \in Conns |-> received[c]]
  /\ \A c \in Conns : sent[c] \subseteq Outgoing /\ received[c] \subseteq Reqs
  /\ called = [op \in Ops |-> called[op]] /\ pushed \subseteq Ops
  /\ req = [r \in Reqs |-> req[r]] /\ \A r \in Reqs : DOMAIN req[r] = {"st", "c", "fd"}

TableShape ==
  /\ clients = [fd \in Fds |-> clients[fd]] /\ \A fd \in Fds : clients[fd] \in Conns \union {None}
  /\ peerfd = [o \in Osds |-> peerfd[o]] /\ \A o \in Osds : peerfd[o] \in Fds \union {None}
  /\ IsList(todo) /\ IsList(imm)

Shape == ConnShape /\ ReadShape /\ WriteShape /\ NetShape /\ OpsShape /\ TableShape

-----------------------------------------------------------------------------
(* Where message x of connection c is: among the operations sent, in the   *)
(* read that waits for data, among the immediate operations, or in a call  *)
(* that cancels operations.                                                *)
IsImm(e, x, c) == e.x = x /\ e.c = c
HasImm(s, x, c) == \E i \in 1..Len(s) : IsImm(s[i], x, c)
OneImm(s, x, c) == \A i, j \in 1..Len(s) : IsImm(s[i], x, c) /\ IsImm(s[j], x, c) => i = j
IsCancel(a, x, c) == a.k = "cancel" /\ a.c = c /\ x \in a.ops
HasCancel(s, x, c) == \E i \in 1..Len(s) : IsCancel(s[i], x, c)
OneCancel(s, x, c) == \A i, j \in 1..Len(s) : IsCancel(s[i], x, c) /\ IsCancel(s[j], x, c) => i = j

Somewhere(x, c) == x \in sent[c] \/ rd[c].op.x = x \/ HasImm(imm, x, c) \/ HasCancel(todo, x, c)

(* It is in one of these places only. *)
One(x, c) ==
  /\ x \in sent[c] => ~(rd[c].op.x = x \/ HasImm(imm, x, c) \/ HasCancel(todo, x, c))
  /\ rd[c].op.x = x => ~(HasImm(imm, x, c) \/ HasCancel(todo, x, c))
  /\ ~(HasImm(imm, x, c) /\ HasCancel(todo, x, c))
  /\ OneImm(imm, x, c) /\ OneCancel(todo, x, c)

Held1 == Ops \union Reqs \union {Conf}

Fresh(op) == op \notin pushed => called[op] = 0 /\ ~Lost(op)

(* Operations: counted once; none is sent before SHOW_CONFIG is answered. *)
Holding ==
  /\ \A x \in Held1, c \in Conns : One(x, c)
  /\ \A x \in Ops \union Reqs, c, d \in Conns : Somewhere(x, c) /\ Somewhere(x, d) => c = d
  /\ \A op \in Ops : called[op] \in {0, 1} /\ (Waits(op) <=> \E c \in Conns : Somewhere(op, c))
  /\ \A op \in Ops : Fresh(op)
  /\ \A op \in Ops, c \in Conns : ~(Somewhere(op, c) /\ Somewhere(Conf, c))
  /\ \A r \in Reqs, c \in Conns : Somewhere(r, c) => req[r].st = "read" /\ req[r].c = c

-----------------------------------------------------------------------------
(* clients and osd_peer_fds lead to connections that are up. *)
Up == {"connecting", "connected"}
Gone == {"stopped", "deleted"}

Empty(c) ==
  sent[c] = {} /\ received[c] = {} /\ rd[c] = NewRead /\ wr[c] = NewWrite /\ net[c] = NewSocket

Quiet(c) ==
  /\ conn[c].st \in {"new", "connecting", "deleted"} => Empty(c)
  /\ conn[c].st \in {"new", "connecting"} => \A x \in Held1 : ~Somewhere(x, c)
  /\ conn[c].st = "stopped" => ~wr[c].q

PeerOk(o) ==
  peerfd[o] # None =>
    /\ clients[peerfd[o]] \in Conns
    /\ conn[clients[peerfd[o]]].osd = o /\ conn[clients[peerfd[o]]].st = "connected"
    /\ ~Somewhere(Conf, clients[peerfd[o]])

ConnOk(c) ==
  /\ conn[c].st \in ConnStates
  /\ conn[c].st \in Up => conn[c].fd \in Fds /\ clients[conn[c].fd] = c
  /\ conn[c].st = "stopped" => conn[c].fd \in Fds

Links ==
  /\ \A fd \in Fds : clients[fd] # None => conn[clients[fd]].fd = fd /\ conn[clients[fd]].st \in Up
  /\ \A c \in Conns : ConnOk(c) /\ Quiet(c)
  /\ \A o \in Osds : PeerOk(o)

-----------------------------------------------------------------------------
(* The calls that are still to be made.  The ones that handle what was     *)
(* read come last.                                                         *)
Lasting == {"parse", "imm", "clear"}

CallOk(a) ==
  /\ a.k \in Lasting \union {"stop", "delete", "cancel", "try", "fail", "tick", "user"}
  /\ a.k = "stop" => a.fd \in Fds
  /\ a.k = "delete" => a.c \in Conns /\ conn[a.c].st \in Gone
  /\ a.k = "cancel" => a.c \in Conns /\ a.fd \in Fds /\ a.ops \subseteq Outgoing
  /\ a.k = "tick" => a.fds \subseteq Fds

ParseOk(a) ==
  /\ a.c \in Conns /\ IsList(a.parts) /\ a.parts # << >>
  /\ conn[a.c].st = "connected" /\ rd[a.c].got = << >> /\ ~rd[a.c].busy
  /\ \A i \in 1..Len(imm) : imm[i].c = a.c /\ imm[i].fd = conn[a.c].fd

Final == todo[Len(todo)]

ImmOk(e) == e.c \in Conns /\ e.fd \in Fds /\ e.x \in Outgoing \union Reqs

Phases ==
  /\ \A i \in 1..Len(todo) : CallOk(todo[i]) /\ (todo[i].k \in Lasting => i = Len(todo))
  /\ todo # << >> /\ Final.k = "parse" => Len(todo) = 1 /\ ParseOk(Final)
  /\ imm # << >> => todo # << >> /\ Final.k \in Lasting
  /\ todo # << >> /\ Final.k = "clear" => \A i \in 1..Len(imm) : imm[i].fd = Final.fd
  /\ \A i \in 1..Len(imm) : ImmOk(imm[i]) /\ imm[i].c = imm[1].c /\ imm[i].fd = imm[1].fd
  /\ \A i \in 1..Len(imm) : imm[i].x = Conf /\ Final.k = "imm" =>
       Len(todo) = 1 /\ conn[imm[i].c].st = "connected" /\ conn[imm[i].c].fd = imm[i].fd

-----------------------------------------------------------------------------
(* What a connection has still to parse: complete messages, except that    *)
(* the first one may be parsed up to its data.                             *)
Parsing(c) == IF todo # << >> /\ todo[1].k = "parse" /\ todo[1].c = c THEN todo[1].parts ELSE << >>
Stream(c) == Parsing(c) \o (rd[c].got \o net[c].in)
Wants(p) == p.k \in {"req", "reply"} /\ p.x \in GetsData
IsReq(p, r) == p.k = "req" /\ p.x = r

StreamOk(s, pending, q) ==
  /\ \A i \in 1..Len(s) :
       /\ s[i].k = "data" <=> IF i = 1 THEN pending ELSE Wants(s[i - 1])
       /\ s[i].k \in {"data", "bad", "req", "reply"}
       /\ s[i].k = "req" => s[i].x \in Reqs /\ q[s[i].x].st = "wire"
       /\ s[i].k = "reply" => s[i].x \in Outgoing
  /\ \A r \in Reqs : \A i, j \in 1..Len(s) : IsReq(s[i], r) /\ IsReq(s[j], r) => i = j
  /\ IF Len(s) = 0 THEN ~pending ELSE ~Wants(s[Len(s)])

(* A connection that is about to be stopped for garbage is left out. *)
Dropping(c) == Len(todo) = 2 /\ todo[1].k = "stop" /\ todo[1].fd = conn[c].fd /\ todo[2].k = "clear"
Reads(c) == conn[c].st = "connected" /\ ~Dropping(c)
HasReq(s, r) == \E i \in 1..Len(s) : IsReq(s[i], r)

ReadOk(c) ==
  /\ StreamOk(Stream(c), rd[c].op.x # None, req)
  /\ ~rd[c].busy => rd[c].got = << >>
  /\ rd[c].eof => rd[c].got = << >>

Streams ==
  /\ \A c \in Conns : Reads(c) => ReadOk(c)
  /\ \A c, d \in Conns, r \in Reqs :
       Reads(c) /\ Reads(d) /\ HasReq(Stream(c), r) /\ HasReq(Stream(d), r) => c = d

-----------------------------------------------------------------------------
(* Replies: each is once in outbox or next_outbox, or with the kernel.     *)
Ends(s, r, i) == s[i].x = r /\ s[i].last
HasEnd(s, r) == \E i \in 1..Len(s) : Ends(s, r, i)
OneEnd(s, r) == \A i, j \in 1..Len(s) : Ends(s, r, i) /\ Ends(s, r, j) => i = j
HasHeld(s, r) == \E i \in 1..Len(s) : r \in s[i]
OneHeld(s, r) == \A i, j \in 1..Len(s) : r \in s[i] /\ r \in s[j] => i = j

(* The kernel has the outbox, and keeps its buffers. *)
Pend(w) == w.n > 0 /\ w.res.zc

ReplyOk(c, w, r, q) ==
  /\ OneEnd(w.box, r) /\ OneEnd(w.next, r) /\ ~(HasEnd(w.box, r) /\ HasEnd(w.next, r))
  /\ HasEnd(w.box, r) \/ HasEnd(w.next, r) \/ HasHeld(w.held, r) => q[r].c = c /\ q[r].st = "reply"
  /\ OneHeld(w.held, r)
  /\ HasHeld(w.held, r) => ~HasEnd(w.next, r)
  /\ \A i \in 1..Len(w.held) : r \in w.held[i] /\ HasEnd(w.box, r) => Pend(w) /\ i = Len(w.held)
  /\ Pend(w) => (r \in w.held[Len(w.held)] <=> HasEnd(w.box, r))

WriteOk(c, w, q) ==
  /\ w.n \in Nat /\ (w.n > 0 => w.n = Len(w.box) /\ w.res.n \in 0..w.n)
  /\ Pend(w) => Len(w.held) > 0 /\ w.res.n = w.n /\ w.res.r = "ok"
  /\ \A r \in Reqs : ReplyOk(c, w, r, q)
  /\ \A i \in 1..Len(w.held) : w.held[i] \subseteq Reqs
  /\ \/ w.zc # << >> /\ w.zc[1] = {}
     \/ /\ Len(w.held) = Len(w.zc) + (IF Pend(w) THEN 1 ELSE 0)
        /\ \A i \in 1..Len(w.zc) : w.zc[i] = w.held[i]

Begun(r) == req[r].st \notin {"new", "wire"}

Writes ==
  /\ \A c \in Conns : conn[c].st = "connected" => WriteOk(c, wr[c], req)
  /\ \A c \in Conns : \A r \in received[c] : req[r].c = c /\ Begun(r)
  /\ \A a \in replies : a[1] \in Reqs /\ req[a[1]].c = a[2] /\ req[a[1]].st \in {"reply", "freed"}
  /\ \A r \in Reqs : Begun(r) => req[r].fd \in Fds

(* The inductive invariant. *)
MsgrInv == Shape /\ Holding /\ Links /\ Phases /\ Streams /\ Writes

-----------------------------------------------------------------------------
LEMMA CatCancel ==
  ASSUME NEW p, NEW t, IsList(p), IsList(t), \A i \in 1..Len(p) : p[i].k # "cancel"
  PROVE  \A x, c : /\ HasCancel(p \o t, x, c) <=> HasCancel(t, x, c)
                   /\ OneCancel(t, x, c) => OneCancel(p \o t, x, c)
<1> SUFFICES ASSUME NEW x, NEW c
             PROVE  /\ HasCancel(p \o t, x, c) <=> HasCancel(t, x, c)
                    /\ OneCancel(t, x, c) => OneCancel(p \o t, x, c)
  OBVIOUS
<1> DEFINE u == p \o t
<1>1. /\ IsList(u) /\ Len(u) = Len(p) + Len(t) /\ Len(p) \in Nat /\ Len(t) \in Nat
      /\ \A i \in 1..Len(p) : u[i] = p[i]
      /\ \A i \in 1..Len(t) : u[Len(p) + i] = t[i]
  BY ListCat DEF IsList
<1> HIDE DEF u
<1>2. \A i \in 1..Len(u) : IsCancel(u[i], x, c) =>
        i - Len(p) \in 1..Len(t) /\ IsCancel(t[i - Len(p)], x, c)
  <2> SUFFICES ASSUME NEW i \in 1..Len(u), IsCancel(u[i], x, c)
               PROVE  i - Len(p) \in 1..Len(t) /\ IsCancel(t[i - Len(p)], x, c)
    OBVIOUS
  <2>1. i \notin 1..Len(p)
    BY <1>1 DEF IsCancel
  <2>2. i - Len(p) \in 1..Len(t) /\ i = Len(p) + (i - Len(p))
    BY <1>1, <2>1
  <2> QED BY <1>1, <2>2
<1>3. \A i \in 1..Len(t) : IsCancel(t[i], x, c) => Len(p) + i \in 1..Len(u) /\ IsCancel(u[Len(p) + i], x, c)
  BY <1>1
<1>4. HasCancel(u, x, c) <=> HasCancel(t, x, c)
  BY <1>2, <1>3 DEF HasCancel
<1>5. ASSUME OneCancel(t, x, c), NEW i \in 1..Len(u), NEW j \in 1..Len(u), IsCancel(u[i], x, c), IsCancel(u[j], x, c)
      PROVE  i = j
  <2>1. i - Len(p) = j - Len(p)
    BY <1>2, <1>5 DEF OneCancel
  <2> QED BY <1>1, <2>1
<1> QED BY <1>4, <1>5 DEF OneCancel, u

LEMMA TailCancel ==
  ASSUME NEW s, IsList(s), s # << >>
  PROVE  \A x, c : /\ HasCancel(s, x, c) <=> IsCancel(s[1], x, c) \/ HasCancel(Tail(s), x, c)
                   /\ OneCancel(s, x, c) => /\ OneCancel(Tail(s), x, c)
                                            /\ ~(IsCancel(s[1], x, c) /\ HasCancel(Tail(s), x, c))
<1> SUFFICES ASSUME NEW x, NEW c
             PROVE  /\ HasCancel(s, x, c) <=> IsCancel(s[1], x, c) \/ HasCancel(Tail(s), x, c)
                    /\ OneCancel(s, x, c) => /\ OneCancel(Tail(s), x, c)
                                             /\ ~(IsCancel(s[1], x, c) /\ HasCancel(Tail(s), x, c))
  OBVIOUS
<1> DEFINE t == Tail(s)
<1>1. /\ Len(s) \in Nat /\ Len(s) > 0 /\ Len(t) = Len(s) - 1
      /\ \A i \in 1..(Len(s) - 1) : t[i] = s[i + 1]
  BY ListTail
<1> HIDE DEF t
<1>2. \A i \in 1..Len(t) : i + 1 \in 1..Len(s) /\ t[i] = s[i + 1]
  BY <1>1
<1>3. \A i \in 1..Len(s) : i = 1 \/ (i - 1 \in 1..Len(t) /\ s[i] = t[i - 1])
  BY <1>1
<1>4. 1 \in 1..Len(s)
  BY <1>1
<1>5. HasCancel(s, x, c) <=> IsCancel(s[1], x, c) \/ HasCancel(t, x, c)
  BY <1>2, <1>3, <1>4 DEF HasCancel
<1>6. OneCancel(s, x, c) => OneCancel(t, x, c) /\ ~(IsCancel(s[1], x, c) /\ HasCancel(t, x, c))
  <2> SUFFICES ASSUME OneCancel(s, x, c)
               PROVE  OneCancel(t, x, c) /\ ~(IsCancel(s[1], x, c) /\ HasCancel(t, x, c))
    OBVIOUS
  <2>1. ASSUME NEW i \in 1..Len(t), NEW j \in 1..Len(t), IsCancel(t[i], x, c), IsCancel(t[j], x, c)
        PROVE  i = j
    <3>1. i + 1 = j + 1
      BY <1>2, <2>1 DEF OneCancel
    <3> QED BY <1>1, <3>1
  <2>2. ASSUME NEW i \in 1..Len(t), IsCancel(t[i], x, c), IsCancel(s[1], x, c)
        PROVE  FALSE
    <3>1. i + 1 = 1
      BY <1>2, <1>4, <2>2 DEF OneCancel
    <3> QED BY <1>1, <3>1
  <2> QED BY <2>1, <2>2 DEF OneCancel, HasCancel
<1> QED BY <1>5, <1>6 DEF t

LEMMA TailImm ==
  ASSUME NEW s, IsList(s), s # << >>
  PROVE  \A x, c : /\ HasImm(s, x, c) <=> IsImm(s[1], x, c) \/ HasImm(Tail(s), x, c)
                   /\ OneImm(s, x, c) => /\ OneImm(Tail(s), x, c)
                                         /\ ~(IsImm(s[1], x, c) /\ HasImm(Tail(s), x, c))
<1> SUFFICES ASSUME NEW x, NEW c
             PROVE  /\ HasImm(s, x, c) <=> IsImm(s[1], x, c) \/ HasImm(Tail(s), x, c)
                    /\ OneImm(s, x, c) => /\ OneImm(Tail(s), x, c)
                                          /\ ~(IsImm(s[1], x, c) /\ HasImm(Tail(s), x, c))
  OBVIOUS
<1> DEFINE t == Tail(s)
<1>1. /\ Len(s) \in Nat /\ Len(s) > 0 /\ Len(t) = Len(s) - 1
      /\ \A i \in 1..(Len(s) - 1) : t[i] = s[i + 1]
  BY ListTail
<1> HIDE DEF t
<1>2. \A i \in 1..Len(t) : i + 1 \in 1..Len(s) /\ t[i] = s[i + 1]
  BY <1>1
<1>3. \A i \in 1..Len(s) : i = 1 \/ (i - 1 \in 1..Len(t) /\ s[i] = t[i - 1])
  BY <1>1
<1>4. 1 \in 1..Len(s)
  BY <1>1
<1>5. HasImm(s, x, c) <=> IsImm(s[1], x, c) \/ HasImm(t, x, c)
  BY <1>2, <1>3, <1>4 DEF HasImm
<1>6. OneImm(s, x, c) => OneImm(t, x, c) /\ ~(IsImm(s[1], x, c) /\ HasImm(t, x, c))
  <2> SUFFICES ASSUME OneImm(s, x, c)
               PROVE  OneImm(t, x, c) /\ ~(IsImm(s[1], x, c) /\ HasImm(t, x, c))
    OBVIOUS
  <2>1. ASSUME NEW i \in 1..Len(t), NEW j \in 1..Len(t), IsImm(t[i], x, c), IsImm(t[j], x, c)
        PROVE  i = j
    <3>1. i + 1 = j + 1
      BY <1>2, <2>1 DEF OneImm
    <3> QED BY <1>1, <3>1
  <2>2. ASSUME NEW i \in 1..Len(t), IsImm(t[i], x, c), IsImm(s[1], x, c)
        PROVE  FALSE
    <3>1. i + 1 = 1
      BY <1>2, <1>4, <2>2 DEF OneImm
    <3> QED BY <1>1, <3>1
  <2> QED BY <2>1, <2>2 DEF OneImm, HasImm
<1> QED BY <1>5, <1>6 DEF t

LEMMA AppendImm ==
  ASSUME NEW s, IsList(s), NEW e
  PROVE  \A x, c : /\ HasImm(Append(s, e), x, c) <=> IsImm(e, x, c) \/ HasImm(s, x, c)
                   /\ OneImm(s, x, c) /\ ~(IsImm(e, x, c) /\ HasImm(s, x, c)) => OneImm(Append(s, e), x, c)
<1> DEFINE u == Append(s, e)
           n == Len(s)
<1>1. /\ n \in Nat /\ Len(u) = n + 1 /\ u[n + 1] = e
      /\ \A i \in 1..n : u[i] = s[i]
  BY ListAppend DEF IsList
<1> HIDE DEF u
<1>2. \A i \in 1..Len(u) : i = n + 1 \/ i \in 1..n
  BY <1>1
<1>3. n + 1 \in 1..Len(u) /\ \A i \in 1..n : i \in 1..Len(u)
  BY <1>1
<1> HIDE DEF n
<1>4. ASSUME NEW x, NEW c
      PROVE  HasImm(u, x, c) <=> IsImm(e, x, c) \/ HasImm(s, x, c)
  BY <1>1, <1>2, <1>3 DEF HasImm, n
<1>5. ASSUME NEW x, NEW c, OneImm(s, x, c), ~(IsImm(e, x, c) /\ HasImm(s, x, c))
      PROVE  OneImm(u, x, c)
  BY <1>1, <1>2, <1>3, <1>5 DEF HasImm, OneImm, n
<1> QED BY <1>4, <1>5 DEF u

-----------------------------------------------------------------------------
(* Calls that may stand anywhere in todo and cancel nothing. *)
PlainKinds == {"stop", "delete", "try", "fail", "tick", "user"}
PlainCalls(p) == IsList(p) /\ \A i \in 1..Len(p) : p[i].k \in PlainKinds /\ CallOk(p[i])'

(* The same, and calls that cancel. *)
AnyKinds == PlainKinds \union {"cancel"}
AnyCalls(p) == IsList(p) /\ \A i \in 1..Len(p) : p[i].k \in AnyKinds /\ CallOk(p[i])'

TodoStep(p) ==
  \/ todo = << >> /\ todo' = p
  \/ todo # << >> /\ todo[1].k \in PlainKinds /\ todo' = p \o Tail(todo)
AnyStep(p) ==
  \/ todo = << >> /\ todo' = p
  \/ todo # << >> /\ todo[1].k \in AnyKinds /\ todo' = p \o Tail(todo)

GoneStays == \A d \in Conns : conn[d].st \in Gone => conn'[d].st \in Gone

SameCancels ==
  \A x, c : /\ HasCancel(todo', x, c) <=> HasCancel(todo, x, c)
            /\ OneCancel(todo, x, c) => OneCancel(todo', x, c)

LEMMA CallKept ==
  ASSUME GoneStays, NEW a, CallOk(a)
  PROVE  CallOk(a)'
BY DEF CallOk, GoneStays

(* Calls in front of a list of calls. *)
LEMMA CatCalls ==
  ASSUME NEW p, AnyCalls(p), NEW t, IsList(t),
         \A i \in 1..Len(t) : CallOk(t[i])' /\ (t[i].k \in Lasting => i = Len(t))
  PROVE  /\ IsList(p \o t) /\ Len(p \o t) = Len(p) + Len(t)
         /\ \A i \in 1..Len(p \o t) :
              CallOk((p \o t)[i])' /\ ((p \o t)[i].k \in Lasting => i = Len(p \o t))
         /\ t # << >> => (p \o t)[Len(p \o t)] = t[Len(t)]
         /\ t = << >> => p \o t = p
<1> DEFINE u == p \o t
<1>1. /\ IsList(u) /\ Len(u) = Len(p) + Len(t) /\ Len(p) \in Nat /\ Len(t) \in Nat
      /\ \A i \in 1..Len(p) : u[i] = p[i]
      /\ \A i \in 1..Len(t) : u[Len(p) + i] = t[i]
  BY ListCat DEF IsList, AnyCalls
<1>2. t = << >> => u = p
  BY <1>1, ListSame, ListEmpty DEF AnyCalls
<1> HIDE DEF u
<1>3. ASSUME NEW i \in 1..Len(u)
      PROVE  CallOk(u[i])' /\ (u[i].k \in Lasting => i = Len(u))
  <2>1. CASE i \in 1..Len(p)
    <3>1. u[i] = p[i]
      BY <1>1, <2>1
    <3>2. p[i].k \in AnyKinds /\ CallOk(p[i])'
      BY <2>1 DEF AnyCalls
    <3> QED BY <3>1, <3>2 DEF AnyKinds, PlainKinds, Lasting
  <2>2. CASE i \notin 1..Len(p)
    <3>1. PICK j \in 1..Len(t) : i = Len(p) + j
      <4>1. i - Len(p) \in 1..Len(t) /\ i = Len(p) + (i - Len(p))
        BY <1>1, <2>2
      <4> QED BY <4>1
    <3>2. u[i] = t[j]
      BY <1>1, <3>1
    <3> QED BY <1>1, <3>1, <3>2
  <2> QED BY <2>1, <2>2
<1>4. t # << >> => u[Len(u)] = t[Len(t)]
  <2>1. t # << >> => Len(t) \in 1..Len(t)
    BY <1>1, ListEmpty
  <2> QED BY <1>1, <2>1
<1> QED BY <1>1, <1>2, <1>3, <1>4 DEF u

LEMMA AnyPhases ==
  ASSUME TableShape, Phases, NEW p, AnyCalls(p), AnyStep(p), imm' = imm, GoneStays
  PROVE  /\ Phases' /\ IsList(todo')
         /\ \A c : Parsing(c) = << >> /\ Parsing(c)' = << >>
<1>1. IsList(todo) /\ IsList(imm) /\ IsList(p)
  BY DEF TableShape, AnyCalls
<1>2. CASE todo = << >>
  <2>1. imm = << >> /\ todo' = p
    BY <1>1, <1>2 DEF Phases, AnyStep
  <2>2. Len(imm') = 0 /\ imm' = << >>
    BY <2>1, ListOne
  <2>3. \A i \in 1..Len(p) : CallOk(p[i])' /\ p[i].k \notin Lasting
    BY DEF AnyCalls, AnyKinds, PlainKinds, Lasting
  <2>4. todo' # << >> => Len(todo') \in 1..Len(todo')
    BY <1>1, <2>1, ListEmpty DEF IsList
  <2>5. Phases'
    BY <2>1, <2>2, <2>3, <2>4 DEF Phases, Final, Lasting
  <2>7. \A c : Parsing(c) = << >>
    BY <1>2 DEF Parsing
  <2>8. \A c : Parsing(c)' = << >>
    <3>1. todo' # << >> => 1 \in 1..Len(todo')
      BY <1>1, <2>1, <2>4 DEF IsList
    <3> QED BY <2>1, <2>3, <3>1 DEF Parsing, Lasting
  <2> QED BY <1>1, <2>1, <2>5, <2>7, <2>8
<1>3. CASE todo # << >>
  <2>0. PICK t : t = Tail(todo)
    OBVIOUS
  <2>1. todo[1].k \in AnyKinds /\ todo' = p \o t
    BY <1>3, <2>0 DEF AnyStep
  <2>2. /\ IsList(t) /\ Len(todo) \in Nat /\ Len(todo) > 0 /\ Len(t) = Len(todo) - 1
        /\ \A i \in 1..(Len(todo) - 1) : t[i] = todo[i + 1]
    BY <1>1, <1>3, <2>0, ListTail
  <2>6. \A i \in 1..Len(t) : CallOk(t[i])' /\ (t[i].k \in Lasting => i = Len(t))
    <3> SUFFICES ASSUME NEW i \in 1..Len(t)
                 PROVE  CallOk(t[i])' /\ (t[i].k \in Lasting => i = Len(t))
      OBVIOUS
    <3>2. i + 1 \in 1..Len(todo) /\ t[i] = todo[i + 1]
      BY <2>2
    <3>3. CallOk(t[i]) /\ (t[i].k \in Lasting => i + 1 = Len(todo))
      BY <3>2 DEF Phases
    <3>4. CallOk(t[i])'
      BY <3>3, CallKept
    <3> QED BY <2>2, <3>3, <3>4
  <2>7. PICK u : u = p \o t
    OBVIOUS
  <2>8. /\ IsList(u) /\ Len(u) = Len(p) + Len(t)
        /\ \A i \in 1..Len(u) : CallOk(u[i])' /\ (u[i].k \in Lasting => i = Len(u))
        /\ t # << >> => u[Len(u)] = t[Len(t)]
        /\ t = << >> => u = p
    BY <2>2, <2>6, <2>7, CatCalls
  <2>9. todo' = u
    BY <2>1, <2>7
  <2>10. \A i \in 1..Len(todo') : CallOk(todo[i])' /\ (todo'[i].k \in Lasting => i = Len(todo'))
    BY <2>8, <2>9
  <2>11. t # << >> => Len(t) \in 1..(Len(todo) - 1) /\ u[Len(u)] = Final
    BY <2>2, <2>8, ListEmpty DEF Final
  <2>12. Final.k # "parse"
    BY <1>3, <2>1 DEF Phases, AnyKinds, PlainKinds, Final
  <2>13. t = << >> => Final = todo[1] /\ imm = << >>
    <3>1. t = << >> => Len(todo) = 1
      BY <2>2, ListEmpty
    <3> QED BY <1>3, <2>1, <3>1 DEF Phases, Final, AnyKinds, PlainKinds, Lasting
  <2>14. t = << >> /\ p # << >> => Len(u) \in 1..Len(p) /\ u[Len(u)].k \in AnyKinds
    BY <1>1, <2>8, ListEmpty DEF AnyCalls, IsList
  <2>15. imm # << >> => todo' # << >> /\ Final' = Final /\ Final.k \in Lasting
    <3>1. imm # << >> => t # << >> /\ Len(u) > 0
      BY <1>1, <2>2, <2>8, <2>13, ListEmpty DEF IsList
    <3>2. Final' = u[Len(u)]
      BY <2>9 DEF Final
    <3>3. imm # << >> => todo' # << >>
      BY <2>8, <2>9, <3>1, ListEmpty
    <3>4. imm # << >> => Final.k \in Lasting
      BY DEF Phases
    <3> QED BY <2>11, <3>1, <3>2, <3>3, <3>4
  <2>16. \A i \in 1..Len(imm) : ~(imm[i].x = Conf /\ Final.k = "imm")
    BY <2>1 DEF Phases, AnyKinds, PlainKinds, Final
  <2>17. todo' # << >> => Final'.k # "parse"
    <3>1. t # << >> => Final' = Final
      BY <2>9, <2>11 DEF Final
    <3>2. t = << >> => Final' = u[Len(u)] /\ todo' = p
      BY <2>8, <2>9 DEF Final
    <3> QED BY <2>12, <2>14, <3>1, <3>2 DEF AnyKinds, PlainKinds
  <2>20. \A i \in 1..Len(imm) : imm # << >>
    BY <1>1, ListEmpty DEF IsList
  <2>21. Phases'
    <3>1. (imm # << >> => todo # << >> /\ Final.k \in Lasting)'
      BY <2>15
    <3>2. (todo # << >> /\ Final.k = "parse" => Len(todo) = 1 /\ ParseOk(Final))'
      BY <2>17
    <3>3. (todo # << >> /\ Final.k = "clear" => \A i \in 1..Len(imm) : imm[i].fd = Final.fd)'
      BY <1>3, <2>15, <2>20 DEF Phases
    <3>4. (\A i \in 1..Len(imm) : ImmOk(imm[i]) /\ imm[i].c = imm[1].c /\ imm[i].fd = imm[1].fd)'
      BY DEF Phases, ImmOk
    <3>5. (\A i \in 1..Len(imm) : imm[i].x = Conf /\ Final.k = "imm" =>
             Len(todo) = 1 /\ conn[imm[i].c].st = "connected" /\ conn[imm[i].c].fd = imm[i].fd)'
      BY <2>15, <2>16, <2>20
    <3> QED BY <2>10, <3>1, <3>2, <3>3, <3>4, <3>5 DEF Phases
  <2>22. \A c : Parsing(c) = << >>
    BY <2>1 DEF Parsing, AnyKinds, PlainKinds
  <2>23. \A c : Parsing(c)' = << >>
    <3>1. todo' # << >> => 1 \in 1..Len(todo')
      BY <2>8, <2>9, ListEmpty DEF IsList
    <3>2. todo' # << >> /\ todo'[1].k = "parse" => todo'[1] = Final'
      BY <2>10, <3>1 DEF Final, Lasting
    <3> QED BY <2>17, <3>2 DEF Parsing
  <2> QED BY <2>8, <2>9, <2>21, <2>22, <2>23
<1> QED BY <1>2, <1>3

LEMMA PlainPhases ==
  ASSUME TableShape, Phases, NEW p, PlainCalls(p), TodoStep(p), imm' = imm, GoneStays
  PROVE  /\ Phases' /\ IsList(todo') /\ SameCancels
         /\ \A c : Parsing(c) = << >> /\ Parsing(c)' = << >>
<1>0. AnyCalls(p) /\ AnyStep(p)
  BY DEF AnyCalls, AnyStep, AnyKinds, PlainCalls, TodoStep
<1>1. IsList(todo) /\ IsList(p) /\ \A i \in 1..Len(p) : p[i].k # "cancel"
  BY DEF TableShape, PlainCalls, PlainKinds
<1>2. CASE todo = << >>
  <2>1. todo' = p
    BY <1>2 DEF TodoStep
  <2> QED BY <1>0, <1>1, <1>2, <2>1, AnyPhases, ListOne DEF SameCancels, HasCancel, OneCancel, IsCancel
<1>3. CASE todo # << >>
  <2>0. PICK t : t = Tail(todo)
    OBVIOUS
  <2>1. todo[1].k \in PlainKinds /\ todo' = p \o t /\ IsList(t)
    BY <1>1, <1>3, <2>0, ListTail DEF TodoStep
  <2>3. \A x, c : /\ HasCancel(todo, x, c) <=> HasCancel(t, x, c)
                  /\ OneCancel(todo, x, c) => OneCancel(t, x, c)
    BY <1>1, <1>3, <2>0, <2>1, TailCancel DEF IsCancel, PlainKinds
  <2>5. SameCancels
    BY <1>1, <2>1, <2>3, CatCancel DEF SameCancels
  <2> QED BY <1>0, <2>5, AnyPhases
<1> QED BY <1>2, <1>3

-----------------------------------------------------------------------------
(* What each part of the invariant needs of a step that does not concern it. *)
SameConn(d) == conn'[d].st = conn[d].st /\ conn'[d].fd = conn[d].fd /\ conn'[d].osd = conn[d].osd

SameHeld(x, c) ==
  /\ x \in sent'[c] <=> x \in sent[c]
  /\ rd'[c].op.x = x <=> rd[c].op.x = x
  /\ HasImm(imm', x, c) <=> HasImm(imm, x, c)
  /\ OneImm(imm, x, c) => OneImm(imm', x, c)
  /\ HasCancel(todo', x, c) <=> HasCancel(todo, x, c)
  /\ OneCancel(todo, x, c) => OneCancel(todo', x, c)

LEMMA HeldKept ==
  ASSUME NEW x, NEW c, SameHeld(x, c)
  PROVE  (Somewhere(x, c)' <=> Somewhere(x, c)) /\ (One(x, c) => One(x, c)')
BY DEF SameHeld, Somewhere, One

LEMMA HoldingKept ==
  ASSUME Holding, \A x \in Held1, c \in Conns : SameHeld(x, c), UNCHANGED <<called, pushed, lost>>,
         \A r \in Reqs : req[r].st = "read" => req'[r] = req[r]
  PROVE  Holding' /\ \A x \in Held1, c \in Conns : Somewhere(x, c)' <=> Somewhere(x, c)
<1>1. \A x \in Held1, c \in Conns : (Somewhere(x, c)' <=> Somewhere(x, c)) /\ (One(x, c) => One(x, c)')
  BY HeldKept
<1>2. \A op \in Ops : (Waits(op)' <=> Waits(op)) /\ (Fresh(op) => Fresh(op)')
  BY DEF Waits, Lost, Fresh
<1>3. Ops \subseteq Held1 /\ Reqs \subseteq Held1 /\ Conf \in Held1
  BY DEF Held1
<1>4. (\A x \in Held1, c \in Conns : One(x, c))'
  BY <1>1 DEF Holding
<1>5. (\A x \in Ops \union Reqs, c, d \in Conns : Somewhere(x, c) /\ Somewhere(x, d) => c = d)'
  BY <1>1, <1>3 DEF Holding
<1>6. (\A op \in Ops : called[op] \in {0, 1} /\ (Waits(op) <=> \E c \in Conns : Somewhere(op, c)))'
  BY <1>1, <1>2, <1>3 DEF Holding
<1>7. (\A op \in Ops, c \in Conns : ~(Somewhere(op, c) /\ Somewhere(Conf, c)))'
  BY <1>1, <1>3 DEF Holding
<1>8. (\A r \in Reqs, c \in Conns : Somewhere(r, c) => req[r].st = "read" /\ req[r].c = c)'
  BY <1>1, <1>3 DEF Holding
<1>9. \A op \in Ops : Fresh(op)'
  BY <1>2 DEF Holding
<1> QED BY <1>1, <1>4, <1>5, <1>6, <1>7, <1>8, <1>9 DEF Holding

LEMMA LinksKept ==
  ASSUME TableShape, Links, \A d \in Conns : SameConn(d), UNCHANGED <<clients, peerfd>>,
         \A d \in Conns : conn[d].st \in {"new", "connecting", "deleted"} => Empty(d)',
         \A d \in Conns : conn[d].st = "stopped" => ~wr'[d].q,
         \A d \in Conns, x \in Held1 : Somewhere(x, d)' => Somewhere(x, d) \/ conn[d].st = "connected",
         \A d \in Conns : Somewhere(Conf, d)' => Somewhere(Conf, d)
  PROVE  Links'
<1>1. (\A fd \in Fds : clients[fd] # None => conn[clients[fd]].fd = fd /\ conn[clients[fd]].st \in Up)'
  BY DEF Links, SameConn, TableShape
<1>2. (\A c \in Conns : ConnOk(c))'
  BY DEF Links, SameConn, ConnOk
<1>3. (\A c \in Conns : Quiet(c))'
  <2> SUFFICES ASSUME NEW c \in Conns PROVE Quiet(c)'
    OBVIOUS
  <2>1. Quiet(c) /\ SameConn(c)
    BY DEF Links
  <2>2. conn[c].st \in {"new", "connecting"} => \A x \in Held1 : ~Somewhere(x, c)'
    BY <2>1 DEF Quiet
  <2> QED BY <2>1, <2>2 DEF Quiet, SameConn
<1>4. (\A o \in Osds : PeerOk(o))'
  <2> SUFFICES ASSUME NEW o \in Osds PROVE PeerOk(o)'
    OBVIOUS
  <2>1. PeerOk(o)
    BY DEF Links
  <2>2. PICK c : c = clients[peerfd[o]]
    OBVIOUS
  <2>3. clients'[peerfd'[o]] = c
    BY <2>2
  <2>4. peerfd[o] # None => c \in Conns /\ conn[c].osd = o /\ conn[c].st = "connected" /\ ~Somewhere(Conf, c)
    BY <2>1, <2>2 DEF PeerOk
  <2>5. peerfd[o] # None => conn'[c].osd = o /\ conn'[c].st = "connected" /\ ~Somewhere(Conf, c)'
    BY <2>4 DEF SameConn
  <2> QED BY <2>3, <2>4, <2>5 DEF PeerOk
<1> QED BY <1>1, <1>2, <1>3, <1>4 DEF Links

(* The streams are the same, or new ones are empty. *)
SameStream(c) ==
  \/ Reads(c) /\ Stream(c)' = Stream(c) /\ (rd'[c].op.x # None <=> rd[c].op.x # None)
  \/ Stream(c)' = << >> /\ rd'[c].op.x = None

LEMMA StreamsKept ==
  ASSUME Streams, \A c \in Conns : Reads(c)' => SameStream(c),
         \A c \in Conns : Reads(c)' /\ ~rd'[c].busy => rd'[c].got = << >>,
         \A c \in Conns : Reads(c)' /\ rd'[c].eof => rd'[c].got = << >>,
         \A r \in Reqs : req[r].st = "wire" => req'[r].st = "wire"
  PROVE  Streams'
<1>1. ASSUME NEW c \in Conns, Reads(c)'
      PROVE  ReadOk(c)'
  <2>1. CASE Reads(c) /\ Stream(c)' = Stream(c) /\ (rd'[c].op.x # None <=> rd[c].op.x # None)
    <3>1. StreamOk(Stream(c), rd[c].op.x # None, req)
      BY <2>1 DEF Streams, ReadOk
    <3>2. PICK s : s = Stream(c)
      OBVIOUS
    <3>3. Stream(c)' = s
      BY <2>1, <3>2
    <3>4. StreamOk(s, rd'[c].op.x # None, req')
      BY <2>1, <3>1, <3>2 DEF StreamOk
    <3> QED BY <1>1, <3>3, <3>4 DEF ReadOk
  <2>2. CASE Stream(c)' = << >> /\ rd'[c].op.x = None
    <3>1. PICK s : s = Stream(c)'
      OBVIOUS
    <3>2. Len(s) = 0
      BY <2>2, <3>1, ListOne
    <3>3. StreamOk(s, rd'[c].op.x # None, req')
      BY <2>2, <3>2 DEF StreamOk
    <3> QED BY <1>1, <3>1, <3>3 DEF ReadOk
  <2> QED BY <1>1, <2>1, <2>2 DEF SameStream
<1>2. ASSUME NEW c \in Conns, Reads(c)', NEW r \in Reqs, HasReq(Stream(c), r)'
      PROVE  Reads(c) /\ HasReq(Stream(c), r)
  <2>1. PICK s : s = Stream(c)'
    OBVIOUS
  <2>2. HasReq(s, r)
    BY <1>2, <2>1 DEF HasReq
  <2>3. s # << >>
    BY <2>2, ListOne DEF HasReq
  <2> QED BY <1>2, <2>1, <2>2, <2>3 DEF SameStream
<1> QED BY <1>1, <1>2 DEF Streams

(* The parts of the writes that count. *)
SameWrite(w, v) ==
  v.box = w.box /\ v.next = w.next /\ v.n = w.n /\ v.res = w.res /\ v.held = w.held /\ v.zc = w.zc

LEMMA SameWriteOk ==
  ASSUME NEW c, NEW w, NEW v, NEW q, NEW q2, WriteOk(c, w, q), SameWrite(w, v),
         \A r \in Reqs : q[r].st = "reply" => q2[r] = q[r]
  PROVE  WriteOk(c, v, q2)
<1>1. Pend(v) = Pend(w)
  BY DEF Pend, SameWrite
<1>2. ASSUME NEW r \in Reqs
      PROVE  ReplyOk(c, v, r, q2)
  <2>1. ReplyOk(c, w, r, q)
    BY DEF WriteOk
  <2> QED BY <1>1, <2>1 DEF ReplyOk, SameWrite
<1> QED BY <1>1, <1>2 DEF WriteOk, SameWrite

LEMMA NewWriteOk ==
  ASSUME NEW c, NEW q
  PROVE  WriteOk(c, NewWrite, q)
BY DEF WriteOk, NewWrite, Pend, ReplyOk, HasEnd, OneEnd, HasHeld, OneHeld

LEMMA WritesKept ==
  ASSUME Writes, UNCHANGED replies,
         \A d \in Conns : \A r \in received'[d] :
            r \in received[d] \/ (req'[r].c = d /\ Begun(r)'),
         \A c \in Conns : conn'[c].st = "connected" =>
            \/ conn[c].st = "connected" /\ SameWrite(wr[c], wr'[c])
            \/ SameWrite(NewWrite, wr'[c]),
         \A r \in Reqs : Begun(r) => req'[r].c = req[r].c /\ Begun(r)',
         \A r \in Reqs : Begun(r)' => req'[r].fd \in Fds \/ (Begun(r) /\ req'[r].fd = req[r].fd),
         \A r \in Reqs : req[r].st = "reply" => req'[r] = req[r],
         \A r \in Reqs : req[r].st = "freed" => req'[r].st = "freed",
         OpsShape
  PROVE  Writes'
<1>1. ASSUME NEW c \in Conns, conn'[c].st = "connected"
      PROVE  WriteOk(c, wr'[c], req')
  <2>1. CASE conn[c].st = "connected" /\ SameWrite(wr[c], wr'[c])
    BY <2>1, SameWriteOk DEF Writes
  <2>2. CASE SameWrite(NewWrite, wr'[c])
    BY <2>2, NewWriteOk, SameWriteOk
  <2> QED BY <1>1, <2>1, <2>2
<1>2. \A c \in Conns : \A r \in received'[c] : req'[r].c = c /\ Begun(r)'
  BY DEF Writes, OpsShape
<1>3. \A a \in replies : a[1] \in Reqs /\ req'[a[1]].c = a[2] /\ req'[a[1]].st \in {"reply", "freed"}
  BY DEF Writes, Begun
<1>4. \A r \in Reqs : Begun(r)' => req'[r].fd \in Fds
  BY DEF Writes
<1> QED BY <1>1, <1>2, <1>3, <1>4 DEF Writes

NoDrop == \A c \in Conns : ~(conn[c].st = "connected" /\ Dropping(c))

LEMMA NotDropping ==
  ASSUME todo = << >> \/ todo[1].k # "stop"
  PROVE  NoDrop
<1>1. todo = << >> => Len(todo) = 0
  BY ListOne
<1> QED BY <1>1 DEF NoDrop, Dropping

LEMMA StillHeld ==
  ASSUME UNCHANGED <<sent, imm>>, \A d \in Conns : rd'[d].op = rd[d].op, SameCancels
  PROVE  \A x \in Held1, c \in Conns : SameHeld(x, c)
BY DEF SameHeld, SameCancels

(* A step that makes calls, changes timers and reference counts. *)
LEMMA CalmStep ==
  ASSUME MsgrInv, Phases', IsList(todo'), SameCancels, \A d \in Conns : Parsing(d)' = Parsing(d), NoDrop, ConnShape', \A d \in Conns : SameConn(d),
         UNCHANGED <<rd, wr, sent, received, net, clients, peerfd, imm, called, pushed, lost, req, replies>>
  PROVE  MsgrInv'
<1>1. Shape /\ Holding /\ Links /\ Phases /\ Streams /\ Writes
  BY DEF MsgrInv
<1>4. Shape'
  <2>1. ReadShape' /\ WriteShape' /\ NetShape' /\ OpsShape'
    BY <1>1 DEF Shape, ReadShape, WriteShape, NetShape, OpsShape
  <2>2. TableShape'
    BY <1>1 DEF Shape, TableShape
  <2> QED BY <2>1, <2>2 DEF Shape
<1>5. Holding' /\ \A x \in Held1, c \in Conns : Somewhere(x, c)' <=> Somewhere(x, c)
  BY <1>1, StillHeld, HoldingKept
<1>6. Links'
  <2>1. Conf \in Held1
    BY DEF Held1
  <2>2. \A d \in Conns : conn[d].st \in {"new", "connecting", "deleted"} => Empty(d)'
    BY <1>1 DEF Links, Quiet, Empty
  <2>3. \A d \in Conns : conn[d].st = "stopped" => ~wr'[d].q
    BY <1>1 DEF Links, Quiet
  <2> QED BY <1>1, <1>5, <2>1, <2>2, <2>3, LinksKept DEF Shape
<1>7. Streams'
  <2>1. ASSUME NEW c \in Conns, Reads(c)'
        PROVE  Reads(c) /\ Stream(c)' = Stream(c)
    <3>1. Reads(c)
      BY <2>1 DEF Reads, NoDrop, SameConn
    <3> QED BY <3>1 DEF Stream
  <2>2. \A c \in Conns : Reads(c) => (~rd[c].busy => rd[c].got = << >>) /\ (rd[c].eof => rd[c].got = << >>)
    BY <1>1 DEF Streams, ReadOk
  <2>3. \A c \in Conns : Reads(c)' => SameStream(c)
    BY <2>1 DEF SameStream
  <2> QED BY <1>1, <2>1, <2>2, <2>3, StreamsKept
<1>8. Writes'
  <2>1. \A c \in Conns : conn'[c].st = "connected" => conn[c].st = "connected" /\ SameWrite(wr[c], wr'[c])
    BY DEF SameConn, SameWrite
  <2>2. OpsShape
    BY <1>1 DEF Shape
  <2> QED BY <1>1, <2>1, <2>2, WritesKept DEF Begun
<1> QED BY <1>4, <1>5, <1>6, <1>7, <1>8 DEF MsgrInv

LEMMA PlainStep ==
  ASSUME MsgrInv, NEW p, PlainCalls(p), TodoStep(p), NoDrop, ConnShape', \A d \in Conns : SameConn(d),
         UNCHANGED <<rd, wr, sent, received, net, clients, peerfd, imm, called, pushed, lost, req, replies>>
  PROVE  MsgrInv'
<1>1. TableShape /\ Phases
  BY DEF MsgrInv, Shape
<1>2. GoneStays
  BY DEF GoneStays, SameConn
<1>3. /\ Phases' /\ IsList(todo') /\ SameCancels
      /\ \A c : Parsing(c) = << >> /\ Parsing(c)' = << >>
  BY <1>1, <1>2, PlainPhases
<1> QED BY <1>3, CalmStep

LEMMA SameConns ==
  ASSUME conn' = conn, ConnShape
  PROVE  ConnShape' /\ \A d \in Conns : SameConn(d)
BY DEF ConnShape, SameConn

LEMMA PlainLists ==
  /\ PlainCalls(<< >>)
  /\ \A a : a.k \in PlainKinds /\ CallOk(a)' => PlainCalls(<<a>>)
  /\ \A a, b : a.k \in PlainKinds /\ CallOk(a)' /\ b.k \in PlainKinds /\ CallOk(b)' => PlainCalls(<<a, b>>)
<1>1. PlainCalls(<< >>)
  BY ListOne DEF PlainCalls
<1>2. ASSUME NEW a, a.k \in PlainKinds, CallOk(a)'
      PROVE  PlainCalls(<<a>>)
  <2>1. PICK p : p = <<a>>
    OBVIOUS
  <2>2. IsList(p) /\ Len(p) = 1 /\ p[1] = a
    BY <2>1, ListOne
  <2>3. \A i \in 1..Len(p) : p[i] = a
    BY <2>2
  <2> QED BY <1>2, <2>1, <2>2, <2>3 DEF PlainCalls
<1>3. ASSUME NEW a, NEW b, a.k \in PlainKinds, CallOk(a)', b.k \in PlainKinds, CallOk(b)'
      PROVE  PlainCalls(<<a, b>>)
  <2>1. PICK p : p = <<a, b>>
    OBVIOUS
  <2>2. IsList(p) /\ Len(p) = 2 /\ p[1] = a /\ p[2] = b
    BY <2>1, ListOne
  <2>3. \A i \in 1..Len(p) : p[i] = a \/ p[i] = b
    BY <2>2
  <2> QED BY <1>3, <2>1, <2>2, <2>3 DEF PlainCalls
<1> QED BY <1>1, <1>2, <1>3

LEMMA PlainOk ==
  /\ \A force, c : \A fd \in Fds : StopCall(fd, force, c).k \in PlainKinds /\ CallOk(StopCall(fd, force, c))'
  /\ \A o : TryCall(o).k \in PlainKinds /\ CallOk(TryCall(o))'
  /\ \A o : FailCall(o).k \in PlainKinds /\ CallOk(FailCall(o))'
  /\ UserCall.k \in PlainKinds /\ CallOk(UserCall)'
  /\ \A fds \in SUBSET Fds : TickCall(fds).k \in PlainKinds /\ CallOk(TickCall(fds))'
  /\ \A c \in Conns : DeleteCall(c).k \in PlainKinds /\ (conn'[c].st \in Gone => CallOk(DeleteCall(c))')
BY DEF StopCall, TryCall, FailCall, UserCall, TickCall, DeleteCall, PlainKinds, CallOk

LEMMA EmptyCat ==
  ASSUME NEW s, IsList(s)
  PROVE  << >> \o s = s
<1>1. PICK e : e = << >> /\ IsList(e) /\ Len(e) = 0
  BY ListOne
<1>2. IsList(e \o s) /\ Len(e \o s) = Len(s) /\ \A i \in 1..Len(s) : (e \o s)[i] = s[i]
  BY <1>1, ListCat DEF IsList
<1> QED BY <1>1, <1>2, ListSame

LEMMA CallHead ==
  ASSUME TableShape, NEW kind, Call(kind)
  PROVE  /\ todo # << >> /\ Head(todo) = todo[1] /\ todo[1].k = kind
         /\ IsList(Rest) /\ Len(todo) \in Nat /\ Len(todo) > 0 /\ Len(Rest) = Len(todo) - 1
BY ListTail DEF TableShape, Call, Rest

LEMMA PopStep ==
  ASSUME TableShape, NEW kind \in PlainKinds, Call(kind)
  PROVE  /\ \A p : todo' = p \o Rest => TodoStep(p)
         /\ todo' = Rest => TodoStep(<< >>)
<1>1. \A p : todo' = p \o Rest => TodoStep(p)
  BY CallHead DEF TodoStep, Rest
<1>2. << >> \o Rest = Rest
  BY CallHead, EmptyCat
<1> QED BY <1>1, <1>2

LEMMA EventStep ==
  ASSUME Event
  PROVE  /\ \A p : todo' = p => TodoStep(p)
         /\ todo = << >>
BY DEF Event, TodoStep

-----------------------------------------------------------------------------
LEMMA PeerHupOk ==
  ASSUME MsgrInv, NEW c \in Conns, PeerHup(c)
  PROVE  MsgrInv'
<1>1. Event /\ todo' = <<StopCall(conn[c].fd, TRUE, c)>> /\ UNCHANGED <<connVars, clients, peerfd, imm, histVars>>
  BY DEF PeerHup
<1>2. conn[c].fd \in Fds
  BY DEF PeerHup, MsgrInv, Links, ConnOk, Up
<1>3. PICK p : p = <<StopCall(conn[c].fd, TRUE, c)>>
  OBVIOUS
<1>4. PlainCalls(p) /\ TodoStep(p) /\ NoDrop
  BY <1>1, <1>2, <1>3, PlainOk, PlainLists, EventStep, NotDropping
<1> QED BY <1>1, <1>4, SameConns, PlainStep DEF connVars, histVars, MsgrInv, Shape

LEMMA UserConnectOk ==
  ASSUME MsgrInv, NEW o \in Osds, NEW changed, UserConnect(o, changed)
  PROVE  MsgrInv'
<1>1. /\ Event /\ todo' = <<TryCall(o)>>
      /\ UNCHANGED <<connVars, clients, peerfd, imm, pushed, called, lost, req, replies>>
  BY DEF UserConnect
<1>2. PICK p : p = <<TryCall(o)>>
  OBVIOUS
<1>3. PlainCalls(p) /\ TodoStep(p) /\ NoDrop
  BY <1>1, <1>2, PlainOk, PlainLists, EventStep, NotDropping
<1> QED BY <1>1, <1>3, SameConns, PlainStep DEF connVars, MsgrInv, Shape

LEMMA RetryTimerOk ==
  ASSUME MsgrInv, NEW o \in Osds, RetryTimer(o)
  PROVE  MsgrInv'
<1>1. /\ Event /\ todo' = <<TryCall(o)>>
      /\ UNCHANGED <<connVars, clients, peerfd, imm, pushed, called, lost, req, replies>>
  BY DEF RetryTimer
<1>2. PICK p : p = <<TryCall(o)>>
  OBVIOUS
<1>3. PlainCalls(p) /\ TodoStep(p) /\ NoDrop
  BY <1>1, <1>2, PlainOk, PlainLists, EventStep, NotDropping
<1> QED BY <1>1, <1>3, SameConns, PlainStep DEF connVars, MsgrInv, Shape

LEMMA ConnectFailsOk ==
  ASSUME MsgrInv, NEW c \in Conns, ConnectFails(c)
  PROVE  MsgrInv'
<1>1. /\ Event /\ todo' = <<StopCall(conn[c].fd, TRUE, c), FailCall(conn[c].osd)>>
      /\ UNCHANGED <<connVars, clients, peerfd, imm, pushed, called, lost, req, replies>>
  BY DEF ConnectFails
<1>2. conn[c].fd \in Fds
  BY DEF ConnectFails, MsgrInv, Links, ConnOk, Up
<1>3. PICK p : p = <<StopCall(conn[c].fd, TRUE, c), FailCall(conn[c].osd)>>
  OBVIOUS
<1>4. PICK a, b : a = StopCall(conn[c].fd, TRUE, c) /\ b = FailCall(conn[c].osd)
  OBVIOUS
<1>5. a.k \in PlainKinds /\ CallOk(a)' /\ b.k \in PlainKinds /\ CallOk(b)'
  <2>1. PICK fd, o : fd = conn[c].fd /\ o = conn[c].osd
    OBVIOUS
  <2> QED BY <1>2, <1>4, <2>1, PlainOk
<1>6. PlainCalls(p) /\ TodoStep(p) /\ NoDrop
  BY <1>1, <1>3, <1>4, <1>5, PlainLists, EventStep, NotDropping
<1> QED BY <1>1, <1>6, SameConns, PlainStep DEF connVars, MsgrInv, Shape

LEMMA TickOk ==
  ASSUME MsgrInv, Tick
  PROVE  MsgrInv'
<1>1. PICK fds \in SUBSET Fds : /\ Event /\ todo' = <<TickCall(fds)>>
                                /\ UNCHANGED <<connVars, clients, peerfd, imm, histVars>>
  BY DEF Tick
<1>2. PICK p : p = <<TickCall(fds)>>
  OBVIOUS
<1>3. PlainCalls(p) /\ TodoStep(p) /\ NoDrop
  BY <1>1, <1>2, PlainOk, PlainLists, EventStep, NotDropping
<1> QED BY <1>1, <1>3, SameConns, PlainStep DEF connVars, histVars, MsgrInv, Shape

LEMMA UserReactsOk ==
  ASSUME MsgrInv, UserReacts
  PROVE  MsgrInv'
<1>1. /\ Call("user") /\ UNCHANGED <<connVars, clients, peerfd, imm, pushed, called, lost, req, replies>>
      /\ todo' = Rest \/ \E o \in Osds : todo' = <<TryCall(o)>> \o Rest
  BY DEF UserReacts
<1>2. TableShape /\ "user" \in PlainKinds
  BY DEF MsgrInv, Shape, PlainKinds
<1>3. NoDrop
  BY <1>1, <1>2, CallHead, NotDropping
<1>4. PICK p : PlainCalls(p) /\ TodoStep(p)
  <2>1. CASE todo' = Rest
    BY <1>1, <1>2, <2>1, PopStep, PlainLists
  <2>2. CASE \E o \in Osds : todo' = <<TryCall(o)>> \o Rest
    <3>1. PICK o \in Osds : todo' = <<TryCall(o)>> \o Rest
      BY <2>2
    <3>2. PICK p : p = <<TryCall(o)>>
      OBVIOUS
    <3> QED BY <1>1, <1>2, <3>1, <3>2, PopStep, PlainLists, PlainOk
  <2> QED BY <1>1, <2>1, <2>2
<1> QED BY <1>1, <1>3, <1>4, SameConns, PlainStep DEF connVars, MsgrInv, Shape

LEMMA OnConnectErrorOk ==
  ASSUME MsgrInv, OnConnectError
  PROVE  MsgrInv'
<1>1. /\ Call("fail") /\ UNCHANGED <<connVars, clients, peerfd, imm, histVars>>
      /\ todo' = Rest \/ \E o : todo' = <<TryCall(o)>> \o Rest
  BY DEF OnConnectError
<1>2. TableShape /\ "fail" \in PlainKinds
  BY DEF MsgrInv, Shape, PlainKinds
<1>3. NoDrop
  BY <1>1, <1>2, CallHead, NotDropping
<1>4. PICK p : PlainCalls(p) /\ TodoStep(p)
  <2>1. CASE todo' = Rest
    BY <1>1, <1>2, <2>1, PopStep, PlainLists
  <2>2. CASE \E o : todo' = <<TryCall(o)>> \o Rest
    <3>1. PICK o : todo' = <<TryCall(o)>> \o Rest
      BY <2>2
    <3>2. PICK p : p = <<TryCall(o)>>
      OBVIOUS
    <3> QED BY <1>1, <1>2, <3>1, <3>2, PopStep, PlainLists, PlainOk
  <2> QED BY <1>1, <2>1, <2>2
<1> QED BY <1>1, <1>3, <1>4, SameConns, PlainStep DEF connVars, histVars, MsgrInv, Shape

(* The last call of a handler, which only what was read leaves behind. *)
LEMMA LastCall ==
  ASSUME TableShape, Phases, NEW kind \in Lasting, Call(kind)
  PROVE  /\ Len(todo) = 1 /\ Final = todo[1] /\ Rest = << >> /\ IsList(todo) /\ todo # << >>
         /\ \A x, c : ~HasCancel(todo, x, c) /\ OneCancel(todo, x, c)
<1>1. /\ todo # << >> /\ todo[1].k = kind /\ IsList(Rest) /\ IsList(todo)
      /\ Len(todo) \in Nat /\ Len(todo) > 0 /\ Len(Rest) = Len(todo) - 1
  BY CallHead DEF TableShape
<1>2. 1 \in 1..Len(todo)
  BY <1>1
<1>3. Len(todo) = 1
  BY <1>1, <1>2 DEF Phases
<1>4. Rest = << >>
  BY <1>1, <1>3, ListEmpty
<1>5. \A i \in 1..Len(todo) : todo[i].k # "cancel"
  BY <1>1, <1>3 DEF Lasting
<1> QED BY <1>1, <1>3, <1>4, <1>5 DEF HasCancel, OneCancel, IsCancel, Final

LEMMA ImmediateOpsDoneOk ==
  ASSUME MsgrInv, ImmediateOpsDone
  PROVE  MsgrInv'
<1>1. /\ Call("imm") /\ imm = << >> /\ todo' = Rest
      /\ UNCHANGED <<connVars, clients, peerfd, imm, histVars>>
  BY DEF ImmediateOpsDone
<1>2. TableShape /\ Phases /\ ConnShape /\ "imm" \in Lasting
  BY DEF MsgrInv, Shape, Lasting
<1>3. /\ Len(todo) = 1 /\ todo' = << >> /\ todo # << >> /\ todo[1].k = "imm"
      /\ \A x, c : ~HasCancel(todo, x, c) /\ OneCancel(todo, x, c)
  BY <1>1, <1>2, LastCall, CallHead
<1>4. IsList(todo') /\ Len(todo') = 0 /\ Len(imm') = 0 /\ imm' = << >>
  BY <1>1, <1>3, ListOne
<1>5. Phases'
  BY <1>3, <1>4 DEF Phases
<1>6. SameCancels
  BY <1>3, <1>4 DEF SameCancels, HasCancel, OneCancel
<1>7. \A d \in Conns : Parsing(d)' = Parsing(d)
  BY <1>3 DEF Parsing
<1>8. NoDrop
  BY <1>3, NotDropping
<1> QED BY <1>1, <1>2, <1>4, <1>5, <1>6, <1>7, <1>8, SameConns, CalmStep DEF connVars, histVars

LEMMA PlainCat ==
  ASSUME NEW p, NEW q, PlainCalls(p), PlainCalls(q)
  PROVE  PlainCalls(p \o q)
<1>1. PICK u : u = p \o q
  OBVIOUS
<1>4. IsList(p) /\ IsList(q) /\ Len(p) \in Nat /\ Len(q) \in Nat
  BY DEF IsList, PlainCalls
<1>2. /\ IsList(u) /\ Len(u) = Len(p) + Len(q) /\ Len(p) \in Nat /\ Len(q) \in Nat
      /\ \A i \in 1..Len(p) : u[i] = p[i]
      /\ \A i \in 1..Len(q) : u[Len(p) + i] = q[i]
  BY <1>1, <1>4, ListCat
<1>3. ASSUME NEW i \in 1..Len(u)
      PROVE  u[i].k \in PlainKinds /\ CallOk(u[i])'
  <2>1. CASE i \in 1..Len(p)
    BY <1>2, <2>1 DEF PlainCalls
  <2>2. CASE i \notin 1..Len(p)
    <3>1. i - Len(p) \in 1..Len(q) /\ i = Len(p) + (i - Len(p))
      BY <1>2, <2>2
    <3> QED BY <1>2, <3>1 DEF PlainCalls
  <2> QED BY <2>1, <2>2
<1> QED BY <1>1, <1>2, <1>3 DEF PlainCalls

LEMMA CatAssoc ==
  ASSUME NEW p, NEW q, NEW s, IsList(p), IsList(q), IsList(s)
  PROVE  p \o (q \o s) = (p \o q) \o s
<1> DEFINE S == {p[i] : i \in 1..Len(p)} \union {q[i] : i \in 1..Len(q)} \union {s[i] : i \in 1..Len(s)}
<1>1. p \in Seq(S) /\ q \in Seq(S) /\ s \in Seq(S)
  BY DEF IsList
<1> HIDE DEF S
<1> QED BY <1>1

-----------------------------------------------------------------------------
(* A new connection, connecting or accepted, at a descriptor nobody has. *)
LEMMA CreateStep ==
  ASSUME MsgrInv, NEW p, PlainCalls(p), TodoStep(p), NoDrop,
         NEW c \in Conns, NEW fd \in Fds, NEW st \in Up, NEW o, c \in FreeConns, fd \in FreeFds,
         conn' = [conn EXCEPT ![c] = NewConn(st, fd, o)], clients' = [clients EXCEPT ![fd] = c],
         UNCHANGED <<rd, wr, sent, received, net, peerfd, imm, called, pushed, lost, req, replies>>
  PROVE  MsgrInv'
<1>1. Shape /\ Holding /\ Links /\ Phases /\ Streams /\ Writes
  BY DEF MsgrInv
<1>2. ConnShape /\ TableShape /\ OpsShape
  BY <1>1 DEF Shape
<1>3. conn[c].st = "new" /\ \A d \in Conns : conn[d].fd # fd
  BY DEF FreeConns, FreeFds
<1>4. /\ conn'[c].st = st /\ conn'[c].fd = fd /\ conn'[c].osd = o /\ ConnShape'
      /\ \A d \in Conns : d # c => conn'[d] = conn[d]
  BY <1>2 DEF ConnShape, NewConn
<1>5. /\ clients'[fd] = c /\ \A f \in Fds : f # fd => clients'[f] = clients[f]
      /\ clients[fd] = None
  <2>1. clients[fd] # None => clients[fd] \in Conns /\ conn[clients[fd]].fd = fd
    BY <1>1, <1>2 DEF Links, TableShape
  <2> QED BY <1>2, <1>3, <2>1 DEF TableShape
<1>6. GoneStays
  BY <1>3, <1>4 DEF GoneStays, Gone
<1>7. /\ Phases' /\ IsList(todo') /\ SameCancels
      /\ \A d : Parsing(d) = << >> /\ Parsing(d)' = << >>
  BY <1>1, <1>2, <1>6, PlainPhases
<1>8. Shape'
  <2>1. ReadShape' /\ WriteShape' /\ NetShape' /\ OpsShape'
    BY <1>1 DEF Shape, ReadShape, WriteShape, NetShape, OpsShape
  <2>2. TableShape'
    BY <1>2, <1>7 DEF TableShape
  <2> QED BY <1>4, <2>1, <2>2 DEF Shape
<1>9. Holding' /\ \A x \in Held1, d \in Conns : Somewhere(x, d)' <=> Somewhere(x, d)
  BY <1>1, <1>7, StillHeld, HoldingKept
<1>10. Empty(c) /\ \A x \in Held1 : ~Somewhere(x, c)
  BY <1>1, <1>3 DEF Links, Quiet
<1>11. ASSUME NEW d \in Conns PROVE ConnOk(d)' /\ Quiet(d)'
  <2>1. CASE d = c
    <3>1. ConnOk(d)'
      BY <1>4, <1>5, <2>1 DEF ConnOk, Up, ConnStates
    <3>2. Empty(d)' /\ \A x \in Held1 : ~Somewhere(x, d)'
      BY <1>9, <1>10, <2>1 DEF Empty
    <3>3. ~wr'[d].q
      BY <1>10, <2>1 DEF Empty, NewWrite
    <3> QED BY <3>1, <3>2, <3>3 DEF Quiet
  <2>2. CASE d # c
    <3>1. ConnOk(d) /\ Quiet(d) /\ conn'[d] = conn[d] /\ conn[d].fd # fd
      BY <1>1, <1>3, <1>4, <2>2 DEF Links
    <3>2. ConnOk(d)'
      BY <1>5, <3>1 DEF ConnOk
    <3>3. Quiet(d)'
      BY <1>9, <3>1 DEF Quiet, Empty
    <3> QED BY <3>2, <3>3
  <2> QED BY <2>1, <2>2
<1>12. ASSUME NEW f \in Fds, clients'[f] # None
       PROVE  conn'[clients'[f]].fd = f /\ conn'[clients'[f]].st \in Up
  <2>1. CASE f = fd
    BY <1>4, <1>5, <2>1
  <2>2. CASE f # fd
    <3>1. clients'[f] = clients[f] /\ clients[f] \in Conns
      BY <1>2, <1>5, <1>12, <2>2 DEF TableShape
    <3>2. conn[clients[f]].fd = f /\ conn[clients[f]].st \in Up
      BY <1>1, <1>12, <3>1 DEF Links
    <3>3. clients[f] # c
      BY <1>3, <3>2 DEF Up
    <3> QED BY <1>4, <3>1, <3>2, <3>3
  <2> QED BY <2>1, <2>2
<1>13. ASSUME NEW q \in Osds PROVE PeerOk(q)'
  <2>1. PeerOk(q) /\ peerfd'[q] = peerfd[q]
    BY <1>1 DEF Links
  <2>2. PICK d : d = clients[peerfd[q]]
    OBVIOUS
  <2>3. CASE peerfd[q] # None
    <3>1. d \in Conns /\ conn[d].osd = q /\ conn[d].st = "connected" /\ ~Somewhere(Conf, d) /\ d # None
      BY <2>1, <2>2, <2>3, MessengerAssumption DEF PeerOk
    <3>2. peerfd[q] \in Fds /\ peerfd[q] # fd /\ d # c
      BY <1>2, <1>3, <1>5, <2>2, <2>3, <3>1 DEF TableShape
    <3>3. clients'[peerfd'[q]] = d /\ conn'[d] = conn[d] /\ ~Somewhere(Conf, d)'
      BY <1>4, <1>5, <1>9, <2>1, <2>2, <3>1, <3>2 DEF Held1
    <3> QED BY <3>1, <3>3 DEF PeerOk
  <2> QED BY <2>1, <2>3 DEF PeerOk
<1>14. Links'
  BY <1>11, <1>12, <1>13 DEF Links
<1>15. Streams'
  <2>1. ASSUME NEW d \in Conns, Reads(d)'
        PROVE  SameStream(d)
    <3>1. CASE d = c
      <4>1. rd'[d] = NewRead /\ net'[d] = NewSocket
        BY <1>10, <3>1 DEF Empty
      <4>2. Stream(d)' = << >> \o (<< >> \o << >>)
        BY <1>7, <4>1 DEF Stream, NewRead, NewSocket
      <4>3. Stream(d)' = << >>
        BY <4>2, EmptyCat, ListOne
      <4> QED BY <4>1, <4>3 DEF SameStream, NewRead, NoOp
    <3>2. CASE d # c
      <4>1. Reads(d)
        BY <1>4, <2>1, <3>2 DEF Reads, NoDrop
      <4> QED BY <1>7, <4>1 DEF Stream, SameStream
    <3> QED BY <3>1, <3>2
  <2>2. ASSUME NEW d \in Conns, Reads(d)'
        PROVE  (~rd'[d].busy => rd'[d].got = << >>) /\ (rd'[d].eof => rd'[d].got = << >>)
    <3>1. CASE d = c
      BY <1>10, <3>1 DEF Empty, NewRead
    <3>2. CASE d # c
      <4>1. Reads(d)
        BY <1>4, <2>2, <3>2 DEF Reads, NoDrop
      <4> QED BY <1>1, <4>1 DEF Streams, ReadOk
    <3> QED BY <3>1, <3>2
  <2> QED BY <1>1, <2>1, <2>2, StreamsKept
<1>16. Writes'
  <2>1. ASSUME NEW d \in Conns, conn'[d].st = "connected"
        PROVE  \/ conn[d].st = "connected" /\ SameWrite(wr[d], wr'[d])
               \/ SameWrite(NewWrite, wr'[d])
    <3>1. CASE d = c
      BY <1>10, <3>1 DEF Empty, SameWrite
    <3>2. CASE d # c
      BY <1>4, <2>1, <3>2 DEF SameWrite
    <3> QED BY <3>1, <3>2
  <2> QED BY <1>1, <1>2, <2>1, WritesKept DEF Begun
<1> QED BY <1>7, <1>8, <1>9, <1>14, <1>15, <1>16 DEF MsgrInv

LEMMA AcceptConnectionOk ==
  ASSUME MsgrInv, NEW c \in Conns, NEW fd \in Fds, AcceptConnection(c, fd)
  PROVE  MsgrInv'
<1>1. /\ Event /\ todo' = todo /\ c \in FreeConns /\ fd \in FreeFds
      /\ conn' = [conn EXCEPT ![c] = NewConn("connected", fd, None)]
      /\ clients' = [clients EXCEPT ![fd] = c]
      /\ UNCHANGED <<rd, wr, sent, received, net, peerfd, imm, called, pushed, lost, req, replies>>
  BY DEF AcceptConnection, Least
<1>2. PlainCalls(<< >>) /\ TodoStep(<< >>) /\ NoDrop
  BY <1>1, EventStep, PlainLists, NotDropping
<1>3. "connected" \in Up
  BY DEF Up
<1> QED BY <1>1, <1>2, <1>3, CreateStep

LEMMA TryConnectPeerOk ==
  ASSUME MsgrInv, TryConnectPeer
  PROVE  MsgrInv'
<1>1. /\ Call("try")
      /\ UNCHANGED <<rd, wr, sent, received, net, peerfd, imm, called, pushed, lost, req, replies>>
      /\ \/ todo' = Rest /\ UNCHANGED <<conn, clients>>
         \/ \E o : todo' = <<FailCall(o)>> \o Rest /\ UNCHANGED <<conn, clients>>
         \/ \E o : \E c \in Conns, fd \in Fds :
              /\ c \in FreeConns /\ fd \in FreeFds
              /\ conn' = [conn EXCEPT ![c] = NewConn("connecting", fd, o)]
              /\ clients' = [clients EXCEPT ![fd] = c]
              /\ todo' = Rest
  BY DEF TryConnectPeer, Least
<1>2. TableShape /\ ConnShape /\ "try" \in PlainKinds
  BY DEF MsgrInv, Shape, PlainKinds
<1>3. NoDrop
  BY <1>1, <1>2, CallHead, NotDropping
<1>4. CASE todo' = Rest /\ UNCHANGED <<conn, clients>>
  BY <1>1, <1>2, <1>3, <1>4, PopStep, PlainLists, SameConns, PlainStep
<1>5. CASE \E o : todo' = <<FailCall(o)>> \o Rest /\ UNCHANGED <<conn, clients>>
  <2>1. PICK o : todo' = <<FailCall(o)>> \o Rest /\ UNCHANGED <<conn, clients>>
    BY <1>5
  <2>2. PICK p : p = <<FailCall(o)>>
    OBVIOUS
  <2>3. PlainCalls(p) /\ TodoStep(p)
    BY <1>1, <1>2, <2>1, <2>2, PopStep, PlainLists, PlainOk
  <2> QED BY <1>1, <1>2, <1>3, <2>1, <2>3, SameConns, PlainStep
<1>6. CASE \E o : \E c \in Conns, fd \in Fds :
              /\ c \in FreeConns /\ fd \in FreeFds
              /\ conn' = [conn EXCEPT ![c] = NewConn("connecting", fd, o)]
              /\ clients' = [clients EXCEPT ![fd] = c]
              /\ todo' = Rest
  <2>1. PlainCalls(<< >>) /\ TodoStep(<< >>)
    BY <1>1, <1>2, <1>6, PopStep, PlainLists
  <2>2. "connecting" \in Up
    BY DEF Up
  <2> QED BY <1>1, <1>3, <1>6, <2>1, <2>2, CreateStep
<1> QED BY <1>1, <1>4, <1>5, <1>6

-----------------------------------------------------------------------------
(* stop_client: nobody leads to the connection any more. *)
LEMMA StopClientOk ==
  ASSUME MsgrInv, StopClient
  PROVE  MsgrInv'
<1>1. Shape /\ Holding /\ Links /\ Phases /\ Streams /\ Writes
  BY DEF MsgrInv
<1>2. ConnShape /\ TableShape /\ OpsShape /\ ReadShape /\ WriteShape /\ "stop" \in PlainKinds
  BY <1>1 DEF Shape, PlainKinds
<1>3. PICK a, fd, c : a = Head(todo) /\ fd = a.fd /\ c = clients[fd]
  OBVIOUS
<1>4. /\ Call("stop") /\ todo # << >> /\ todo[1] = a /\ a.k = "stop" /\ IsList(Rest) /\ IsList(todo)
      /\ Len(todo) \in Nat /\ Len(todo) > 0
  BY <1>2, <1>3, CallHead DEF StopClient, TableShape
<1>5. fd \in Fds /\ c \in Conns \union {None}
  <2>1. 1 \in 1..Len(todo)
    BY <1>4
  <2>2. CallOk(a)
    BY <1>1, <1>4, <2>1 DEF Phases
  <2> QED BY <1>2, <1>3, <1>4, <2>2 DEF CallOk, TableShape
<1>6. UNCHANGED <<sent, received, net, imm, pushed, called, lost, req, replies>>
  BY DEF StopClient
<1>7. ASSUME NEW d \in Conns, conn[d].st = "connected", Dropping(d)
      PROVE  d = c
  <2>1. conn[d].fd = fd
    BY <1>3, <1>4, <1>7 DEF Dropping
  <2> QED BY <1>1, <1>3, <1>7, <2>1 DEF Links, ConnOk, Up
<1>8. CASE Spared(c, a.force)
  <2>1. todo' = Rest /\ UNCHANGED <<conn, rd, wr, clients, peerfd>>
    BY <1>3, <1>8 DEF StopClient
  <2>2. NoDrop
    BY <1>7, <1>8, MessengerAssumption DEF NoDrop, Spared
  <2> QED BY <1>2, <1>4, <1>6, <2>1, <2>2, PopStep, PlainLists, SameConns, PlainStep
<1>9. CASE ~Spared(c, a.force)
  <2>1. c \in Conns /\ c # None
    BY <1>5, <1>9 DEF Spared
  <2>2. /\ conn' = [conn EXCEPT ![c].st = "stopped"]
        /\ peerfd' = [o \in Osds |-> IF o = conn[c].osd /\ peerfd[o] = fd THEN None ELSE peerfd[o]]
        /\ rd' = [rd EXCEPT ![c].q = FALSE]
        /\ wr' = [wr EXCEPT ![c].q = FALSE]
        /\ clients' = [clients EXCEPT ![fd] = None]
        /\ todo' = (IF conn[c].osd # None THEN <<UserCall>> ELSE << >>)
                   \o (IF conn[c].refs = 0 THEN <<DeleteCall(c)>> ELSE << >>) \o Rest
    BY <1>3, <1>9 DEF StopClient
  <2>3. /\ conn'[c].st = "stopped" /\ conn'[c].fd = conn[c].fd /\ ConnShape'
        /\ \A d \in Conns : d # c => conn'[d] = conn[d]
    BY <1>2, <2>1, <2>2 DEF ConnShape
  <2>4. /\ clients'[fd] = None /\ \A f \in Fds : f # fd => clients'[f] = clients[f]
        /\ conn[c].fd = fd /\ conn[c].st \in Up
    BY <1>1, <1>2, <1>3, <1>5, <2>1, <2>2 DEF TableShape, Links
  <2>5. GoneStays
    BY <2>3 DEF GoneStays, Gone
  <2>6. PICK p, q : /\ p = (IF conn[c].osd # None THEN <<UserCall>> ELSE << >>)
                    /\ q = (IF conn[c].refs = 0 THEN <<DeleteCall(c)>> ELSE << >>)
    OBVIOUS
  <2>7. PlainCalls(p) /\ PlainCalls(q)
    <3>1. PlainCalls(<<UserCall>>) /\ PlainCalls(<< >>)
      BY PlainLists, PlainOk
    <3>2. PICK b : b = DeleteCall(c)
      OBVIOUS
    <3>3. b.k \in PlainKinds /\ CallOk(b)'
      BY <2>1, <2>3, <3>2, PlainOk DEF Gone
    <3>4. PlainCalls(<<b>>)
      BY <3>3, PlainLists
    <3> QED BY <2>6, <3>1, <3>2, <3>4
  <2>8. todo' = (p \o q) \o Rest
    BY <1>4, <2>2, <2>6, <2>7, CatAssoc DEF PlainCalls
  <2>9. PICK u : u = p \o q
    OBVIOUS
  <2>10. PlainCalls(u) /\ TodoStep(u)
    BY <1>2, <1>4, <2>7, <2>8, <2>9, PlainCat, PopStep
  <2>11. /\ Phases' /\ IsList(todo') /\ SameCancels
         /\ \A d : Parsing(d) = << >> /\ Parsing(d)' = << >>
    BY <1>1, <1>2, <1>6, <2>5, <2>10, PlainPhases
  <2>12. /\ ReadShape' /\ WriteShape'
         /\ \A d \in Conns : rd'[d].op = rd[d].op /\ rd'[d].got = rd[d].got /\ rd'[d].busy = rd[d].busy
                             /\ rd'[d].eof = rd[d].eof
         /\ \A d \in Conns : d # c => wr'[d] = wr[d] /\ rd'[d] = rd[d]
         /\ ~wr'[c].q
    BY <1>2, <2>1, <2>2 DEF ReadShape, WriteShape
  <2>13. Shape'
    <3>1. NetShape' /\ OpsShape'
      BY <1>1, <1>6 DEF Shape, NetShape, OpsShape
    <3>2. TableShape'
      BY <1>2, <1>6, <2>2, <2>11 DEF TableShape
    <3> QED BY <2>3, <2>12, <3>1, <3>2 DEF Shape
  <2>14. Holding' /\ \A x \in Held1, d \in Conns : Somewhere(x, d)' <=> Somewhere(x, d)
    BY <1>1, <1>6, <2>11, <2>12, StillHeld, HoldingKept
  <2>15. ASSUME NEW d \in Conns PROVE ConnOk(d)' /\ Quiet(d)'
    <3>1. CASE d = c
      BY <1>5, <2>3, <2>4, <2>12, <3>1 DEF ConnOk, Quiet, ConnStates, Up
    <3>2. CASE d # c
      <4>1. ConnOk(d) /\ Quiet(d) /\ conn'[d] = conn[d]
        BY <1>1, <2>3, <3>2 DEF Links
      <4>2. conn[d].st \in Up => conn[d].fd # fd
        BY <1>3, <3>2, <4>1 DEF ConnOk
      <4>3. ConnOk(d)'
        BY <2>4, <4>1, <4>2 DEF ConnOk
      <4>4. Quiet(d)'
        BY <1>6, <2>12, <2>14, <3>2, <4>1 DEF Quiet, Empty
      <4> QED BY <4>3, <4>4
    <3> QED BY <3>1, <3>2
  <2>16. ASSUME NEW f \in Fds, clients'[f] # None
         PROVE  conn'[clients'[f]].fd = f /\ conn'[clients'[f]].st \in Up
    <3>1. f # fd /\ clients'[f] = clients[f] /\ clients[f] \in Conns
      BY <1>2, <2>4, <2>16 DEF TableShape
    <3>2. conn[clients[f]].fd = f /\ conn[clients[f]].st \in Up
      BY <1>1, <2>16, <3>1 DEF Links
    <3> QED BY <2>3, <2>4, <3>1, <3>2
  <2>17. ASSUME NEW o \in Osds PROVE PeerOk(o)'
    <3>1. PeerOk(o)
      BY <1>1 DEF Links
    <3>2. PICK d : d = clients[peerfd[o]]
      OBVIOUS
    <3>3. CASE peerfd'[o] # None
      <4>1. peerfd'[o] = peerfd[o] /\ peerfd[o] # None /\ ~(o = conn[c].osd /\ peerfd[o] = fd) /\ peerfd[o] \in Fds
        BY <1>2, <2>2, <3>3 DEF TableShape
      <4>2. d \in Conns /\ conn[d].osd = o /\ conn[d].st = "connected" /\ ~Somewhere(Conf, d)
        BY <3>1, <3>2, <4>1 DEF PeerOk
      <4>3. peerfd[o] # fd
        BY <1>3, <3>2, <4>1, <4>2
      <4>4. clients'[peerfd'[o]] = d
        BY <2>4, <3>2, <4>1, <4>3
      <4>5. d # c
        BY <1>1, <2>4, <3>2, <4>1, <4>2, <4>3, MessengerAssumption DEF Links
      <4>6. conn'[d] = conn[d] /\ ~Somewhere(Conf, d)'
        BY <2>3, <2>14, <4>2, <4>5 DEF Held1
      <4> QED BY <4>2, <4>4, <4>6 DEF PeerOk
    <3> QED BY <3>3 DEF PeerOk
  <2>18. Links'
    BY <2>15, <2>16, <2>17 DEF Links
  <2>19. \A d \in Conns : Reads(d)' => Reads(d) /\ d # c
    BY <1>7, <2>3 DEF Reads
  <2>20. Streams'
    <3>1. \A d \in Conns : Reads(d)' => SameStream(d)
      BY <1>6, <2>11, <2>12, <2>19 DEF Stream, SameStream
    <3>2. \A d \in Conns : Reads(d) => (~rd[d].busy => rd[d].got = << >>) /\ (rd[d].eof => rd[d].got = << >>)
      BY <1>1 DEF Streams, ReadOk
    <3> QED BY <1>1, <1>6, <2>12, <2>19, <3>1, <3>2, StreamsKept
  <2>21. Writes'
    <3>1. \A d \in Conns : conn'[d].st = "connected" => conn[d].st = "connected" /\ SameWrite(wr[d], wr'[d])
      BY <2>3, <2>12 DEF SameWrite
    <3> QED BY <1>1, <1>2, <1>6, <3>1, WritesKept DEF Begun
  <2> QED BY <2>11, <2>13, <2>14, <2>18, <2>20, <2>21 DEF MsgrInv
<1> QED BY <1>8, <1>9

-----------------------------------------------------------------------------
(* The messages of R, a set of pairs of a message and its connection, are   *)
(* answered or dropped; the others may move but stay in one place.          *)
LEMMA HoldingLess ==
  ASSUME Holding, NEW R,
         \A x \in Held1, c \in Conns : <<x, c>> \in R => Somewhere(x, c),
         \A x \in Held1, c \in Conns : One(x, c)',
         \A x \in Held1, c \in Conns : Somewhere(x, c)' <=> Somewhere(x, c) /\ <<x, c>> \notin R,
         \A op \in Ops : /\ called'[op] \in {0, 1}
                         /\ Waits(op)' <=> Waits(op) /\ \A c \in Conns : <<op, c>> \notin R
                         /\ Fresh(op)',
         \A r \in Reqs : \/ req[r].st = "read" => req'[r] = req[r]
                         \/ \E c \in Conns : <<r, c>> \in R
  PROVE  Holding'
<1>3. Ops \subseteq Held1 /\ Reqs \subseteq Held1 /\ Conf \in Held1
  BY DEF Held1
<1>5. (\A x \in Ops \union Reqs, c, d \in Conns : Somewhere(x, c) /\ Somewhere(x, d) => c = d)'
  BY <1>3 DEF Holding
<1>6. ASSUME NEW op \in Ops
      PROVE  Waits(op)' <=> \E c \in Conns : Somewhere(op, c)'
  <2>1. Waits(op) <=> \E c \in Conns : Somewhere(op, c)
    BY DEF Holding
  <2>2. \A c, d \in Conns : Somewhere(op, c) /\ Somewhere(op, d) => c = d
    BY DEF Holding
  <2>3. \A c \in Conns : Somewhere(op, c)' <=> Somewhere(op, c) /\ <<op, c>> \notin R
    BY <1>3
  <2>4. Waits(op)' <=> Waits(op) /\ \A c \in Conns : <<op, c>> \notin R
    OBVIOUS
  <2>5. ASSUME NEW c \in Conns, Somewhere(op, c), <<op, c>> \notin R
        PROVE  \A d \in Conns : <<op, d>> \notin R \/ ~Somewhere(op, d)
    BY <2>2, <2>5
  <2>6. \A c \in Conns : <<op, c>> \in R => Somewhere(op, c)
    BY <1>3
  <2> QED BY <2>1, <2>2, <2>3, <2>4, <2>5, <2>6
<1>7. (\A op \in Ops, c \in Conns : ~(Somewhere(op, c) /\ Somewhere(Conf, c)))'
  BY <1>3 DEF Holding
<1>8. (\A r \in Reqs, c \in Conns : Somewhere(r, c) => req[r].st = "read" /\ req[r].c = c)'
  <2> SUFFICES ASSUME NEW r \in Reqs, NEW c \in Conns, Somewhere(r, c)'
               PROVE  req'[r].st = "read" /\ req'[r].c = c
    OBVIOUS
  <2>1. Somewhere(r, c) /\ <<r, c>> \notin R /\ req[r].st = "read" /\ req[r].c = c
    BY <1>3 DEF Holding
  <2>2. \A d \in Conns : <<r, d>> \in R => d = c
    BY <1>3, <2>1 DEF Holding
  <2> QED BY <2>1, <2>2
<1> QED BY <1>5, <1>6, <1>7, <1>8 DEF Holding

LEMMA ConsCancel ==
  ASSUME NEW a, NEW t, IsList(t)
  PROVE  /\ IsList(<<a>> \o t)
         /\ \A x, c : /\ HasCancel(<<a>> \o t, x, c) <=> IsCancel(a, x, c) \/ HasCancel(t, x, c)
                      /\ OneCancel(t, x, c) /\ ~(IsCancel(a, x, c) /\ HasCancel(t, x, c)) => OneCancel(<<a>> \o t, x, c)
<1>1. PICK p, u : p = <<a>> /\ u = <<a>> \o t
  OBVIOUS
<1>2. IsList(p) /\ Len(p) = 1 /\ p[1] = a
  BY <1>1, ListOne
<1>3. /\ IsList(u) /\ Len(t) \in Nat /\ Len(u) = 1 + Len(t) /\ u[1] = a
      /\ \A i \in 1..Len(t) : u[1 + i] = t[i]
  <2>0. IsList(p)
    BY <1>2
  <2>1. /\ IsList(p \o t) /\ Len(p \o t) = Len(p) + Len(t)
        /\ \A i \in 1..Len(p) : (p \o t)[i] = p[i]
        /\ \A i \in 1..Len(t) : (p \o t)[Len(p) + i] = t[i]
    BY <2>0, ListCat
  <2>4. p \o t = u /\ Len(t) \in Nat
    BY <1>1 DEF IsList
  <2> QED BY <1>2, <2>1, <2>4
<1>4. \A i \in 1..Len(u) : i = 1 \/ (i - 1 \in 1..Len(t) /\ u[i] = t[i - 1])
  BY <1>3
<1>5. 1 \in 1..Len(u) /\ \A i \in 1..Len(t) : 1 + i \in 1..Len(u)
  BY <1>3
<1>6. ASSUME NEW x, NEW c
      PROVE  HasCancel(u, x, c) <=> IsCancel(a, x, c) \/ HasCancel(t, x, c)
  BY <1>3, <1>4, <1>5 DEF HasCancel
<1>7. ASSUME NEW x, NEW c, OneCancel(t, x, c), ~(IsCancel(a, x, c) /\ HasCancel(t, x, c)),
             NEW i \in 1..Len(u), NEW j \in 1..Len(u), IsCancel(u[i], x, c), IsCancel(u[j], x, c)
      PROVE  i = j
  <2>1. CASE i = 1 \/ j = 1
    BY <1>3, <1>4, <1>7, <2>1 DEF HasCancel
  <2>2. CASE i # 1 /\ j # 1
    <3>1. i - 1 = j - 1
      BY <1>4, <1>7, <2>2 DEF OneCancel
    <3> QED BY <1>3, <3>1
  <2> QED BY <2>1, <2>2
<1> QED BY <1>1, <1>3, <1>6, <1>7 DEF OneCancel

-----------------------------------------------------------------------------
LEMMA AnyOne ==
  /\ AnyCalls(<< >>)
  /\ \A a : a.k \in AnyKinds /\ CallOk(a)' => AnyCalls(<<a>>)
<1>1. AnyCalls(<< >>)
  BY ListOne DEF AnyCalls
<1>2. ASSUME NEW a, a.k \in AnyKinds, CallOk(a)'
      PROVE  AnyCalls(<<a>>)
  <2>1. PICK p : p = <<a>>
    OBVIOUS
  <2>2. IsList(p) /\ Len(p) = 1 /\ p[1] = a
    BY <2>1, ListOne
  <2>3. \A i \in 1..Len(p) : p[i] = a
    BY <2>2
  <2> QED BY <1>2, <2>1, <2>2, <2>3 DEF AnyCalls
<1> QED BY <1>1, <1>2

LEMMA Apart ==
  /\ Reqs \intersect Outgoing = {} /\ None \notin Held1 /\ Ops \subseteq Outgoing /\ Conf \in Outgoing
  /\ Held1 \subseteq Outgoing \union Reqs /\ None \notin Conns /\ Ping \notin Held1 /\ Conf \notin Ops
  /\ Ops \subseteq Held1 /\ Reqs \subseteq Held1 /\ Conf \in Held1 /\ Ping \in Outgoing /\ Conf \notin Reqs
BY MessengerAssumption DEF Outgoing, Held1

(* ~osd_client_t: what was sent is cancelled, a request that is being read  *)
(* is forgotten.                                                            *)
LEMMA DeleteClientOk ==
  ASSUME MsgrInv, DeleteClient
  PROVE  MsgrInv'
<1>1. Shape /\ Holding /\ Links /\ Phases /\ Streams /\ Writes
  BY DEF MsgrInv
<1>2. ConnShape /\ TableShape /\ OpsShape /\ ReadShape /\ WriteShape /\ NetShape
  BY <1>1 DEF Shape
<1>3. PICK c, y, ops : c = Head(todo).c /\ y = rd[c].op.x /\ ops = sent[c] \union ({y} \intersect Outgoing)
  OBVIOUS
<1>4. /\ Call("delete") /\ todo # << >> /\ todo[1].c = c /\ todo[1].k = "delete" /\ IsList(Rest) /\ IsList(todo)
      /\ Len(todo) \in Nat /\ Len(todo) > 0
  BY <1>2, <1>3, CallHead DEF DeleteClient, TableShape
<1>5. c \in Conns /\ conn[c].st \in Gone
  <2>1. 1 \in 1..Len(todo)
    BY <1>4
  <2>2. CallOk(todo[1])
    BY <1>1, <2>1 DEF Phases
  <2> QED BY <1>4, <2>2 DEF CallOk
<1>6. /\ conn' = [conn EXCEPT ![c] = NewConn("deleted", None, @.osd)]
      /\ rd' = [rd EXCEPT ![c] = NewRead]
      /\ wr' = [wr EXCEPT ![c] = NewWrite]
      /\ sent' = [sent EXCEPT ![c] = {}]
      /\ received' = [received EXCEPT ![c] = {}]
      /\ net' = [net EXCEPT ![c] = NewSocket]
      /\ req' = [r \in Reqs |-> IF y = r THEN [req[r] EXCEPT !.st = "freed"] ELSE req[r]]
      /\ todo' = (IF ops = {} THEN << >> ELSE <<CancelCall(c, conn[c].fd, ops)>>) \o Rest
      /\ UNCHANGED <<clients, peerfd, imm, pushed, called, lost, replies>>
  BY <1>3 DEF DeleteClient
<1>7. /\ conn'[c].st = "deleted" /\ ConnShape'
      /\ \A d \in Conns : d # c => conn'[d] = conn[d]
  BY <1>2, <1>5, <1>6 DEF ConnShape, NewConn
<1>8. /\ rd'[c] = NewRead /\ wr'[c] = NewWrite /\ sent'[c] = {} /\ received'[c] = {} /\ net'[c] = NewSocket
      /\ \A d \in Conns : d # c => /\ rd'[d] = rd[d] /\ wr'[d] = wr[d] /\ sent'[d] = sent[d]
                                   /\ received'[d] = received[d] /\ net'[d] = net[d]
  BY <1>2, <1>5, <1>6 DEF ReadShape, WriteShape, NetShape, OpsShape
<1>9. \A r \in Reqs : /\ r # y => req'[r] = req[r]
                      /\ r = y => req'[r].st = "freed" /\ req'[r].c = req[r].c /\ req'[r].fd = req[r].fd
                      /\ DOMAIN req'[r] = {"st", "c", "fd"}
  BY <1>2, <1>6 DEF OpsShape
<1>10. ops \subseteq Outgoing /\ (ops # {} => conn[c].fd \in Fds)
  <2>1. ops \subseteq Outgoing
    BY <1>2, <1>3, <1>5 DEF OpsShape
  <2>2. conn[c].st = "deleted" => ops = {}
    <3>1. conn[c].st = "deleted" => sent[c] = {} /\ rd[c] = NewRead
      BY <1>1, <1>5 DEF Links, Quiet, Empty
    <3>2. NewRead.op.x = None
      BY DEF NewRead, NoOp
    <3>3. None \notin Outgoing
      BY MessengerAssumption DEF Outgoing
    <3> QED BY <1>3, <3>1, <3>2, <3>3
  <2>3. conn[c].st = "stopped" => conn[c].fd \in Fds
    BY <1>1, <1>5 DEF Links, ConnOk
  <2> QED BY <1>5, <2>1, <2>2, <2>3 DEF Gone
<1>11. GoneStays
  BY <1>7 DEF GoneStays, Gone
<1>12. PICK p : p = (IF ops = {} THEN << >> ELSE <<CancelCall(c, conn[c].fd, ops)>>)
  OBVIOUS
<1>13. AnyCalls(p) /\ AnyStep(p)
  <2>1. PICK a : a = CancelCall(c, conn[c].fd, ops)
    OBVIOUS
  <2>2. a.k = "cancel" /\ a.c = c /\ a.fd = conn[c].fd /\ a.ops = ops
    BY <2>1 DEF CancelCall
  <2>3. ops # {} => a.k \in AnyKinds /\ CallOk(a)'
    BY <1>5, <1>10, <2>2 DEF AnyKinds, CallOk, Lasting
  <2>4. AnyCalls(p)
    BY <1>12, <2>1, <2>3, AnyOne
  <2>5. AnyStep(p)
    BY <1>4, <1>6, <1>12 DEF AnyStep, AnyKinds, PlainKinds, Rest
  <2> QED BY <2>4, <2>5
<1>14. /\ Phases' /\ IsList(todo')
       /\ \A d : Parsing(d) = << >> /\ Parsing(d)' = << >>
  BY <1>1, <1>2, <1>6, <1>11, <1>13, AnyPhases
<1>15. ASSUME NEW x, NEW d
       PROVE  /\ HasCancel(todo', x, d) <=> (d = c /\ x \in ops) \/ HasCancel(todo, x, d)
              /\ OneCancel(todo, x, d) /\ ~(d = c /\ x \in ops /\ HasCancel(todo, x, d)) => OneCancel(todo', x, d)
  <2>1. /\ HasCancel(todo, x, d) <=> HasCancel(Rest, x, d)
        /\ OneCancel(todo, x, d) => OneCancel(Rest, x, d)
    BY <1>4, TailCancel DEF IsCancel, Rest
  <2>2. CASE ops = {}
    <3>1. todo' = Rest
      BY <1>4, <1>6, <2>2, EmptyCat
    <3> QED BY <2>1, <2>2, <3>1
  <2>3. CASE ops # {}
    <3>1. PICK a : a = CancelCall(c, conn[c].fd, ops)
      OBVIOUS
    <3>2. IsCancel(a, x, d) <=> d = c /\ x \in ops
      BY <3>1 DEF CancelCall, IsCancel
    <3>3. todo' = <<a>> \o Rest
      BY <1>6, <2>3, <3>1
    <3> QED BY <1>4, <2>1, <3>2, <3>3, ConsCancel
  <2> QED BY <2>2, <2>3
<1>16. Shape'
  <2>1. ReadShape' /\ WriteShape' /\ NetShape' /\ OpsShape'
    <3>1. ReadShape'
      BY <1>2, <1>5, <1>6, <1>8, ListOne DEF ReadShape, NewRead
    <3>2. WriteShape'
      BY <1>2, <1>5, <1>6, <1>8, ListOne DEF WriteShape, NewWrite
    <3>3. NetShape'
      BY <1>2, <1>5, <1>6, <1>8, ListOne DEF NetShape, NewSocket
    <3>4. OpsShape'
      BY <1>2, <1>5, <1>6, <1>8, <1>9 DEF OpsShape
    <3> QED BY <3>1, <3>2, <3>3, <3>4
  <2>2. TableShape'
    BY <1>2, <1>6, <1>14 DEF TableShape
  <2> QED BY <1>7, <2>1, <2>2 DEF Shape
<1>17. PICK R : R = {<<r, c>> : r \in Reqs \intersect {y}}
  OBVIOUS
<1>18. \A x, d : <<x, d>> \in R <=> x \in Reqs /\ x = y /\ d = c
  BY <1>17
<1>19. ASSUME NEW x \in Held1, NEW d \in Conns
       PROVE  /\ One(x, d)'
              /\ Somewhere(x, d)' <=> Somewhere(x, d) /\ <<x, d>> \notin R
              /\ <<x, d>> \in R => Somewhere(x, d)
  <2>1. One(x, d)
    BY <1>1 DEF Holding
  <2>2. CASE d # c
    <3>1. SameHeld(x, d)
      BY <1>6, <1>8, <1>15, <2>2 DEF SameHeld
    <3> QED BY <1>18, <2>1, <2>2, <3>1, HeldKept
  <2>3. CASE d = c
    <3>1. x \notin sent'[c] /\ rd'[c].op.x # x /\ imm' = imm
      BY <1>6, <1>8, Apart DEF NewRead, NoOp
    <3>2. rd[c].op.x = y
      BY <1>3
    <3>3. CASE x \in Reqs
      <4>1. x \notin ops /\ x \notin sent[c]
        BY <1>2, <1>5, <1>10, <3>3, Apart DEF OpsShape
      <4> QED BY <1>15, <1>18, <2>1, <2>3, <3>1, <3>2, <3>3, <4>1 DEF One, Somewhere
    <3>4. CASE x \notin Reqs
      <4>1. x \in ops <=> x \in sent[c] \/ y = x
        BY <1>3, <3>4, Apart
      <4> QED BY <1>15, <1>18, <2>1, <2>3, <3>1, <3>2, <3>4, <4>1 DEF One, Somewhere
    <3> QED BY <3>3, <3>4
  <2> QED BY <2>2, <2>3
<1>20. Holding'
  <2>1. \A op \in Ops : /\ called'[op] \in {0, 1}
                        /\ Waits(op)' <=> Waits(op) /\ \A d \in Conns : <<op, d>> \notin R
    BY <1>1, <1>6, <1>18, Apart DEF Holding, Waits, Lost
  <2>3. \A op \in Ops : Fresh(op)'
    BY <1>1, <1>6 DEF Holding, Fresh, Lost
  <2>2. \A r \in Reqs : \/ req[r].st = "read" => req'[r] = req[r]
                        \/ \E d \in Conns : <<r, d>> \in R
    BY <1>5, <1>9, <1>18
  <2> QED BY <1>1, <1>19, <2>1, <2>2, <2>3, HoldingLess
<1>21. ASSUME NEW d \in Conns PROVE ConnOk(d)' /\ Quiet(d)'
  <2>1. CASE d = c
    BY <1>7, <1>8, <2>1 DEF ConnOk, Quiet, ConnStates, Up, Empty
  <2>2. CASE d # c
    <3>1. ConnOk(d) /\ Quiet(d) /\ conn'[d] = conn[d]
      BY <1>1, <1>7, <2>2 DEF Links
    <3>2. ConnOk(d)'
      BY <1>6, <3>1 DEF ConnOk
    <3>3. Quiet(d)'
      BY <1>8, <1>19, <2>2, <3>1 DEF Quiet, Empty
    <3> QED BY <3>2, <3>3
  <2> QED BY <2>1, <2>2
<1>22. ASSUME NEW f \in Fds, clients'[f] # None
       PROVE  conn'[clients'[f]].fd = f /\ conn'[clients'[f]].st \in Up
  <2>1. conn[clients[f]].fd = f /\ conn[clients[f]].st \in Up /\ clients[f] \in Conns /\ clients'[f] = clients[f]
    BY <1>1, <1>2, <1>6, <1>22 DEF Links, TableShape
  <2> QED BY <1>5, <1>7, <2>1 DEF Up, Gone
<1>23. ASSUME NEW o \in Osds PROVE PeerOk(o)'
  <2>1. PeerOk(o)
    BY <1>1 DEF Links
  <2>2. PICK d : d = clients[peerfd[o]]
    OBVIOUS
  <2>3. CASE peerfd[o] # None
    <3>1. d \in Conns /\ conn[d].osd = o /\ conn[d].st = "connected" /\ ~Somewhere(Conf, d) /\ d # c
      BY <1>5, <2>1, <2>2, <2>3 DEF PeerOk, Gone
    <3>2. clients'[peerfd'[o]] = d /\ conn'[d] = conn[d] /\ ~Somewhere(Conf, d)'
      BY <1>6, <1>7, <1>19, <2>2, <3>1, Apart
    <3> QED BY <3>1, <3>2 DEF PeerOk
  <2>4. peerfd' = peerfd
    BY <1>6
  <2> QED BY <2>3, <2>4 DEF PeerOk
<1>24. Links'
  BY <1>21, <1>22, <1>23 DEF Links
<1>25. NoDrop
  BY <1>4, NotDropping
<1>26. \A d \in Conns : Reads(d)' => Reads(d) /\ d # c
  BY <1>5, <1>7, <1>25 DEF Reads, NoDrop
<1>27. \A r \in Reqs : r = y => req[r].st = "read"
  BY <1>1, <1>3, <1>5 DEF Holding, Somewhere
<1>28. Streams'
  <2>1. \A d \in Conns : Reads(d)' => SameStream(d)
    BY <1>8, <1>14, <1>26 DEF Stream, SameStream
  <2>2. \A d \in Conns : Reads(d) => (~rd[d].busy => rd[d].got = << >>) /\ (rd[d].eof => rd[d].got = << >>)
    BY <1>1 DEF Streams, ReadOk
  <2>3. \A r \in Reqs : req[r].st = "wire" => req'[r].st = "wire"
    BY <1>9, <1>27
  <2>4. \A d \in Conns : Reads(d)' => (~rd'[d].busy => rd'[d].got = << >>) /\ (rd'[d].eof => rd'[d].got = << >>)
    BY <1>8, <1>26, <2>2
  <2> QED BY <1>1, <2>1, <2>3, <2>4, StreamsKept
<1>29. Writes'
  <2>1. \A d \in Conns : conn'[d].st = "connected" => conn[d].st = "connected" /\ SameWrite(wr[d], wr'[d])
    BY <1>7, <1>8 DEF SameWrite
  <2>2. \A d \in Conns : \A r \in received'[d] : r \in received[d]
    BY <1>8
  <2>3. /\ \A r \in Reqs : Begun(r) => req'[r].c = req[r].c /\ Begun(r)'
        /\ \A r \in Reqs : Begun(r)' => Begun(r) /\ req'[r].fd = req[r].fd
        /\ \A r \in Reqs : req[r].st = "reply" => req'[r] = req[r]
        /\ \A r \in Reqs : req[r].st = "freed" => req'[r].st = "freed"
    BY <1>9, <1>27 DEF Begun
  <2>4. replies' = replies
    BY <1>6
  <2> QED BY <1>1, <1>2, <2>1, <2>2, <2>3, <2>4, WritesKept
<1> QED BY <1>14, <1>16, <1>20, <1>24, <1>28, <1>29 DEF MsgrInv

-----------------------------------------------------------------------------
(* A step that answers or drops the messages of R. *)
LEMMA AnswerStep ==
  ASSUME MsgrInv, Phases', TableShape', ConnShape', \A d \in Conns : SameConn(d), NoDrop,
         \A d \in Conns : Parsing(d)' = Parsing(d),
         NEW R,
         \A x \in Held1, c \in Conns : <<x, c>> \in R => Somewhere(x, c),
         \A x \in Held1, c \in Conns : One(x, c)',
         \A x \in Held1, c \in Conns : Somewhere(x, c)' <=> Somewhere(x, c) /\ <<x, c>> \notin R,
         called' = [op \in Ops |-> called'[op]],
         \A op \in Ops : /\ called'[op] \in {0, 1}
                         /\ Waits(op)' <=> Waits(op) /\ \A c \in Conns : <<op, c>> \notin R
                         /\ Fresh(op)',
         req' = [r \in Reqs |-> req'[r]],
         \A r \in Reqs : \/ req'[r] = req[r]
                         \/ /\ (\E c \in Conns : <<r, c>> \in R) \/ req[r].st = "exec"
                            /\ req'[r].st \in {"exec", "freed"} /\ req'[r].c = req[r].c /\ req'[r].fd = req[r].fd
                            /\ DOMAIN req'[r] = {"st", "c", "fd"},
         UNCHANGED <<rd, wr, sent, received, net, clients, pushed, replies>>,
         \A o \in Osds : PeerOk(o)'
  PROVE  MsgrInv'
<1>1. Shape /\ Holding /\ Links /\ Phases /\ Streams /\ Writes
  BY DEF MsgrInv
<1>2. Shape'
  <2>1. ReadShape' /\ WriteShape' /\ NetShape'
    BY <1>1 DEF Shape, ReadShape, WriteShape, NetShape
  <2>2. OpsShape'
    <3>1. OpsShape /\ \A r \in Reqs : DOMAIN req'[r] = {"st", "c", "fd"}
      BY <1>1 DEF Shape, OpsShape
    <3> QED BY <3>1 DEF OpsShape
  <2> QED BY <2>1, <2>2 DEF Shape
<1>3. \A r \in Reqs : req'[r] = req[r] \/ req[r].st \in {"read", "exec"}
  BY <1>1, Apart DEF Holding
<1>4. Holding'
  <2>1. \A r \in Reqs : \/ req[r].st = "read" => req'[r] = req[r]
                        \/ \E c \in Conns : <<r, c>> \in R
    OBVIOUS
  <2> QED BY <1>1, <2>1, HoldingLess
<1>5. Links'
  <2>1. \A d \in Conns : ConnOk(d) /\ Quiet(d)
    BY <1>1 DEF Links
  <2>2. \A d \in Conns : ConnOk(d)'
    BY <2>1 DEF ConnOk, SameConn
  <2>3. \A d \in Conns : Quiet(d)'
    <3> SUFFICES ASSUME NEW d \in Conns PROVE Quiet(d)'
      OBVIOUS
    <3>1. Quiet(d) /\ conn'[d].st = conn[d].st /\ (Empty(d) => Empty(d)')
      BY <2>1 DEF Empty, SameConn
    <3> QED BY <3>1 DEF Quiet
  <2>4. \A fd \in Fds : clients'[fd] # None => conn'[clients'[fd]].fd = fd /\ conn'[clients'[fd]].st \in Up
    BY <1>1 DEF Links, SameConn, Shape, TableShape
  <2> QED BY <2>2, <2>3, <2>4 DEF Links
<1>6. Streams'
  <2>1. \A d \in Conns : Reads(d)' => Reads(d)
    BY DEF Reads, NoDrop, SameConn
  <2>2. \A d \in Conns : Reads(d)' => SameStream(d)
    BY <2>1 DEF SameStream, Stream
  <2>3. \A d \in Conns : Reads(d) => (~rd[d].busy => rd[d].got = << >>) /\ (rd[d].eof => rd[d].got = << >>)
    BY <1>1 DEF Streams, ReadOk
  <2>4. \A r \in Reqs : req[r].st = "wire" => req'[r].st = "wire"
    BY <1>3
  <2> QED BY <1>1, <2>1, <2>2, <2>3, <2>4, StreamsKept
<1>7. Writes'
  <2>1. \A d \in Conns : conn'[d].st = "connected" => conn[d].st = "connected" /\ SameWrite(wr[d], wr'[d])
    BY DEF SameConn, SameWrite
  <2>2. /\ \A r \in Reqs : Begun(r) => req'[r].c = req[r].c /\ Begun(r)'
        /\ \A r \in Reqs : Begun(r)' => Begun(r) /\ req'[r].fd = req[r].fd
    BY <1>3 DEF Begun
  <2>3. /\ \A r \in Reqs : req[r].st = "reply" => req'[r] = req[r]
        /\ \A r \in Reqs : req[r].st = "freed" => req'[r].st = "freed"
    BY <1>3
  <2>4. OpsShape
    BY <1>1 DEF Shape
  <2> QED BY <1>1, <2>1, <2>2, <2>3, <2>4, WritesKept
<1> QED BY <1>2, <1>4, <1>5, <1>6, <1>7 DEF MsgrInv

(* osd_peer_fds stay right. *)
LEMMA PeersKept ==
  ASSUME MsgrInv, \A d \in Conns : SameConn(d), UNCHANGED <<clients, peerfd>>,
         \A d \in Conns : Somewhere(Conf, d)' => Somewhere(Conf, d)
  PROVE  \A o \in Osds : PeerOk(o)'
<1> SUFFICES ASSUME NEW o \in Osds PROVE PeerOk(o)'
  OBVIOUS
<1>1. PeerOk(o)
  BY DEF MsgrInv, Links
<1>2. PICK c : c = clients[peerfd[o]]
  OBVIOUS
<1>3. clients'[peerfd'[o]] = c
  BY <1>2
<1>4. peerfd[o] # None => c \in Conns /\ conn[c].osd = o /\ conn[c].st = "connected" /\ ~Somewhere(Conf, c)
  BY <1>1, <1>2 DEF PeerOk
<1>5. peerfd[o] # None => conn'[c].osd = o /\ conn'[c].st = "connected" /\ ~Somewhere(Conf, c)'
  BY <1>4 DEF SameConn
<1> QED BY <1>3, <1>4, <1>5 DEF PeerOk

(* The callback of operation x, when its connection did not answer it well  *)
(* or it is not SHOW_CONFIG: rest is what the handler still does.           *)
LEMMA CallbackFacts ==
  ASSUME OpsShape, ConnShape, NEW x \in Outgoing, NEW c \in Conns, NEW fd \in Fds, NEW ok, NEW rest, IsList(rest),
         RunCallback(x, c, fd, ok, rest), ~(x = Conf /\ ok)
  PROVE  /\ ConnShape' /\ (\A d \in Conns : SameConn(d)) /\ peerfd' = peerfd
         /\ x \in Ops => called' = [called EXCEPT ![x] = @ + 1]
         /\ x \notin Ops => called' = called
         /\ \E p : PlainCalls(p) /\ todo' = p \o rest /\ (x = Ping \/ (x \in Ops /\ ok) => p = << >>)
<1>1. PICK o : o = conn[c].osd
  OBVIOUS
<1>2. /\ PlainCalls(<< >>) /\ PlainCalls(<<StopCall(fd, FALSE, c), UserCall>>)
      /\ PlainCalls(<<StopCall(fd, FALSE, c), FailCall(o)>>)
  <2>1. PICK a, b, e : a = StopCall(fd, FALSE, c) /\ b = UserCall /\ e = FailCall(o)
    OBVIOUS
  <2>2. /\ a.k \in PlainKinds /\ CallOk(a)' /\ b.k \in PlainKinds /\ CallOk(b)'
        /\ e.k \in PlainKinds /\ CallOk(e)'
    BY <2>1, PlainOk
  <2> QED BY <2>1, <2>2, PlainLists
<1>3. << >> \o rest = rest
  BY EmptyCat
<1>4. CASE x \in Ops
  <2>1. x # Ping /\ x # Conf
    BY <1>4, MessengerAssumption
  <2>2. /\ called' = [called EXCEPT ![x] = @ + 1] /\ UNCHANGED <<conn, peerfd>>
        /\ todo' = (IF ok THEN << >> ELSE <<StopCall(fd, FALSE, c), UserCall>>) \o rest
    BY <1>4, <2>1 DEF RunCallback
  <2>3. \E p : PlainCalls(p) /\ todo' = p \o rest /\ (x = Ping \/ (x \in Ops /\ ok) => p = << >>)
    BY <1>2, <2>1, <2>2
  <2> QED BY <1>4, <2>2, <2>3, SameConns
<1>5. CASE x = Ping
  <2>1. x \notin Ops /\ x # Conf
    BY <1>5, MessengerAssumption
  <2>2. /\ called' = called /\ peerfd' = peerfd /\ todo' = rest
        /\ conn' = IF clients[fd] = c THEN [conn EXCEPT ![c].ping = 0] ELSE conn
    BY <1>5, <2>1 DEF RunCallback
  <2>3. ConnShape' /\ \A d \in Conns : SameConn(d)
    BY <2>2 DEF ConnShape, SameConn
  <2> QED BY <1>2, <1>3, <2>1, <2>2, <2>3
<1>6. CASE x = Conf
  <2>1. x \notin Ops /\ x # Ping /\ ~ok
    BY <1>6, MessengerAssumption
  <2>2. /\ called' = called /\ peerfd' = peerfd /\ conn' = conn
        /\ todo' = <<StopCall(fd, FALSE, c), FailCall(o)>> \o rest
    BY <1>1, <1>6, <2>1 DEF RunCallback
  <2> QED BY <1>2, <2>1, <2>2, SameConns
<1> QED BY <1>4, <1>5, <1>6 DEF Outgoing

(* The history of the operations once x of c has been answered. *)
LEMMA AnsweredOps ==
  ASSUME Holding, OpsShape, NEW x \in Outgoing, NEW c \in Conns, Somewhere(x, c), UNCHANGED <<pushed, lost>>,
         x \in Ops => called' = [called EXCEPT ![x] = @ + 1],
         x \notin Ops => called' = called
  PROVE  /\ called' = [op \in Ops |-> called'[op]]
         /\ \A op \in Ops : /\ called'[op] \in {0, 1}
                            /\ Waits(op)' <=> Waits(op) /\ \A d \in Conns : <<op, d>> \notin {<<x, c>>}
                            /\ Fresh(op)'
<1>1. called' = [op \in Ops |-> called'[op]] /\ \A op \in Ops : op # x => called'[op] = called[op]
  BY DEF OpsShape
<1>2. x \in Ops => called[x] = 0 /\ called'[x] = 1
  BY DEF Holding, Waits, OpsShape
<1>3. \A op \in Ops : called'[op] \in {0, 1}
  BY <1>1, <1>2 DEF Holding
<1>4. \A op \in Ops : op # x => (Waits(op)' <=> Waits(op))
  BY <1>1 DEF Waits, Lost
<1>5. x \in Ops => ~Waits(x)'
  BY <1>2 DEF Waits
<1>6. x \in Ops => x \in pushed
  BY DEF Holding, Waits
<1>7. \A op \in Ops : Fresh(op)'
  BY <1>1, <1>6 DEF Holding, Fresh, Lost
<1> QED BY <1>1, <1>3, <1>4, <1>5, <1>7

LEMMA AnyCat ==
  ASSUME NEW p, NEW q, AnyCalls(p), AnyCalls(q)
  PROVE  AnyCalls(p \o q)
<1>1. PICK u : u = p \o q
  OBVIOUS
<1>4. IsList(p) /\ IsList(q) /\ Len(p) \in Nat /\ Len(q) \in Nat
  BY DEF IsList, AnyCalls
<1>2. /\ IsList(u) /\ Len(u) = Len(p) + Len(q) /\ Len(p) \in Nat /\ Len(q) \in Nat
      /\ \A i \in 1..Len(p) : u[i] = p[i]
      /\ \A i \in 1..Len(q) : u[Len(p) + i] = q[i]
  BY <1>1, <1>4, ListCat
<1>3. ASSUME NEW i \in 1..Len(u)
      PROVE  u[i].k \in AnyKinds /\ CallOk(u[i])'
  <2>1. CASE i \in 1..Len(p)
    BY <1>2, <2>1 DEF AnyCalls
  <2>2. CASE i \notin 1..Len(p)
    <3>1. i - Len(p) \in 1..Len(q) /\ i = Len(p) + (i - Len(p))
      BY <1>2, <2>2
    <3> QED BY <1>2, <3>1 DEF AnyCalls
  <2> QED BY <2>1, <2>2
<1> QED BY <1>1, <1>2, <1>3 DEF AnyCalls

(* cancel_ops: one more callback. *)
LEMMA CancelOpsOk ==
  ASSUME MsgrInv, CancelOps
  PROVE  MsgrInv'
<1>1. Shape /\ Holding /\ Links /\ Phases /\ Streams /\ Writes
  BY DEF MsgrInv
<1>2. ConnShape /\ TableShape /\ OpsShape
  BY <1>1 DEF Shape
<1>3. PICK a, c, fd, ops : a = Head(todo) /\ c = a.c /\ fd = a.fd /\ ops = a.ops
  OBVIOUS
<1>4. /\ Call("cancel") /\ todo # << >> /\ todo[1] = a /\ a.k = "cancel" /\ IsList(Rest) /\ IsList(todo)
      /\ Len(todo) \in Nat /\ Len(todo) > 0
  BY <1>2, <1>3, CallHead DEF CancelOps, TableShape
<1>5. c \in Conns /\ fd \in Fds /\ ops \subseteq Outgoing
  <2>1. 1 \in 1..Len(todo)
    BY <1>4
  <2>2. CallOk(a)
    BY <1>1, <1>4, <2>1 DEF Phases
  <2> QED BY <1>3, <1>4, <2>2 DEF CallOk
<1>6. PICK x \in ops : RunCallback(x, c, fd, FALSE,
            (IF ops = {x} THEN << >> ELSE <<CancelCall(c, fd, ops \ {x})>>) \o Rest)
  BY <1>3 DEF CancelOps
<1>7. UNCHANGED <<rd, wr, sent, received, net, clients, imm, pushed, lost, req, replies>>
  BY DEF CancelOps
<1>8. PICK e, q : e = CancelCall(c, fd, ops \ {x}) /\ q = (IF ops = {x} THEN << >> ELSE <<e>>)
  OBVIOUS
<1>9. e.k = "cancel" /\ e.c = c /\ e.fd = fd /\ e.ops = ops \ {x}
  BY <1>8 DEF CancelCall
<1>10. AnyCalls(q)
  <2>1. e.k \in AnyKinds /\ CallOk(e)'
    BY <1>5, <1>9 DEF AnyKinds, CallOk, Lasting
  <2> QED BY <1>8, <2>1, AnyOne
<1>11. PICK rest : rest = q \o Rest
  OBVIOUS
<1>12. ASSUME NEW y, NEW d
       PROVE  /\ IsList(rest)
              /\ HasCancel(rest, y, d) <=> (d = c /\ y \in ops /\ y # x) \/ HasCancel(Rest, y, d)
              /\ OneCancel(Rest, y, d) /\ ~(d = c /\ y \in ops /\ y # x /\ HasCancel(Rest, y, d)) => OneCancel(rest, y, d)
  <2>2. CASE ops = {x}
    <3>1. rest = Rest
      BY <1>4, <1>8, <1>11, <2>2, EmptyCat
    <3> QED BY <1>4, <2>2, <3>1
  <2>3. CASE ops # {x}
    <3>2. IsCancel(e, y, d) <=> d = c /\ y \in ops /\ y # x
      BY <1>9 DEF IsCancel
    <3>3. rest = <<e>> \o Rest
      BY <1>8, <1>11, <2>3
    <3> QED BY <1>4, <3>2, <3>3, ConsCancel
  <2> QED BY <2>2, <2>3
<1>13. IsList(rest) /\ x \in Outgoing /\ RunCallback(x, c, fd, FALSE, rest)
  BY <1>5, <1>6, <1>8, <1>11, <1>12
<1>14. /\ ConnShape' /\ (\A d \in Conns : SameConn(d)) /\ peerfd' = peerfd
       /\ x \in Ops => called' = [called EXCEPT ![x] = @ + 1]
       /\ x \notin Ops => called' = called
       /\ \E p : PlainCalls(p) /\ todo' = p \o rest
  BY <1>2, <1>5, <1>13, CallbackFacts
<1>15. PICK p : PlainCalls(p) /\ todo' = p \o rest
  BY <1>14
<1>16. PICK u : u = p \o q
  OBVIOUS
<1>17. AnyCalls(u) /\ AnyStep(u)
  <2>1. AnyCalls(p)
    BY <1>15 DEF AnyCalls, PlainCalls, AnyKinds
  <2>2. todo' = u \o Rest
    BY <1>4, <1>10, <1>11, <1>15, <1>16, <2>1, CatAssoc DEF AnyCalls
  <2>3. AnyCalls(u)
    BY <1>10, <1>16, <2>1, AnyCat
  <2> QED BY <1>4, <2>2, <2>3 DEF AnyStep, AnyKinds, Rest
<1>18. GoneStays
  BY <1>14 DEF GoneStays, SameConn
<1>19. /\ Phases' /\ IsList(todo')
       /\ \A d : Parsing(d) = << >> /\ Parsing(d)' = << >>
  BY <1>1, <1>2, <1>7, <1>17, <1>18, AnyPhases
<1>20. TableShape'
  BY <1>2, <1>7, <1>14, <1>19 DEF TableShape
<1>21. ASSUME NEW y \in Held1, NEW d \in Conns
       PROVE  /\ One(y, d)'
              /\ Somewhere(y, d)' <=> Somewhere(y, d) /\ <<y, d>> \notin {<<x, c>>}
              /\ <<y, d>> \in {<<x, c>>} => Somewhere(y, d)
  <2>1. One(y, d)
    BY <1>1 DEF Holding
  <2>2. /\ HasCancel(todo, y, d) <=> (d = c /\ y \in ops) \/ HasCancel(Rest, y, d)
        /\ OneCancel(Rest, y, d)
        /\ ~(d = c /\ y \in ops /\ HasCancel(Rest, y, d))
    <3>1. IsCancel(todo[1], y, d) <=> d = c /\ y \in ops
      BY <1>3, <1>4 DEF IsCancel
    <3> QED BY <1>4, <2>1, <3>1, TailCancel DEF Rest, One
  <2>3. /\ HasCancel(todo', y, d) <=> HasCancel(rest, y, d)
        /\ OneCancel(rest, y, d) => OneCancel(todo', y, d)
    <3>1. IsList(p) /\ \A i \in 1..Len(p) : p[i].k # "cancel"
      BY <1>15 DEF PlainCalls, PlainKinds
    <3> QED BY <1>13, <1>15, <3>1, CatCancel
  <2>4. <<y, d>> \in {<<x, c>>} <=> y = x /\ d = c
    OBVIOUS
  <2> QED BY <1>6, <1>7, <1>12, <2>1, <2>2, <2>3, <2>4 DEF One, Somewhere
<1>22. Somewhere(x, c)
  <2>1. IsCancel(todo[1], x, c) /\ 1 \in 1..Len(todo)
    BY <1>3, <1>4, <1>6 DEF IsCancel
  <2> QED BY <2>1 DEF Somewhere, HasCancel
<1>23. /\ called' = [op \in Ops |-> called'[op]]
       /\ \A op \in Ops : /\ called'[op] \in {0, 1}
                          /\ Waits(op)' <=> Waits(op) /\ \A d \in Conns : <<op, d>> \notin {<<x, c>>}
                          /\ Fresh(op)'
  BY <1>1, <1>2, <1>5, <1>7, <1>13, <1>14, <1>22, AnsweredOps
<1>24. \A o \in Osds : PeerOk(o)'
  BY <1>7, <1>14, <1>21, PeersKept, Apart
<1>25. NoDrop
  BY <1>4, NotDropping
<1>26. req' = [r \in Reqs |-> req'[r]] /\ \A r \in Reqs : req'[r] = req[r]
  BY <1>2, <1>7 DEF OpsShape
<1> QED BY <1>7, <1>14, <1>19, <1>20, <1>21, <1>23, <1>24, <1>25, <1>26, AnswerStep

(* clear_immediate_ops: all of them are of the connection that was stopped. *)
LEMMA ClearImmediateOpsOk ==
  ASSUME MsgrInv, ClearImmediateOps
  PROVE  MsgrInv'
<1>1. Shape /\ Holding /\ Links /\ Phases /\ Streams /\ Writes
  BY DEF MsgrInv
<1>2. ConnShape /\ TableShape /\ OpsShape /\ "clear" \in Lasting
  BY <1>1 DEF Shape, Lasting
<1>3. Call("clear") /\ UNCHANGED <<connVars, clients, peerfd, pushed, called, replies>> /\ todo' = Rest
  BY DEF ClearImmediateOps
<1>4. /\ Len(todo) = 1 /\ todo' = << >> /\ todo # << >> /\ todo[1].k = "clear" /\ Final = Head(todo)
      /\ \A x, c : ~HasCancel(todo, x, c)
  <2>1. Head(todo) = todo[1] /\ todo[1].k = "clear"
    BY <1>2, <1>3, CallHead
  <2>2. Len(todo) = 1 /\ Final = todo[1] /\ Rest = << >> /\ todo # << >> /\ \A x, c : ~HasCancel(todo, x, c)
    BY <1>1, <1>2, <1>3, LastCall
  <2> QED BY <1>3, <2>1, <2>2
<1>5. IsList(imm) /\ DOMAIN imm = 1..Len(imm) /\ Len(imm) \in Nat
  BY <1>2 DEF TableShape, IsList
<1>6. \A i \in DOMAIN imm : imm[i].fd = Head(todo).fd
  BY <1>1, <1>4, <1>5 DEF Phases
<1>7. PICK dropped, kept : dropped = {i \in DOMAIN imm : imm[i].fd = Head(todo).fd} /\ kept = DOMAIN imm \ dropped
  OBVIOUS
<1>8. dropped = 1..Len(imm) /\ kept = {} /\ Cardinality(kept) = 0
  <2>1. dropped = 1..Len(imm) /\ kept = {}
    BY <1>5, <1>6, <1>7
  <2> QED BY <2>1, FS_EmptySet
<1>9. imm' = << >>
  <2> DEFINE G(k) == imm[CHOOSE i \in kept : Cardinality({j \in kept : j <= i}) = k]
  <2>1. imm' = [k \in 1..Cardinality(kept) |-> G(k)]
    BY <1>7 DEF ClearImmediateOps
  <2> HIDE DEF G
  <2>2. 1..Cardinality(kept) = {}
    BY <1>8
  <2>3. imm' = [k \in {} |-> G(k)]
    BY <2>1, <2>2
  <2> QED BY <2>3
<1>10. lost' = lost \union {<<imm[i].x, imm[i].c>> : i \in dropped}
  BY <1>7 DEF ClearImmediateOps
<1>11. req' = [r \in Reqs |-> IF \E i \in dropped : imm[i].x = r THEN [req[r] EXCEPT !.st = "freed"] ELSE req[r]]
  BY <1>7 DEF ClearImmediateOps
<1>12. PICK R : R = {<<imm[i].x, imm[i].c>> : i \in dropped}
  OBVIOUS
<1>13. \A x, c : <<x, c>> \in R <=> HasImm(imm, x, c)
  BY <1>8, <1>12 DEF HasImm, IsImm
<1>14. IsList(imm') /\ Len(imm') = 0 /\ IsList(todo') /\ Len(todo') = 0
  BY <1>4, <1>9, ListOne
<1>15. Phases' /\ TableShape'
  <2>1. Phases'
    BY <1>4, <1>9, <1>14 DEF Phases
  <2> QED BY <1>2, <1>3, <1>14, <2>1 DEF TableShape
<1>16. ConnShape' /\ \A d \in Conns : SameConn(d)
  BY <1>2, <1>3, SameConns DEF connVars
<1>17. NoDrop /\ \A d \in Conns : Parsing(d)' = Parsing(d)
  BY <1>4, NotDropping DEF Parsing
<1>18. UNCHANGED <<rd, wr, sent, received, net>>
  BY <1>3 DEF connVars
<1>19. \A x, d : ~HasImm(imm', x, d) /\ ~HasCancel(todo', x, d) /\ OneImm(imm', x, d) /\ OneCancel(todo', x, d)
  BY <1>14 DEF HasImm, HasCancel, OneImm, OneCancel
<1>20. ASSUME NEW x \in Held1, NEW d \in Conns
       PROVE  /\ One(x, d)'
              /\ Somewhere(x, d)' <=> Somewhere(x, d) /\ <<x, d>> \notin R
              /\ <<x, d>> \in R => Somewhere(x, d)
  <2>1. One(x, d)
    BY <1>1 DEF Holding
  <2> QED BY <1>4, <1>13, <1>18, <1>19, <2>1 DEF One, Somewhere
<1>21. called' = [op \in Ops |-> called'[op]] /\ \A op \in Ops : called'[op] \in {0, 1}
  BY <1>1, <1>2, <1>3 DEF Holding, OpsShape
<1>22. \A op \in Ops : Waits(op)' <=> Waits(op) /\ \A c \in Conns : <<op, c>> \notin R
  BY <1>3, <1>10, <1>12 DEF Waits, Lost
<1>26. ASSUME NEW op \in Ops PROVE Fresh(op)'
  <2>1. op \notin pushed => \A d \in Conns : ~Somewhere(op, d)
    BY <1>1 DEF Holding, Waits
  <2>2. op \notin pushed => \A d \in Conns : <<op, d>> \notin R
    BY <1>20, <2>1, Apart
  <2> QED BY <1>1, <1>3, <1>10, <1>12, <2>2 DEF Holding, Fresh, Lost
<1>23. req' = [r \in Reqs |-> req'[r]]
  BY <1>11
<1>24. ASSUME NEW r \in Reqs
       PROVE  \/ req'[r] = req[r]
              \/ /\ \E c \in Conns : <<r, c>> \in R
                 /\ req'[r].st \in {"exec", "freed"} /\ req'[r].c = req[r].c /\ req'[r].fd = req[r].fd
                 /\ DOMAIN req'[r] = {"st", "c", "fd"}
  <2>1. CASE \E i \in dropped : imm[i].x = r
    <3>1. PICK i \in dropped : imm[i].x = r
      BY <2>1
    <3>2. imm[i].c \in Conns /\ <<r, imm[i].c>> \in R
      BY <1>1, <1>8, <1>12, <3>1 DEF Phases, ImmOk
    <3>3. req'[r] = [req[r] EXCEPT !.st = "freed"] /\ DOMAIN req[r] = {"st", "c", "fd"}
      BY <1>2, <1>11, <2>1 DEF OpsShape
    <3> QED BY <3>2, <3>3
  <2>2. CASE ~\E i \in dropped : imm[i].x = r
    BY <1>11, <2>2
  <2> QED BY <2>1, <2>2
<1>25. \A o \in Osds : PeerOk(o)'
  BY <1>3, <1>16, <1>20, PeersKept, Apart
<1> QED BY <1>3, <1>15, <1>16, <1>17, <1>18, <1>20, <1>21, <1>22, <1>23, <1>24, <1>25, <1>26, AnswerStep

-----------------------------------------------------------------------------
(* Writes: messages that are queued, and what the kernel takes. *)
WShape(w) ==
  /\ DOMAIN w = {"box", "next", "n", "state", "q", "res", "held", "zc"}
  /\ IsList(w.box) /\ IsList(w.next) /\ IsList(w.held) /\ IsList(w.zc)

LEMMA CatEnds ==
  ASSUME NEW s, NEW t, IsList(s), IsList(t), NEW r
  PROVE  /\ HasEnd(s \o t, r) <=> HasEnd(s, r) \/ HasEnd(t, r)
         /\ OneEnd(s, r) /\ OneEnd(t, r) /\ ~(HasEnd(s, r) /\ HasEnd(t, r)) => OneEnd(s \o t, r)
<1>1. PICK u : u = s \o t
  OBVIOUS
<1>2. /\ Len(u) = Len(s) + Len(t) /\ Len(s) \in Nat /\ Len(t) \in Nat
      /\ \A i \in 1..Len(s) : u[i] = s[i]
      /\ \A i \in 1..Len(t) : u[Len(s) + i] = t[i]
  BY <1>1, ListCat DEF IsList
<1>3. \A i \in 1..Len(u) : i \in 1..Len(s) \/ (i - Len(s) \in 1..Len(t) /\ i = Len(s) + (i - Len(s)))
  BY <1>2
<1>4. /\ \A i \in 1..Len(s) : i \in 1..Len(u) /\ (Ends(u, r, i) <=> Ends(s, r, i))
      /\ \A i \in 1..Len(t) : Len(s) + i \in 1..Len(u) /\ (Ends(u, r, Len(s) + i) <=> Ends(t, r, i))
  BY <1>2 DEF Ends
<1>5. \A i \in 1..Len(u) : Ends(u, r, i) =>
        \/ i \in 1..Len(s) /\ Ends(s, r, i)
        \/ i - Len(s) \in 1..Len(t) /\ Ends(t, r, i - Len(s))
  <2> SUFFICES ASSUME NEW i \in 1..Len(u), Ends(u, r, i), i \notin 1..Len(s)
               PROVE  i - Len(s) \in 1..Len(t) /\ Ends(t, r, i - Len(s))
    BY <1>4
  <2>1. PICK j \in 1..Len(t) : j = i - Len(s) /\ i = Len(s) + j
    BY <1>3
  <2> QED BY <1>4, <2>1
<1>6. HasEnd(u, r) <=> HasEnd(s, r) \/ HasEnd(t, r)
  BY <1>4, <1>5 DEF HasEnd
<1>7. ASSUME OneEnd(s, r), OneEnd(t, r), ~(HasEnd(s, r) /\ HasEnd(t, r)),
             NEW i \in 1..Len(u), NEW j \in 1..Len(u), Ends(u, r, i), Ends(u, r, j)
      PROVE  i = j
  <2>1. CASE HasEnd(s, r)
    BY <1>5, <1>7, <2>1 DEF OneEnd, HasEnd
  <2>2. CASE ~HasEnd(s, r)
    <3>1. i - Len(s) = j - Len(s)
      BY <1>5, <1>7, <2>2 DEF OneEnd, HasEnd
    <3> QED BY <1>2, <3>1
  <2> QED BY <2>1, <2>2
<1> QED BY <1>1, <1>6, <1>7 DEF OneEnd

LEMMA PiecesEnd ==
  ASSUME NEW x
  PROVE  /\ IsList(Pieces(x)) /\ Pieces(x) # << >>
         /\ \A r : (HasEnd(Pieces(x), r) <=> r = x) /\ OneEnd(Pieces(x), r)
<1>1. PICK p : p = Pieces(x)
  OBVIOUS
<1>2. CASE x \in SendsData
  <2>1. PICK a, b : a = Piece(x, FALSE) /\ b = Piece(x, TRUE)
    OBVIOUS
  <2>2. a.x = x /\ ~a.last /\ b.x = x /\ b.last
    BY <2>1 DEF Piece
  <2>3. IsList(p) /\ Len(p) = 2 /\ p[1] = a /\ p[2] = b
    BY <1>1, <1>2, <2>1, ListOne DEF Pieces
  <2>4. \A r, i : i \in 1..Len(p) => (Ends(p, r, i) <=> r = x /\ i = 2)
    BY <2>2, <2>3 DEF Ends
  <2> QED BY <1>1, <2>3, <2>4, ListOne DEF HasEnd, OneEnd
<1>3. CASE x \notin SendsData
  <2>1. PICK b : b = Piece(x, TRUE)
    OBVIOUS
  <2>2. b.x = x /\ b.last
    BY <2>1 DEF Piece
  <2>3. IsList(p) /\ Len(p) = 1 /\ p[1] = b
    BY <1>1, <1>3, <2>1, ListOne DEF Pieces
  <2>4. \A r, i : i \in 1..Len(p) => (Ends(p, r, i) <=> r = x)
    BY <2>2, <2>3 DEF Ends
  <2>5. \A i, j \in 1..Len(p) : i = j
    BY <2>3
  <2> QED BY <1>1, <2>3, <2>4, <2>5, ListOne DEF HasEnd, OneEnd
<1> QED BY <1>2, <1>3

LEMMA QueuedOk ==
  ASSUME NEW c, NEW w, WShape(w), NEW x, NEW q, NEW q2, WriteOk(c, w, q),
         \A r \in Reqs : r # x => q2[r] = q[r],
         x \in Reqs => q2[x].c = c /\ q2[x].st = "reply" /\ q[x].st # "reply"
  PROVE  /\ WShape(Queued(w, x)) /\ WriteOk(c, Queued(w, x), q2) /\ Queued(w, x).n = w.n
         /\ w.n = 0 => Queued(w, x).box # << >>
<1>1. PICK v, P : v = Queued(w, x) /\ P = Pieces(x)
  OBVIOUS
<1>2. IsList(P) /\ P # << >> /\ \A r : (HasEnd(P, r) <=> r = x) /\ OneEnd(P, r)
  BY <1>1, PiecesEnd
<1>3. w.n \in Nat /\ IsList(w.box) /\ IsList(w.next) /\ IsList(w.held) /\ IsList(w.zc)
  BY DEF WriteOk, WShape
<1>4. ASSUME NEW r \in Reqs, x = r
      PROVE  ~HasEnd(w.box, r) /\ ~HasEnd(w.next, r) /\ ~HasHeld(w.held, r)
  BY <1>4 DEF WriteOk, ReplyOk
<1>5. CASE w.n > 0
  <2>1. /\ v.box = w.box /\ v.next = w.next \o P /\ v.n = w.n /\ v.res = w.res /\ v.held = w.held /\ v.zc = w.zc
        /\ DOMAIN v = DOMAIN w
    BY <1>1, <1>5 DEF Queued, WShape
  <2>2. WShape(v)
    BY <1>2, <1>3, <2>1, ListCat DEF WShape
  <2>3. Pend(v) <=> Pend(w)
    BY <2>1 DEF Pend
  <2>4. ASSUME NEW r \in Reqs PROVE ReplyOk(c, v, r, q2)
    <3>1. ReplyOk(c, w, r, q)
      BY DEF WriteOk
    <3>2. /\ HasEnd(v.next, r) <=> HasEnd(w.next, r) \/ x = r
          /\ OneEnd(w.next, r) /\ ~(HasEnd(w.next, r) /\ x = r) => OneEnd(v.next, r)
      BY <1>2, <1>3, <2>1, CatEnds
    <3>3. CASE x # r
      BY <2>1, <2>3, <3>1, <3>2, <3>3 DEF ReplyOk
    <3>4. CASE x = r
      BY <1>4, <2>1, <2>3, <3>1, <3>2, <3>4 DEF ReplyOk
    <3> QED BY <3>3, <3>4
  <2>5. WriteOk(c, v, q2)
    BY <2>1, <2>3, <2>4 DEF WriteOk
  <2> QED BY <1>1, <1>5, <2>1, <2>2, <2>5
<1>6. CASE w.n = 0
  <2>1. /\ v.box = w.box \o P /\ v.next = w.next /\ v.n = w.n /\ v.res = w.res /\ v.held = w.held /\ v.zc = w.zc
        /\ DOMAIN v = DOMAIN w
    BY <1>1, <1>6 DEF Queued, WShape
  <2>2. WShape(v) /\ v.box # << >>
    <3>1. IsList(v.box) /\ Len(v.box) = Len(w.box) + Len(P)
      BY <1>2, <1>3, <2>1, ListCat
    <3>2. Len(P) > 0 /\ Len(w.box) \in Nat /\ Len(P) \in Nat
      BY <1>2, <1>3, ListEmpty DEF IsList
    <3>3. v.box # << >>
      BY <3>1, <3>2, ListEmpty
    <3> QED BY <2>1, <3>1, <3>3 DEF WShape
  <2>3. ~Pend(v) /\ ~Pend(w)
    BY <1>6, <2>1 DEF Pend
  <2>4. ASSUME NEW r \in Reqs PROVE ReplyOk(c, v, r, q2)
    <3>1. ReplyOk(c, w, r, q)
      BY DEF WriteOk
    <3>2. /\ HasEnd(v.box, r) <=> HasEnd(w.box, r) \/ x = r
          /\ OneEnd(w.box, r) /\ ~(HasEnd(w.box, r) /\ x = r) => OneEnd(v.box, r)
      BY <1>2, <1>3, <2>1, CatEnds
    <3>3. CASE x # r
      BY <2>1, <2>3, <3>1, <3>2, <3>3 DEF ReplyOk
    <3>4. CASE x = r
      BY <1>4, <2>1, <2>3, <3>1, <3>2, <3>4 DEF ReplyOk, HasHeld
    <3> QED BY <3>3, <3>4
  <2>5. WriteOk(c, v, q2)
    BY <1>6, <2>1, <2>3, <2>4 DEF WriteOk
  <2> QED BY <1>1, <1>6, <2>1, <2>2, <2>5
<1> QED BY <1>3, <1>5, <1>6

LEMMA WholeEnds ==
  ASSUME NEW s, IsList(s), NEW n \in 0..Len(s), NEW r
  PROVE  /\ r \in Whole(SubSeq(s, 1, n)) <=> \E i \in 1..n : Ends(s, r, i)
         /\ r \in Whole(SubSeq(s, 1, n)) => HasEnd(s, r)
<1>1. PICK p : p = SubSeq(s, 1, n)
  OBVIOUS
<1>2. Len(s) \in Nat /\ n \in Nat /\ n <= Len(s) /\ 1 \in 1..(Len(s) + 1) /\ 1 <= n + 1 /\ n - 1 + 1 = n
  BY DEF IsList
<1>3. IsList(p) /\ Len(p) = n - 1 + 1 /\ \A i \in 1..(n - 1 + 1) : p[i] = s[1 + i - 1]
  BY <1>1, <1>2, ListSub
<1>4. DOMAIN p = 1..n /\ \A i \in 1..n : p[i] = s[i]
  <2>1. \A i \in 1..n : 1 + i - 1 = i
    BY <1>2
  <2> QED BY <1>2, <1>3, <2>1 DEF IsList
<1>5. r \in Whole(p) <=> \E i \in 1..n : Ends(s, r, i)
  BY <1>4 DEF Whole, Ends
<1>6. \A i \in 1..n : i \in 1..Len(s)
  BY <1>2
<1> QED BY <1>1, <1>5, <1>6 DEF HasEnd

(* The kernel takes the outbox, whole or in part. *)
Fits(w, s) ==
  s.n \in 0..Len(w.box) /\ s.zc \in BOOLEAN /\ (s.zc => s.n = Len(w.box) /\ s.r = "ok")
Done(w, s) == Whole(SubSeq(w.box, 1, s.n))
Taken(w, s) ==
  [w EXCEPT !.n = Len(w.box), !.res = [r |-> s.r, n |-> s.n, zc |-> s.zc],
            !.held = IF s.zc THEN Append(@, Done(w, s) \intersect Reqs) ELSE @]

Mine(q, c, r) == q[r].c = c /\ q[r].st = "reply"
Idle(w) == w.n = 0 /\ w.box # << >>

LEMMA TakenOk ==
  ASSUME NEW c, NEW w, WShape(w), NEW q, WriteOk(c, w, q), Idle(w),
         NEW s, Fits(w, s)
  PROVE  /\ WShape(Taken(w, s)) /\ WriteOk(c, Taken(w, s), q)
         /\ \A r \in Reqs : r \in Done(w, s) => Mine(q, c, r)
<1> USE DEF Idle, Mine
<1>0. PICK n, e, zc, v, done :
        /\ n = s.n /\ e = s.r /\ zc = s.zc /\ n \in 0..Len(w.box) /\ zc \in BOOLEAN
        /\ v = Taken(w, s) /\ done = Done(w, s) /\ done = Whole(SubSeq(w.box, 1, n))
  BY DEF Done, Fits
<1>1. PICK h : h = IF zc THEN Append(w.held, done \intersect Reqs) ELSE w.held
  OBVIOUS
<1>2. /\ v.box = w.box /\ v.next = w.next /\ v.n = Len(w.box) /\ v.zc = w.zc /\ v.held = h
      /\ v.res.n = n /\ v.res.r = e /\ v.res.zc = zc
      /\ DOMAIN v = DOMAIN w
  BY <1>0, <1>1 DEF WShape, Taken
<1>3. IsList(w.box) /\ IsList(w.next) /\ IsList(w.held) /\ IsList(w.zc) /\ Len(w.box) \in Nat /\ Len(w.box) > 0
      /\ Len(w.held) \in Nat /\ Len(w.zc) \in Nat
  BY ListEmpty DEF WShape, IsList
<1>4. \A r \in done : HasEnd(w.box, r)
  BY <1>0, <1>3, WholeEnds
<1>5. ~Pend(w) /\ (Pend(v) <=> zc)
  BY <1>2, <1>3 DEF Pend
<1>6. \A r \in Reqs : ReplyOk(c, w, r, q)
  BY DEF WriteOk
<1>7. \A r \in done \intersect Reqs : q[r].c = c /\ q[r].st = "reply"
  BY <1>4, <1>6 DEF ReplyOk
<1>8. CASE ~zc
  <2>1. h = w.held
    BY <1>1, <1>8
  <2>2. WShape(v)
    BY <1>2, <1>3, <2>1 DEF WShape
  <2>3. ASSUME NEW r \in Reqs PROVE ReplyOk(c, v, r, q)
    <3>1. ReplyOk(c, w, r, q)
      BY <1>6
    <3> QED BY <1>2, <1>5, <1>8, <2>1, <3>1 DEF ReplyOk
  <2>4. WriteOk(c, v, q)
    <3>1. v.n \in Nat /\ v.n = Len(v.box) /\ v.res.n \in 0..v.n /\ ~Pend(v) /\ v.held = w.held /\ v.zc = w.zc
      BY <1>0, <1>2, <1>3, <1>5, <1>8, <2>1
    <3>2. \A i \in 1..Len(v.held) : v.held[i] \subseteq Reqs
      BY <3>1 DEF WriteOk
    <3>3. \/ v.zc # << >> /\ v.zc[1] = {}
          \/ /\ Len(v.held) = Len(v.zc) + 0
             /\ \A i \in 1..Len(v.zc) : v.zc[i] = v.held[i]
      BY <1>5, <3>1 DEF WriteOk
    <3> QED BY <2>3, <3>1, <3>2, <3>3 DEF WriteOk
  <2> QED BY <1>0, <1>7, <2>2, <2>4
<1>9. CASE zc
  <2>0. n = Len(w.box) /\ e = "ok"
    BY <1>0, <1>9 DEF Fits
  <2>1. \A r : r \in done <=> HasEnd(w.box, r)
    BY <1>0, <1>3, <2>0, WholeEnds DEF HasEnd
  <2>2. PICK m, l : m = done \intersect Reqs /\ l = Len(w.held)
    OBVIOUS
  <2>3. h = Append(w.held, m)
    BY <1>1, <1>9, <2>2
  <2>4. IsList(h) /\ Len(h) = l + 1 /\ (\A i \in 1..l : h[i] = w.held[i]) /\ h[l + 1] = m /\ l \in Nat
    BY <1>3, <2>2, <2>3, ListAppend
  <2>5. \A i \in 1..Len(h) : i \in 1..l \/ i = l + 1
    BY <2>4
  <2>6. WShape(v)
    BY <1>2, <1>3, <2>4 DEF WShape
  <2>7. ASSUME NEW r \in Reqs PROVE ReplyOk(c, v, r, q)
    <3>1. ReplyOk(c, w, r, q)
      BY <1>6
    <3>2. r \in m <=> HasEnd(w.box, r)
      BY <2>1, <2>2
    <3>3. HasEnd(w.box, r) => \A i \in 1..l : r \notin w.held[i]
      BY <1>5, <2>2, <3>1 DEF ReplyOk
    <3>4. HasHeld(h, r) <=> HasHeld(w.held, r) \/ r \in m
      <4>1. l + 1 \in 1..Len(h) /\ \A i \in 1..l : i \in 1..Len(h)
        BY <2>4
      <4> QED BY <2>2, <2>4, <2>5, <4>1 DEF HasHeld
    <3>5. OneHeld(h, r)
      <4> SUFFICES ASSUME NEW i \in 1..Len(h), NEW j \in 1..Len(h), r \in h[i], r \in h[j] PROVE i = j
        BY DEF OneHeld
      <4>1. CASE i \in 1..l /\ j \in 1..l
        BY <2>2, <2>4, <3>1, <4>1 DEF ReplyOk, OneHeld
      <4>2. CASE i = l + 1 \/ j = l + 1
        BY <2>4, <2>5, <3>2, <3>3, <4>2
      <4> QED BY <2>5, <4>1, <4>2
    <3>6. \A i \in 1..Len(h) : r \in h[i] /\ HasEnd(w.box, r) => i = Len(h)
      BY <2>4, <2>5, <3>3
    <3>7. r \in h[Len(h)] <=> HasEnd(w.box, r)
      BY <2>4, <3>2
    <3>8. /\ HasEnd(v.box, r) \/ HasEnd(v.next, r) \/ HasHeld(v.held, r) => q[r].c = c /\ q[r].st = "reply"
          /\ HasHeld(v.held, r) => ~HasEnd(v.next, r)
      BY <1>2, <3>1, <3>2, <3>4 DEF ReplyOk
    <3> QED BY <1>2, <1>5, <1>9, <3>1, <3>5, <3>6, <3>7, <3>8 DEF ReplyOk
  <2>8. \A i \in 1..Len(h) : h[i] \subseteq Reqs
    BY <2>2, <2>4, <2>5 DEF WriteOk
  <2>9. \/ w.zc # << >> /\ w.zc[1] = {}
        \/ /\ Len(h) = Len(w.zc) + 1
           /\ \A i \in 1..Len(w.zc) : w.zc[i] = h[i]
    <3>1. \/ w.zc # << >> /\ w.zc[1] = {}
          \/ /\ l = Len(w.zc) + 0
             /\ \A i \in 1..Len(w.zc) : w.zc[i] = w.held[i]
      BY <1>5, <2>2 DEF WriteOk
    <3> QED BY <1>3, <2>4, <3>1
  <2>10. WriteOk(c, v, q)
    <3>1. v.n \in Nat /\ v.n = Len(v.box) /\ v.res.n \in 0..v.n /\ Pend(v) /\ v.res.n = v.n /\ v.res.r = "ok"
      BY <1>0, <1>2, <1>3, <1>5, <1>9, <2>0
    <3>2. Len(v.held) > 0 /\ \A i \in 1..Len(v.held) : v.held[i] \subseteq Reqs
      BY <1>2, <2>4, <2>8
    <3>3. \/ v.zc # << >> /\ v.zc[1] = {}
          \/ /\ Len(v.held) = Len(v.zc) + 1
             /\ \A i \in 1..Len(v.zc) : v.zc[i] = v.held[i]
      BY <1>2, <2>9
    <3> QED BY <2>7, <3>1, <3>2, <3>3 DEF WriteOk
  <2> QED BY <1>0, <1>7, <2>6, <2>10
<1> QED BY <1>0, <1>8, <1>9

(* A connection whose writes changed: k is the connection before, q the     *)
(* requests after.                                                          *)
KShape(k) == DOMAIN k = {"st", "fd", "osd", "inosd", "ping", "idle", "refs"}

WroteConn(c, k, q) ==
  \E v, k2 : /\ wr' = [wr EXCEPT ![c] = v] /\ WShape(v) /\ WriteOk(c, v, q)
             /\ conn' = [conn EXCEPT ![c] = k2] /\ KShape(k2)
             /\ k2.st = k.st /\ k2.fd = k.fd /\ k2.osd = k.osd
WroteNet(c) ==
  /\ NetShape'
  /\ \A d \in Conns : net'[d].in = net[d].in /\ (d # c => net'[d] = net[d])
WroteReplies(c, q) ==
  \A a \in replies' : a \in replies \/ (a[2] = c /\ a[1] \in Reqs /\ q[a[1]].c = c /\ q[a[1]].st = "reply")
Wrote(c, k, q) == WroteConn(c, k, q) /\ WroteNet(c) /\ WroteReplies(c, q)

LEMMA TryWrote ==
  ASSUME NetShape, NEW c \in Conns, NEW k, KShape(k), NEW w, WShape(w), NEW q, WriteOk(c, w, q),
         w.n = 0, w.box # << >>, TrySend(c, k, w)
  PROVE  Wrote(c, k, q)
<1>1. PICK s \in Results(c, Len(w.box)) :
    LET part == SubSeq(w.box, 1, s.n)
        done == Whole(part)
    IN /\ wr' = [wr EXCEPT ![c] = [w EXCEPT !.n = Len(w.box), !.res = [r |-> s.r, n |-> s.n, zc |-> s.zc],
                   !.held = IF s.zc THEN Append(@, done \intersect Reqs) ELSE @]]
       /\ conn' = [conn EXCEPT ![c] = [k EXCEPT !.refs = @ + 1]]
       /\ net' = [net EXCEPT ![c].out = @ \union (done \intersect Outgoing)]
       /\ replies' = replies \union ((done \intersect Reqs) \X {c})
  BY DEF TrySend
<1>2. PICK done : done = Done(w, s)
  OBVIOUS
<1>3. Len(w.box) \in Nat
  BY DEF WShape, IsList
<1>4. s.n \in 0..Len(w.box) /\ s.zc \in BOOLEAN /\ (s.zc => s.n = Len(w.box) /\ s.r = "ok")
  <2>1. PICK m : m = Len(w.box)
    OBVIOUS
  <2>2. \/ \E z \in BOOLEAN : s = [r |-> "ok", n |-> m, zc |-> z, kind |-> IF z THEN "zc" ELSE "free"]
        \/ \E j \in 0..(m - 1) : s = [r |-> "ok", n |-> j, zc |-> FALSE, kind |-> "partial"]
        \/ s = [r |-> "EAGAIN", n |-> 0, zc |-> FALSE, kind |-> "again"]
        \/ s = [r |-> "ERR", n |-> 0, zc |-> FALSE, kind |-> "free"]
    BY <2>1 DEF Results
  <2>3. CASE \E z \in BOOLEAN : s = [r |-> "ok", n |-> m, zc |-> z, kind |-> IF z THEN "zc" ELSE "free"]
    BY <1>3, <2>1, <2>3
  <2>4. CASE \E j \in 0..(m - 1) : s = [r |-> "ok", n |-> j, zc |-> FALSE, kind |-> "partial"]
    BY <1>3, <2>1, <2>4
  <2>5. CASE s = [r |-> "EAGAIN", n |-> 0, zc |-> FALSE, kind |-> "again"]
    BY <1>3, <2>5
  <2>6. CASE s = [r |-> "ERR", n |-> 0, zc |-> FALSE, kind |-> "free"]
    BY <1>3, <2>6
  <2> QED BY <2>2, <2>3, <2>4, <2>5, <2>6
<1>5. PICK v : v = Taken(w, s)
  OBVIOUS
<1>6. WShape(v) /\ WriteOk(c, v, q) /\ \A r \in done \intersect Reqs : q[r].c = c /\ q[r].st = "reply"
  <2>1. Fits(w, s) /\ Idle(w)
    BY <1>4 DEF Fits, Idle
  <2>2. WShape(Taken(w, s))
    BY <2>1, TakenOk
  <2>3. WriteOk(c, Taken(w, s), q)
    BY <2>1, TakenOk
  <2>4. \A r \in Reqs : r \in Done(w, s) => Mine(q, c, r)
    BY <2>1, TakenOk
  <2> QED BY <1>2, <1>5, <2>2, <2>3, <2>4 DEF Mine
<1>7. wr' = [wr EXCEPT ![c] = v]
  BY <1>1, <1>2, <1>5 DEF Taken, Done
<1>8. PICK k2 : k2 = [k EXCEPT !.refs = @ + 1]
  OBVIOUS
<1>9. conn' = [conn EXCEPT ![c] = k2] /\ KShape(k2) /\ k2.st = k.st /\ k2.fd = k.fd /\ k2.osd = k.osd
  BY <1>1, <1>8 DEF KShape
<1>10. WroteConn(c, k, q)
  BY <1>6, <1>7, <1>9 DEF WroteConn
<1>11. WroteNet(c)
  BY <1>1 DEF WroteNet, NetShape
<1>12. replies' = replies \union ((done \intersect Reqs) \X {c})
  BY <1>1, <1>2 DEF Done
<1>13. WroteReplies(c, q)
  BY <1>6, <1>12 DEF WroteReplies
<1> QED BY <1>10, <1>11, <1>13 DEF Wrote

LEMMA NoSqeWrote ==
  ASSUME NetShape, NEW c \in Conns, NEW k, KShape(k), NEW w, WShape(w), NEW q, WriteOk(c, w, q),
         \/ NoSqe(c, k, w)
         \/ wr' = [wr EXCEPT ![c] = w] /\ conn' = [conn EXCEPT ![c] = k] /\ UNCHANGED <<net, replies>>
  PROVE  Wrote(c, k, q)
<1>1. wr' = [wr EXCEPT ![c] = w] /\ conn' = [conn EXCEPT ![c] = k] /\ UNCHANGED <<net, replies>>
  BY DEF NoSqe
<1>2. WroteConn(c, k, q)
  BY <1>1 DEF WroteConn
<1>3. WroteNet(c) /\ WroteReplies(c, q)
  BY <1>1 DEF WroteNet, NetShape, WroteReplies
<1> QED BY <1>2, <1>3 DEF Wrote

LEMMA MarkedOk ==
  ASSUME NEW c, NEW w, WShape(w), NEW q, WriteOk(c, w, q)
  PROVE  WShape(MarkReady(w)) /\ WriteOk(c, MarkReady(w), q)
<1>1. PICK v : v = MarkReady(w)
  OBVIOUS
<1>2. SameWrite(w, v) /\ DOMAIN v = DOMAIN w
  BY <1>1 DEF MarkReady, SameWrite, WShape
<1>3. WShape(v)
  BY <1>2 DEF WShape, SameWrite
<1> QED BY <1>1, <1>2, <1>3, SameWriteOk

LEMMA PushWrote ==
  ASSUME NetShape, WriteShape, NEW c \in Conns, NEW k, KShape(k), NEW x, WriteOk(c, wr[c], req),
         \A r \in Reqs : r # x => req'[r] = req[r],
         x \in Reqs => req'[x].c = c /\ req'[x].st = "reply" /\ req[x].st # "reply",
         OutboxPush(c, k, x)
  PROVE  Wrote(c, k, req')
<1>1. PICK w, u, q, q2 : w = wr[c] /\ u = Queued(w, x) /\ q = req /\ q2 = req'
  OBVIOUS
<1>2. WShape(w) /\ WriteOk(c, w, q)
  BY <1>1 DEF WriteShape, WShape
<1>3. /\ WShape(u) /\ WriteOk(c, u, q2) /\ u.n = w.n
      /\ w.n = 0 => u.box # << >>
  BY <1>1, <1>2, QueuedOk
<1>4. WShape(MarkReady(u)) /\ WriteOk(c, MarkReady(u), q2)
  BY <1>3, MarkedOk
<1>5. w.n \in Nat
  BY <1>2 DEF WriteOk
<1>6. CASE u.n > 0
  <2>1. wr' = [wr EXCEPT ![c] = MarkReady(u)] /\ conn' = [conn EXCEPT ![c] = k] /\ UNCHANGED <<net, replies>>
    BY <1>1, <1>6 DEF OutboxPush
  <2> QED BY <1>1, <1>4, <2>1, NoSqeWrote
<1>7. CASE ~(u.n > 0)
  <2>1. TrySend(c, k, u) \/ NoSqe(c, k, MarkReady(u))
    BY <1>1, <1>7 DEF OutboxPush
  <2>2. u.n = 0 /\ u.box # << >>
    BY <1>3, <1>5, <1>7
  <2>3. ASSUME TrySend(c, k, u) PROVE Wrote(c, k, q2)
    BY <1>3, <2>2, <2>3, TryWrote
  <2>4. ASSUME NoSqe(c, k, MarkReady(u)) PROVE Wrote(c, k, q2)
    BY <1>4, <2>4, NoSqeWrote
  <2> QED BY <1>1, <2>1, <2>3, <2>4
<1> QED BY <1>6, <1>7

(* A step that changes the writes of a connection c, which may be new, and  *)
(* answers requests. *)
LEMMA WroteStep ==
  ASSUME MsgrInv, Phases', TableShape', OpsShape', Holding', NoDrop,
         \A d \in Conns : Parsing(d)' = Parsing(d),
         NEW c \in Conns, NEW k, Wrote(c, k, req'), conn[c].st \in Up,
         k.st = "connected", k.fd = conn[c].fd, k.osd = conn[c].osd,
         UNCHANGED <<rd, clients, peerfd>>,
         \A d \in Conns : d # c => sent'[d] = sent[d] /\ received'[d] = received[d],
         \A r \in received'[c] : r \in received[c],
         \A d \in Conns, x \in Held1 : d # c => (Somewhere(x, d)' => Somewhere(x, d)),
         conn[c].st = "connected" => (Somewhere(Conf, c)' => Somewhere(Conf, c)),
         \A r \in Reqs : \/ req'[r] = req[r]
                         \/ /\ req[r].st \in {"read", "exec"}
                            /\ req'[r].st \in {"reply", "freed"} /\ req'[r].c = req[r].c
                            /\ req'[r].fd = req[r].fd
  PROVE  MsgrInv'
<1>1. Shape /\ Holding /\ Links /\ Phases /\ Streams /\ Writes
  BY DEF MsgrInv
<1>2. ConnShape /\ WriteShape /\ NetShape /\ TableShape /\ ReadShape
  BY <1>1 DEF Shape
<1>3. PICK v, k2 : /\ wr' = [wr EXCEPT ![c] = v] /\ WShape(v) /\ WriteOk(c, v, req')
                   /\ conn' = [conn EXCEPT ![c] = k2] /\ KShape(k2)
                   /\ k2.st = k.st /\ k2.fd = k.fd /\ k2.osd = k.osd
  BY DEF Wrote, WroteConn
<1>4. /\ WriteShape' /\ wr'[c] = v /\ \A d \in Conns : d # c => wr'[d] = wr[d]
  BY <1>2, <1>3 DEF WriteShape, WShape
<1>5. /\ ConnShape' /\ conn'[c].st = "connected" /\ conn'[c].fd = conn[c].fd /\ conn'[c].osd = conn[c].osd
      /\ \A d \in Conns : d # c => conn'[d] = conn[d]
  BY <1>2, <1>3 DEF ConnShape, KShape
<1>6. NetShape' /\ \A d \in Conns : net'[d].in = net[d].in /\ (d # c => net'[d] = net[d])
  BY DEF Wrote, WroteNet
<1>7. Shape'
  <2>1. ReadShape'
    BY <1>2 DEF ReadShape
  <2> QED BY <1>4, <1>5, <1>6, <2>1 DEF Shape
<1>8. Links'
  <2>1. ASSUME NEW d \in Conns PROVE ConnOk(d)' /\ Quiet(d)'
    <3>1. ConnOk(d) /\ Quiet(d)
      BY <1>1 DEF Links
    <3>2. CASE d = c
      BY <1>5, <3>1, <3>2 DEF ConnOk, Quiet, ConnStates, Up
    <3>3. CASE d # c
      <4>1. conn'[d] = conn[d] /\ wr'[d] = wr[d] /\ net'[d] = net[d]
        BY <1>4, <1>5, <1>6, <3>3
      <4>2. Empty(d) => Empty(d)'
        BY <3>3, <4>1 DEF Empty
      <4>3. ConnOk(d)'
        BY <3>1, <4>1 DEF ConnOk
      <4>4. \A x \in Held1 : Somewhere(x, d)' => Somewhere(x, d)
        BY <3>3
      <4> QED BY <3>1, <4>1, <4>2, <4>3, <4>4 DEF Quiet
    <3> QED BY <3>2, <3>3
  <2>2. ASSUME NEW f \in Fds, clients'[f] # None
        PROVE  conn'[clients'[f]].fd = f /\ conn'[clients'[f]].st \in Up
    <3>1. /\ clients'[f] = clients[f] /\ clients[f] \in Conns
          /\ conn[clients[f]].fd = f /\ conn[clients[f]].st \in Up
      BY <1>1, <1>2, <2>2 DEF Links, TableShape
    <3> QED BY <1>5, <3>1 DEF Up
  <2>3. ASSUME NEW o \in Osds PROVE PeerOk(o)'
    <3>1. PeerOk(o)
      BY <1>1 DEF Links
    <3>2. PICK d : d = clients[peerfd[o]]
      OBVIOUS
    <3>3. clients'[peerfd'[o]] = d /\ peerfd' = peerfd
      BY <3>2
    <3>4. CASE peerfd[o] # None
      <4>1. d \in Conns /\ conn[d].osd = o /\ conn[d].st = "connected" /\ ~Somewhere(Conf, d)
        BY <3>1, <3>2, <3>4 DEF PeerOk
      <4>2. conn'[d].osd = o /\ conn'[d].st = "connected"
        BY <1>5, <4>1
      <4>3. ~Somewhere(Conf, d)'
        BY <4>1, Apart
      <4> QED BY <3>3, <4>1, <4>2, <4>3 DEF PeerOk
    <3> QED BY <3>3, <3>4 DEF PeerOk
  <2> QED BY <2>1, <2>2, <2>3 DEF Links
<1>9. Streams'
  <2>1. ASSUME NEW d \in Conns, Reads(d)'
        PROVE  /\ SameStream(d) /\ (~rd'[d].busy => rd'[d].got = << >>) /\ (rd'[d].eof => rd'[d].got = << >>)
    <3>1. CASE conn[d].st = "connected"
      <4>1. Reads(d)
        BY <3>1 DEF Reads, NoDrop
      <4>2. SameStream(d)
        BY <1>6, <4>1 DEF SameStream, Stream
      <4> QED BY <1>1, <4>1, <4>2 DEF Streams, ReadOk
    <3>2. CASE conn[d].st # "connected"
      <4>1. d = c /\ conn[d].st = "connecting"
        BY <1>5, <2>1, <3>2 DEF Reads, Up
      <4>2. rd[d] = NewRead /\ net[d] = NewSocket
        BY <1>1, <4>1 DEF Links, Quiet, Empty
      <4>3. rd'[d] = NewRead /\ net'[d].in = << >>
        BY <1>6, <4>2 DEF NewSocket
      <4>4. Parsing(d) = << >>
        <5>1. CASE todo # << >> /\ todo[1].k = "parse" /\ todo[1].c = d
          <6>1. 1 \in 1..Len(todo)
            BY <1>2, <5>1, ListEmpty DEF TableShape, IsList
          <6>2. Len(todo) = 1
            BY <1>1, <5>1, <6>1 DEF Phases, Lasting
          <6>3. Final = todo[1]
            BY <6>2 DEF Final
          <6>4. ParseOk(todo[1])
            BY <1>1, <5>1, <6>3 DEF Phases
          <6> QED BY <3>2, <5>1, <6>4 DEF ParseOk
        <5> QED BY <5>1 DEF Parsing
      <4>5. Stream(d)' = << >> \o (<< >> \o << >>)
        BY <4>3, <4>4 DEF Stream, NewRead
      <4>6. Stream(d)' = << >>
        BY <4>5, EmptyCat, ListOne
      <4> QED BY <4>3, <4>6 DEF SameStream, NewRead, NoOp
    <3> QED BY <3>1, <3>2
  <2>2. \A r \in Reqs : req[r].st = "wire" => req'[r].st = "wire"
    OBVIOUS
  <2> QED BY <1>1, <2>1, <2>2, StreamsKept
<1>10. Writes'
  <2>1. ASSUME NEW d \in Conns, conn'[d].st = "connected"
        PROVE  WriteOk(d, wr'[d], req')
    <3>1. CASE d = c
      BY <1>3, <1>4, <3>1
    <3>2. CASE d # c
      <4>1. WriteOk(d, wr[d], req)
        BY <1>1, <1>5, <2>1, <3>2 DEF Writes
      <4>2. SameWrite(wr[d], wr'[d])
        BY <1>4, <3>2 DEF SameWrite
      <4>3. \A r \in Reqs : req[r].st = "reply" => req'[r] = req[r]
        OBVIOUS
      <4> QED BY <4>1, <4>2, <4>3, SameWriteOk
    <3> QED BY <3>1, <3>2
  <2>2. \A d \in Conns : \A r \in received'[d] : r \in received[d] /\ r \in Reqs
    BY DEF OpsShape
  <2>3. \A r \in Reqs : Begun(r) => req'[r].c = req[r].c /\ Begun(r)'
    BY DEF Begun
  <2>4. \A d \in Conns : \A r \in received'[d] : req'[r].c = d /\ Begun(r)'
    BY <1>1, <2>2, <2>3 DEF Writes
  <2>5. ASSUME NEW a \in replies'
        PROVE  a[1] \in Reqs /\ req'[a[1]].c = a[2] /\ req'[a[1]].st \in {"reply", "freed"}
    <3>1. CASE a \in replies
      BY <1>1, <3>1 DEF Writes
    <3>2. CASE a \notin replies
      BY <2>5, <3>2 DEF Wrote, WroteReplies
    <3> QED BY <3>1, <3>2
  <2>6. \A r \in Reqs : Begun(r)' => req'[r].fd \in Fds
    BY <1>1 DEF Writes, Begun
  <2> QED BY <2>1, <2>4, <2>5, <2>6 DEF Writes
<1> QED BY <1>7, <1>8, <1>9, <1>10 DEF MsgrInv

-----------------------------------------------------------------------------
LEMMA EventPhases ==
  ASSUME TableShape, Phases, Event, UNCHANGED <<todo, imm>>
  PROVE  /\ Phases' /\ NoDrop /\ SameCancels /\ imm = << >>
         /\ \A d : Parsing(d)' = Parsing(d) /\ Parsing(d) = << >>
<1>1. todo = << >> /\ todo' = << >> /\ imm = << >> /\ imm' = << >>
  BY DEF Event, Phases
<1>2. Len(todo) = 0 /\ Len(imm) = 0 /\ Len(todo') = 0 /\ Len(imm') = 0
  BY <1>1, ListOne
<1>3. Phases'
  BY <1>1, <1>2 DEF Phases
<1> QED BY <1>1, <1>3, NotDropping DEF Parsing, SameCancels

(* send_replies *)
LEMMA SendRepliesOk ==
  ASSUME MsgrInv, NEW c \in Conns, SendReplies(c)
  PROVE  MsgrInv'
<1>1. Shape /\ Holding /\ Links /\ Phases /\ Streams /\ Writes
  BY DEF MsgrInv
<1>2. ConnShape /\ TableShape /\ OpsShape /\ WriteShape /\ NetShape
  BY <1>1 DEF Shape
<1>3. PICK w, u : w = wr[c] /\ u = [w EXCEPT !.q = FALSE]
  OBVIOUS
<1>4. /\ Event /\ w.q
      /\ IF u.n > 0 \/ u.box = << >>
           THEN wr' = [wr EXCEPT ![c] = u] /\ UNCHANGED <<conn, net, replies>>
           ELSE TrySend(c, conn[c], u) \/ NoSqe(c, conn[c], w)
      /\ UNCHANGED <<rd, sent, received, clients, peerfd, imm, todo, pushed, called, lost, req>>
  BY <1>3 DEF SendReplies, msgrVars
<1>5. conn[c].st = "connected" /\ conn[c].st \in Up
  <2>1. ConnOk(c) /\ Quiet(c)
    BY <1>1 DEF Links
  <2> QED BY <1>3, <1>4, <2>1 DEF Quiet, ConnOk, ConnStates, Empty, NewWrite, Up
<1>6. WShape(w) /\ WriteOk(c, w, req') /\ WShape(u) /\ WriteOk(c, u, req') /\ u.n = w.n /\ w.n \in Nat
  <2>1. WShape(w) /\ WriteOk(c, w, req) /\ req' = req
    BY <1>1, <1>2, <1>3, <1>4, <1>5 DEF Writes, WriteShape, WShape
  <2>2. SameWrite(w, u) /\ DOMAIN u = DOMAIN w
    BY <1>3, <2>1 DEF SameWrite, WShape
  <2>3. WShape(u)
    BY <2>1, <2>2 DEF WShape, SameWrite
  <2>4. WriteOk(c, u, req)
    BY <2>1, <2>2, SameWriteOk
  <2>5. u.n = w.n /\ w.n \in Nat
    BY <2>1, <2>2 DEF SameWrite, WriteOk
  <2> QED BY <2>1, <2>3, <2>4, <2>5
<1>7. KShape(conn[c])
  BY <1>2 DEF ConnShape, KShape
<1>8. Wrote(c, conn[c], req')
  <2>1. PICK k, q : k = conn[c] /\ q = req'
    OBVIOUS
  <2>2. CASE u.n > 0 \/ u.box = << >>
    <3>1. conn' = [conn EXCEPT ![c] = k]
      BY <1>2, <1>4, <2>1, <2>2 DEF ConnShape
    <3> QED BY <1>2, <1>4, <1>6, <1>7, <2>1, <2>2, <3>1, NoSqeWrote
  <2>3. CASE ~(u.n > 0 \/ u.box = << >>)
    <3>1. TrySend(c, k, u) \/ NoSqe(c, k, w)
      BY <1>4, <2>1, <2>3
    <3>2. u.n = 0 /\ u.box # << >>
      BY <1>6, <2>3
    <3>3. ASSUME TrySend(c, k, u) PROVE Wrote(c, k, q)
      BY <1>2, <1>6, <1>7, <2>1, <3>2, <3>3, TryWrote
    <3>4. ASSUME NoSqe(c, k, w) PROVE Wrote(c, k, q)
      BY <1>2, <1>6, <1>7, <2>1, <3>4, NoSqeWrote
    <3> QED BY <2>1, <3>1, <3>3, <3>4
  <2> QED BY <2>2, <2>3
<1>9. Phases' /\ NoDrop /\ SameCancels /\ \A d \in Conns : Parsing(d)' = Parsing(d)
  BY <1>1, <1>2, <1>4, EventPhases
<1>10. TableShape' /\ OpsShape'
  BY <1>2, <1>4 DEF TableShape, OpsShape
<1>11. Holding' /\ \A x \in Held1, d \in Conns : Somewhere(x, d)' <=> Somewhere(x, d)
  BY <1>1, <1>4, <1>9, StillHeld, HoldingKept
<1>12. /\ \A d \in Conns : sent'[d] = sent[d] /\ received'[d] = received[d]
       /\ \A r \in Reqs : req'[r] = req[r]
       /\ UNCHANGED <<rd, clients, peerfd>>
  BY <1>4
<1> QED BY <1>5, <1>8, <1>9, <1>10, <1>11, <1>12, WroteStep, Apart

(* Message x is new at connection c, in one place. *)
LEMMA HoldingMore ==
  ASSUME Holding, NEW x \in Held1, NEW c \in Conns,
         \A y \in Held1, d \in Conns : One(y, d)',
         \A y \in Held1, d \in Conns : Somewhere(y, d)' <=> Somewhere(y, d) \/ (y = x /\ d = c),
         \A d \in Conns : Somewhere(x, d) => x = Conf,
         x \in Ops => ~Somewhere(Conf, c),
         x = Conf => \A op \in Ops : ~Somewhere(op, c),
         \A op \in Ops : /\ called'[op] \in {0, 1}
                         /\ Waits(op)' <=> Waits(op) \/ op = x
                         /\ Fresh(op)',
         \A r \in Reqs : IF r = x THEN req'[r].st = "read" /\ req'[r].c = c
                         ELSE req[r].st = "read" => req'[r] = req[r]
  PROVE  Holding'
<1>1. (\A y \in Ops \union Reqs, d, e \in Conns : Somewhere(y, d) /\ Somewhere(y, e) => d = e)'
  <2> SUFFICES ASSUME NEW y \in Ops \union Reqs, NEW d \in Conns, NEW e \in Conns, Somewhere(y, d)', Somewhere(y, e)'
               PROVE  d = e
    OBVIOUS
  <2>1. y \in Held1 /\ y # Conf
    BY Apart
  <2> QED BY <2>1 DEF Holding
<1>2. (\A op \in Ops : Waits(op) <=> \E d \in Conns : Somewhere(op, d))'
  <2> SUFFICES ASSUME NEW op \in Ops PROVE Waits(op)' <=> \E d \in Conns : Somewhere(op, d)'
    OBVIOUS
  <2>1. op \in Held1 /\ (Waits(op) <=> \E d \in Conns : Somewhere(op, d))
    BY Apart DEF Holding
  <2> QED BY <2>1
<1>3. (\A op \in Ops, d \in Conns : ~(Somewhere(op, d) /\ Somewhere(Conf, d)))'
  <2> SUFFICES ASSUME NEW op \in Ops, NEW d \in Conns PROVE ~(Somewhere(op, d)' /\ Somewhere(Conf, d)')
    OBVIOUS
  <2>1. op \in Held1 /\ Conf \in Held1 /\ op # Conf /\ ~(Somewhere(op, d) /\ Somewhere(Conf, d))
    BY Apart DEF Holding
  <2> QED BY <2>1
<1>4. (\A r \in Reqs, d \in Conns : Somewhere(r, d) => req[r].st = "read" /\ req[r].c = d)'
  <2> SUFFICES ASSUME NEW r \in Reqs, NEW d \in Conns, Somewhere(r, d)'
               PROVE  req'[r].st = "read" /\ req'[r].c = d
    OBVIOUS
  <2>1. r \in Held1 /\ r # Conf
    BY Apart
  <2>2. CASE r = x
    BY <2>1, <2>2
  <2>3. CASE r # x
    BY <2>1, <2>3 DEF Holding
  <2> QED BY <2>2, <2>3
<1> QED BY <1>1, <1>2, <1>3, <1>4 DEF Holding

(* The user sends an operation. *)
LEMMA UserSendOk ==
  ASSUME MsgrInv, NEW op \in Ops, NEW o \in Osds, UserSend(op, o)
  PROVE  MsgrInv'
<1>1. Shape /\ Holding /\ Links /\ Phases /\ Streams /\ Writes
  BY DEF MsgrInv
<1>2. ConnShape /\ TableShape /\ OpsShape /\ WriteShape /\ NetShape
  BY <1>1 DEF Shape
<1>3. PICK c : c = clients[peerfd[o]]
  OBVIOUS
<1>4. /\ Event /\ op \notin pushed /\ peerfd[o] # None /\ pushed' = pushed \union {op}
      /\ sent' = [sent EXCEPT ![c] = @ \union {op}]
      /\ OutboxPush(c, conn[c], op)
      /\ UNCHANGED <<rd, received, clients, peerfd, imm, todo, called, lost, req>>
  BY <1>3 DEF UserSend, msgrVars
<1>5. c \in Conns /\ conn[c].st = "connected" /\ conn[c].st \in Up /\ ~Somewhere(Conf, c)
  BY <1>1, <1>3, <1>4 DEF Links, PeerOk, Up
<1>6. op \in Held1 /\ op \notin Reqs /\ op # Conf /\ op \in Outgoing
  BY Apart
<1>7. Wrote(c, conn[c], req')
  <2>1. WriteOk(c, wr[c], req)
    BY <1>1, <1>5 DEF Writes
  <2>2. KShape(conn[c])
    BY <1>2, <1>5 DEF ConnShape, KShape
  <2> QED BY <1>2, <1>4, <1>5, <1>6, <2>1, <2>2, PushWrote
<1>8. Phases' /\ NoDrop /\ SameCancels /\ \A d \in Conns : Parsing(d)' = Parsing(d)
  BY <1>1, <1>2, <1>4, EventPhases
<1>9. sent'[c] = sent[c] \union {op} /\ \A d \in Conns : d # c => sent'[d] = sent[d]
  BY <1>2, <1>4, <1>5 DEF OpsShape
<1>10. TableShape' /\ OpsShape'
  BY <1>2, <1>4, <1>5, <1>6, <1>9 DEF TableShape, OpsShape
<1>11. \A d \in Conns : ~Somewhere(op, d)
  BY <1>1, <1>4 DEF Holding, Waits
<1>12. ASSUME NEW y \in Held1, NEW d \in Conns
       PROVE  /\ One(y, d)'
              /\ Somewhere(y, d)' <=> Somewhere(y, d) \/ (y = op /\ d = c)
  <2>1. One(y, d)
    BY <1>1 DEF Holding
  <2>2. CASE y = op /\ d = c
    BY <1>4, <1>8, <1>9, <1>11, <2>1, <2>2 DEF One, Somewhere, SameCancels
  <2>3. CASE ~(y = op /\ d = c)
    BY <1>4, <1>8, <1>9, <2>1, <2>3 DEF One, Somewhere, SameCancels
  <2> QED BY <2>2, <2>3
<1>13. Holding'
  <2>1. \A p \in Ops : /\ called'[p] \in {0, 1}
                       /\ Waits(p)' <=> Waits(p) \/ p = op
                       /\ Fresh(p)'
    <3>1. called[op] = 0 /\ ~Lost(op) /\ called' = called /\ \A p \in Ops : called[p] \in {0, 1} /\ Fresh(p)
      BY <1>1, <1>4 DEF Holding, Fresh
    <3>2. \A p \in Ops : Lost(p)' <=> Lost(p)
      BY <1>4 DEF Lost
    <3> QED BY <1>4, <3>1, <3>2 DEF Waits, Fresh
  <2>2. \A r \in Reqs : r # op /\ req'[r] = req[r]
    BY <1>4, <1>6
  <2> QED BY <1>1, <1>5, <1>6, <1>11, <1>12, <2>1, <2>2, HoldingMore
<1>14. \A d \in Conns, x \in Held1 : d # c => (Somewhere(x, d)' => Somewhere(x, d))
  BY <1>12
<1>15. Somewhere(Conf, c)' => Somewhere(Conf, c)
  BY <1>5, <1>6, <1>12, Apart
<1>16. /\ \A d \in Conns : d # c => sent'[d] = sent[d] /\ received'[d] = received[d]
       /\ \A r \in received'[c] : r \in received[c]
       /\ \A r \in Reqs : req'[r] = req[r]
       /\ UNCHANGED <<rd, clients, peerfd>>
  BY <1>4, <1>9
<1> QED BY <1>5, <1>7, <1>8, <1>10, <1>13, <1>14, <1>15, <1>16, WroteStep

(* handle_connect_epoll and check_peer_config *)
LEMMA ConnectedOk ==
  ASSUME MsgrInv, NEW c \in Conns, Connected(c)
  PROVE  MsgrInv'
<1>1. Shape /\ Holding /\ Links /\ Phases /\ Streams /\ Writes
  BY DEF MsgrInv
<1>2. ConnShape /\ TableShape /\ OpsShape /\ WriteShape /\ NetShape
  BY <1>1 DEF Shape
<1>3. PICK k : k = [conn[c] EXCEPT !.st = "connected"]
  OBVIOUS
<1>4. /\ Event /\ conn[c].st = "connecting"
      /\ sent' = [sent EXCEPT ![c] = @ \union {Conf}]
      /\ OutboxPush(c, k, Conf)
      /\ UNCHANGED <<rd, received, clients, peerfd, imm, todo, called, lost, req, pushed>>
  BY <1>3 DEF Connected, msgrVars
<1>5. /\ KShape(k) /\ k.st = "connected" /\ k.fd = conn[c].fd /\ k.osd = conn[c].osd
      /\ conn[c].st \in Up /\ conn[c].st # "connected"
  BY <1>2, <1>3, <1>4 DEF ConnShape, KShape, Up
<1>6. Conf \in Held1 /\ Conf \notin Reqs /\ Conf \notin Ops /\ Conf \in Outgoing
  BY Apart
<1>7. wr[c] = NewWrite /\ \A x \in Held1 : ~Somewhere(x, c)
  BY <1>1, <1>4 DEF Links, Quiet, Empty
<1>8. Wrote(c, k, req')
  <2>1. WriteOk(c, wr[c], req)
    BY <1>7, NewWriteOk
  <2> QED BY <1>2, <1>4, <1>5, <1>6, <2>1, PushWrote
<1>9. Phases' /\ NoDrop /\ SameCancels /\ \A d \in Conns : Parsing(d)' = Parsing(d)
  BY <1>1, <1>2, <1>4, EventPhases
<1>10. sent'[c] = sent[c] \union {Conf} /\ \A d \in Conns : d # c => sent'[d] = sent[d]
  BY <1>2, <1>4 DEF OpsShape
<1>11. TableShape' /\ OpsShape'
  BY <1>2, <1>4, <1>6, <1>10 DEF TableShape, OpsShape
<1>12. ASSUME NEW y \in Held1, NEW d \in Conns
       PROVE  /\ One(y, d)'
              /\ Somewhere(y, d)' <=> Somewhere(y, d) \/ (y = Conf /\ d = c)
  <2>1. One(y, d)
    BY <1>1 DEF Holding
  <2>2. CASE y = Conf /\ d = c
    BY <1>4, <1>7, <1>9, <1>10, <2>1, <2>2 DEF One, Somewhere, SameCancels
  <2>3. CASE ~(y = Conf /\ d = c)
    BY <1>4, <1>9, <1>10, <2>1, <2>3 DEF One, Somewhere, SameCancels
  <2> QED BY <2>2, <2>3
<1>13. Holding'
  <2>1. \A p \in Ops : /\ called'[p] \in {0, 1}
                       /\ Waits(p)' <=> Waits(p) \/ p = Conf
                       /\ Fresh(p)'
    <3>1. called' = called /\ \A p \in Ops : called[p] \in {0, 1} /\ Fresh(p)
      BY <1>1, <1>4 DEF Holding
    <3>2. \A p \in Ops : Lost(p)' <=> Lost(p)
      BY <1>4 DEF Lost
    <3> QED BY <1>4, <1>6, <3>1, <3>2 DEF Waits, Fresh
  <2>2. \A r \in Reqs : r # Conf /\ req'[r] = req[r]
    BY <1>4, <1>6
  <2>3. \A p \in Ops : ~Somewhere(p, c)
    BY <1>7, Apart
  <2> QED BY <1>1, <1>6, <1>12, <2>1, <2>2, <2>3, HoldingMore
<1>14. \A d \in Conns, x \in Held1 : d # c => (Somewhere(x, d)' => Somewhere(x, d))
  BY <1>12
<1>16. /\ \A d \in Conns : d # c => sent'[d] = sent[d] /\ received'[d] = received[d]
       /\ \A r \in received'[c] : r \in received[c]
       /\ \A r \in Reqs : req'[r] = req[r]
       /\ UNCHANGED <<rd, clients, peerfd>>
  BY <1>4, <1>10
<1> QED BY <1>5, <1>8, <1>9, <1>11, <1>13, <1>14, <1>16, WroteStep

(* The connections after a write. *)
LEMMA WroteConns ==
  ASSUME ConnShape, NEW c \in Conns, NEW k, NEW q, WroteConn(c, k, q), conn[c].st \in Up
  PROVE  GoneStays /\ \A d \in Conns : d # c => conn'[d] = conn[d]
BY DEF WroteConn, ConnShape, GoneStays, Up, Gone

(* The keepalive timer, for one connection. *)
LEMMA TickClientOk ==
  ASSUME MsgrInv, TickClient
  PROVE  MsgrInv'
<1>1. Shape /\ Holding /\ Links /\ Phases /\ Streams /\ Writes
  BY DEF MsgrInv
<1>2. ConnShape /\ TableShape /\ OpsShape /\ WriteShape /\ NetShape /\ "tick" \in PlainKinds
  BY <1>1 DEF Shape, PlainKinds
<1>3. PICK fd \in Fds :
    LET fds == Head(todo).fds
        c == clients[fd]
        k == conn[c]
        next == (IF fds = {fd} THEN << >> ELSE <<TickCall(fds \ {fd})>>) \o Rest
    IN /\ Call("tick")
       /\ \/ /\ todo' = next
             /\ UNCHANGED <<conn, wr, sent, net, replies>>
          \/ /\ c # None /\ Watched(c)
             /\ conn' = [conn EXCEPT ![c].ping = @ - 1]
             /\ todo' = (IF Late(k) THEN <<StopCall(fd, TRUE, c)>> ELSE << >>) \o next
             /\ UNCHANGED <<wr, sent, net, replies>>
          \/ /\ c # None /\ Watched(c)
             /\ LET k2 == [k EXCEPT !.ping = PingTime, !.idle = IdleTime]
                IN \/ conn' = [conn EXCEPT ![c] = k2] /\ UNCHANGED <<wr, sent, net, replies>>
                   \/ sent' = [sent EXCEPT ![c] = @ \union {Ping}] /\ OutboxPush(c, k2, Ping)
             /\ todo' = next
          \/ /\ c # None /\ Watched(c)
             /\ conn' = [conn EXCEPT ![c].idle = IF @ = 0 THEN IdleTime ELSE @ - 1]
             /\ todo' = next
             /\ UNCHANGED <<wr, sent, net, replies>>
       /\ UNCHANGED <<rd, received, clients, peerfd, imm, pushed, called, lost, req>>
  BY DEF TickClient
<1>4. PICK fds, c, k, p : /\ fds = Head(todo).fds /\ c = clients[fd] /\ k = conn[c]
                          /\ p = (IF fds = {fd} THEN << >> ELSE <<TickCall(fds \ {fd})>>)
  OBVIOUS
<1>5. /\ Call("tick") /\ todo # << >> /\ todo[1].k = "tick" /\ todo[1].fds = fds /\ IsList(Rest) /\ IsList(todo)
      /\ Len(todo) \in Nat /\ Len(todo) > 0
  BY <1>2, <1>3, <1>4, CallHead DEF TableShape
<1>6. fds \subseteq Fds
  <2>1. 1 \in 1..Len(todo)
    BY <1>5
  <2>2. CallOk(todo[1])
    BY <1>1, <2>1 DEF Phases
  <2> QED BY <1>5, <2>2 DEF CallOk
<1>7. UNCHANGED <<rd, received, clients, peerfd, imm, pushed, called, lost, req>>
  BY <1>3
<1>8. PlainCalls(p) /\ NoDrop
  <2>1. fds \ {fd} \in SUBSET Fds
    BY <1>6
  <2> QED BY <1>4, <1>5, <2>1, PlainLists, PlainOk, NotDropping
<1>9. c # None /\ Watched(c) => c \in Conns /\ conn[c].st = "connected"
  BY <1>2, <1>4 DEF TableShape, Watched
<1>10. CASE todo' = p \o Rest /\ UNCHANGED <<conn, wr, sent, net, replies>>
  <2>1. TodoStep(p)
    BY <1>2, <1>5, <1>10, PopStep
  <2> QED BY <1>2, <1>7, <1>8, <1>10, <2>1, SameConns, PlainStep
<1>11. CASE /\ c # None /\ Watched(c)
            /\ conn' = [conn EXCEPT ![c].ping = @ - 1]
            /\ todo' = (IF Late(k) THEN <<StopCall(fd, TRUE, c)>> ELSE << >>) \o (p \o Rest)
            /\ UNCHANGED <<wr, sent, net, replies>>
  <2>1. PICK s : s = (IF Late(k) THEN <<StopCall(fd, TRUE, c)>> ELSE << >>)
    OBVIOUS
  <2>2. PlainCalls(s)
    BY <2>1, PlainLists, PlainOk
  <2>3. todo' = (s \o p) \o Rest
    <3>1. IsList(s) /\ IsList(p) /\ IsList(Rest)
      BY <1>5, <1>8, <2>2 DEF PlainCalls
    <3>2. todo' = s \o (p \o Rest)
      BY <1>11, <2>1
    <3> QED BY <3>1, <3>2, CatAssoc
  <2>4. PICK u : u = s \o p
    OBVIOUS
  <2>5. PlainCalls(u) /\ TodoStep(u)
    BY <1>2, <1>5, <1>8, <2>2, <2>3, <2>4, PlainCat, PopStep
  <2>6. ConnShape' /\ \A d \in Conns : SameConn(d)
    BY <1>2, <1>9, <1>11 DEF ConnShape, SameConn
  <2> QED BY <1>7, <1>8, <1>11, <2>5, <2>6, PlainStep
<1>12. CASE /\ c # None /\ Watched(c)
            /\ \/ conn' = [conn EXCEPT ![c] = [k EXCEPT !.ping = PingTime, !.idle = IdleTime]]
               \/ conn' = [conn EXCEPT ![c].idle = IF @ = 0 THEN IdleTime ELSE @ - 1]
            /\ todo' = p \o Rest
            /\ UNCHANGED <<wr, sent, net, replies>>
  <2>1. TodoStep(p)
    BY <1>2, <1>5, <1>12, PopStep
  <2>2. ConnShape' /\ \A d \in Conns : SameConn(d)
    <3>1. CASE conn' = [conn EXCEPT ![c] = [k EXCEPT !.ping = PingTime, !.idle = IdleTime]]
      <4>1. PICK k2 : k2 = [k EXCEPT !.ping = PingTime, !.idle = IdleTime]
        OBVIOUS
      <4>2. c \in Conns /\ KShape(k2) /\ k2.st = conn[c].st /\ k2.fd = conn[c].fd /\ k2.osd = conn[c].osd
        BY <1>2, <1>4, <1>9, <1>12, <4>1 DEF ConnShape, KShape
      <4>3. conn' = [conn EXCEPT ![c] = k2]
        BY <3>1, <4>1
      <4> QED BY <1>2, <4>2, <4>3 DEF ConnShape, SameConn, KShape
    <3>2. CASE conn' = [conn EXCEPT ![c].idle = IF @ = 0 THEN IdleTime ELSE @ - 1]
      BY <1>2, <1>4, <1>9, <1>12, <3>2 DEF ConnShape, SameConn
    <3> QED BY <1>12, <3>1, <3>2
  <2> QED BY <1>7, <1>8, <1>12, <2>1, <2>2, PlainStep
<1>13. CASE /\ c # None /\ Watched(c) /\ sent' = [sent EXCEPT ![c] = @ \union {Ping}]
            /\ OutboxPush(c, [k EXCEPT !.ping = PingTime, !.idle = IdleTime], Ping)
            /\ todo' = p \o Rest
  <2>1. c \in Conns /\ conn[c].st = "connected" /\ conn[c].st \in Up
    BY <1>9, <1>13 DEF Up
  <2>2. PICK k2 : k2 = [k EXCEPT !.ping = PingTime, !.idle = IdleTime]
    OBVIOUS
  <2>3. KShape(k2) /\ k2.st = "connected" /\ k2.fd = conn[c].fd /\ k2.osd = conn[c].osd
    BY <1>2, <1>4, <2>1, <2>2 DEF ConnShape, KShape
  <2>4. Wrote(c, k2, req')
    <3>1. WriteOk(c, wr[c], req)
      BY <1>1, <2>1 DEF Writes
    <3>2. Ping \notin Reqs /\ OutboxPush(c, k2, Ping)
      BY <1>13, <2>2, MessengerAssumption
    <3> QED BY <1>2, <1>7, <2>1, <2>3, <3>1, <3>2, PushWrote
  <2>5. GoneStays
    BY <1>2, <2>1, <2>4, WroteConns DEF Wrote
  <2>6. TodoStep(p)
    BY <1>2, <1>5, <1>13, PopStep
  <2>7. /\ Phases' /\ IsList(todo') /\ SameCancels
        /\ \A d : Parsing(d) = << >> /\ Parsing(d)' = << >>
    BY <1>1, <1>2, <1>7, <1>8, <2>5, <2>6, PlainPhases
  <2>8. sent'[c] = sent[c] \union {Ping} /\ \A d \in Conns : d # c => sent'[d] = sent[d]
    BY <1>2, <1>13, <2>1 DEF OpsShape
  <2>9. TableShape' /\ OpsShape'
    BY <1>2, <1>7, <1>13, <2>1, <2>7, <2>8, Apart DEF TableShape, OpsShape
  <2>10. \A x \in Held1, d \in Conns : SameHeld(x, d)
    BY <1>7, <2>7, <2>8, Apart DEF SameHeld, SameCancels
  <2>11. Holding' /\ \A x \in Held1, d \in Conns : Somewhere(x, d)' <=> Somewhere(x, d)
    BY <1>1, <1>7, <2>10, HoldingKept
  <2>12. /\ \A d \in Conns : d # c => sent'[d] = sent[d] /\ received'[d] = received[d]
         /\ \A r \in received'[c] : r \in received[c]
         /\ \A r \in Reqs : req'[r] = req[r]
         /\ UNCHANGED <<rd, clients, peerfd>>
    BY <1>7, <2>8
  <2> QED BY <1>8, <2>1, <2>3, <2>4, <2>7, <2>9, <2>11, <2>12, WroteStep, Apart
<1> QED BY <1>3, <1>4, <1>10, <1>11, <1>12, <1>13

-----------------------------------------------------------------------------
(* finish_op: who has the descriptor of request r now takes the reply, if it *)
(* is the one that received the request.                                     *)
LEMMA TakesOk ==
  ASSUME MsgrInv, NEW r \in Reqs, NEW fd \in Fds, NEW c, c = clients[fd], Takes(c, r)
  PROVE  c \in Conns /\ conn[c].st = "connected" /\ req[r].c = c /\ WriteOk(c, wr[c], req)
<1>1. TableShape /\ Links /\ Writes
  BY DEF MsgrInv, Shape
<1>2. c \in Conns /\ r \in received[c] /\ clients[fd] # None
  BY <1>1 DEF Takes, TableShape
<1>3. conn[c].st \in Up /\ Quiet(c)
  BY <1>1, <1>2 DEF Links
<1>4. conn[c].st = "connected"
  BY <1>2, <1>3 DEF Quiet, Empty, Up
<1> QED BY <1>1, <1>2, <1>4 DEF Writes

LEMMA FinishWrote ==
  ASSUME MsgrInv, NEW r \in Reqs, NEW fd \in Fds, FinishOp(r, fd), req[r].st \in {"read", "exec"},
         NEW c, c = clients[fd], Takes(c, r)
  PROVE  \E k : k.st = "connected" /\ k.fd = conn[c].fd /\ k.osd = conn[c].osd /\ Wrote(c, k, req')
<1>1. /\ received' = [received EXCEPT ![c] = @ \ {r}]
      /\ req' = [req EXCEPT ![r].st = "reply"]
      /\ OutboxPush(c, [conn[c] EXCEPT !.inosd = @ \/ r \in ConfReqs], r)
  BY DEF FinishOp
<1>2. c \in Conns /\ conn[c].st = "connected" /\ req[r].c = c /\ WriteOk(c, wr[c], req)
  BY TakesOk
<1>3. PICK k : k = [conn[c] EXCEPT !.inosd = @ \/ r \in ConfReqs]
  OBVIOUS
<1>4. ConnShape /\ NetShape /\ WriteShape /\ OpsShape
  BY DEF MsgrInv, Shape
<1>5. KShape(k) /\ k.st = "connected" /\ k.fd = conn[c].fd /\ k.osd = conn[c].osd
  BY <1>2, <1>3, <1>4 DEF ConnShape, KShape
<1>6. /\ \A q \in Reqs : q # r => req'[q] = req[q]
      /\ req'[r].c = c /\ req'[r].st = "reply" /\ req[r].st # "reply"
  BY <1>1, <1>2, <1>4 DEF OpsShape
<1>7. OutboxPush(c, k, r)
  BY <1>1, <1>3
<1>8. Wrote(c, k, req')
  BY <1>2, <1>4, <1>5, <1>6, <1>7, PushWrote
<1> QED BY <1>5, <1>8

LEMMA FinishConns ==
  ASSUME MsgrInv, NEW r \in Reqs, NEW fd \in Fds, FinishOp(r, fd), req[r].st \in {"read", "exec"}
  PROVE  ConnShape' /\ \A d \in Conns : SameConn(d)
<1>1. PICK c : c = clients[fd]
  OBVIOUS
<1>2. ConnShape
  BY DEF MsgrInv, Shape
<1>3. CASE Takes(c, r)
  <2>1. PICK k : k.st = "connected" /\ k.fd = conn[c].fd /\ k.osd = conn[c].osd /\ Wrote(c, k, req')
    BY <1>1, <1>3, FinishWrote
  <2>2. c \in Conns /\ conn[c].st = "connected"
    BY <1>1, <1>3, TakesOk
  <2>3. PICK k2 : conn' = [conn EXCEPT ![c] = k2] /\ KShape(k2) /\ k2.st = k.st /\ k2.fd = k.fd /\ k2.osd = k.osd
    BY <2>1 DEF Wrote, WroteConn
  <2> QED BY <1>2, <2>1, <2>2, <2>3 DEF ConnShape, SameConn, KShape
<1>4. CASE ~Takes(c, r)
  <2>1. conn' = conn
    BY <1>1, <1>4 DEF FinishOp
  <2> QED BY <1>2, <2>1, SameConns
<1> QED BY <1>3, <1>4

LEMMA FinishOpOk ==
  ASSUME MsgrInv, Phases', TableShape', NoDrop, \A d \in Conns : Parsing(d)' = Parsing(d),
         NEW r \in Reqs, NEW fd \in Fds, FinishOp(r, fd), req[r].st \in {"read", "exec"},
         req[r].st = "read" => \E d \in Conns : Somewhere(r, d),
         UNCHANGED <<rd, sent, clients, peerfd, called, pushed, lost>>,
         \A x \in Held1, c \in Conns : One(x, c)',
         \A x \in Held1, c \in Conns : Somewhere(x, c)' <=> Somewhere(x, c) /\ x # r
  PROVE  MsgrInv'
<1>1. Shape /\ Holding /\ Links /\ Phases /\ Streams /\ Writes
  BY DEF MsgrInv
<1>2. ConnShape /\ TableShape /\ OpsShape
  BY <1>1 DEF Shape
<1>3. PICK c, R : c = clients[fd] /\ R = {<<r, d>> : d \in {e \in Conns : Somewhere(r, e)}}
  OBVIOUS
<1>4. /\ r \in Held1 /\ r \notin Ops /\ r # Conf
  BY Apart
<1>5. \A x \in Held1, d \in Conns : <<x, d>> \in R <=> x = r /\ Somewhere(r, d)
  BY <1>3
<1>6. \A x \in Held1, d \in Conns : /\ Somewhere(x, d)' <=> Somewhere(x, d) /\ <<x, d>> \notin R
                                    /\ <<x, d>> \in R => Somewhere(x, d)
  BY <1>5
<1>7. \A op \in Ops : /\ called'[op] \in {0, 1}
                      /\ Waits(op)' <=> Waits(op) /\ \A d \in Conns : <<op, d>> \notin R
                      /\ Fresh(op)'
  <2>1. \A op \in Ops : called'[op] \in {0, 1} /\ (Waits(op)' <=> Waits(op)) /\ Fresh(op)'
    BY <1>1 DEF Holding, Waits, Fresh, Lost
  <2>2. \A op \in Ops : op # r /\ op \in Held1
    BY <1>4, Apart
  <2> QED BY <1>5, <2>1, <2>2
<1>8. called' = [op \in Ops |-> called'[op]]
  BY <1>2 DEF OpsShape
<1>9. \A q \in Reqs : q # r => req'[q] = req[q]
  BY <1>2 DEF FinishOp, OpsShape
<1>10. ConnShape' /\ \A d \in Conns : SameConn(d)
  BY FinishConns
<1>11. \A d \in Conns : Somewhere(Conf, d)' => Somewhere(Conf, d)
  BY Apart
<1>12. CASE Takes(c, r)
  <2>1. PICK k : k.st = "connected" /\ k.fd = conn[c].fd /\ k.osd = conn[c].osd /\ Wrote(c, k, req')
    BY <1>3, <1>12, FinishWrote
  <2>2. c \in Conns /\ conn[c].st = "connected" /\ req[r].c = c
    BY <1>3, <1>12, TakesOk
  <2>3. /\ received' = [received EXCEPT ![c] = @ \ {r}]
        /\ req' = [req EXCEPT ![r].st = "reply"]
    BY <1>3, <1>12 DEF FinishOp
  <2>4. /\ req'[r].st = "reply" /\ req'[r].c = req[r].c /\ req'[r].fd = req[r].fd
        /\ DOMAIN req'[r] = {"st", "c", "fd"}
        /\ req' = [q \in Reqs |-> req'[q]]
    BY <1>2, <2>3 DEF OpsShape
  <2>5. OpsShape'
    BY <1>2, <1>9, <2>2, <2>3, <2>4 DEF OpsShape
  <2>6. Holding'
    <3>1. \A q \in Reqs : \/ req[q].st = "read" => req'[q] = req[q]
                          \/ \E d \in Conns : <<q, d>> \in R
      BY <1>4, <1>5, <1>9
    <3> QED BY <1>1, <1>6, <1>7, <3>1, HoldingLess
  <2>7. /\ \A d \in Conns : d # c => sent'[d] = sent[d] /\ received'[d] = received[d]
        /\ \A q \in received'[c] : q \in received[c]
    BY <1>2, <2>2, <2>3 DEF OpsShape
  <2>8. \A q \in Reqs : \/ req'[q] = req[q]
                        \/ /\ req[q].st \in {"read", "exec"}
                           /\ req'[q].st \in {"reply", "freed"} /\ req'[q].c = req[q].c
                           /\ req'[q].fd = req[q].fd
    BY <1>9, <2>4
  <2>9. conn[c].st \in Up /\ \A d \in Conns, x \in Held1 : d # c => (Somewhere(x, d)' => Somewhere(x, d))
    BY <2>2 DEF Up
  <2> QED BY <1>11, <2>1, <2>2, <2>5, <2>6, <2>7, <2>8, <2>9, WroteStep
<1>13. CASE ~Takes(c, r)
  <2>1. req' = [req EXCEPT ![r].st = "freed"] /\ UNCHANGED <<received, conn, wr, net, replies>>
    BY <1>3, <1>13 DEF FinishOp
  <2>2. /\ req'[r].st = "freed" /\ req'[r].c = req[r].c /\ req'[r].fd = req[r].fd
        /\ DOMAIN req'[r] = {"st", "c", "fd"}
        /\ req' = [q \in Reqs |-> req'[q]]
    BY <1>2, <2>1 DEF OpsShape
  <2>3. \A q \in Reqs : \/ req'[q] = req[q]
                        \/ /\ (\E d \in Conns : <<q, d>> \in R) \/ req[q].st = "exec"
                           /\ req'[q].st \in {"exec", "freed"} /\ req'[q].c = req[q].c /\ req'[q].fd = req[q].fd
                           /\ DOMAIN req'[q] = {"st", "c", "fd"}
    BY <1>4, <1>5, <1>9, <2>2
  <2>4. \A o \in Osds : PeerOk(o)'
    BY <1>10, <1>11, PeersKept
  <2> QED BY <1>6, <1>7, <1>8, <1>10, <2>1, <2>2, <2>3, <2>4, AnswerStep
<1> QED BY <1>12, <1>13

LEMMA ReplyActionOk ==
  ASSUME MsgrInv, NEW r \in Reqs, Reply(r)
  PROVE  MsgrInv'
<1>1. TableShape /\ Holding /\ Phases /\ Writes
  BY DEF MsgrInv, Shape
<1>2. /\ Event /\ req[r].st = "exec" /\ FinishOp(r, req[r].fd)
      /\ UNCHANGED <<rd, sent, clients, peerfd, imm, todo, called, pushed, lost>>
  BY DEF Reply, msgrVars
<1>3. PICK fd \in Fds : fd = req[r].fd
  BY <1>1, <1>2 DEF Writes, Begun
<1>4. Phases' /\ NoDrop /\ SameCancels /\ \A d \in Conns : Parsing(d)' = Parsing(d)
  BY <1>1, <1>2, EventPhases
<1>5. TableShape'
  BY <1>1, <1>2 DEF TableShape
<1>6. \A d \in Conns : ~Somewhere(r, d)
  BY <1>1, <1>2 DEF Holding
<1>7. ASSUME NEW x \in Held1, NEW c \in Conns
      PROVE  One(x, c)' /\ (Somewhere(x, c)' <=> Somewhere(x, c) /\ x # r)
  <2>1. SameHeld(x, c)
    BY <1>2, <1>4 DEF SameHeld, SameCancels
  <2>2. One(x, c)
    BY <1>1 DEF Holding
  <2> QED BY <1>6, <2>1, <2>2, HeldKept
<1> QED BY <1>2, <1>3, <1>4, <1>5, <1>7, FinishOpOk

-----------------------------------------------------------------------------
(* handle_immediate_ops: the first of them leaves the list. *)
LEMMA ImmHeld ==
  ASSUME Holding, TableShape, imm # << >>, imm' = Tail(imm), UNCHANGED <<sent, rd>>,
         \A x, c : ~HasCancel(todo, x, c) /\ ~HasCancel(todo', x, c) /\ OneCancel(todo', x, c),
         NEW e, e = imm[1], NEW y \in Held1, NEW d \in Conns
  PROVE  /\ One(y, d)'
         /\ Somewhere(y, d)' <=> Somewhere(y, d) /\ ~(y = e.x /\ d = e.c)
         /\ y = e.x /\ d = e.c => Somewhere(y, d) /\ ~HasImm(imm', y, d)
<1>1. One(y, d)
  BY DEF Holding
<1>2. IsImm(imm[1], y, d) <=> y = e.x /\ d = e.c
  BY DEF IsImm
<1>3. /\ HasImm(imm, y, d) <=> IsImm(imm[1], y, d) \/ HasImm(imm', y, d)
      /\ OneImm(imm, y, d) => OneImm(imm', y, d) /\ ~(IsImm(imm[1], y, d) /\ HasImm(imm', y, d))
  BY TailImm DEF TableShape
<1> QED BY <1>1, <1>2, <1>3 DEF One, Somewhere

LEMMA ImmPhases ==
  ASSUME TableShape, Phases, Call("imm"), imm # << >>, imm' = Tail(imm), \A d \in Conns : SameConn(d),
         NEW p, PlainCalls(p), todo' = p \o todo, p = << >> \/ \A i \in 1..Len(imm') : imm'[i].x # Conf
  PROVE  /\ Phases' /\ IsList(todo') /\ IsList(imm')
         /\ \A d : Parsing(d) = << >> /\ Parsing(d)' = << >>
         /\ \A x, c : ~HasCancel(todo, x, c) /\ ~HasCancel(todo', x, c) /\ OneCancel(todo', x, c)
<1>1. IsList(todo) /\ IsList(imm) /\ IsList(p) /\ Len(p) \in Nat /\ AnyCalls(p)
  BY DEF TableShape, PlainCalls, AnyCalls, AnyKinds, IsList
<1>2. /\ Len(todo) = 1 /\ Final = todo[1] /\ todo # << >> /\ todo[1].k = "imm"
      /\ \A x, c : ~HasCancel(todo, x, c) /\ OneCancel(todo, x, c)
  BY LastCall, CallHead DEF Lasting
<1>3. GoneStays
  BY DEF GoneStays, SameConn
<1>5. PICK u, t : u = p \o todo /\ t = todo
  OBVIOUS
<1>4. \A i \in 1..Len(t) : CallOk(t[i])' /\ (t[i].k \in Lasting => i = Len(t))
  BY <1>3, <1>5, CallKept DEF Phases
<1>6. /\ IsList(u) /\ Len(u) = Len(p) + Len(todo)
      /\ \A i \in 1..Len(u) : CallOk(u[i])' /\ (u[i].k \in Lasting => i = Len(u))
      /\ u[Len(u)] = todo[1]
  <2>1. u = p \o t /\ IsList(t) /\ t # << >> /\ Len(t) = 1
    BY <1>1, <1>2, <1>5
  <2>2. /\ IsList(u) /\ Len(u) = Len(p) + Len(t)
        /\ \A i \in 1..Len(u) : CallOk(u[i])' /\ (u[i].k \in Lasting => i = Len(u))
        /\ u[Len(u)] = t[Len(t)]
    BY <1>1, <1>4, <2>1, CatCalls
  <2> QED BY <1>5, <2>1, <2>2
<1>7. todo' = u /\ Final' = todo[1] /\ Len(u) \in Nat /\ Len(u) > 0 /\ u # << >>
  <2>1. Len(u) \in Nat /\ Len(u) > 0
    BY <1>1, <1>2, <1>6
  <2> QED BY <1>5, <1>6, <2>1, ListEmpty DEF Final
<1>8. /\ IsList(imm') /\ Len(imm) \in Nat /\ Len(imm) > 0 /\ Len(imm') = Len(imm) - 1
      /\ \A i \in 1..(Len(imm) - 1) : imm'[i] = imm[i + 1]
  BY <1>1, ListTail
<1>9. \A i \in 1..Len(imm') : /\ i + 1 \in 1..Len(imm) /\ imm'[i] = imm[i + 1]
                              /\ 1 \in 1..Len(imm') /\ imm'[1] = imm[2] /\ 2 \in 1..Len(imm)
  BY <1>8
<1>10. \A i \in 1..Len(imm') : ImmOk(imm'[i]) /\ imm'[i].c = imm'[1].c /\ imm'[i].fd = imm'[1].fd
  BY <1>9 DEF Phases
<1>11. ASSUME NEW i \in 1..Len(imm'), imm'[i].x = Conf
       PROVE  Len(todo') = 1 /\ conn'[imm'[i].c].st = "connected" /\ conn'[imm'[i].c].fd = imm'[i].fd
  <2>1. todo' = todo
    BY <1>1, <1>11, EmptyCat
  <2>2. imm'[i].c \in Conns /\ conn[imm'[i].c].st = "connected" /\ conn[imm'[i].c].fd = imm'[i].fd
    BY <1>2, <1>9, <1>10, <1>11 DEF Phases, ImmOk
  <2> QED BY <1>2, <2>1, <2>2 DEF SameConn
<1>13. Phases'
  BY <1>2, <1>6, <1>7, <1>10, <1>11 DEF Phases, Lasting
<1>14. \A d : Parsing(d) = << >> /\ Parsing(d)' = << >>
  <2>1. 1 \in 1..Len(u)
    BY <1>7
  <2>2. u[1].k = "parse" => u[1] = todo[1]
    BY <1>6, <2>1 DEF Lasting
  <2> QED BY <1>2, <1>7, <2>2 DEF Parsing
<1>15. \A x, c : ~HasCancel(todo', x, c) /\ OneCancel(todo', x, c)
  <2>1. \A i \in 1..Len(p) : p[i].k # "cancel"
    BY DEF PlainCalls, PlainKinds
  <2> QED BY <1>1, <1>2, <2>1, CatCancel
<1> QED BY <1>2, <1>6, <1>7, <1>8, <1>13, <1>14, <1>15

LEMMA HandleImmediateOpOk ==
  ASSUME MsgrInv, HandleImmediateOp
  PROVE  MsgrInv'
<1>1. Shape /\ Holding /\ Links /\ Phases /\ Streams /\ Writes
  BY DEF MsgrInv
<1>2. ConnShape /\ TableShape /\ OpsShape /\ IsList(imm) /\ IsList(todo)
  BY <1>1 DEF Shape, TableShape
<1>3. PICK e, x, c, fd, R : e = Head(imm) /\ x = e.x /\ c = e.c /\ fd = e.fd /\ R = {<<x, c>>}
  OBVIOUS
<1>4. /\ Call("imm") /\ imm # << >> /\ imm' = Tail(imm)
      /\ UNCHANGED <<rd, sent, clients, pushed, lost>>
  BY DEF HandleImmediateOp
<1>5. e = imm[1] /\ Len(imm) \in Nat /\ Len(imm) > 0 /\ 1 \in 1..Len(imm)
  BY <1>2, <1>3, <1>4, ListTail
<1>6. /\ Len(todo) = 1 /\ Final = todo[1] /\ todo # << >> /\ todo[1].k = "imm"
  BY <1>1, <1>2, <1>4, LastCall, CallHead DEF Lasting
<1>7. c \in Conns /\ fd \in Fds /\ x \in Outgoing \union Reqs
  BY <1>1, <1>3, <1>5 DEF Phases, ImmOk
<1>8. Somewhere(x, c)
  <2>1. IsImm(imm[1], x, c)
    BY <1>3, <1>5 DEF IsImm
  <2> QED BY <1>5, <2>1 DEF Somewhere, HasImm
<1>9. NoDrop
  BY <1>6, NotDropping
<1>10. ASSUME \A y, d : ~HasCancel(todo, y, d) /\ ~HasCancel(todo', y, d) /\ OneCancel(todo', y, d),
              NEW y \in Held1, NEW d \in Conns
       PROVE  /\ One(y, d)'
              /\ Somewhere(y, d)' <=> Somewhere(y, d) /\ <<y, d>> \notin R
              /\ <<y, d>> \in R => Somewhere(y, d)
  <2>1. <<y, d>> \in R <=> y = e.x /\ d = e.c
    BY <1>3
  <2>2. /\ One(y, d)'
        /\ Somewhere(y, d)' <=> Somewhere(y, d) /\ ~(y = e.x /\ d = e.c)
        /\ y = e.x /\ d = e.c => Somewhere(y, d)
    BY <1>1, <1>2, <1>4, <1>5, <1>10, ImmHeld
  <2> QED BY <2>1, <2>2
<1>11. ASSUME x \in Ops \union {Conf}
       PROVE  \A i \in 1..Len(imm') : imm'[i].x # Conf
  <2> SUFFICES ASSUME NEW i \in 1..Len(imm'), imm'[i].x = Conf PROVE FALSE
    OBVIOUS
  <2>1. Len(imm') = Len(imm) - 1 /\ \A j \in 1..(Len(imm) - 1) : imm'[j] = imm[j + 1]
    BY <1>2, <1>4, ListTail
  <2>2. i + 1 \in 1..Len(imm) /\ imm'[i] = imm[i + 1] /\ i + 1 # 1
    BY <1>5, <2>1
  <2>3. imm[i + 1].x = Conf /\ imm[i + 1].c = c
    BY <1>1, <1>3, <1>5, <2>2 DEF Phases
  <2>4. IsImm(imm[i + 1], Conf, c)
    BY <2>3 DEF IsImm
  <2>5. Somewhere(Conf, c)
    BY <2>2, <2>4 DEF Somewhere, HasImm
  <2>6. CASE x \in Ops
    BY <1>1, <1>7, <1>8, <2>5, <2>6 DEF Holding
  <2>7. CASE x = Conf
    <3>1. OneImm(imm, Conf, c)
      BY <1>1, <1>7, Apart DEF Holding, One
    <3>2. IsImm(imm[1], Conf, c)
      BY <1>3, <1>5, <2>7 DEF IsImm
    <3> QED BY <1>5, <2>2, <2>4, <3>1, <3>2 DEF OneImm
  <2> QED BY <1>11, <2>6, <2>7
<1>12. CASE x \in Outgoing
  <2>1. RunCallback(x, c, fd, e.ok, todo) /\ UNCHANGED <<wr, received, net, req, replies>>
    <3>1. x \notin ConfReqs /\ x \notin Reqs \ ConfReqs
      BY <1>12, Apart, MessengerAssumption
    <3> QED BY <1>3, <3>1 DEF HandleImmediateOp
  <2>2. req' = [r \in Reqs |-> req'[r]] /\ \A r \in Reqs : req'[r] = req[r]
    BY <1>2, <2>1 DEF OpsShape
  <2>3. CASE ~(x = Conf /\ e.ok)
    <3>1. /\ ConnShape' /\ (\A d \in Conns : SameConn(d)) /\ peerfd' = peerfd
          /\ x \in Ops => called' = [called EXCEPT ![x] = @ + 1]
          /\ x \notin Ops => called' = called
          /\ \E p : PlainCalls(p) /\ todo' = p \o todo /\ (x = Ping \/ (x \in Ops /\ e.ok) => p = << >>)
      BY <1>2, <1>7, <1>12, <2>1, <2>3, CallbackFacts
    <3>2. PICK p : PlainCalls(p) /\ todo' = p \o todo /\ (x = Ping \/ (x \in Ops /\ e.ok) => p = << >>)
      BY <3>1
    <3>3. p = << >> \/ \A i \in 1..Len(imm') : imm'[i].x # Conf
      BY <1>11, <1>12, <3>2 DEF Outgoing
    <3>4. /\ Phases' /\ IsList(todo') /\ IsList(imm')
          /\ \A d : Parsing(d) = << >> /\ Parsing(d)' = << >>
          /\ \A y, d : ~HasCancel(todo, y, d) /\ ~HasCancel(todo', y, d) /\ OneCancel(todo', y, d)
      BY <1>1, <1>2, <1>4, <3>1, <3>2, <3>3, ImmPhases
    <3>5. TableShape'
      BY <1>2, <1>4, <3>1, <3>4 DEF TableShape
    <3>6. /\ called' = [op \in Ops |-> called'[op]]
          /\ \A op \in Ops : /\ called'[op] \in {0, 1}
                             /\ Waits(op)' <=> Waits(op) /\ \A d \in Conns : <<op, d>> \notin R
                             /\ Fresh(op)'
      BY <1>1, <1>2, <1>3, <1>4, <1>7, <1>8, <1>12, <3>1, AnsweredOps
    <3>7. \A y \in Held1, d \in Conns : /\ One(y, d)'
                                        /\ Somewhere(y, d)' <=> Somewhere(y, d) /\ <<y, d>> \notin R
                                        /\ <<y, d>> \in R => Somewhere(y, d)
      BY <1>10, <3>4
    <3>8. \A o \in Osds : PeerOk(o)'
      BY <1>4, <3>1, <3>7, PeersKept, Apart
    <3> QED BY <1>4, <1>9, <2>1, <2>2, <3>1, <3>4, <3>5, <3>6, <3>7, <3>8, AnswerStep
  <2>4. CASE x = Conf /\ e.ok
    <3>0. x \notin Ops /\ x # Ping
      BY <2>4, MessengerAssumption
    <3>1. PICK o : o = conn[c].osd
      OBVIOUS
    <3>2. peerfd' = [peerfd EXCEPT ![o] = fd] /\ todo' = <<UserCall>> \o todo /\ UNCHANGED <<called, conn>>
      BY <2>1, <2>4, <3>0, <3>1 DEF RunCallback
    <3>3. PICK a, p : a = UserCall /\ p = <<a>>
      OBVIOUS
    <3>4. PlainCalls(p)
      BY <3>3, PlainLists, PlainOk
    <3>5. ConnShape' /\ \A d \in Conns : SameConn(d)
      BY <1>2, <3>2, SameConns
    <3>6. /\ Phases' /\ IsList(todo') /\ IsList(imm')
          /\ \A d : Parsing(d) = << >> /\ Parsing(d)' = << >>
          /\ \A y, d : ~HasCancel(todo, y, d) /\ ~HasCancel(todo', y, d) /\ OneCancel(todo', y, d)
      BY <1>1, <1>2, <1>4, <1>11, <2>4, <3>2, <3>3, <3>4, <3>5, ImmPhases
    <3>7. TableShape'
      BY <1>2, <1>4, <1>7, <3>2, <3>6 DEF TableShape
    <3>8. /\ called' = [op \in Ops |-> called'[op]]
          /\ \A op \in Ops : /\ called'[op] \in {0, 1}
                             /\ Waits(op)' <=> Waits(op) /\ \A d \in Conns : <<op, d>> \notin R
                             /\ Fresh(op)'
      BY <1>1, <1>2, <1>3, <1>4, <1>7, <1>8, <1>12, <3>0, <3>2, AnsweredOps
    <3>9. \A y \in Held1, d \in Conns : /\ One(y, d)'
                                        /\ Somewhere(y, d)' <=> Somewhere(y, d) /\ <<y, d>> \notin R
                                        /\ <<y, d>> \in R => Somewhere(y, d)
      BY <1>10, <3>6
    <3>10. ASSUME NEW q \in Osds PROVE PeerOk(q)'
      <4>1. CASE q = o
        <5>1. conn[c].st = "connected" /\ conn[c].fd = fd
          BY <1>1, <1>3, <1>5, <1>6, <2>4 DEF Phases
        <5>2. clients[fd] = c
          BY <1>1, <1>7, <5>1 DEF Links, ConnOk, Up
        <5>3. peerfd'[q] = fd /\ clients'[fd] = c /\ conn' = conn
          BY <1>2, <1>4, <3>2, <4>1, <5>2 DEF TableShape
        <5>4. ~Somewhere(Conf, c)'
          BY <1>3, <1>7, <2>4, <3>9, Apart
        <5> QED BY <1>7, <3>1, <4>1, <5>1, <5>3, <5>4 DEF PeerOk
      <4>2. CASE q # o
        <5>1. PeerOk(q)
          BY <1>1 DEF Links
        <5>2. PICK d : d = clients[peerfd[q]]
          OBVIOUS
        <5>3. peerfd'[q] = peerfd[q] /\ clients'[peerfd'[q]] = d /\ conn' = conn
          BY <1>2, <1>4, <3>2, <4>2, <5>2 DEF TableShape
        <5>4. peerfd[q] # None => d \in Conns /\ conn[d].osd = q /\ conn[d].st = "connected" /\ ~Somewhere(Conf, d)
          BY <5>1, <5>2 DEF PeerOk
        <5>5. peerfd[q] # None => ~Somewhere(Conf, d)'
          BY <3>9, <5>4, Apart
        <5> QED BY <5>3, <5>4, <5>5 DEF PeerOk
      <4> QED BY <4>1, <4>2
    <3> QED BY <1>4, <1>9, <2>1, <2>2, <3>5, <3>6, <3>7, <3>8, <3>9, <3>10, AnswerStep
  <2> QED BY <2>3, <2>4
<1>13. CASE x \in Reqs
  <2>0. x \notin Outgoing /\ x \in Held1 /\ x \notin Ops /\ x # Conf
    BY <1>13, Apart
  <2>1. /\ UNCHANGED <<peerfd, called, todo>>
        /\ \/ x \in ConfReqs /\ FinishOp(x, fd)
           \/ x \notin ConfReqs /\ req' = [req EXCEPT ![x].st = "exec"] /\ UNCHANGED <<conn, wr, received, net, replies>>
    BY <1>3, <2>0 DEF HandleImmediateOp
  <2>2. req[x].st = "read" /\ \A d \in Conns : Somewhere(x, d) => d = c
    BY <1>1, <1>7, <1>8, <1>13 DEF Holding
  <2>3. ConnShape' /\ \A d \in Conns : SameConn(d)
    <3>1. CASE conn' = conn
      BY <1>2, <3>1, SameConns
    <3>2. CASE FinishOp(x, fd)
      BY <1>7, <1>13, <2>2, <3>2, FinishConns
    <3> QED BY <2>1, <3>1, <3>2
  <2>4. PlainCalls(<< >>) /\ todo' = << >> \o todo
    BY <1>2, <2>1, EmptyCat, PlainLists
  <2>5. /\ Phases' /\ IsList(todo') /\ IsList(imm')
        /\ \A d : Parsing(d) = << >> /\ Parsing(d)' = << >>
        /\ \A y, d : ~HasCancel(todo, y, d) /\ ~HasCancel(todo', y, d) /\ OneCancel(todo', y, d)
    BY <1>1, <1>2, <1>4, <2>3, <2>4, ImmPhases
  <2>6. TableShape'
    BY <1>2, <1>4, <2>1, <2>5 DEF TableShape
  <2>7. \A y \in Held1, d \in Conns : /\ One(y, d)'
                                      /\ Somewhere(y, d)' <=> Somewhere(y, d) /\ <<y, d>> \notin R
                                      /\ <<y, d>> \in R => Somewhere(y, d)
    BY <1>10, <2>5
  <2>8. CASE FinishOp(x, fd)
    <3>1. \A y \in Held1, d \in Conns : Somewhere(y, d)' <=> Somewhere(y, d) /\ y # x
      BY <1>3, <2>2, <2>7
    <3>2. \A y \in Held1, d \in Conns : One(y, d)'
      BY <2>7
    <3> QED BY <1>4, <1>7, <1>8, <1>9, <1>13, <2>1, <2>2, <2>5, <2>6, <2>8, <3>1, <3>2, FinishOpOk
  <2>9. CASE req' = [req EXCEPT ![x].st = "exec"] /\ UNCHANGED <<conn, wr, received, net, replies>>
    <3>1. /\ req' = [r \in Reqs |-> req'[r]] /\ \A r \in Reqs : r # x => req'[r] = req[r]
          /\ req'[x].st = "exec" /\ req'[x].c = req[x].c /\ req'[x].fd = req[x].fd
          /\ DOMAIN req'[x] = {"st", "c", "fd"}
      BY <1>2, <1>13, <2>9 DEF OpsShape
    <3>2. \A r \in Reqs : \/ req'[r] = req[r]
                          \/ /\ (\E d \in Conns : <<r, d>> \in R) \/ req[r].st = "exec"
                             /\ req'[r].st \in {"exec", "freed"} /\ req'[r].c = req[r].c /\ req'[r].fd = req[r].fd
                             /\ DOMAIN req'[r] = {"st", "c", "fd"}
      <4>1. <<x, c>> \in R
        BY <1>3
      <4> QED BY <1>7, <3>1, <4>1
    <3>3. called' = [op \in Ops |-> called'[op]]
      BY <1>2, <2>1 DEF OpsShape
    <3>4. \A op \in Ops : /\ called'[op] \in {0, 1}
                          /\ Waits(op)' <=> Waits(op) /\ \A d \in Conns : <<op, d>> \notin R
                          /\ Fresh(op)'
      <4>1. \A op \in Ops : called'[op] \in {0, 1} /\ (Waits(op)' <=> Waits(op)) /\ Fresh(op)'
        BY <1>1, <1>4, <2>1 DEF Holding, Waits, Fresh, Lost
      <4>2. \A op \in Ops : \A d \in Conns : <<op, d>> \notin R
        BY <1>3, <2>0
      <4> QED BY <4>1, <4>2
    <3>5. \A o \in Osds : PeerOk(o)'
      BY <1>4, <2>1, <2>3, <2>7, PeersKept, Apart
    <3> QED BY <1>4, <1>9, <2>3, <2>5, <2>6, <2>7, <2>9, <3>1, <3>2, <3>3, <3>4, <3>5, AnswerStep
  <2> QED BY <2>1, <2>8, <2>9
<1> QED BY <1>7, <1>12, <1>13

-----------------------------------------------------------------------------
(* What arrives, and what is read. *)
LEMMA ParsingList ==
  ASSUME TableShape, Phases
  PROVE  \A c : IsList(Parsing(c))
<1> SUFFICES ASSUME NEW c PROVE IsList(Parsing(c))
  OBVIOUS
<1>1. CASE todo # << >> /\ todo[1].k = "parse" /\ todo[1].c = c
  <2>1. 1 \in 1..Len(todo)
    BY <1>1, ListEmpty DEF TableShape, IsList
  <2>2. Len(todo) = 1
    BY <1>1, <2>1 DEF Phases, Lasting
  <2>3. ParseOk(todo[1])
    BY <1>1, <2>2 DEF Phases, Final
  <2> QED BY <1>1, <2>3 DEF ParseOk, Parsing
<1>2. CASE ~(todo # << >> /\ todo[1].k = "parse" /\ todo[1].c = c)
  BY <1>2, ListOne DEF Parsing
<1> QED BY <1>1, <1>2

LEMMA CatReqs ==
  ASSUME NEW s, NEW m, IsList(s), IsList(m), NEW r
  PROVE  HasReq(s \o m, r) => HasReq(s, r) \/ HasReq(m, r)
<1>1. PICK u : u = s \o m
  OBVIOUS
<1>2. /\ Len(s) \in Nat /\ Len(m) \in Nat /\ Len(u) = Len(s) + Len(m)
      /\ \A i \in 1..Len(s) : u[i] = s[i]
      /\ \A i \in 1..Len(m) : u[Len(s) + i] = m[i]
  BY <1>1, ListCat DEF IsList
<1>3. ASSUME NEW i \in 1..Len(u), IsReq(u[i], r)
      PROVE  HasReq(s, r) \/ HasReq(m, r)
  <2>1. CASE i \in 1..Len(s)
    BY <1>2, <1>3, <2>1 DEF HasReq
  <2>2. CASE i \notin 1..Len(s)
    <3>1. i - Len(s) \in 1..Len(m) /\ i = Len(s) + (i - Len(s))
      BY <1>2, <2>2
    <3> QED BY <1>2, <1>3, <3>1 DEF HasReq
  <2> QED BY <2>1, <2>2
<1> QED BY <1>1, <1>3 DEF HasReq

LEMMA StreamAppend ==
  ASSUME NEW s, NEW m, IsList(s), IsList(m), NEW pending, NEW q, NEW q2,
         StreamOk(s, pending, q), StreamOk(m, FALSE, q2),
         \A r \in Reqs : q[r].st = "wire" => q2[r].st = "wire",
         \A r \in Reqs : ~(HasReq(s, r) /\ HasReq(m, r))
  PROVE  StreamOk(s \o m, pending, q2)
<1>1. PICK u : u = s \o m
  OBVIOUS
<1>2. /\ Len(s) \in Nat /\ Len(m) \in Nat /\ Len(u) = Len(s) + Len(m)
      /\ \A i \in 1..Len(s) : u[i] = s[i]
      /\ \A i \in 1..Len(m) : u[Len(s) + i] = m[i]
  BY <1>1, ListCat DEF IsList
<1>3. ASSUME NEW i \in 1..Len(u)
      PROVE  i \in 1..Len(s) \/ (i - Len(s) \in 1..Len(m) /\ u[i] = m[i - Len(s)])
  <2>1. CASE i \in 1..Len(s)
    BY <2>1
  <2>2. CASE i \notin 1..Len(s)
    <3>1. i - Len(s) \in 1..Len(m) /\ i = Len(s) + (i - Len(s))
      BY <1>2, <2>2
    <3> QED BY <1>2, <3>1
  <2> QED BY <2>1, <2>2
<1>4. ASSUME NEW i \in 1..Len(u)
      PROVE  /\ u[i].k = "data" <=> IF i = 1 THEN pending ELSE Wants(u[i - 1])
             /\ u[i].k \in {"data", "bad", "req", "reply"}
             /\ u[i].k = "req" => u[i].x \in Reqs /\ q2[u[i].x].st = "wire"
             /\ u[i].k = "reply" => u[i].x \in Outgoing
  <2>1. CASE i \in 1..Len(s)
    <3>1. u[i] = s[i] /\ (i # 1 => i - 1 \in 1..Len(s) /\ u[i - 1] = s[i - 1])
      BY <1>2, <2>1
    <3>2. /\ s[i].k = "data" <=> IF i = 1 THEN pending ELSE Wants(s[i - 1])
          /\ s[i].k \in {"data", "bad", "req", "reply"}
          /\ s[i].k = "req" => s[i].x \in Reqs /\ q[s[i].x].st = "wire"
          /\ s[i].k = "reply" => s[i].x \in Outgoing
      BY <2>1 DEF StreamOk
    <3> QED BY <3>1, <3>2
  <2>2. CASE i \notin 1..Len(s)
    <3>1. PICK j \in 1..Len(m) : j = i - Len(s) /\ u[i] = m[j]
      BY <1>3, <2>2
    <3>2. /\ m[j].k = "data" <=> IF j = 1 THEN FALSE ELSE Wants(m[j - 1])
          /\ m[j].k \in {"data", "bad", "req", "reply"}
          /\ m[j].k = "req" => m[j].x \in Reqs /\ q2[m[j].x].st = "wire"
          /\ m[j].k = "reply" => m[j].x \in Outgoing
      BY DEF StreamOk
    <3>3. CASE j # 1
      <4>1. j - 1 \in 1..Len(m) /\ i - 1 = Len(s) + (j - 1) /\ i # 1
        BY <1>2, <3>1, <3>3
      <4>2. u[i - 1] = m[j - 1]
        BY <1>2, <4>1
      <4> QED BY <3>1, <3>2, <3>3, <4>1, <4>2
    <3>4. CASE j = 1
      <4>1. i - 1 = Len(s)
        BY <1>2, <3>1, <3>4
      <4>2. CASE Len(s) = 0
        <5>1. ~pending /\ i = 1
          BY <4>1, <4>2 DEF StreamOk
        <5> QED BY <3>1, <3>2, <3>4, <5>1
      <4>3. CASE Len(s) # 0
        <5>1. ~Wants(s[Len(s)]) /\ i # 1 /\ u[i - 1] = s[Len(s)]
          BY <1>2, <4>1, <4>3 DEF StreamOk
        <5> QED BY <3>1, <3>2, <3>4, <5>1
      <4> QED BY <4>2, <4>3
    <3> QED BY <3>3, <3>4
  <2> QED BY <2>1, <2>2
<1>5. ASSUME NEW r \in Reqs, NEW i \in 1..Len(u), NEW j \in 1..Len(u), IsReq(u[i], r), IsReq(u[j], r)
      PROVE  i = j
  <2>1. CASE i \in 1..Len(s) /\ j \in 1..Len(s)
    BY <1>2, <1>5, <2>1 DEF StreamOk
  <2>2. CASE i \notin 1..Len(s) /\ j \notin 1..Len(s)
    <3>1. i - Len(s) = j - Len(s)
      BY <1>3, <1>5, <2>2 DEF StreamOk
    <3> QED BY <1>2, <3>1
  <2>3. CASE i \in 1..Len(s) /\ j \notin 1..Len(s)
    BY <1>2, <1>3, <1>5, <2>3 DEF HasReq
  <2>4. CASE i \notin 1..Len(s) /\ j \in 1..Len(s)
    BY <1>2, <1>3, <1>5, <2>4 DEF HasReq
  <2> QED BY <2>1, <2>2, <2>3, <2>4
<1>6. IF Len(u) = 0 THEN ~pending ELSE ~Wants(u[Len(u)])
  <2>1. CASE Len(m) = 0
    <3>1. Len(u) = Len(s) /\ (Len(s) # 0 => u[Len(u)] = s[Len(s)])
      BY <1>2, <2>1
    <3> QED BY <3>1 DEF StreamOk
  <2>2. CASE Len(m) # 0
    <3>1. Len(u) # 0 /\ u[Len(u)] = m[Len(m)]
      BY <1>2, <2>2
    <3> QED BY <2>2, <3>1 DEF StreamOk
  <2> QED BY <2>1, <2>2
<1>7. StreamOk(u, pending, q2)
  BY <1>4, <1>5, <1>6 DEF StreamOk
<1> QED BY <1>1, <1>7

LEMMA MessageOk ==
  ASSUME NEW k, NEW x, NEW ok, NEW q, (k = "reply" /\ x \in Outgoing) \/ (k = "req" /\ x \in Reqs /\ q[x].st = "wire")
  PROVE  /\ IsList(Message(k, x, ok)) /\ StreamOk(Message(k, x, ok), FALSE, q)
         /\ \A r : HasReq(Message(k, x, ok), r) => k = "req" /\ r = x
<1>1. PICK h, d, m : h = Header(k, x, ok) /\ d = Data /\ m = Message(k, x, ok)
  OBVIOUS
<1>2. h.k = k /\ h.x = x /\ d.k = "data" /\ m = IF x \in GetsData THEN <<h, d>> ELSE <<h>>
  BY <1>1 DEF Header, Data, Message
<1>3. CASE x \in GetsData
  <2>1. IsList(m) /\ Len(m) = 2 /\ m[1] = h /\ m[2] = d
    BY <1>2, <1>3, ListOne
  <2>2. \A i \in 1..Len(m) : i = 1 \/ i = 2
    BY <2>1
  <2>3. \A r : HasReq(m, r) => k = "req" /\ r = x
    BY <1>2, <2>1, <2>2 DEF HasReq, IsReq
  <2>4. StreamOk(m, FALSE, q)
    BY <1>2, <1>3, <2>1, <2>2 DEF StreamOk, Wants, IsReq
  <2> QED BY <1>1, <2>1, <2>3, <2>4
<1>4. CASE x \notin GetsData
  <2>1. IsList(m) /\ Len(m) = 1 /\ m[1] = h
    BY <1>2, <1>4, ListOne
  <2>2. \A i \in 1..Len(m) : i = 1
    BY <2>1
  <2>3. \A r : HasReq(m, r) => k = "req" /\ r = x
    BY <1>2, <2>1, <2>2 DEF HasReq, IsReq
  <2>4. StreamOk(m, FALSE, q)
    BY <1>2, <1>4, <2>1, <2>2 DEF StreamOk, Wants, IsReq
  <2> QED BY <1>1, <2>1, <2>3, <2>4
<1> QED BY <1>3, <1>4

(* A peer sends m, or something happens to it. *)
LEMMA NetStep ==
  ASSUME MsgrInv, NetShape', NEW c \in Conns, conn[c].st = "connected", NEW m, IsList(m),
         StreamOk(m, FALSE, req'), \A r \in Reqs : HasReq(m, r) => req[r].st = "new",
         \A d \in Conns : d # c => net'[d] = net[d],
         net'[c].in = net[c].in \o m,
         OpsShape', \A r \in Reqs : req'[r] = req[r] \/ (req[r].st = "new" /\ req'[r].st = "wire"),
         UNCHANGED <<conn, rd, wr, sent, received, clients, peerfd, imm, todo, called, pushed, lost, replies>>
  PROVE  MsgrInv'
<1>1. Shape /\ Holding /\ Links /\ Phases /\ Streams /\ Writes
  BY DEF MsgrInv
<1>2. ConnShape /\ TableShape /\ OpsShape /\ WriteShape /\ NetShape /\ ReadShape
  BY <1>1 DEF Shape
<1>3. Shape'
  <2>1. ReadShape' /\ WriteShape' /\ ConnShape' /\ TableShape'
    BY <1>2 DEF ReadShape, WriteShape, ConnShape, TableShape
  <2> QED BY <2>1 DEF Shape
<1>4. Holding' /\ \A x \in Held1, d \in Conns : Somewhere(x, d)' <=> Somewhere(x, d)
  <2>1. \A x \in Held1, d \in Conns : SameHeld(x, d)
    BY DEF SameHeld
  <2> QED BY <1>1, <2>1, HoldingKept
<1>5. Phases'
  BY <1>1 DEF Phases, CallOk, ParseOk, Final
<1>6. Links'
  <2>1. \A d \in Conns : conn[d].st \in {"new", "connecting", "deleted"} => Empty(d)'
    BY <1>1 DEF Links, Quiet, Empty
  <2>2. \A d \in Conns : conn[d].st = "stopped" => ~wr'[d].q
    BY <1>1 DEF Links, Quiet
  <2>3. \A d \in Conns : SameConn(d)
    BY DEF SameConn
  <2> QED BY <1>1, <1>2, <1>4, <2>1, <2>2, <2>3, LinksKept, Apart
<1>7. Streams'
  <2>1. \A d \in Conns : Reads(d)' <=> Reads(d)
    BY DEF Reads, Dropping
  <2>2. \A d \in Conns : d # c => Stream(d)' = Stream(d)
    BY DEF Stream, Parsing
  <2>3. Stream(c)' = Stream(c) \o m
    <3>1. PICK a, b, e : a = Parsing(c) /\ b = rd[c].got /\ e = net[c].in
      OBVIOUS
    <3>2. IsList(a) /\ IsList(b) /\ IsList(e) /\ IsList(b \o e) /\ Parsing(c)' = a
      BY <1>1, <1>2, <3>1, ParsingList, ListCat DEF ReadShape, NetShape, Parsing
    <3>3. b \o (e \o m) = (b \o e) \o m
      BY <3>2, CatAssoc
    <3>4. a \o ((b \o e) \o m) = (a \o (b \o e)) \o m
      BY <3>2, CatAssoc
    <3> QED BY <3>1, <3>2, <3>3, <3>4 DEF Stream
  <2>4. \A r \in Reqs : req[r].st = "wire" => req'[r].st = "wire"
    OBVIOUS
  <2>5. IsList(Stream(c))
    <3>1. PICK a, b, e : a = Parsing(c) /\ b = rd[c].got /\ e = net[c].in
      OBVIOUS
    <3>2. IsList(a) /\ IsList(b) /\ IsList(e) /\ IsList(b \o e)
      BY <1>1, <1>2, <3>1, ParsingList, ListCat DEF ReadShape, NetShape
    <3> QED BY <3>1, <3>2, ListCat DEF Stream
  <2>6. ASSUME NEW d \in Conns, Reads(d), NEW r \in Reqs, HasReq(Stream(d), r)
        PROVE  ~HasReq(m, r)
    <3>1. PICK s : s = Stream(d)
      OBVIOUS
    <3>2. StreamOk(s, rd[d].op.x # None, req) /\ HasReq(s, r)
      BY <1>1, <2>6, <3>1 DEF Streams, ReadOk
    <3>3. req[r].st = "wire"
      BY <3>2 DEF StreamOk, HasReq, IsReq
    <3> QED BY <3>3
  <2>7. ASSUME Reads(c)
        PROVE  /\ StreamOk(Stream(c)', rd[c].op.x # None, req')
               /\ \A r \in Reqs : HasReq(Stream(c)', r) => HasReq(Stream(c), r) \/ HasReq(m, r)
    <3>1. PICK s, p, q, q2 : s = Stream(c) /\ p = (rd[c].op.x # None) /\ q = req /\ q2 = req'
      OBVIOUS
    <3>2. StreamOk(s, p, q) /\ IsList(s) /\ \A r \in Reqs : ~(HasReq(s, r) /\ HasReq(m, r))
      BY <1>1, <2>5, <2>6, <2>7, <3>1 DEF Streams, ReadOk
    <3>3. \A r \in Reqs : q[r].st = "wire" => q2[r].st = "wire"
      BY <2>4, <3>1
    <3>4. StreamOk(m, FALSE, q2)
      BY <3>1
    <3>5. StreamOk(s \o m, p, q2)
      BY <3>2, <3>3, <3>4, StreamAppend
    <3>6. \A r \in Reqs : HasReq(s \o m, r) => HasReq(s, r) \/ HasReq(m, r)
      BY <3>2, CatReqs
    <3> QED BY <2>3, <3>1, <3>5, <3>6
  <2>8. ASSUME NEW d \in Conns, Reads(d)'
        PROVE  ReadOk(d)'
    <3>1. ReadOk(d) /\ rd' = rd
      BY <1>1, <2>1, <2>8 DEF Streams
    <3>2. CASE d = c
      BY <2>1, <2>7, <2>8, <3>1, <3>2 DEF ReadOk
    <3>3. CASE d # c
      <4>1. PICK s : s = Stream(d)
        OBVIOUS
      <4>2. StreamOk(s, rd[d].op.x # None, req) /\ Stream(d)' = s
        BY <2>2, <3>1, <3>3, <4>1 DEF ReadOk
      <4>3. StreamOk(s, rd[d].op.x # None, req')
        BY <2>4, <4>2 DEF StreamOk
      <4> QED BY <3>1, <4>2, <4>3 DEF ReadOk
    <3> QED BY <3>2, <3>3
  <2>9. ASSUME NEW d \in Conns, NEW f \in Conns, NEW r \in Reqs,
               Reads(d)', Reads(f)', HasReq(Stream(d), r)', HasReq(Stream(f), r)'
        PROVE  d = f
    <3>1. \A e \in Conns : Reads(e)' /\ HasReq(Stream(e), r)' => Reads(e) /\ (HasReq(Stream(e), r) \/ (e = c /\ HasReq(m, r)))
      <4> SUFFICES ASSUME NEW e \in Conns, Reads(e)', HasReq(Stream(e), r)'
                   PROVE  Reads(e) /\ (HasReq(Stream(e), r) \/ (e = c /\ HasReq(m, r)))
        OBVIOUS
      <4>1. PICK s : s = Stream(e)'
        OBVIOUS
      <4>2. HasReq(s, r)
        BY <4>1 DEF HasReq
      <4> QED BY <2>1, <2>2, <2>7, <4>1, <4>2
    <3> QED BY <1>1, <2>6, <2>9, <3>1 DEF Streams
  <2> QED BY <2>8, <2>9 DEF Streams
<1>8. Writes'
  <2>1. \A d \in Conns : conn'[d].st = "connected" => conn[d].st = "connected" /\ SameWrite(wr[d], wr'[d])
    BY DEF SameWrite
  <2>2. /\ \A r \in Reqs : Begun(r) => req'[r].c = req[r].c /\ Begun(r)'
        /\ \A r \in Reqs : Begun(r)' => Begun(r) /\ req'[r].fd = req[r].fd
        /\ \A r \in Reqs : req[r].st = "reply" => req'[r] = req[r]
        /\ \A r \in Reqs : req[r].st = "freed" => req'[r].st = "freed"
    BY DEF Begun
  <2> QED BY <1>1, <1>2, <2>1, <2>2, WritesKept
<1> QED BY <1>3, <1>4, <1>5, <1>6, <1>7, <1>8 DEF MsgrInv

LEMMA CatNothing ==
  ASSUME NEW s, IsList(s)
  PROVE  s \o << >> = s
<1>1. PICK e : e = << >> /\ IsList(e) /\ Len(e) = 0
  BY ListOne
<1>2. Len(s) \in Nat /\ IsList(s \o e) /\ Len(s \o e) = Len(s) /\ \A i \in 1..Len(s) : (s \o e)[i] = s[i]
  BY <1>1, ListCat DEF IsList
<1> QED BY <1>1, <1>2, ListSame

LEMMA PeerAnswersOk ==
  ASSUME MsgrInv, NEW c \in Conns, NEW x \in Outgoing, PeerAnswers(c, x)
  PROVE  MsgrInv'
<1>1. NetShape /\ OpsShape
  BY DEF MsgrInv, Shape
<1>2. PICK ok : net' = [Arrives(c, Message("reply", x, ok)) EXCEPT ![c].out = @ \ {x}]
  BY DEF PeerAnswers
<1>3. /\ conn[c].st = "connected"
      /\ UNCHANGED <<conn, rd, wr, sent, received, clients, peerfd, imm, todo, called, pushed, lost, req, replies>>
  BY DEF PeerAnswers, Live, msgrVars
<1>4. PICK m, q : m = Message("reply", x, ok) /\ q = req
  OBVIOUS
<1>5. IsList(m) /\ StreamOk(m, FALSE, q) /\ \A r : ~HasReq(m, r)
  BY <1>4, MessageOk
<1>6. net' = [[net EXCEPT ![c].in = @ \o m, ![c].edge = TRUE] EXCEPT ![c].out = @ \ {x}]
  BY <1>2, <1>4 DEF Arrives
<1>7. IsList(net[c].in) /\ IsList(net[c].in \o m)
  BY <1>1, <1>5, ListCat DEF NetShape
<1>8. NetShape' /\ net'[c].in = net[c].in \o m /\ \A d \in Conns : d # c => net'[d] = net[d]
  BY <1>1, <1>6, <1>7 DEF NetShape
<1>9. OpsShape'
  BY <1>1, <1>3 DEF OpsShape
<1> QED BY <1>3, <1>4, <1>5, <1>8, <1>9, NetStep

LEMMA PeerRequestOk ==
  ASSUME MsgrInv, NEW c \in Conns, NEW r \in Reqs, PeerRequest(c, r)
  PROVE  MsgrInv'
<1>1. NetShape /\ OpsShape
  BY DEF MsgrInv, Shape
<1>2. /\ conn[c].st = "connected" /\ req[r].st = "new" /\ req' = [req EXCEPT ![r].st = "wire"]
      /\ net' = Arrives(c, Message("req", r, TRUE))
      /\ UNCHANGED <<conn, rd, wr, sent, received, clients, peerfd, imm, todo, called, pushed, lost, replies>>
  BY DEF PeerRequest, Live, msgrVars
<1>3. OpsShape' /\ req'[r].st = "wire" /\ \A p \in Reqs : p # r => req'[p] = req[p]
  BY <1>1, <1>2 DEF OpsShape
<1>4. PICK m, q : m = Message("req", r, TRUE) /\ q = req'
  OBVIOUS
<1>5. IsList(m) /\ StreamOk(m, FALSE, q) /\ \A p : HasReq(m, p) => p = r
  BY <1>3, <1>4, MessageOk
<1>6. net' = [net EXCEPT ![c].in = @ \o m, ![c].edge = TRUE]
  BY <1>2, <1>4 DEF Arrives
<1>7. IsList(net[c].in) /\ IsList(net[c].in \o m)
  BY <1>1, <1>5, ListCat DEF NetShape
<1>8. NetShape' /\ net'[c].in = net[c].in \o m /\ \A d \in Conns : d # c => net'[d] = net[d]
  BY <1>1, <1>6, <1>7 DEF NetShape
<1>9. /\ StreamOk(m, FALSE, req') /\ \A p \in Reqs : HasReq(m, p) => req[p].st = "new"
      /\ \A p \in Reqs : req'[p] = req[p] \/ (req[p].st = "new" /\ req'[p].st = "wire")
  BY <1>2, <1>3, <1>4, <1>5
<1> QED BY <1>2, <1>3, <1>5, <1>8, <1>9, NetStep

LEMMA PeerBreaksOk ==
  ASSUME MsgrInv, NEW c \in Conns, PeerBreaks(c)
  PROVE  MsgrInv'
<1>1. NetShape /\ OpsShape
  BY DEF MsgrInv, Shape
<1>2. /\ conn[c].st = "connected"
      /\ UNCHANGED <<conn, rd, wr, sent, received, clients, peerfd, imm, todo, called, pushed, lost, req, replies>>
  BY DEF PeerBreaks, Live, msgrVars
<1>3. OpsShape'
  BY <1>1, <1>2 DEF OpsShape
<1>4. PICK h, q : h = Header("bad", None, FALSE) /\ q = req
  OBVIOUS
<1>5. CASE net' = Arrives(c, <<h>>)
  <2>1. PICK m : m = <<h>>
    OBVIOUS
  <2>2. IsList(m) /\ Len(m) = 1 /\ m[1] = h /\ h.k = "bad"
    BY <1>4, <2>1, ListOne DEF Header
  <2>3. \A i \in 1..Len(m) : i = 1
    BY <2>2
  <2>4. StreamOk(m, FALSE, q) /\ \A r : ~HasReq(m, r)
    BY <2>2, <2>3 DEF StreamOk, HasReq, IsReq, Wants
  <2>5. net' = [net EXCEPT ![c].in = @ \o m, ![c].edge = TRUE]
    BY <1>5, <2>1 DEF Arrives
  <2>6. IsList(net[c].in) /\ IsList(net[c].in \o m)
    BY <1>1, <2>2, ListCat DEF NetShape
  <2>7. NetShape' /\ net'[c].in = net[c].in \o m /\ \A d \in Conns : d # c => net'[d] = net[d]
    BY <1>1, <2>5, <2>6 DEF NetShape
  <2> QED BY <1>2, <1>3, <1>4, <2>2, <2>4, <2>7, NetStep
<1>6. CASE net' = [net EXCEPT ![c].peer = "silent"] \/ net' = [net EXCEPT ![c].peer = "closed", ![c].edge = TRUE]
  <2>1. PICK m : m = << >> /\ IsList(m) /\ Len(m) = 0
    BY ListOne
  <2>2. StreamOk(m, FALSE, q) /\ \A r : ~HasReq(m, r)
    BY <2>1 DEF StreamOk, HasReq
  <2>3. NetShape' /\ net'[c].in = net[c].in /\ \A d \in Conns : d # c => net'[d] = net[d]
    BY <1>1, <1>6 DEF NetShape
  <2>4. net[c].in \o m = net[c].in
    BY <1>1, <2>1, CatNothing DEF NetShape
  <2> QED BY <1>2, <1>3, <1>4, <2>1, <2>2, <2>3, <2>4, NetStep
<1> QED BY <1>4, <1>5, <1>6 DEF PeerBreaks

(* A step of the reads of connection c that keeps what is still to be parsed. *)
LEMMA ReadStep ==
  ASSUME MsgrInv, Phases', ConnShape', ReadShape', NetShape', IsList(todo'), SameCancels, NoDrop,
         \A d \in Conns : SameConn(d),
         NEW c \in Conns, conn[c].st \in {"connected", "stopped"},
         \A d \in Conns : d # c => rd'[d] = rd[d] /\ net'[d] = net[d],
         rd'[c].op = rd[c].op,
         \A d \in Conns : Reads(d)' => Stream(d)' = Stream(d),
         conn[c].st = "connected" =>
           (~rd'[c].busy => rd'[c].got = << >>) /\ (rd'[c].eof => rd'[c].got = << >>),
         UNCHANGED <<wr, sent, received, clients, peerfd, imm, called, pushed, lost, req, replies>>
  PROVE  MsgrInv'
<1>1. Shape /\ Holding /\ Links /\ Phases /\ Streams /\ Writes
  BY DEF MsgrInv
<1>2. TableShape /\ OpsShape /\ WriteShape
  BY <1>1 DEF Shape
<1>3. Shape'
  BY <1>2 DEF Shape, TableShape, OpsShape, WriteShape
<1>4. Holding' /\ \A x \in Held1, d \in Conns : Somewhere(x, d)' <=> Somewhere(x, d)
  <2>1. \A d \in Conns : rd'[d].op = rd[d].op
    OBVIOUS
  <2> QED BY <1>1, <2>1, StillHeld, HoldingKept
<1>5. Links'
  <2>1. \A d \in Conns : conn[d].st \in {"new", "connecting", "deleted"} => Empty(d)'
    BY <1>1 DEF Links, Quiet, Empty
  <2>2. \A d \in Conns : conn[d].st = "stopped" => ~wr'[d].q
    BY <1>1 DEF Links, Quiet
  <2> QED BY <1>1, <1>2, <1>4, <2>1, <2>2, LinksKept, Apart
<1>6. Streams'
  <2>1. \A d \in Conns : Reads(d)' => Reads(d)
    BY DEF Reads, NoDrop, SameConn
  <2>2. \A d \in Conns : Reads(d)' => SameStream(d)
    BY <2>1 DEF SameStream
  <2>3. \A d \in Conns : Reads(d)' => (~rd'[d].busy => rd'[d].got = << >>) /\ (rd'[d].eof => rd'[d].got = << >>)
    <3> SUFFICES ASSUME NEW d \in Conns, Reads(d)'
                 PROVE  (~rd'[d].busy => rd'[d].got = << >>) /\ (rd'[d].eof => rd'[d].got = << >>)
      OBVIOUS
    <3>1. Reads(d) /\ conn[d].st = "connected"
      BY <2>1 DEF Reads
    <3>2. CASE d = c
      BY <3>1, <3>2
    <3>3. CASE d # c
      BY <1>1, <3>1, <3>3 DEF Streams, ReadOk
    <3> QED BY <3>2, <3>3
  <2> QED BY <1>1, <2>2, <2>3, StreamsKept
<1>7. Writes'
  <2>1. \A d \in Conns : conn'[d].st = "connected" => conn[d].st = "connected" /\ SameWrite(wr[d], wr'[d])
    BY DEF SameConn, SameWrite
  <2> QED BY <1>1, <1>2, <2>1, WritesKept DEF Begun
<1> QED BY <1>3, <1>4, <1>5, <1>6, <1>7 DEF MsgrInv

LEMMA PeerInOk ==
  ASSUME MsgrInv, NEW c \in Conns, PeerIn(c)
  PROVE  MsgrInv'
<1>1. Shape /\ Phases /\ Streams
  BY DEF MsgrInv
<1>2. ConnShape /\ TableShape /\ NetShape /\ ReadShape
  BY <1>1 DEF Shape
<1>3. /\ Event /\ conn[c].st = "connected"
      /\ net' = [net EXCEPT ![c].edge = FALSE]
      /\ rd' = [rd EXCEPT ![c].ready = @ + 1, ![c].q = @ \/ rd[c].ready = 0]
      /\ UNCHANGED <<conn, wr, sent, received, clients, peerfd, imm, todo, called, pushed, lost, req, replies>>
  BY DEF PeerIn, msgrVars, histVars
<1>4. /\ ReadShape' /\ rd'[c].op = rd[c].op /\ rd'[c].got = rd[c].got /\ rd'[c].busy = rd[c].busy /\ rd'[c].eof = rd[c].eof
      /\ \A d \in Conns : d # c => rd'[d] = rd[d]
  BY <1>2, <1>3 DEF ReadShape
<1>5. NetShape' /\ net'[c].in = net[c].in /\ \A d \in Conns : d # c => net'[d] = net[d]
  BY <1>2, <1>3 DEF NetShape
<1>6. Phases' /\ NoDrop /\ SameCancels /\ \A d : Parsing(d)' = Parsing(d)
  BY <1>1, <1>2, <1>3, EventPhases
<1>7. ConnShape' /\ \A d \in Conns : SameConn(d)
  BY <1>2, <1>3, SameConns
<1>8. Reads(c)
  BY <1>3, <1>6 DEF Reads, NoDrop
<1>9. (~rd[c].busy => rd[c].got = << >>) /\ (rd[c].eof => rd[c].got = << >>)
  BY <1>1, <1>8 DEF Streams, ReadOk
<1>10. \A d \in Conns : Stream(d)' = Stream(d)
  BY <1>4, <1>5, <1>6 DEF Stream
<1>11. IsList(todo')
  BY <1>2, <1>3 DEF TableShape
<1> QED BY <1>3, <1>4, <1>5, <1>6, <1>7, <1>9, <1>10, <1>11, ReadStep

LEMMA SplitList ==
  ASSUME NEW s, IsList(s), NEW n \in 0..Len(s)
  PROVE  /\ SubSeq(s, 1, n) \o SubSeq(s, n + 1, Len(s)) = s
         /\ IsList(SubSeq(s, 1, n)) /\ IsList(SubSeq(s, n + 1, Len(s))) /\ Len(SubSeq(s, 1, n)) = n
<1>1. PICK a, b, l : a = SubSeq(s, 1, n) /\ b = SubSeq(s, n + 1, l) /\ l = Len(s)
  OBVIOUS
<1>2. l \in Nat /\ n \in Nat /\ n <= l
  BY <1>1 DEF IsList
<1>3. IsList(a) /\ Len(a) = n /\ \A i \in 1..n : a[i] = s[i]
  <2>1. 1 \in 1..(l + 1) /\ n \in 0..l /\ 1 <= n + 1 /\ n - 1 + 1 = n
    BY <1>2
  <2>2. IsList(a) /\ Len(a) = n - 1 + 1 /\ \A i \in 1..(n - 1 + 1) : a[i] = s[1 + i - 1]
    BY <1>1, <2>1, ListSub
  <2>3. \A i \in 1..n : 1 + i - 1 = i
    BY <1>2
  <2> QED BY <2>1, <2>2, <2>3
<1>4. IsList(b) /\ Len(b) = l - n /\ \A i \in 1..(l - n) : b[i] = s[n + i]
  <2>1. n + 1 \in 1..(l + 1) /\ l \in 0..l /\ n + 1 <= l + 1 /\ l - (n + 1) + 1 = l - n
    BY <1>2
  <2>2. IsList(b) /\ Len(b) = l - (n + 1) + 1 /\ \A i \in 1..(l - (n + 1) + 1) : b[i] = s[(n + 1) + i - 1]
    BY <1>1, <2>1, ListSub
  <2>3. \A i \in 1..(l - n) : (n + 1) + i - 1 = n + i
    BY <1>2
  <2> QED BY <2>1, <2>2, <2>3
<1>5. /\ IsList(a \o b) /\ Len(a \o b) = Len(a) + Len(b)
      /\ \A i \in 1..Len(a) : (a \o b)[i] = a[i]
      /\ \A i \in 1..Len(b) : (a \o b)[Len(a) + i] = b[i]
  <2>1. IsList(a) /\ IsList(b)
    BY <1>3, <1>4
  <2> QED BY <2>1, ListCat
<1>6. ASSUME NEW i \in 1..l PROVE (a \o b)[i] = s[i]
  <2>1. CASE i \in 1..n
    BY <1>3, <1>5, <2>1
  <2>2. CASE i \notin 1..n
    <3>1. i - n \in 1..(l - n) /\ i = n + (i - n)
      BY <1>2, <2>2
    <3> QED BY <1>3, <1>4, <1>5, <3>1
  <2> QED BY <2>1, <2>2
<1>7. a \o b = s
  <2>1. Len(a \o b) = l
    BY <1>2, <1>3, <1>4, <1>5
  <2> QED BY <1>1, <1>5, <1>6, <2>1, ListSame
<1> QED BY <1>1, <1>3, <1>4, <1>7

LEMMA ReadRequestsOk ==
  ASSUME MsgrInv, NEW c \in Conns, ReadRequests(c)
  PROVE  MsgrInv'
<1>1. Shape /\ Phases /\ Streams /\ Links
  BY DEF MsgrInv
<1>2. ConnShape /\ TableShape /\ NetShape /\ ReadShape
  BY <1>1 DEF Shape
<1>3. /\ Event /\ rd[c].q /\ ~rd[c].busy
      /\ conn' = [conn EXCEPT ![c].refs = @ + 1]
      /\ UNCHANGED <<wr, sent, received, clients, peerfd, imm, todo, called, pushed, lost, req, replies>>
  BY DEF ReadRequests, msgrVars
<1>4. conn[c].st \in {"connected", "stopped"}
  <2>1. ConnOk(c) /\ Quiet(c)
    BY <1>1 DEF Links
  <2> QED BY <1>3, <2>1 DEF ConnOk, ConnStates, Quiet, Empty, NewRead
<1>5. ConnShape' /\ \A d \in Conns : SameConn(d)
  BY <1>2, <1>3 DEF ConnShape, SameConn
<1>6. Phases' /\ NoDrop /\ SameCancels /\ \A d : Parsing(d)' = Parsing(d) /\ Parsing(d) = << >>
  BY <1>1, <1>2, <1>3, EventPhases
<1>7. IsList(todo')
  BY <1>2, <1>3 DEF TableShape
<1>8. conn[c].st = "connected" => (rd[c].got = << >>) /\ (~rd[c].busy => rd[c].got = << >>) /\ (rd[c].eof => rd[c].got = << >>)
  BY <1>1, <1>3, <1>6 DEF Streams, ReadOk, Reads, NoDrop
<1>9. PICK n, s, a, b :
        /\ n = Least2(Limit(c), Len(net[c].in)) /\ s = net[c].in
        /\ a = SubSeq(s, 1, n) /\ b = SubSeq(s, n + 1, Len(s))
  OBVIOUS
<1>10. CASE /\ rd' = [rd EXCEPT ![c].q = FALSE, ![c].busy = TRUE, ![c].full = n = Limit(c),
                          ![c].got = a, ![c].eof = s = << >> /\ net[c].peer = "closed"]
            /\ net' = [net EXCEPT ![c].in = b]
  <2>1. IsList(s) /\ Len(s) \in Nat /\ n \in 0..Len(s)
    <3>1. IsList(s) /\ Len(s) \in Nat /\ Limit(c) \in Nat
      BY <1>2, <1>9, MessengerAssumption DEF NetShape, IsList, Limit
    <3> QED BY <1>9, <3>1 DEF Least2
  <2>2. a \o b = s /\ IsList(a) /\ IsList(b) /\ Len(a) = n
    BY <1>9, <2>1, SplitList
  <2>3. /\ ReadShape' /\ rd'[c].op = rd[c].op /\ rd'[c].got = a /\ rd'[c].busy
        /\ (rd'[c].eof => s = << >>)
        /\ \A d \in Conns : d # c => rd'[d] = rd[d]
    BY <1>2, <1>10, <2>2 DEF ReadShape
  <2>4. NetShape' /\ net'[c].in = b /\ \A d \in Conns : d # c => net'[d] = net[d]
    BY <1>2, <1>10, <2>2 DEF NetShape
  <2>5. rd'[c].eof => rd'[c].got = << >>
    <3>1. s = << >> => Len(s) = 0
      BY ListOne
    <3>2. s = << >> => Len(a) = 0
      BY <2>1, <2>2, <3>1
    <3> QED BY <2>2, <2>3, <3>2, ListEmpty
  <2>6. ASSUME NEW d \in Conns, Reads(d)' PROVE Stream(d)' = Stream(d)
    <3>1. CASE d = c
      <4>1. rd[c].got = << >>
        BY <1>5, <1>8, <2>6, <3>1 DEF Reads, SameConn
      <4>2. << >> \o s = s
        BY <2>1, EmptyCat
      <4> QED BY <1>6, <1>9, <2>2, <2>3, <2>4, <3>1, <4>1, <4>2 DEF Stream
    <3>2. CASE d # c
      BY <1>6, <2>3, <2>4, <3>2 DEF Stream
    <3> QED BY <3>1, <3>2
  <2> QED BY <1>3, <1>4, <1>5, <1>6, <1>7, <2>3, <2>4, <2>5, <2>6, ReadStep
<1>11. CASE UNCHANGED <<rd, net>>
  <2>1. ReadShape' /\ NetShape'
    BY <1>2, <1>11 DEF ReadShape, NetShape
  <2>2. \A d \in Conns : Stream(d)' = Stream(d)
    BY <1>6, <1>11 DEF Stream
  <2> QED BY <1>3, <1>4, <1>5, <1>6, <1>7, <1>8, <1>11, <2>1, <2>2, ReadStep
<1> QED BY <1>9, <1>10, <1>11 DEF ReadRequests

(* handle_read *)
LEMMA HandleReadOk ==
  ASSUME MsgrInv, NEW c \in Conns, HandleRead(c)
  PROVE  MsgrInv'
<1>1. Shape /\ Phases /\ Streams /\ Links
  BY DEF MsgrInv
<1>2. ConnShape /\ TableShape /\ NetShape /\ ReadShape
  BY <1>1 DEF Shape
<1>3. PICK refs, got, stopped : refs = conn[c].refs - 1 /\ got = rd[c].got /\ stopped = (conn[c].st = "stopped")
  OBVIOUS
<1>4. /\ Event /\ rd[c].busy
      /\ conn' = [conn EXCEPT ![c].refs = refs]
      /\ todo' = IF stopped
                  THEN IF refs = 0 THEN <<DeleteCall(c)>> ELSE << >>
                  ELSE IF rd[c].eof THEN <<StopCall(conn[c].fd, FALSE, c)>>
                  ELSE IF got # << >> THEN <<ParseCall(c, got)>> ELSE << >>
      /\ UNCHANGED <<wr, sent, received, net, clients, peerfd, imm, called, pushed, lost, req, replies>>
  BY <1>3 DEF HandleRead, histVars
<1>5. /\ ReadShape' /\ rd'[c].op = rd[c].op /\ rd'[c].got = << >> /\ ~rd'[c].busy
      /\ \A d \in Conns : d # c => rd'[d] = rd[d]
  BY <1>2, ListOne DEF HandleRead, ReadShape
<1>6. conn[c].st \in {"connected", "stopped"} /\ ConnOk(c)
  <2>1. ConnOk(c) /\ Quiet(c)
    BY <1>1 DEF Links
  <2> QED BY <1>4, <2>1 DEF ConnOk, ConnStates, Quiet, Empty, NewRead
<1>7. ConnShape' /\ \A d \in Conns : SameConn(d)
  BY <1>2, <1>4 DEF ConnShape, SameConn
<1>8. todo = << >> /\ imm = << >> /\ NoDrop /\ GoneStays
  BY <1>1, <1>4, <1>7, NotDropping DEF Event, Phases, GoneStays, SameConn
<1>9. NetShape' /\ conn'[c].st = conn[c].st /\ IsList(got)
  BY <1>2, <1>3, <1>4, <1>7 DEF NetShape, SameConn, ReadShape
<1>10. conn[c].st = "connected" => (rd[c].eof => got = << >>)
  BY <1>1, <1>3, <1>8 DEF Streams, ReadOk, Reads, NoDrop
<1>11. CASE ~stopped /\ ~rd[c].eof /\ got # << >>
  <2>1. PICK a, t : a = ParseCall(c, got) /\ t = <<a>>
    OBVIOUS
  <2>2. a.k = "parse" /\ a.c = c /\ a.parts = got /\ todo' = t
    BY <1>4, <1>11, <2>1 DEF ParseCall
  <2>3. IsList(t) /\ Len(t) = 1 /\ t[1] = a /\ t # << >>
    BY <2>1, ListOne
  <2>4. \A i \in 1..Len(t) : i = 1
    BY <2>3
  <2>5. CallOk(a)'
    BY <2>2 DEF CallOk, Lasting
  <2>6. ParseOk(a)'
    <3>1. imm' = << >> /\ Len(imm') = 0
      BY <1>4, <1>8, ListOne
    <3>2. conn'[c].st = "connected"
      BY <1>3, <1>6, <1>9, <1>11
    <3>3. a.c \in Conns /\ IsList(a.parts) /\ a.parts # << >>
      BY <1>9, <1>11, <2>2
    <3>4. \A i \in 1..Len(imm') : FALSE
      BY <3>1
    <3> QED BY <1>5, <2>2, <3>2, <3>3, <3>4 DEF ParseOk
  <2>7. Phases'
    <3>1. imm' = << >> /\ Len(imm') = 0
      BY <1>4, <1>8, ListOne
    <3>2. Final' = a
      BY <2>2, <2>3 DEF Final
    <3> QED BY <2>2, <2>3, <2>4, <2>5, <2>6, <3>1, <3>2 DEF Phases, Lasting
  <2>8. SameCancels
    <3>1. \A x, d : ~HasCancel(todo, x, d)
      BY <1>8, ListOne DEF HasCancel
    <3>2. \A x, d : ~HasCancel(t, x, d) /\ OneCancel(t, x, d)
      BY <2>2, <2>3, <2>4 DEF HasCancel, OneCancel, IsCancel
    <3> QED BY <2>2, <3>1, <3>2 DEF SameCancels
  <2>9. ASSUME NEW d \in Conns PROVE Stream(d)' = Stream(d)
    <3>1. Parsing(d) = << >>
      BY <1>8 DEF Parsing
    <3>2. CASE d = c
      <4>1. Parsing(d)' = got
        BY <2>2, <2>3, <3>2 DEF Parsing
      <4>2. PICK s : s = net[c].in /\ IsList(s)
        BY <1>2 DEF NetShape
      <4>3. IsList(got \o s)
        BY <1>9, <4>2, ListCat
      <4>4. << >> \o s = s /\ << >> \o (got \o s) = got \o s
        BY <4>2, <4>3, EmptyCat
      <4>5. Stream(d)' = got \o (<< >> \o s) /\ Stream(d) = << >> \o (got \o s)
        BY <1>3, <1>4, <1>5, <3>1, <3>2, <4>1, <4>2 DEF Stream
      <4> QED BY <4>4, <4>5
    <3>3. CASE d # c
      <4>1. Parsing(d)' = << >>
        BY <2>2, <2>3, <3>3 DEF Parsing
      <4> QED BY <1>4, <1>5, <3>1, <3>3, <4>1 DEF Stream
    <3> QED BY <3>2, <3>3
  <2> QED BY <1>4, <1>5, <1>6, <1>7, <1>8, <1>9, <2>2, <2>3, <2>7, <2>8, <2>9, ReadStep
<1>12. CASE ~(~stopped /\ ~rd[c].eof /\ got # << >>)
  <2>1. PICK p : p = todo'
    OBVIOUS
  <2>2. PlainCalls(p)
    <3>1. PICK a, b : a = DeleteCall(c) /\ b = StopCall(conn[c].fd, FALSE, c)
      OBVIOUS
    <3>2. stopped => a.k \in PlainKinds /\ CallOk(a)'
      BY <1>3, <1>9, <3>1, PlainOk DEF Gone
    <3>3. b.k \in PlainKinds /\ CallOk(b)'
      <4>1. conn[c].fd \in Fds
        BY <1>6 DEF ConnOk, Up
      <4> QED BY <3>1, <4>1, PlainOk
    <3>4. p = << >> \/ (stopped /\ p = <<a>>) \/ p = <<b>>
      BY <1>4, <1>12, <2>1, <3>1
    <3> QED BY <3>2, <3>3, <3>4, PlainLists
  <2>3. TodoStep(p)
    BY <1>4, <2>1, EventStep
  <2>4. /\ Phases' /\ IsList(todo') /\ SameCancels
        /\ \A d : Parsing(d) = << >> /\ Parsing(d)' = << >>
    BY <1>1, <1>2, <1>4, <1>8, <2>2, <2>3, PlainPhases
  <2>5. ASSUME NEW d \in Conns, Reads(d)' PROVE Stream(d)' = Stream(d)
    <3>1. CASE d = c
      <4>1. got = << >>
        BY <1>3, <1>9, <1>10, <1>12, <2>5, <3>1 DEF Reads
      <4> QED BY <1>3, <1>4, <1>5, <2>4, <3>1, <4>1 DEF Stream
    <3>2. CASE d # c
      BY <1>4, <1>5, <2>4, <3>2 DEF Stream
    <3> QED BY <3>1, <3>2
  <2> QED BY <1>4, <1>5, <1>6, <1>7, <1>8, <1>9, <2>4, <2>5, ReadStep
<1> QED BY <1>11, <1>12

-----------------------------------------------------------------------------
(* The results of writes.  First the write that failed. *)
LEMMA FailedOk ==
  ASSUME NEW c, NEW w, NEW q, WriteOk(c, w, q), ~Pend(w), NEW v,
         v.box = w.box, v.next = w.next, v.n = 0, v.held = w.held, v.zc = w.zc
  PROVE  WriteOk(c, v, q)
<1>1. ~Pend(v)
  BY DEF Pend
<1>2. ASSUME NEW r \in Reqs PROVE ReplyOk(c, v, r, q)
  <2>1. ReplyOk(c, w, r, q)
    BY DEF WriteOk
  <2> QED BY <1>1, <2>1 DEF ReplyOk
<1> QED BY <1>1, <1>2 DEF WriteOk

Remains(s, n) == SubSeq(s, n + 1, Len(s))

LEMMA SubEnds ==
  ASSUME NEW s, IsList(s), NEW n \in 0..Len(s), NEW r
  PROVE  /\ IsList(Remains(s, n)) /\ Len(Remains(s, n)) = Len(s) - n
         /\ HasEnd(Remains(s, n), r) => HasEnd(s, r)
         /\ OneEnd(s, r) => /\ OneEnd(Remains(s, n), r)
                            /\ ~(HasEnd(Remains(s, n), r) /\ \E i \in 1..n : Ends(s, r, i))
<1>1. PICK l, t : l = Len(s) /\ t = Remains(s, n) /\ t = SubSeq(s, n + 1, l)
  BY DEF Remains
<1>2. l \in Nat /\ n \in Nat /\ n <= l
  BY <1>1 DEF IsList
<1>3. IsList(t) /\ Len(t) = l - n /\ \A i \in 1..(l - n) : t[i] = s[n + i]
  <2>1. n + 1 \in 1..(l + 1) /\ l \in 0..l /\ n + 1 <= l + 1 /\ l - (n + 1) + 1 = l - n
    BY <1>2
  <2>2. IsList(t) /\ Len(t) = l - (n + 1) + 1 /\ \A i \in 1..(l - (n + 1) + 1) : t[i] = s[(n + 1) + i - 1]
    BY <1>1, <2>1, ListSub
  <2>3. \A i \in 1..(l - n) : (n + 1) + i - 1 = n + i
    BY <1>2
  <2> QED BY <2>1, <2>2, <2>3
<1>4. \A i \in 1..Len(t) : n + i \in 1..l /\ n + i \notin 1..n /\ (Ends(t, r, i) <=> Ends(s, r, n + i))
  BY <1>2, <1>3 DEF Ends
<1>5. HasEnd(t, r) => HasEnd(s, r)
  BY <1>1, <1>4 DEF HasEnd
<1>6. ASSUME OneEnd(s, r), NEW i \in 1..Len(t), NEW j \in 1..Len(t), Ends(t, r, i), Ends(t, r, j)
      PROVE  i = j
  <2>1. n + i = n + j
    BY <1>1, <1>4, <1>6 DEF OneEnd
  <2> QED BY <1>2, <1>3, <2>1
<1>7. ASSUME OneEnd(s, r), NEW i \in 1..Len(t), Ends(t, r, i), NEW j \in 1..n, Ends(s, r, j)
      PROVE  FALSE
  <2>1. j \in 1..l
    BY <1>2
  <2>2. n + i = j
    BY <1>1, <1>4, <1>7, <2>1 DEF OneEnd
  <2> QED BY <1>4, <2>2
<1> QED BY <1>1, <1>3, <1>5, <1>6, <1>7 DEF OneEnd, HasEnd

(* What the kernel sent in full. *)
Full(w) == Whole(SubSeq(w.box, 1, w.res.n)) \intersect Reqs

LEMMA FullMine ==
  ASSUME NEW c, NEW w, WShape(w), NEW q, WriteOk(c, w, q), w.n > 0, NEW r, r \in Full(w)
  PROVE  /\ r \in Reqs /\ Mine(q, c, r) /\ HasEnd(w.box, r)
         /\ \E i \in 1..w.res.n : Ends(w.box, r, i)
<1>1. w.res.n \in 0..Len(w.box) /\ IsList(w.box) /\ r \in Reqs
  BY DEF WriteOk, WShape, Full
<1>2. HasEnd(w.box, r) /\ \E i \in 1..w.res.n : Ends(w.box, r, i)
  BY <1>1, WholeEnds DEF Full
<1>3. ReplyOk(c, w, r, q)
  BY <1>1 DEF WriteOk
<1> QED BY <1>1, <1>2, <1>3 DEF ReplyOk, Mine

(* A write that took place: the rest of the outbox and next_outbox remain. *)
LEMMA SentOk ==
  ASSUME NEW c, NEW w, WShape(w), NEW q, WriteOk(c, w, q), w.n > 0, NEW v, NEW q2,
         v.box = SubSeq(w.box, w.res.n + 1, Len(w.box)) \o w.next, v.next = << >>, v.n = 0, v.held = w.held,
         v.zc = IF w.res.zc THEN w.zc \o <<Full(w)>> ELSE w.zc,
         \A r \in Reqs : (r \in Full(w) /\ ~w.res.zc) \/ q2[r] = q[r]
  PROVE  WriteOk(c, v, q2) /\ IsList(v.box) /\ IsList(v.zc)
<1>1. PICK n, b, t, full : n = w.res.n /\ b = w.box /\ t = Remains(b, n) /\ full = Full(w)
  OBVIOUS
<1>0. IsList(b) /\ n \in 0..Len(b)
  BY <1>1 DEF WShape, WriteOk
<1>2. /\ IsList(w.box) /\ IsList(w.next) /\ IsList(w.held) /\ IsList(w.zc) /\ Len(w.box) \in Nat
      /\ n \in 0..Len(w.box) /\ w.n = Len(w.box) /\ Len(w.held) \in Nat /\ Len(w.zc) \in Nat
  BY <1>1 DEF WShape, WriteOk, IsList
<1>3. IsList(t) /\ Len(t) = Len(w.box) - n
  <2>1. IsList(t) /\ Len(t) = Len(b) - n
    BY <1>0, <1>1, SubEnds
  <2> QED BY <1>1, <2>1
<1>10. PICK nx : nx = w.next /\ v.box = t \o nx
  BY <1>1 DEF Remains
<1>11. IsList(t) /\ IsList(nx)
  BY <1>2, <1>3, <1>10
<1>4. IsList(v.box)
  <2>1. IsList(t \o nx)
    BY <1>11, ListCat
  <2> QED BY <1>10, <2>1
<1>5. ~Pend(v) /\ (Pend(w) <=> w.res.zc)
  BY DEF Pend
<1>6. ASSUME NEW r \in Reqs PROVE ReplyOk(c, v, r, q2)
  <2>1. ReplyOk(c, w, r, q)
    BY DEF WriteOk
  <2>2. /\ HasEnd(t, r) => HasEnd(w.box, r)
        /\ OneEnd(t, r) /\ ~(HasEnd(t, r) /\ \E i \in 1..n : Ends(w.box, r, i))
    <3>1. OneEnd(b, r)
      BY <1>1, <2>1 DEF ReplyOk
    <3>2. /\ HasEnd(t, r) => HasEnd(b, r)
          /\ OneEnd(t, r) /\ ~(HasEnd(t, r) /\ \E i \in 1..n : Ends(b, r, i))
      BY <1>0, <1>1, <3>1, SubEnds
    <3> QED BY <1>1, <3>2
  <2>3. /\ HasEnd(v.box, r) <=> HasEnd(t, r) \/ HasEnd(w.next, r)
        /\ OneEnd(v.box, r)
    <3>1. OneEnd(nx, r) /\ ~(HasEnd(t, r) /\ HasEnd(nx, r)) /\ OneEnd(t, r)
      BY <1>10, <2>1, <2>2 DEF ReplyOk
    <3>2. HasEnd(t \o nx, r) <=> HasEnd(t, r) \/ HasEnd(nx, r)
      BY <1>11, CatEnds
    <3>3. OneEnd(t \o nx, r)
      BY <1>11, <3>1, CatEnds
    <3> QED BY <1>10, <3>2, <3>3
  <2>4. ~HasEnd(v.next, r) /\ OneEnd(v.next, r)
    BY ListOne DEF HasEnd, OneEnd
  <2>5. r \in full => HasEnd(w.box, r) /\ \E i \in 1..n : Ends(w.box, r, i)
    BY <1>1, FullMine
  <2>6. ASSUME HasEnd(v.box, r) \/ HasEnd(v.next, r) \/ HasHeld(v.held, r)
        PROVE  q2[r].c = c /\ q2[r].st = "reply"
    <3>1. r \in full => HasHeld(w.held, r) /\ Pend(w)
      <4>1. ASSUME r \in full PROVE HasHeld(w.held, r)
        BY <2>1, <2>2, <2>3, <2>4, <2>5, <2>6, <4>1 DEF ReplyOk
      <4>2. ASSUME r \in full PROVE Pend(w)
        BY <2>1, <2>5, <4>1, <4>2 DEF ReplyOk, HasHeld
      <4> QED BY <4>1, <4>2
    <3>2. q2[r] = q[r]
      BY <1>1, <1>5, <3>1
    <3>3. HasEnd(w.box, r) \/ HasEnd(w.next, r) \/ HasHeld(w.held, r)
      BY <2>2, <2>3, <2>4, <2>6
    <3> QED BY <2>1, <3>2, <3>3 DEF ReplyOk
  <2>7. ASSUME NEW i \in 1..Len(v.held), r \in v.held[i], HasEnd(v.box, r)
        PROVE  FALSE
    <3>1. HasHeld(w.held, r)
      BY <2>7 DEF HasHeld
    <3>2. HasEnd(t, r)
      BY <2>1, <2>3, <2>7, <3>1 DEF ReplyOk
    <3>3. Pend(w)
      BY <2>1, <2>2, <2>7, <3>2 DEF ReplyOk
    <3>4. Len(t) = 0
      BY <1>1, <1>2, <1>3, <3>3 DEF WriteOk
    <3> QED BY <3>2, <3>4 DEF HasEnd
  <2>8. OneHeld(v.held, r)
    BY <2>1 DEF ReplyOk
  <2> QED BY <1>5, <2>3, <2>4, <2>6, <2>7, <2>8 DEF ReplyOk
<1>7. /\ IsList(v.zc)
      /\ \/ v.zc # << >> /\ v.zc[1] = {}
         \/ /\ Len(v.held) = Len(v.zc) + 0
            /\ \A i \in 1..Len(v.zc) : v.zc[i] = v.held[i]
  <2>1. \/ w.zc # << >> /\ w.zc[1] = {}
        \/ /\ Len(w.held) = Len(w.zc) + (IF Pend(w) THEN 1 ELSE 0)
           /\ \A i \in 1..Len(w.zc) : w.zc[i] = w.held[i]
    BY DEF WriteOk
  <2>2. CASE ~Pend(w)
    BY <1>2, <1>5, <2>1, <2>2
  <2>3. CASE Pend(w)
    <3>1. PICK o, z, m : o = <<full>> /\ z = w.zc \o o /\ m = Len(w.zc)
      OBVIOUS
    <3>2. v.zc = z /\ IsList(o) /\ Len(o) = 1 /\ o[1] = full
      BY <1>1, <1>5, <2>3, <3>1, ListOne
    <3>3. /\ IsList(z) /\ Len(z) = m + 1
          /\ \A i \in 1..m : z[i] = w.zc[i]
          /\ \A i \in 1..1 : z[m + i] = o[i]
      BY <1>2, <3>1, <3>2, ListCat
    <3>4. z[m + 1] = full /\ m \in Nat
      BY <1>2, <3>1, <3>2, <3>3
    <3>5. CASE w.zc # << >> /\ w.zc[1] = {}
      <4>1. m # 0
        BY <1>2, <3>1, <3>5, ListEmpty
      <4>2. 1 \in 1..m
        BY <3>4, <4>1
      <4>4. Len(z) # 0
        BY <3>3, <3>4
      <4>5. z # << >>
        BY <3>3, <4>4, ListEmpty
      <4>3. z[1] = {} /\ z # << >>
        BY <3>3, <3>5, <4>2, <4>5
      <4> QED BY <3>2, <3>3, <4>3
    <3>6. CASE Len(w.held) = m + 1 /\ \A i \in 1..m : w.zc[i] = w.held[i]
      <4>1. full = w.held[m + 1]
        <5>1. w.res.n = Len(w.box)
          BY <1>2, <2>3 DEF WriteOk
        <5>2. \A r \in Reqs : r \in full <=> HasEnd(w.box, r)
          <6> SUFFICES ASSUME NEW r \in Reqs PROVE r \in full <=> HasEnd(w.box, r)
            OBVIOUS
          <6>1. r \in Whole(SubSeq(w.box, 1, n)) <=> \E i \in 1..n : Ends(w.box, r, i)
            BY <1>2, WholeEnds
          <6> QED BY <1>1, <5>1, <6>1 DEF Full, HasEnd
        <5>3. \A r \in Reqs : r \in w.held[m + 1] <=> HasEnd(w.box, r)
          BY <2>3, <3>6 DEF WriteOk, ReplyOk
        <5>4. m + 1 \in 1..Len(w.held)
          BY <3>4, <3>6
        <5>5. w.held[m + 1] \subseteq Reqs /\ full \subseteq Reqs
          BY <1>1, <5>4 DEF WriteOk, Full
        <5> QED BY <5>2, <5>3, <5>5
      <4>2. ASSUME NEW i \in 1..(m + 1) PROVE z[i] = w.held[i]
        <5>1. i \in 1..m \/ i = m + 1
          BY <3>4
        <5> QED BY <3>3, <3>4, <3>6, <4>1, <5>1
      <4>5. Len(v.zc) = m + 1
        BY <3>2, <3>3
      <4>6. Len(v.held) = m + 1
        BY <3>6
      <4>3. Len(v.zc) = m + 1 /\ Len(v.held) = m + 1 /\ m + 1 = (m + 1) + 0
        BY <3>4, <4>5, <4>6
      <4>4. \A i \in 1..Len(v.zc) : v.zc[i] = v.held[i]
        BY <3>2, <4>2, <4>3
      <4> QED BY <3>2, <3>3, <4>3, <4>4
    <3> QED BY <2>1, <2>3, <3>1, <3>5, <3>6
  <2> QED BY <2>2, <2>3
<1>8. \A i \in 1..Len(v.held) : v.held[i] \subseteq Reqs
  BY DEF WriteOk
<1>9. WriteOk(c, v, q2)
  BY <1>5, <1>6, <1>7, <1>8 DEF WriteOk
<1> QED BY <1>4, <1>7, <1>9

(* The kernel lets go of a batch. *)
Free(w) == IF w.zc = << >> THEN {} ELSE Head(w.zc)
Several(w) == Len(w.held) > (IF w.n > 0 /\ w.res.zc THEN 1 ELSE 0)

LEMMA FreeMine ==
  ASSUME NEW c, NEW w, WShape(w), NEW q, WriteOk(c, w, q), Several(w), NEW r, r \in Free(w)
  PROVE  /\ r \in Reqs /\ Mine(q, c, r) /\ ~HasEnd(w.box, r) /\ ~HasEnd(w.next, r)
         /\ 1 \in 1..Len(w.held) /\ r \in w.held[1]
<1>1. IsList(w.zc) /\ IsList(w.held) /\ Len(w.zc) \in Nat /\ Len(w.held) \in Nat
  BY DEF WShape, IsList
<1>2. w.zc # << >> /\ r \in w.zc[1] /\ w.zc[1] # {}
  BY <1>1, ListTail DEF Free
<1>3. 1 \in 1..Len(w.zc)
  BY <1>1, <1>2, ListEmpty
<1>4. w.zc[1] = w.held[1]
  BY <1>2, <1>3 DEF WriteOk
<1>5. 1 \in 1..Len(w.held) /\ (Pend(w) => Len(w.held) # 1)
  <2>1. Len(w.held) > 0 /\ (Pend(w) => Len(w.held) > 1)
    <3>1. CASE Pend(w)
      BY <1>1, <3>1 DEF Several, Pend
    <3>2. CASE ~Pend(w)
      BY <1>1, <3>2 DEF Several, Pend
    <3> QED BY <3>1, <3>2
  <2>2. PICK l \in Nat : l = Len(w.held)
    BY <1>1
  <2>3. (l > 1 => l # 1) /\ (l > 0 => 1 \in 1..l)
    OBVIOUS
  <2> QED BY <2>1, <2>2, <2>3
<1>6. r \in Reqs
  BY <1>2, <1>4, <1>5 DEF WriteOk
<1>7. ReplyOk(c, w, r, q) /\ HasHeld(w.held, r)
  BY <1>2, <1>4, <1>5, <1>6 DEF WriteOk, HasHeld
<1>8. ~HasEnd(w.box, r)
  BY <1>2, <1>4, <1>5, <1>7 DEF ReplyOk
<1> QED BY <1>2, <1>4, <1>5, <1>6, <1>7, <1>8 DEF ReplyOk, Mine

LEMMA LetGoOk ==
  ASSUME NEW c, NEW w, WShape(w), NEW q, WriteOk(c, w, q), Several(w), NEW v, NEW q2,
         v.box = w.box, v.next = w.next, v.n = w.n, v.res = w.res, v.held = Tail(w.held),
         v.zc = IF Free(w) = {} THEN w.zc ELSE Tail(w.zc),
         \A r \in Reqs : r \in Free(w) \/ q2[r] = q[r]
  PROVE  WriteOk(c, v, q2) /\ IsList(v.held) /\ IsList(v.zc)
<1>1. /\ IsList(w.held) /\ IsList(w.zc) /\ Len(w.held) \in Nat /\ Len(w.zc) \in Nat /\ Len(w.held) > 0
      /\ (Pend(w) => Len(w.held) > 1) /\ (Pend(v) <=> Pend(w))
  BY DEF WShape, IsList, Several, Pend
<1>2. /\ IsList(v.held) /\ Len(v.held) = Len(w.held) - 1
      /\ \A i \in 1..(Len(w.held) - 1) : v.held[i] = w.held[i + 1]
  <2>1. w.held # << >>
    BY <1>1, ListOne
  <2> QED BY <1>1, <2>1, ListTail
<1>3. \A i \in 1..Len(v.held) : i + 1 \in 1..Len(w.held) /\ v.held[i] = w.held[i + 1] /\ i + 1 # 1
  BY <1>1, <1>2
<1>4. Pend(w) => v.held[Len(v.held)] = w.held[Len(w.held)] /\ Len(v.held) > 0
  BY <1>1, <1>2
<1>5. ASSUME NEW r \in Reqs PROVE ReplyOk(c, v, r, q2)
  <2>1. ReplyOk(c, w, r, q)
    BY DEF WriteOk
  <2>2. HasHeld(v.held, r) => HasHeld(w.held, r)
    BY <1>3 DEF HasHeld
  <2>3. OneHeld(v.held, r)
    <3> SUFFICES ASSUME NEW i \in 1..Len(v.held), NEW j \in 1..Len(v.held), r \in v.held[i], r \in v.held[j]
                 PROVE  i = j
      BY DEF OneHeld
    <3>1. i + 1 = j + 1
      BY <1>3, <2>1 DEF ReplyOk, OneHeld
    <3> QED BY <1>2, <3>1
  <2>4. ASSUME HasEnd(v.box, r) \/ HasEnd(v.next, r) \/ HasHeld(v.held, r)
        PROVE  q2[r].c = c /\ q2[r].st = "reply"
    <3>1. r \notin Free(w)
      <4> SUFFICES ASSUME r \in Free(w) PROVE FALSE
        OBVIOUS
      <4>1. ~HasEnd(w.box, r) /\ ~HasEnd(w.next, r) /\ 1 \in 1..Len(w.held) /\ r \in w.held[1]
        BY FreeMine
      <4>2. PICK i \in 1..Len(v.held) : r \in v.held[i]
        BY <2>4, <4>1 DEF HasHeld
      <4> QED BY <1>3, <2>1, <4>1, <4>2 DEF ReplyOk, OneHeld
    <3> QED BY <2>1, <2>2, <2>4, <3>1 DEF ReplyOk
  <2>5. ASSUME NEW i \in 1..Len(v.held), r \in v.held[i], HasEnd(v.box, r)
        PROVE  Pend(v) /\ i = Len(v.held)
    <3>1. Pend(w) /\ i + 1 = Len(w.held)
      BY <1>3, <2>1, <2>5 DEF ReplyOk
    <3> QED BY <1>1, <1>2, <3>1
  <2>6. Pend(v) => (r \in v.held[Len(v.held)] <=> HasEnd(v.box, r))
    BY <1>1, <1>4, <2>1 DEF ReplyOk
  <2>7. HasHeld(v.held, r) => ~HasEnd(v.next, r)
    BY <2>1, <2>2 DEF ReplyOk
  <2>8. OneEnd(v.box, r) /\ OneEnd(v.next, r) /\ ~(HasEnd(v.box, r) /\ HasEnd(v.next, r))
    BY <2>1 DEF ReplyOk
  <2> QED BY <2>3, <2>4, <2>5, <2>6, <2>7, <2>8 DEF ReplyOk
<1>6. /\ IsList(v.zc)
      /\ \/ v.zc # << >> /\ v.zc[1] = {}
         \/ /\ Len(v.held) = Len(v.zc) + (IF Pend(w) THEN 1 ELSE 0)
            /\ \A i \in 1..Len(v.zc) : v.zc[i] = v.held[i]
  <2>1. \/ w.zc # << >> /\ w.zc[1] = {}
        \/ /\ Len(w.held) = Len(w.zc) + (IF Pend(w) THEN 1 ELSE 0)
           /\ \A i \in 1..Len(w.zc) : w.zc[i] = w.held[i]
    BY DEF WriteOk
  <2>2. w.zc # << >> => Free(w) = w.zc[1]
    BY <1>1, ListTail DEF Free
  <2>3. w.zc # << >>
    <3>1. CASE Pend(w)
      BY <1>1, <2>1, <3>1, ListOne
    <3>2. CASE ~Pend(w)
      BY <1>1, <2>1, <3>2, ListOne
    <3> QED BY <3>1, <3>2
  <2>4. CASE Free(w) = {}
    BY <1>1, <2>2, <2>3, <2>4
  <2>5. CASE Free(w) # {}
    <3>1. /\ IsList(v.zc) /\ Len(w.zc) > 0 /\ Len(v.zc) = Len(w.zc) - 1
          /\ \A i \in 1..(Len(w.zc) - 1) : v.zc[i] = w.zc[i + 1]
      BY <1>1, <2>3, <2>5, ListTail
    <3>2. /\ Len(w.held) = Len(w.zc) + (IF Pend(w) THEN 1 ELSE 0)
          /\ \A i \in 1..Len(w.zc) : w.zc[i] = w.held[i]
      BY <2>1, <2>2, <2>3, <2>5
    <3>3. Len(v.held) = Len(v.zc) + (IF Pend(w) THEN 1 ELSE 0)
      <4>1. CASE Pend(w)
        BY <1>1, <1>2, <3>1, <3>2, <4>1
      <4>2. CASE ~Pend(w)
        BY <1>1, <1>2, <3>1, <3>2, <4>2
      <4> QED BY <4>1, <4>2
    <3>4. ASSUME NEW i \in 1..Len(v.zc) PROVE v.zc[i] = v.held[i]
      <4>1. i \in 1..(Len(w.zc) - 1) /\ i + 1 \in 1..Len(w.zc) /\ i \in 1..Len(v.held)
        <5>2. Len(v.zc) \in Int
          BY <1>1, <3>1
        <5>1. Len(v.held) = Len(v.zc) \/ Len(v.held) = Len(v.zc) + 1
          <6>1. CASE Pend(w)
            BY <3>3, <5>2, <6>1
          <6>2. CASE ~Pend(w)
            BY <3>3, <5>2, <6>2
          <6> QED BY <6>1, <6>2
        <5> QED BY <1>1, <3>1, <5>1
      <4> QED BY <1>3, <3>1, <3>2, <4>1
    <3> QED BY <3>1, <3>3, <3>4
  <2> QED BY <2>4, <2>5
<1>7. \A i \in 1..Len(v.held) : v.held[i] \subseteq Reqs
  BY <1>3 DEF WriteOk
<1>8. /\ v.n \in Nat /\ (v.n > 0 => v.n = Len(v.box) /\ v.res.n \in 0..v.n)
      /\ Pend(v) => Len(v.held) > 0 /\ v.res.n = v.n /\ v.res.r = "ok"
  BY <1>1, <1>4 DEF WriteOk
<1>9. WriteOk(c, v, q2)
  BY <1>1, <1>5, <1>6, <1>7, <1>8 DEF WriteOk
<1> QED BY <1>2, <1>6, <1>9

(* Requests of connection c whose replies were sent are freed. *)
Freed(r, c) ==
  /\ req[r].c = c /\ req[r].st = "reply"
  /\ req'[r].c = c /\ req'[r].st = "freed" /\ req'[r].fd = req[r].fd
  /\ DOMAIN req'[r] = {"st", "c", "fd"}

LEMMA OtherWriteOk ==
  ASSUME NEW c, NEW w, NEW q, NEW q2, WriteOk(c, w, q),
         \A r \in Reqs : Mine(q, c, r) => q2[r] = q[r]
  PROVE  WriteOk(c, w, q2)
<1>1. ASSUME NEW r \in Reqs PROVE ReplyOk(c, w, r, q2)
  <2>1. ReplyOk(c, w, r, q)
    BY DEF WriteOk
  <2> QED BY <2>1 DEF ReplyOk, Mine
<1> QED BY <1>1 DEF WriteOk

LEMMA FreeStep ==
  ASSUME MsgrInv, Phases', IsList(todo'), SameCancels, NoDrop, \A d \in Conns : Parsing(d)' = Parsing(d),
         ConnShape', \A d \in Conns : SameConn(d), WriteShape',
         NEW c \in Conns, conn[c].st \in {"connected", "stopped"},
         \A d \in Conns : d # c => wr'[d] = wr[d],
         conn[c].st = "connected" => WriteOk(c, wr'[c], req'),
         conn[c].st = "stopped" => ~wr'[c].q,
         req' = [r \in Reqs |-> req'[r]],
         \A r \in Reqs : req'[r] = req[r] \/ Freed(r, c),
         UNCHANGED <<rd, sent, received, net, clients, peerfd, imm, called, pushed, lost, replies>>
  PROVE  MsgrInv'
<1>1. Shape /\ Holding /\ Links /\ Phases /\ Streams /\ Writes
  BY DEF MsgrInv
<1>2. TableShape /\ OpsShape /\ NetShape /\ ReadShape
  BY <1>1 DEF Shape
<1>3. Shape'
  <2>1. OpsShape'
    BY <1>2 DEF OpsShape, Freed
  <2> QED BY <1>2, <2>1 DEF Shape, TableShape, NetShape, ReadShape
<1>4. Holding' /\ \A x \in Held1, d \in Conns : Somewhere(x, d)' <=> Somewhere(x, d)
  <2>1. \A r \in Reqs : req[r].st = "read" => req'[r] = req[r]
    BY DEF Freed
  <2> QED BY <1>1, <2>1, StillHeld, HoldingKept
<1>5. Links'
  <2>1. \A d \in Conns : conn[d].st \in {"new", "connecting", "deleted"} => Empty(d)'
    BY <1>1 DEF Links, Quiet, Empty
  <2>2. \A d \in Conns : conn[d].st = "stopped" => ~wr'[d].q
    BY <1>1 DEF Links, Quiet
  <2> QED BY <1>1, <1>2, <1>4, <2>1, <2>2, LinksKept, Apart
<1>6. Streams'
  <2>1. \A d \in Conns : Reads(d)' => Reads(d)
    BY DEF Reads, NoDrop, SameConn
  <2>2. \A d \in Conns : Reads(d)' => SameStream(d)
    BY <2>1 DEF SameStream, Stream
  <2>3. \A d \in Conns : Reads(d) => (~rd[d].busy => rd[d].got = << >>) /\ (rd[d].eof => rd[d].got = << >>)
    BY <1>1 DEF Streams, ReadOk
  <2>4. \A r \in Reqs : req[r].st = "wire" => req'[r].st = "wire"
    BY DEF Freed
  <2> QED BY <1>1, <2>1, <2>2, <2>3, <2>4, StreamsKept
<1>7. Writes'
  <2>1. ASSUME NEW d \in Conns, conn'[d].st = "connected"
        PROVE  WriteOk(d, wr'[d], req')
    <3>1. CASE d = c
      BY <2>1, <3>1 DEF SameConn
    <3>2. CASE d # c
      <4>1. PICK w, q, q2 : w = wr[d] /\ q = req /\ q2 = req'
        OBVIOUS
      <4>2. WriteOk(d, w, q) /\ wr'[d] = w
        BY <1>1, <2>1, <3>2, <4>1 DEF Writes, SameConn
      <4>3. \A r \in Reqs : Mine(q, d, r) => q2[r] = q[r]
        BY <3>2, <4>1 DEF Mine, Freed
      <4>4. WriteOk(d, w, q2)
        BY <4>2, <4>3, OtherWriteOk
      <4> QED BY <4>1, <4>2, <4>4
    <3> QED BY <3>1, <3>2
  <2>2. \A r \in Reqs : Begun(r) => req'[r].c = req[r].c /\ Begun(r)'
    BY DEF Begun, Freed
  <2>3. \A d \in Conns : \A r \in received'[d] : req'[r].c = d /\ Begun(r)'
    BY <1>1, <1>2, <2>2 DEF Writes, OpsShape
  <2>4. \A a \in replies' : a[1] \in Reqs /\ req'[a[1]].c = a[2] /\ req'[a[1]].st \in {"reply", "freed"}
    <3> SUFFICES ASSUME NEW a \in replies
                 PROVE  a[1] \in Reqs /\ req'[a[1]].c = a[2] /\ req'[a[1]].st \in {"reply", "freed"}
      OBVIOUS
    <3>1. a[1] \in Reqs /\ req[a[1]].c = a[2] /\ req[a[1]].st \in {"reply", "freed"}
      BY <1>1 DEF Writes
    <3> QED BY <3>1 DEF Freed
  <2>5. \A r \in Reqs : Begun(r)' => req'[r].fd \in Fds
    BY <1>1 DEF Writes, Begun, Freed
  <2> QED BY <2>1, <2>3, <2>4, <2>5 DEF Writes
<1> QED BY <1>3, <1>4, <1>5, <1>6, <1>7 DEF MsgrInv

(* The calls after a result: the connection may have to be deleted or stopped. *)
LEMMA ResultCalls ==
  ASSUME MsgrInv, Event, NEW c \in Conns, conn[c].st \in {"connected", "stopped"}, \A d \in Conns : SameConn(d),
         imm' = imm,
         \/ todo' = << >>
         \/ conn[c].st = "stopped" /\ todo' = <<DeleteCall(c)>>
         \/ todo' = <<StopCall(conn[c].fd, FALSE, c)>>
  PROVE  /\ Phases' /\ IsList(todo') /\ SameCancels /\ NoDrop
         /\ \A d : Parsing(d)' = Parsing(d)
<1>1. TableShape /\ Phases /\ Links
  BY DEF MsgrInv, Shape
<1>2. GoneStays
  BY DEF GoneStays, SameConn
<1>3. PICK p, a, b : p = todo' /\ a = DeleteCall(c) /\ b = StopCall(conn[c].fd, FALSE, c)
  OBVIOUS
<1>4. conn[c].st = "stopped" => a.k \in PlainKinds /\ CallOk(a)'
  BY <1>3, PlainOk DEF Gone, SameConn
<1>5. b.k \in PlainKinds /\ CallOk(b)'
  <2>1. conn[c].fd \in Fds
    BY <1>1 DEF Links, ConnOk, Up
  <2> QED BY <1>3, <2>1, PlainOk
<1>6. PlainCalls(p)
  BY <1>3, <1>4, <1>5, PlainLists
<1>7. TodoStep(p)
  BY <1>3, EventStep
<1>8. /\ Phases' /\ IsList(todo') /\ SameCancels
      /\ \A d : Parsing(d) = << >> /\ Parsing(d)' = << >>
  BY <1>1, <1>2, <1>6, <1>7, PlainPhases
<1>9. NoDrop
  BY NotDropping DEF Event
<1> QED BY <1>8, <1>9

LEMMA HandleSendOk ==
  ASSUME MsgrInv, NEW c \in Conns, HandleSend(c)
  PROVE  MsgrInv'
<1>1. Shape /\ Links /\ Writes
  BY DEF MsgrInv
<1>2. ConnShape /\ OpsShape /\ WriteShape
  BY <1>1 DEF Shape
<1>3. PICK w, refs, st, q : /\ w = wr[c] /\ st = conn[c].st /\ q = req
                            /\ refs = conn[c].refs - (IF w.res.zc THEN 0 ELSE 1)
  OBVIOUS
<1>4. /\ Event /\ w.n > 0
      /\ conn' = [conn EXCEPT ![c].refs = refs]
      /\ UNCHANGED <<rd, sent, received, net, clients, peerfd, imm, called, pushed, lost, replies>>
  BY <1>3 DEF HandleSend
<1>5. st \in {"connected", "stopped"}
  <2>1. ConnOk(c) /\ Quiet(c)
    BY <1>1 DEF Links
  <2>2. wr[c] = NewWrite => ~(wr[c].n > 0)
    BY DEF NewWrite
  <2> QED BY <1>3, <1>4, <2>1, <2>2 DEF ConnOk, ConnStates, Quiet, Empty
<1>6. ConnShape' /\ \A d \in Conns : SameConn(d)
  BY <1>2, <1>4 DEF ConnShape, SameConn
<1>7. WShape(w) /\ (st = "connected" => WriteOk(c, w, q))
  BY <1>1, <1>2, <1>3 DEF WriteShape, WShape, Writes
<1>8. CASE st = "stopped" \/ w.res.r # "ok"
  <2>1. PICK v : v = [w EXCEPT !.n = 0, !.q = st # "stopped" /\ w.res.r # "ERR" /\ (w.q \/ w.state = 1)]
    OBVIOUS
  <2>2. /\ wr' = [wr EXCEPT ![c] = v] /\ req' = req
        /\ todo' = IF st = "stopped"
                     THEN IF refs = 0 THEN <<DeleteCall(c)>> ELSE << >>
                     ELSE IF w.res.r = "ERR" THEN <<StopCall(conn[c].fd, FALSE, c)>> ELSE << >>
    BY <1>2, <1>3, <1>8, <2>1 DEF HandleSend, WriteShape
  <2>3. /\ v.box = w.box /\ v.next = w.next /\ v.n = 0 /\ v.held = w.held /\ v.zc = w.zc /\ DOMAIN v = DOMAIN w
        /\ st = "stopped" => ~v.q
    BY <1>7, <2>1 DEF WShape
  <2>4. WriteShape' /\ wr'[c] = v /\ \A d \in Conns : d # c => wr'[d] = wr[d]
    BY <1>2, <1>7, <2>2, <2>3 DEF WriteShape, WShape
  <2>5. st = "connected" => WriteOk(c, v, q)
    <3>1. ASSUME st = "connected" PROVE ~Pend(w)
      BY <1>7, <1>8, <3>1 DEF WriteOk
    <3> QED BY <1>7, <2>3, <3>1, FailedOk
  <2>6. /\ Phases' /\ IsList(todo') /\ SameCancels /\ NoDrop
        /\ \A d : Parsing(d)' = Parsing(d)
    BY <1>3, <1>4, <1>5, <1>6, <2>2, ResultCalls
  <2>7. req' = [r \in Reqs |-> req'[r]] /\ (\A r \in Reqs : req'[r] = req[r]) /\ req' = q
    BY <1>2, <1>3, <2>2 DEF OpsShape
  <2> QED BY <1>3, <1>4, <1>5, <1>6, <2>3, <2>4, <2>5, <2>6, <2>7, FreeStep
<1>9. CASE ~(st = "stopped" \/ w.res.r # "ok")
  <2>1. PICK full, box : full = Full(w) /\ box = SubSeq(w.box, w.res.n + 1, Len(w.box)) \o w.next
    OBVIOUS
  <2>2. PICK v : v = [w EXCEPT !.n = 0, !.box = box, !.next = << >>,
                           !.state = IF box = << >> THEN 0 ELSE 1,
                           !.q = @ \/ box # << >>,
                           !.zc = IF w.res.zc THEN @ \o <<full>> ELSE @]
    OBVIOUS
  <2>3. /\ wr' = [wr EXCEPT ![c] = v] /\ todo' = todo
        /\ req' = [r \in Reqs |-> IF r \in full /\ ~w.res.zc
                                    THEN [req[r] EXCEPT !.st = "freed"] ELSE req[r]]
    BY <1>3, <1>9, <2>1, <2>2 DEF HandleSend, Full
  <2>4. /\ v.box = box /\ v.next = << >> /\ v.n = 0 /\ v.held = w.held /\ DOMAIN v = DOMAIN w
        /\ v.zc = IF w.res.zc THEN w.zc \o <<full>> ELSE w.zc
    BY <1>7, <2>2 DEF WShape
  <2>5. WriteOk(c, w, q) /\ st = "connected"
    BY <1>5, <1>7, <1>9
  <2>6. ASSUME NEW r \in Reqs PROVE req'[r] = req[r] \/ (r \in full /\ ~w.res.zc /\ Freed(r, c))
    <3>1. CASE r \in full /\ ~w.res.zc
      <4>1. Mine(q, c, r)
        BY <1>4, <1>7, <2>1, <2>5, <3>1, FullMine
      <4>2. req'[r] = [req[r] EXCEPT !.st = "freed"] /\ DOMAIN req[r] = {"st", "c", "fd"}
        BY <1>2, <2>3, <3>1 DEF OpsShape
      <4> QED BY <1>3, <3>1, <4>1, <4>2 DEF Freed, Mine
    <3>2. CASE ~(r \in full /\ ~w.res.zc)
      BY <2>3, <3>2
    <3> QED BY <3>1, <3>2
  <2>7. PICK q2 : q2 = req'
    OBVIOUS
  <2>8. WriteOk(c, v, q2) /\ IsList(v.box) /\ IsList(v.zc)
    <3>1. \A r \in Reqs : (r \in Full(w) /\ ~w.res.zc) \/ q2[r] = q[r]
      BY <1>3, <2>1, <2>6, <2>7
    <3>2. /\ v.box = SubSeq(w.box, w.res.n + 1, Len(w.box)) \o w.next
          /\ v.zc = IF w.res.zc THEN w.zc \o <<Full(w)>> ELSE w.zc
      BY <2>1, <2>4
    <3> QED BY <1>4, <1>7, <2>4, <2>5, <3>1, <3>2, SentOk
  <2>9. WShape(v)
    BY <1>7, <2>4, <2>8, ListOne DEF WShape
  <2>10. WriteShape' /\ wr'[c] = v /\ \A d \in Conns : d # c => wr'[d] = wr[d]
    BY <1>2, <2>3, <2>9 DEF WriteShape, WShape
  <2>11. /\ Phases' /\ IsList(todo') /\ SameCancels /\ NoDrop
         /\ \A d : Parsing(d)' = Parsing(d)
    <3>1. todo' = << >>
      BY <1>4, <2>3 DEF Event
    <3> QED BY <1>3, <1>4, <1>5, <1>6, <3>1, ResultCalls
  <2>12. req' = [r \in Reqs |-> req'[r]] /\ \A r \in Reqs : req'[r] = req[r] \/ Freed(r, c)
    BY <2>3, <2>6
  <2> QED BY <1>3, <1>4, <1>6, <2>5, <2>7, <2>8, <2>10, <2>11, <2>12, FreeStep
<1> QED BY <1>8, <1>9

LEMMA HandleSendZcOk ==
  ASSUME MsgrInv, NEW c \in Conns, HandleSendZc(c)
  PROVE  MsgrInv'
<1>1. Shape /\ Links /\ Writes
  BY DEF MsgrInv
<1>2. ConnShape /\ OpsShape /\ WriteShape
  BY <1>1 DEF Shape
<1>3. PICK w, refs, st, q : w = wr[c] /\ st = conn[c].st /\ q = req /\ refs = conn[c].refs - 1
  OBVIOUS
<1>4. /\ Event /\ Several(w)
      /\ conn' = [conn EXCEPT ![c].refs = refs]
      /\ UNCHANGED <<rd, sent, received, net, clients, peerfd, imm, called, pushed, lost, replies>>
  BY <1>3 DEF HandleSendZc, Several
<1>5. st \in {"connected", "stopped"}
  <2>1. ConnOk(c) /\ Quiet(c)
    BY <1>1 DEF Links
  <2>2. wr[c] = NewWrite => ~Several(wr[c])
    BY ListOne DEF NewWrite, Several
  <2> QED BY <1>3, <1>4, <2>1, <2>2 DEF ConnOk, ConnStates, Quiet, Empty
<1>6. ConnShape' /\ \A d \in Conns : SameConn(d)
  BY <1>2, <1>4 DEF ConnShape, SameConn
<1>7. WShape(w) /\ (st = "connected" => WriteOk(c, w, q)) /\ (st = "stopped" => ~w.q)
  BY <1>1, <1>2, <1>3 DEF WriteShape, WShape, Writes, Links, Quiet
<1>8. CASE st = "stopped"
  <2>1. PICK v : v = [w EXCEPT !.held = Tail(@)]
    OBVIOUS
  <2>2. /\ wr' = [wr EXCEPT ![c] = v] /\ req' = req
        /\ todo' = IF refs = 0 THEN <<DeleteCall(c)>> ELSE << >>
    BY <1>2, <1>3, <1>8, <2>1 DEF HandleSendZc, WriteShape
  <2>3. IsList(Tail(w.held))
    <3>1. IsList(w.held) /\ Len(w.held) \in Nat
      BY <1>7 DEF WShape, IsList
    <3>2. w.held # << >>
      BY <1>4, <3>1, ListOne DEF Several
    <3> QED BY <3>1, <3>2, ListTail
  <2>4. WShape(v) /\ ~v.q
    BY <1>7, <1>8, <2>1, <2>3 DEF WShape
  <2>5. WriteShape' /\ wr'[c] = v /\ \A d \in Conns : d # c => wr'[d] = wr[d]
    BY <1>2, <2>2, <2>4 DEF WriteShape, WShape
  <2>6. /\ Phases' /\ IsList(todo') /\ SameCancels /\ NoDrop
        /\ \A d : Parsing(d)' = Parsing(d)
    BY <1>3, <1>4, <1>5, <1>6, <1>8, <2>2, ResultCalls
  <2>7. req' = [r \in Reqs |-> req'[r]] /\ \A r \in Reqs : req'[r] = req[r]
    BY <1>2, <2>2 DEF OpsShape
  <2> QED BY <1>3, <1>4, <1>6, <1>8, <2>4, <2>5, <2>6, <2>7, FreeStep
<1>9. CASE st # "stopped"
  <2>1. PICK free : free = Free(w)
    OBVIOUS
  <2>2. PICK v : v = [w EXCEPT !.held = Tail(@), !.zc = IF free = {} THEN @ ELSE Tail(@)]
    OBVIOUS
  <2>3. /\ wr' = [wr EXCEPT ![c] = v] /\ todo' = todo
        /\ req' = [r \in Reqs |-> IF r \in free THEN [req[r] EXCEPT !.st = "freed"] ELSE req[r]]
    BY <1>3, <1>9, <2>1, <2>2 DEF HandleSendZc, Free
  <2>4. /\ v.box = w.box /\ v.next = w.next /\ v.n = w.n /\ v.res = w.res /\ v.held = Tail(w.held)
        /\ v.zc = (IF free = {} THEN w.zc ELSE Tail(w.zc)) /\ DOMAIN v = DOMAIN w
    BY <1>7, <2>2 DEF WShape
  <2>5. WriteOk(c, w, q) /\ st = "connected"
    BY <1>5, <1>7, <1>9
  <2>6. ASSUME NEW r \in Reqs PROVE req'[r] = req[r] \/ (r \in free /\ Freed(r, c))
    <3>1. CASE r \in free
      <4>1. Mine(q, c, r)
        BY <1>4, <1>7, <2>1, <2>5, <3>1, FreeMine
      <4>2. req'[r] = [req[r] EXCEPT !.st = "freed"] /\ DOMAIN req[r] = {"st", "c", "fd"}
        BY <1>2, <2>3, <3>1 DEF OpsShape
      <4> QED BY <1>3, <3>1, <4>1, <4>2 DEF Freed, Mine
    <3>2. CASE r \notin free
      BY <2>3, <3>2
    <3> QED BY <3>1, <3>2
  <2>7. PICK q2 : q2 = req'
    OBVIOUS
  <2>8. WriteOk(c, v, q2) /\ IsList(v.held) /\ IsList(v.zc)
    <3>1. \A r \in Reqs : r \in Free(w) \/ q2[r] = q[r]
      BY <1>3, <2>1, <2>6, <2>7
    <3>2. v.zc = IF Free(w) = {} THEN w.zc ELSE Tail(w.zc)
      BY <2>1, <2>4
    <3> QED BY <1>4, <1>7, <2>4, <2>5, <3>1, <3>2, LetGoOk
  <2>9. WShape(v)
    BY <1>7, <2>4, <2>8 DEF WShape
  <2>10. WriteShape' /\ wr'[c] = v /\ \A d \in Conns : d # c => wr'[d] = wr[d]
    BY <1>2, <2>3, <2>9 DEF WriteShape, WShape
  <2>11. /\ Phases' /\ IsList(todo') /\ SameCancels /\ NoDrop
         /\ \A d : Parsing(d)' = Parsing(d)
    <3>1. todo' = << >>
      BY <1>4, <2>3 DEF Event
    <3> QED BY <1>3, <1>4, <1>5, <1>6, <3>1, ResultCalls
  <2>12. req' = [r \in Reqs |-> req'[r]] /\ \A r \in Reqs : req'[r] = req[r] \/ Freed(r, c)
    BY <2>3, <2>6
  <2> QED BY <1>3, <1>4, <1>6, <2>5, <2>7, <2>8, <2>10, <2>11, <2>12, FreeStep
<1> QED BY <1>8, <1>9

-----------------------------------------------------------------------------
(* What was read is parsed piece by piece. *)
LEMMA TailCat ==
  ASSUME NEW p, NEW t, IsList(p), IsList(t), p # << >>
  PROVE  Tail(p \o t) = Tail(p) \o t
<1>1. PICK u, v, l, m : u = p \o t /\ v = Tail(p) /\ l = Len(p) /\ m = Len(t)
  OBVIOUS
<1>2. l \in Nat /\ l > 0 /\ m \in Nat /\ IsList(v) /\ Len(v) = l - 1 /\ \A i \in 1..(l - 1) : v[i] = p[i + 1]
  BY <1>1, ListTail DEF IsList
<1>3. /\ IsList(u) /\ Len(u) = l + m
      /\ \A i \in 1..l : u[i] = p[i]
      /\ \A i \in 1..m : u[l + i] = t[i]
  BY <1>1, ListCat
<1>4. u # << >>
  BY <1>2, <1>3, ListOne
<1>5. PICK a, b : a = Tail(u) /\ b = v \o t
  OBVIOUS
<1>6. IsList(a) /\ Len(a) = l + m - 1 /\ \A i \in 1..(l + m - 1) : a[i] = u[i + 1]
  <2>1. IsList(a) /\ Len(a) = Len(u) - 1 /\ \A i \in 1..(Len(u) - 1) : a[i] = u[i + 1]
    BY <1>3, <1>4, <1>5, ListTail
  <2>2. Len(u) - 1 = l + m - 1
    BY <1>2, <1>3
  <2> QED BY <2>1, <2>2
<1>7. /\ IsList(b) /\ Len(b) = l - 1 + m
      /\ \A i \in 1..(l - 1) : b[i] = v[i]
      /\ \A i \in 1..m : b[l - 1 + i] = t[i]
  BY <1>1, <1>2, <1>5, ListCat
<1>8. ASSUME NEW i \in 1..Len(a) PROVE a[i] = b[i]
  <2>1. CASE i \in 1..(l - 1)
    <3>1. i + 1 \in 1..l /\ i \in 1..(l + m - 1)
      BY <1>2, <2>1
    <3> QED BY <1>2, <1>3, <1>6, <1>7, <2>1, <3>1
  <2>2. CASE i \notin 1..(l - 1)
    <3>1. PICK j \in 1..m : i = l - 1 + j /\ i + 1 = l + j
      <4>1. i - l + 1 \in 1..m /\ i = l - 1 + (i - l + 1) /\ i + 1 = l + (i - l + 1)
        BY <1>2, <1>6, <2>2
      <4> QED BY <4>1
    <3>2. a[i] = u[i + 1]
      BY <1>6
    <3> QED BY <1>3, <1>7, <3>1, <3>2
  <2> QED BY <2>1, <2>2
<1>9. Len(a) = Len(b)
  BY <1>2, <1>6, <1>7
<1>10. a = b
  BY <1>6, <1>7, <1>8, <1>9, ListSame
<1> QED BY <1>1, <1>5, <1>10

LEMMA StreamTail ==
  ASSUME NEW s, IsList(s), s # << >>, NEW pending, NEW q, NEW q2, StreamOk(s, pending, q),
         \A r \in Reqs : q[r].st = "wire" /\ ~IsReq(s[1], r) => q2[r].st = "wire"
  PROVE  /\ StreamOk(Tail(s), Wants(s[1]), q2)
         /\ \A r \in Reqs : HasReq(Tail(s), r) => HasReq(s, r)
<1>1. PICK t, l : t = Tail(s) /\ l = Len(s)
  OBVIOUS
<1>2. l \in Nat /\ l > 0 /\ IsList(t) /\ Len(t) = l - 1 /\ \A i \in 1..(l - 1) : t[i] = s[i + 1]
  BY <1>1, ListTail
<1>3. ASSUME NEW i \in 1..(l - 1)
      PROVE  i + 1 \in 1..Len(s) /\ i + 1 # 1 /\ i + 1 - 1 = i /\ 1 \in 1..Len(s)
  BY <1>1, <1>2
<1>4. ASSUME NEW r \in Reqs, HasReq(t, r) PROVE HasReq(s, r)
  BY <1>2, <1>3, <1>4 DEF HasReq
<1>5. ASSUME NEW i \in 1..Len(t)
      PROVE  /\ t[i].k = "data" <=> IF i = 1 THEN Wants(s[1]) ELSE Wants(t[i - 1])
             /\ t[i].k \in {"data", "bad", "req", "reply"}
             /\ t[i].k = "req" => t[i].x \in Reqs /\ q2[t[i].x].st = "wire"
             /\ t[i].k = "reply" => t[i].x \in Outgoing
  <2>1. PICK j : j = i + 1
    OBVIOUS
  <2>2. j \in 1..Len(s) /\ j # 1 /\ j - 1 = i /\ 1 \in 1..Len(s) /\ t[i] = s[j]
    BY <1>2, <1>3, <2>1
  <2>3. /\ s[j].k = "data" <=> Wants(s[i])
        /\ s[j].k \in {"data", "bad", "req", "reply"}
        /\ s[j].k = "req" => s[j].x \in Reqs /\ q[s[j].x].st = "wire"
        /\ s[j].k = "reply" => s[j].x \in Outgoing
    BY <2>2 DEF StreamOk
  <2>4. s[j].k = "req" => ~IsReq(s[1], s[j].x)
    <3>1. s[j].k = "req" => IsReq(s[j], s[j].x)
      BY DEF IsReq
    <3> QED BY <2>2, <2>3, <3>1 DEF StreamOk
  <2>5. i # 1 => t[i - 1] = s[i]
    <3>1. i # 1 => i - 1 \in 1..(l - 1) /\ i - 1 + 1 = i
      BY <1>2
    <3> QED BY <1>2, <3>1
  <2>6. t[i].k = "data" <=> IF i = 1 THEN Wants(s[1]) ELSE Wants(t[i - 1])
    BY <2>2, <2>3, <2>5
  <2> QED BY <2>2, <2>3, <2>4, <2>6
<1>6. ASSUME NEW r \in Reqs, NEW i \in 1..Len(t), NEW j \in 1..Len(t), IsReq(t[i], r), IsReq(t[j], r)
      PROVE  i = j
  <2>1. i + 1 = j + 1
    BY <1>2, <1>3, <1>6 DEF StreamOk
  <2> QED BY <1>2, <2>1
<1>7. IF Len(t) = 0 THEN ~Wants(s[1]) ELSE ~Wants(t[Len(t)])
  <2>1. ~Wants(s[l]) /\ (Len(t) = 0 => l = 1) /\ (Len(t) # 0 => t[Len(t)] = s[l])
    <3>1. ~Wants(s[l])
      BY <1>1, <1>2 DEF StreamOk
    <3>2. Len(t) # 0 => Len(t) \in 1..(l - 1) /\ Len(t) + 1 = l
      BY <1>2
    <3> QED BY <1>2, <3>1, <3>2
  <2> QED BY <2>1
<1>8. StreamOk(t, Wants(s[1]), q2)
  BY <1>5, <1>6, <1>7 DEF StreamOk
<1> QED BY <1>1, <1>4, <1>8

(* The requests at most one of which is taken from the stream of c. *)
ReqKept(r, c) ==
  \/ req'[r] = req[r]
  \/ /\ req[r].st = "wire" /\ HasReq(Stream(c), r)
     /\ req'[r].st = "read" /\ req'[r].c = c /\ req'[r].fd \in Fds

LEMMA ParseStep ==
  ASSUME MsgrInv, NoDrop, NEW c \in Conns, conn[c].st = "connected",
         ConnShape', ReadShape', OpsShape', TableShape', Phases', Holding',
         \A d \in Conns : SameConn(d),
         \A x \in Held1, d \in Conns : d # c => (Somewhere(x, d)' => Somewhere(x, d)),
         Somewhere(Conf, c)' => Somewhere(Conf, c),
         \A d \in Conns : d # c => /\ rd'[d] = rd[d] /\ sent'[d] = sent[d] /\ received'[d] = received[d]
                                   /\ Parsing(d)' = Parsing(d),
         rd'[c].got = << >>,
         Reads(c)' => StreamOk(Stream(c), rd[c].op.x # None, req)',
         Reads(c)' => \A r \in Reqs : HasReq(Stream(c), r)' => HasReq(Stream(c), r),
         \A r \in Reqs : ReqKept(r, c),
         \A r \in received'[c] : r \in received[c] \/ (req'[r].c = c /\ Begun(r)'),
         UNCHANGED <<wr, net, clients, peerfd, called, pushed, lost, replies>>
  PROVE  MsgrInv'
<1>1. Shape /\ Holding /\ Links /\ Phases /\ Streams /\ Writes
  BY DEF MsgrInv
<1>2. TableShape /\ OpsShape /\ WriteShape /\ NetShape
  BY <1>1 DEF Shape
<1>3. Shape'
  BY <1>2 DEF Shape, WriteShape, NetShape
<1>4. Links'
  <2>1. \A d \in Conns : conn[d].st \in {"new", "connecting", "deleted"} => Empty(d)'
    BY <1>1 DEF Links, Quiet, Empty
  <2>2. \A d \in Conns : conn[d].st = "stopped" => ~wr'[d].q
    BY <1>1 DEF Links, Quiet
  <2>3. \A d \in Conns, x \in Held1 : Somewhere(x, d)' => Somewhere(x, d) \/ conn[d].st = "connected"
    OBVIOUS
  <2>4. \A d \in Conns : Somewhere(Conf, d)' => Somewhere(Conf, d)
    BY Apart
  <2> QED BY <1>1, <1>2, <2>1, <2>2, <2>3, <2>4, LinksKept
<1>5. \A d \in Conns : Reads(d)' => Reads(d)
  BY DEF Reads, NoDrop, SameConn
<1>6. Reads(c)
  BY DEF Reads, NoDrop
<1>7. \A d \in Conns : d # c => Stream(d)' = Stream(d)
  BY DEF Stream
<1>8. ASSUME NEW d \in Conns, Reads(d)' PROVE ReadOk(d)'
  <2>1. CASE d = c
    BY <1>8, <2>1 DEF ReadOk
  <2>2. CASE d # c
    <3>1. PICK s : s = Stream(d)
      OBVIOUS
    <3>2. StreamOk(s, rd[d].op.x # None, req) /\ Stream(d)' = s /\ ReadOk(d) /\ Reads(d) /\ rd'[d] = rd[d]
      BY <1>1, <1>5, <1>7, <1>8, <2>2, <3>1 DEF Streams, ReadOk
    <3>3. \A i \in 1..Len(s) : s[i].k = "req" => req'[s[i].x].st = "wire"
      <4> SUFFICES ASSUME NEW i \in 1..Len(s), s[i].k = "req" PROVE req'[s[i].x].st = "wire"
        OBVIOUS
      <4>1. PICK r \in Reqs : r = s[i].x
        BY <3>2 DEF StreamOk
      <4>2. req[r].st = "wire"
        BY <3>2, <4>1 DEF StreamOk
      <4>3. HasReq(Stream(d), r)
        BY <3>1, <4>1 DEF HasReq, IsReq
      <4>4. ~HasReq(Stream(c), r)
        BY <1>1, <1>6, <2>2, <3>2, <4>3 DEF Streams
      <4> QED BY <4>1, <4>2, <4>4 DEF ReqKept
    <3>4. StreamOk(s, rd[d].op.x # None, req')
      BY <3>2, <3>3 DEF StreamOk
    <3> QED BY <3>2, <3>4 DEF ReadOk
  <2> QED BY <2>1, <2>2
<1>9. ASSUME NEW d \in Conns, NEW r \in Reqs, Reads(d)', HasReq(Stream(d), r)'
      PROVE  Reads(d) /\ HasReq(Stream(d), r)
  <2>1. CASE d = c
    BY <1>5, <1>9, <2>1
  <2>2. CASE d # c
    <3>1. PICK s : s = Stream(d)
      OBVIOUS
    <3>2. Stream(d)' = s
      BY <1>7, <2>2, <3>1
    <3>3. HasReq(s, r)
      BY <1>9, <3>2 DEF HasReq
    <3> QED BY <1>5, <1>9, <3>1, <3>3
  <2> QED BY <2>1, <2>2
<1>10. Streams'
  BY <1>1, <1>8, <1>9 DEF Streams
<1>11. Writes'
  <2>1. \A d \in Conns : conn'[d].st = "connected" => conn[d].st = "connected" /\ SameWrite(wr[d], wr'[d])
    BY DEF SameConn, SameWrite
  <2>2. \A r \in Reqs : Begun(r) => req'[r] = req[r]
    BY DEF Begun, ReqKept
  <2>3. \A r \in Reqs : Begun(r)' => req'[r].fd \in Fds \/ (Begun(r) /\ req'[r].fd = req[r].fd)
    BY DEF Begun, ReqKept
  <2>4. \A r \in Reqs : Begun(r) => req'[r].c = req[r].c /\ Begun(r)'
    BY <2>2 DEF Begun
  <2>5. \A r \in Reqs : (req[r].st = "reply" => req'[r] = req[r]) /\ (req[r].st = "freed" => req'[r].st = "freed")
    BY <2>2 DEF Begun
  <2>6. \A d \in Conns : \A r \in received'[d] : r \in received[d] \/ (req'[r].c = d /\ Begun(r)')
    OBVIOUS
  <2> QED BY <1>1, <1>2, <2>1, <2>3, <2>4, <2>5, <2>6, WritesKept
<1> QED BY <1>3, <1>4, <1>10, <1>11 DEF MsgrInv

(* The calls that follow a piece: the next one, or the operations read. *)
NextCall(c, parts) == IF Len(parts) = 1 THEN ImmCall ELSE ParseCall(c, Tail(parts))

LEMMA ParseFacts ==
  ASSUME MsgrInv, NEW c, NEW parts, Call("parse"), c = Head(todo).c, parts = Head(todo).parts
  PROVE  /\ c \in Conns /\ IsList(parts) /\ parts # << >> /\ conn[c].st = "connected" /\ conn[c].fd \in Fds
         /\ rd[c].got = << >> /\ ~rd[c].busy /\ NoDrop /\ Reads(c) /\ Rest = << >>
         /\ \A x, d : ~HasCancel(todo, x, d) /\ OneCancel(todo, x, d)
         /\ \A i \in 1..Len(imm) : imm[i].c = c /\ imm[i].fd = conn[c].fd /\ ImmOk(imm[i])
         /\ \A d \in Conns : Parsing(d) = IF d = c THEN parts ELSE << >>
<1>1. TableShape /\ Phases /\ Links /\ "parse" \in Lasting
  BY DEF MsgrInv, Shape, Lasting
<1>2. /\ Len(todo) = 1 /\ Final = todo[1] /\ Rest = << >> /\ todo # << >>
      /\ \A x, d : ~HasCancel(todo, x, d) /\ OneCancel(todo, x, d)
  BY <1>1, LastCall
<1>3. Head(todo) = todo[1] /\ todo[1].k = "parse"
  BY <1>1, CallHead
<1>4. ParseOk(todo[1])
  BY <1>1, <1>2, <1>3 DEF Phases
<1>5. /\ c \in Conns /\ IsList(parts) /\ parts # << >> /\ conn[c].st = "connected"
      /\ rd[c].got = << >> /\ ~rd[c].busy
      /\ \A i \in 1..Len(imm) : imm[i].c = c /\ imm[i].fd = conn[c].fd
  BY <1>3, <1>4 DEF ParseOk
<1>6. conn[c].fd \in Fds
  BY <1>1, <1>5 DEF Links, ConnOk, Up
<1>7. NoDrop
  BY <1>3, NotDropping
<1>8. Reads(c)
  BY <1>5, <1>7 DEF Reads, NoDrop
<1>9. \A i \in 1..Len(imm) : ImmOk(imm[i])
  BY <1>1 DEF Phases
<1>10. \A d \in Conns : Parsing(d) = IF d = c THEN parts ELSE << >>
  BY <1>2, <1>3 DEF Parsing
<1> QED BY <1>2, <1>5, <1>6, <1>7, <1>8, <1>9, <1>10

LEMMA MorePhases ==
  ASSUME NEW c \in Conns, NEW parts, IsList(parts), parts # << >>, todo' = <<NextCall(c, parts)>>,
         IsList(imm'), conn'[c].st = "connected", rd'[c].got = << >>, ~rd'[c].busy,
         \A i \in 1..Len(imm') : imm'[i].c = c /\ imm'[i].fd = conn'[c].fd /\ ImmOk(imm'[i])
  PROVE  /\ Phases' /\ IsList(todo')
         /\ \A x, d : ~HasCancel(todo', x, d) /\ OneCancel(todo', x, d)
         /\ \A d \in Conns : Parsing(d)' = IF d = c THEN Tail(parts) ELSE << >>
<1>1. PICK a, t : a = NextCall(c, parts) /\ t = <<a>>
  OBVIOUS
<1>2. IsList(t) /\ Len(t) = 1 /\ t[1] = a /\ t # << >> /\ todo' = t
  BY <1>1, ListOne
<1>3. \A i \in 1..Len(t) : i = 1
  BY <1>2
<1>4. \/ Len(parts) = 1 /\ a.k = "imm"
      \/ Len(parts) # 1 /\ a.k = "parse" /\ a.c = c /\ a.parts = Tail(parts)
  BY <1>1 DEF NextCall, ImmCall, ParseCall
<1>5. IsList(Tail(parts)) /\ (Len(parts) = 1 <=> Tail(parts) = << >>)
  <2>1. PICK v : v = Tail(parts)
    OBVIOUS
  <2>2. IsList(v) /\ Len(parts) \in Nat /\ Len(v) = Len(parts) - 1
    BY <2>1, ListTail
  <2>3. Len(parts) = 1 <=> Len(v) = 0
    BY <2>2
  <2> QED BY <2>1, <2>2, <2>3, ListEmpty
<1>6. \A x, d : ~HasCancel(t, x, d) /\ OneCancel(t, x, d)
  BY <1>2, <1>3, <1>4 DEF HasCancel, OneCancel, IsCancel
<1>7. \A d \in Conns : Parsing(d)' = IF d = c THEN Tail(parts) ELSE << >>
  BY <1>2, <1>4, <1>5 DEF Parsing
<1>8. CallOk(a)'
  BY <1>4 DEF CallOk, Lasting
<1>9. a.k = "parse" => ParseOk(a)'
  BY <1>4, <1>5 DEF ParseOk
<1>10. Final' = a
  BY <1>2 DEF Final
<1>11. \A i \in 1..Len(imm') : ImmOk(imm'[i])
  OBVIOUS
<1>12. \A i \in 1..Len(imm') : imm'[i].c = c /\ imm'[i].fd = conn'[c].fd /\ 1 \in 1..Len(imm')
  BY DEF IsList
<1>13. \A i \in 1..Len(imm') : imm'[i].c = imm'[1].c /\ imm'[i].fd = imm'[1].fd
  BY <1>12
<1>14. /\ \A i \in 1..Len(t) : CallOk(t[i])' /\ (t[i].k \in Lasting => i = Len(t))
       /\ a.k \in Lasting /\ a.k # "clear"
  BY <1>2, <1>3, <1>4, <1>8 DEF Lasting
<1>15. Phases'
  <2>1. \A i \in 1..Len(todo') : CallOk(todo[i])' /\ (todo'[i].k \in Lasting => i = Len(todo'))
    BY <1>2, <1>8, <1>14
  <2> QED BY <1>2, <1>9, <1>10, <1>11, <1>12, <1>13, <1>14, <2>1 DEF Phases
<1> QED BY <1>2, <1>6, <1>7, <1>15

LEMMA ParseStream ==
  ASSUME MsgrInv, NEW c \in Conns, NEW parts, IsList(parts), parts # << >>, rd[c].got = << >>,
         Parsing(c) = parts, Reads(c), rd'[c].got = << >>, UNCHANGED net,
         Parsing(c)' = Tail(parts), \A r \in Reqs : ~IsReq(parts[1], r) => req'[r] = req[r],
         rd'[c].op.x # None <=> Wants(parts[1])
  PROVE  /\ StreamOk(Stream(c), rd[c].op.x # None, req)'
         /\ \A r \in Reqs : HasReq(Stream(c), r)' => HasReq(Stream(c), r)
<1>1. NetShape /\ Streams
  BY DEF MsgrInv, Shape
<1>2. PICK m, s, q, q2 : m = net[c].in /\ s = parts \o m /\ q = req /\ q2 = req'
  OBVIOUS
<1>3. IsList(m) /\ << >> \o m = m
  BY <1>1, <1>2, EmptyCat DEF NetShape
<1>4. Stream(c) = s
  BY <1>2, <1>3 DEF Stream
<1>5. PICK v : v = Tail(parts) \o m
  OBVIOUS
<1>6. Stream(c)' = v
  BY <1>2, <1>3, <1>5 DEF Stream
<1>7. v = Tail(s)
  BY <1>2, <1>3, <1>5, TailCat
<1>8. IsList(s) /\ s # << >> /\ s[1] = parts[1]
  <2>1. PICK l : l = Len(parts)
    OBVIOUS
  <2>2. l \in Nat /\ l > 0 /\ 1 \in 1..l
    BY <2>1, ListTail
  <2>3. IsList(s) /\ Len(s) = l + Len(m) /\ \A i \in 1..l : s[i] = parts[i]
    BY <1>2, <1>3, <2>1, ListCat
  <2>4. Len(s) # 0
    BY <1>3, <2>2, <2>3 DEF IsList
  <2> QED BY <2>2, <2>3, <2>4, ListOne
<1>9. PICK p : p = (rd[c].op.x # None) /\ StreamOk(s, p, q)
  BY <1>1, <1>2, <1>4 DEF Streams, ReadOk
<1>10. \A r \in Reqs : q[r].st = "wire" /\ ~IsReq(s[1], r) => q2[r].st = "wire"
  BY <1>2, <1>8
<1>11. StreamOk(Tail(s), Wants(s[1]), q2) /\ \A r \in Reqs : HasReq(Tail(s), r) => HasReq(s, r)
  BY <1>8, <1>9, <1>10, StreamTail
<1>12. StreamOk(v, rd'[c].op.x # None, req')
  <2>1. PICK b, e : b = Wants(s[1]) /\ e = (rd'[c].op.x # None)
    OBVIOUS
  <2>2. b <=> e
    BY <1>8, <2>1
  <2>3. StreamOk(v, b, q2)
    BY <1>7, <1>11, <2>1
  <2>4. StreamOk(v, e, q2)
    BY <2>2, <2>3 DEF StreamOk
  <2> QED BY <1>2, <2>1, <2>4
<1>13. StreamOk(Stream(c), rd[c].op.x # None, req)'
  BY <1>6, <1>12 DEF StreamOk
<1>14. \A r \in Reqs : HasReq(Stream(c), r)' => HasReq(Stream(c), r)
  <2> SUFFICES ASSUME NEW r \in Reqs, HasReq(Stream(c), r)' PROVE HasReq(Stream(c), r)
    OBVIOUS
  <2>1. HasReq(v, r)
    BY <1>6 DEF HasReq
  <2> QED BY <1>4, <1>7, <1>11, <2>1
<1> QED BY <1>13, <1>14

(* The first piece, as the stream has it. *)
LEMMA FirstPiece ==
  ASSUME MsgrInv, NEW c \in Conns, NEW parts, IsList(parts), parts # << >>, rd[c].got = << >>,
         Parsing(c) = parts, Reads(c), NEW p, p = Head(parts)
  PROVE  /\ p = parts[1] /\ (p.k = "data" <=> rd[c].op.x # None)
         /\ p.k = "req" => p.x \in Reqs /\ req[p.x].st = "wire" /\ HasReq(Stream(c), p.x)
<1>1. NetShape /\ Streams
  BY DEF MsgrInv, Shape
<1>2. PICK m, s : m = net[c].in /\ s = parts \o m
  OBVIOUS
<1>3. IsList(m) /\ << >> \o m = m
  BY <1>1, <1>2, EmptyCat DEF NetShape
<1>4. Stream(c) = s
  BY <1>2, <1>3 DEF Stream
<1>5. 1 \in 1..Len(s) /\ s[1] = parts[1] /\ p = parts[1]
  <2>1. PICK l : l = Len(parts)
    OBVIOUS
  <2>2. l \in Nat /\ l > 0 /\ 1 \in 1..l /\ p = parts[1]
    BY <2>1, ListTail
  <2>3. IsList(s) /\ Len(s) = l + Len(m) /\ \A i \in 1..l : s[i] = parts[i]
    BY <1>2, <1>3, <2>1, ListCat
  <2>4. Len(s) \in Nat /\ Len(s) >= 1
    BY <1>3, <2>2, <2>3 DEF IsList
  <2> QED BY <2>2, <2>3, <2>4
<1>6. StreamOk(s, rd[c].op.x # None, req)
  BY <1>1, <1>4 DEF Streams, ReadOk
<1>7. s[1].k = "data" <=> rd[c].op.x # None
  BY <1>5, <1>6 DEF StreamOk
<1>8. s[1].k = "req" => s[1].x \in Reqs /\ req[s[1].x].st = "wire"
  BY <1>5, <1>6 DEF StreamOk
<1>9. s[1].k = "req" => HasReq(s, s[1].x)
  BY <1>5 DEF HasReq, IsReq
<1> QED BY <1>4, <1>5, <1>7, <1>8, <1>9

(* Garbage: the connection is stopped, and what it read is dropped. *)
LEMMA DropOk ==
  ASSUME MsgrInv, NEW c, NEW parts, Call("parse"), c = Head(todo).c, parts = Head(todo).parts,
         conn' = [conn EXCEPT ![c].ping = 0, ![c].idle = IdleTime],
         todo' = <<StopCall(conn[c].fd, FALSE, c), ClearCall(conn[c].fd)>>,
         UNCHANGED <<rd, wr, sent, received, net, clients, peerfd, imm, req, called, pushed, lost, replies>>
  PROVE  MsgrInv'
<1>1. Shape /\ Holding /\ Phases
  BY DEF MsgrInv
<1>2. ConnShape /\ ReadShape /\ OpsShape /\ TableShape
  BY <1>1 DEF Shape
<1>3. /\ c \in Conns /\ conn[c].st = "connected" /\ conn[c].fd \in Fds
      /\ rd[c].got = << >> /\ NoDrop
      /\ \A x, d : ~HasCancel(todo, x, d) /\ OneCancel(todo, x, d)
      /\ \A i \in 1..Len(imm) : imm[i].c = c /\ imm[i].fd = conn[c].fd /\ ImmOk(imm[i])
      /\ \A d \in Conns : d # c => Parsing(d) = << >>
  BY ParseFacts
<1>4. ConnShape' /\ \A d \in Conns : SameConn(d)
  BY <1>2 DEF ConnShape, SameConn
<1>5. PICK a, b, t, f : a = StopCall(f, FALSE, c) /\ b = ClearCall(f) /\ t = <<a, b>> /\ f = conn[c].fd
  OBVIOUS
<1>6. IsList(t) /\ Len(t) = 2 /\ t[1] = a /\ t[2] = b /\ t # << >> /\ todo' = t
  BY <1>5, ListOne
<1>7. a.k = "stop" /\ a.fd = f /\ b.k = "clear" /\ b.fd = f
  BY <1>5 DEF StopCall, ClearCall
<1>8. \A i \in 1..Len(t) : i = 1 \/ i = 2
  BY <1>6
<1>9. \A x, d : ~HasCancel(t, x, d) /\ OneCancel(t, x, d)
  BY <1>6, <1>7, <1>8 DEF HasCancel, OneCancel, IsCancel
<1>10. Phases'
  <2>1. CallOk(a)' /\ CallOk(b)'
    BY <1>3, <1>5, <1>7 DEF CallOk, Lasting
  <2>2. \A i \in 1..Len(todo') : CallOk(todo[i])' /\ (todo'[i].k \in Lasting => i = Len(todo'))
    BY <1>6, <1>7, <1>8, <2>1 DEF Lasting
  <2>3. Final' = b
    BY <1>6 DEF Final
  <2>4. \A i \in 1..Len(imm') : imm'[i].fd = f /\ imm'[i].c = c /\ ImmOk(imm'[i]) /\ 1 \in 1..Len(imm')
    BY <1>2, <1>3, <1>5 DEF TableShape, IsList
  <2> QED BY <1>6, <1>7, <2>2, <2>3, <2>4 DEF Phases, Lasting
<1>11. ReadShape' /\ OpsShape' /\ TableShape'
  BY <1>2, <1>6 DEF ReadShape, OpsShape, TableShape
<1>12. SameCancels
  BY <1>3, <1>6, <1>9 DEF SameCancels
<1>13. Holding' /\ \A x \in Held1, d \in Conns : Somewhere(x, d)' <=> Somewhere(x, d)
  <2>1. \A x \in Held1, d \in Conns : SameHeld(x, d)
    BY <1>12 DEF SameHeld, SameCancels
  <2> QED BY <1>1, <2>1, HoldingKept
<1>14. \A d \in Conns : d # c => Parsing(d)' = Parsing(d)
  BY <1>3, <1>6, <1>7 DEF Parsing
<1>15. ~Reads(c)'
  BY <1>3, <1>4, <1>5, <1>6, <1>7 DEF Reads, Dropping, SameConn
<1>16. \A r \in Reqs : ReqKept(r, c)
  BY DEF ReqKept
<1>17. Conf \in Held1
  BY Apart
<1> QED BY <1>3, <1>4, <1>10, <1>11, <1>13, <1>14, <1>15, <1>16, <1>17, ParseStep

(* A message moves from one place of connection c to another one. *)
LEMMA MoveStep ==
  ASSUME MsgrInv, NEW c \in Conns, NEW parts, IsList(parts), parts # << >>, conn[c].st = "connected",
         rd[c].got = << >>, ~rd[c].busy, NoDrop, Reads(c),
         \A i \in 1..Len(imm) : imm[i].c = c /\ imm[i].fd = conn[c].fd /\ ImmOk(imm[i]),
         \A d \in Conns : Parsing(d) = IF d = c THEN parts ELSE << >>,
         conn' = [conn EXCEPT ![c].ping = 0, ![c].idle = IdleTime],
         todo' = <<NextCall(c, parts)>>,
         \A d \in Conns : d # c => rd'[d] = rd[d] /\ sent'[d] = sent[d] /\ received'[d] = received[d],
         ReadShape', OpsShape', IsList(imm'), rd'[c].got = << >>, ~rd'[c].busy,
         \A i \in 1..Len(imm') : imm'[i].c = c /\ imm'[i].fd = conn[c].fd /\ ImmOk(imm'[i]),
         Holding',
         \A x \in Held1, d \in Conns : d # c => (Somewhere(x, d)' => Somewhere(x, d)),
         Somewhere(Conf, c)' => Somewhere(Conf, c),
         \A r \in Reqs : ~IsReq(parts[1], r) => req'[r] = req[r],
         \A r \in Reqs : ReqKept(r, c),
         rd'[c].op.x # None <=> Wants(parts[1]),
         \A r \in received'[c] : r \in received[c] \/ (req'[r].c = c /\ Begun(r)'),
         UNCHANGED <<wr, net, clients, peerfd, called, pushed, lost, replies>>
  PROVE  MsgrInv'
<1>1. ConnShape /\ TableShape
  BY DEF MsgrInv, Shape
<1>2. ConnShape' /\ \A d \in Conns : SameConn(d)
  BY <1>1 DEF ConnShape, SameConn
<1>3. conn'[c].fd = conn[c].fd /\ conn'[c].st = "connected"
  BY <1>2 DEF SameConn
<1>4. /\ Phases' /\ IsList(todo')
      /\ \A d \in Conns : Parsing(d)' = IF d = c THEN Tail(parts) ELSE << >>
  BY <1>3, MorePhases
<1>5. TableShape'
  BY <1>1, <1>4 DEF TableShape
<1>6. \A d \in Conns : d # c => Parsing(d)' = Parsing(d)
  BY <1>4
<1>7. Parsing(c) = parts /\ Parsing(c)' = Tail(parts)
  BY <1>4
<1>8. /\ StreamOk(Stream(c), rd[c].op.x # None, req)'
      /\ \A r \in Reqs : HasReq(Stream(c), r)' => HasReq(Stream(c), r)
  BY <1>7, ParseStream
<1> QED BY <1>2, <1>4, <1>5, <1>6, <1>8, ParseStep

LEMMA NextCalls ==
  ASSUME NEW c \in Conns, NEW parts, IsList(parts), parts # << >>, todo' = <<NextCall(c, parts)>>
  PROVE  \A x, d : ~HasCancel(todo', x, d) /\ OneCancel(todo', x, d)
<1>1. PICK a, t : a = NextCall(c, parts) /\ t = <<a>>
  OBVIOUS
<1>2. IsList(t) /\ Len(t) = 1 /\ t[1] = a /\ t # << >> /\ todo' = t
  BY <1>1, ListOne
<1>3. \A i \in 1..Len(t) : i = 1
  BY <1>2
<1>4. a.k # "cancel"
  BY <1>1 DEF NextCall, ImmCall, ParseCall
<1> QED BY <1>2, <1>3, <1>4 DEF HasCancel, OneCancel, IsCancel

(* All the immediate operations of s are of connection c. *)
OfConn(s, c) == \A i \in 1..Len(s) : s[i].c = c /\ s[i].fd = conn[c].fd /\ ImmOk(s[i])
Added(s, u, x, c) ==
  \A y, d : /\ HasImm(u, y, d) <=> (y = x /\ d = c) \/ HasImm(s, y, d)
            /\ OneImm(s, y, d) /\ ~(y = x /\ d = c /\ HasImm(s, y, d)) => OneImm(u, y, d)

LEMMA AppendOps ==
  ASSUME NEW s, IsList(s), NEW c \in Conns, NEW x, x \in Outgoing \/ x \in Reqs, NEW ok,
         conn[c].fd \in Fds, OfConn(s, c), NEW u, u = Append(s, Immediate(x, c, ok))
  PROVE  IsList(u) /\ OfConn(u, c) /\ Added(s, u, x, c)
<1>1. PICK e : e = Immediate(x, c, ok)
  OBVIOUS
<1>2. e.x = x /\ e.c = c /\ e.fd = conn[c].fd /\ ImmOk(e)
  BY <1>1 DEF Immediate, ImmOk
<1>3. /\ IsList(u) /\ Len(s) \in Nat /\ Len(u) = Len(s) + 1 /\ u[Len(s) + 1] = e
      /\ \A i \in 1..Len(s) : u[i] = s[i]
  BY <1>1, ListAppend DEF IsList
<1>4. ASSUME NEW i \in 1..Len(u)
      PROVE  u[i] = e \/ (i \in 1..Len(s) /\ u[i] = s[i])
  <2>1. i \in 1..Len(s) \/ i = Len(s) + 1
    BY <1>3
  <2> QED BY <1>3, <2>1
<1>5. OfConn(u, c)
  BY <1>2, <1>4 DEF OfConn
<1>6. \A y, d : IsImm(e, y, d) <=> y = x /\ d = c
  BY <1>2 DEF IsImm
<1>7. \A y, d : /\ HasImm(u, y, d) <=> IsImm(e, y, d) \/ HasImm(s, y, d)
                /\ OneImm(s, y, d) /\ ~(IsImm(e, y, d) /\ HasImm(s, y, d)) => OneImm(u, y, d)
  BY <1>1, AppendImm
<1> QED BY <1>3, <1>5, <1>6, <1>7 DEF Added

(* read_op is an operation or a request. *)
ReadOps == \A c \in Conns : rd[c].op.x \in Outgoing \union Reqs \union {None}

(* The answer to an operation. *)
LEMMA ReplyHdrOk ==
  ASSUME MsgrInv, NEW c, NEW parts, Call("parse"), c = Head(todo).c, parts = Head(todo).parts,
         NEW p, p = Head(parts), p.k = "reply", HandleReplyHdr(c, p.x, p.ok),
         conn' = [conn EXCEPT ![c].ping = 0, ![c].idle = IdleTime],
         todo' = <<NextCall(c, parts)>>,
         UNCHANGED <<wr, net, clients, peerfd, called, pushed, lost, replies>>
  PROVE  MsgrInv'
<1>1. Shape /\ Holding /\ Phases
  BY DEF MsgrInv
<1>2. ConnShape /\ ReadShape /\ OpsShape /\ TableShape
  BY <1>1 DEF Shape
<1>3. /\ c \in Conns /\ IsList(parts) /\ parts # << >> /\ conn[c].st = "connected" /\ conn[c].fd \in Fds
      /\ rd[c].got = << >> /\ ~rd[c].busy /\ NoDrop /\ Reads(c)
      /\ \A x, d : ~HasCancel(todo, x, d) /\ OneCancel(todo, x, d)
      /\ \A i \in 1..Len(imm) : imm[i].c = c /\ imm[i].fd = conn[c].fd /\ ImmOk(imm[i])
      /\ \A d \in Conns : Parsing(d) = IF d = c THEN parts ELSE << >>
  BY ParseFacts
<1>4. p = parts[1] /\ rd[c].op.x = None
  BY <1>3, FirstPiece
<1>5. PICK x, ok : x = p.x /\ ok = p.ok
  OBVIOUS
<1>6. /\ x \in sent[c] /\ sent' = [sent EXCEPT ![c] = @ \ {x}]
      /\ UNCHANGED <<received, req>>
      /\ \/ x \in GetsData /\ rd' = [rd EXCEPT ![c].op = [x |-> x, ok |-> ok]] /\ imm' = imm
         \/ x \notin GetsData /\ imm' = Append(imm, Immediate(x, c, ok)) /\ rd' = rd
  BY <1>5 DEF HandleReplyHdr
<1>7. x \in Outgoing /\ x # None /\ None \notin Held1 /\ Conf \in Held1
  BY <1>2, <1>3, <1>6, MessengerAssumption DEF OpsShape, Outgoing, Held1
<1>8. sent'[c] = sent[c] \ {x} /\ \A d \in Conns : d # c => sent'[d] = sent[d]
  BY <1>2, <1>3, <1>6 DEF OpsShape
<1>9. OpsShape'
  BY <1>2, <1>3, <1>6, <1>8 DEF OpsShape
<1>10. /\ ReadShape' /\ rd'[c].got = << >> /\ ~rd'[c].busy
       /\ \A d \in Conns : d # c => rd'[d] = rd[d]
       /\ rd'[c].op.x = IF x \in GetsData THEN x ELSE None
  BY <1>2, <1>3, <1>4, <1>6 DEF ReadShape
<1>11. /\ IsList(imm')
       /\ \A i \in 1..Len(imm') : imm'[i].c = c /\ imm'[i].fd = conn[c].fd /\ ImmOk(imm'[i])
       /\ \A y, d : /\ HasImm(imm', y, d) <=> (x \notin GetsData /\ y = x /\ d = c) \/ HasImm(imm, y, d)
                    /\ OneImm(imm, y, d) /\ ~(y = x /\ d = c /\ HasImm(imm, y, d)) => OneImm(imm', y, d)
  <2>1. IsList(imm)
    BY <1>2 DEF TableShape
  <2>2. CASE x \in GetsData
    BY <1>3, <1>6, <2>1, <2>2
  <2>3. CASE x \notin GetsData
    <3>1. PICK s, u, n : s = imm /\ u = imm' /\ n = ok
      OBVIOUS
    <3>2. u = Append(s, Immediate(x, c, n)) /\ IsList(s) /\ OfConn(s, c) /\ c \in Conns /\ conn[c].fd \in Fds
      BY <1>3, <1>6, <2>1, <2>3, <3>1 DEF OfConn
    <3>3. IsList(u) /\ OfConn(u, c) /\ Added(s, u, x, c)
      BY <1>7, <3>2, AppendOps
    <3> QED BY <2>3, <3>1, <3>3 DEF OfConn, Added
  <2> QED BY <2>2, <2>3
<1>12. \A y, d : ~HasCancel(todo', y, d) /\ OneCancel(todo', y, d)
  BY <1>3, NextCalls
<1>13. ASSUME NEW y \in Held1, NEW d \in Conns
       PROVE  One(y, d)' /\ (Somewhere(y, d)' <=> Somewhere(y, d))
  <2>1. One(y, d) /\ y # None
    BY <1>1, <1>7 DEF Holding
  <2>2. CASE y = x /\ d = c
    <3>1. y \in sent[d] /\ y \notin sent'[d] /\ ~HasImm(imm, y, d) /\ rd[d].op.x # y
      BY <1>6, <1>8, <2>1, <2>2 DEF One
    <3> QED BY <1>10, <1>11, <1>12, <2>1, <2>2, <3>1 DEF One, Somewhere
  <2>3. CASE ~(y = x /\ d = c)
    <3>1. y \in sent'[d] <=> y \in sent[d]
      BY <1>8, <2>3
    <3>2. rd'[d].op.x = y <=> rd[d].op.x = y
      BY <1>4, <1>10, <2>1, <2>3
    <3> QED BY <1>3, <1>11, <1>12, <2>1, <2>3, <3>1, <3>2 DEF One, Somewhere
  <2> QED BY <2>2, <2>3
<1>14. Holding'
  <2>1. \A op \in Ops : /\ called'[op] \in {0, 1}
                        /\ Waits(op)' <=> Waits(op)
                        /\ Fresh(op)'
    BY <1>1 DEF Holding, Waits, Fresh, Lost
  <2>6. PICK R : R = {}
    OBVIOUS
  <2>2. \A y, d : <<y, d>> \notin R
    BY <2>6
  <2>3. /\ \A y \in Held1, d \in Conns : One(y, d)'
        /\ \A y \in Held1, d \in Conns : Somewhere(y, d)' <=> Somewhere(y, d) /\ <<y, d>> \notin R
        /\ \A y \in Held1, d \in Conns : <<y, d>> \in R => Somewhere(y, d)
    BY <1>13, <2>2
  <2>4. \A op \in Ops : Waits(op)' <=> Waits(op) /\ \A d \in Conns : <<op, d>> \notin R
    BY <2>1, <2>2
  <2>5. \A r \in Reqs : req'[r] = req[r]
    BY <1>6
  <2> QED BY <1>1, <2>1, <2>3, <2>4, <2>5, HoldingLess
<1>15. Wants(parts[1]) <=> x \in GetsData
  BY <1>4, <1>5 DEF Wants
<1>16. \A r \in Reqs : ReqKept(r, c) /\ req'[r] = req[r]
  BY <1>6 DEF ReqKept
<1>17. rd'[c].op.x # None <=> Wants(parts[1])
  BY <1>7, <1>10, <1>15
<1>18. \A d \in Conns : d # c => rd'[d] = rd[d] /\ sent'[d] = sent[d] /\ received'[d] = received[d]
  BY <1>6, <1>8, <1>10
<1>19. \A r \in received'[c] : r \in received[c]
  BY <1>6
<1> QED BY <1>3, <1>7, <1>9, <1>10, <1>11, <1>13, <1>14, <1>16, <1>17, <1>18, <1>19, MoveStep

(* A request. *)
LEMMA OpHdrOk ==
  ASSUME MsgrInv, NEW c, NEW parts, Call("parse"), c = Head(todo).c, parts = Head(todo).parts,
         NEW p, p = Head(parts), p.k = "req", HandleOpHdr(c, p.x),
         conn' = [conn EXCEPT ![c].ping = 0, ![c].idle = IdleTime],
         todo' = <<NextCall(c, parts)>>,
         UNCHANGED <<wr, net, clients, peerfd, called, pushed, lost, replies>>
  PROVE  MsgrInv'
<1>1. Shape /\ Holding /\ Phases
  BY DEF MsgrInv
<1>2. ConnShape /\ ReadShape /\ OpsShape /\ TableShape
  BY <1>1 DEF Shape
<1>3. /\ c \in Conns /\ IsList(parts) /\ parts # << >> /\ conn[c].st = "connected" /\ conn[c].fd \in Fds
      /\ rd[c].got = << >> /\ ~rd[c].busy /\ NoDrop /\ Reads(c)
      /\ \A x, d : ~HasCancel(todo, x, d) /\ OneCancel(todo, x, d)
      /\ \A i \in 1..Len(imm) : imm[i].c = c /\ imm[i].fd = conn[c].fd /\ ImmOk(imm[i])
      /\ \A d \in Conns : Parsing(d) = IF d = c THEN parts ELSE << >>
  BY ParseFacts
<1>4. /\ p = parts[1] /\ rd[c].op.x = None
      /\ p.x \in Reqs /\ req[p.x].st = "wire" /\ HasReq(Stream(c), p.x)
  BY <1>3, FirstPiece
<1>5. PICK x \in Reqs : x = p.x
  BY <1>4
<1>6. /\ req' = [req EXCEPT ![x] = [st |-> "read", c |-> c, fd |-> conn[c].fd]]
      /\ sent' = sent
      /\ \/ /\ x \in GetsData /\ rd' = [rd EXCEPT ![c].op = [x |-> x, ok |-> TRUE]]
            /\ imm' = imm /\ received' = received
         \/ /\ x \notin GetsData /\ imm' = Append(imm, Immediate(x, c, TRUE)) /\ rd' = rd
            /\ received' = [received EXCEPT ![c] = @ \union {x}]
  BY <1>5 DEF HandleOpHdr
<1>7. x # None /\ None \notin Held1 /\ Conf \in Held1 /\ x \in Held1 /\ x \notin Ops /\ x # Conf
  BY MessengerAssumption DEF Held1
<1>8. /\ req'[x].st = "read" /\ req'[x].c = c /\ req'[x].fd = conn[c].fd
      /\ \A r \in Reqs : r # x => req'[r] = req[r]
  BY <1>2, <1>6 DEF OpsShape
<1>9. /\ \A d \in Conns : d # c => received'[d] = received[d]
      /\ \A r \in received'[c] : r \in received[c] \/ r = x
      /\ received' = [d \in Conns |-> received'[d]]
  <2>1. received = [d \in Conns |-> received[d]]
    BY <1>2 DEF OpsShape
  <2>2. CASE received' = received
    BY <2>1, <2>2
  <2>3. CASE received' = [received EXCEPT ![c] = @ \union {x}]
    BY <1>3, <2>1, <2>3
  <2> QED BY <1>6, <2>2, <2>3
<1>10. OpsShape'
  <2>1. req' = [r \in Reqs |-> req'[r]] /\ \A r \in Reqs : DOMAIN req'[r] = {"st", "c", "fd"}
    BY <1>2, <1>6 DEF OpsShape
  <2>2. \A d \in Conns : received'[d] \subseteq Reqs
    BY <1>2, <1>9 DEF OpsShape
  <2> QED BY <1>2, <1>6, <1>9, <2>1, <2>2 DEF OpsShape
<1>11. /\ ReadShape' /\ rd'[c].got = << >> /\ ~rd'[c].busy
       /\ \A d \in Conns : d # c => rd'[d] = rd[d]
       /\ rd'[c].op.x = IF x \in GetsData THEN x ELSE None
  <2>1. CASE x \in GetsData
    <3>1. rd' = [rd EXCEPT ![c].op = [x |-> x, ok |-> TRUE]]
      BY <1>6, <2>1
    <3> QED BY <1>2, <1>3, <2>1, <3>1 DEF ReadShape
  <2>2. CASE x \notin GetsData
    <3>1. rd' = rd
      BY <1>6, <2>2
    <3> QED BY <1>2, <1>3, <1>4, <2>2, <3>1 DEF ReadShape
  <2> QED BY <2>1, <2>2
<1>12. /\ IsList(imm')
       /\ \A i \in 1..Len(imm') : imm'[i].c = c /\ imm'[i].fd = conn[c].fd /\ ImmOk(imm'[i])
       /\ \A y, d : /\ HasImm(imm', y, d) <=> (x \notin GetsData /\ y = x /\ d = c) \/ HasImm(imm, y, d)
                    /\ OneImm(imm, y, d) /\ ~(y = x /\ d = c /\ HasImm(imm, y, d)) => OneImm(imm', y, d)
  <2>1. IsList(imm)
    BY <1>2 DEF TableShape
  <2>2. CASE x \in GetsData
    BY <1>3, <1>6, <2>1, <2>2
  <2>3. CASE x \notin GetsData
    <3>1. PICK s, u, n : s = imm /\ u = imm' /\ n = TRUE
      OBVIOUS
    <3>2. u = Append(s, Immediate(x, c, n)) /\ IsList(s) /\ OfConn(s, c) /\ c \in Conns /\ conn[c].fd \in Fds
      BY <1>3, <1>6, <2>1, <2>3, <3>1 DEF OfConn
    <3>3. IsList(u) /\ OfConn(u, c) /\ Added(s, u, x, c)
      BY <3>2, AppendOps
    <3> QED BY <2>3, <3>1, <3>3 DEF OfConn, Added
  <2> QED BY <2>2, <2>3
<1>13. \A y, d : ~HasCancel(todo', y, d) /\ OneCancel(todo', y, d)
  BY <1>3, NextCalls
<1>14. \A d \in Conns : ~Somewhere(x, d)
  BY <1>1, <1>4, <1>5 DEF Holding
<1>15. ASSUME NEW y \in Held1, NEW d \in Conns
       PROVE  One(y, d)' /\ (Somewhere(y, d)' <=> Somewhere(y, d) \/ (y = x /\ d = c))
  <2>1. One(y, d) /\ y # None
    BY <1>1, <1>7 DEF Holding
  <2>2. CASE y = x /\ d = c
    <3>1. y \notin sent[d] /\ ~HasImm(imm, y, d) /\ rd[d].op.x # y
      BY <1>14, <2>2 DEF Somewhere
    <3> QED BY <1>6, <1>11, <1>12, <1>13, <2>1, <2>2, <3>1 DEF One, Somewhere
  <2>3. CASE ~(y = x /\ d = c)
    <3>2. rd'[d].op.x = y <=> rd[d].op.x = y
      BY <1>4, <1>11, <2>1, <2>3
    <3> QED BY <1>3, <1>6, <1>12, <1>13, <2>1, <2>3, <3>2 DEF One, Somewhere
  <2> QED BY <2>2, <2>3
<1>16. Holding'
  <2>1. \A op \in Ops : /\ called'[op] \in {0, 1}
                        /\ Waits(op)' <=> Waits(op) \/ op = x
                        /\ Fresh(op)'
    BY <1>1, <1>7 DEF Holding, Waits, Fresh, Lost
  <2> QED BY <1>1, <1>3, <1>7, <1>8, <1>14, <1>15, <2>1, HoldingMore
<1>17. rd'[c].op.x # None <=> Wants(parts[1])
  BY <1>4, <1>5, <1>7, <1>11 DEF Wants
<1>18. \A r \in Reqs : ReqKept(r, c) /\ (~IsReq(parts[1], r) => req'[r] = req[r])
  BY <1>3, <1>4, <1>5, <1>8 DEF ReqKept, IsReq
<1>19. \A d \in Conns : d # c => rd'[d] = rd[d] /\ sent'[d] = sent[d] /\ received'[d] = received[d]
  BY <1>6, <1>9, <1>11
<1>20. \A r \in received'[c] : r \in received[c] \/ (req'[r].c = c /\ Begun(r)')
  BY <1>8, <1>9 DEF Begun
<1>21. /\ \A y \in Held1, d \in Conns : d # c => (Somewhere(y, d)' => Somewhere(y, d))
       /\ Somewhere(Conf, c)' => Somewhere(Conf, c)
  BY <1>3, <1>7, <1>15
<1> QED BY <1>3, <1>10, <1>11, <1>12, <1>16, <1>17, <1>18, <1>19, <1>20, <1>21, MoveStep

(* The data of read_op. *)
LEMMA DataOk ==
  ASSUME MsgrInv, ReadOps, NEW c, NEW parts, Call("parse"), c = Head(todo).c, parts = Head(todo).parts,
         NEW p, p = Head(parts), p.k = "data", HandleData(c),
         conn' = [conn EXCEPT ![c].ping = 0, ![c].idle = IdleTime],
         todo' = <<NextCall(c, parts)>>,
         UNCHANGED <<wr, net, clients, peerfd, called, pushed, lost, replies>>
  PROVE  MsgrInv'
<1>1. Shape /\ Holding /\ Phases
  BY DEF MsgrInv
<1>2. ConnShape /\ ReadShape /\ OpsShape /\ TableShape
  BY <1>1 DEF Shape
<1>3. /\ c \in Conns /\ IsList(parts) /\ parts # << >> /\ conn[c].st = "connected" /\ conn[c].fd \in Fds
      /\ rd[c].got = << >> /\ ~rd[c].busy /\ NoDrop /\ Reads(c)
      /\ \A x, d : ~HasCancel(todo, x, d) /\ OneCancel(todo, x, d)
      /\ \A i \in 1..Len(imm) : imm[i].c = c /\ imm[i].fd = conn[c].fd /\ ImmOk(imm[i])
      /\ \A d \in Conns : Parsing(d) = IF d = c THEN parts ELSE << >>
  BY ParseFacts
<1>4. p = parts[1] /\ rd[c].op.x # None
  BY <1>3, FirstPiece
<1>5. PICK x, ok : x = rd[c].op.x /\ ok = rd[c].op.ok
  OBVIOUS
<1>6. /\ imm' = Append(imm, Immediate(x, c, ok))
      /\ received' = [received EXCEPT ![c] = @ \union ({x} \intersect Reqs)]
      /\ rd' = [rd EXCEPT ![c].op = NoOp]
      /\ UNCHANGED <<sent, req>>
  BY <1>5 DEF HandleData
<1>7. x # None /\ None \notin Held1 /\ Conf \in Held1 /\ (x \in Outgoing \/ x \in Reqs)
  BY <1>3, <1>4, <1>5, MessengerAssumption DEF Held1, ReadOps
<1>8. /\ \A d \in Conns : d # c => received'[d] = received[d]
      /\ \A r \in received'[c] : r \in received[c] \/ (r = x /\ r \in Reqs)
      /\ received' = [d \in Conns |-> received'[d]]
  BY <1>2, <1>3, <1>6 DEF OpsShape
<1>9. OpsShape'
  <2>2. \A d \in Conns : received'[d] \subseteq Reqs
    BY <1>2, <1>8 DEF OpsShape
  <2> QED BY <1>2, <1>6, <1>8, <2>2 DEF OpsShape
<1>10. /\ ReadShape' /\ rd'[c].got = << >> /\ ~rd'[c].busy
       /\ \A d \in Conns : d # c => rd'[d] = rd[d]
       /\ rd'[c].op = NoOp
  BY <1>2, <1>3, <1>6 DEF ReadShape
<1>11. rd'[c].op.x = None
  BY <1>10 DEF NoOp
<1>12. /\ IsList(imm')
       /\ \A i \in 1..Len(imm') : imm'[i].c = c /\ imm'[i].fd = conn[c].fd /\ ImmOk(imm'[i])
       /\ \A y, d : /\ HasImm(imm', y, d) <=> (y = x /\ d = c) \/ HasImm(imm, y, d)
                    /\ OneImm(imm, y, d) /\ ~(y = x /\ d = c /\ HasImm(imm, y, d)) => OneImm(imm', y, d)
  <2>1. PICK s, u : s = imm /\ u = imm'
    OBVIOUS
  <2>2. u = Append(s, Immediate(x, c, ok)) /\ IsList(s) /\ OfConn(s, c) /\ c \in Conns /\ conn[c].fd \in Fds
    BY <1>2, <1>3, <1>6, <2>1 DEF OfConn, TableShape
  <2>3. IsList(u) /\ OfConn(u, c) /\ Added(s, u, x, c)
    BY <1>7, <2>2, AppendOps
  <2> QED BY <2>1, <2>3 DEF OfConn, Added
<1>13. \A y, d : ~HasCancel(todo', y, d) /\ OneCancel(todo', y, d)
  BY <1>3, NextCalls
<1>14. ASSUME NEW y \in Held1, NEW d \in Conns
       PROVE  One(y, d)' /\ (Somewhere(y, d)' <=> Somewhere(y, d))
  <2>1. One(y, d) /\ y # None
    BY <1>1, <1>7 DEF Holding
  <2>2. CASE y = x /\ d = c
    <3>1. y \notin sent[d] /\ ~HasImm(imm, y, d) /\ rd[d].op.x = y
      BY <1>5, <2>1, <2>2 DEF One
    <3> QED BY <1>6, <1>11, <1>12, <1>13, <2>1, <2>2, <3>1 DEF One, Somewhere
  <2>3. CASE ~(y = x /\ d = c)
    <3>2. rd'[d].op.x = y <=> rd[d].op.x = y
      BY <1>5, <1>10, <1>11, <2>1, <2>3
    <3> QED BY <1>3, <1>6, <1>12, <1>13, <2>1, <2>3, <3>2 DEF One, Somewhere
  <2> QED BY <2>2, <2>3
<1>15. Holding'
  <2>1. \A op \in Ops : /\ called'[op] \in {0, 1}
                        /\ Waits(op)' <=> Waits(op)
                        /\ Fresh(op)'
    BY <1>1 DEF Holding, Waits, Fresh, Lost
  <2>6. PICK R : R = {}
    OBVIOUS
  <2>2. \A y, d : <<y, d>> \notin R
    BY <2>6
  <2>3. /\ \A y \in Held1, d \in Conns : One(y, d)'
        /\ \A y \in Held1, d \in Conns : Somewhere(y, d)' <=> Somewhere(y, d) /\ <<y, d>> \notin R
        /\ \A y \in Held1, d \in Conns : <<y, d>> \in R => Somewhere(y, d)
    BY <1>14, <2>2
  <2>4. \A op \in Ops : Waits(op)' <=> Waits(op) /\ \A d \in Conns : <<op, d>> \notin R
    BY <2>1, <2>2
  <2>5. \A r \in Reqs : req'[r] = req[r]
    BY <1>6
  <2> QED BY <1>1, <2>1, <2>3, <2>4, <2>5, HoldingLess
<1>16. rd'[c].op.x # None <=> Wants(parts[1])
  BY <1>4, <1>11 DEF Wants
<1>17. \A r \in Reqs : ReqKept(r, c) /\ req'[r] = req[r]
  BY <1>6 DEF ReqKept
<1>18. \A d \in Conns : d # c => rd'[d] = rd[d] /\ sent'[d] = sent[d] /\ received'[d] = received[d]
  BY <1>6, <1>8, <1>10
<1>19. \A r \in received'[c] : r \in received[c] \/ (req'[r].c = c /\ Begun(r)')
  <2>1. x \in Reqs => req[x].st = "read" /\ req[x].c = c
    BY <1>1, <1>3, <1>5 DEF Holding, Somewhere
  <2> QED BY <1>6, <1>8, <2>1 DEF Begun
<1> QED BY <1>3, <1>7, <1>9, <1>10, <1>12, <1>14, <1>15, <1>16, <1>17, <1>18, <1>19, MoveStep

(* handle_read_buffer and handle_finished_read *)
LEMMA FinishedReadOk ==
  ASSUME MsgrInv, ReadOps, FinishedRead
  PROVE  MsgrInv'
<1>1. PICK c, parts, p : c = Head(todo).c /\ parts = Head(todo).parts /\ p = Head(parts)
  OBVIOUS
<1>2. Call("parse")
  BY DEF FinishedRead
<1>3. Rest = << >> /\ IsList(parts)
  BY <1>1, <1>2, ParseFacts
<1>4. /\ conn' = [conn EXCEPT ![c].ping = 0, ![c].idle = IdleTime]
      /\ UNCHANGED <<wr, net, clients, peerfd, called, pushed, lost, replies>>
  BY <1>1 DEF FinishedRead
<1>5. PICK a, b, e : a = NextCall(c, parts) /\ b = StopCall(conn[c].fd, FALSE, c) /\ e = ClearCall(conn[c].fd)
  OBVIOUS
<1>6. <<a>> \o << >> = <<a>> /\ <<b, e>> \o << >> = <<b, e>>
  BY ListOne, CatNothing
<1>7. \/ todo' = <<b, e>> \o Rest /\ UNCHANGED <<rd, sent, received, imm, req>>
      \/ /\ todo' = <<a>> \o Rest
         /\ \/ p.k = "reply" /\ HandleReplyHdr(c, p.x, p.ok)
            \/ p.k = "req" /\ HandleOpHdr(c, p.x)
            \/ p.k = "data" /\ HandleData(c)
  BY <1>1, <1>5 DEF FinishedRead, NextCall
<1>8. CASE todo' = <<b, e>> \o Rest /\ UNCHANGED <<rd, sent, received, imm, req>>
  BY <1>1, <1>2, <1>3, <1>4, <1>5, <1>6, <1>8, DropOk
<1>9. CASE todo' = <<a>> \o Rest /\ p.k = "reply" /\ HandleReplyHdr(c, p.x, p.ok)
  BY <1>1, <1>2, <1>3, <1>4, <1>5, <1>6, <1>9, ReplyHdrOk
<1>10. CASE todo' = <<a>> \o Rest /\ p.k = "req" /\ HandleOpHdr(c, p.x)
  BY <1>1, <1>2, <1>3, <1>4, <1>5, <1>6, <1>10, OpHdrOk
<1>11. CASE todo' = <<a>> \o Rest /\ p.k = "data" /\ HandleData(c)
  BY <1>1, <1>2, <1>3, <1>4, <1>5, <1>6, <1>11, DataOk
<1> QED BY <1>7, <1>8, <1>9, <1>10, <1>11

-----------------------------------------------------------------------------
(* The inductive invariant, and that every step keeps it. *)
MessengerInv == MsgrInv /\ ReadOps

LEMMA InitOk ==
  ASSUME Init
  PROVE  MessengerInv
<1>1. /\ conn = [c \in Conns |-> NewConn("new", None, None)]
      /\ rd = [c \in Conns |-> NewRead] /\ wr = [c \in Conns |-> NewWrite]
      /\ sent = [c \in Conns |-> {}] /\ received = [c \in Conns |-> {}]
      /\ net = [c \in Conns |-> NewSocket]
      /\ clients = [fd \in Fds |-> None] /\ peerfd = [o \in Osds |-> None]
      /\ imm = << >> /\ todo = << >>
      /\ pushed = {} /\ called = [op \in Ops |-> 0] /\ lost = {}
      /\ req = [r \in Reqs |-> [st |-> "new", c |-> None, fd |-> None]]
      /\ replies = {}
  BY DEF Init
<1>2. /\ IsList(imm) /\ Len(imm) = 0 /\ IsList(todo) /\ Len(todo) = 0 /\ imm = << >> /\ todo = << >>
      /\ IsList(<< >>)
  BY <1>1, ListOne
<1>3. Shape
  <2>1. ConnShape
    BY <1>1 DEF ConnShape, NewConn
  <2>2. ReadShape
    BY <1>1, <1>2 DEF ReadShape, NewRead
  <2>3. WriteShape
    BY <1>1, <1>2 DEF WriteShape, NewWrite
  <2>4. NetShape
    BY <1>1, <1>2 DEF NetShape, NewSocket
  <2>5. OpsShape
    BY <1>1 DEF OpsShape
  <2>6. TableShape
    BY <1>1, <1>2 DEF TableShape
  <2> QED BY <2>1, <2>2, <2>3, <2>4, <2>5, <2>6 DEF Shape
<1>4. \A c \in Conns : conn[c].st = "new" /\ Empty(c) /\ rd[c].op.x = None /\ received[c] = {}
  BY <1>1 DEF NewConn, Empty, NewRead, NoOp
<1>5. \A x \in Held1, c \in Conns : ~Somewhere(x, c) /\ One(x, c)
  <2>1. None \notin Held1
    BY MessengerAssumption DEF Held1
  <2>2. \A x, c : /\ ~HasImm(imm, x, c) /\ OneImm(imm, x, c)
                  /\ ~HasCancel(todo, x, c) /\ OneCancel(todo, x, c)
    BY <1>2 DEF HasImm, OneImm, HasCancel, OneCancel
  <2>3. \A c \in Conns : sent[c] = {}
    BY <1>1
  <2> QED BY <1>4, <2>1, <2>2, <2>3 DEF Somewhere, One
<1>6. Holding
  <2>1. Ops \subseteq Held1 /\ Reqs \subseteq Held1
    BY DEF Held1
  <2>2. \A op \in Ops : called[op] = 0 /\ ~Waits(op) /\ Fresh(op)
    BY <1>1 DEF Waits, Fresh, Lost
  <2> QED BY <1>5, <2>1, <2>2 DEF Holding
<1>7. Links
  <2>1. \A c \in Conns : ConnOk(c) /\ Quiet(c)
    BY <1>4, <1>5 DEF ConnOk, ConnStates, Up, Quiet
  <2> QED BY <1>1, <2>1 DEF Links, PeerOk
<1>8. Phases
  BY <1>2 DEF Phases
<1>9. Streams
  BY <1>4 DEF Streams, Reads
<1>10. Writes
  <2>1. \A r \in Reqs : ~Begun(r)
    BY <1>1 DEF Begun
  <2> QED BY <1>1, <1>4, <2>1 DEF Writes
<1>11. ReadOps
  BY <1>4 DEF ReadOps
<1> QED BY <1>3, <1>6, <1>7, <1>8, <1>9, <1>10, <1>11 DEF MessengerInv, MsgrInv

LEMMA StutterOk ==
  ASSUME MsgrInv, UNCHANGED vars
  PROVE  MsgrInv'
<1>1. UNCHANGED <<conn, rd, wr, sent, received, net, clients, peerfd, imm, todo, pushed, called, lost, req, replies>>
  BY DEF vars, connVars, msgrVars, histVars
<1>2. Shape /\ Holding /\ Links /\ Phases /\ Streams /\ Writes
  BY DEF MsgrInv
<1>3. Shape'
  BY <1>1, <1>2 DEF Shape, ConnShape, ReadShape, WriteShape, NetShape, OpsShape, TableShape
<1>4. Holding' /\ \A x \in Held1, c \in Conns : Somewhere(x, c)' <=> Somewhere(x, c)
  <2>1. \A x \in Held1, c \in Conns : SameHeld(x, c)
    BY <1>1 DEF SameHeld
  <2> QED BY <1>1, <1>2, <2>1, HoldingKept
<1>5. Links'
  <2>1. \A d \in Conns : conn[d].st \in {"new", "connecting", "deleted"} => Empty(d)'
    BY <1>1, <1>2 DEF Links, Quiet, Empty
  <2>2. \A d \in Conns : conn[d].st = "stopped" => ~wr'[d].q
    BY <1>1, <1>2 DEF Links, Quiet
  <2>3. \A d \in Conns : SameConn(d)
    BY <1>1 DEF SameConn
  <2>4. TableShape /\ Conf \in Held1
    BY <1>2 DEF Shape, Held1
  <2> QED BY <1>1, <1>2, <1>4, <2>1, <2>2, <2>3, <2>4, LinksKept
<1>6. Phases'
  BY <1>1, <1>2 DEF Phases, CallOk, ParseOk, Final
<1>7. Streams'
  <2>1. \A c \in Conns : (Reads(c)' <=> Reads(c)) /\ Stream(c)' = Stream(c)
    BY <1>1 DEF Reads, Dropping, Stream, Parsing
  <2>2. \A c \in Conns : Reads(c) => (~rd[c].busy => rd[c].got = << >>) /\ (rd[c].eof => rd[c].got = << >>)
    BY <1>2 DEF Streams, ReadOk
  <2>3. \A c \in Conns : Reads(c)' => SameStream(c)
    BY <1>1, <2>1 DEF SameStream
  <2> QED BY <1>1, <1>2, <2>1, <2>2, <2>3, StreamsKept
<1>8. Writes'
  <2>1. \A c \in Conns : conn'[c].st = "connected" => conn[c].st = "connected" /\ SameWrite(wr[c], wr'[c])
    BY <1>1 DEF SameWrite
  <2>2. OpsShape
    BY <1>2 DEF Shape
  <2> QED BY <1>1, <1>2, <2>1, <2>2, WritesKept DEF Begun
<1> QED BY <1>3, <1>4, <1>5, <1>6, <1>7, <1>8 DEF MsgrInv

LEMMA ReadOpsSame ==
  ASSUME ReadOps, \A c \in Conns : rd'[c].op = rd[c].op
  PROVE  ReadOps'
BY DEF ReadOps

LEMMA StopReads == ASSUME ReadShape, ReadOps, StopClient PROVE ReadOps'
<1>1. PICK a, fd, c : a = Head(todo) /\ fd = a.fd /\ c = clients[fd]
  OBVIOUS
<1>2. CASE Spared(c, a.force)
  <2>1. rd' = rd
    BY <1>1, <1>2 DEF StopClient
  <2> QED BY <2>1, ReadOpsSame
<1>3. CASE ~Spared(c, a.force)
  <2>1. rd' = [rd EXCEPT ![c].q = FALSE]
    BY <1>1, <1>3, ZenonT(30) DEF StopClient
  <2>2. \A d \in Conns : rd'[d].op = rd[d].op
    BY <2>1 DEF ReadShape
  <2> QED BY <2>2, ReadOpsSame
<1> QED BY <1>2, <1>3

LEMMA DeleteReads == ASSUME MsgrInv, ReadOps, DeleteClient PROVE ReadOps'
<1>1. ReadShape
  BY DEF MsgrInv, Shape
<1>2. PICK c : c = Head(todo).c
  OBVIOUS
<1>3. rd' = [rd EXCEPT ![c] = NewRead]
  BY <1>2 DEF DeleteClient
<1>4. \A d \in Conns : rd'[d].op = rd[d].op \/ rd'[d].op.x = None
  BY <1>1, <1>3 DEF ReadShape, NewRead, NoOp
<1> QED BY <1>4 DEF ReadOps

LEMMA ParseReads == ASSUME MsgrInv, ReadOps, FinishedRead PROVE ReadOps'
<1>1. ReadShape /\ OpsShape
  BY DEF MsgrInv, Shape
<1>2. PICK c, parts, p : c = Head(todo).c /\ parts = Head(todo).parts /\ p = Head(parts)
  OBVIOUS
<1>3. Call("parse")
  BY DEF FinishedRead
<1>4. c \in Conns /\ IsList(parts) /\ parts # << >> /\ rd[c].got = << >> /\ Reads(c) /\ Parsing(c) = parts
  BY <1>2, <1>3, ParseFacts
<1>5. p.k = "req" => p.x \in Reqs
  BY <1>2, <1>4, FirstPiece
<1>6. \/ rd' = rd
      \/ p.k = "reply" /\ p.x \in sent[c] /\ rd' = [rd EXCEPT ![c].op = [x |-> p.x, ok |-> p.ok]]
      \/ p.k = "req" /\ rd' = [rd EXCEPT ![c].op = [x |-> p.x, ok |-> TRUE]]
      \/ rd' = [rd EXCEPT ![c].op = NoOp]
  <2>1. \/ rd' = rd
        \/ p.k = "reply" /\ HandleReplyHdr(c, p.x, p.ok)
        \/ p.k = "req" /\ HandleOpHdr(c, p.x)
        \/ HandleData(c)
    BY <1>2 DEF FinishedRead
  <2>2. CASE p.k = "reply" /\ HandleReplyHdr(c, p.x, p.ok)
    BY <2>2 DEF HandleReplyHdr
  <2>3. CASE p.k = "req" /\ HandleOpHdr(c, p.x)
    BY <2>3 DEF HandleOpHdr
  <2>4. CASE HandleData(c)
    BY <2>4 DEF HandleData
  <2> QED BY <2>1, <2>2, <2>3, <2>4
<1>7. p.x \in sent[c] => p.x \in Outgoing
  BY <1>1, <1>4 DEF OpsShape
<1>8. \A d \in Conns : \/ rd'[d].op = rd[d].op
                       \/ rd'[d].op.x = p.x /\ (p.x \in Outgoing \/ p.x \in Reqs)
                       \/ rd'[d].op.x = None
  <2>1. CASE rd' = rd
    BY <2>1
  <2>2. CASE p.k = "reply" /\ p.x \in sent[c] /\ rd' = [rd EXCEPT ![c].op = [x |-> p.x, ok |-> p.ok]]
    BY <1>1, <1>4, <1>7, <2>2 DEF ReadShape
  <2>3. CASE p.k = "req" /\ rd' = [rd EXCEPT ![c].op = [x |-> p.x, ok |-> TRUE]]
    BY <1>1, <1>4, <1>5, <2>3 DEF ReadShape
  <2>4. CASE rd' = [rd EXCEPT ![c].op = NoOp]
    BY <1>1, <1>4, <2>4 DEF ReadShape, NoOp
  <2> QED BY <1>6, <2>1, <2>2, <2>3, <2>4
<1> QED BY <1>8 DEF ReadOps

LEMMA EventReads ==
  ASSUME MsgrInv, ReadOps, NEW c \in Conns, PeerIn(c) \/ ReadRequests(c) \/ HandleRead(c)
  PROVE  ReadOps'
<1>1. ReadShape
  BY DEF MsgrInv, Shape
<1>2. CASE PeerIn(c)
  BY <1>1, <1>2, ReadOpsSame DEF PeerIn, ReadShape
<1>3. CASE ReadRequests(c)
  BY <1>1, <1>3, ReadOpsSame DEF ReadRequests, ReadShape
<1>4. CASE HandleRead(c)
  BY <1>1, <1>4, ReadOpsSame DEF HandleRead, ReadShape
<1> QED BY <1>2, <1>3, <1>4

(* What may follow a callback, an event of the loop and a step of the peers. *)
LEMMA CallsOk == ASSUME MessengerInv, Calls PROVE MessengerInv'
<1>1. MsgrInv /\ ReadOps
  BY DEF MessengerInv
<1>2. MsgrInv'
  BY <1>1, StopClientOk, DeleteClientOk, CancelOpsOk, FinishedReadOk, ClearImmediateOpsOk, HandleImmediateOpOk,
     ImmediateOpsDoneOk, UserReactsOk, TryConnectPeerOk, OnConnectErrorOk, TickClientOk DEF Calls
<1>3. \/ rd' = rd
      \/ StopClient \/ DeleteClient \/ FinishedRead
  <2>1. CancelOps => rd' = rd
    BY DEF CancelOps
  <2>2. ClearImmediateOps => rd' = rd
    BY DEF ClearImmediateOps, connVars
  <2>3. HandleImmediateOp => rd' = rd
    BY DEF HandleImmediateOp
  <2>4. ImmediateOpsDone \/ UserReacts \/ OnConnectError => rd' = rd
    BY DEF ImmediateOpsDone, UserReacts, OnConnectError, connVars
  <2>5. TryConnectPeer => rd' = rd
    BY DEF TryConnectPeer
  <2>6. TickClient => rd' = rd
    BY DEF TickClient
  <2> QED BY <2>1, <2>2, <2>3, <2>4, <2>5, <2>6 DEF Calls
<1>4. ReadOps'
  BY <1>1, <1>3, ReadOpsSame, StopReads, DeleteReads, ParseReads DEF MsgrInv, Shape
<1> QED BY <1>2, <1>4 DEF MessengerInv

LEMMA LoopOk == ASSUME MessengerInv, NEW c \in Conns, LoopEvents(c) PROVE MessengerInv'
<1>1. MsgrInv /\ ReadOps
  BY DEF MessengerInv
<1>2. MsgrInv'
  BY <1>1, SendRepliesOk, HandleSendOk, HandleSendZcOk, PeerHupOk, PeerInOk, ReadRequestsOk, HandleReadOk
     DEF LoopEvents
<1>3. rd' = rd \/ PeerIn(c) \/ ReadRequests(c) \/ HandleRead(c)
  BY DEF LoopEvents, SendReplies, HandleSend, HandleSendZc, PeerHup, connVars
<1>4. ReadOps'
  BY <1>1, <1>3, ReadOpsSame, EventReads
<1> QED BY <1>2, <1>4 DEF MessengerInv

LEMMA ConnStepOk ==
  ASSUME MessengerInv, NEW c \in Conns,
         \/ Connected(c) \/ ConnectFails(c) \/ PeerBreaks(c)
         \/ \E fd \in Fds : AcceptConnection(c, fd)
         \/ \E x \in Outgoing : PeerAnswers(c, x)
         \/ \E r \in Reqs : PeerRequest(c, r)
  PROVE  MessengerInv'
<1>1. MsgrInv /\ ReadOps
  BY DEF MessengerInv
<1>2. MsgrInv'
  BY <1>1, ConnectedOk, ConnectFailsOk, PeerBreaksOk, AcceptConnectionOk, PeerAnswersOk, PeerRequestOk
<1>3. rd' = rd
  BY DEF Connected, ConnectFails, PeerBreaks, AcceptConnection, PeerAnswers, PeerRequest, connVars
<1> QED BY <1>1, <1>2, <1>3, ReadOpsSame DEF MessengerInv

LEMMA UserStepOk ==
  ASSUME MessengerInv, NEW o \in Osds,
         \/ RetryTimer(o)
         \/ \E changed \in BOOLEAN : UserConnect(o, changed)
         \/ \E op \in Ops : UserSend(op, o)
  PROVE  MessengerInv'
<1>1. MsgrInv /\ ReadOps
  BY DEF MessengerInv
<1>2. MsgrInv'
  BY <1>1, RetryTimerOk, UserConnectOk, UserSendOk
<1>3. rd' = rd
  BY DEF RetryTimer, UserConnect, UserSend, connVars
<1> QED BY <1>1, <1>2, <1>3, ReadOpsSame DEF MessengerInv

LEMMA NextOk == ASSUME MessengerInv, [Next]_vars PROVE MessengerInv'
<1>1. MsgrInv /\ ReadOps
  BY DEF MessengerInv
<1>2. CASE Tick
  <2>1. MsgrInv' /\ rd' = rd
    BY <1>1, <1>2, TickOk DEF Tick, connVars
  <2> QED BY <1>1, <2>1, ReadOpsSame DEF MessengerInv
<1>3. CASE \E r \in Reqs : Reply(r)
  <2>1. MsgrInv' /\ rd' = rd
    BY <1>1, <1>3, ReplyActionOk DEF Reply
  <2> QED BY <1>1, <2>1, ReadOpsSame DEF MessengerInv
<1>4. CASE UNCHANGED vars
  <2>1. MsgrInv' /\ rd' = rd
    BY <1>1, <1>4, StutterOk DEF vars, connVars
  <2> QED BY <1>1, <2>1, ReadOpsSame DEF MessengerInv
<1>5. CASE Calls
  BY <1>5, CallsOk
<1>6. ASSUME NEW c \in Conns,
             \/ LoopEvents(c) \/ Connected(c) \/ ConnectFails(c) \/ PeerBreaks(c)
             \/ \E fd \in Fds : AcceptConnection(c, fd)
             \/ \E x \in Outgoing : PeerAnswers(c, x)
             \/ \E r \in Reqs : PeerRequest(c, r)
      PROVE  MessengerInv'
  BY <1>6, LoopOk, ConnStepOk
<1>7. ASSUME NEW o \in Osds,
             \/ RetryTimer(o)
             \/ \E changed \in BOOLEAN : UserConnect(o, changed)
             \/ \E op \in Ops : UserSend(op, o)
      PROVE  MessengerInv'
  BY <1>7, UserStepOk
<1> QED BY <1>2, <1>3, <1>4, <1>5, <1>6, <1>7 DEF Next

(* The invariant holds in every reachable state, whatever the peers, the   *)
(* kernel and the user do: every message is in one place at most, todo and *)
(* the immediate operations agree, what is read is complete messages, and  *)
(* the batches that the kernel holds match the replies it sends.           *)
THEOREM MessengerInvariant == Spec => []MessengerInv
<1>1. Init => MessengerInv
  BY InitOk
<1>2. MessengerInv /\ [Next]_vars => MessengerInv'
  BY NextOk
<1> QED BY <1>1, <1>2, PTL DEF Spec

-----------------------------------------------------------------------------
(* Place h holds operation op for connection c. *)
At(h, op, c) ==
  \/ h = <<"sent", c>> /\ op \in sent[c]
  \/ h = <<"read", c>> /\ rd[c].op.x = op
  \/ \E i \in 1..Len(imm) : h = <<"imm", i>> /\ IsImm(imm[i], op, c)
  \/ \E i \in 1..Len(todo) : h = <<"cancel", i>> /\ IsCancel(todo[i], op, c)

LEMMA HoldersAt ==
  ASSUME MsgrInv, NEW op
  PROVE  /\ \A h \in Holders(op) : \E c \in Conns : At(h, op, c)
         /\ \A h : \A c \in Conns : At(h, op, c) => h \in Holders(op)
<1>1. TableShape /\ Phases
  BY DEF MsgrInv, Shape
<1>2. DOMAIN imm = 1..Len(imm) /\ DOMAIN todo = 1..Len(todo)
  BY <1>1 DEF TableShape, IsList
<1>3. \A i \in 1..Len(imm) : imm[i].c \in Conns
  BY <1>1 DEF Phases, ImmOk
<1>4. \A i \in 1..Len(todo) : todo[i].k = "cancel" => todo[i].c \in Conns
  BY <1>1 DEF Phases, CallOk
<1>5. ASSUME NEW h \in Holders(op) PROVE \E c \in Conns : At(h, op, c)
  <2>1. CASE \E c \in Conns : h = <<"sent", c>> /\ op \in sent[c]
    BY <2>1 DEF At
  <2>2. CASE \E c \in Conns : h = <<"read", c>> /\ rd[c].op.x = op
    BY <2>2 DEF At
  <2>3. CASE \E i \in 1..Len(imm) : h = <<"imm", i>> /\ imm[i].x = op
    BY <1>3, <2>3 DEF At, IsImm
  <2>4. CASE \E i \in 1..Len(todo) : h = <<"cancel", i>> /\ todo[i].k = "cancel" /\ op \in todo[i].ops
    BY <1>4, <2>4 DEF At, IsCancel
  <2> QED BY <1>2, <1>5, <2>1, <2>2, <2>3, <2>4 DEF Holders
<1>6. ASSUME NEW h, NEW c \in Conns, At(h, op, c) PROVE h \in Holders(op)
  BY <1>2, <1>6 DEF At, Holders, IsImm, IsCancel
<1> QED BY <1>5, <1>6

LEMMA OneHolder ==
  ASSUME MsgrInv, NEW op \in Ops, NEW h \in Holders(op), NEW g \in Holders(op)
  PROVE  h = g
<1>1. PICK c \in Conns : At(h, op, c)
  BY HoldersAt
<1>2. PICK d \in Conns : At(g, op, d)
  BY HoldersAt
<1>3. Somewhere(op, c) /\ Somewhere(op, d)
  BY <1>1, <1>2 DEF At, Somewhere, HasImm, HasCancel
<1>4. c = d /\ One(op, c)
  BY <1>3 DEF MsgrInv, Holding, Held1
<1>5. At(g, op, c)
  BY <1>2, <1>4
<1>6. CASE op \in sent[c]
  BY <1>1, <1>4, <1>5, <1>6 DEF At, One, HasImm, HasCancel
<1>7. CASE rd[c].op.x = op
  BY <1>1, <1>4, <1>5, <1>7 DEF At, One, HasImm, HasCancel
<1>8. CASE HasImm(imm, op, c)
  BY <1>1, <1>4, <1>5, <1>8 DEF At, One, OneImm, HasCancel
<1>9. CASE HasCancel(todo, op, c)
  BY <1>1, <1>4, <1>5, <1>9 DEF At, One, OneCancel, HasImm
<1> QED BY <1>3, <1>6, <1>7, <1>8, <1>9 DEF Somewhere

LEMMA InvAnswered == ASSUME MsgrInv PROVE AnsweredOnce
<1>1. Shape /\ Holding /\ Links /\ Writes
  BY DEF MsgrInv
<1>2. ASSUME NEW op \in Ops
      PROVE  /\ called[op] <= 1
             /\ IF Waits(op) THEN \E h \in Holders(op) : Holders(op) = {h} ELSE Holders(op) = {}
  <2>1. called[op] <= 1
    <3>1. called[op] \in {0, 1}
      BY <1>1 DEF Holding
    <3> QED BY <3>1
  <2>2. Waits(op) <=> \E c \in Conns : Somewhere(op, c)
    BY <1>1 DEF Holding
  <2>3. CASE Waits(op)
    <3>1. PICK c \in Conns : Somewhere(op, c)
      BY <2>2, <2>3
    <3>2. \E h : At(h, op, c)
      BY <3>1 DEF Somewhere, At, HasImm, HasCancel
    <3>3. PICK h \in Holders(op) : TRUE
      BY <3>2, HoldersAt
    <3>4. Holders(op) = {h}
      BY <3>3, OneHolder
    <3> QED BY <2>1, <2>3, <3>3, <3>4
  <2>4. CASE ~Waits(op)
    <3>1. \A h \in Holders(op) : FALSE
      <4> SUFFICES ASSUME NEW h \in Holders(op) PROVE FALSE
        OBVIOUS
      <4>1. PICK c \in Conns : At(h, op, c)
        BY HoldersAt
      <4>2. Somewhere(op, c)
        BY <4>1 DEF At, Somewhere, HasImm, HasCancel
      <4> QED BY <2>2, <2>4, <4>2
    <3> QED BY <2>1, <2>4, <3>1
  <2> QED BY <2>3, <2>4
<1>3. \A c \in Conns : conn[c].st = "deleted" => sent[c] = {} /\ rd[c].op.x = None
  BY <1>1 DEF Links, Quiet, Empty, NewRead, NoOp
<1>4. \A a \in replies : req[a[1]].c = a[2]
  BY <1>1 DEF Writes
<1>5. ASSUME NEW c \in Conns, NEW i \in DOMAIN wr[c].held, NEW r \in wr[c].held[i], conn[c].st = "connected"
      PROVE  req[r].st # "freed"
  <2>1. i \in 1..Len(wr[c].held)
    BY <1>1, <1>5 DEF Shape, WriteShape, IsList
  <2>2. WriteOk(c, wr[c], req)
    BY <1>1, <1>5 DEF Writes
  <2>3. r \in Reqs
    BY <1>5, <2>1, <2>2 DEF WriteOk
  <2>4. ReplyOk(c, wr[c], r, req)
    BY <2>2, <2>3 DEF WriteOk
  <2>5. HasHeld(wr[c].held, r)
    BY <1>5, <2>1 DEF HasHeld
  <2>6. req[r].st = "reply"
    BY <2>4, <2>5 DEF ReplyOk
  <2> QED BY <2>6
<1> QED BY <1>2, <1>3, <1>4, <1>5 DEF AnsweredOnce

(* The callback of an operation runs at most once, exactly one place will  *)
(* run it until then, no deleted connection holds one, every reply goes    *)
(* over the connection its request came from, and no buffer that the       *)
(* kernel still sends is freed.                                            *)
THEOREM AlwaysAnsweredOnce == Spec => []AnsweredOnce
<1>1. MessengerInv => AnsweredOnce
  BY InvAnswered DEF MessengerInv
<1> QED BY <1>1, MessengerInvariant, PTL
=============================================================================
