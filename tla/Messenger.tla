------------------------------ MODULE Messenger ------------------------------
(***************************************************************************)
(* The messenger that OSDs and clients share (src/src/client: messenger,   *)
(* msgr_send, msgr_receive, msgr_stop) over TCP: connections to OSDs, with *)
(* retries, keepalive pings and the reuse of descriptors; operations sent  *)
(* and their callbacks; requests received and their replies; reads and     *)
(* writes that the kernel still does when their connection is dropped.     *)
(*                                                                         *)
(* A handler runs to its end before the next event.  What it calls in turn *)
(* is kept in todo, in the order of the calls, and events wait until todo  *)
(* is empty.  A message is a header and, for some, one piece of data.      *)
(***************************************************************************)
EXTENDS Integers, FiniteSets, Sequences

CONSTANTS
  Conns,      \* connection objects, numbers: each is allocated once
  Fds,        \* file descriptors, numbers
  Osds, NAddr, \* the peer OSDs and how many addresses each has
  Ops,        \* operations the user sends to OSDs
  Conf, Ping, \* a connection's own operations: SHOW_CONFIG and the ping
  Reqs,       \* requests that peers send
  ConfReqs,   \* the ones that are SHOW_CONFIG of an OSD
  SendsData, GetsData, \* messages with data: what we send, what we get
  IdleTime, PingTime, \* osd_idle_timeout, osd_ping_timeout
  Buf,        \* messages' pieces that fit into in_buf
  None,
  Setups      \* bounds: how many events of each kind happen

ASSUME MessengerAssumption ==
  /\ Conns \subseteq Nat /\ IsFiniteSet(Conns)
  /\ Fds \subseteq Nat \ {0} /\ IsFiniteSet(Fds)
  /\ None \notin Conns \union Fds \union Osds \union Ops \union Reqs \union {Conf, Ping}
  /\ Conf # Ping /\ {Conf, Ping} \intersect (Ops \union Reqs) = {} /\ Ops \intersect Reqs = {}
  /\ ConfReqs \subseteq Reqs
  /\ NAddr \in Nat \ {0} /\ IdleTime \in Nat \ {0} /\ PingTime \in Nat \ {0}
  /\ Buf \in Nat \ {0}

VARIABLES
  \* osd_client_t: state, descriptor, OSD (None: incoming), in_osd_num, timers, refs
  conn,
  rd,        \* its reads: read_ready, queued, in the kernel, what was read, read_op
  wr,        \* its writes: outbox, next_outbox, msg_iovlen, result, write_state,
             \* queued, batches the kernel holds, zc_free_list
  sent,      \* sent_ops
  received,  \* received_ops
  net,       \* the socket: unread pieces, EPOLLIN pending, the peer and what it got
  clients, peerfd, wanted, \* clients, osd_peer_fds, wanted_peers
  imm,       \* set_immediate_ops
  todo,      \* calls of the current handler that are still to be made
  \* the user, and the history of the run
  pushed, called, lost, \* operations: sent, callback runs, dropped without one
  req,       \* requests: state, connection, descriptor
  replies,   \* replies on the wire
  leaked,    \* connections whose reference was never returned
  wronged,   \* stop_client stopped another connection than the caller's
  left       \* events that may still happen

connVars == <<conn, rd, wr, sent, received, net>>
msgrVars == <<clients, peerfd, wanted, imm, todo>>
histVars == <<pushed, called, lost, req, replies, leaked, wronged, left>>
vars == <<connVars, msgrVars, histVars>>

Outgoing == Ops \union {Conf, Ping}

Spend(kind) == left[kind] > 0 /\ left' = [left EXCEPT ![kind] = @ - 1]

Event == todo = << >>

FreeFds == {f \in Fds : \A c \in Conns : conn[c].fd # f}
FreeConns == {c \in Conns : conn[c].st = "new"}
Least(S, x) == x \in S /\ \A y \in S : x <= y

\* A new connection, and what is left of a deleted one.
NewConn(st, fd, o) ==
  [st |-> st, fd |-> fd, osd |-> o, inosd |-> FALSE, ping |-> 0, idle |-> 0, refs |-> 0]
NoOp == [x |-> None, ok |-> FALSE]
NewRead == [ready |-> 0, q |-> FALSE, busy |-> FALSE, full |-> FALSE, eof |-> FALSE, got |-> << >>,
            op |-> NoOp]
NewWrite == [box |-> << >>, next |-> << >>, n |-> 0, state |-> 0, q |-> FALSE,
             res |-> [r |-> "ok", n |-> 0, zc |-> FALSE], held |-> << >>, zc |-> << >>]
NewSocket == [in |-> << >>, edge |-> FALSE, peer |-> "up", out |-> {}]

-----------------------------------------------------------------------------
(* Calls that wait in todo.                                                 *)

StopCall(fd, force, c) == [k |-> "stop", fd |-> fd, force |-> force, c |-> c]
DeleteCall(c) == [k |-> "delete", c |-> c]
CancelCall(c, fd, ops) == [k |-> "cancel", c |-> c, fd |-> fd, ops |-> ops]
ParseCall(c, parts) == [k |-> "parse", c |-> c, parts |-> parts]
ClearCall(fd) == [k |-> "clear", fd |-> fd]
TryCall(o) == [k |-> "try", o |-> o]
FailCall(o) == [k |-> "fail", o |-> o]
TickCall(fds) == [k |-> "tick", fds |-> fds]
ImmCall == [k |-> "imm"]
UserCall == [k |-> "user"]

Rest == Tail(todo)
Call(kind) == todo # << >> /\ Head(todo).k = kind

-----------------------------------------------------------------------------
(* Writes.                                                                  *)

Piece(x, last) == [x |-> x, last |-> last]
Pieces(x) == IF x \in SendsData THEN <<Piece(x, FALSE), Piece(x, TRUE)>> ELSE <<Piece(x, TRUE)>>
Whole(parts) == {parts[i].x : i \in {j \in DOMAIN parts : parts[j].last}}

\* A message goes to next_outbox while the kernel has the outbox.
Queued(w, x) ==
  IF w.n > 0 THEN [w EXCEPT !.next = @ \o Pieces(x)] ELSE [w EXCEPT !.box = @ \o Pieces(x)]
MarkReady(w) == IF w.state = 0 THEN [w EXCEPT !.state = 1, !.q = TRUE] ELSE w

\* What sendmsg may return for m pieces, and the bound it draws on.
Results(c, m) ==
  {[r |-> "ok", n |-> m, zc |-> z, kind |-> IF z THEN "zc" ELSE "free"] : z \in BOOLEAN}
  \union {[r |-> "ok", n |-> k, zc |-> FALSE, kind |-> "partial"] : k \in 0..(m - 1)}
  \union {[r |-> "EAGAIN", n |-> 0, zc |-> FALSE, kind |-> "again"]}
  \union (IF net[c].peer = "closed" THEN {[r |-> "ERR", n |-> 0, zc |-> FALSE, kind |-> "free"]}
          ELSE {})

\* try_send: the kernel takes the outbox.  k and w are the connection and its
\* writes before the call.
TrySend(c, k, w) ==
  \E s \in Results(c, Len(w.box)) :
    LET part == SubSeq(w.box, 1, s.n)
        done == Whole(part)
    IN /\ IF s.kind = "free" THEN UNCHANGED left ELSE Spend(s.kind)
       /\ wr' = [wr EXCEPT ![c] = [w EXCEPT !.n = Len(w.box), !.res = [r |-> s.r, n |-> s.n, zc |-> s.zc],
                   !.held = IF s.zc THEN Append(@, done \intersect Reqs) ELSE @]]
       /\ conn' = [conn EXCEPT ![c] = [k EXCEPT !.refs = @ + 1]]
       /\ net' = [net EXCEPT ![c].out = @ \union (done \intersect Outgoing)]
       /\ replies' = replies \union ((done \intersect Reqs) \X {c})

\* There is no free SQE.
NoSqe(c, k, w) ==
  /\ Spend("nosqe")
  /\ wr' = [wr EXCEPT ![c] = w]
  /\ conn' = [conn EXCEPT ![c] = k]
  /\ UNCHANGED <<net, replies>>

\* outbox_push
OutboxPush(c, k, x) ==
  LET w == Queued(wr[c], x)
  IN IF w.n > 0
       THEN /\ wr' = [wr EXCEPT ![c] = MarkReady(w)]
            /\ conn' = [conn EXCEPT ![c] = k]
            /\ UNCHANGED <<net, replies, left>>
       ELSE TrySend(c, k, w) \/ NoSqe(c, k, MarkReady(w))

\* The user sends an operation to a connected OSD.
UserSend(op, o) ==
  LET c == clients[peerfd[o]]
  IN /\ Event
     /\ op \notin pushed
     /\ peerfd[o] # None
     /\ Cardinality(pushed) < left["send"]
     /\ pushed' = pushed \union {op}
     /\ sent' = [sent EXCEPT ![c] = @ \union {op}]
     /\ OutboxPush(c, conn[c], op)
     /\ UNCHANGED <<rd, received, msgrVars, called, lost, req, leaked, wronged>>

\* send_replies
SendReplies(c) ==
  LET w == [wr[c] EXCEPT !.q = FALSE]
  IN /\ Event
     /\ wr[c].q
     /\ IF w.n > 0 \/ w.box = << >>
          THEN wr' = [wr EXCEPT ![c] = w] /\ UNCHANGED <<conn, net, replies, left>>
          ELSE TrySend(c, conn[c], w) \/ NoSqe(c, conn[c], wr[c])
     /\ UNCHANGED <<rd, sent, received, msgrVars, pushed, called, lost, req, leaked, wronged>>

-----------------------------------------------------------------------------
(* Stopping and deleting a connection.                                      *)

\* A descriptor that is being connected is only stopped by who connects it: it
\* may be another connection's by now.  Mutant: it is stopped by anybody.
MutNotSpared(c, force) == c = None
Spared(c, force) == c = None \/ (c # None /\ conn[c].st = "connecting" /\ ~force)

\* stop_client.  The callbacks of repeer_pgs are the user's.
StopClient ==
  LET call == Head(todo)
      c == clients[call.fd]
  IN /\ Call("stop")
     /\ IF Spared(c, call.force)
          THEN /\ todo' = Rest
               /\ UNCHANGED <<conn, rd, wr, clients, peerfd, wronged>>
          ELSE /\ conn' = [conn EXCEPT ![c].st = "stopped"]
               /\ peerfd' = [o \in Osds |-> IF o = conn[c].osd /\ peerfd[o] = call.fd THEN None
                                            ELSE peerfd[o]]
               /\ rd' = [rd EXCEPT ![c].q = FALSE]
               /\ wr' = [wr EXCEPT ![c].q = FALSE]
               /\ clients' = [clients EXCEPT ![call.fd] = None]
               /\ wronged' = (wronged \/ c # call.c)
               /\ todo' = (IF conn[c].osd # None THEN <<UserCall>> ELSE << >>)
                          \o (IF conn[c].refs = 0 THEN <<DeleteCall(c)>> ELSE << >>) \o Rest
     /\ UNCHANGED <<sent, received, net, wanted, imm, pushed, called, lost, req, replies, leaked, left>>

\* ~osd_client_t: close the descriptor, then cancel the operations
DeleteClient ==
  LET c == Head(todo).c
      ops == sent[c] \union ({rd[c].op.x} \intersect Outgoing)
  IN /\ Call("delete")
     /\ conn' = [conn EXCEPT ![c] = NewConn("deleted", None, @.osd)]
     /\ rd' = [rd EXCEPT ![c] = NewRead]
     /\ wr' = [wr EXCEPT ![c] = NewWrite]
     /\ sent' = [sent EXCEPT ![c] = {}]
     /\ received' = [received EXCEPT ![c] = {}]
     /\ net' = [net EXCEPT ![c] = NewSocket]
     /\ req' = [r \in Reqs |-> IF rd[c].op.x = r THEN [req[r] EXCEPT !.st = "freed"] ELSE req[r]]
     /\ todo' = (IF ops = {} THEN << >> ELSE <<CancelCall(c, conn[c].fd, ops)>>) \o Rest
     /\ UNCHANGED <<clients, peerfd, wanted, imm, pushed, called, lost, replies, leaked, wronged, left>>

\* The callback of an operation x of connection c: ok is a good reply.
RunCallback(x, c, fd, ok, rest) ==
  LET o == conn[c].osd
  IN CASE x \in Ops ->
            /\ called' = [called EXCEPT ![x] = @ + 1]
            /\ todo' = (IF ok THEN << >> ELSE <<StopCall(fd, FALSE, c), UserCall>>) \o rest
            /\ UNCHANGED <<conn, peerfd, wanted>>
       [] x = Ping ->
            /\ conn' = IF clients[fd] = c THEN [conn EXCEPT ![c].ping = 0] ELSE conn
            /\ todo' = rest
            /\ UNCHANGED <<called, peerfd, wanted>>
       [] x = Conf /\ ~ok ->
            /\ todo' = <<StopCall(fd, FALSE, c), FailCall(o)>> \o rest
            /\ UNCHANGED <<called, conn, peerfd, wanted>>
       [] x = Conf /\ ok ->
            /\ peerfd' = [peerfd EXCEPT ![o] = fd]
            /\ wanted' = [wanted EXCEPT ![o] = None]
            /\ todo' = <<UserCall>> \o rest
            /\ UNCHANGED <<called, conn>>

\* cancel_ops
CancelOps ==
  LET call == Head(todo)
  IN /\ Call("cancel")
     /\ \E x \in call.ops :
          RunCallback(x, call.c, call.fd, FALSE,
            (IF call.ops = {x} THEN << >> ELSE <<CancelCall(call.c, call.fd, call.ops \ {x})>>) \o Rest)
     /\ UNCHANGED <<rd, wr, sent, received, net, clients, imm, pushed, lost, req, replies, leaked,
                    wronged, left>>

\* handle_send: the result of a write
HandleSend(c) ==
  LET w == wr[c]
      refs == conn[c].refs - (IF w.res.zc THEN 0 ELSE 1)
      box == SubSeq(w.box, w.res.n + 1, Len(w.box)) \o w.next
      full == Whole(SubSeq(w.box, 1, w.res.n)) \intersect Reqs
  IN /\ Event
     /\ w.n > 0
     /\ conn' = [conn EXCEPT ![c].refs = refs]
     /\ IF conn[c].st = "stopped" \/ w.res.r # "ok"
          THEN /\ wr' = [wr EXCEPT ![c].n = 0,
                           ![c].q = conn[c].st # "stopped" /\ w.res.r # "ERR" /\ (w.q \/ w.state = 1)]
               /\ UNCHANGED req
               /\ todo' = IF conn[c].st = "stopped"
                            THEN IF refs = 0 THEN <<DeleteCall(c)>> ELSE << >>
                            ELSE IF w.res.r = "ERR" THEN <<StopCall(conn[c].fd, FALSE, c)>> ELSE << >>
          ELSE /\ wr' = [wr EXCEPT ![c] = [w EXCEPT !.n = 0, !.box = box, !.next = << >>,
                           !.state = IF box = << >> THEN 0 ELSE 1,
                           !.q = @ \/ box # << >>,
                           !.zc = IF w.res.zc THEN @ \o <<full>> ELSE @]]
               /\ req' = [r \in Reqs |-> IF r \in full /\ ~w.res.zc
                                           THEN [req[r] EXCEPT !.st = "freed"] ELSE req[r]]
               /\ UNCHANGED todo
     /\ UNCHANGED <<rd, sent, received, net, clients, peerfd, wanted, imm, pushed, called, lost,
                    replies, leaked, wronged, left>>

\* handle_send: the kernel lets go of the oldest zero-copy batch.  An end marker
\* with no replies in front of it stays in zc_free_list.
HandleSendZc(c) ==
  LET w == wr[c]
      refs == conn[c].refs - 1
      free == IF w.zc = << >> THEN {} ELSE Head(w.zc)
  IN /\ Event
     /\ Len(w.held) > (IF w.n > 0 /\ w.res.zc THEN 1 ELSE 0)
     /\ conn' = [conn EXCEPT ![c].refs = refs]
     /\ IF conn[c].st = "stopped"
          THEN /\ wr' = [wr EXCEPT ![c].held = Tail(@)]
               /\ todo' = IF refs = 0 THEN <<DeleteCall(c)>> ELSE << >>
               /\ UNCHANGED req
          ELSE /\ wr' = [wr EXCEPT ![c] = [w EXCEPT !.held = Tail(@),
                                            !.zc = IF free = {} THEN @ ELSE Tail(@)]]
               /\ req' = [r \in Reqs |-> IF r \in free THEN [req[r] EXCEPT !.st = "freed"] ELSE req[r]]
               /\ UNCHANGED todo
     /\ UNCHANGED <<rd, sent, received, net, clients, peerfd, wanted, imm, pushed, called, lost,
                    replies, leaked, wronged, left>>

-----------------------------------------------------------------------------
(* Reads.                                                                   *)

\* handle_peer_epoll: EPOLLRDHUP, EPOLLIN
PeerHup(c) ==
  /\ Event
  /\ conn[c].st = "connected"
  /\ net[c].peer = "closed"
  /\ todo' = <<StopCall(conn[c].fd, TRUE, c)>>
  /\ UNCHANGED <<connVars, clients, peerfd, wanted, imm, histVars>>

PeerIn(c) ==
  /\ Event
  /\ conn[c].st = "connected"
  /\ net[c].edge
  /\ net' = [net EXCEPT ![c].edge = FALSE]
  /\ rd' = [rd EXCEPT ![c].ready = @ + 1, ![c].q = @ \/ rd[c].ready = 0]
  /\ UNCHANGED <<conn, wr, sent, received, msgrVars, histVars>>

Least2(a, b) == IF a < b THEN a ELSE b
\* Long data is read into the operation's own buffer.
Limit(c) == IF rd[c].op.x = None THEN Buf ELSE 1

\* read_requests: the kernel reads what the socket has.  Without a free SQE the
\* connection keeps the reference.
ReadRequests(c) ==
  /\ Event
  /\ rd[c].q /\ ~rd[c].busy
  /\ \/ /\ LET n == Least2(Limit(c), Len(net[c].in))
           IN /\ rd' = [rd EXCEPT ![c].q = FALSE, ![c].busy = TRUE, ![c].full = n = Limit(c),
                          ![c].got = SubSeq(net[c].in, 1, n),
                          ![c].eof = net[c].in = << >> /\ net[c].peer = "closed"]
              /\ net' = [net EXCEPT ![c].in = SubSeq(@, n + 1, Len(@))]
        /\ conn' = [conn EXCEPT ![c].refs = @ + 1]
        /\ UNCHANGED <<leaked, left>>
     \/ /\ Spend("nosqe")
        /\ conn' = [conn EXCEPT ![c].refs = @ + 1]
        /\ leaked' = leaked \union {c}
        /\ UNCHANGED <<rd, net>>
  /\ UNCHANGED <<wr, sent, received, msgrVars, pushed, called, lost, req, replies, wronged>>

\* handle_read
HandleRead(c) ==
  LET refs == conn[c].refs - 1
      ready == IF rd[c].full THEN rd[c].ready ELSE rd[c].ready - 1
      stopped == conn[c].st = "stopped"
  IN /\ Event
     /\ rd[c].busy
     /\ conn' = [conn EXCEPT ![c].refs = refs]
     /\ rd' = [rd EXCEPT ![c].busy = FALSE, ![c].got = << >>, ![c].eof = FALSE, ![c].full = FALSE,
                         ![c].ready = IF stopped \/ rd[c].eof THEN @ ELSE ready,
                         ![c].q = IF stopped \/ rd[c].eof THEN @ ELSE rd[c].full \/ ready > 0]
     /\ todo' = IF stopped
                  THEN IF refs = 0 THEN <<DeleteCall(c)>> ELSE << >>
                  ELSE IF rd[c].eof THEN <<StopCall(conn[c].fd, FALSE, c)>>
                  ELSE IF rd[c].got # << >> THEN <<ParseCall(c, rd[c].got)>> ELSE << >>
     /\ UNCHANGED <<wr, sent, received, net, clients, peerfd, wanted, imm, histVars>>

Immediate(x, c, ok) == [x |-> x, c |-> c, fd |-> conn[c].fd, ok |-> ok]

\* handle_reply_hdr: the answer to an operation, with or without data to read
HandleReplyHdr(c, x, ok) ==
  /\ x \in sent[c]
  /\ sent' = [sent EXCEPT ![c] = @ \ {x}]
  /\ IF x \in GetsData
       THEN rd' = [rd EXCEPT ![c].op = [x |-> x, ok |-> ok]] /\ UNCHANGED imm
       ELSE imm' = Append(imm, Immediate(x, c, ok)) /\ UNCHANGED rd
  /\ UNCHANGED <<received, req>>

\* handle_op_hdr: a request, with or without data to read
HandleOpHdr(c, x) ==
  /\ req' = [req EXCEPT ![x] = [st |-> "read", c |-> c, fd |-> conn[c].fd]]
  /\ IF x \in GetsData
       THEN rd' = [rd EXCEPT ![c].op = [x |-> x, ok |-> TRUE]] /\ UNCHANGED <<imm, received>>
       ELSE /\ imm' = Append(imm, Immediate(x, c, TRUE))
            /\ received' = [received EXCEPT ![c] = @ \union {x}]
            /\ UNCHANGED rd
  /\ UNCHANGED sent

\* The data of read_op is complete: handle_reply_ready, or a request to execute.
HandleData(c) ==
  /\ imm' = Append(imm, Immediate(rd[c].op.x, c, rd[c].op.ok))
  /\ received' = [received EXCEPT ![c] = @ \union ({rd[c].op.x} \intersect Reqs)]
  /\ rd' = [rd EXCEPT ![c].op = NoOp]
  /\ UNCHANGED <<sent, req>>

\* handle_read_buffer and handle_finished_read for the next piece of what was
\* read.  Garbage, or a reply to an operation that was not sent, stops the client.
FinishedRead ==
  LET c == Head(todo).c
      parts == Head(todo).parts
      p == Head(parts)
      more == (IF Len(parts) = 1 THEN <<ImmCall>> ELSE <<ParseCall(c, Tail(parts))>>) \o Rest
      drop == <<StopCall(conn[c].fd, FALSE, c), ClearCall(conn[c].fd)>> \o Rest
  IN /\ Call("parse")
     /\ conn' = [conn EXCEPT ![c].ping = 0, ![c].idle = IdleTime]
     /\ \/ /\ p.k = "bad" \/ (p.k = "reply" /\ p.x \notin sent[c])
           /\ todo' = drop
           /\ UNCHANGED <<rd, sent, received, imm, req>>
        \/ p.k = "reply" /\ HandleReplyHdr(c, p.x, p.ok) /\ todo' = more
        \/ p.k = "req" /\ HandleOpHdr(c, p.x) /\ todo' = more
        \/ p.k = "data" /\ HandleData(c) /\ todo' = more
     /\ UNCHANGED <<wr, net, clients, peerfd, wanted, pushed, called, lost, replies, leaked, wronged,
                    left>>

\* clear_immediate_ops: no callback is run
ClearImmediateOps ==
  LET dropped == {i \in DOMAIN imm : imm[i].fd = Head(todo).fd}
      kept == DOMAIN imm \ dropped
      Nth(k) == CHOOSE i \in kept : Cardinality({j \in kept : j <= i}) = k
  IN /\ Call("clear")
     /\ imm' = [k \in 1..Cardinality(kept) |-> imm[Nth(k)]]
     /\ lost' = lost \union {<<imm[i].x, imm[i].c>> : i \in dropped}
     /\ req' = [r \in Reqs |-> IF \E i \in dropped : imm[i].x = r
                                 THEN [req[r] EXCEPT !.st = "freed"] ELSE req[r]]
     /\ todo' = Rest
     /\ UNCHANGED <<connVars, clients, peerfd, wanted, pushed, called, replies, leaked, wronged, left>>

\* Mutant: whoever has the descriptor gets the reply.
MutTakesAny(c, r) == c # None
Takes(c, r) == c # None /\ r \in received[c]

\* finish_op: the reply goes to the client that has the request's descriptor now,
\* which refuses a request it did not receive (outbox_push)
FinishOp(r, fd) ==
  LET c == clients[fd]
  IN IF Takes(c, r)
       THEN /\ received' = [received EXCEPT ![c] = @ \ {r}]
            /\ req' = [req EXCEPT ![r].st = "reply"]
            /\ OutboxPush(c, [conn[c] EXCEPT !.inosd = @ \/ r \in ConfReqs], r)
       ELSE /\ req' = [req EXCEPT ![r].st = "freed"]
            /\ UNCHANGED <<received, conn, wr, net, replies, left>>

\* handle_immediate_ops, the next operation: its callback, or exec_op
HandleImmediateOp ==
  LET e == Head(imm)
  IN /\ Call("imm")
     /\ imm # << >>
     /\ imm' = Tail(imm)
     /\ \/ /\ e.x \in Outgoing
           /\ RunCallback(e.x, e.c, e.fd, e.ok, todo)
           /\ UNCHANGED <<wr, received, net, req, replies, left>>
        \/ /\ e.x \in ConfReqs
           /\ FinishOp(e.x, e.fd)
           /\ UNCHANGED <<peerfd, wanted, called, todo>>
        \/ /\ e.x \in Reqs \ ConfReqs
           /\ req' = [req EXCEPT ![e.x].st = "exec"]
           /\ UNCHANGED <<conn, wr, received, net, peerfd, wanted, called, todo, replies, left>>
     /\ UNCHANGED <<rd, sent, clients, pushed, lost, leaked, wronged>>

ImmediateOpsDone ==
  /\ Call("imm")
  /\ imm = << >>
  /\ todo' = Rest
  /\ UNCHANGED <<connVars, clients, peerfd, wanted, imm, histVars>>

\* A request has been executed.
Reply(r) ==
  /\ Event
  /\ req[r].st = "exec"
  /\ FinishOp(r, req[r].fd)
  /\ UNCHANGED <<rd, sent, msgrVars, pushed, called, lost, leaked, wronged>>

-----------------------------------------------------------------------------
(* Connecting.                                                              *)

NewWanted == [connecting |-> FALSE, wait |-> FALSE, changed |-> TRUE, addr |-> 1]

\* connect_peer: the first call for an OSD, or one with other addresses, marks
\* the addresses as changed
ConnectPeer(o, changed) ==
  wanted' = [wanted EXCEPT ![o] = IF @ = None THEN NewWanted
                                  ELSE [@ EXCEPT !.changed = @ \/ changed]]

\* The user wants an OSD, in an event of its own or in a callback.
UserConnect(o, changed) ==
  /\ Event
  /\ Spend("connect")
  /\ ConnectPeer(o, changed)
  /\ todo' = <<TryCall(o)>>
  /\ UNCHANGED <<connVars, clients, peerfd, imm, pushed, called, lost, req, replies, leaked, wronged>>

UserReacts ==
  /\ Call("user")
  /\ \/ /\ todo' = Rest
        /\ UNCHANGED <<wanted, left>>
     \/ \E o \in Osds, changed \in BOOLEAN :
          /\ Spend("connect")
          /\ ConnectPeer(o, changed)
          /\ todo' = <<TryCall(o)>> \o Rest
  /\ UNCHANGED <<connVars, clients, peerfd, imm, pushed, called, lost, req, replies, leaked, wronged>>

\* try_connect_peer, try_connect_peer_tcp.  socket() or connect() fails when there
\* is no descriptor left.
TryConnectPeer ==
  LET o == Head(todo).o
      w == wanted[o]
  IN /\ Call("try")
     /\ \/ /\ w = None \/ (w # None /\ (w.connecting \/ w.wait))
           /\ todo' = Rest
           /\ UNCHANGED <<conn, clients, wanted, left>>
        \/ /\ w # None /\ ~w.connecting /\ ~w.wait /\ peerfd[o] # None
           /\ wanted' = [wanted EXCEPT ![o] = None]
           /\ todo' = Rest
           /\ UNCHANGED <<conn, clients, left>>
        \/ /\ w # None /\ ~w.connecting /\ ~w.wait /\ peerfd[o] = None
           /\ wanted' = [wanted EXCEPT ![o].connecting = TRUE]
           /\ \/ /\ left["socket"] = 0 \/ FreeFds = {} \/ FreeConns = {}
                 /\ todo' = <<FailCall(o)>> \o Rest
                 /\ UNCHANGED <<conn, clients, left>>
              \/ \E c \in Conns, fd \in Fds :
                   /\ Least(FreeConns, c) /\ Least(FreeFds, fd)
                   /\ Spend("socket")
                   /\ conn' = [conn EXCEPT ![c] = NewConn("connecting", fd, o)]
                   /\ clients' = [clients EXCEPT ![fd] = c]
                   /\ todo' = Rest
     /\ UNCHANGED <<rd, wr, sent, received, net, peerfd, imm, pushed, called, lost, req, replies,
                    leaked, wronged>>

\* on_connect_peer with an error: other addresses, then a retry by the timer
OnConnectError ==
  LET o == Head(todo).o
      w == [wanted[o] EXCEPT !.connecting = FALSE]
      again == <<TryCall(o)>> \o Rest
  IN /\ Call("fail")
     /\ \/ /\ w.changed
           /\ wanted' = [wanted EXCEPT ![o] = [w EXCEPT !.changed = FALSE, !.addr = 1]]
           /\ todo' = again
        \/ /\ ~w.changed /\ w.addr < NAddr
           /\ wanted' = [wanted EXCEPT ![o] = [w EXCEPT !.addr = @ + 1]]
           /\ todo' = again
        \/ /\ ~w.changed /\ w.addr = NAddr
           /\ wanted' = [wanted EXCEPT ![o] = [w EXCEPT !.wait = TRUE, !.addr = 1]]
           /\ todo' = Rest
     /\ UNCHANGED <<connVars, clients, peerfd, imm, histVars>>

\* The timer of on_connect_peer, after peer_connect_interval.
RetryTimer(o) ==
  /\ Event
  /\ wanted[o] # None /\ wanted[o].wait
  /\ Spend("retry")
  /\ wanted' = [wanted EXCEPT ![o].wait = FALSE]
  /\ todo' = <<TryCall(o)>>
  /\ UNCHANGED <<connVars, clients, peerfd, imm, pushed, called, lost, req, replies, leaked, wronged>>

\* handle_connect_epoll and check_peer_config
Connected(c) ==
  /\ Event
  /\ conn[c].st = "connecting"
  /\ sent' = [sent EXCEPT ![c] = @ \union {Conf}]
  /\ OutboxPush(c, [conn[c] EXCEPT !.st = "connected"], Conf)
  /\ UNCHANGED <<rd, received, msgrVars, pushed, called, lost, req, leaked, wronged>>

\* handle_connect_epoll with an error, or peer_connect_timeout
ConnectFails(c) ==
  /\ Event
  /\ conn[c].st = "connecting"
  /\ Spend("refuse")
  /\ todo' = <<StopCall(conn[c].fd, TRUE, c), FailCall(conn[c].osd)>>
  /\ UNCHANGED <<connVars, clients, peerfd, wanted, imm, pushed, called, lost, req, replies, leaked, wronged>>

\* accept_connections
AcceptConnection(c, fd) ==
  /\ Event
  /\ Spend("accept")
  /\ Least(FreeConns, c) /\ Least(FreeFds, fd)
  /\ conn' = [conn EXCEPT ![c] = NewConn("connected", fd, None)]
  /\ clients' = [clients EXCEPT ![fd] = c]
  /\ UNCHANGED <<rd, wr, sent, received, net, peerfd, wanted, imm, todo, pushed, called, lost, req,
                 replies, leaked, wronged>>

-----------------------------------------------------------------------------
(* Keepalive: the handler visits every client in the order of descriptors.  *)

\* The ping was not answered in time.  Mutant: the time starts again.
MutNeverLate(k) == FALSE
Late(k) == k.ping = 1

Watched(c) == conn[c].st = "connected" /\ (conn[c].osd # None \/ conn[c].inosd)

Tick ==
  LET fds == {fd \in Fds : clients[fd] # None /\ Watched(clients[fd])}
  IN /\ Event
     /\ fds # {} /\ left["tick"] > 0
     /\ todo' = <<TickCall(fds)>>
     /\ UNCHANGED <<connVars, clients, peerfd, wanted, imm, histVars>>

TickClient ==
  \E fd \in Fds :
    LET fds == Head(todo).fds
        c == clients[fd]
        k == conn[c]
        next == (IF fds = {fd} THEN << >> ELSE <<TickCall(fds \ {fd})>>) \o Rest
    IN /\ Call("tick")
       /\ Least(fds, fd)
       /\ \/ /\ c = None \/ (c # None /\ ~Watched(c))
             /\ todo' = next
             /\ UNCHANGED <<conn, wr, sent, net, replies, left>>
          \/ \* the peer does not answer a ping
             /\ c # None /\ Watched(c) /\ k.ping > 0
             /\ conn' = [conn EXCEPT ![c].ping = @ - 1]
             /\ todo' = (IF Late(k) THEN <<StopCall(fd, TRUE, c)>> ELSE << >>) \o next
             /\ UNCHANGED <<wr, sent, net, replies, left>>
          \/ \* time for a ping; one more is not told apart from one not answered yet
             /\ c # None /\ Watched(c) /\ k.ping = 0 /\ k.idle = 1
             /\ LET k2 == [k EXCEPT !.ping = PingTime, !.idle = IdleTime]
                IN IF Ping \in sent[c]
                     THEN conn' = [conn EXCEPT ![c] = k2] /\ UNCHANGED <<wr, sent, net, replies, left>>
                     ELSE sent' = [sent EXCEPT ![c] = @ \union {Ping}] /\ OutboxPush(c, k2, Ping)
             /\ todo' = next
          \/ /\ c # None /\ Watched(c) /\ k.ping = 0 /\ k.idle # 1
             /\ conn' = [conn EXCEPT ![c].idle = IF @ = 0 THEN IdleTime ELSE @ - 1]
             /\ todo' = next
             /\ UNCHANGED <<wr, sent, net, replies, left>>
       /\ UNCHANGED <<rd, received, clients, peerfd, wanted, imm, pushed, called, lost, req, leaked,
                      wronged>>

-----------------------------------------------------------------------------
(* The peers.                                                               *)

Live(c) == conn[c].st = "connected" /\ net[c].peer = "up"
Arrives(c, parts) == [net EXCEPT ![c].in = @ \o parts, ![c].edge = TRUE]
Header(k, x, ok) == [k |-> k, x |-> x, ok |-> ok]
Data == Header("data", None, TRUE)
Message(k, x, ok) ==
  IF x \in GetsData THEN <<Header(k, x, ok), Data>> ELSE <<Header(k, x, ok)>>

\* The peer answers an operation it has got.  A ping never fails.
PeerAnswers(c, x) ==
  /\ Live(c)
  /\ x \in net[c].out
  /\ \/ /\ UNCHANGED left
        /\ net' = [Arrives(c, Message("reply", x, TRUE)) EXCEPT ![c].out = @ \ {x}]
     \/ /\ x # Ping
        /\ Spend("fail")
        /\ net' = [Arrives(c, Message("reply", x, FALSE)) EXCEPT ![c].out = @ \ {x}]
  /\ UNCHANGED <<conn, rd, wr, sent, received, msgrVars, pushed, called, lost, req, replies, leaked,
                 wronged>>

\* A client that connected to us sends a request.
PeerRequest(c, r) ==
  /\ Live(c) /\ conn[c].osd = None
  /\ req[r].st = "new"
  /\ Cardinality({q \in Reqs : req[q].st # "new"}) < left["request"]
  /\ req' = [req EXCEPT ![r].st = "wire"]
  /\ net' = Arrives(c, Message("req", r, TRUE))
  /\ UNCHANGED <<conn, rd, wr, sent, received, msgrVars, pushed, called, lost, replies, leaked,
                 wronged, left>>

\* A peer sends garbage, dies silently, or closes the connection.
PeerBreaks(c) ==
  /\ Live(c)
  /\ \/ Spend("bad") /\ net' = Arrives(c, <<Header("bad", None, FALSE)>>)
     \/ Spend("silent") /\ net' = [net EXCEPT ![c].peer = "silent"]
     \/ Spend("close") /\ net' = [net EXCEPT ![c].peer = "closed", ![c].edge = TRUE]
  /\ UNCHANGED <<conn, rd, wr, sent, received, msgrVars, pushed, called, lost, req, replies, leaked,
                 wronged>>

-----------------------------------------------------------------------------
Init ==
  /\ conn = [c \in Conns |-> NewConn("new", None, None)]
  /\ rd = [c \in Conns |-> NewRead] /\ wr = [c \in Conns |-> NewWrite]
  /\ sent = [c \in Conns |-> {}]
  /\ received = [c \in Conns |-> {}]
  /\ net = [c \in Conns |-> NewSocket]
  /\ clients = [fd \in Fds |-> None]
  /\ peerfd = [o \in Osds |-> None]
  /\ wanted = [o \in Osds |-> None]
  /\ imm = << >> /\ todo = << >>
  /\ pushed = {} /\ called = [op \in Ops |-> 0] /\ lost = {}
  /\ req = [r \in Reqs |-> [st |-> "new", c |-> None, fd |-> None]]
  /\ replies = {} /\ leaked = {} /\ wronged = FALSE
  /\ left \in Setups

Calls ==
  \/ StopClient \/ DeleteClient \/ CancelOps \/ FinishedRead \/ ClearImmediateOps
  \/ HandleImmediateOp \/ ImmediateOpsDone \/ UserReacts \/ TryConnectPeer \/ OnConnectError
  \/ TickClient

\* What the event loop does for a connection when the kernel reports something.
LoopEvents(c) ==
  \/ SendReplies(c) \/ HandleSend(c) \/ HandleSendZc(c)
  \/ PeerHup(c) \/ PeerIn(c) \/ ReadRequests(c) \/ HandleRead(c)

Next ==
  \/ Calls
  \/ Tick
  \/ \E c \in Conns :
       \/ LoopEvents(c) \/ Connected(c) \/ ConnectFails(c) \/ PeerBreaks(c)
       \/ \E fd \in Fds : AcceptConnection(c, fd)
       \/ \E x \in Outgoing : PeerAnswers(c, x)
       \/ \E r \in Reqs : PeerRequest(c, r)
  \/ \E o \in Osds :
       \/ RetryTimer(o)
       \/ \E changed \in BOOLEAN : UserConnect(o, changed)
       \/ \E op \in Ops : UserSend(op, o)
  \/ \E r \in Reqs : Reply(r)

\* The kernel ends what it began, the loop handles every event, time passes, and
\* a peer that is alive answers what it got.
Fairness ==
  /\ WF_vars(Calls)
  /\ SF_vars(Tick)
  /\ \A c \in Conns : SF_vars(LoopEvents(c)) /\ \A x \in Outgoing : WF_vars(PeerAnswers(c, x))

Spec == Init /\ [][Next]_vars /\ Fairness

-----------------------------------------------------------------------------
(* Properties.                                                              *)

ConnStates == {"new", "connecting", "connected", "stopped", "deleted"}

\* Where the callback of an operation is to come from.
Holders(op) ==
  {<<"sent", c>> : c \in {d \in Conns : op \in sent[d]}}
  \union {<<"read", c>> : c \in {d \in Conns : rd[d].op.x = op}}
  \union {<<"imm", i>> : i \in {j \in DOMAIN imm : imm[j].x = op}}
  \union {<<"cancel", i>> : i \in {j \in DOMAIN todo : todo[j].k = "cancel" /\ op \in todo[j].ops}}

Lost(op) == \E c \in Conns : <<op, c>> \in lost
Waits(op) == op \in pushed /\ called[op] = 0 /\ ~Lost(op)

(* The callback of an operation is run once, whatever happens to its        *)
(* connection: until then exactly one place will run it, and a deleted      *)
(* connection is none.  A reply goes to the connection that the request     *)
(* came from, even when its descriptor is that of another one by now, and   *)
(* its buffers are not freed while the kernel sends them.  The exception is *)
(* `lost`: an answer that has been read but waits in set_immediate_ops when *)
(* its connection breaks is deleted and its callback never runs             *)
(* (clear_immediate_ops); nobody holds such an operation any more.          *)
AnsweredOnce ==
  /\ \A op \in Ops :
       /\ called[op] <= 1
       /\ IF Waits(op) THEN \E h \in Holders(op) : Holders(op) = {h} ELSE Holders(op) = {}
  /\ \A c \in Conns : conn[c].st = "deleted" => sent[c] = {} /\ rd[c].op.x = None
  /\ \A a \in replies : req[a[1]].c = a[2]
  /\ \A c \in Conns : \A i \in DOMAIN wr[c].held : \A r \in wr[c].held[i] :
       conn[c].st = "connected" => req[r].st # "freed"

\* The connection attempt of a connection has not ended.
Attempting(c) ==
  \/ conn[c].st = "connecting" \/ Conf \in sent[c] \/ rd[c].op.x = Conf
  \/ \E i \in DOMAIN imm : imm[i].x = Conf /\ imm[i].c = c
  \/ \E i \in DOMAIN todo : todo[i].k = "cancel" /\ todo[i].c = c /\ Conf \in todo[i].ops

(* osd_peer_fds leads to live connections of that OSD, of which there is    *)
(* one; a connection attempt that has not ended has its entry of            *)
(* wanted_peers, or on_connect_peer would throw, and an entry that says     *)
(* connecting has an attempt, or the OSD would never be connected again;    *)
(* and stop_client, which is given a descriptor, never stops a connection   *)
(* that only has the same descriptor as the one that failed.                *)
LinksSane ==
  /\ \A fd \in Fds : clients[fd] # None =>
       conn[clients[fd]].fd = fd /\ conn[clients[fd]].st \in {"connecting", "connected"}
  /\ \A o \in Osds : peerfd[o] # None =>
       /\ clients[peerfd[o]] # None
       /\ conn[clients[peerfd[o]]].osd = o /\ conn[clients[peerfd[o]]].st = "connected"
  /\ \A c, d \in Conns :
       /\ conn[c].osd = conn[d].osd /\ conn[c].osd # None
       /\ {conn[c].st, conn[d].st} \subseteq {"connecting", "connected"}
       => c = d
  /\ \A c \in Conns : Attempting(c) =>
       /\ conn[c].osd # None /\ wanted[conn[c].osd] # None
       /\ wanted[conn[c].osd].connecting
  /\ \A o \in Osds : wanted[o] # None /\ wanted[o].connecting =>
       \/ \E c \in Conns : conn[c].osd = o /\ (Attempting(c) \/ <<Conf, c>> \in lost)
       \/ \E i \in DOMAIN todo : todo[i].k = "fail" /\ todo[i].o = o
  /\ ~wronged

(* An operation is answered: a peer that dies is found by a ping, and a     *)
(* message that the kernel did not take is sent with the next one.  Not so  *)
(* for a connection that never gives back its reference (read_requests),    *)
(* nor for an operation that clear_immediate_ops deletes with its answer    *)
(* (`lost`).                                                                *)
OpsAnswered ==
  \A op \in Ops :
    op \in pushed ~> \/ called[op] = 1 \/ Lost(op)
                    \/ \E c \in leaked : op \in sent[c] \/ rd[c].op.x = op

=============================================================================
