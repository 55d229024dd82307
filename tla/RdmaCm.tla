------------------------------- MODULE RdmaCm -------------------------------
(***************************************************************************)
(* Connecting with the RDMA connection manager                             *)
(* (src/src/client/msgr_rdmacm.cpp): an id resolves an address, then a     *)
(* route, then connects, and becomes a client when it is established; an   *)
(* incoming id is accepted and waits to be established.  A timer, or an    *)
(* error at any step, ends the attempt.  Each queue pair reserves its      *)
(* share of the completion queue.                                          *)
(*                                                                         *)
(* Events are first all taken from the kernel and copied, then handled: an *)
(* id may be destroyed, and its address used again, while a copied event   *)
(* names it.                                                               *)
(***************************************************************************)
EXTENDS Integers, FiniteSets, Sequences

CONSTANTS
  Ids,       \* addresses of rdma_cm_id objects
  CmOsds, NoOsd, \* OSDs we connect to; an incoming connection has none
  Share,     \* rdma_max_send + rdma_max_recv
  MinCqe,    \* entries of a new completion queue
  CmBounds   \* bounds: attempts, requests, removals of the device

ASSUME RdmaCmAssumption ==
  /\ IsFiniteSet(Ids) /\ NoOsd \notin CmOsds
  /\ Share \in Nat \ {0} /\ MinCqe \in Nat \ {0}
  /\ CmBounds \in [{"attempts", "requests", "removals"} -> Nat]

VARIABLES
  \* ids: state, OSD, queue pair, timer, whether the kernel owes an event, and
  \* whether the kernel has dropped the connection
  cm,
  byid,      \* rdmacm_connections: none, a client, or one that was deleted
  events, copied, \* rdma_get_cm_event, events_copy
  phase,     \* what handle_rdmacm_events does
  used, maxcqe,   \* used_max_cqe and max_cqe of the completion queue
  attempts, ended, \* history: attempts to connect to an OSD, how many have ended
  lostfds,   \* fake descriptors that nothing closes
  spent      \* how often each kind of event happened

cmVars == <<cm, byid, events, copied, phase, used, maxcqe, attempts, ended, lostfds, spent>>

FreeId == [st |-> "free", osd |-> NoOsd, qp |-> FALSE, timer |-> FALSE, asked |-> FALSE,
           dead |-> FALSE]
Connecting(i) == cm[i].st \in {"addr", "route", "connect", "accept"}

CmSpend(kind) == spent[kind] < CmBounds[kind] /\ spent' = [spent EXCEPT ![kind] = @ + 1]

\* rdma_destroy_id waits for the id's events to be acknowledged: the kernel does
\* not report the others any more, but copies are left.
Without(q, i) ==
  [p \in DOMAIN q |-> IF q[p].id = i THEN [q[p] EXCEPT !.kind = "gone"] ELSE q[p]]
Destroy(i) ==
  /\ cm' = [cm EXCEPT ![i] = FreeId]
  /\ events' = Without(events, i)
\* reserve_cqe: the queue is doubled until everything fits.  When that fails
\* nobody looks at the result, and the queue stays too small.
Doubled(n, u) == n * 2^(CHOOSE k \in 1..u : n * 2^k >= u /\ n * 2^(k - 1) < u)
Reserve(u) ==
  /\ used' = u
  /\ maxcqe' \in {maxcqe} \cup (IF u > maxcqe THEN {Doubled(maxcqe, u)} ELSE {})

\* Mutant: the queue pair's share of the queue is not given back.
MutNeverRelease(i) == UNCHANGED <<used, maxcqe>>
Release(i) ==
  IF cm[i].qp THEN Reserve(used - Share) ELSE UNCHANGED <<used, maxcqe>>
EndAttempt(o) == ended' = IF o = NoOsd THEN ended ELSE [ended EXCEPT ![o] = @ + 1]

\* rdmacm_on_connect_peer_error: the attempt falls back to TCP or fails
CmError(i) ==
  /\ Destroy(i)
  /\ Release(i)
  /\ EndAttempt(cm[i].osd)

\* rdmacm_try_connect_peer.  The id, the descriptor or the address may fail at
\* once, and so may rdma_resolve_addr.
CmTryConnect(o) ==
  /\ phase # "read"
  /\ attempts[o] = ended[o]
  /\ CmSpend("attempts")
  /\ attempts' = [attempts EXCEPT ![o] = @ + 1]
  /\ \/ \E i \in Ids :
          /\ cm[i].st = "free"
          /\ cm' = [cm EXCEPT ![i] = [FreeId EXCEPT !.st = "addr", !.osd = o, !.timer = TRUE,
                                      !.asked = TRUE]]
          /\ UNCHANGED ended
     \/ EndAttempt(o) /\ UNCHANGED cm
  /\ UNCHANGED <<byid, events, copied, phase, used, maxcqe, lostfds>>

\* The timer of rdmacm_set_conn_timeout
CmTimeout(i) ==
  /\ phase = "idle"
  /\ cm[i].timer
  /\ CmError(i)
  /\ UNCHANGED <<byid, copied, phase, attempts, lostfds, spent>>

\* stop_client and ~msgr_rdma_connection_t; rdmacm_connections keeps the pointer
CmStop(i) ==
  /\ Destroy(i)
  /\ Release(i)
  /\ byid' = [byid EXCEPT ![i] = "deleted"]

\* The client is stopped for another reason: a ping, a bad message, the user.
CmClientStops(i) ==
  /\ phase = "idle"
  /\ cm[i].st = "up"
  /\ CmStop(i)
  /\ UNCHANGED <<copied, phase, attempts, ended, lostfds, spent>>

-----------------------------------------------------------------------------
(* The kernel (external).                                                   *)

CmEvent(kind, i, ok) == [kind |-> kind, id |-> i, ok |-> ok]

\* The answer to what the id asked for.
CmAnswer(i) ==
  /\ cm[i].asked /\ ~cm[i].dead
  /\ cm' = [cm EXCEPT ![i].asked = FALSE]
  /\ \E ok \in BOOLEAN :
       LET kind == CASE cm[i].st = "addr" -> "addr" [] cm[i].st = "route" -> "route"
                     [] OTHER -> IF ok THEN "established" ELSE "failed"
       IN events' = Append(events, CmEvent(kind, i, ok))
  /\ UNCHANGED <<byid, copied, phase, used, maxcqe, attempts, ended, lostfds, spent>>

\* The peer disconnects, or the device of an id that is bound to it goes away;
\* one may follow the other, and no answer follows either.
CmBreaks(i) ==
  /\ Connecting(i) \/ cm[i].st = "up"
  /\ cm[i].st = "addr" => ~cm[i].asked
  /\ CmSpend("removals")
  /\ cm' = [cm EXCEPT ![i].dead = TRUE]
  /\ events' = Append(events, CmEvent("failed", i, FALSE))
  /\ UNCHANGED <<byid, copied, phase, used, maxcqe, attempts, ended, lostfds>>

CmRequest(i) ==
  /\ cm[i].st = "free"
  /\ CmSpend("requests")
  /\ cm' = [cm EXCEPT ![i] = [FreeId EXCEPT !.st = "request"]]
  /\ events' = Append(events, CmEvent("request", i, TRUE))
  /\ UNCHANGED <<byid, copied, phase, used, maxcqe, attempts, ended, lostfds>>

-----------------------------------------------------------------------------
(* handle_rdmacm_events                                                     *)

CmStart ==
  /\ phase = "idle" /\ events # << >>
  /\ phase' = "read"
  /\ UNCHANGED <<cm, byid, events, copied, used, maxcqe, attempts, ended, lostfds, spent>>

\* rdmacm_create_qp
CreateQp(i, st) ==
  /\ cm' = [cm EXCEPT ![i].st = st, ![i].qp = TRUE, ![i].timer = TRUE, ![i].asked = TRUE]
  /\ Reserve(used + Share)

\* rdmacm_accept; when it fails the fake descriptor stays open, unless it was
\* socket() that failed
CmAccept(i) ==
  \/ /\ CreateQp(i, "accept")
     /\ events' = Tail(events)
     /\ UNCHANGED lostfds
  \/ /\ cm' = [cm EXCEPT ![i] = FreeId]
     /\ events' = Without(Tail(events), i)
     /\ lostfds' \in {lostfds, lostfds + 1}
     /\ UNCHANGED <<used, maxcqe>>

\* Requests are accepted at once, other events are copied.
CmRead ==
  LET e == Head(events)
  IN /\ phase = "read"
     /\ IF events = << >>
          THEN phase' = "handle" /\ UNCHANGED <<cm, events, copied, used, maxcqe, lostfds>>
          ELSE /\ IF e.kind = "request"
                    THEN CmAccept(e.id) /\ UNCHANGED copied
                    ELSE /\ copied' = IF e.kind = "gone" THEN copied ELSE Append(copied, e)
                         /\ events' = Tail(events)
                         /\ UNCHANGED <<cm, used, maxcqe, lostfds>>
               /\ UNCHANGED phase
     /\ UNCHANGED <<byid, attempts, ended, spent>>

\* rdmacm_address_resolved, rdmacm_route_resolved: the next step, or an error
CmResolved(e, st) ==
  \/ /\ e.ok
     /\ IF st = "route" THEN CreateQp(e.id, st)
        ELSE cm' = [cm EXCEPT ![e.id].st = st, ![e.id].asked = TRUE] /\ UNCHANGED <<used, maxcqe>>
     /\ UNCHANGED <<events, ended>>
  \/ CmError(e.id)

\* rdmacm_established: wrap into a client
CmEstablished(e) ==
  IF ~e.ok THEN CmError(e.id) /\ UNCHANGED byid
  ELSE /\ cm' = [cm EXCEPT ![e.id].st = "up", ![e.id].timer = FALSE]
       /\ byid' = [byid EXCEPT ![e.id] = "client"]
       /\ EndAttempt(cm[e.id].osd)
       /\ UNCHANGED <<events, used, maxcqe>>

CmIgnore == UNCHANGED <<cm, byid, events, used, maxcqe, ended>>

\* A copied event.  An entry of rdmacm_connections whose client is deleted is a
\* dangling pointer: stop_client is called with whatever descriptor is read.
CmHandle ==
  LET e == Head(copied)
  IN /\ phase = "handle" /\ copied # << >>
     /\ copied' = Tail(copied)
     /\ CASE e.kind = "failed" /\ byid[e.id] = "client" -> CmStop(e.id) /\ UNCHANGED ended
          [] e.kind = "failed" /\ byid[e.id] = "deleted" ->
               \/ CmIgnore
               \/ \E j \in Ids : cm[j].st = "up" /\ CmStop(j) /\ UNCHANGED ended
          [] OTHER ->
               IF ~Connecting(e.id) THEN CmIgnore
               ELSE CASE e.kind = "addr" -> CmResolved(e, "route") /\ UNCHANGED byid
                      [] e.kind = "route" -> CmResolved(e, "connect") /\ UNCHANGED byid
                      [] OTHER -> CmEstablished(e)
     /\ UNCHANGED <<phase, attempts, lostfds, spent>>

CmHandled ==
  /\ phase = "handle" /\ copied = << >>
  /\ phase' = "idle"
  /\ UNCHANGED <<cm, byid, events, copied, used, maxcqe, attempts, ended, lostfds, spent>>

-----------------------------------------------------------------------------
CmInit ==
  /\ cm = [i \in Ids |-> FreeId]
  /\ byid = [i \in Ids |-> "none"]
  /\ events = << >> /\ copied = << >> /\ phase = "idle"
  /\ used = 0 /\ maxcqe = MinCqe
  /\ attempts = [o \in CmOsds |-> 0] /\ ended = [o \in CmOsds |-> 0]
  /\ lostfds = 0
  /\ spent = [k \in DOMAIN CmBounds |-> 0]

CmNext ==
  \/ \E o \in CmOsds : CmTryConnect(o)
  \/ \E i \in Ids : CmTimeout(i) \/ CmClientStops(i) \/ CmAnswer(i) \/ CmBreaks(i) \/ CmRequest(i)
  \/ CmStart \/ CmRead \/ CmHandle \/ CmHandled

CmSpec == CmInit /\ [][CmNext]_cmVars

-----------------------------------------------------------------------------
(* Properties.                                                              *)

(* used_max_cqe is the share of the queue pairs that exist, so that the     *)
(* queue is made large enough for them (unless ibv_resize_cq fails, which   *)
(* rdmacm_create_qp ignores); each id that connects has its timer, and no    *)
(* other id has one, or its handler would throw; and an attempt to connect  *)
(* to an OSD is held by one id, or has ended once: a second end would throw *)
(* in on_connect_peer, and none would leave the OSD connecting for ever.    *)
CmExact ==
  /\ used = Share * Cardinality({i \in Ids : cm[i].qp})
  /\ \A i \in Ids : cm[i].timer <=> Connecting(i)
  /\ \A o \in CmOsds :
       attempts[o] - ended[o] = Cardinality({i \in Ids : Connecting(i) /\ cm[i].osd = o})

=============================================================================
