---------------------------- MODULE MCMessenger ----------------------------
(* The messenger for TLC, one of its parts at a time: connections over TCP, *)
(* with a few setups that say how often each kind of event happens; the     *)
(* data of an RDMA connection; and connecting with the RDMA connection      *)
(* manager.                                                                 *)
EXTENDS Messenger, Rdma, RdmaCm

CONSTANTS o1, op1, op2, rq1, rq2, conf, ping, none, i1, i2

VARIABLE part   \* "tcp", "rdma" or "cm"

No == [k \in {"connect", "socket", "retry", "refuse", "accept", "send", "request", "tick", "again", "partial",
              "zc", "nosqe", "bad", "silent", "close", "fail"} |-> 0]
Out(connects, sockets, sends) ==
  [No EXCEPT !["connect"] = connects, !["socket"] = sockets, !["send"] = sends]
In(accepts, requests) == [No EXCEPT !["accept"] = accepts, !["request"] = requests]
MCSetups ==
  { \* reconnecting after the peer closed the connection, and after a failed operation
    [Out(2, 2, 2) EXCEPT !["close"] = 1], [Out(1, 1, 2) EXCEPT !["partial"] = 1, !["fail"] = 1],
    [Out(2, 2, 1) EXCEPT !["fail"] = 1],
    \* a silent peer, and a write that has to be tried again
    [Out(1, 1, 1) EXCEPT !["tick"] = 1, !["silent"] = 1],
    [Out(1, 1, 1) EXCEPT !["tick"] = 1, !["again"] = 1],
    \* garbage, no SQE, addresses that refuse
    [Out(1, 2, 2) EXCEPT !["bad"] = 1], [Out(1, 2, 1) EXCEPT !["nosqe"] = 1, !["close"] = 1],
    [Out(2, 3, 1) EXCEPT !["refuse"] = 3, !["retry"] = 1, !["close"] = 1],
    \* requests, descriptors used again, zero-copy replies
    [In(1, 1) EXCEPT !["tick"] = 1, !["zc"] = 1, !["close"] = 1],
    [In(2, 1) EXCEPT !["close"] = 1, !["zc"] = 2], [In(1, 2) EXCEPT !["close"] = 1, !["zc"] = 2] }

MCCmBounds == [attempts |-> 2, requests |-> 1, removals |-> 1]

MCInit ==
  /\ part \in {"tcp", "rdma", "cm"}
  /\ Init /\ RdmaInit /\ CmInit
  /\ part # "tcp" => left["accept"] = 2
  /\ part # "rdma" => ~odp

MCNext ==
  \/ part = "tcp" /\ Next /\ UNCHANGED <<rdmaVars, cmVars>>
  \/ part = "rdma" /\ RdmaNext /\ UNCHANGED <<vars, cmVars>>
  \/ part = "cm" /\ CmNext /\ UNCHANGED <<vars, rdmaVars>>

mcVars == <<part, vars, rdmaVars, cmVars>>

MCSpec == MCInit /\ [][MCNext /\ UNCHANGED part]_mcVars /\ Fairness

============================================================================
