-------------------------------- MODULE KvMap --------------------------------
(***************************************************************************)
(* What the key-value database promises to its clients (vitastor_kv.h): a  *)
(* map that changes only by the updates in progress, each time in one      *)
(* step.  An update may take effect again before it returns, because it is *)
(* repeated after a lost race; a client that died may leave one behind.    *)
(***************************************************************************)
EXTENDS Integers, Sequences

VARIABLES ops,   \* the operations [kind, key, cas]; their numbers are the values
          map,   \* key -> value, 0 where there is none
          ever,  \* every content so far
          run    \* operation -> [st, res, val, got]

vars == <<ops, map, ever, run>>

Absent == 0
IsUpdate(i) == ops[i].kind \in {"set", "del"}
Value(i) == IF ops[i].kind = "set" THEN i ELSE Absent
Looked(i) == {m[ops[i].key] : m \in ever}
Sorted(s) == \A j, k \in DOMAIN s : j < k => s[j] < s[k]

\* A listing has every key that was always there, and none that never was
ListedFrom(i, got) ==
  LET found == {got[j] : j \in DOMAIN got}
      from == {k \in DOMAIN map : k >= ops[i].key}
  IN  /\ Sorted(got)
      /\ {k \in from : \A m \in ever : m[k] # Absent} \subseteq found
      /\ found \subseteq {k \in from : \E m \in ever : m[k] # Absent}

\* The results an operation may have.  "unplaced" is any result of a reader
\* that met a block of its own process that was not written yet; "EIO" leaves
\* open what an update has done, but it does nothing later.
Explained(i, r) ==
  CASE r.res = "ok" /\ IsUpdate(i) -> Value(i) \in Looked(i)
    [] r.res = "ok" /\ ~IsUpdate(i) -> r.val \in Looked(i)
    [] r.res = "ENOENT" -> Absent \in Looked(i)
    [] r.res = "EAGAIN" -> ops[i].cas /\ \E v \in Looked(i) : v # Absent
    [] r.res = "end" -> ListedFrom(i, r.got)
    [] r.res = "unplaced" -> ~IsUpdate(i)
    [] r.res = "EIO" -> TRUE
    [] OTHER -> FALSE

Begin(i) == /\ run[i].st = "idle"
            /\ run' = [run EXCEPT ![i].st = "runs"]
            /\ UNCHANGED <<ops, map, ever>>
Apply(i) == /\ IsUpdate(i) /\ run[i].st \in {"runs", "dead"}
            /\ map' = [map EXCEPT ![ops[i].key] = Value(i)]
            /\ ever' = ever \cup {map'}
            /\ UNCHANGED <<ops, run>>
End(i) == /\ run[i].st = "runs" /\ run'[i].st = "done"
          /\ run' = [run EXCEPT ![i] = run'[i]]
          /\ Explained(i, run'[i])
          /\ UNCHANGED <<ops, map, ever>>
Die(S) == /\ \A i \in S : run[i].st = "runs"
          /\ run' = [i \in DOMAIN run |-> IF i \in S THEN [run[i] EXCEPT !.st = "dead"] ELSE run[i]]
          /\ UNCHANGED <<ops, map, ever>>

Init == ever = {map} /\ \A i \in DOMAIN run : run[i].st = "idle"
Next == \/ \E i \in DOMAIN run : Begin(i) \/ Apply(i) \/ End(i)
        \/ \E S \in SUBSET DOMAIN run : Die(S)
Spec == Init /\ [][Next]_vars
=============================================================================
