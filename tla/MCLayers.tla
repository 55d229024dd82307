------------------------------ MODULE MCLayers ------------------------------
(* Small trees of layers and the commands run on them. *)
EXTENDS Layers

L(name, parent, ro, d) ==
  [conf |-> [name |-> name, parent |-> parent, ro |-> ro, del |-> FALSE, rev |-> 0], data |-> d]
Cmd(op, name, as) == [op |-> op, name |-> name, as |-> as, parent |-> ""]
Clone(name, parent) == [op |-> "clone", name |-> name, as |-> "", parent |-> parent]

Faults(c, a) == [crashes |-> c, answers |-> a]

(* A snapshot is made and removed while the client writes and reads. *)
Snapshot ==
  [units |-> 2, names |-> {"base", "img", "snap"}, image |-> "img",
   layers |-> <<L("base", 0, TRUE, <<1, 1>>), L("img", 1, FALSE, <<0, 2>>)>>,
   cmds |-> [a |-> <<Cmd("snap", "img", "snap"), Cmd("rm", "snap", "snap")>>],
   writes |-> <<1>>, reads |-> 1, faults |-> Faults(1, 0)]

(* A removal that races with writes dies or loses an answer and is run again. *)
Again ==
  [units |-> 3, names |-> {"snap", "img"}, image |-> "img",
   layers |-> <<L("snap", 0, TRUE, <<1, 1, 1>>), L("img", 1, FALSE, <<0, 2, 0>>)>>,
   cmds |-> [a |-> <<Cmd("rm", "snap", "snap"), Cmd("rm", "snap", "snap")>>],
   writes |-> <<3, 1>>, reads |-> 0, faults |-> Faults(1, 1)]

(* The child of the removed layer is a snapshot itself: it may be merged   *)
(* down and take the layer's place.                                        *)
Upside ==
  [units |-> 2, names |-> {"old", "new", "img"}, image |-> "img",
   layers |-> <<L("old", 0, TRUE, <<1, 1>>), L("new", 1, TRUE, <<0, 2>>), L("img", 2, FALSE, <<0, 0>>)>>,
   cmds |-> [a |-> <<Cmd("rm", "old", "old"), Cmd("rm", "old", "old")>>],
   writes |-> <<2>>, reads |-> 1, faults |-> Faults(1, 0)]

(* Two layers are removed at once: the snapshot above them may be merged   *)
(* into the lower one, which is not its parent.                            *)
Deep ==
  [units |-> 2, names |-> {"old", "mid", "new", "img"}, image |-> "img",
   layers |-> <<L("old", 0, TRUE, <<1, 1>>), L("mid", 1, TRUE, <<2, 0>>),
                L("new", 2, TRUE, <<3, 0>>), L("img", 3, FALSE, <<0, 0>>)>>,
   cmds |-> [a |-> <<Cmd("rm", "old", "mid"), Cmd("rm", "old", "mid")>>],
   writes |-> <<>>, reads |-> 1, faults |-> Faults(1, 0)]

(* The removed layer has two children. *)
TwoKids ==
  [units |-> 2, names |-> {"base", "img", "c", "d"}, image |-> "img",
   layers |-> <<L("base", 0, TRUE, <<1, 1>>), L("img", 1, FALSE, <<0, 2>>),
                L("c", 1, TRUE, <<3, 0>>), L("d", 3, FALSE, <<0, 0>>)>>,
   cmds |-> [a |-> <<Cmd("rm", "base", "base")>>],
   writes |-> <<1>>, reads |-> 1, faults |-> Faults(1, 0)]

(* One tool flattens an image while another one makes a snapshot of it. *)
Flatten ==
  [units |-> 2, names |-> {"base", "img", "snap"}, image |-> "img",
   layers |-> <<L("base", 0, TRUE, <<1, 1>>), L("img", 1, FALSE, <<0, 2>>)>>,
   cmds |-> [a |-> <<Cmd("flatten", "img", "")>>, b |-> <<Cmd("snap", "img", "snap")>>],
   writes |-> <<1>>, reads |-> 1, faults |-> Faults(1, 1)]

(* Two tools contend for the same number and the same names. *)
Create ==
  [units |-> 1, names |-> {"base", "x", "img", "y"}, image |-> "img",
   layers |-> <<L("base", 0, TRUE, <<1>>), L("img", 1, FALSE, <<0>>)>>,
   cmds |-> [a |-> <<Clone("x", "base"), Cmd("snap", "img", "y")>>, b |-> <<Clone("x", ""), Cmd("rename", "x", "y")>>],
   writes |-> <<>>, reads |-> 0, faults |-> Faults(0, 1)]

(* Another child of a removed layer is renamed. *)
Rename ==
  [units |-> 1, names |-> {"base", "x", "img", "y"}, image |-> "img",
   layers |-> <<L("base", 0, TRUE, <<1>>), L("img", 1, FALSE, <<2>>), L("x", 1, FALSE, <<0>>)>>,
   cmds |-> [a |-> <<Cmd("rm", "base", "base"), Cmd("rm", "base", "base")>>, b |-> <<Cmd("rename", "x", "y")>>],
   writes |-> <<>>, reads |-> 0, faults |-> Faults(0, 0)]

MCSetups == {Snapshot, Again, Upside, Deep, TwoKids, Flatten, Create, Rename}
=============================================================================
