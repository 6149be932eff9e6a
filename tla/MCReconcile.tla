---------------------------- MODULE MCReconcile ----------------------------
(***************************************************************************)
(* Two browser windows and two lines, of the first and of the second       *)
(* statement; the engine finds the later one.                              *)
(***************************************************************************)
EXTENDS Reconcile, FiniteSetsExt, TLC

UserSymmetry == Permutations(Users)

MCDay == "a" :> 1 @@ "b" :> 2
MCNet == [S \in SUBSET Lines |-> MapThenSumSet(LAMBDA l : IF l = "a" THEN 1 ELSE 2, S)]
LaterLine == {{"b"}}

\* One window uses the buttons R, the other one S.
Windows(R, S) == {w \in [Users -> {R, S}] : {w[u] : u \in Users} = {R, S}}

MCWorkloads ==
  UNION {Windows({"tick", "finish", "void"}, {"tick", "finish", "void"}),
         Windows({"finish", "match", "answer"}, {"void"}),
         Windows({"tick", "finish", "match", "answer"}, {"answer"}),
         Windows({"tick", "finish", "match", "answer", "save", "discard"}, {})}
=============================================================================
