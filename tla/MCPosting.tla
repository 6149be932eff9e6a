------------------------------ MODULE MCPosting ------------------------------
(***************************************************************************)
(* Two invoices of one sales order and a bill.                             *)
(***************************************************************************)
EXTENDS Posting, TLC

ProcSymmetry == Permutations(Procs)

Ask(kind, row) == [kind |-> kind, row |-> row, content |-> 0, order |-> None]
Draft(kind, row, content, o) == [kind |-> kind, row |-> row, content |-> content, order |-> o]

MCKind    == [d \in Docs |-> IF d = "bill" THEN "bill" ELSE "invoice"]
MCOrdered == [o \in Orders |-> 3]

MCRequest ==
  [new1 |-> Draft("create", "inv1", 2, "so"),   new2 |-> Draft("create", "inv2", 3, "so"),
   newB |-> Draft("create", "bill", 2, None),   edit1 |-> Draft("edit", "inv1", 1, "so"),
   edit1b |-> Draft("edit", "inv1", 2, None),   editB |-> Draft("edit", "bill", 1, None),
   edit2 |-> Draft("edit", "inv2", 1, "so"), over |-> Draft("create", "inv1", 4, "so"),
   post1 |-> Ask("post", "inv1"),   post1b |-> Ask("post", "inv1"),
   post2 |-> Ask("post", "inv2"),   issue1 |-> Ask("issue", "inv1"),
   issue2 |-> Ask("issue", "inv2"), postB |-> Ask("post", "bill"), postBb |-> Ask("post", "bill"),
   send1 |-> Ask("send", "inv1"),   send1b |-> Ask("send", "inv1"),
   void1 |-> Ask("void", "inv1"),   void1b |-> Ask("void", "inv1"),
   void2 |-> Ask("void", "inv2"),   voidB |-> Ask("void", "bill"), voidBb |-> Ask("void", "bill"),
   drop1 |-> Ask("delete", "inv1"), drop2 |-> Ask("delete", "inv2"),
   sure |-> Ask("confirm", "so"),   stop |-> Ask("cancel", "so"),
   enter |-> Draft("enter", None, 2, None),   again |-> Draft("replace", None, 1, None),
   undo |-> Ask("reverse", None),   undo2 |-> Ask("reverse", None)]

MCWorkloads ==
  {{"new1", "new2", "edit1", "post1", "post1b", "issue2", "edit2", "void1", "void2", "stop"},
   {"new1", "edit1", "post1", "post1b", "drop1", "send1", "void1", "void1b"},
   {"new1", "new2", "sure", "post1", "post1b", "post2", "void1", "void1b", "void2", "stop"},
   {"new1", "edit1", "edit1b", "issue1", "post1", "drop1", "send1", "send1b", "void1"},
   {"new1", "new2", "issue1", "post1", "post2", "void1", "void1b", "void2", "drop2"},
   {"newB", "editB", "postB", "postBb", "voidB", "voidBb"},
   {"enter", "again", "undo", "undo2", "newB", "postB", "postBb", "voidB", "voidBb"}}

(* Pairs the code does not keep apart on one row: an editor, an issue or a *)
(* sending may write an old row over a posting, an issue or a void, and a  *)
(* change of an order's status over what an invoice made of it.            *)
MCClash ==
  {{"edit", "post"}, {"edit", "issue"}, {"issue", "post"}, {"issue"}, {"send", "void"},
   {"confirm", "post"}, {"confirm", "issue"}, {"cancel", "post"}, {"cancel", "issue"}}

(* Of an invoice for more than is left of its order, "the leftover qty is  *)
(* untracked" (sales_order_invoice_tracking.go:166-168), so an order never *)
(* has more invoiced than ordered.  With OverWorkload as Workloads this    *)
(* fails: mutateSOInvoicedTotals adds it all.                              *)
OnlyOrderedIsTracked == \A o \in Orders : order[o].invoiced <= Ordered[o]
OverWorkload         == {{"over", "post1"}}

EditClash == MCClash \ {{"edit", "post"}}
=============================================================================
