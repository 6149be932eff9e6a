------------------------------ MODULE MCGateway ------------------------------
(***************************************************************************)
(* One invoice, two checkouts.                                             *)
(***************************************************************************)
EXTENDS Gateway

Ask1(kind) == [kind |-> kind, invoice |-> "inv", amount |-> 0]

MCAmount == [i \in Invoices |-> 2]

MCRequest ==
  [pay1 |-> Ask1("pay"), pay2 |-> Ask1("pay"), back |-> Ask1("cancel"),
   again |-> Ask1("retry"), again2 |-> Ask1("retry"),
   post |-> Ask1("post"), post2 |-> Ask1("post"), apply |-> Ask1("apply"), apply2 |-> Ask1("apply"),
   cheque |-> [kind |-> "receive", invoice |-> "inv", amount |-> 1],
   drop |-> Ask1("void"), map |-> Ask1("configure")]

(* Two checkouts of one invoice; one checkout against everything the       *)
(* operator may do meanwhile.                                              *)
MCWorkloads ==
  {{"pay1", "pay2", "back"},
   {"pay1", "again", "post", "apply", "cheque", "map"},
   {"pay1", "again", "again2", "map", "drop"},
   {"pay1", "post", "post2", "apply", "apply2", "again"}}
=============================================================================
