--------------------------- MODULE MCReceivables ---------------------------
(* Two invoices, a deposit, a credit note, a receipt, a credit note raised *)
(* for the first invoice, and the deposits two payments may create.        *)
EXTENDS Receivables

MCAmount == [x \in Docs |-> CASE x = 1 -> 6 [] x = 2 -> 4 [] x = 11 -> 4 [] x = 12 -> 5
                              [] x = 13 -> 3 [] x = 14 -> 2 [] OTHER -> 0]
MCKind == [c \in Credits |-> CASE c \in {11, 15, 16} -> "deposit" [] c \in {12, 14} -> "note"
                               [] OTHER -> "receipt"]
MCLink == [c \in Credits |-> IF c = 14 THEN 1 ELSE None]

Ask(kind, c, i, amount) ==
  [kind |-> kind, credit |-> c, invoice |-> i, amount |-> amount,
   lines |-> <<>>, uses |-> <<>>, extra |-> 0, makes |-> None]
Payment(lines, uses, extra, makes) ==
  [kind |-> "pay", credit |-> None, invoice |-> None, amount |-> 0,
   lines |-> lines, uses |-> uses, extra |-> extra, makes |-> makes]
On(i, a) == [x \in {i} |-> a]
OnBoth(i, a, j, b) == [x \in {i, j} |-> IF x = i THEN a ELSE b]

MCRequest ==
  [postD  |-> Ask("post", 11, None, 0),    postN  |-> Ask("post", 12, None, 0),
   postR  |-> Ask("post", 13, None, 0),    postL  |-> Ask("post", 14, None, 0),
   postD2 |-> Ask("post", 11, None, 0),    postL2 |-> Ask("post", 14, None, 0),
   useD   |-> Ask("apply", 11, 1, 2),      useN   |-> Ask("apply", 12, 2, 5),
   useN1  |-> Ask("apply", 12, 1, 2),      useR   |-> Ask("apply", 13, 1, 2),
   useR2  |-> Ask("apply", 13, 2, 1),      useD2  |-> Ask("apply", 11, 2, 1),
   backR2 |-> Ask("unapply", 13, 1, 0),
   backR  |-> Ask("unapply", 13, 1, 0),    backN  |-> Ask("unapply", 12, 2, 0),
   backN1 |-> Ask("unapply", 12, 1, 0),    backL  |-> Ask("unapply", 14, 1, 0),
   voidD  |-> Ask("void", 11, None, 0),    voidD2 |-> Ask("void", 11, None, 0),
   voidN  |-> Ask("void", 12, None, 0),    voidR  |-> Ask("void", 13, None, 0),
   voidR2 |-> Ask("void", 13, None, 0),    fullD  |-> Ask("apply", 11, 2, 4),
   voidM  |-> Ask("void", 15, None, 0),
   void1  |-> Ask("voidInvoice", None, 1, 0), void1b |-> Ask("voidInvoice", None, 1, 0),
   void2  |-> Ask("voidInvoice", None, 2, 0), send1 |-> Ask("send", None, 1, 0),
   payAll  |-> Payment(OnBoth(1, 7, 2, 2), On(11, 3), 0, 15),
   payPart |-> Payment(OnBoth(1, 2, 2, 2), OnBoth(11, 1, 12, 3), 1, 16),
   payNote |-> Payment(On(1, 4), On(12, 4), 0, None),
   payOne  |-> Payment(On(1, 2), <<>>, 0, None),
   payZero |-> Payment(On(2, 4), <<>>, 0, None),
   prepay  |-> Payment(<<>>, <<>>, 3, 16),
   useM    |-> Payment(On(2, 2), On(16, 2), 0, None)]

(* What the code keeps right: anything one at a time, except an invoice    *)
(* settled in part by a receipt or a deposit alone and then in full; and,  *)
(* at the same time, payments, postings and repeated voids.                *)
MCWorkloads ==
  {{"postD", "postN", "payAll", "payPart", "send1"},
   {"postD", "postD2", "postL", "postL2", "payPart"},
   {"postD", "postN", "payPart", "payNote", "useN"},
   {"postN", "useN", "backN", "useN1", "backN1", "void1"},
   {"postN", "useN", "void2", "voidN", "useN1", "payOne"},
   {"postR", "useR", "backR", "backR2", "useR2", "voidR", "voidR2"},
   {"postR", "useR", "backR", "payOne", "postL", "backL"},
   {"postD", "useD", "voidD", "voidD2", "useD2", "payOne"},
   {"postL", "void1", "void1b", "send1", "useN1", "postN"},
   {"prepay", "useM", "payAll", "postD"}}
MCOverlap == {{"pay"}, {"post"}, {"void"}, {"voidInvoice"}, {"pay", "post"}, {"voidInvoice", "post"}}

(* A deposit pays an invoice in full; then a payment is received for it.   *)
SettledWorkload == {{"postD", "fullD", "payZero"}}
SettledOverlap  == {}

=============================================================================
