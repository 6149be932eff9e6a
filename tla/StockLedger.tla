----------------------------- MODULE StockLedger -----------------------------
(***************************************************************************)
(* What the inventory verbs promise their callers (inventory/doc.go,       *)
(* transfer.go): the stock of a cell, one item in one warehouse, changes   *)
(* by whole documents, each booked at most once however often its caller   *)
(* retries it; no document takes a cell below zero unless it asks to; a    *)
(* transfer leaves one cell and enters another at once, or is in transit   *)
(* in between, and what arrives is what was shipped, once.                 *)
(***************************************************************************)
EXTENDS Integers

CONSTANTS
  Cells, Keys,
  Transfers, \* whether a key is a warehouse transfer's
  Overdraws  \* whether a key's document may take a cell below zero

VARIABLES
  onHand,  \* the quantity of each cell
  transit, \* what each transfer has shipped and not received
  booked   \* the documents that have been booked under their idempotency key

LedgerInit ==
  /\ onHand = [c \in Cells |-> 0]
  /\ transit = [k \in Keys |-> 0]
  /\ booked = {}

(* One cell changes.                                                       *)
Change(c) ==
  /\ onHand' = [onHand EXCEPT ![c] = onHand'[c]]
  /\ onHand'[c] \in Int

(* What is taken from a cell was there.                                    *)
Covered(c) == onHand'[c] < onHand[c] => onHand'[c] >= 0

(* Stock leaves one cell and enters another: as much of it in a transfer,  *)
(* in a build as much as is made.                                          *)
ChangeBoth(c, d) ==
  /\ onHand' = [onHand EXCEPT ![c] = onHand'[c], ![d] = onHand'[d]]
  /\ onHand'[c] \in Nat /\ onHand'[c] < onHand[c]
  /\ onHand'[d] \in Int /\ onHand'[d] > onHand[d]

TransferOf(k, c, d) ==
  Transfers[k] => onHand'[c] + onHand'[d] = onHand[c] + onHand[d]

Book(k) == k \notin booked /\ booked' = booked \cup {k}

(* A manual adjustment has no key: every call counts.                      *)
Adjust(c) == Change(c) /\ Covered(c) /\ UNCHANGED <<transit, booked>>

BookOne(k, c) ==
  /\ Book(k) /\ ~Transfers[k]
  /\ Change(c) /\ (Overdraws[k] \/ Covered(c))
  /\ UNCHANGED transit

BookBoth(k, c, d) ==
  /\ Book(k) /\ ChangeBoth(c, d) /\ TransferOf(k, c, d)
  /\ UNCHANGED transit

(* A transfer without a date of receipt.                                   *)
Ship(k, c) ==
  /\ Book(k) /\ Transfers[k]
  /\ Change(c) /\ onHand'[c] \in Nat /\ onHand'[c] < onHand[c]
  /\ transit' = [transit EXCEPT ![k] = onHand[c] - onHand'[c]]

(* The same transfer, completed by a later call.                           *)
Arrive(k, c) ==
  /\ transit[k] > 0
  /\ onHand' = [onHand EXCEPT ![c] = @ + transit[k]]
  /\ transit' = [transit EXCEPT ![k] = 0]
  /\ UNCHANGED booked

LedgerNext ==
  \E c \in Cells :
    \/ Adjust(c)
    \/ \E k \in Keys :
         \/ BookOne(k, c) \/ Ship(k, c) \/ Arrive(k, c)
         \/ \E d \in Cells \ {c} : BookBoth(k, c, d)

LedgerSpec == LedgerInit /\ [][LedgerNext]_<<onHand, transit, booked>>
=============================================================================
