----------------------------- MODULE SaleLedger -----------------------------
(***************************************************************************)
(* What the sale path promises: a confirmed sale is recorded under its key *)
(* and takes its quantities from the stock in one indivisible step, at     *)
(* most once for a key and never below zero.                               *)
(***************************************************************************)
EXTENDS Integers, Sequences, SequencesExt

CONSTANTS Keys, Batches, Received, Requests, None

VARIABLES stock, sales

\* What the lines of a request take from a batch.
Demand(r, b) ==
    FoldLeft(LAMBDA sum, line : IF line.batch = b THEN sum + line.qty ELSE sum, 0, r.lines)

Init == stock = Received /\ sales = [k \in Keys |-> None]

Record(r) ==
    /\ sales[r.key] = None
    /\ \A b \in Batches : Demand(r, b) <= stock[b]
    /\ sales' = [sales EXCEPT ![r.key] = r]
    /\ stock' = [b \in Batches |-> stock[b] - Demand(r, b)]

Next == \E r \in Requests : Record(r)

Spec == Init /\ [][Next]_<<stock, sales>>
=============================================================================
