----------------------------- MODULE SaleClient -----------------------------
(***************************************************************************)
(* The phone's side of POST /api/v1/sales, shared by the two sale screens: *)
(* requests travel, may be served long after the phone gave up waiting,    *)
(* and their answers may be lost.  The server is the ledger that Sales     *)
(* implements.                                                             *)
(*                                                                         *)
(* A transmission n carries a request [source, key, lines]; its key is the *)
(* number of the transmission that first used it, so a retry with the same *)
(* key has request.key < n.                                                *)
(***************************************************************************)
EXTENDS Integers, Sequences, FiniteSets

CONSTANTS
    Products, Batches,
    ProductOf,  \* product of each batch
    Received,   \* what each batch holds at the start
    MaxSends,   \* bound: transmissions of one behaviour
    None

VARIABLES
    stock,      \* the server's batches.quantity_remaining
    sales,      \* the sale recorded under each key
    wire,       \* transmissions the server has not served yet
    answer,     \* what the server answered to each transmission
    sent,       \* number of transmissions so far
    origin,     \* history: the first transmission of the same attempted sale
    unheard     \* history: transmissions whose answer the phone gave up

client == <<stock, sales, wire, answer, sent, origin, unheard>>

Sends == 1..MaxSends

\* What the phone may post.
Line    == [product : Products, batch : Batches, qty : Nat]
Request == [source : {"manual", "voice"}, key : Sends, lines : Seq(Line)]

\* None is no transmission and no request, and any batches that are listed are listed in an order.
ASSUME ClientAssumption ==
    /\ MaxSends \in Nat
    /\ None \notin Sends /\ None \notin Request
    /\ \A listed \in SUBSET Batches :
          listed # {} => \E b \in listed : \A c \in listed : b <= c

\* Bound: a screen is touched only while another transmission is left; what is on its way
\* still arrives.
InUse == sent < MaxSends

Ledger == INSTANCE SaleLedger
    WITH Keys <- Sends, Batches <- Batches, Received <- Received,
         Requests <- {}, None <- None, stock <- stock, sales <- sales

ClientInit ==
    /\ Ledger!Init
    /\ wire = {}
    /\ answer = [n \in Sends |-> "none"]
    /\ sent = 0
    /\ origin = [n \in Sends |-> 0]
    /\ unheard = {}

\* GET /batches?product_id=p&active_only=true, in the order of the batch ids.
Active(p) == [b \in {c \in Batches : ProductOf[c] = p /\ stock[c] > 0} |-> stock[b]]

First(offer) == CHOOSE b \in DOMAIN offer : \A c \in DOMAIN offer : b <= c

\* submitSale: the next transmission, under a key of its own or of an earlier one.
\* The vendor has attempted this sale before in transmission `again', if any.
Submit(source, key, lines, again) ==
    LET n == sent + 1 IN
    /\ n \in Sends
    /\ sent' = n
    /\ wire' = wire \union
          {[n |-> n, request |->
              [source |-> source, key |-> IF key = None THEN n ELSE key, lines |-> lines]]}
    /\ origin' = [origin EXCEPT ![n] = IF again = None THEN n ELSE origin[again]]
    /\ UNCHANGED <<stock, sales, answer, unheard>>

Recordable(r) ==
    /\ sales[r.key] = None
    /\ \A i \in DOMAIN r.lines : ProductOf[r.lines[i].batch] = r.lines[i].product
    /\ \A b \in Batches : Ledger!Demand(r, b) <= stock[b]

Replays(r) == sales[r.key] = r

\* The server gets round to a transmission, also when nobody waits for it any more.
\* The replay of several lines may be refused (Sales!LoadItems reads them in any order).
Serve(w) ==
    LET r == w.request
        Answer(status) == answer' = [answer EXCEPT ![w.n] = status] IN
    /\ wire' = wire \ {w}
    /\ UNCHANGED <<sent, origin, unheard>>
    /\ \/ Recordable(r) /\ Ledger!Record(r) /\ Answer("created")
       \/ Replays(r) /\ Answer("created") /\ UNCHANGED <<stock, sales>>
       \/ /\ ~Recordable(r) /\ (Replays(r) => Len(r.lines) > 1)
          /\ Answer("refused") /\ UNCHANGED <<stock, sales>>

\* The fetch is aborted after 30 seconds or the connection breaks; the server
\* may serve the request later, or have served it already.
GiveUp(n) ==
    /\ unheard' = unheard \union {n}
    /\ UNCHANGED <<stock, sales, wire, answer, sent, origin>>

SameAttempt(m, n) == origin[m] = origin[n] /\ origin[m] # 0

\* No attempted sale of a screen is recorded under two keys.
SoldOnce(source) ==
    \A m, n \in Sends :
        /\ sales[m] # None /\ sales[m].source = source
        /\ sales[n] # None /\ SameAttempt(m, n)
        => m = n
=============================================================================
