----------------------------- MODULE ManualSale -----------------------------
(***************************************************************************)
(* The manual sale screen: the vendor chooses a product, a batch and a     *)
(* quantity and confirms.  Lists of batches arrive in any order, every     *)
(* control except Confirm stays usable while a confirmation is under way,  *)
(* and every confirmation draws a new idempotency key.                     *)
(***************************************************************************)
EXTENDS SaleClient

CONSTANTS
    MostUnits,    \* bound: what the quantity field may hold
    MaxLoads      \* bound: lists of batches on their way at once

VARIABLES
    manual,       \* the state of the mounted screen
    loads         \* GET /batches on their way: [product, prefer, list]

screen == <<manual, loads>>

Closed == [at |-> "closed"]

\* batch is a BatchSummary as it was when it was listed: [id, left].  attempt is a
\* history: the transmission that first attempted the sale as it stands on the screen.
Opened(p, b) ==
    [at |-> "loading", wish |-> [product |-> p, batch |-> b], product |-> None, offer |-> <<>>,
     batch |-> None, quantity |-> 1, waiting |-> None, claim |-> None, done |-> None,
     attempt |-> None]

ManualInit == manual = Closed /\ loads = <<>>

\* The route may name a product and a batch: Sell on an alert.
OpenManual(p, b) ==
    /\ manual = Closed
    /\ manual' = Opened(p, b)
    /\ UNCHANGED <<loads, client>>

\* Cancel, also while busy, and Back to Dashboard: a sale under way goes on without the screen.
CloseManual ==
    /\ manual # Closed
    /\ manual' = Closed
    /\ loads' = <<>>
    /\ UNCHANGED client

Touchable == manual.at = "form" /\ InUse

\* selectProduct: the batches of the former product stay listed until the new ones arrive.
Select(p, prefer) ==
    /\ Len(loads) < MaxLoads /\ InUse
    /\ manual' = [manual EXCEPT !.at = "form", !.wish = None, !.product = p,
                                !.batch = None, !.done = None, !.attempt = None,
                                !.quantity = IF manual.at = "done" THEN 1 ELSE @]
    /\ loads' = Append(loads, [product |-> p, prefer |-> prefer, list |-> None])
    /\ UNCHANGED client

ProductsArrive ==
    /\ manual.at = "loading"
    /\ \E p \in Products :
          /\ manual.wish.product \in Products => p = manual.wish.product
          /\ Select(p, manual.wish.batch)

ProductsFail ==
    /\ manual.at = "loading"
    /\ manual' = [manual EXCEPT !.at = "no products", !.wish = None]
    /\ UNCHANGED <<loads, client>>

SelectProduct(p) == Touchable /\ Select(p, None)

ServeBatches(i) ==
    /\ loads[i].list = None
    /\ loads' = [loads EXCEPT ![i].list = Active(loads[i].product)]
    /\ UNCHANGED <<manual, client>>

\* Whichever list arrives last is shown, and its default is chosen, whatever was chosen meanwhile.
Default(offer, prefer) ==
    IF offer = <<>> THEN manual.batch
    ELSE LET b == IF prefer \in DOMAIN offer THEN prefer ELSE First(offer) IN
         [id |-> b, left |-> offer[b]]

BatchesArrive(i) ==
    LET list == loads[i].list
        chosen == Default(list, loads[i].prefer) IN
    /\ list # None
    /\ manual' = [manual EXCEPT !.offer = list, !.batch = chosen,
                                !.attempt = IF chosen = manual.batch THEN @ ELSE None]
    /\ loads' = SubSeq(loads, 1, i - 1) \o SubSeq(loads, i + 1, Len(loads))
    /\ UNCHANGED client

BatchesFail(i) ==
    /\ loads' = SubSeq(loads, 1, i - 1) \o SubSeq(loads, i + 1, Len(loads))
    /\ UNCHANGED <<manual, client>>

PickBatch(b) ==
    /\ Touchable /\ manual.product # None /\ b \in DOMAIN manual.offer
    /\ manual' = [manual EXCEPT !.batch = [id |-> b, left |-> manual.offer[b]], !.attempt = None]
    /\ UNCHANGED <<loads, client>>

\* 0 stands for a text that is no whole number of at least 1.
Quantities == 0..MostUnits

\* Typing, the presets and Max; none of them looks at the stock.
SetQuantity(q) ==
    /\ q \in Quantities
    /\ Touchable /\ manual.product # None
    /\ manual' = [manual EXCEPT !.quantity = q, !.attempt = None]
    /\ UNCHANGED <<loads, client>>

\* The two steppers, which do.
AdjustQuantity(delta) ==
    LET from == IF manual.quantity = 0 THEN 1 ELSE manual.quantity
        most == IF manual.batch = None THEN MostUnits ELSE manual.batch.left
        next == IF from + delta > most THEN most ELSE from + delta IN
    Touchable /\ SetQuantity(IF next < 1 THEN 1 ELSE next)

\* What confirm demands before it sends anything; it looks at the stock as it was listed.
Complete ==
    /\ manual.batch # None
    /\ manual.quantity \in 1..manual.batch.left

\* What confirm closes over, and later reports as sold.
Claim == [product |-> manual.product, batch |-> manual.batch.id, qty |-> manual.quantity]

\* A fresh key for every confirmation, a second one of the same sale included.
Send ==
    /\ Submit("manual", None, <<Claim>>, manual.attempt)
    /\ manual' = [manual EXCEPT !.waiting = sent', !.claim = Claim,
                                !.attempt = IF @ = None THEN sent' ELSE @]
    /\ UNCHANGED loads

\* Mutant of Confirm: the button is not disabled while busy.
ConfirmTwice == Touchable /\ Complete /\ Send

Confirm == Touchable /\ manual.waiting = None /\ Complete /\ Send

Awaiting(status) == manual # Closed /\ manual.waiting # None /\ answer[manual.waiting] = status

\* Mutant of SaleCreated: the summary is made from what the screen shows now.
SaleCreatedAsShown ==
    /\ Awaiting("created") /\ manual.batch # None
    /\ manual' = [manual EXCEPT !.at = "done", !.waiting = None, !.claim = None,
                                !.done = [n |-> manual.waiting, line |-> Claim]]
    /\ UNCHANGED <<loads, client>>

SaleCreated ==
    /\ Awaiting("created")
    /\ manual' = [manual EXCEPT !.at = "done", !.waiting = None, !.claim = None,
                                !.done = [n |-> manual.waiting, line |-> manual.claim]]
    /\ UNCHANGED <<loads, client>>

SaleRefused ==
    /\ Awaiting("refused")
    /\ manual' = [manual EXCEPT !.waiting = None, !.claim = None]
    /\ UNCHANGED <<loads, client>>

SaleUnheard ==
    /\ manual # Closed /\ manual.waiting # None
    /\ GiveUp(manual.waiting)
    /\ manual' = [manual EXCEPT !.waiting = None, !.claim = None]
    /\ UNCHANGED loads

\* resetForNextSale
SellAnother == manual.at = "done" /\ Select(manual.product, None)

ManualNext ==
    \/ CloseManual \/ ProductsArrive \/ ProductsFail \/ Confirm
    \/ SaleCreated \/ SaleRefused \/ SaleUnheard \/ SellAnother
    \/ \E p \in Products : SelectProduct(p)
    \/ \E i \in DOMAIN loads : ServeBatches(i) \/ BatchesArrive(i) \/ BatchesFail(i)
    \/ \E b \in Batches : PickBatch(b)
    \/ \E q \in Quantities : SetQuantity(q)
    \/ \E d \in {-1, 1} : AdjustQuantity(d)
-----------------------------------------------------------------------------
\* What the done view says was deducted is what the server recorded for this
\* confirmation, whatever the vendor touched while it was busy.
ManualDoneIsRecorded ==
    manual.at = "done" =>
        LET sale == sales[manual.done.n] IN sale # None /\ sale.lines = <<manual.done.line>>

\* FR-V-011: confirming the sale on the screen again, after an error, does not
\* record it a second time.
ManualAttemptSoldOnce == SoldOnce("manual")

\* The code's weaker promise: it is recorded twice only when the answer to an
\* earlier confirmation was lost.
SecondSaleNeedsLostAnswer ==
    \A m, n \in Sends :
        m < n /\ SameAttempt(m, n) /\ sales[m] # None /\ sales[n] # None => m \in unheard
=============================================================================
