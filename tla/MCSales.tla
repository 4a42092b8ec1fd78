------------------------------ MODULE MCSales ------------------------------
(***************************************************************************)
(* Small instances of Sales: two batches, three concurrent requests, and   *)
(* every request a client may post, among them retries of one key.         *)
(***************************************************************************)
EXTENDS Sales, TLC

CONSTANTS h1, h2, h3, k1, k2, apple, pear

MCProductOf == 1 :> apple @@ 2 :> pear
MCReceived  == 1 :> 3 @@ 2 :> 2
MCThreshold == apple :> 1 @@ pear :> 0

Apples(n) == [product |-> apple, batch |-> 1, qty |-> n]
Pears(n)  == [product |-> pear, batch |-> 2, qty |-> n]
Sale(k, lines) == [key |-> k, source |-> "manual", lines |-> lines]

\* A sale of the whole stock, two lines whose batches come in both orders, one batch in two
\* lines, a key with two payloads, and a batch of another tenant or product.
ManyRequests ==
    {Sale(k1, <<Apples(1), Pears(2)>>), Sale(k1, <<Apples(3)>>),
     Sale(k2, <<Pears(1), Apples(2)>>), Sale(k2, <<Apples(1), Apples(1)>>),
     Sale(k2, <<[Apples(1) EXCEPT !.batch = 9]>>),
     Sale(k2, <<[Pears(1) EXCEPT !.batch = 1]>>)}

FewRequests ==
    {Sale(k1, <<Apples(1), Pears(2)>>), Sale(k1, <<Apples(2)>>), Sale(k2, <<Apples(1)>>)}

AnyHandler == Permutations(Handlers)
=============================================================================
