------------------------- MODULE SaleScreensProofs -------------------------
(***************************************************************************)
(* What a vendor and a lossy network cannot make the two sale screens do,  *)
(* for any products, batches, drafts and number of transmissions.          *)
(***************************************************************************)
EXTENDS SaleScreens, SumLemmas

\* The requests that are recorded or may still be.
Recorded == {sales[k] : k \in {m \in Sends : sales[m] # None}}
Asked    == {w.request : w \in wire} \union Recorded

\* A sale may stand, now or later, under the key m.
Live(m) == \E r \in Asked : r.key = m

Wired ==
    \A w \in wire :
        /\ w = [n |-> w.n, request |-> w.request]
        /\ w.n \in 1..sent /\ answer[w.n] = "none"
        /\ \A v \in wire : v.n = w.n => v = w

\* The first transmission of an attempted sale is the origin of all of them.
Origins ==
    \A m \in 1..sent : origin[m] \in 1..m /\ origin[origin[m]] = origin[m]

\* The voice screen keeps the key of an attempt; an attempt belongs to one screen.
Keyed ==
    /\ \A k \in Sends : sales[k] # None => sales[k].key = k
    /\ \A r \in Asked : /\ r.key \in 1..sent /\ r.source \in {"manual", "voice"}
                        /\ r.source = "voice" => origin[r.key] = r.key
    /\ \A q, r \in Asked : origin[q.key] = origin[r.key] => q.source = r.source

\* Of two keys of one attempt the answer to the earlier was lost.
Paired ==
    \A m, n \in 1..sent :
        m < n /\ origin[m] = origin[n] /\ Live(m) /\ Live(n) => m \in unheard

Posted ==
    /\ sent \in 0..MaxSends
    /\ DOMAIN sales = Sends /\ DOMAIN answer = Sends /\ DOMAIN origin = Sends
    /\ \A n \in Sends \ 1..sent : answer[n] = "none"
    /\ Wired /\ Origins /\ Keyed /\ Paired

\* An attempt of a screen, or none.
Attempt(a, source) ==
    a # None =>
        /\ a \in 1..sent /\ origin[a] = a
        /\ \A r \in Asked : origin[r.key] = a => r.source = source
-----------------------------------------------------------------------------
Fields == {"at", "wish", "product", "offer", "batch", "quantity", "waiting", "claim", "done",
           "attempt"}

\* What confirm reads is well formed.
Filled(m) ==
    /\ DOMAIN m = Fields
    /\ m.at \in {"loading", "no products", "form", "done"}
    /\ m.at \in {"form", "done"} \/ m.waiting # None => m.product \in Products
    /\ m.batch # None => m.batch.id \in Batches
    /\ m.quantity \in Nat

Confirmed(n, line) == [source |-> "manual", key |-> n, lines |-> <<line>>]

\* The request a screen waits for sells what the screen will report.
Awaited(n, line) ==
    /\ n \in 1..sent /\ line \in Line
    /\ \A w \in wire : w.n = n \/ w.request.key = n => w.n = n /\ w.request = Confirmed(n, line)
    /\ sales[n] \in {None, Confirmed(n, line)}
    /\ answer[n] = "created" => sales[n] = Confirmed(n, line)
    /\ answer[n] = "refused" => sales[n] = None

Reported(done) == done.n \in Sends /\ sales[done.n] # None /\ sales[done.n].lines = <<done.line>>

\* All transmissions of the sale on the screen but the one it waits for are dead or unheard.
Spent(m) ==
    m.attempt # None /\ m.at # "done" =>
        \A k \in 1..sent : origin[k] = m.attempt /\ Live(k) => k \in unheard \/ k = m.waiting

Manually(m) ==
    /\ Filled(m)
    /\ m.waiting # None => Awaited(m.waiting, m.claim)
    /\ m.at = "done" => Reported(m.done)
    /\ Attempt(m.attempt, "manual")
    /\ Spent(m)

\* A list of batches on its way.
Load(l) ==
    /\ DOMAIN l = {"product", "prefer", "list"}
    /\ l.list # None => /\ DOMAIN l.list \subseteq Batches
                        /\ l.list = [b \in DOMAIN l.list |-> l.list[b]]

Loaded ==
    /\ loads \in Seq({loads[i] : i \in DOMAIN loads})
    /\ \A i \in DOMAIN loads : Load(loads[i])

VoiceFields == {"open", "fallback", "listening", "parsing", "lines", "cache", "key", "waiting",
                "claim", "refreshing", "done", "attempt"}

Spoken(v) ==
    /\ DOMAIN v = VoiceFields /\ v.open = TRUE
    /\ v.key = v.attempt /\ Attempt(v.attempt, "voice")

ManualInv == (manual = Manual!Closed /\ loads = <<>>) \/ Manually(manual)

\* One screen at a time is mounted.
VoiceInv ==
    \/ voice = Voice!Closed /\ replies = <<>>
    \/ Spoken(voice) /\ manual = Manual!Closed

ScreensInv == Posted /\ ManualInv /\ Loaded /\ VoiceInv
-----------------------------------------------------------------------------
(* The wire. *)

\* A transmission under a key of its own or, on the voice screen, under the key of its
\* attempt.
LEMMA SubmitPosted ==
    ASSUME Posted, NEW source \in {"manual", "voice"}, NEW key, NEW lines, NEW again,
           Submit(source, key, lines, again), Attempt(again, source),
           source = "voice" => key = again,
           source = "manual" =>
              /\ key = None
              /\ again # None =>
                    \A k \in 1..sent : origin[k] = again /\ Live(k) => k \in unheard
    PROVE  Posted'
  <1> DEFINE n == sent + 1
             r == [source |-> source, key |-> IF key = None THEN n ELSE key, lines |-> lines]
             w == [n |-> n, request |-> r]
             a == IF again = None THEN n ELSE origin[again]
  <1>1. /\ sent \in 0..MaxSends /\ MaxSends \in Nat /\ n \in Sends
        /\ sent' = n /\ wire' = wire \union {w} /\ origin' = [origin EXCEPT ![n] = a]
        /\ UNCHANGED <<sales, answer, unheard>>
    BY ClientAssumption DEF Submit, Posted
  <1>2. r.source = source /\ w.n = n /\ w.request = r
    OBVIOUS
  <1>3. a = n \/ (a \in 1..sent /\ a = again /\ origin[a] = a /\ again # None)
    BY DEF Attempt
  <1>4. r.key = IF source = "manual" THEN n ELSE a
    BY <1>3 DEF Attempt
  <1>5. origin'[n] = a /\ \A k \in 1..sent : origin'[k] = origin[k]
    BY <1>1 DEF Posted, Sends
  <1>6. Asked' = Asked \union {r}
    BY <1>1, <1>2 DEF Asked, Recorded
  <1>7. /\ sent \in Nat /\ n \notin 1..sent /\ n \in 1..sent' /\ 1..sent \subseteq 1..sent'
        /\ \A k \in 1..sent' : k \in 1..sent \/ k = n
        /\ \A k \in 1..sent : k < n
    BY <1>1
  <1>8. w = [n |-> w.n, request |-> w.request]
    OBVIOUS
  <1> HIDE DEF n, r, w, a
  <1>9. \A k \in 1..sent : origin[k] \in 1..sent /\ origin[k] # n
    BY <1>1, <1>7 DEF Posted, Origins
  <1>10. Wired'
    <2>1. \A v \in wire : v.n \in 1..sent
      BY DEF Posted, Wired
    <2>2. ASSUME NEW v \in wire'
          PROVE  /\ v = [n |-> v.n, request |-> v.request]
                 /\ v.n \in 1..sent' /\ answer'[v.n] = "none"
                 /\ \A u \in wire' : u.n = v.n => u = v
      <3>1. CASE v \in wire
        BY <1>1, <1>2, <1>7, <2>1, <3>1 DEF Posted, Wired
      <3>2. CASE v = w
        BY <1>1, <1>2, <1>7, <1>8, <2>1, <3>2 DEF Posted
      <3> QED
        BY <1>1, <3>1, <3>2
    <2> QED
      BY <2>2 DEF Wired
  <1>11. Origins'
    <2>1. ASSUME NEW k \in 1..sent'
          PROVE  origin'[k] \in 1..k /\ origin'[origin'[k]] = origin'[k]
      <3>1. CASE k \in 1..sent
        BY <1>5, <1>9, <3>1 DEF Posted, Origins
      <3>2. CASE k = n /\ a = n
        BY <1>5, <1>7, <3>2
      <3>3. CASE k = n /\ a \in 1..sent /\ origin[a] = a
        BY <1>5, <1>7, <3>3
      <3> QED
        BY <1>3, <1>7, <3>1, <3>2, <3>3
    <2> QED
      BY <2>1 DEF Origins
  <1>12. \A q \in Asked : q.key \in 1..sent
    BY DEF Posted, Keyed
  <1>13. r.key \in 1..sent' /\ origin'[r.key] = a /\ (source = "voice" => r.key = a)
    <2>1. a \in 1..sent' /\ origin'[a] = a
      BY <1>3, <1>5, <1>7
    <2> QED
      BY <1>4, <1>5, <1>7, <2>1
  <1>14. \A q \in Asked : origin'[q.key] = a => q.source = source
    BY <1>3, <1>5, <1>9, <1>12 DEF Attempt
  <1>15. Keyed'
    <2>1. \A k \in Sends : sales'[k] # None => sales'[k].key = k
      BY <1>1 DEF Posted, Keyed
    <2>2. \A q \in Asked' : /\ q.key \in 1..sent' /\ q.source \in {"manual", "voice"}
                            /\ q.source = "voice" => origin'[q.key] = q.key
      BY <1>2, <1>5, <1>6, <1>7, <1>13 DEF Posted, Keyed
    <2>3. \A p, q \in Asked : origin'[p.key] = origin'[q.key] => p.source = q.source
      BY <1>5, <1>12 DEF Posted, Keyed
    <2>4. \A p, q \in Asked' : origin'[p.key] = origin'[q.key] => p.source = q.source
      BY <1>2, <1>6, <1>13, <1>14, <2>3
    <2> QED
      BY <2>1, <2>2, <2>4 DEF Keyed
  <1>16. Paired'
    <2> SUFFICES ASSUME NEW k \in 1..sent', NEW m \in 1..sent', k < m,
                        origin'[k] = origin'[m], Live(k)', Live(m)'
                 PROVE  k \in unheard'
      BY DEF Paired
    <2>1. PICK p \in Asked' : p.key = k
      BY DEF Live
    <2>2. PICK q \in Asked' : q.key = m
      BY DEF Live
    <2>3. p.source = q.source
      BY <1>15, <2>1, <2>2 DEF Keyed
    <2>4. p.source = "manual"
      BY <1>7, <1>15, <2>1, <2>2, <2>3 DEF Keyed
    <2>5. k \in 1..sent
      BY <1>7
    <2>6. p \in Asked
      BY <1>2, <1>4, <1>6, <1>7, <2>1, <2>4, <2>5
    <2>7. CASE q \in Asked
      BY <1>1, <1>5, <1>12, <2>1, <2>2, <2>5, <2>6, <2>7 DEF Posted, Paired, Live
    <2>8. CASE q = r
      <3>1. source = "manual" /\ m = n
        BY <1>2, <1>4, <2>2, <2>3, <2>4, <2>8
      <3>2. origin[k] = a
        BY <1>5, <2>5, <3>1
      <3> QED
        BY <1>1, <1>3, <1>9, <2>1, <2>5, <2>6, <3>1, <3>2 DEF Live
    <2> QED
      BY <1>6, <2>7, <2>8
  <1>17. /\ sent' \in 0..MaxSends
         /\ DOMAIN sales' = Sends /\ DOMAIN answer' = Sends /\ DOMAIN origin' = Sends
         /\ \A k \in Sends \ 1..sent' : answer'[k] = "none"
    BY <1>1, <1>7 DEF Posted, Sends, n
  <1> QED
    BY <1>10, <1>11, <1>15, <1>16, <1>17 DEF Posted

\* What the server does: it records a request or answers it, and forgets it.
LEMMA ServePosted ==
    ASSUME Posted, NEW w \in wire, Serve(w)
    PROVE  /\ Posted' /\ Asked' \subseteq Asked
           /\ wire' = wire \ {w} /\ UNCHANGED <<sent, origin, unheard>>
           /\ \A k \in Sends : /\ sales[k] # None => sales'[k] = sales[k]
                               /\ sales'[k] # sales[k] =>
                                     sales'[k] = w.request /\ k = w.request.key
           /\ \A k \in Sends \ {w.n} : answer'[k] = answer[k]
           /\ \/ answer'[w.n] = "created" /\ sales'[w.request.key] = w.request
              \/ /\ answer'[w.n] = "refused" /\ sales' = sales
                 /\ sales[w.request.key] = w.request => Len(w.request.lines) > 1
  <1> DEFINE r == w.request
  <1>1. wire' = wire \ {w} /\ UNCHANGED <<sent, origin, unheard>>
    BY DEF Serve
  <1>2. /\ DOMAIN sales = Sends /\ DOMAIN answer = Sends /\ w.n \in 1..sent
        /\ 1..sent \subseteq Sends /\ r \in Asked /\ r.key \in 1..sent
    BY ClientAssumption DEF Posted, Wired, Keyed, Asked, Sends
  <1>3. \/ /\ sales[r.key] = None /\ sales' = [sales EXCEPT ![r.key] = r]
           /\ answer' = [answer EXCEPT ![w.n] = "created"]
        \/ /\ sales' = sales /\ sales[r.key] = r
           /\ answer' = [answer EXCEPT ![w.n] = "created"]
        \/ /\ sales' = sales /\ (sales[r.key] = r => Len(r.lines) > 1)
           /\ answer' = [answer EXCEPT ![w.n] = "refused"]
    BY DEF Serve, Ledger!Record, Replays
  <1> HIDE DEF r
  <1>4. \A k \in Sends : /\ sales[k] # None => sales'[k] = sales[k]
                         /\ sales'[k] # sales[k] => sales'[k] = r /\ k = r.key
    BY <1>2, <1>3
  <1>5. \A k \in Sends \ {w.n} : answer'[k] = answer[k]
    BY <1>2, <1>3
  <1>6. \/ answer'[w.n] = "created" /\ sales'[r.key] = r
        \/ /\ answer'[w.n] = "refused" /\ sales' = sales
           /\ (sales[r.key] = r => Len(r.lines) > 1)
    BY <1>2, <1>3
  <1>7. Asked' \subseteq Asked
    <2>1. \A v \in wire' : v.request \in Asked
      BY <1>1 DEF Asked
    <2>2. \A k \in Sends : sales'[k] # None => sales'[k] \in Asked
      BY <1>2, <1>4 DEF Asked, Recorded
    <2> QED
      BY <2>1, <2>2 DEF Asked, Recorded
  <1>8. Wired'
    BY <1>1, <1>2, <1>5 DEF Posted, Wired, Sends
  <1>9. Origins'
    BY <1>1 DEF Posted, Origins
  <1>10. Keyed'
    <2>1. \A k \in Sends : sales'[k] # None => sales'[k].key = k
      BY <1>4 DEF Posted, Keyed
    <2> QED
      BY <1>1, <1>7, <2>1 DEF Posted, Keyed
  <1>11. Paired'
    <2>1. \A k \in 1..sent : Live(k)' => Live(k)
      BY <1>7 DEF Live
    <2> QED
      BY <1>1, <2>1 DEF Posted, Paired
  <1>12. /\ DOMAIN sales' = Sends /\ DOMAIN answer' = Sends /\ DOMAIN origin' = Sends
         /\ sent' \in 0..MaxSends
         /\ \A k \in Sends \ 1..sent' : answer'[k] = "none"
    BY <1>1, <1>2, <1>3, <1>5 DEF Posted
  <1>13. Posted'
    BY <1>8, <1>9, <1>10, <1>11, <1>12 DEF Posted
  <1> QED
    BY <1>1, <1>4, <1>5, <1>6, <1>7, <1>13 DEF r

\* Nothing on the wire, or the answer to a transmission given up.
LEMMA QuietPosted ==
    ASSUME Posted, unheard \subseteq unheard', UNCHANGED <<sales, wire, answer, sent, origin>>
    PROVE  Posted'
  <1>1. Asked' = Asked /\ \A k : Live(k)' <=> Live(k)
    BY DEF Asked, Recorded, Live
  <1>2. Wired' /\ Origins'
    BY DEF Posted, Wired, Origins
  <1>3. Keyed'
    BY <1>1 DEF Posted, Keyed
  <1>4. Paired'
    BY <1>1 DEF Posted, Paired
  <1> QED
    BY <1>2, <1>3, <1>4 DEF Posted
-----------------------------------------------------------------------------
(* The lists of batches on their way. *)

LEMMA SomeLoads ==
    ASSUME NEW S, \A l \in S : Load(l), loads' \in Seq(S)
    PROVE  Loaded'
  <1>1. \A i \in DOMAIN loads' : loads'[i] \in S
    OBVIOUS
  <1>2. loads' \in Seq({loads'[i] : i \in DOMAIN loads'})
    OBVIOUS
  <1> QED
    BY <1>1, <1>2 DEF Loaded

LEMMA LoadsAppend ==
    ASSUME Loaded, NEW p, NEW prefer,
           loads' = Append(loads, [product |-> p, prefer |-> prefer, list |-> None])
    PROVE  Loaded'
  <1> DEFINE l == [product |-> p, prefer |-> prefer, list |-> None]
             S == {loads[i] : i \in DOMAIN loads} \union {l}
  <1>1. Load(l) /\ loads' = Append(loads, l)
    BY DEF Load
  <1> HIDE DEF l
  <1>2. loads' \in Seq(S)
    BY <1>1 DEF Loaded
  <1>3. \A x \in S : Load(x)
    BY <1>1 DEF Loaded
  <1> QED
    BY <1>2, <1>3, SomeLoads

LEMMA LoadsServed ==
    ASSUME Loaded, NEW i \in DOMAIN loads, Manual!ServeBatches(i)
    PROVE  Loaded'
  <1> DEFINE list == Manual!Active(loads[i].product)
             l == [loads[i] EXCEPT !.list = list]
             S == {loads[j] : j \in DOMAIN loads} \union {l}
  <1>1. DOMAIN list \subseteq Batches /\ list = [b \in DOMAIN list |-> list[b]]
    BY DEF Manual!Active
  <1> HIDE DEF list
  <1>2. Load(l)
    BY <1>1 DEF Load, Loaded
  <1>3. loads' = [loads EXCEPT ![i] = l]
    BY DEF Manual!ServeBatches, list
  <1> HIDE DEF l
  <1>4. loads' \in Seq(S)
    BY <1>3 DEF Loaded
  <1>5. \A x \in S : Load(x)
    BY <1>2 DEF Loaded
  <1> QED
    BY <1>4, <1>5, SomeLoads

LEMMA LoadsRemoved ==
    ASSUME Loaded, NEW i \in DOMAIN loads,
           loads' = SubSeq(loads, 1, i - 1) \o SubSeq(loads, i + 1, Len(loads))
    PROVE  Loaded'
  <1> DEFINE S == {loads[j] : j \in DOMAIN loads}
  <1>1. loads \in Seq(S)
    BY DEF Loaded
  <1>2. \A x \in S : Load(x)
    BY DEF Loaded
  <1> HIDE DEF S
  <1>3. i \in 1..Len(loads) /\ Len(loads) \in Nat
    BY <1>1
  <1>4. SubSeq(loads, 1, i - 1) \in Seq(S) /\ SubSeq(loads, i + 1, Len(loads)) \in Seq(S)
    BY <1>1, <1>3
  <1>5. loads' \in Seq(S)
    BY <1>4
  <1> QED
    BY <1>2, <1>5, SomeLoads

\* Whichever list arrives, its default is a batch.
LEMMA DefaultIsBatch ==
    ASSUME NEW list, DOMAIN list \subseteq Batches, list = [b \in DOMAIN list |-> list[b]],
           NEW prefer, manual.batch # None => manual.batch.id \in Batches,
           NEW chosen, chosen = Manual!Default(list, prefer), chosen # None
    PROVE  chosen.id \in Batches
  <1>1. CASE list = <<>>
    BY <1>1 DEF Manual!Default
  <1>2. CASE list # <<>>
    <2>1. DOMAIN list # {}
      <3> SUFFICES ASSUME DOMAIN list = {} PROVE FALSE
        OBVIOUS
      <3>1. list \in [1..0 -> {}]
        OBVIOUS
      <3>2. list \in Seq({}) /\ Len(list) = 0
        BY <3>1
      <3> QED
        BY <1>2, <3>2
    <2>2. Manual!First(list) \in DOMAIN list
      BY <2>1, ClientAssumption DEF Manual!First
    <2> QED
      BY <1>2, <2>2 DEF Manual!Default
  <1> QED
    BY <1>1, <1>2
-----------------------------------------------------------------------------
(* The manual screen. *)

LEMMA SameServer ==
    ASSUME UNCHANGED <<sales, wire, answer, sent, origin>>
    PROVE  /\ \A n, line : Awaited(n, line)' <=> Awaited(n, line)
           /\ \A done : Reported(done)' <=> Reported(done)
           /\ \A a, source : Attempt(a, source)' <=> Attempt(a, source)
           /\ \A k : Live(k)' <=> Live(k)
  <1>1. Asked' = Asked
    BY DEF Asked, Recorded
  <1> QED
    BY <1>1 DEF Awaited, Reported, Attempt, Live

\* The screen as it is after a step.
LEMMA ManualBecomes ==
    ASSUME NEW m, manual' = m, Manually(m)'
    PROVE  ManualInv'
  BY DEF ManualInv, Manually, Filled, Awaited, Reported, Attempt, Spent

LEMMA Mounted ==
    ASSUME NEW m, Manually(m)
    PROVE  m # Manual!Closed
  <1>1. Manual!Closed.at = "closed"
    BY DEF Manual!Closed
  <1>2. m.at # "closed"
    BY DEF Manually, Filled
  <1> QED
    BY <1>1, <1>2

\* A step of the screen that sends nothing.
LEMMA ManualQuiet ==
    ASSUME ScreensInv, Manually(manual), NEW m, manual' = m, Loaded',
           unheard \subseteq unheard',
           UNCHANGED <<sales, wire, answer, sent, origin, voice, replies>>,
           Filled(m),
           m.waiting # None => m.waiting = manual.waiting /\ m.claim = manual.claim,
           m.at = "done" => Reported(m.done),
           m.attempt \in {None, manual.attempt},
           m.attempt # None /\ m.at # "done" =>
              /\ manual.at # "done"
              /\ m.waiting # manual.waiting /\ Live(manual.waiting) => manual.waiting \in unheard'
    PROVE  ScreensInv'
  <1>1. Posted'
    BY QuietPosted DEF ScreensInv
  <1>2. m.waiting # None => Awaited(m.waiting, m.claim)'
    BY SameServer DEF Manually
  <1>3. m.at = "done" => Reported(m.done)'
    BY SameServer
  <1>4. Attempt(m.attempt, "manual")'
    BY SameServer DEF Manually, Attempt
  <1>5. Spent(m)'
    BY SameServer DEF Manually, Spent
  <1>6. ManualInv'
    BY <1>2, <1>3, <1>4, <1>5, ManualBecomes DEF Manually
  <1>7. VoiceInv'
    <2>1. manual # Manual!Closed
      BY Mounted
    <2> QED
      BY <2>1 DEF ScreensInv, VoiceInv, Voice!Closed
  <1> QED
    BY <1>1, <1>6, <1>7 DEF ScreensInv

LEMMA CloseInv ==
    ASSUME ScreensInv, Manually(manual), Manual!CloseManual, UNCHANGED <<voice, replies>>
    PROVE  ScreensInv'
  <1>1. manual' = Manual!Closed /\ loads' = <<>>
        /\ UNCHANGED <<stock, sales, wire, answer, sent, origin, unheard>>
    BY DEF Manual!CloseManual, Manual!client
  <1>2. Posted'
    BY <1>1, QuietPosted DEF ScreensInv
  <1>3. Loaded'
    <2>1. loads' \in Seq({})
      BY <1>1
    <2> QED
      BY <2>1, SomeLoads
  <1>4. VoiceInv'
    BY Mounted DEF ScreensInv, VoiceInv, Voice!Closed
  <1> QED
    BY <1>1, <1>2, <1>3, <1>4 DEF ScreensInv, ManualInv, Manual!Closed

LEMMA SelectInv ==
    ASSUME ScreensInv, Manually(manual), NEW p \in Products, NEW prefer,
           Manual!Select(p, prefer), UNCHANGED <<voice, replies>>
    PROVE  ScreensInv'
  <1>1. PICK m : m = manual'
    OBVIOUS
  <1>2. m = [manual EXCEPT !.at = "form", !.wish = None, !.product = p, !.batch = None,
                           !.done = None, !.attempt = None,
                           !.quantity = IF manual.at = "done" THEN 1 ELSE @]
    BY <1>1 DEF Manual!Select
  <1>3. DOMAIN manual = Fields /\ manual.quantity \in Nat
    BY DEF Manually, Filled
  <1>4. /\ Filled(m) /\ m.at = "form" /\ m.attempt = None
        /\ m.waiting = manual.waiting /\ m.claim = manual.claim
    BY <1>2, <1>3 DEF Filled, Fields
  <1>5. Loaded'
    BY LoadsAppend DEF Manual!Select, ScreensInv
  <1>6. UNCHANGED <<stock, sales, wire, answer, sent, origin, unheard>>
    BY DEF Manual!Select, Manual!client
  <1> QED
    BY <1>1, <1>4, <1>5, <1>6, ManualQuiet

\* A step that leaves the lists alone and keeps what confirm reads well formed.
LEMMA TouchInv ==
    ASSUME ScreensInv, Manually(manual), NEW m, manual' = m, UNCHANGED <<loads, voice, replies>>,
           unheard \subseteq unheard', UNCHANGED <<sales, wire, answer, sent, origin>>,
           DOMAIN m = Fields, m.at = manual.at, m.product = manual.product,
           m.batch # None => m.batch.id \in Batches, m.quantity \in Nat,
           m.done = manual.done, m.attempt \in {None, manual.attempt},
           \/ m.waiting = manual.waiting /\ m.claim = manual.claim
           \/ m.waiting = None /\ (Live(manual.waiting) => manual.waiting \in unheard')
    PROVE  ScreensInv'
  <1>1. Filled(m) /\ (m.at = "done" => Reported(m.done))
    BY DEF Manually, Filled
  <1>2. Loaded'
    BY DEF ScreensInv, Loaded
  <1> QED
    BY <1>1, <1>2, ManualQuiet

LEMMA BatchesInv ==
    ASSUME ScreensInv, Manually(manual), NEW i \in DOMAIN loads, UNCHANGED <<voice, replies>>,
           Manual!ServeBatches(i) \/ Manual!BatchesArrive(i) \/ Manual!BatchesFail(i)
    PROVE  ScreensInv'
  <1>1. UNCHANGED <<stock, sales, wire, answer, sent, origin, unheard>>
    BY DEF Manual!ServeBatches, Manual!BatchesArrive, Manual!BatchesFail, Manual!client
  <1>2. Loaded'
    BY LoadsServed, LoadsRemoved
       DEF ScreensInv, Manual!BatchesArrive, Manual!BatchesFail
  <1>3. DOMAIN manual = Fields /\ Filled(manual) /\ (manual.at = "done" => Reported(manual.done))
    BY DEF Manually, Filled
  <1>4. CASE Manual!BatchesArrive(i)
    <2> DEFINE list == loads[i].list
               prefer == loads[i].prefer
    <2>1. PICK m : m = manual'
      OBVIOUS
    <2>2. PICK chosen : chosen = Manual!Default(list, prefer)
      OBVIOUS
    <2>3. m = [manual EXCEPT !.offer = list, !.batch = chosen,
                             !.attempt = IF chosen = manual.batch THEN @ ELSE None]
      BY <1>4, <2>1, <2>2 DEF Manual!BatchesArrive
    <2>4. chosen # None => chosen.id \in Batches
      <3>1. list # None /\ Load(loads[i])
        BY <1>4 DEF Manual!BatchesArrive, ScreensInv, Loaded
      <3>2. DOMAIN list \subseteq Batches /\ list = [b \in DOMAIN list |-> list[b]]
        BY <3>1 DEF Load
      <3>3. manual.batch # None => manual.batch.id \in Batches
        BY <1>3 DEF Filled
      <3> HIDE DEF list, prefer
      <3> QED
        BY <2>2, <3>2, <3>3, DefaultIsBatch
    <2> HIDE DEF list, prefer
    <2>5. /\ DOMAIN m = Fields /\ m.at = manual.at /\ m.product = manual.product
          /\ m.batch = chosen /\ m.quantity = manual.quantity /\ m.done = manual.done
          /\ m.waiting = manual.waiting /\ m.claim = manual.claim
          /\ m.attempt \in {None, manual.attempt}
      BY <1>3, <2>3 DEF Fields
    <2>6. Filled(m)
      BY <1>3, <2>4, <2>5 DEF Filled
    <2> QED
      BY <1>1, <1>2, <1>3, <2>1, <2>5, <2>6, ManualQuiet
  <1>5. CASE UNCHANGED manual
    <2>1. PICK m : m = manual
      OBVIOUS
    <2> QED
      BY <1>1, <1>2, <1>3, <1>5, <2>1, ManualQuiet
  <1> QED
    BY <1>4, <1>5 DEF Manual!ServeBatches, Manual!BatchesFail

\* What is dead when the server has refused it.
LEMMA RefusedIsDead ==
    ASSUME Posted, NEW n, NEW line, Awaited(n, line), answer[n] = "refused"
    PROVE  ~Live(n)
  <1> SUFFICES ASSUME NEW r \in Asked, r.key = n PROVE FALSE
    BY DEF Live
  <1>1. sales[n] = None
    BY DEF Awaited
  <1>2. CASE r \in Recorded
    BY <1>1, <1>2 DEF Recorded, Posted, Keyed
  <1>3. ASSUME NEW w \in wire, r = w.request PROVE FALSE
    BY <1>3 DEF Awaited, Posted, Wired
  <1> QED
    BY <1>2, <1>3 DEF Asked

LEMMA AnsweredInv ==
    ASSUME ScreensInv, Manually(manual), UNCHANGED <<voice, replies>>,
           Manual!SaleCreated \/ Manual!SaleRefused \/ Manual!SaleUnheard
    PROVE  ScreensInv'
  <1>1. PICK m : m = manual'
    OBVIOUS
  <1>2. /\ DOMAIN manual = Fields /\ Filled(manual) /\ manual.waiting # None
        /\ Awaited(manual.waiting, manual.claim)
    BY DEF Manually, Filled, Manual!SaleCreated, Manual!SaleRefused, Manual!SaleUnheard,
           Manual!Awaiting
  <1>3. UNCHANGED <<loads, sales, wire, answer, sent, origin>> /\ unheard \subseteq unheard'
    BY DEF Manual!SaleCreated, Manual!SaleRefused, Manual!SaleUnheard, Manual!client,
           Manual!GiveUp
  <1>4. CASE Manual!SaleCreated
    <2>1. m = [manual EXCEPT !.at = "done", !.waiting = None, !.claim = None,
                             !.done = [n |-> manual.waiting, line |-> manual.claim]]
      BY <1>1, <1>4 DEF Manual!SaleCreated
    <2>2. /\ m.at = "done" /\ m.waiting = None /\ m.attempt = manual.attempt
          /\ m.done = [n |-> manual.waiting, line |-> manual.claim]
      BY <1>2, <2>1 DEF Fields
    <2>3. Reported(m.done)
      <3> DEFINE n == manual.waiting
                 line == manual.claim
      <3>1. sales[n] = Confirmed(n, line) /\ n \in 1..sent /\ line \in Line
        BY <1>2, <1>4 DEF Awaited, Manual!SaleCreated, Manual!Awaiting
      <3>2. n \in Sends
        BY <3>1, ClientAssumption DEF ScreensInv, Posted, Sends
      <3> HIDE DEF n, line
      <3>3. Confirmed(n, line) \in Request
        BY <3>1, <3>2 DEF Confirmed, Request
      <3>4. sales[n] # None /\ sales[n].lines = <<line>>
        BY <3>1, <3>3, ClientAssumption DEF Confirmed
      <3>5. m.done.n = n /\ m.done.line = line
        BY <2>2 DEF n, line
      <3> QED
        BY <3>2, <3>4, <3>5 DEF Reported
    <2>4. Filled(m)
      <3>1. /\ DOMAIN m = Fields /\ m.product = manual.product
            /\ m.batch = manual.batch /\ m.quantity = manual.quantity
        BY <1>2, <2>1 DEF Fields
      <3> QED
        BY <1>2, <2>2, <3>1 DEF Filled
    <2>5. Loaded'
      BY <1>3 DEF ScreensInv, Loaded
    <2> QED
      BY <1>1, <1>3, <2>2, <2>3, <2>4, <2>5, ManualQuiet
  <1>5. CASE Manual!SaleRefused \/ Manual!SaleUnheard
    <2>1. m = [manual EXCEPT !.waiting = None, !.claim = None]
      BY <1>1, <1>5 DEF Manual!SaleRefused, Manual!SaleUnheard
    <2>2. Live(manual.waiting) => manual.waiting \in unheard'
      BY <1>2, <1>5, RefusedIsDead
         DEF ScreensInv, Manual!SaleRefused, Manual!SaleUnheard, Manual!Awaiting, Manual!GiveUp
    <2>3. /\ DOMAIN m = Fields /\ m.at = manual.at /\ m.product = manual.product
          /\ m.batch = manual.batch /\ m.quantity = manual.quantity /\ m.done = manual.done
          /\ m.attempt = manual.attempt /\ m.waiting = None
      BY <1>2, <2>1 DEF Fields
    <2>4. (m.batch # None => m.batch.id \in Batches) /\ m.quantity \in Nat
      BY <1>2, <2>3 DEF Filled
    <2> QED
      BY <1>1, <1>3, <2>2, <2>3, <2>4, TouchInv
  <1> QED
    BY <1>4, <1>5

\* A confirmation: nothing else of the attempt can still be recorded unheard of.
LEMMA ConfirmInv ==
    ASSUME ScreensInv, Manually(manual), Manual!Confirm, UNCHANGED <<voice, replies>>
    PROVE  ScreensInv'
  <1>0. PICK n : n = sent + 1
    OBVIOUS
  <1>1. PICK m : m = manual'
    OBVIOUS
  <1>2. PICK line : line = Manual!Claim
    OBVIOUS
  <1>3. PICK again : again = manual.attempt
    OBVIOUS
  <1>4. /\ Manual!Submit("manual", None, <<line>>, again)
        /\ manual.at = "form" /\ manual.waiting = None /\ manual.batch # None
        /\ manual.quantity \in 1..manual.batch.left
        /\ m = [manual EXCEPT !.waiting = n, !.claim = line,
                              !.attempt = IF @ = None THEN n ELSE @]
    <2>1. sent' = n
      BY <1>0 DEF Manual!Confirm, Manual!Send, Manual!Submit
    <2> QED
      BY <1>1, <1>2, <1>3, <2>1 DEF Manual!Confirm, Manual!Send, Manual!Complete, Manual!Touchable
  <1>5. Submit("manual", None, <<line>>, again)
    BY <1>4 DEF Manual!Submit, Submit, Manual!Sends, Sends
  <1>6. DOMAIN manual = Fields /\ Filled(manual)
    BY DEF Manually, Filled
  <1>7. line \in Line
    <2>1. manual.product \in Products /\ manual.batch.id \in Batches /\ manual.quantity \in Nat
      BY <1>4, <1>6 DEF Filled
    <2> QED
      BY <1>2, <2>1 DEF Manual!Claim, Line
  <1>8. /\ DOMAIN m = Fields /\ m.at = "form" /\ m.product = manual.product
        /\ m.batch = manual.batch /\ m.quantity = manual.quantity
        /\ m.waiting = n /\ m.claim = line /\ m.attempt = IF again = None THEN n ELSE again
    BY <1>3, <1>4, <1>6 DEF Fields
  <1>9. Filled(m)
    BY <1>4, <1>6, <1>8 DEF Filled
  <1>10. /\ Attempt(again, "manual")
         /\ again # None => \A k \in 1..sent : origin[k] = again /\ Live(k) => k \in unheard
    <2>1. Attempt(again, "manual")
      BY <1>3 DEF Manually, Attempt
    <2>2. None \notin 1..sent
      BY ClientAssumption DEF ScreensInv, Posted, Sends
    <2> QED
      BY <1>3, <1>4, <2>1, <2>2 DEF Manually, Spent
  <1>11. Posted'
    BY <1>5, <1>10, SubmitPosted DEF ScreensInv
  <1>12. /\ sent \in Nat /\ n \in Sends /\ sent' = n /\ n \in 1..sent' /\ n \notin 1..sent
         /\ wire' = wire \union {[n |-> n, request |-> Confirmed(n, line)]}
         /\ origin' = [origin EXCEPT ![n] = IF again = None THEN n ELSE origin[again]]
         /\ UNCHANGED <<sales, answer, unheard>>
         /\ \A k \in 1..sent' : k \in 1..sent \/ k = n
    BY <1>0, <1>5, ClientAssumption DEF Submit, Confirmed, ScreensInv, Posted
  <1>13. Awaited(n, line)'
    <2>1. \A w \in wire : w.n \in 1..sent /\ w.request.key \in 1..sent
      BY DEF ScreensInv, Posted, Wired, Keyed, Asked
    <2>2. \A w \in wire' : w.n = n \/ w.request.key = n =>
             w.n = n /\ w.request = Confirmed(n, line)
      BY <1>12, <2>1
    <2>3. sales[n] = None
      <3> SUFFICES ASSUME sales[n] # None PROVE FALSE
        OBVIOUS
      <3>1. sales[n] \in Asked /\ sales[n].key = n
        BY <1>12 DEF Asked, Recorded, ScreensInv, Posted, Keyed
      <3> QED
        BY <1>12, <3>1 DEF ScreensInv, Posted, Keyed
    <2>4. answer[n] = "none"
      BY <1>12 DEF ScreensInv, Posted
    <2> QED
      BY <1>7, <1>12, <2>2, <2>3, <2>4 DEF Awaited
  <1>14. Asked' = Asked \union {Confirmed(n, line)}
    <2>1. {w.request : w \in wire'} = {w.request : w \in wire} \union {Confirmed(n, line)}
      <3>1. PICK c : c = [n |-> n, request |-> Confirmed(n, line)]
        OBVIOUS
      <3>2. wire' = wire \union {c} /\ c.request = Confirmed(n, line)
        BY <1>12, <3>1
      <3> QED
        BY <3>2
    <2>2. Recorded' = Recorded
      BY <1>12 DEF Recorded
    <2> QED
      BY <2>1, <2>2 DEF Asked
  <1>15. /\ origin'[n] = IF again = None THEN n ELSE again
         /\ \A k \in 1..sent : origin'[k] = origin[k] /\ origin[k] \in 1..sent
    BY <1>10, <1>12 DEF ScreensInv, Posted, Origins, Attempt, Sends
  <1>16. Confirmed(n, line).key = n /\ Confirmed(n, line).source = "manual"
    BY DEF Confirmed
  <1>17. \A r \in Asked : r.key \in 1..sent
    BY DEF ScreensInv, Posted, Keyed
  <1>18. Attempt(m.attempt, "manual")'
    <2>1. CASE again = None
      <3>1. \A r \in Asked' : origin'[r.key] = n => r.source = "manual"
        BY <1>12, <1>14, <1>15, <1>16, <1>17
      <3> QED
        BY <1>8, <1>12, <1>15, <2>1, <3>1 DEF Attempt
    <2>2. CASE again # None
      <3>1. \A r \in Asked' : origin'[r.key] = again => r.source = "manual"
        BY <1>10, <1>14, <1>15, <1>16, <1>17, <2>2 DEF Attempt
      <3>2. again \in 1..sent' /\ origin'[again] = again
        BY <1>10, <1>12, <1>15, <2>2 DEF Attempt
      <3> QED
        BY <1>8, <2>2, <3>1, <3>2 DEF Attempt
    <2> QED
      BY <2>1, <2>2
  <1>19. Spent(m)'
    <2> SUFFICES ASSUME NEW k \in 1..sent', origin'[k] = m.attempt, Live(k)', k # n
                 PROVE  k \in unheard'
      BY <1>8 DEF Spent
    <2>1. k \in 1..sent /\ Live(k)
      BY <1>12, <1>14, <1>16 DEF Live
    <2>2. again # None /\ origin[k] = again
      BY <1>8, <1>12, <1>15, <2>1
    <2> QED
      BY <1>10, <1>12, <2>1, <2>2
  <1>20. Manually(m)'
    BY <1>8, <1>9, <1>13, <1>18, <1>19 DEF Manually
  <1>21. ManualInv'
    BY <1>1, <1>20, ManualBecomes
  <1>22. Loaded' /\ VoiceInv'
    BY Mounted DEF Manual!Confirm, Manual!Send, ScreensInv, Loaded, VoiceInv, Voice!Closed
  <1> QED
    BY <1>11, <1>21, <1>22 DEF ScreensInv

LEMMA ManualNextInv ==
    ASSUME ScreensInv, Manual!ManualNext, UNCHANGED <<voice, replies>>
    PROVE  ScreensInv'
  <1>1. CASE manual = Manual!Closed /\ loads = <<>>
    <2>1. manual.at = "closed" /\ DOMAIN loads = {}
      BY <1>1 DEF Manual!Closed
    <2> QED
      BY <1>1, <2>1
         DEF Manual!ManualNext, Manual!CloseManual, Manual!ProductsArrive, Manual!ProductsFail,
             Manual!Confirm, Manual!SaleCreated, Manual!SaleRefused, Manual!SaleUnheard,
             Manual!SellAnother, Manual!SelectProduct, Manual!PickBatch, Manual!SetQuantity,
             Manual!AdjustQuantity, Manual!Touchable, Manual!Awaiting
  <1> SUFFICES ASSUME Manually(manual) PROVE ScreensInv'
    BY <1>1 DEF ScreensInv, ManualInv
  <1>2. DOMAIN manual = Fields /\ Filled(manual)
    BY DEF Manually, Filled
  <1>3. CASE Manual!ProductsArrive
    BY <1>3, SelectInv DEF Manual!ProductsArrive
  <1>4. ASSUME NEW p \in Products, Manual!SelectProduct(p) PROVE ScreensInv'
    BY <1>4, SelectInv DEF Manual!SelectProduct
  <1>5. CASE Manual!SellAnother
    <2>1. manual.product \in Products /\ Manual!Select(manual.product, None)
      BY <1>2, <1>5 DEF Manual!SellAnother, Filled
    <2>2. PICK p \in Products : p = manual.product
      BY <2>1
    <2>3. Manual!Select(p, None)
      BY <2>1, <2>2 DEF Manual!Select
    <2> QED
      BY <2>3, SelectInv
  <1>6. CASE Manual!ProductsFail
    <2>1. PICK m : m = manual'
      OBVIOUS
    <2>2. m = [manual EXCEPT !.at = "no products", !.wish = None] /\ manual.at = "loading"
      BY <1>6, <2>1 DEF Manual!ProductsFail
    <2>3. /\ DOMAIN m = Fields /\ m.at = "no products" /\ m.batch = manual.batch
          /\ m.quantity = manual.quantity /\ m.product = manual.product
          /\ m.waiting = manual.waiting /\ m.claim = manual.claim /\ m.attempt = manual.attempt
      BY <1>2, <2>2 DEF Fields
    <2>4. Filled(m)
      BY <1>2, <2>3 DEF Filled
    <2>5. UNCHANGED <<loads, stock, sales, wire, answer, sent, origin, unheard>>
      BY <1>6 DEF Manual!ProductsFail, Manual!client
    <2>6. Loaded'
      BY <2>5 DEF ScreensInv, Loaded
    <2> QED
      BY <2>1, <2>2, <2>3, <2>4, <2>5, <2>6, ManualQuiet
  <1>7. ASSUME NEW b \in Batches, Manual!PickBatch(b) PROVE ScreensInv'
    <2>1. PICK m : m = manual'
      OBVIOUS
    <2>2. m = [manual EXCEPT !.batch = [id |-> b, left |-> manual.offer[b]], !.attempt = None]
      BY <1>7, <2>1 DEF Manual!PickBatch
    <2>3. /\ DOMAIN m = Fields /\ m.at = manual.at /\ m.batch.id = b
          /\ m.quantity = manual.quantity /\ m.product = manual.product /\ m.done = manual.done
          /\ m.waiting = manual.waiting /\ m.claim = manual.claim /\ m.attempt = None
      BY <1>2, <2>2 DEF Fields
    <2>4. m.quantity \in Nat
      BY <1>2, <2>3 DEF Filled
    <2>5. UNCHANGED <<loads, stock, sales, wire, answer, sent, origin, unheard>>
      BY <1>7 DEF Manual!PickBatch, Manual!client
    <2> QED
      BY <2>1, <2>3, <2>4, <2>5, TouchInv
  <1>8. ASSUME NEW q, Manual!SetQuantity(q) PROVE ScreensInv'
    <2>1. PICK m : m = manual'
      OBVIOUS
    <2>2. m = [manual EXCEPT !.quantity = q, !.attempt = None] /\ q \in Nat
      BY <1>8, <2>1 DEF Manual!SetQuantity, Manual!Quantities
    <2>3. /\ DOMAIN m = Fields /\ m.at = manual.at /\ m.batch = manual.batch
          /\ m.quantity = q /\ m.product = manual.product /\ m.done = manual.done
          /\ m.waiting = manual.waiting /\ m.claim = manual.claim /\ m.attempt = None
      BY <1>2, <2>2 DEF Fields
    <2>4. m.batch # None => m.batch.id \in Batches
      BY <1>2, <2>3 DEF Filled
    <2>5. UNCHANGED <<loads, stock, sales, wire, answer, sent, origin, unheard>>
      BY <1>8 DEF Manual!SetQuantity, Manual!client
    <2> QED
      BY <2>1, <2>2, <2>3, <2>4, <2>5, TouchInv
  <1>9. ASSUME NEW delta, Manual!AdjustQuantity(delta) PROVE ScreensInv'
    <2>1. PICK q : Manual!SetQuantity(q)
      BY <1>9 DEF Manual!AdjustQuantity
    <2> QED
      BY <1>8, <2>1
  <1> QED
    BY <1>3, <1>4, <1>5, <1>6, <1>7, <1>8, <1>9, CloseInv, ConfirmInv, AnsweredInv, BatchesInv
       DEF Manual!ManualNext
-----------------------------------------------------------------------------
(* The voice screen. *)

LEMMA Unmounted ==
    ASSUME ManualInv, manual = Manual!Closed
    PROVE  loads = <<>>
  BY Mounted DEF ManualInv

LEMMA VoiceBecomes ==
    ASSUME NEW v, voice' = v, Spoken(v)', manual' = Manual!Closed
    PROVE  VoiceInv'
  BY DEF VoiceInv, Spoken, Attempt, Manual!Closed

\* A step of the screen that sends nothing.
LEMMA VoiceQuiet ==
    ASSUME ScreensInv, Spoken(voice), NEW v, voice' = v,
           DOMAIN v = VoiceFields, v.open = TRUE,
           \/ v.key = None /\ v.attempt = None
           \/ v.key = voice.key /\ v.attempt = voice.attempt,
           unheard \subseteq unheard',
           UNCHANGED <<sales, wire, answer, sent, origin, manual, loads>>
    PROVE  ScreensInv'
  <1>1. Posted'
    BY QuietPosted DEF ScreensInv
  <1>2. manual = Manual!Closed /\ loads = <<>>
    <2>1. voice # Voice!Closed
      <3>1. Voice!Closed.open = FALSE
        BY DEF Voice!Closed
      <3> QED
        BY <3>1 DEF Spoken
    <2> QED
      BY <2>1, Unmounted DEF ScreensInv, VoiceInv
  <1>3. ManualInv' /\ Loaded'
    BY <1>2 DEF ManualInv, ScreensInv, Loaded, Manual!Closed
  <1>4. Attempt(v.attempt, "voice")'
    BY SameServer DEF Spoken, Attempt
  <1>5. VoiceInv'
    BY <1>2, <1>4, VoiceBecomes DEF Spoken
  <1> QED
    BY <1>1, <1>3, <1>5 DEF ScreensInv

\* A step that neither sends nor closes: it keeps the key, or forgets it and the attempt.
LEMMA VoiceTouched ==
    ASSUME Spoken(voice), NEW k, NEW b,
           \/ \E yes \in BOOLEAN : \/ Voice!StartListening(yes) \/ Voice!SpeechFails(yes)
                                   \/ Voice!DraftFails(yes) \/ Voice!RefreshEnds(yes)
           \/ \E d \in Drafts : Voice!DraftArrives(d)
           \/ \E delta \in {-1, 1} : Voice!SetUnits(k, delta)
           \/ \E p \in Products : Voice!ChooseProduct(k, p)
           \/ \E i \in DOMAIN replies :
                 Voice!ServeReply(i) \/ Voice!ReplyArrives(i) \/ Voice!ReplyFails(i)
           \/ Voice!StopListening \/ Voice!CreateDraft \/ Voice!RecordAgain \/ Voice!RemoveLine(k)
           \/ Voice!ChooseBatch(k, b)
           \/ Voice!SaleCreated \/ Voice!SaleRefused \/ Voice!SaleUnheard
    PROVE  /\ DOMAIN voice' = VoiceFields /\ voice'.open = TRUE
           /\ \/ voice'.key = None /\ voice'.attempt = None
              \/ voice'.key = voice.key /\ voice'.attempt = voice.attempt
           /\ unheard \subseteq unheard' /\ UNCHANGED <<sales, wire, answer, sent, origin>>
  <1> DEFINE Kept(v) == /\ DOMAIN v = VoiceFields /\ v.open = TRUE
                        /\ \/ v.key = None /\ v.attempt = None
                           \/ v.key = voice.key /\ v.attempt = voice.attempt
             Calm == unheard \subseteq unheard' /\ UNCHANGED <<sales, wire, answer, sent, origin>>
  <1>1. DOMAIN voice = VoiceFields /\ voice.open = TRUE
    BY DEF Spoken
  <1>2. \A v, line, patch : Kept(v) => Kept(Voice!Corrected(v, line, patch))
    BY DEF Voice!Corrected, VoiceFields
  <1>3. Kept(voice) /\ \A cache : Kept([voice EXCEPT !.cache = cache])
    BY <1>1 DEF VoiceFields
  <1>4. Voice!Become(voice') => Calm
    BY DEF Voice!Become, Voice!client
  <1>5. ASSUME NEW yes \in BOOLEAN,
               \/ Voice!StartListening(yes) \/ Voice!SpeechFails(yes)
               \/ Voice!DraftFails(yes) \/ Voice!RefreshEnds(yes)
        PROVE  Kept(voice') /\ Calm
    BY <1>1, <1>5 DEF Voice!StartListening, Voice!SpeechFails, Voice!DraftFails,
       Voice!RefreshEnds, Voice!Become, Voice!client, VoiceFields
  <1>6. ASSUME NEW d \in Drafts, Voice!DraftArrives(d) PROVE Kept(voice') /\ Calm
    BY <1>1, <1>6 DEF Voice!DraftArrives, Voice!Become, Voice!client, VoiceFields
  <1>7. CASE \/ Voice!StopListening \/ Voice!CreateDraft \/ Voice!RecordAgain
             \/ Voice!RemoveLine(k) \/ Voice!SaleCreated \/ Voice!SaleRefused
             \/ Voice!SaleUnheard
    BY <1>1, <1>7 DEF Voice!StopListening, Voice!CreateDraft, Voice!RecordAgain,
       Voice!RemoveLine, Voice!SaleCreated, Voice!SaleRefused, Voice!SaleUnheard,
       Voice!ConfirmFailed, Voice!GiveUp, Voice!Become, Voice!client, VoiceFields
  <1> HIDE DEF Kept
  <1>8. ASSUME NEW delta \in {-1, 1}, Voice!SetUnits(k, delta) PROVE Kept(voice') /\ Calm
    BY <1>2, <1>3, <1>8 DEF Voice!SetUnits, Voice!Become, Voice!client
  <1>9. CASE Voice!ChooseBatch(k, b)
    <2>1. Kept(Voice!Corrected(voice, k, [batch |-> b]))
      BY <1>2, <1>3
    <2>2. voice' = Voice!Corrected(voice, k, [batch |-> b])
      BY <1>9 DEF Voice!ChooseBatch, Voice!Become
    <2>3. Calm
      BY <1>9 DEF Voice!ChooseBatch, Voice!Become, Voice!client
    <2> QED
      BY <2>1, <2>2, <2>3 DEF Kept
  <1>10. ASSUME NEW p \in Products, Voice!ChooseProduct(k, p) PROVE Kept(voice') /\ Calm
    BY <1>2, <1>3, <1>10 DEF Voice!ChooseProduct, Voice!client
  <1>11. ASSUME NEW i \in DOMAIN replies,
                Voice!ServeReply(i) \/ Voice!ReplyArrives(i) \/ Voice!ReplyFails(i)
         PROVE  Kept(voice') /\ Calm
    BY <1>2, <1>3, <1>11
       DEF Voice!ServeReply, Voice!ReplyArrives, Voice!ReplyFails, Voice!client
  <1> USE DEF Kept
  <1> QED
    BY <1>5, <1>6, <1>7, <1>8, <1>9, <1>10, <1>11

\* A draft that is confirmed again as it stands is sent under the same key.
LEMMA VoiceConfirmInv ==
    ASSUME ScreensInv, Spoken(voice), Voice!Confirm, UNCHANGED <<manual, loads>>
    PROVE  ScreensInv'
  <1>0. PICK n : n = sent + 1
    OBVIOUS
  <1>1. PICK v : v = voice'
    OBVIOUS
  <1>2. PICK again : again = voice.attempt
    OBVIOUS
  <1>3. PICK lines : lines = Voice!SaleItems(voice.lines)
    OBVIOUS
  <1>4. /\ DOMAIN voice = VoiceFields /\ voice.open = TRUE /\ voice.key = again
        /\ Attempt(again, "voice")
    BY <1>2 DEF Spoken, Attempt
  <1>5. Submit("voice", again, lines, again)
    BY <1>2, <1>3, <1>4
       DEF Voice!Confirm, Voice!DraftKey, Voice!Submit, Submit, Voice!Sends, Sends
  <1>6. /\ sent' = n /\ wire' = wire \union
              {[n |-> n, request |-> [source |-> "voice", lines |-> lines,
                                      key |-> IF again = None THEN n ELSE again]]}
        /\ origin' = [origin EXCEPT ![n] = IF again = None THEN n ELSE origin[again]]
        /\ n \in Sends /\ UNCHANGED <<sales, answer, unheard>>
    BY <1>0, <1>5 DEF Submit
  <1>7. Posted'
    BY <1>4, <1>5, SubmitPosted DEF ScreensInv
  <1>8. v = [voice EXCEPT !.waiting = n, !.key = IF @ = None THEN n ELSE @,
                          !.claim = {voice.lines[k].product : k \in DOMAIN voice.lines},
                          !.attempt = IF @ = None THEN n ELSE @]
    BY <1>1, <1>6 DEF Voice!Confirm
  <1>9. /\ DOMAIN v = VoiceFields /\ v.open = TRUE /\ v.key = v.attempt
        /\ v.attempt = IF again = None THEN n ELSE again
    BY <1>2, <1>4, <1>8 DEF VoiceFields
  <1>10. /\ sent \in Nat /\ n \in 1..sent' /\ \A k \in 1..sent : k \in 1..sent' /\ k < n
         /\ n \notin 1..sent
    BY <1>0, <1>6 DEF ScreensInv, Posted
  <1>11. /\ origin'[n] = IF again = None THEN n ELSE again
         /\ \A k \in 1..sent : origin'[k] = origin[k] /\ origin[k] \in 1..sent
    BY <1>4, <1>6, <1>10 DEF ScreensInv, Posted, Origins, Attempt
  <1>12. ASSUME NEW r \in Asked', origin'[r.key] = v.attempt
         PROVE  r.source = "voice"
    <2>1. \A q \in Asked : q.key \in 1..sent
      BY DEF ScreensInv, Posted, Keyed
    <2>2. r \in Asked \/ r.source = "voice"
      <3>1. Recorded' = Recorded
        BY <1>6 DEF Recorded
      <3>2. r \in Recorded \/ \E w \in wire' : r = w.request
        BY <3>1 DEF Asked
      <3> QED
        BY <1>6, <3>2 DEF Asked
    <2>3. ASSUME r \in Asked, again = None PROVE r.source = "voice"
      BY <1>9, <1>10, <1>11, <1>12, <2>1, <2>3
    <2>4. ASSUME r \in Asked, again # None PROVE r.source = "voice"
      BY <1>4, <1>9, <1>11, <1>12, <2>1, <2>4 DEF Attempt
    <2> QED
      BY <2>2, <2>3, <2>4
  <1>13. Attempt(v.attempt, "voice")'
    <2>1. v.attempt \in 1..sent' /\ origin'[v.attempt] = v.attempt
      BY <1>4, <1>9, <1>10, <1>11 DEF Attempt
    <2> QED
      BY <1>12, <2>1 DEF Attempt
  <1>14. manual = Manual!Closed /\ loads = <<>>
    <2>1. voice # Voice!Closed
      <3>1. Voice!Closed.open = FALSE
        BY DEF Voice!Closed
      <3> QED
        BY <1>4, <3>1
    <2> QED
      BY <2>1, Unmounted DEF ScreensInv, VoiceInv
  <1>15. ManualInv' /\ Loaded'
    BY <1>14 DEF ManualInv, ScreensInv, Loaded, Manual!Closed
  <1>16. VoiceInv'
    BY <1>1, <1>9, <1>13, <1>14, VoiceBecomes DEF Spoken
  <1> QED
    BY <1>7, <1>15, <1>16 DEF ScreensInv

LEMMA VoiceNextInv ==
    ASSUME ScreensInv, Voice!VoiceNext, UNCHANGED <<manual, loads>>
    PROVE  ScreensInv'
  <1>1. CASE voice = Voice!Closed /\ replies = <<>>
    <2>1. voice.open = FALSE /\ DOMAIN replies = {}
      BY <1>1 DEF Voice!Closed
    <2> QED
      BY <2>1
         DEF Voice!VoiceNext, Voice!CloseVoice, Voice!StopListening, Voice!CreateDraft,
             Voice!RecordAgain, Voice!Confirm, Voice!SaleCreated, Voice!SaleRefused,
             Voice!SaleUnheard, Voice!StartListening, Voice!SpeechFails, Voice!DraftFails,
             Voice!RefreshEnds, Voice!DraftArrives, Voice!RemoveLine, Voice!SetUnits,
             Voice!ChooseBatch, Voice!ChooseProduct, Voice!Speaking, Voice!Reviewing,
             Voice!Touchable, Voice!Awaiting
  <1>2. CASE Spoken(voice)
    <2>1. CASE Voice!CloseVoice
      <3>1. /\ voice' = Voice!Closed /\ replies' = <<>>
            /\ UNCHANGED <<stock, sales, wire, answer, sent, origin, unheard>>
        BY <2>1 DEF Voice!CloseVoice, Voice!client
      <3>2. VoiceInv'
        BY <3>1 DEF VoiceInv, Voice!Closed
      <3>3. manual = Manual!Closed /\ loads = <<>>
        <4>1. voice # Voice!Closed
          <5>1. Voice!Closed.open = FALSE
            BY DEF Voice!Closed
          <5> QED
            BY <1>2, <5>1 DEF Spoken
        <4> QED
          BY <4>1, Unmounted DEF ScreensInv, VoiceInv
      <3>4. ManualInv' /\ Loaded'
        BY <3>3 DEF ManualInv, ScreensInv, Loaded, Manual!Closed
      <3> QED
        BY <3>1, <3>2, <3>4, QuietPosted DEF ScreensInv
    <2>2. CASE Voice!Confirm
      BY <1>2, <2>2, VoiceConfirmInv
    <2>3. CASE ~Voice!CloseVoice /\ ~Voice!Confirm
      <3>1. PICK v : v = voice'
        OBVIOUS
      <3>2. /\ DOMAIN v = VoiceFields /\ v.open = TRUE
            /\ \/ v.key = None /\ v.attempt = None
               \/ v.key = voice.key /\ v.attempt = voice.attempt
            /\ unheard \subseteq unheard' /\ UNCHANGED <<sales, wire, answer, sent, origin>>
        BY <1>2, <2>3, <3>1, VoiceTouched DEF Voice!VoiceNext
      <3> QED
        BY <1>2, <3>1, <3>2, VoiceQuiet
    <2> QED
      BY <2>1, <2>2, <2>3
  <1> QED
    BY <1>1, <1>2 DEF ScreensInv, VoiceInv
-----------------------------------------------------------------------------
(* The server, and the navigator. *)

LEMMA ServeInv ==
    ASSUME ScreensInv, NEW w \in wire, Serve(w), UNCHANGED <<manual, loads, voice, replies>>
    PROVE  ScreensInv'
  <1>1. /\ Posted' /\ Asked' \subseteq Asked
        /\ wire' = wire \ {w} /\ UNCHANGED <<sent, origin, unheard>>
        /\ \A k \in Sends : /\ sales[k] # None => sales'[k] = sales[k]
                            /\ sales'[k] # sales[k] => sales'[k] = w.request /\ k = w.request.key
        /\ \A k \in Sends \ {w.n} : answer'[k] = answer[k]
        /\ \/ answer'[w.n] = "created" /\ sales'[w.request.key] = w.request
           \/ /\ answer'[w.n] = "refused" /\ sales' = sales
              /\ sales[w.request.key] = w.request => Len(w.request.lines) > 1
    BY ServePosted DEF ScreensInv
  <1>2. 1..sent \subseteq Sends
    BY ClientAssumption DEF ScreensInv, Posted, Sends
  <1>3. \A k : Live(k)' => Live(k)
    BY <1>1 DEF Live
  <1>4. \A a, source : Attempt(a, source) => Attempt(a, source)'
    BY <1>1 DEF Attempt
  <1>5. \A done : Reported(done) => Reported(done)'
    BY <1>1 DEF Reported
  <1>6. ASSUME NEW n, NEW line, Awaited(n, line)
        PROVE  Awaited(n, line)'
    <2>1. n \in 1..sent' /\ n \in Sends /\ line \in Line
      BY <1>1, <1>2, <1>6 DEF Awaited
    <2>2. \A v \in wire' : v.n = n \/ v.request.key = n =>
             v.n = n /\ v.request = Confirmed(n, line)
      BY <1>1, <1>6 DEF Awaited
    <2>3. CASE w.n = n
      <3>1. w.request = Confirmed(n, line)
        BY <1>6, <2>3 DEF Awaited
      <3>2. w.request.key = n /\ w.request.lines = <<line>>
        BY <3>1 DEF Confirmed
      <3>3. ~(Len(w.request.lines) > 1)
        BY <3>2
      <3>4. sales[n] \in {None, Confirmed(n, line)}
        BY <1>6 DEF Awaited
      <3> QED
        BY <1>1, <2>1, <2>2, <2>3, <3>1, <3>2, <3>3, <3>4 DEF Awaited
    <2>4. CASE w.n # n
      <3>1. w.request.key # n
        BY <1>6, <2>4 DEF Awaited
      <3>2. sales'[n] = sales[n] /\ answer'[n] = answer[n]
        BY <1>1, <2>1, <2>4, <3>1
      <3> QED
        BY <1>6, <2>1, <2>2, <3>2 DEF Awaited
    <2> QED
      BY <2>3, <2>4
  <1>7. ManualInv'
    <2>1. CASE Manually(manual)
      <3>1. PICK m : m = manual
        OBVIOUS
      <3>2. /\ Filled(m) /\ Attempt(m.attempt, "manual") /\ Spent(m)
            /\ m.waiting # None => Awaited(m.waiting, m.claim)
            /\ m.at = "done" => Reported(m.done)
        BY <2>1, <3>1 DEF Manually, Filled, Attempt, Spent, Awaited, Reported
      <3>3. Spent(m)'
        BY <1>1, <1>3, <3>2 DEF Spent
      <3>4. Manually(m)'
        BY <1>4, <1>5, <1>6, <3>2, <3>3 DEF Manually
      <3> QED
        BY <3>1, <3>4, ManualBecomes
    <2>2. CASE manual = Manual!Closed /\ loads = <<>>
      BY <2>2 DEF ManualInv, Manual!Closed
    <2> QED
      BY <2>1, <2>2 DEF ScreensInv, ManualInv
  <1>8. VoiceInv'
    <2>1. CASE Spoken(voice) /\ manual = Manual!Closed
      <3>1. PICK v : v = voice
        OBVIOUS
      <3>2. /\ DOMAIN v = VoiceFields /\ v.open = TRUE /\ v.key = v.attempt
            /\ Attempt(v.attempt, "voice")
        BY <2>1, <3>1 DEF Spoken, Attempt
      <3>3. Spoken(v)'
        BY <1>4, <3>2 DEF Spoken
      <3> QED
        BY <2>1, <3>1, <3>3, VoiceBecomes
    <2>2. CASE voice = Voice!Closed /\ replies = <<>>
      BY <2>2 DEF VoiceInv, Voice!Closed
    <2> QED
      BY <2>1, <2>2 DEF ScreensInv, VoiceInv
  <1>9. Loaded'
    BY DEF ScreensInv, Loaded
  <1> QED
    BY <1>1, <1>7, <1>8, <1>9 DEF ScreensInv

LEMMA OpenManualInv ==
    ASSUME ScreensInv, NEW p, NEW b, Manual!OpenManual(p, b),
           voice' = Voice!Closed, replies' = <<>>
    PROVE  ScreensInv'
  <1>1. PICK m : m = Manual!Opened(p, b)
    OBVIOUS
  <1>2. /\ manual' = m /\ UNCHANGED loads
        /\ UNCHANGED <<stock, sales, wire, answer, sent, origin, unheard>>
    BY <1>1 DEF Manual!OpenManual, Manual!client
  <1>3. /\ DOMAIN m = Fields /\ m.at = "loading" /\ m.batch = None /\ m.quantity = 1
        /\ m.waiting = None /\ m.attempt = None
    BY <1>1 DEF Manual!Opened, Fields
  <1>4. Manually(m)'
    BY <1>3 DEF Manually, Filled, Attempt, Spent
  <1>5. ManualInv'
    BY <1>2, <1>4, ManualBecomes
  <1>6. Loaded' /\ VoiceInv'
    BY <1>2 DEF ScreensInv, Loaded, VoiceInv, Voice!Closed
  <1> QED
    BY <1>2, <1>5, <1>6, QuietPosted DEF ScreensInv

LEMMA VoiceSaleInv ==
    ASSUME ScreensInv, VoiceSale
    PROVE  ScreensInv'
  <1>1. PICK available \in BOOLEAN : Voice!OpenVoice(available)
    BY DEF VoiceSale
  <1>2. PICK v : v = voice'
    OBVIOUS
  <1>3. /\ DOMAIN v = VoiceFields /\ v.open = TRUE /\ v.key = None /\ v.attempt = None
    BY <1>1, <1>2 DEF Voice!OpenVoice, Voice!Opened, VoiceFields
  <1>4. /\ UNCHANGED <<stock, sales, wire, answer, sent, origin, unheard>>
        /\ UNCHANGED <<manual, loads>> /\ manual = Manual!Closed
    BY <1>1 DEF Voice!OpenVoice, Voice!client, VoiceSale, AtHome
  <1>5. VoiceInv'
    BY <1>2, <1>3, <1>4, VoiceBecomes DEF Spoken, Attempt
  <1>6. ManualInv' /\ Loaded'
    BY <1>4, Unmounted DEF ScreensInv, ManualInv, Loaded, Manual!Closed
  <1> QED
    BY <1>4, <1>5, <1>6, QuietPosted DEF ScreensInv

LEMMA InitScreens == Init => ScreensInv
  <1> SUFFICES ASSUME Init PROVE ScreensInv
    OBVIOUS
  <1>1. /\ sales = [k \in Sends |-> None] /\ wire = {} /\ answer = [n \in Sends |-> "none"]
        /\ sent = 0 /\ origin = [n \in Sends |-> 0]
        /\ manual = Manual!Closed /\ loads = <<>> /\ voice = Voice!Closed /\ replies = <<>>
    BY DEF Init, ClientInit, Ledger!Init, Manual!ManualInit, Voice!VoiceInit
  <1>2. Asked = {}
    BY <1>1 DEF Asked, Recorded
  <1>3. Wired /\ Origins /\ Keyed /\ Paired
    BY <1>1, <1>2 DEF Wired, Origins, Keyed, Paired
  <1>4. Posted
    BY <1>1, <1>3, ClientAssumption DEF Posted
  <1>5. Loaded
    <2>1. loads \in Seq({loads[i] : i \in DOMAIN loads}) /\ DOMAIN loads = {}
      BY <1>1
    <2> QED
      BY <2>1 DEF Loaded
  <1> QED
    BY <1>1, <1>4, <1>5 DEF ScreensInv, ManualInv, VoiceInv

LEMMA NextScreens ==
    ASSUME ScreensInv, [Next]_vars
    PROVE  ScreensInv'
  <1>1. CASE UNCHANGED vars
    <2>1. UNCHANGED <<stock, sales, wire, answer, sent, origin, unheard, manual, loads, voice,
                      replies>>
      BY <1>1 DEF vars, client
    <2>2. Posted' /\ Loaded'
      BY <2>1, QuietPosted DEF ScreensInv, Loaded
    <2>3. CASE Manually(manual)
      <3>1. PICK m : m = manual
        OBVIOUS
      <3>2. Filled(m) /\ (m.at = "done" => Reported(m.done))
        BY <2>3, <3>1 DEF Manually, Filled, Reported
      <3> QED
        BY <2>1, <2>2, <2>3, <3>1, <3>2, ManualQuiet
    <2>4. CASE Spoken(voice)
      <3>1. PICK v : v = voice
        OBVIOUS
      <3>2. DOMAIN v = VoiceFields /\ v.open = TRUE
        BY <2>4, <3>1 DEF Spoken
      <3> QED
        BY <2>1, <2>4, <3>1, <3>2, VoiceQuiet
    <2>5. CASE /\ manual = Manual!Closed /\ loads = <<>>
               /\ voice = Voice!Closed /\ replies = <<>>
      BY <2>1, <2>2, <2>5 DEF ScreensInv, ManualInv, VoiceInv, Manual!Closed, Voice!Closed
    <2> QED
      BY <2>3, <2>4, <2>5 DEF ScreensInv, ManualInv, VoiceInv
  <1>2. CASE RecordSale
    <2>1. UNCHANGED <<voice, replies>> /\ voice = Voice!Closed
      BY <1>2 DEF RecordSale, AtHome
    <2>2. ~Spoken(voice)
      BY <2>1 DEF Spoken, Voice!Closed
    <2>3. replies = <<>>
      BY <2>2 DEF ScreensInv, VoiceInv
    <2> QED
      BY <1>2, <2>1, <2>3, OpenManualInv DEF RecordSale, Voice!Closed
  <1>3. CASE VoiceSale
    BY <1>3, VoiceSaleInv
  <1>4. CASE EnterManually
    BY <1>4, OpenManualInv DEF EnterManually
  <1>5. CASE Manual!ManualNext /\ UNCHANGED <<voice, replies>>
    BY <1>5, ManualNextInv
  <1>6. CASE Voice!VoiceNext /\ UNCHANGED <<manual, loads>>
    BY <1>6, VoiceNextInv
  <1>7. ASSUME NEW w \in wire, Serve(w), UNCHANGED <<manual, loads, voice, replies>>
        PROVE  ScreensInv'
    BY <1>7, ServeInv
  <1> QED
    BY <1>1, <1>2, <1>3, <1>4, <1>5, <1>6, <1>7 DEF Next

LEMMA ScreensInvariant == Spec => []ScreensInv
  <1>1. ScreensInv /\ [Next]_vars => ScreensInv'
    BY NextScreens
  <1> QED
    BY <1>1, InitScreens, PTL DEF Spec

\* The done view of the manual screen says what the server recorded for this confirmation,
\* whatever was touched, listed or served while it was busy (manual-sale-screen.tsx, confirm).
THEOREM DoneViewIsTrue == Spec => []ManualDoneIsRecorded
  <1>1. ScreensInv => ManualDoneIsRecorded
    <2>1. Manual!Closed.at # "done"
      BY DEF Manual!Closed
    <2> QED
      BY <2>1 DEF ScreensInv, ManualInv, Manually, Reported, ManualDoneIsRecorded,
                  Manual!ManualDoneIsRecorded
  <1> QED
    BY <1>1, ScreensInvariant, PTL

\* A sale is recorded under a second key only if the answer to an earlier transmission was
\* lost: after a refusal or an answer nothing of the attempt is under way any more.
THEOREM SecondSaleIsUnheard == Spec => []SecondSaleNeedsLostAnswer
  <1>1. ScreensInv => SecondSaleNeedsLostAnswer
    <2> SUFFICES ASSUME ScreensInv, NEW m \in Sends, NEW n \in Sends, m < n,
                        Manual!SameAttempt(m, n), sales[m] # None, sales[n] # None
                 PROVE  m \in unheard
      BY DEF SecondSaleNeedsLostAnswer, Manual!SecondSaleNeedsLostAnswer, Manual!Sends, Sends
    <2>1. \A k \in {m, n} : k \in 1..sent /\ Live(k)
      BY DEF ScreensInv, Posted, Keyed, Asked, Recorded, Live
    <2> QED
      BY <2>1 DEF ScreensInv, Posted, Paired, Manual!SameAttempt
  <1> QED
    BY <1>1, ScreensInvariant, PTL

\* A voice draft that is confirmed again as it stands keeps its key, so it is recorded once
\* however many answers were lost (voice-sale-screen.tsx, confirm).
THEOREM VoiceDraftSoldOnce == Spec => []VoiceAttemptSoldOnce
  <1>1. ScreensInv => VoiceAttemptSoldOnce
    <2> SUFFICES ASSUME ScreensInv, NEW m \in Sends, NEW n \in Sends,
                        sales[m] # None, sales[m].source = "voice", sales[n] # None,
                        Voice!SameAttempt(m, n)
                 PROVE  m = n
      BY DEF VoiceAttemptSoldOnce, Voice!VoiceAttemptSoldOnce, Voice!SoldOnce, Voice!Sends, Sends
    <2>1. /\ sales[m] \in Asked /\ sales[n] \in Asked /\ sales[m].key = m /\ sales[n].key = n
      BY DEF Asked, Recorded, ScreensInv, Posted, Keyed
    <2>2. sales[n].source = "voice"
      BY <2>1 DEF ScreensInv, Posted, Keyed, Voice!SameAttempt
    <2> QED
      BY <2>1, <2>2 DEF ScreensInv, Posted, Keyed, Voice!SameAttempt
  <1> QED
    BY <1>1, ScreensInvariant, PTL
-----------------------------------------------------------------------------
(* What a confirmed voice draft sells. *)

\* Lines of a request, and lines of a draft.
Counted(lines) ==
    /\ Len(lines) \in Nat /\ DOMAIN lines = 1 .. Len(lines)
    /\ \A i \in DOMAIN lines : lines[i].qty \in Nat

Drafted(lines) ==
    /\ IsFiniteSet(DOMAIN lines)
    /\ \A k \in DOMAIN lines :
          "quantity" \in DOMAIN lines[k] /\ lines[k].quantity \in Nat

Fits(lines) ==
    \A i \in DOMAIN lines :
        lines[i].product = ProductOf[lines[i].batch] /\ lines[i].qty <= Received[lines[i].batch]

\* A list of the batches of p, as it was when the server made it.
ListOf(p, list) ==
    \A b \in DOMAIN list :
        b \in Batches /\ ProductOf[b] = p /\ list[b] \in Nat /\ list[b] <= Received[b]

Cached(cache) == \A p \in DOMAIN cache : ListOf(p, cache[p])

Reply(r) ==
    /\ DOMAIN r = {"line", "product", "list"}
    /\ r.list # None => ListOf(r.product, r.list)

Replied ==
    /\ replies \in Seq({replies[i] : i \in DOMAIN replies})
    /\ \A i \in DOMAIN replies : Reply(replies[i])

Stocked ==
    /\ stock \in [Batches -> Nat]
    /\ \A b \in Batches : stock[b] <= Received[b]

Carried ==
    \A w \in wire :
        /\ Counted(w.request.lines)
        /\ w.request.source = "voice" => Fits(w.request.lines)

Draft(v) ==
    v.open = TRUE => Cached(v.cache) /\ (v.lines = None \/ Drafted(v.lines))

FitInv == Stocked /\ Carried /\ Replied /\ Draft(voice)
-----------------------------------------------------------------------------
LEMMA DemandIsNumber ==
    ASSUME NEW r, Counted(r.lines), NEW b
    PROVE  Ledger!Demand(r, b) \in Nat
  <1>1. Ledger!Demand(r, b) = (CHOOSE f : Counts(f, r.lines, b))[DOMAIN r.lines]
    BY DEF Ledger!Demand, Ledger!FoldLeft, Ledger!MapThenFoldSet, Ledger!Max, Max, Counts
  <1>2. PICK taken \in [0 .. Len(r.lines) -> Nat] :
           (CHOOSE f : Counts(f, r.lines, b))[DOMAIN r.lines] = taken[Len(r.lines)]
    BY CountTallies DEF Counted
  <1>3. Len(r.lines) \in Nat
    BY DEF Counted
  <1> QED
    BY <1>1, <1>2, <1>3

\* The library's fold over the lines of a draft.
Summed(f, lines, b) ==
    f = [s \in SUBSET DOMAIN lines |->
            IF s = {} THEN 0
            ELSE f[s \ {CHOOSE k \in s : TRUE}]
                   + IF lines[CHOOSE k \in s : TRUE].batch = b
                     THEN lines[CHOOSE k \in s : TRUE].quantity ELSE 0]

LEMMA UnitsSummed ==
    ASSUME NEW lines, NEW b
    PROVE  Voice!Units(lines, b) = (CHOOSE f : Summed(f, lines, b))[DOMAIN lines]
  BY DEF Voice!Units, Voice!FoldFunction, Voice!FoldFunctionOnSet, Voice!MapThenFoldSet, Summed

LEMMA UnitsIsNumber ==
    ASSUME NEW lines, Drafted(lines), NEW b
    PROVE  Voice!Units(lines, b) \in Nat
  <1> DEFINE D    == DOMAIN lines
             pick == [s \in SUBSET D |-> CHOOSE k \in s : TRUE]
             wt   == [k \in D |-> IF lines[k].batch = b THEN lines[k].quantity ELSE 0]
  <1>1. IsFiniteSet(D) /\ \A k \in D : wt[k] \in Nat
    BY DEF Drafted
  <1>2. \A s \in SUBSET D : s # {} => pick[s] \in s /\ pick[s] = CHOOSE k \in s : TRUE
    OBVIOUS
  <1>3. PICK g : Adds(g, D, pick, wt)
    <2> HIDE DEF D, pick, wt
    <2> QED
      BY <1>1, <1>2, AddsExists
  <1>4. \A s \in SUBSET D : g[s] \in Nat
    <2> HIDE DEF D, pick, wt
    <2> QED
      BY <1>1, <1>2, <1>3, AddsNat
  <1>5. Summed(g, lines, b)
    <2>1. ASSUME NEW s \in SUBSET D, s # {}
          PROVE  wt[pick[s]] + g[s \ {pick[s]}]
                   = g[s \ {CHOOSE k \in s : TRUE}]
                       + IF lines[CHOOSE k \in s : TRUE].batch = b
                         THEN lines[CHOOSE k \in s : TRUE].quantity ELSE 0
      <3>1. PICK x : x = CHOOSE k \in s : TRUE
        OBVIOUS
      <3>2. pick[s] = x /\ x \in D /\ s \ {x} \in SUBSET D
        BY <1>2, <2>1, <3>1
      <3>3. wt[x] = IF lines[x].batch = b THEN lines[x].quantity ELSE 0
        BY <3>2
      <3>4. g[s \ {x}] \in Nat /\ wt[x] \in Nat
        BY <1>1, <1>4, <3>2
      <3> HIDE DEF pick, wt, D
      <3>5. wt[x] + g[s \ {x}] = g[s \ {x}] + wt[x]
        BY <3>4
      <3> QED
        BY <3>1, <3>2, <3>3, <3>5
    <2>2. g = [s \in SUBSET D |-> IF s = {} THEN 0 ELSE wt[pick[s]] + g[s \ {pick[s]}]]
      BY <1>3 DEF Adds
    <2> HIDE DEF pick, wt
    <2> QED
      BY <2>1, <2>2 DEF Summed
  <1>6. PICK f : Summed(f, lines, b) /\ f = CHOOSE h : Summed(h, lines, b)
    BY <1>5
  <1>7. f[D] \in Nat
    <2> DEFINE Bad == {s \in SUBSET D : f[s] \notin Nat}
    <2> SUFFICES ASSUME Bad # {} PROVE FALSE
      OBVIOUS
    <2>1. PICK s \in Bad : \A u \in Bad : ~(Cardinality(u) < Cardinality(s))
      BY <1>1, LeastSet
    <2>2. IsFiniteSet(s) /\ Cardinality(s) \in Nat
      BY <1>1, FS_Subset, FS_CardinalityType
    <2>3. PICK x : x = CHOOSE k \in s : TRUE
      OBVIOUS
    <2>4. f[s] = IF s = {} THEN 0
                 ELSE f[s \ {x}] + IF lines[x].batch = b THEN lines[x].quantity ELSE 0
      BY <1>6, <2>3 DEF Summed
    <2>5. s # {} /\ x \in s /\ x \in D /\ s \ {x} \in SUBSET D
      BY <2>1, <2>3, <2>4
    <2>6. Cardinality(s \ {x}) = Cardinality(s) - 1
      BY <2>2, <2>5, FS_RemoveElement
    <2>7. f[s \ {x}] \in Nat
      BY <2>1, <2>2, <2>5, <2>6
    <2>8. wt[x] \in Nat /\ wt[x] = IF lines[x].batch = b THEN lines[x].quantity ELSE 0
      BY <1>1, <2>5
    <2>9. f[s] \in Nat
      <3> HIDE DEF wt
      <3> QED
        BY <2>4, <2>5, <2>7, <2>8
    <2> QED
      BY <2>1, <2>9
  <1> QED
    BY <1>6, <1>7, UnitsSummed

\* The batches of a draft are listed in some order.
LEMMA ChosenListed ==
    ASSUME NEW lines, IsFiniteSet(DOMAIN lines)
    PROVE  /\ Cardinality(Voice!Chosen(lines)) \in Nat
           /\ Voice!SetToSeq(Voice!Chosen(lines))
                \in [1 .. Cardinality(Voice!Chosen(lines)) -> Voice!Chosen(lines)]
  <1> DEFINE C == Voice!Chosen(lines)
             f == [k \in DOMAIN lines |-> lines[k].batch]
  <1>1. f \in Surjection(DOMAIN lines, C)
    BY DEF Voice!Chosen, Surjection
  <1>2. IsFiniteSet(C)
    <2> HIDE DEF C, f
    <2> QED
      BY <1>1, FS_Surjection
  <1>3. Cardinality(C) \in Nat /\ ExistsBijection(1 .. Cardinality(C), C)
    BY <1>2, FS_CardinalityType
  <1>4. \E g \in [1 .. Cardinality(C) -> C] : Voice!IsInjective(g)
    <2> HIDE DEF C
    <2>1. PICK g : g \in Bijection(1 .. Cardinality(C), C)
      BY <1>3 DEF ExistsBijection
    <2>2. g \in [1 .. Cardinality(C) -> C] /\ Voice!IsInjective(g)
      BY <2>1 DEF Bijection, Injection, IsInjective, Voice!IsInjective
    <2> QED
      BY <2>2
  <1> HIDE DEF C
  <1>5. Voice!SetToSeq(C) \in [1 .. Cardinality(C) -> C]
    BY <1>4 DEF Voice!SetToSeq, Voice!Cardinality, Cardinality, Voice!IsFiniteSet, IsFiniteSet
  <1> QED
    BY <1>3, <1>5 DEF C

\* One item for each batch of a validated draft: its own product, and no more than listed.
LEMMA SaleItemsFit ==
    ASSUME Cached(voice.cache), NEW lines, Drafted(lines), Voice!ValidLines(lines)
    PROVE  Counted(Voice!SaleItems(lines)) /\ Fits(Voice!SaleItems(lines))
  <1>1. PICK n : n = Cardinality(Voice!Chosen(lines))
    OBVIOUS
  <1>2. PICK order : order = Voice!SetToSeq(Voice!Chosen(lines))
    OBVIOUS
  <1>3. n \in Nat /\ order \in [1 .. n -> Voice!Chosen(lines)]
    BY <1>1, <1>2, ChosenListed DEF Drafted
  <1>4. Voice!SaleItems(lines) =
          [i \in 1 .. n |->
             [product |-> lines[CHOOSE k \in DOMAIN lines : lines[k].batch = order[i]].product,
              batch |-> order[i], qty |-> Voice!Units(lines, order[i])]]
    BY <1>1, <1>2 DEF Voice!SaleItems, Voice!Cardinality, Cardinality
  <1>5. PICK items : items = Voice!SaleItems(lines)
    OBVIOUS
  <1>6. DOMAIN items = 1 .. n /\ Len(items) = n
    <2>1. items = [i \in 1 .. n |-> items[i]]
      BY <1>4, <1>5
    <2>2. PICK S : S = {items[i] : i \in 1 .. n}
      OBVIOUS
    <2>3. items \in [1 .. n -> S]
      BY <2>1, <2>2
    <2> QED
      BY <1>3, <2>3
  <1>7. ASSUME NEW i \in 1 .. n
        PROVE  /\ items[i].qty \in Nat
               /\ items[i].product = ProductOf[items[i].batch]
               /\ items[i].qty <= Received[items[i].batch]
    <2>1. PICK b : b = order[i]
      OBVIOUS
    <2>2. PICK k \in DOMAIN lines : k = CHOOSE j \in DOMAIN lines : lines[j].batch = b
      <3>1. \E j \in DOMAIN lines : lines[j].batch = b
        BY <1>3, <2>1 DEF Voice!Chosen
      <3> QED
        BY <3>1
    <2>3. lines[k].batch = b
      <3>1. \E j \in DOMAIN lines : lines[j].batch = b
        BY <1>3, <2>1 DEF Voice!Chosen
      <3> QED
        BY <2>2, <3>1
    <2>4. PICK units : units = Voice!Units(lines, b)
      OBVIOUS
    <2>5. items[i] = [product |-> lines[k].product, batch |-> b, qty |-> units]
      BY <1>4, <1>5, <2>1, <2>2, <2>4
    <2>6. /\ lines[k].product \in DOMAIN voice.cache
          /\ b \in DOMAIN voice.cache[lines[k].product]
          /\ units <= voice.cache[lines[k].product][b]
      BY <2>3, <2>4 DEF Voice!ValidLines
    <2>7. /\ b \in Batches /\ ProductOf[b] = lines[k].product
          /\ voice.cache[lines[k].product][b] \in Nat
          /\ voice.cache[lines[k].product][b] <= Received[b]
      BY <2>6 DEF Cached, ListOf
    <2>8. units \in Nat /\ Received[b] \in Nat
      BY <2>4, <2>7, UnitsIsNumber, DraftAssumption
    <2> QED
      BY <2>5, <2>6, <2>7, <2>8
  <1> QED
    BY <1>3, <1>5, <1>6, <1>7 DEF Counted, Fits
-----------------------------------------------------------------------------
(* The lists of batches. *)

LEMMA ActiveIsList ==
    ASSUME Stocked, NEW p
    PROVE  ListOf(p, Voice!Active(p))
  BY DEF Stocked, ListOf, Voice!Active

LEMMA ListedIsList ==
    ASSUME Stocked, Cached(voice.cache), NEW p
    PROVE  ListOf(p, Voice!Listed(p))
  BY ActiveIsList DEF Cached, Voice!Listed

LEMMA WithCached ==
    ASSUME NEW cache, Cached(cache), NEW fresh, Cached(fresh)
    PROVE  Cached(Voice!With(cache, fresh))
  BY DEF Cached, Voice!With

LEMMA SomeReplies ==
    ASSUME NEW S, \A r \in S : Reply(r), replies' \in Seq(S)
    PROVE  Replied'
  <1>1. \A i \in DOMAIN replies' : replies'[i] \in S
    OBVIOUS
  <1>2. replies' \in Seq({replies'[i] : i \in DOMAIN replies'})
    OBVIOUS
  <1> QED
    BY <1>1, <1>2 DEF Replied, Reply, ListOf

LEMMA RepliesAppend ==
    ASSUME Replied, NEW k, NEW p,
           replies' = Append(replies, [line |-> k, product |-> p, list |-> None])
    PROVE  Replied'
  <1> DEFINE r == [line |-> k, product |-> p, list |-> None]
             S == {replies[i] : i \in DOMAIN replies} \union {r}
  <1>1. Reply(r) /\ replies' = Append(replies, r)
    BY DEF Reply
  <1> HIDE DEF r
  <1>2. replies' \in Seq(S)
    BY <1>1 DEF Replied
  <1>3. \A x \in S : Reply(x)
    BY <1>1 DEF Replied
  <1> QED
    BY <1>2, <1>3, SomeReplies

LEMMA RepliesServed ==
    ASSUME Replied, Stocked, NEW i \in DOMAIN replies, Voice!ServeReply(i)
    PROVE  Replied'
  <1> DEFINE list == Voice!Active(replies[i].product)
             r == [replies[i] EXCEPT !.list = list]
             S == {replies[j] : j \in DOMAIN replies} \union {r}
  <1>1. ListOf(replies[i].product, list)
    BY ActiveIsList
  <1> HIDE DEF list
  <1>2. Reply(r)
    BY <1>1 DEF Reply, Replied
  <1>3. replies' = [replies EXCEPT ![i] = r]
    BY DEF Voice!ServeReply, list
  <1> HIDE DEF r
  <1>4. replies' \in Seq(S)
    BY <1>3 DEF Replied
  <1>5. \A x \in S : Reply(x)
    BY <1>2 DEF Replied
  <1> QED
    BY <1>4, <1>5, SomeReplies

LEMMA RepliesRemoved ==
    ASSUME Replied, NEW i \in DOMAIN replies, replies' = Voice!RemoveAt(replies, i)
    PROVE  Replied'
  <1> DEFINE S == {replies[j] : j \in DOMAIN replies}
  <1>1. replies \in Seq(S)
    BY DEF Replied
  <1>2. \A x \in S : Reply(x)
    BY DEF Replied
  <1> HIDE DEF S
  <1>3. i \in 1 .. Len(replies) /\ Len(replies) \in Nat
    BY <1>1
  <1>4. SubSeq(replies, 1, i - 1) \in Seq(S) /\ SubSeq(replies, i + 1, Len(replies)) \in Seq(S)
    BY <1>1, <1>3
  <1>5. replies' \in Seq(S)
    BY <1>4 DEF Voice!RemoveAt
  <1> QED
    BY <1>2, <1>5, SomeReplies
-----------------------------------------------------------------------------
(* The draft. *)

LEMMA CorrectedDraft ==
    ASSUME NEW v, DOMAIN v = VoiceFields, v.open = TRUE, Draft(v), NEW k, NEW patch,
           "quantity" \in DOMAIN patch => patch.quantity \in Nat
    PROVE  /\ DOMAIN Voice!Corrected(v, k, patch) = VoiceFields
           /\ Voice!Corrected(v, k, patch).open = TRUE
           /\ Voice!Corrected(v, k, patch).cache = v.cache
           /\ Draft(Voice!Corrected(v, k, patch))
  <1>1. PICK c : c = Voice!Corrected(v, k, patch)
    OBVIOUS
  <1>2. /\ DOMAIN c = VoiceFields /\ c.open = TRUE /\ c.cache = v.cache
        /\ c.lines = IF v.lines = None THEN <<>>
                     ELSE IF k \in DOMAIN v.lines
                          THEN [v.lines EXCEPT ![k] = Voice!With(v.lines[k], patch)]
                          ELSE v.lines
    BY <1>1 DEF Voice!Corrected, VoiceFields
  <1>3. CASE v.lines = None
    <2>1. DOMAIN c.lines = {}
      BY <1>2, <1>3
    <2> QED
      BY <1>1, <1>2, <2>1, FS_EmptySet DEF Draft, Drafted
  <1>4. CASE v.lines # None
    <2>1. Drafted(v.lines) /\ DOMAIN c.lines = DOMAIN v.lines
      BY <1>2, <1>4 DEF Draft
    <2>2. ASSUME NEW j \in DOMAIN c.lines
          PROVE  "quantity" \in DOMAIN c.lines[j] /\ c.lines[j].quantity \in Nat
      <3>1. CASE j = k
        <4>1. c.lines[j] = Voice!With(v.lines[k], patch)
          BY <1>2, <1>4, <2>1, <3>1
        <4>2. "quantity" \in DOMAIN v.lines[k] /\ v.lines[k].quantity \in Nat
          BY <2>1, <3>1 DEF Drafted
        <4> QED
          BY <4>1, <4>2 DEF Voice!With
      <3>2. CASE j # k
        <4>1. c.lines[j] = v.lines[j]
          BY <1>2, <1>4, <2>1, <3>2
        <4> QED
          BY <2>1, <4>1 DEF Drafted
      <3> QED
        BY <3>1, <3>2
    <2>3. Drafted(c.lines)
      BY <2>1, <2>2 DEF Drafted
    <2> QED
      BY <1>1, <1>2, <2>3 DEF Draft
  <1> QED
    BY <1>3, <1>4

LEMMA DraftBecomes ==
    ASSUME NEW v, voice' = v, Draft(v)
    PROVE  Draft(voice)'
  BY DEF Draft, Drafted, Cached, ListOf

\* A step of the voice screen that sends nothing keeps its lists true and its draft countable.
LEMMA DraftTouched ==
    ASSUME Stocked, Replied, Spoken(voice), Draft(voice), NEW k, NEW b,
           \/ \E yes \in BOOLEAN : \/ Voice!StartListening(yes) \/ Voice!SpeechFails(yes)
                                   \/ Voice!DraftFails(yes) \/ Voice!RefreshEnds(yes)
           \/ \E d \in Drafts : Voice!DraftArrives(d)
           \/ \E delta \in {-1, 1} : Voice!SetUnits(k, delta)
           \/ \E p \in Products : Voice!ChooseProduct(k, p)
           \/ \E i \in DOMAIN replies :
                 Voice!ServeReply(i) \/ Voice!ReplyArrives(i) \/ Voice!ReplyFails(i)
           \/ Voice!StopListening \/ Voice!CreateDraft \/ Voice!RecordAgain \/ Voice!RemoveLine(k)
           \/ Voice!ChooseBatch(k, b)
           \/ Voice!SaleCreated \/ Voice!SaleRefused \/ Voice!SaleUnheard
    PROVE  Replied' /\ Draft(voice)' /\ UNCHANGED <<stock, wire>>
  <1> DEFINE Calm == UNCHANGED <<stock, wire>>
             Same == UNCHANGED replies
             Kept(v) == DOMAIN v = VoiceFields /\ v.open = TRUE /\ Draft(v)
  <1>0. PICK v : v = voice'
    OBVIOUS
  <1>1. DOMAIN voice = VoiceFields /\ voice.open = TRUE /\ Kept(voice)
    BY DEF Spoken
  <1>2. ASSUME v.cache = voice.cache, v.lines \in {None, voice.lines}
        PROVE  Draft(v)
    BY <1>1, <1>2 DEF Draft
  <1>3. Same => Replied'
    BY DEF Replied, Reply, ListOf
  <1>4. \A line, patch : ("quantity" \in DOMAIN patch => patch.quantity \in Nat) =>
           Kept(Voice!Corrected(voice, line, patch))
    BY <1>1, CorrectedDraft
  <1>5. ASSUME NEW yes \in BOOLEAN,
               Voice!StartListening(yes) \/ Voice!SpeechFails(yes) \/ Voice!DraftFails(yes)
        PROVE  Same /\ Calm /\ Draft(v)
    <2>1. Same /\ Calm
      BY <1>5 DEF Voice!StartListening, Voice!SpeechFails, Voice!DraftFails, Voice!Become,
         Voice!client
    <2>2. v.cache = voice.cache /\ v.lines = voice.lines
      BY <1>0, <1>1, <1>5
         DEF Voice!StartListening, Voice!SpeechFails, Voice!DraftFails, Voice!Become, VoiceFields
    <2> QED
      BY <1>2, <2>1, <2>2
  <1>6. CASE \/ Voice!StopListening \/ Voice!CreateDraft \/ Voice!RecordAgain
             \/ Voice!SaleCreated \/ Voice!SaleRefused \/ Voice!SaleUnheard
    <2>1. Same /\ Calm
      BY <1>6 DEF Voice!StopListening, Voice!CreateDraft, Voice!RecordAgain, Voice!SaleCreated,
         Voice!SaleRefused, Voice!SaleUnheard, Voice!GiveUp, Voice!Become, Voice!client
    <2>2. v.cache = voice.cache /\ v.lines \in {None, voice.lines}
      BY <1>0, <1>1, <1>6
         DEF Voice!StopListening, Voice!CreateDraft, Voice!RecordAgain, Voice!SaleCreated,
             Voice!SaleRefused, Voice!SaleUnheard, Voice!ConfirmFailed, Voice!Become, VoiceFields
    <2> QED
      BY <1>0, <1>2, <1>3, <2>1, <2>2, DraftBecomes
  <1>7. ASSUME NEW yes \in BOOLEAN, Voice!RefreshEnds(yes) PROVE Same /\ Calm /\ Draft(v)
    <2>1. PICK fresh : fresh = [p \in voice.refreshing |-> Voice!Active(p)]
      OBVIOUS
    <2>2. /\ Same /\ Calm /\ v.open = TRUE /\ v.lines = voice.lines
          /\ v.cache \in {voice.cache, Voice!With(voice.cache, fresh)}
      BY <1>0, <1>1, <1>7, <2>1 DEF Voice!RefreshEnds, Voice!Become, Voice!client, VoiceFields
    <2>3. Cached(fresh)
      BY <2>1, ActiveIsList DEF Cached
    <2>4. Cached(Voice!With(voice.cache, fresh)) /\ Cached(voice.cache)
      BY <1>1, <2>3, WithCached DEF Draft
    <2> QED
      BY <1>1, <2>2, <2>4 DEF Draft
  <1>8. ASSUME NEW d \in Drafts, Voice!DraftArrives(d) PROVE Same /\ Calm /\ Draft(v)
    <2>1. PICK fresh : fresh = [p \in {d[j].product : j \in DOMAIN d} \ {None} |-> Voice!Listed(p)]
      OBVIOUS
    <2>2. /\ Same /\ Calm /\ v.cache = Voice!With(voice.cache, fresh)
          /\ v.lines = [j \in DOMAIN d |->
                [product |-> d[j].product, quantity |-> d[j].quantity,
                 batch |-> IF d[j].product = None THEN None
                           ELSE Voice!Oldest(Voice!Listed(d[j].product))]]
      BY <1>0, <1>1, <1>8, <2>1 DEF Voice!DraftArrives, Voice!Become, Voice!client, VoiceFields
    <2>3. Cached(fresh) /\ Cached(voice.cache)
      BY <1>1, <2>1, ListedIsList DEF Cached, Draft
    <2>4. Cached(v.cache)
      BY <2>2, <2>3, WithCached
    <2>5. Drafted(v.lines)
      BY <2>2, DraftAssumption DEF Drafted
    <2> QED
      BY <2>2, <2>4, <2>5 DEF Draft
  <1>9. CASE Voice!RemoveLine(k)
    <2>1. /\ Same /\ Calm /\ v.cache = voice.cache /\ voice.lines # None
          /\ v.lines = [j \in DOMAIN voice.lines \ {k} |-> voice.lines[j]]
      BY <1>0, <1>1, <1>9
         DEF Voice!RemoveLine, Voice!Restrict, Voice!Reviewing, Voice!Become, Voice!client,
             VoiceFields
    <2>2. Drafted(voice.lines) /\ Cached(voice.cache)
      BY <1>1, <2>1 DEF Draft
    <2>3. Drafted(v.lines)
      BY <2>1, <2>2, FS_Subset DEF Drafted
    <2> QED
      BY <1>0, <1>3, <2>1, <2>2, <2>3, DraftBecomes DEF Draft
  <1> HIDE DEF Kept
  <1>10. ASSUME NEW delta \in {-1, 1}, Voice!SetUnits(k, delta) PROVE Same /\ Calm /\ Kept(v)
    <2>1. PICK units : units = voice.lines[k].quantity + delta
      OBVIOUS
    <2>2. /\ Same /\ Calm /\ units \in Nat
          /\ v = Voice!Corrected(voice, k, [quantity |-> units])
      BY <1>0, <1>10, <2>1 DEF Voice!SetUnits, Voice!Become, Voice!client
    <2> QED
      BY <1>4, <2>2
  <1>11. CASE Voice!ChooseBatch(k, b)
    <2>1. Same /\ Calm /\ v = Voice!Corrected(voice, k, [batch |-> b])
      BY <1>0, <1>11 DEF Voice!ChooseBatch, Voice!Become, Voice!client
    <2>2. Kept(v)
      BY <1>4, <2>1
    <2> QED
      BY <1>0, <1>3, <2>1, <2>2, DraftBecomes DEF Kept
  <1>12. ASSUME NEW p \in Products, Voice!ChooseProduct(k, p) PROVE Replied' /\ Calm /\ Kept(v)
    <2>1. PICK chosen : chosen = Voice!Corrected(voice, k, [product |-> p, batch |-> None])
      OBVIOUS
    <2>2. Kept(chosen)
      BY <1>4, <2>1
    <2>3. \A patch : "quantity" \notin DOMAIN patch => Kept(Voice!Corrected(chosen, k, patch))
      BY <2>2, CorrectedDraft DEF Kept
    <2>4. /\ Calm
          /\ \/ v = Voice!Corrected(chosen, k, [batch |-> Voice!Oldest(voice.cache[p])]) /\ Same
             \/ /\ v = chosen
                /\ replies' = Append(replies, [line |-> k, product |-> p, list |-> None])
      BY <1>0, <1>12, <2>1 DEF Voice!ChooseProduct, Voice!client
    <2> QED
      BY <1>3, <2>2, <2>3, <2>4, RepliesAppend
  <1>13. ASSUME NEW i \in DOMAIN replies, Voice!ServeReply(i) \/ Voice!ReplyFails(i)
         PROVE  Replied' /\ Calm /\ Draft(v)
    <2>1. Calm /\ v = voice
      BY <1>0, <1>13 DEF Voice!ServeReply, Voice!ReplyFails, Voice!client
    <2>2. Replied'
      BY <1>13, RepliesServed, RepliesRemoved DEF Voice!ReplyFails
    <2> QED
      BY <2>1, <2>2
  <1>14. ASSUME NEW i \in DOMAIN replies, Voice!ReplyArrives(i) PROVE Replied' /\ Calm /\ Kept(v)
    <2>1. PICK r : r = replies[i]
      OBVIOUS
    <2>2. PICK fresh : fresh = [p \in {r.product} |-> r.list]
      OBVIOUS
    <2>3. PICK u : u = [voice EXCEPT !.cache = Voice!With(@, fresh)]
      OBVIOUS
    <2>4. /\ Calm /\ replies' = Voice!RemoveAt(replies, i) /\ r.list # None
          /\ v = Voice!Corrected(u, r.line, [batch |-> Voice!Oldest(r.list)])
      BY <1>0, <1>14, <2>1, <2>2, <2>3 DEF Voice!ReplyArrives, Voice!client
    <2>5. /\ DOMAIN u = VoiceFields /\ u.open = TRUE /\ u.lines = voice.lines
          /\ u.cache = Voice!With(voice.cache, fresh)
      BY <1>1, <2>3 DEF VoiceFields
    <2>6. ListOf(r.product, r.list)
      BY <2>1, <2>4 DEF Replied, Reply
    <2>7. Cached(fresh) /\ Cached(voice.cache)
      BY <1>1, <2>2, <2>6 DEF Cached, Draft
    <2>8. Draft(u)
      BY <1>1, <2>5, <2>7, WithCached DEF Draft
    <2>9. Kept(v)
      BY <2>4, <2>5, <2>8, CorrectedDraft DEF Kept
    <2> QED
      BY <2>4, <2>9, RepliesRemoved
  <1> USE DEF Kept
  <1> HIDE DEF Same, Calm
  <1>15. ASSUME Draft(v), Replied', Calm PROVE Replied' /\ Draft(voice)' /\ Calm
    BY <1>0, <1>15, DraftBecomes
  <1> QED
    BY <1>3, <1>5, <1>6, <1>7, <1>8, <1>9, <1>10, <1>11, <1>12, <1>13, <1>14, <1>15 DEF Calm

LEMMA SameFit ==
    ASSUME FitInv, UNCHANGED <<stock, voice, replies>>, Carried'
    PROVE  FitInv'
  BY DEF FitInv, Stocked, Replied, Reply, ListOf, Draft, Drafted, Cached

LEMMA LessCarried ==
    ASSUME Carried, wire' \subseteq wire
    PROVE  Carried'
  BY DEF Carried, Counted, Fits

\* What a screen sends is carried as it is.
LEMMA SubmitCarried ==
    ASSUME Carried, NEW source, NEW key, NEW lines, NEW again, Submit(source, key, lines, again),
           Counted(lines), source = "voice" => Fits(lines)
    PROVE  Carried' /\ stock' = stock
  <1>1. PICK w : w = [n |-> sent + 1, request |->
                        [source |-> source, key |-> IF key = None THEN sent + 1 ELSE key,
                         lines |-> lines]]
    OBVIOUS
  <1>2. wire' = wire \union {w} /\ stock' = stock
    BY <1>1 DEF Submit
  <1>3. w.request.source = source /\ w.request.lines = lines
    BY <1>1
  <1>4. ASSUME NEW u \in wire'
        PROVE  Counted(u.request.lines) /\ (u.request.source = "voice" => Fits(u.request.lines))
    BY <1>2, <1>3, <1>4 DEF Carried
  <1> QED
    BY <1>2, <1>4 DEF Carried, Counted, Fits

LEMMA VoiceNextFit ==
    ASSUME ScreensInv, FitInv, Voice!VoiceNext
    PROVE  FitInv'
  <1>1. CASE voice = Voice!Closed /\ replies = <<>>
    <2>1. voice.open = FALSE /\ DOMAIN replies = {}
      BY <1>1 DEF Voice!Closed
    <2> QED
      BY <2>1
         DEF Voice!VoiceNext, Voice!CloseVoice, Voice!StopListening, Voice!CreateDraft,
             Voice!RecordAgain, Voice!Confirm, Voice!SaleCreated, Voice!SaleRefused,
             Voice!SaleUnheard, Voice!StartListening, Voice!SpeechFails, Voice!DraftFails,
             Voice!RefreshEnds, Voice!DraftArrives, Voice!RemoveLine, Voice!SetUnits,
             Voice!ChooseBatch, Voice!ChooseProduct, Voice!Speaking, Voice!Reviewing,
             Voice!Touchable, Voice!Awaiting
  <1>2. CASE Spoken(voice)
    <2>1. CASE Voice!CloseVoice
      <3>1. voice' = Voice!Closed /\ replies' = <<>> /\ UNCHANGED <<stock, wire>>
        BY <2>1 DEF Voice!CloseVoice, Voice!client
      <3>2. Replied'
        BY <3>1 DEF Replied
      <3>3. Draft(voice)'
        BY <3>1 DEF Draft, Voice!Closed
      <3> QED
        BY <3>1, <3>2, <3>3, LessCarried DEF FitInv, Stocked
    <2>2. CASE Voice!Confirm
      <3>1. PICK lines : lines = Voice!SaleItems(voice.lines)
        OBVIOUS
      <3>2. /\ voice.lines # None /\ Voice!ValidLines(voice.lines) /\ replies' = replies
            /\ Submit("voice", voice.key, lines, voice.attempt)
        BY <2>2, <3>1 DEF Voice!Confirm, Voice!Reviewing, Voice!DraftKey, Voice!Submit, Submit,
           Voice!Sends, Sends
      <3>3. Drafted(voice.lines) /\ Cached(voice.cache)
        BY <1>2, <3>2 DEF FitInv, Draft, Spoken
      <3>4. Counted(lines) /\ Fits(lines)
        BY <3>1, <3>2, <3>3, SaleItemsFit
      <3>5. Carried' /\ stock' = stock
        BY <3>2, <3>4, SubmitCarried DEF FitInv
      <3>6. PICK v : v = voice'
        OBVIOUS
      <3>7. v.open = voice.open /\ v.cache = voice.cache /\ v.lines = voice.lines
        BY <1>2, <2>2, <3>6 DEF Voice!Confirm, Spoken, VoiceFields
      <3>8. Draft(voice)'
        BY <3>3, <3>6, <3>7, DraftBecomes DEF Draft
      <3> QED
        BY <3>2, <3>5, <3>8 DEF FitInv, Stocked, Replied, Reply, ListOf
    <2>3. CASE ~Voice!CloseVoice /\ ~Voice!Confirm
      <3>1. Replied' /\ Draft(voice)' /\ UNCHANGED <<stock, wire>>
        BY <1>2, <2>3, DraftTouched DEF Voice!VoiceNext, FitInv
      <3> QED
        BY <3>1, LessCarried DEF FitInv, Stocked
    <2> QED
      BY <2>1, <2>2, <2>3
  <1> QED
    BY <1>1, <1>2 DEF ScreensInv, VoiceInv

LEMMA ManualNextFit ==
    ASSUME ScreensInv, FitInv, Manual!ManualNext, UNCHANGED <<voice, replies>>
    PROVE  FitInv'
  <1>1. CASE Manual!Confirm
    <2>1. PICK lines : lines = <<Manual!Claim>>
      OBVIOUS
    <2>2. Submit("manual", None, lines, manual.attempt) /\ manual.quantity \in Nat
      <3>1. manual.at = "form"
        BY <1>1 DEF Manual!Confirm, Manual!Touchable
      <3>2. Manually(manual)
        BY <3>1 DEF ScreensInv, ManualInv, Manual!Closed
      <3> QED
        BY <1>1, <2>1, <3>2
           DEF Manual!Confirm, Manual!Send, Manual!Submit, Submit, Manual!Sends, Sends,
               Manually, Filled
    <2>3. Counted(lines)
      BY <2>1, <2>2 DEF Counted, Manual!Claim
    <2>4. Carried' /\ stock' = stock
      BY <2>2, <2>3, SubmitCarried DEF FitInv
    <2> QED
      BY <2>4, SameFit
  <1>2. CASE ~Manual!Confirm
    <2>1. UNCHANGED <<stock, wire>>
      BY <1>2 DEF Manual!ManualNext, Manual!CloseManual, Manual!ProductsArrive,
         Manual!ProductsFail, Manual!SaleCreated, Manual!SaleRefused, Manual!SaleUnheard,
         Manual!SellAnother, Manual!SelectProduct, Manual!Select, Manual!ServeBatches,
         Manual!BatchesArrive, Manual!BatchesFail, Manual!PickBatch, Manual!SetQuantity,
         Manual!AdjustQuantity, Manual!GiveUp, Manual!client
    <2> QED
      BY <2>1, LessCarried, SameFit DEF FitInv
  <1> QED
    BY <1>1, <1>2

\* What is sold comes off the stock and leaves it a number.
LEMMA ServeFit ==
    ASSUME FitInv, NEW w \in wire, Serve(w), UNCHANGED <<voice, replies>>
    PROVE  FitInv'
  <1>1. wire' = wire \ {w}
    BY DEF Serve
  <1>2. PICK r : r = w.request
    OBVIOUS
  <1>3. PICK demand : demand = [b \in Batches |-> Ledger!Demand(r, b)]
    OBVIOUS
  <1>4. \A b \in Batches : demand[b] \in Nat
    BY <1>2, <1>3, DemandIsNumber DEF FitInv, Carried
  <1>5. \/ stock' = stock
        \/ /\ \A b \in Batches : demand[b] <= stock[b]
           /\ stock' = [b \in Batches |-> stock[b] - demand[b]]
    BY <1>2, <1>3 DEF Serve, Ledger!Record
  <1>6. Stocked'
    BY <1>4, <1>5, DraftAssumption DEF FitInv, Stocked
  <1>7. Carried'
    BY <1>1, LessCarried DEF FitInv
  <1> QED
    BY <1>6, <1>7 DEF FitInv, Replied, Reply, ListOf, Draft, Drafted, Cached

LEMMA InitFit == Init => FitInv
  <1> SUFFICES ASSUME Init PROVE FitInv
    OBVIOUS
  <1>1. stock = Received /\ wire = {}
    BY DEF Init, ClientInit, Ledger!Init
  <1>2. voice.open = FALSE /\ replies = <<>>
    BY DEF Init, Voice!VoiceInit, Voice!Closed
  <1>3. Stocked
    BY <1>1, DraftAssumption DEF Stocked
  <1>4. Replied
    BY <1>2 DEF Replied
  <1> QED
    BY <1>1, <1>2, <1>3, <1>4 DEF FitInv, Carried, Draft

LEMMA NextFit == ScreensInv /\ FitInv /\ [Next]_vars => FitInv'
  <1> SUFFICES ASSUME ScreensInv, FitInv, [Next]_vars PROVE FitInv'
    OBVIOUS
  <1>1. CASE UNCHANGED vars
    BY <1>1, LessCarried, SameFit DEF vars, client, FitInv
  <1>2. CASE RecordSale
    <2>1. UNCHANGED <<stock, wire, voice, replies>>
      BY <1>2 DEF RecordSale, Manual!OpenManual, Manual!client
    <2> QED
      BY <2>1, LessCarried, SameFit DEF FitInv
  <1>3. CASE VoiceSale
    <2>1. PICK available \in BOOLEAN : Voice!OpenVoice(available)
      BY <1>3 DEF VoiceSale
    <2>2. PICK v : v = Voice!Opened(available)
      OBVIOUS
    <2>3. voice' = v /\ UNCHANGED <<stock, wire, replies>>
      BY <2>1, <2>2 DEF Voice!OpenVoice, Voice!client
    <2>4. v.lines = None /\ DOMAIN v.cache = {}
      BY <2>2 DEF Voice!Opened
    <2>5. Draft(voice)'
      BY <2>3, <2>4, DraftBecomes DEF Draft, Cached
    <2> QED
      BY <2>3, <2>5, LessCarried DEF FitInv, Stocked, Replied, Reply, ListOf
  <1>4. CASE EnterManually
    <2>1. voice' = Voice!Closed /\ replies' = <<>> /\ UNCHANGED <<stock, wire>>
      BY <1>4 DEF EnterManually, Manual!OpenManual, Manual!client
    <2>2. Draft(voice)'
      BY <2>1 DEF Draft, Voice!Closed
    <2>3. Replied'
      BY <2>1 DEF Replied
    <2> QED
      BY <2>1, <2>2, <2>3, LessCarried DEF FitInv, Stocked
  <1>5. CASE Manual!ManualNext /\ UNCHANGED <<voice, replies>>
    BY <1>5, ManualNextFit
  <1>6. CASE Voice!VoiceNext /\ UNCHANGED <<manual, loads>>
    BY <1>6, VoiceNextFit
  <1>7. ASSUME NEW w \in wire, Serve(w), UNCHANGED <<manual, loads, voice, replies>>
        PROVE  FitInv'
    BY <1>7, ServeFit
  <1> QED
    BY <1>1, <1>2, <1>3, <1>4, <1>5, <1>6, <1>7 DEF Next

\* No confirmed voice draft sells a batch as another product, or more of one batch over all
\* its lines than was ever received, however late its lists of batches arrived
\* (voice-sale-screen.tsx, chooseProduct; voice-lines.ts, validateLines and buildSaleItems).
THEOREM VoiceDraftsFit == Spec => []SentLinesFit
  <1>1. FitInv => SentLinesFit
    BY DEF FitInv, Carried, Fits, SentLinesFit, Voice!SentLinesFit
  <1>2. ScreensInv /\ FitInv /\ [Next]_vars => FitInv'
    BY NextFit
  <1>3. Spec => []FitInv
    BY <1>2, InitFit, ScreensInvariant, PTL DEF Spec
  <1> QED
    BY <1>1, <1>3, PTL
=============================================================================
