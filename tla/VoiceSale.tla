----------------------------- MODULE VoiceSale -----------------------------
(***************************************************************************)
(* The voice sale screen: a transcript becomes a draft of several lines,   *)
(* which the vendor corrects and confirms.  One idempotency key belongs to *)
(* the draft as it stands: correcting it draws a new key, confirming it    *)
(* again keeps the key.                                                    *)
(***************************************************************************)
EXTENDS SaleClient, SequencesExt

CONSTANTS
    Intake,       \* intake date of each batch
    Drafts,       \* what the parser may make of a transcript: line -> [product, quantity]
    MostUnits,    \* bound: quantity of a line
    MaxReplies    \* bound: lists of batches on their way at once

VARIABLES
    voice,        \* the state of the mounted screen
    replies       \* lists of batches for a line, on their way: [line, product, list]

screen == <<voice, replies>>

Closed == [open |-> FALSE]

\* lines is the draft, a function from line keys, or None before there is one.  key is the
\* draft's idempotency key, None while it was never sent.  refreshing names the products
\* whose batches are read again after a failed confirmation; busy is waiting or refreshing.
Opened(available) ==
    [open |-> TRUE, fallback |-> ~available, listening |-> FALSE, parsing |-> FALSE,
     lines |-> None, cache |-> <<>>, key |-> None, waiting |-> None,
     claim |-> {}, refreshing |-> {}, done |-> None, attempt |-> None]

VoiceInit == voice = Closed /\ replies = <<>>

OpenVoice(available) ==
    /\ ~voice.open
    /\ voice' = Opened(available)
    /\ UNCHANGED <<replies, client>>

\* Cancel, Back to Dashboard, and the one button of the fallback dialog.
CloseVoice ==
    /\ voice.open
    /\ voice' = Closed
    /\ replies' = <<>>
    /\ UNCHANGED client

\* The fallback dialog covers the screen and cannot be dismissed; a sale hides the rest.
Touchable == voice.open /\ InUse /\ ~voice.fallback /\ voice.done = None
Speaking  == Touchable /\ voice.lines = None
Reviewing == Touchable /\ voice.lines # None
Busy      == voice.waiting # None \/ voice.refreshing # {}

Become(v) == voice' = v /\ UNCHANGED <<replies, client>>

StartListening(granted) ==
    /\ Speaking /\ ~voice.listening
    /\ Become(IF granted THEN [voice EXCEPT !.listening = TRUE]
                         ELSE [voice EXCEPT !.fallback = TRUE])

StopListening == voice.open /\ voice.listening /\ Become([voice EXCEPT !.listening = FALSE])

\* speechUnavailableReason: some errors end voice entry, others allow another try.
SpeechFails(unavailable) ==
    /\ voice.open /\ voice.listening
    /\ Become([voice EXCEPT !.listening = FALSE, !.fallback = @ \/ unavailable])

\* The transcript was heard or typed; what it says is the choice of DraftArrives.
CreateDraft ==
    /\ Speaking /\ ~voice.parsing /\ ~voice.listening
    /\ Become([voice EXCEPT !.parsing = TRUE])

DraftFails(unavailable) ==
    /\ voice.open /\ voice.parsing
    /\ Become([voice EXCEPT !.parsing = FALSE, !.fallback = @ \/ unavailable])

\* Spread syntax: the cache with fresh lists, a line with corrected fields.
With(old, new) ==
    [f \in DOMAIN old \union DOMAIN new |-> IF f \in DOMAIN new THEN new[f] ELSE old[f]]

\* pickDefaultBatch: first in, first out.
Oldest(list) ==
    IF list = <<>> THEN None
    ELSE CHOOSE b \in DOMAIN list :
            \A c \in DOMAIN list : Intake[b] < Intake[c] \/ (Intake[b] = Intake[c] /\ b <= c)

\* ensureBatches: a list is read once and kept, however old.
Listed(p) == IF p \in DOMAIN voice.cache THEN voice.cache[p] ELSE Active(p)

\* linesFromDraft: a product the parser did not match stays open.
DraftArrives(d) ==
    LET matched == {d[k].product : k \in DOMAIN d} \ {None} IN
    /\ voice.open /\ voice.parsing
    /\ Become([voice EXCEPT !.parsing = FALSE, !.key = None, !.attempt = None,
           !.cache = With(@, [p \in matched |-> Listed(p)]),
           !.lines = [k \in DOMAIN d |->
               [product |-> d[k].product, quantity |-> d[k].quantity,
                batch |-> IF d[k].product = None THEN None ELSE Oldest(Listed(d[k].product))]]])

\* updateLine: every correction draws a new key.  A correction that arrives after Record again
\* finds no draft and leaves one without lines.
Corrected(v, k, patch) ==
    [v EXCEPT !.key = None, !.attempt = None,
              !.lines = IF v.lines = None THEN <<>>
                        ELSE IF k \in DOMAIN v.lines THEN [v.lines EXCEPT ![k] = With(@, patch)]
                        ELSE v.lines]

SetUnits(k, delta) ==
    /\ Reviewing /\ k \in DOMAIN voice.lines
    /\ voice.lines[k].quantity + delta \in 1..MostUnits
    /\ Become(Corrected(voice, k, [quantity |-> voice.lines[k].quantity + delta]))

ChooseBatch(k, b) ==
    /\ Reviewing /\ k \in DOMAIN voice.lines
    /\ voice.lines[k].product \in DOMAIN voice.cache
    /\ b \in DOMAIN voice.cache[voice.lines[k].product]
    /\ Become(Corrected(voice, k, [batch |-> b]))

ChooseProduct(k, p) ==
    LET chosen == Corrected(voice, k, [product |-> p, batch |-> None]) IN
    /\ Reviewing /\ k \in DOMAIN voice.lines
    /\ UNCHANGED client
    /\ IF p \in DOMAIN voice.cache
       THEN /\ voice' = Corrected(chosen, k, [batch |-> Oldest(voice.cache[p])])
            /\ UNCHANGED replies
       ELSE /\ Len(replies) < MaxReplies
            /\ voice' = chosen
            /\ replies' = Append(replies, [line |-> k, product |-> p, list |-> None])

ServeReply(i) ==
    /\ replies[i].list = None
    /\ replies' = [replies EXCEPT ![i].list = Active(replies[i].product)]
    /\ UNCHANGED <<voice, client>>

\* The rest of chooseProduct corrects the line a second time, whatever it is now.
ReplyArrives(i) ==
    LET r == replies[i] IN
    /\ r.list # None
    /\ voice' = Corrected([voice EXCEPT !.cache = With(@, [p \in {r.product} |-> r.list])],
                          r.line, [batch |-> Oldest(r.list)])
    /\ replies' = RemoveAt(replies, i)
    /\ UNCHANGED client

ReplyFails(i) == replies' = RemoveAt(replies, i) /\ UNCHANGED <<voice, client>>

RemoveLine(k) ==
    /\ Reviewing /\ k \in DOMAIN voice.lines
    /\ Become([voice EXCEPT !.key = None, !.attempt = None,
                            !.lines = Restrict(@, DOMAIN @ \ {k})])

\* The key stays: it is replaced when the next draft arrives.
RecordAgain == Reviewing /\ Become([voice EXCEPT !.lines = None])

Units(lines, b) ==
    FoldFunction(LAMBDA line, sum : sum + IF line.batch = b THEN line.quantity ELSE 0, 0, lines)

Chosen(lines) == {lines[k].batch : k \in DOMAIN lines}

\* Mutant of ValidLines: any listed batch will do, whatever product it is of.
ValidLinesAnyBatch(lines) ==
    \A k \in DOMAIN lines :
        \E p \in DOMAIN voice.cache :
            /\ lines[k].batch \in DOMAIN voice.cache[p]
            /\ Units(lines, lines[k].batch) <= voice.cache[p][lines[k].batch]

\* validateLines: the batch is of the line's product, and the lines of a batch together
\* stay within the stock that was listed.
ValidLines(lines) ==
    \A k \in DOMAIN lines :
        LET line == lines[k] IN
        /\ line.product \in DOMAIN voice.cache
        /\ line.batch \in DOMAIN voice.cache[line.product]
        /\ Units(lines, line.batch) <= voice.cache[line.product][line.batch]

\* buildSaleItems: one item for each batch, in the same order for the same draft.
SaleItems(lines) ==
    [i \in 1..Cardinality(Chosen(lines)) |->
        LET b == SetToSeq(Chosen(lines))[i]
            k == CHOOSE k \in DOMAIN lines : lines[k].batch = b IN
        [product |-> lines[k].product, batch |-> b, qty |-> Units(lines, b)]]

\* Mutant of DraftKey: a key for every confirmation, as on the manual screen.
DraftKeyFresh == None

DraftKey == voice.key

Confirm ==
    /\ Reviewing /\ ~Busy /\ voice.lines # <<>> /\ ValidLines(voice.lines)
    /\ Submit("voice", DraftKey, SaleItems(voice.lines), voice.attempt)
    /\ voice' = [voice EXCEPT !.waiting = sent', !.key = IF @ = None THEN sent' ELSE @,
                              !.claim = {voice.lines[k].product : k \in DOMAIN voice.lines},
                              !.attempt = IF @ = None THEN sent' ELSE @]
    /\ UNCHANGED replies

Awaiting(status) == voice.open /\ voice.waiting # None /\ answer[voice.waiting] = status

SaleCreated ==
    /\ Awaiting("created")
    /\ Become([voice EXCEPT !.waiting = None, !.claim = {}, !.done = voice.waiting])

\* The stock may have changed since the draft: confirm reads the batches of its lines again.
ConfirmFailed ==
    voice' = [voice EXCEPT !.waiting = None, !.refreshing = voice.claim, !.claim = {}]

SaleRefused == Awaiting("refused") /\ ConfirmFailed /\ UNCHANGED <<replies, client>>

SaleUnheard ==
    /\ voice.open /\ voice.waiting # None
    /\ GiveUp(voice.waiting) /\ ConfirmFailed /\ UNCHANGED replies

RefreshEnds(succeeds) ==
    /\ voice.open /\ voice.refreshing # {}
    /\ Become([voice EXCEPT !.refreshing = {},
           !.cache = IF succeeds THEN With(@, [p \in voice.refreshing |-> Active(p)]) ELSE @])

VoiceNext ==
    \/ CloseVoice \/ StopListening \/ CreateDraft \/ RecordAgain \/ Confirm
    \/ SaleCreated \/ SaleRefused \/ SaleUnheard
    \/ \E yes \in BOOLEAN : \/ StartListening(yes) \/ SpeechFails(yes)
                            \/ DraftFails(yes) \/ RefreshEnds(yes)
    \/ \E d \in Drafts : DraftArrives(d)
    \/ \E k \in {1, 2} : \/ RemoveLine(k)
                         \/ \E delta \in {-1, 1} : SetUnits(k, delta)
                         \/ \E b \in Batches : ChooseBatch(k, b)
                         \/ \E p \in Products : ChooseProduct(k, p)
    \/ \E i \in DOMAIN replies : ServeReply(i) \/ ReplyArrives(i) \/ ReplyFails(i)
-----------------------------------------------------------------------------
\* A draft that is confirmed again as it stands is recorded once, however many answers
\* were lost and however late the server serves the first confirmation.
VoiceAttemptSoldOnce == SoldOnce("voice")

\* Whatever the order in which lists of batches arrived, the draft that is sent sells
\* no batch as another product and never more of it, over all lines, than was received.
SentLinesFit ==
    \A w \in wire :
        w.request.source = "voice" =>
            \A i \in DOMAIN w.request.lines :
                LET line == w.request.lines[i] IN
                line.product = ProductOf[line.batch] /\ line.qty <= Received[line.batch]
=============================================================================
