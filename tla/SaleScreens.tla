---------------------------- MODULE SaleScreens ----------------------------
(***************************************************************************)
(* The navigator around the two sale screens: Home opens either, Sell on   *)
(* an alert opens the manual one for its batch, and the voice screen can   *)
(* replace itself with the manual one.  Both talk to the same server.      *)
(***************************************************************************)
EXTENDS SaleClient

CONSTANTS MostUnits, MaxLoads, MaxReplies, Intake, Drafts

VARIABLES manual, loads, voice, replies

\* Stocks and quantities are whole numbers, and a transcript makes finitely many lines.
ASSUME DraftAssumption ==
    /\ Received \in [Batches -> Nat]
    /\ \A d \in Drafts :
          /\ IsFiniteSet(DOMAIN d)
          /\ \A k \in DOMAIN d : d[k].quantity \in Nat

Manual == INSTANCE ManualSale
Voice  == INSTANCE VoiceSale

vars == <<client, manual, loads, voice, replies>>

Init == ClientInit /\ Manual!ManualInit /\ Voice!VoiceInit

\* Bound: a screen is opened from Home only before the first transmission.
AtHome == manual = Manual!Closed /\ voice = Voice!Closed /\ sent = 0

\* Home, with no wish, or Sell on an alert, whose batch may be sold out by now.
RecordSale ==
    /\ AtHome
    /\ \/ Manual!OpenManual(None, None)
       \/ \E b \in Batches : Manual!OpenManual(ProductOf[b], b)
    /\ UNCHANGED <<voice, replies>>

VoiceSale ==
    /\ AtHome
    /\ \E available \in BOOLEAN : Voice!OpenVoice(available)
    /\ UNCHANGED <<manual, loads>>

\* navigation.replace('Sale'): Enter sale manually, in the screen or in the fallback dialog.
EnterManually ==
    /\ voice.open
    /\ voice' = Voice!Closed /\ replies' = <<>>
    /\ Manual!OpenManual(None, None)

Next ==
    \/ RecordSale \/ VoiceSale \/ EnterManually
    \/ Manual!ManualNext /\ UNCHANGED <<voice, replies>>
    \/ Voice!VoiceNext /\ UNCHANGED <<manual, loads>>
    \/ \E w \in wire : Serve(w) /\ UNCHANGED <<manual, loads, voice, replies>>

Spec == Init /\ [][Next]_vars
-----------------------------------------------------------------------------
\* See ManualSale and VoiceSale.
ManualDoneIsRecorded      == Manual!ManualDoneIsRecorded
SecondSaleNeedsLostAnswer == Manual!SecondSaleNeedsLostAnswer
ManualAttemptSoldOnce     == Manual!ManualAttemptSoldOnce
VoiceAttemptSoldOnce      == Voice!VoiceAttemptSoldOnce
SentLinesFit              == Voice!SentLinesFit
=============================================================================
