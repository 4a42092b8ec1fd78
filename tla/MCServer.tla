------------------------------ MODULE MCServer ------------------------------
(***************************************************************************)
(* Small instances of two requests of the API that must not be lost: sales *)
(* whose member loses and regains access, and scans whose workers are      *)
(* reliable.  They share no state here, so a behaviour exercises one of    *)
(* them and the other stays as it is at first.                             *)
(***************************************************************************)
EXTENDS MCSales

CONSTANTS Scans, Workers, OldBatches

VARIABLES part, scanAccess, api, form, scan, queue, made, alerted, job, early

\* A product, with or without a batch that both scans may name, or neither.
ScanUploads == {[product |-> TRUE, batch |-> b] : b \in OldBatches \union {None}}
               \union {[product |-> FALSE, batch |-> None]}

Scan == INSTANCE ScanPipeline WITH access <- scanAccess, Uploads <- ScanUploads

scanVars == <<scanAccess, api, form, scan, queue, made, alerted, job, early>>

ServerInit ==
    /\ part \in {"sales", "scans"}
    /\ Init /\ Scan!Init
    /\ part = "scans" => aging = {}

ServerNext ==
    /\ UNCHANGED part
    /\ \/ part = "sales" /\ Next /\ UNCHANGED scanVars
       \/ part = "scans" /\ Scan!CalmNext /\ UNCHANGED vars

\* Nothing that fairness speaks of is enabled in the first state of a part.
ServerSpec ==
    /\ ServerInit /\ [][ServerNext]_<<part, vars, scanVars>>
    /\ \A h \in Handlers : WF_vars(Statement(h))
    /\ Scan!Fairness

\* See ScanPipeline.
NoScanForgotten     == Scan!NoScanForgotten
PushIsTrue          == Scan!PushIsTrue
AcceptedScanSettles == Scan!AcceptedScanSettles
=============================================================================
