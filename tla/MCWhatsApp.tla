----------------------------- MODULE MCWhatsApp ------------------------------
(***************************************************************************)
(* The two parts of the program that live on time: CampaignEngine, in the  *)
(* instance of MCCampaignEngine, and the window its messages leave by,     *)
(* ChatWindow. They share no variable (CampaignEngine takes from the       *)
(* window whether its session is ready, and allows any change of it);      *)
(* "part" says which of them a behaviour is about, and the other stays as  *)
(* it starts, with none of its timers running.                             *)
(***************************************************************************)
EXTENDS MCCampaignEngine

VARIABLES part, opened, page, polling, poll, status, running, logout

W == INSTANCE ChatWindow WITH MaxPolls <- 2, window <- opened, campaign <- running

ASSUME WindowBounds == W!PollsGiven

windowVars == <<opened, page, polling, poll, status, running, logout>>

WhatsAppInit == part \in {"campaign", "window"} /\ Init /\ W!Init

WhatsAppNext ==
    /\ UNCHANGED part
    /\ \/ part = "campaign" /\ Next /\ UNCHANGED windowVars
       \/ part = "window" /\ W!Next /\ UNCHANGED vars

WhatsAppSpec ==
    /\ WhatsAppInit
    /\ [][WhatsAppNext]_<<part, vars, windowVars>>
    /\ Fairness /\ W!Fairness

\* The variables of both hold what they can hold.
WhatsAppTypeOK == TypeOK /\ W!TypeOK

\* What is begun ends: a campaign's run returns, and no message stays half sent
\* (CampaignRunner.run, sendOne, reconcileInterrupted).
WorkEnds == RunEnds /\ SendSettles

\* The published state catches up with the chat window (poll, publish).
StatusCatchesUp == W!StatusCatchesUp
==============================================================================
