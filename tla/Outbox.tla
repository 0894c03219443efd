------------------------------- MODULE Outbox -------------------------------
(***************************************************************************)
(* What NEDARIM promises about each WhatsApp message (WB-08): it leaves at *)
(* most once and only while it is on its way, it is recorded as sent only  *)
(* after it left, and once its fate is recorded, or in doubt, it is never  *)
(* taken up again.  One step may move several messages, each by one of     *)
(* these actions.  CampaignEngine implements this specification.           *)
(***************************************************************************)
EXTENDS Naturals

CONSTANT Items

VARIABLES
    item,       \* status of each message_campaign_item
    delivered   \* how many times its message left the WhatsApp window

vars == <<item, delivered>>

Init == /\ item = [i \in Items |-> "none"]
        /\ delivered = [i \in Items |-> 0]

Moves(i, from, to) == item[i] \in from /\ item'[i] \in to

\* a campaign is saved: its items wait, or are skipped for want of a number
Prepare(i) == Moves(i, {"none"}, {"pending", "skipped"})

Take(i) == Moves(i, {"pending"}, {"sending"})

Confirm(i) == Moves(i, {"sending"}, {"sent"}) /\ delivered[i] = 1

\* the campaign is cancelled, or the sender gives up: a message that was on
\* its way may have left
GiveUp(i) == Moves(i, {"pending", "sending"}, {"failed"})

\* the process stopped in the middle of a send
Doubt(i) == Moves(i, {"sending"}, {"unknown"})

Leave(i) == /\ Moves(i, {"sending"}, {"sending"})
            /\ delivered[i] = 0
            /\ delivered'[i] = 1

Rest(i) == /\ item'[i] = item[i]
           /\ delivered'[i] = delivered[i]

Step(i) == \/ Leave(i)
           \/ Rest(i)
           \/ /\ delivered'[i] = delivered[i]
              /\ Prepare(i) \/ Take(i) \/ Confirm(i) \/ GiveUp(i) \/ Doubt(i)

Next == \A i \in Items : Step(i)

Spec == Init /\ [][Next]_vars

=============================================================================
