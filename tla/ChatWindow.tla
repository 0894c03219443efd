----------------------------- MODULE ChatWindow -----------------------------
(***************************************************************************)
(* The WhatsApp window and the state published of it: whatsapp/            *)
(* WhatsAppWindow and sessionState, read by the connection badge and by    *)
(* the senders.                                                            *)
(*                                                                         *)
(* Every two seconds a poll asks the page what it shows, and when it shows *)
(* the chats asks it for the phone's number; both answers come later, so   *)
(* polls overlap, and one may be under way when its window is closed: then *)
(* the question fails, at once, later or never.                            *)
(*                                                                         *)
(* Abstracted: the page is one of what deriveState tells apart; the number *)
(* is found or not; the message beside the state.                          *)
(***************************************************************************)
EXTENDS Naturals, Sequences, SequencesExt

CONSTANT MaxPolls   \* bound: polls under way at one time

\* What the instances assume of these.
PollsGiven == MaxPolls \in Nat \ {0}

VARIABLES
    window,    \* the window: open, shown
    page,      \* what its page shows
    polling,   \* the poll timer runs
    poll,      \* polls under way
    status,    \* lastStatus
    campaign,  \* campaignRunning
    logout     \* logoutWhatsApp awaits the cleared storage

vars == <<window, page, polling, poll, status, campaign, logout>>

Pages == {"loading", "stale", "qr", "ready"}
Disconnected == [state |-> "disconnected", phone |-> FALSE, open |-> FALSE]
NoWindow == [open |-> FALSE, shown |-> FALSE]

\* every variable holds what it may; a phone is published only with "ready"
TypeOK ==
    /\ window \in [open : BOOLEAN, shown : BOOLEAN]
    /\ page \in Pages /\ polling \in BOOLEAN /\ campaign \in BOOLEAN /\ logout \in BOOLEAN
    /\ poll \in Seq([open : BOOLEAN, asks : {"page", "phone"}, alive : BOOLEAN])
    /\ Len(poll) <= MaxPolls
    /\ status \in [state : Pages \cup {"disconnected"}, phone : BOOLEAN, open : BOOLEAN]
    /\ status.phone => status.state = "ready"

Init ==
    /\ window = NoWindow /\ page = "loading"
    /\ polling = FALSE /\ poll = <<>>
    /\ status = Disconnected
    /\ campaign = FALSE /\ logout = FALSE

-----------------------------------------------------------------------------
(* Polls.                                                                  *)

NewPoll == [open |-> window'.open, asks |-> "page", alive |-> TRUE]

\* mutant: the number that was found stays
Publish_PhoneStays(state, phone, open) ==
    status' = [state |-> state, phone |-> phone \/ status.phone, open |-> open]

\* publish keeps what was published when nothing changed
Publish(state, phone, open) == status' = [state |-> state, phone |-> phone, open |-> open]

\* the interval; what it does next depends on answers
Tick ==
    /\ polling /\ Len(poll) < MaxPolls
    /\ UNCHANGED <<window, page, polling, status, campaign, logout>>
    /\ poll' = Append(poll, NewPoll)

DeriveState(seen, open) == IF open THEN seen ELSE "disconnected"

\* the question fails when its window is gone, which reads as a page that loads
ProbeAnswers ==
    \E k \in DOMAIN poll :
        LET state == DeriveState(IF poll[k].alive THEN page ELSE "loading", poll[k].open)
        IN  /\ poll[k].asks = "page"
            /\ IF state = "ready" /\ window.open
               THEN poll' = [poll EXCEPT ![k].asks = "phone"] /\ UNCHANGED status
               ELSE /\ poll' = RemoveAt(poll, k)
                    /\ Publish(state, FALSE, poll[k].open)
            /\ UNCHANGED <<window, page, polling, campaign, logout>>

\* best effort: the number is found or not
PhoneAnswers ==
    \E k \in DOMAIN poll, found \in BOOLEAN :
        /\ poll[k].asks = "phone"
        /\ found => poll[k].alive
        /\ poll' = RemoveAt(poll, k)
        /\ Publish("ready", found, poll[k].open)
        /\ UNCHANGED <<window, page, polling, campaign, logout>>

\* the question of a poll whose window is gone is never answered
PollLost ==
    \E k \in DOMAIN poll :
        /\ ~poll[k].alive
        /\ poll' = RemoveAt(poll, k)
        /\ UNCHANGED <<window, page, polling, status, campaign, logout>>

-----------------------------------------------------------------------------
(* The window.                                                             *)
\* mutant: a new window is polled once
OpenWindow_PolledOnce ==
    /\ window' = [open |-> TRUE, shown |-> TRUE]
    /\ IF window.open
       THEN UNCHANGED <<page, poll>>
       ELSE page' = "loading" /\ Len(poll) < MaxPolls /\ poll' = Append(poll, NewPoll)
    /\ UNCHANGED <<polling, status, campaign, logout>>

\* an open window is brought to the front; a new one is polled at once
OpenWindow ==
    /\ window' = [open |-> TRUE, shown |-> TRUE]
    /\ IF window.open
       THEN UNCHANGED <<page, polling, poll>>
       ELSE /\ page' = "loading"
            /\ polling' = TRUE
            /\ Len(poll) < MaxPolls /\ poll' = Append(poll, NewPoll)
    /\ UNCHANGED <<status, campaign, logout>>

HideWindow ==
    /\ window.open
    /\ window' = [window EXCEPT !.shown = FALSE]
    /\ UNCHANGED <<page, polling, poll, status, campaign, logout>>

\* the handler of "closed"
Closed ==
    /\ window' = NoWindow
    /\ polling' = FALSE
    /\ poll' = [k \in DOMAIN poll |-> [poll[k] EXCEPT !.alive = FALSE]]

\* while a campaign runs the window is hidden instead
CloseWindow ==
    /\ window.open
    /\ IF campaign
       THEN window' = [window EXCEPT !.shown = FALSE] /\ UNCHANGED <<polling, poll, status>>
       ELSE Closed /\ status' = Disconnected
    /\ UNCHANGED <<page, campaign, logout>>

\* the page loads, asks for the code, connects, is taken over by another tab
PageChanges ==
    \E p \in Pages :
        /\ window.open /\ p # page
        /\ page' = p
        /\ UNCHANGED <<window, polling, poll, status, campaign, logout>>

\* logoutWhatsApp to its await: the window is destroyed, which closes it
Logout ==
    /\ ~logout
    /\ logout' = TRUE
    /\ IF window.open THEN Closed /\ status' = Disconnected
       ELSE polling' = FALSE /\ UNCHANGED <<window, poll, status>>
    /\ UNCHANGED <<page, campaign>>

LogoutDone ==
    /\ logout
    /\ logout' = FALSE
    /\ status' = Disconnected
    /\ UNCHANGED <<window, page, polling, poll, campaign>>

SetCampaignRunning ==
    /\ campaign' = ~campaign
    /\ UNCHANGED <<window, page, polling, poll, status, logout>>

Next ==
    \/ Tick \/ ProbeAnswers \/ PhoneAnswers \/ PollLost
    \/ OpenWindow \/ HideWindow \/ CloseWindow \/ PageChanges
    \/ Logout \/ LogoutDone \/ SetCampaignRunning

\* the interval does not stop, and every question is answered or fails
Fairness == /\ WF_vars(Tick) /\ WF_vars(ProbeAnswers) /\ WF_vars(PhoneAnswers)
            /\ WF_vars(PollLost) /\ WF_vars(LogoutDone)

Spec == Init /\ [][Next]_vars /\ Fairness

-----------------------------------------------------------------------------
(* Properties.                                                             *)

\* What is published catches up with the window: when a window stays open and
\* its page goes on showing the same, the published state becomes that of the
\* page, whatever polls of an earlier page or window answer late
StatusCatchesUp ==
    \A p \in Pages \ {"loading"} :
        <>[](window.open /\ page = p /\ ~logout) => []<>(status.state = p /\ status.open)

=============================================================================
