--------------------------- MODULE CampaignEngine ---------------------------
(***************************************************************************)
(* Sending WhatsApp messages: the campaign runner (whatsapp/CampaignRunner,*)
(* runnerDecision, runnerHost), the single message of campaigns:sendOne    *)
(* (ipc/index), and what both share: the item rows and the daily counter   *)
(* of the database, and the one WhatsApp window.                           *)
(*                                                                         *)
(* A step runs from one await to the next: until a timer fires, a window   *)
(* script answers or an IPC call arrives nothing else runs in the main     *)
(* process.  So the end of a send, the runner's bookkeeping and its next   *)
(* decision are one step.                                                  *)
(*                                                                         *)
(* A campaign is its own sender: send[c] is the sendCampaignItem call that *)
(* is suspended for it.  Abstracted: names, templates, delays in seconds,  *)
(* progress events, screenshots, audit rows.                               *)
(***************************************************************************)
EXTENDS Naturals, Sequences, SequencesExt

CONSTANTS
    Bulks,        \* campaigns made by the wizard
    Singles,      \* campaigns of one item made by campaigns:sendOne
    Queue,        \* [campaign -> sequence of its items, by sort_order]
    Phone,        \* [item -> the number whose chat the message goes to]
    Text,         \* [item -> what probeVerify compares: the text's first 40 characters]
    NoCampaign,
    NoItem,
    Cap,          \* whatsapp_daily_cap
    Threshold,    \* whatsapp_stop_after_consecutive_failures, 0 = never
    Overlap,      \* whether a send is begun while another one is on its way
    MaxCrashes,   \* bound: times the process stops
    MaxDays       \* bound: midnights

Campaigns == Bulks \cup Singles
Items == UNION {Range(Queue[c]) : c \in Campaigns}

ASSUME CampaignsApart == Bulks \cap Singles = {} /\ NoCampaign \notin Campaigns
ASSUME QueuesApart ==
    /\ \A c \in Campaigns : Queue[c] \in Seq(Range(Queue[c])) \ {<<>>} /\ IsInjective(Queue[c])
    /\ \A c, d \in Campaigns : c # d => Range(Queue[c]) \cap Range(Queue[d]) = {}
    /\ \A c \in Singles : Len(Queue[c]) = 1
    /\ NoItem \notin Items
ASSUME LimitsNatural == /\ Cap \in Nat \ {0} /\ Threshold \in Nat
                        /\ MaxCrashes \in Nat /\ MaxDays \in Nat
                        /\ Overlap \in BOOLEAN

VARIABLES
    (* in the database *)
    item,        \* message_campaign_item.status; "none" before it is created
    campaign,    \* message_campaign.status
    used,        \* sent_count of today's whatsapp_daily_counter row
    (* in the main process *)
    up,          \* the process runs
    active,      \* runnerHost's active campaign
    runner,      \* the CampaignRunner of the active campaign
    send,        \* per campaign, its suspended sendOne/sendCampaignItem
    (* the WhatsApp window *)
    connected,   \* its session is ready
    chat,        \* the item whose chat the window was last sent to
    typed,       \* its text is still in the compose box
    (* outside the program: for checking, and bounds *)
    delivered,   \* messages that left, per item
    today,       \* items recorded as sent since midnight
    crashes, days

db     == <<item, campaign, used>>
window == <<chat, typed, delivered>>
limits == <<crashes, days>>
vars   == <<db, up, active, runner, send, connected, window, today, limits>>

Idle  == [phase |-> "none", item |-> NoItem, clicked |-> FALSE]
Fresh == [request |-> "run", failures |-> 0, fresh |-> TRUE, waiting |-> FALSE]

ItemStatus == {"none", "pending", "sending", "sent", "failed", "skipped", "unknown"}
CampaignStatus == {"none", "draft", "running", "paused", "completed", "cancelled", "failed"}

\* every variable holds what its column, field or window state can hold
TypeOK ==
    /\ item \in [Items -> ItemStatus]
    /\ campaign \in [Campaigns -> CampaignStatus]
    /\ used \in Nat
    /\ up \in BOOLEAN
    /\ active \in Bulks \cup {NoCampaign}
    /\ runner \in [request : {"run", "pause", "cancel"}, failures : Nat,
                   fresh : BOOLEAN, waiting : BOOLEAN]
    /\ send \in [Campaigns -> [phase : {"none", "connecting", "probing", "verifying"},
                               item : Items \cup {NoItem}, clicked : BOOLEAN]]
    /\ connected \in BOOLEAN
    /\ chat \in Items \cup {NoItem}
    /\ typed \in BOOLEAN
    /\ delivered \in [Items -> Nat]
    /\ today \in Nat
    /\ crashes \in 0..MaxCrashes
    /\ days \in 0..MaxDays

Init ==
    /\ item = [i \in Items |-> "none"]
    /\ campaign = [c \in Campaigns |-> "none"]
    /\ used = 0
    /\ up = TRUE
    /\ active = NoCampaign
    /\ runner = Fresh
    /\ send = [c \in Campaigns |-> Idle]
    /\ connected = TRUE
    /\ chat = NoItem
    /\ typed = FALSE
    /\ delivered = [i \in Items |-> 0]
    /\ today = 0
    /\ crashes = 0
    /\ days = 0

Sending(c) == send[c].phase \in {"probing", "verifying"}
Quiet == active = NoCampaign /\ \A c \in Campaigns : send[c].phase = "none"

-----------------------------------------------------------------------------
(* services/campaigns: one transaction saves the campaign and its items;   *)
(* members without a valid number are skipped from the start.              *)

Saved(c, valid) ==
    [i \in Items |-> IF i \notin Range(Queue[c]) THEN item[i]
                     ELSE IF i \in valid THEN "pending" ELSE "skipped"]

CreateCampaign(c, valid) ==
    /\ up
    /\ campaign[c] = "none"
    /\ campaign' = [campaign EXCEPT ![c] = "draft"]
    /\ item' = Saved(c, valid)
    /\ UNCHANGED <<used, up, active, runner, send, connected, window, today, limits>>

NextPending(c, it) ==
    LET k == SelectInSeq(Queue[c], LAMBDA i : it[i] = "pending")
    IN  IF k = 0 THEN NoItem ELSE Queue[c][k]

-----------------------------------------------------------------------------
(* sendCampaignItem up to its await: the item is marked before the window  *)
(* is sent to its chat with the text typed in.                             *)

Begin(c, i, it) ==
    /\ item' = [it EXCEPT ![i] = "sending"]
    /\ send' = [send EXCEPT ![c] = [phase |-> "probing", item |-> i, clicked |-> FALSE]]
    /\ chat' = i
    /\ typed' = TRUE
    /\ UNCHANGED delivered

-----------------------------------------------------------------------------
(* The runner's loop between two awaits.  it, u and r are the items, the   *)
(* day's count and the runner as the code above the loop's head left them, *)
(* waited its waitCompleted.  The order of the checks is the behaviour: a  *)
(* cancel comes before everything, an empty queue before the stops.        *)

Stops(u, r) == \/ r.request = "pause"
               \/ ~connected
               \/ u >= Cap
               \/ Threshold > 0 /\ r.failures >= Threshold

StopsHere(c, it, u, r) == NextPending(c, it) # NoItem /\ Stops(u, r)

\* mutants: a cancel leaves the queue waiting; or writes a status of its own
Cancelled_KeepsPending(c, it) == it

Cancelled(c, it) ==
    [i \in Items |-> IF i \in Range(Queue[c]) /\ it[i] = "pending" THEN "failed" ELSE it[i]]

\* run() returns: the campaign gets its status and runnerHost lets go of it
End(c, status) ==
    /\ campaign' = [campaign EXCEPT ![c] = status]
    /\ active' = NoCampaign
    /\ runner' = Fresh
    /\ send' = [send EXCEPT ![c] = Idle]
    /\ UNCHANGED window

Cancels(c, it, r) ==
    /\ r.request = "cancel"
    /\ item' = Cancelled(c, it)
    /\ End(c, "cancelled")

Completes(c, it, u, r) ==
    /\ r.request # "cancel"
    /\ ~StopsHere(c, it, u, r)
    /\ NextPending(c, it) = NoItem
    /\ item' = it
    /\ End(c, "completed")

Pauses(c, it, u, r) ==
    /\ r.request # "cancel"
    /\ StopsHere(c, it, u, r)
    /\ item' = it
    /\ End(c, "paused")

Continues(c, it, u, r, waited) ==
    /\ r.request # "cancel"
    /\ ~StopsHere(c, it, u, r)
    /\ NextPending(c, it) # NoItem
    /\ campaign' = [campaign EXCEPT ![c] = "running"]
    /\ active' = c
    /\ \/ /\ r.fresh \/ waited
          /\ runner' = [r EXCEPT !.waiting = FALSE]
          /\ Begin(c, NextPending(c, it), it)
       \/ /\ ~r.fresh /\ ~waited
          /\ runner' = [r EXCEPT !.waiting = TRUE]
          /\ item' = it
          /\ send' = [send EXCEPT ![c] = Idle]
          /\ UNCHANGED window

Proceed(c, it, u, r, waited) ==
    \/ Cancels(c, it, r)
    \/ Completes(c, it, u, r)
    \/ Pauses(c, it, u, r)
    \/ Continues(c, it, u, r, waited)

\* campaigns:start begins and resumes alike: refused while any campaign runs
StartCampaign(c) ==
    /\ up
    /\ Overlap \/ Quiet
    /\ active = NoCampaign
    /\ campaign[c] # "none"
    /\ Proceed(c, item, used, Fresh, FALSE)
    /\ UNCHANGED <<used, up, connected, today, limits>>

\* campaigns:pause and campaigns:cancel only leave a request for the loop
Request(what) ==
    /\ active # NoCampaign
    /\ runner.request # what
    /\ runner' = [runner EXCEPT !.request = what]
    /\ UNCHANGED <<db, up, active, send, connected, window, today, limits>>

\* mutant: the completed wait is forgotten
WaitOver_Forgotten(r) == FALSE

\* the countdown ran out, or a request cut it short
WaitOver(r) == r.request = "run"

EndWait ==
    /\ active # NoCampaign
    /\ runner.waiting
    /\ Proceed(active, item, used, [runner EXCEPT !.waiting = FALSE], WaitOver(runner))
    /\ UNCHANGED <<used, up, connected, today, limits>>

-----------------------------------------------------------------------------
(* campaigns:sendOne *)

SendOne(c, valid) ==
    /\ up
    /\ Overlap \/ Quiet
    /\ campaign[c] = "none"
    /\ campaign' = [campaign EXCEPT ![c] = "draft"]
    /\ item' = Saved(c, valid)
    /\ send' = IF Queue[c][1] \in valid
               THEN [send EXCEPT ![c] = [phase |-> "connecting", item |-> Queue[c][1],
                                         clicked |-> FALSE]]
               ELSE send
    /\ UNCHANGED <<used, up, active, runner, connected, window, today, limits>>

\* the session did not become ready in 45 seconds, or asks for the QR code
SingleNotReady(c) ==
    /\ send[c].phase = "connecting"
    /\ ~connected
    /\ campaign' = [campaign EXCEPT ![c] = "failed"]
    /\ send' = [send EXCEPT ![c] = Idle]
    /\ UNCHANGED <<item, used, up, active, runner, connected, window, today, limits>>

CapReached == used >= Cap

SingleRefused(c) ==
    /\ send[c].phase = "connecting"
    /\ connected
    /\ CapReached
    /\ item' = [item EXCEPT ![send[c].item] = "failed"]
    /\ campaign' = [campaign EXCEPT ![c] = "failed"]
    /\ send' = [send EXCEPT ![c] = Idle]
    /\ UNCHANGED <<used, up, active, runner, connected, window, today, limits>>

SingleReady(c) ==
    /\ send[c].phase = "connecting"
    /\ connected
    /\ ~CapReached
    /\ Begin(c, send[c].item, item)
    /\ UNCHANGED <<campaign, used, up, active, runner, connected, today, limits>>

-----------------------------------------------------------------------------
(* MessageSender.sendOne, in the one window *)

\* Enter, or the send button: what is typed leaves, or the page ignores it
Submit ==
    \/ /\ typed
       /\ typed' = FALSE
       /\ delivered' = [delivered EXCEPT ![chat] = @ + 1]
    \/ UNCHANGED <<typed, delivered>>

PressEnter(c) ==
    /\ send[c].phase = "probing"
    /\ send' = [send EXCEPT ![c].phase = "verifying"]
    /\ Submit
    /\ UNCHANGED <<db, up, active, runner, connected, chat, today, limits>>

ClickSend(c) ==
    /\ send[c].phase = "verifying"
    /\ ~send[c].clicked
    /\ send' = [send EXCEPT ![c].clicked = TRUE]
    /\ Submit
    /\ UNCHANGED <<db, up, active, runner, connected, chat, today, limits>>

\* probeVerify: any bubble of the open chat that holds the text will do
BubbleFound(c) ==
    \E i \in Items : /\ delivered[i] > 0
                     /\ Phone[i] = Phone[chat]
                     /\ Text[i] = Text[send[c].item]

\* sendCampaignItem after its await, up to the caller's next one.  The
\* campaign of a single message ends with it, a runner goes on.
Settle(c, it, u, r, status) ==
    \/ /\ c \in Bulks
       /\ Proceed(c, it, u, [r EXCEPT !.fresh = FALSE], FALSE)
    \/ /\ c \in Singles
       /\ item' = it
       /\ campaign' = [campaign EXCEPT ![c] = status]
       /\ send' = [send EXCEPT ![c] = Idle]
       /\ UNCHANGED <<active, runner, window>>

\* mutant: recordSent is left out
Counted_Never == used

Recorded(c) == [item EXCEPT ![send[c].item] = "sent"]
Counted == used + 1

VerifyOk(c) ==
    /\ send[c].phase = "verifying"
    /\ BubbleFound(c)
    /\ used' = Counted
    /\ today' = today + 1
    /\ Settle(c, Recorded(c), used', [runner EXCEPT !.failures = 0], "completed")
    /\ UNCHANGED <<up, connected, limits>>

\* every other end of a send: a deadline (25 s for the compose box, 15 s for
\* the bubble), the QR page, a closed window, or no WhatsApp at that number;
\* the last one does not count towards the automatic stop
SendFails(c, counts) ==
    /\ Sending(c)
    /\ ~counts => send[c].phase = "probing"
    /\ Settle(c, [item EXCEPT ![send[c].item] = "failed"], used,
              [runner EXCEPT !.failures = IF counts THEN @ + 1 ELSE 0], "failed")
    /\ UNCHANGED <<used, up, connected, today, limits>>

-----------------------------------------------------------------------------
(* The world around: the session, the calendar, the process *)

Connection ==
    /\ up
    /\ connected' = ~connected
    /\ UNCHANGED <<db, up, active, runner, send, window, today, limits>>

\* a new day has no counter row yet
Midnight ==
    /\ days < MaxDays
    /\ days' = days + 1
    /\ used' = 0
    /\ today' = 0
    /\ UNCHANGED <<item, campaign, up, active, runner, send, connected, window, crashes>>

\* the process stops: only the database and what left the window remain
Down ==
    /\ up
    /\ crashes < MaxCrashes
    /\ crashes' = crashes + 1
    /\ up' = FALSE
    /\ active' = NoCampaign
    /\ runner' = Fresh
    /\ send' = [c \in Campaigns |-> Idle]
    /\ connected' = FALSE
    /\ chat' = NoItem
    /\ typed' = FALSE
    /\ UNCHANGED <<campaign, used, delivered, days>>

Crash ==
    /\ Down
    /\ UNCHANGED <<item, today>>

\* the item is marked sent and the counter raised by two commits
CrashBeforeCount(c) ==
    /\ send[c].phase = "verifying"
    /\ BubbleFound(c)
    /\ item' = Recorded(c)
    /\ today' = today + 1
    /\ Down

\* mutant: an interrupted send is retried
Reconciled_Retried == [i \in Items |-> IF item[i] = "sending" THEN "pending" ELSE item[i]]

\* reconcileStuckSending, in initDatabase
Reconciled == [i \in Items |-> IF item[i] = "sending" THEN "unknown" ELSE item[i]]

Restart ==
    /\ ~up
    /\ up' = TRUE
    /\ item' = Reconciled
    /\ UNCHANGED <<campaign, used, active, runner, send, connected, window, today, limits>>

-----------------------------------------------------------------------------
RunnerStep == \/ \E c \in Bulks : \/ \E valid \in SUBSET Range(Queue[c]) : CreateCampaign(c, valid)
                                \/ StartCampaign(c)
              \/ Request("pause")
              \/ Request("cancel")
              \/ EndWait

SingleStep(c) == \/ \E valid \in SUBSET Range(Queue[c]) : SendOne(c, valid)
                 \/ SingleNotReady(c)
                 \/ SingleRefused(c)
                 \/ SingleReady(c)

SendEnds(c) == \/ VerifyOk(c)
               \/ \E counts \in BOOLEAN : SendFails(c, counts)

SendStep(c) == \/ PressEnter(c)
               \/ ClickSend(c)
               \/ SendEnds(c)

World == \/ Connection
         \/ Midnight
         \/ Crash
         \/ Restart
         \/ \E c \in Campaigns : CrashBeforeCount(c)

Next == \/ RunnerStep
        \/ \E c \in Singles : SingleStep(c)
        \/ \E c \in Campaigns : SendStep(c)
        \/ World

\* timers fire: a countdown runs out and both deadlines of a send pass; a
\* send that waits for the session gives up after 45 seconds.  The user, the
\* network, the calendar and a restart owe nothing.
Fairness == /\ WF_vars(EndWait)
            /\ \A c \in Campaigns : WF_vars(SendEnds(c))
            /\ \A c \in Singles : WF_vars(SingleNotReady(c) \/ SingleRefused(c) \/ SingleReady(c))

Spec == Init /\ [][Next]_vars /\ Fairness

-----------------------------------------------------------------------------
(* Properties *)

\* WB-08.  A message leaves at most once, whatever crashes and resumes; an
\* item reads sent only if its message left; one whose fate was recorded, or
\* is in doubt after a crash, is never sent again.
MessageOnce == INSTANCE Outbox WITH Items <- Items, item <- item, delivered <- delivered
AtMostOnce == MessageOnce!Spec

\* WB-08.  An item that reads sent was delivered.
SentWasDelivered == \A i \in Items : item[i] = "sent" => delivered[i] > 0

\* WB-07.  A day has no more sends than the cap allows, but for the one a
\* crash may keep from being counted.
CapKept == today <= Cap + crashes

\* W-43, W-47.  A campaign that ended leaves nothing that waits or is on its way.
FinishedIsDrained ==
    \A c \in Bulks : campaign[c] \in {"completed", "cancelled"} =>
        \A i \in Range(Queue[c]) : item[i] \notin {"pending", "sending"}

\* runnerDecision: a campaign is only reported as stopped when resuming it
\* would have something to send.
PausedHasWork ==
    \A c \in Bulks : campaign[c] = "paused" => NextPending(c, item) # NoItem

\* WHATSAPP-SPEC W-43, W-47.  How a run ended tells what is left of it: nothing
\* when it completed or was cancelled, something when it only stopped. A pause, a
\* cancel, the cap and a lost connection that come together at the last item decide.
StatusTellsWork == FinishedIsDrained /\ PausedHasWork

\* runnerHost: a run comes to an end, so that no later campaign is refused
\* for ever.
RunEnds == active # NoCampaign ~> active = NoCampaign

\* W-47.  While the process runs no item stays on its way for ever.
SendSettles == \A i \in Items : item[i] = "sending" ~> item[i] # "sending" \/ ~up

=============================================================================
