---------------------------- MODULE EventMessages ---------------------------
(***************************************************************************)
(* Messages about money: after a payment is recorded or a receipt issued   *)
(* the page offers a message to the member (useEventNotification), the     *)
(* main process decides whether there is one (buildNotification and        *)
(* decideNotify) and the dialog sends it (SendOneDialog,                   *)
(* campaigns:sendOne). The draft is built when it is offered and the       *)
(* campaign that marks the record as notified exists only once the user    *)
(* has pressed send.                                                       *)
(*                                                                         *)
(* The screen's requests are answered in order; only sending takes time.   *)
(* An open dialog covers the page, so what the page does needs it closed.  *)
(***************************************************************************)
EXTENDS Naturals, Sequences

CONSTANTS
    Payments,     \* payments that may be recorded
    MaxReceipts,  \* receipts that may be issued
    MaxSends,     \* messages that may be sent
    MaxRequests   \* requests under way

\* Assumed where the module is used.
MessageBounds == {MaxReceipts, MaxSends, MaxRequests} \subseteq Nat

Kinds == {"payment", "receipt"}
\* The settings table offers "auto" too, disabled.
NotifyModes == {"off", "ask"}

NoDraft == [kind |-> "none"]

VARIABLES
    mode,       \* whatsapp_notify_payment and _receipt
    template,   \* kinds that have an active template
    mobile,     \* the member's mobile is valid
    payment,    \* status of each payment
    receipt,    \* issued receipts: their payment, and whether they are in force
    campaign,   \* message_campaign rows with a trigger
    requests,   \* of the screen, not answered
    dialog,     \* the draft shown, and whether it is being sent
    sending     \* the campaign being sent, or 0

vars == <<mode, template, mobile, payment, receipt, campaign, requests, dialog, sending>>
book == <<payment, receipt>>
world == <<mode, template, mobile>>

Init ==
    /\ mode \in [Kinds -> NotifyModes]
    /\ template \in SUBSET Kinds
    /\ mobile \in BOOLEAN
    /\ payment = [p \in Payments |-> "none"]
    /\ receipt = <<>>
    /\ campaign = <<>>
    /\ requests = <<>>
    /\ dialog = [draft |-> NoDraft, busy |-> FALSE]
    /\ sending = 0

Ref(kind, id) == [kind |-> kind, id |-> id]
Receipted(p) == \E r \in DOMAIN receipt : receipt[r].payment = p /\ receipt[r].live

Ask(request) ==
    /\ Len(requests) < MaxRequests
    /\ requests' = Append(requests, request)

Offer(kind, id, force) == Ask([what |-> "draft", kind |-> kind, id |-> id, force |-> force])

\* The page is not covered by the dialog.
PageFree == dialog.draft = NoDraft

-----------------------------------------------------------------------------
(* The pages.                                                              *)

\* One button may record the payment and issue its receipt: one event, the payment's.
MergeEvents(paymentCreated, receiptIssued) ==
    IF paymentCreated THEN "payment" ELSE IF receiptIssued THEN "receipt" ELSE "none"

RecordPayment(p, withReceipt) ==
    /\ PageFree /\ payment[p] = "none"
    /\ payment' = [payment EXCEPT ![p] = "recorded"]
    /\ withReceipt => Len(receipt) < MaxReceipts
    /\ receipt' = IF withReceipt THEN Append(receipt, [payment |-> p, live |-> TRUE]) ELSE receipt
    /\ Offer(MergeEvents(TRUE, withReceipt), p, FALSE)
    /\ UNCHANGED <<world, campaign, dialog, sending>>

IssueReceipt(p) ==
    /\ PageFree /\ payment[p] = "recorded" /\ ~Receipted(p)
    /\ Len(receipt) < MaxReceipts
    /\ receipt' = Append(receipt, [payment |-> p, live |-> TRUE])
    /\ Offer(MergeEvents(FALSE, TRUE), Len(receipt'), FALSE)
    /\ UNCHANGED <<world, payment, campaign, dialog, sending>>

CancelReceipt(r) ==
    /\ PageFree /\ r \in DOMAIN receipt /\ receipt[r].live
    /\ receipt' = [receipt EXCEPT ![r].live = FALSE]
    /\ UNCHANGED <<world, payment, campaign, requests, dialog, sending>>

DeletePayment(p) ==
    /\ PageFree /\ payment[p] = "recorded" /\ ~Receipted(p)
    /\ payment' = [payment EXCEPT ![p] = "deleted"]
    /\ UNCHANGED <<world, receipt, campaign, requests, dialog, sending>>

\* Settings, templates and the member's card, on other pages.
Change ==
    /\ PageFree
    /\ \/ \E kind \in Kinds, m \in NotifyModes : mode' = [mode EXCEPT ![kind] = m]
          /\ UNCHANGED <<template, mobile>>
       \/ template' \in SUBSET Kinds /\ UNCHANGED <<mode, mobile>>
       \/ mobile' = ~mobile /\ UNCHANGED <<mode, template>>
    /\ UNCHANGED <<book, campaign, requests, dialog, sending>>

-----------------------------------------------------------------------------
(* The main process.                                                       *)
\* mutant: a receipt does not know of the message about its payment
Facts_NotCovered(kind, id) ==
    [found |-> IF kind = "payment" THEN payment[id] = "recorded" ELSE receipt[id].live,
     covered |-> {}]

\* What the record says, or nothing when it is deleted or cancelled; a receipt is
\* covered by a message about the payment it was issued for.
Facts(kind, id) ==
    IF kind = "payment"
    THEN [found |-> payment[id] = "recorded", covered |-> {}]
    ELSE [found |-> receipt[id].live, covered |-> {Ref("payment", receipt[id].payment)}]

AlreadySent(refs) == \E c \in DOMAIN campaign : campaign[c].ref \in refs

\* decideNotify, in its order: a refusal is silent or a line of text, never a message.
Decision(kind, id, force) ==
    LET facts == Facts(kind, id) IN
    IF ~force /\ mode[kind] = "off" THEN "off"
    ELSE IF ~facts.found THEN "no_member"
    ELSE IF ~force /\ AlreadySent({Ref(kind, id)} \cup facts.covered) THEN "already_sent"
    ELSE IF kind \notin template THEN "no_template"
    ELSE IF ~mobile THEN "no_mobile"
    ELSE "ask"

\* notifySendability: the row's icon asks for the decision without making a draft. The
\* card asks when it opens and when its rows change, and what else the decision takes is
\* changed on other pages, so the icon's answer is the present one.
Sendable(kind, id) == Decision(kind, id, TRUE) = "ask"

\* The "send a message" icon of a row, disabled when there is nothing to send.
ForceOffer(p) ==
    /\ PageFree /\ payment[p] = "recorded"
    /\ Sendable("payment", p)
    /\ Offer("payment", p, TRUE)
    /\ UNCHANGED <<world, book, campaign, dialog, sending>>

Request == Head(requests)

\* notifications:draft; a draft makes the screen fetch its member before it opens.
BuildNotification ==
    /\ requests # <<>> /\ Request.what = "draft"
    /\ requests' =
        IF Decision(Request.kind, Request.id, Request.force) = "ask"
        THEN Append(Tail(requests), [Request EXCEPT !.what = "member"])
        ELSE Tail(requests)
    /\ UNCHANGED <<world, book, campaign, dialog, sending>>

\* members:get; the draft is shown now, in place of whatever the dialog showed.
ShowDraft ==
    /\ requests # <<>> /\ Request.what = "member"
    /\ requests' = Tail(requests)
    /\ dialog' = [dialog EXCEPT !.draft = [kind |-> Request.kind, id |-> Request.id,
                                           force |-> Request.force]]
    /\ UNCHANGED <<world, book, campaign, sending>>

\* campaigns:sendOne begins: the campaign exists from here on, with the trigger, even
\* when the member has no valid number and nothing is sent.
BeginSend ==
    /\ requests # <<>> /\ Request.what = "send"
    /\ requests' = Tail(requests)
    /\ campaign' = Append(campaign, [ref |-> Ref(Request.kind, Request.id),
                                     force |-> Request.force, ok |-> FALSE])
    /\ sending' = IF mobile THEN Len(campaign') ELSE 0
    /\ dialog' = IF mobile THEN dialog ELSE [dialog EXCEPT !.busy = FALSE]
    /\ UNCHANGED <<world, book>>

\* The message left, or it did not: no session, or the sender gave up. Loading the
\* chat and waiting for the bubble takes seconds, and the main process answers what was
\* asked in the meantime, so the replies under way come first.
EndSend(ok) ==
    /\ sending # 0 /\ requests = <<>>
    /\ sending' = 0
    /\ campaign' = [campaign EXCEPT ![sending].ok = ok]
    /\ dialog' = [draft |-> IF ok THEN NoDraft ELSE dialog.draft, busy |-> FALSE]
    /\ UNCHANGED <<world, book, requests>>

-----------------------------------------------------------------------------
(* The dialog.                                                             *)

\* The button wants the mobile the dialog was opened with; it cannot change under the
\* open dialog, so the main process finds it valid too.
Send ==
    /\ dialog.draft # NoDraft /\ ~dialog.busy /\ mobile
    /\ Len(campaign) < MaxSends
    /\ Ask([what |-> "send", kind |-> dialog.draft.kind, id |-> dialog.draft.id,
            force |-> dialog.draft.force])
    /\ dialog' = [dialog EXCEPT !.busy = TRUE]
    /\ UNCHANGED <<world, book, campaign, sending>>

CloseDialog ==
    /\ dialog.draft # NoDraft /\ ~dialog.busy
    /\ dialog' = [dialog EXCEPT !.draft = NoDraft]
    /\ UNCHANGED <<world, book, campaign, requests, sending>>

Next ==
    \/ \E p \in Payments :
        \/ \E withReceipt \in BOOLEAN : RecordPayment(p, withReceipt)
        \/ IssueReceipt(p) \/ DeletePayment(p) \/ ForceOffer(p)
    \/ \E r \in 1..MaxReceipts : CancelReceipt(r)
    \/ Change \/ BuildNotification \/ ShowDraft \/ BeginSend
    \/ \E ok \in BOOLEAN : EndSend(ok)
    \/ Send \/ CloseDialog

Spec == Init /\ [][Next]_vars

-----------------------------------------------------------------------------

TypeOK ==
    /\ mode \in [Kinds -> NotifyModes] /\ template \subseteq Kinds /\ mobile \in BOOLEAN
    /\ payment \in [Payments -> {"none", "recorded", "deleted"}]
    /\ \A r \in DOMAIN receipt : receipt[r].payment \in Payments
    /\ Len(receipt) <= MaxReceipts /\ Len(campaign) <= MaxSends
    /\ Len(requests) <= MaxRequests
    /\ dialog.busy \in BOOLEAN /\ sending \in 0..MaxSends

\* Two messages that tell the member of the same money.
SameMoney(a, b) ==
    \/ a = b
    \/ /\ a.kind = "payment" /\ b.kind = "receipt"
       /\ receipt[b.id].payment = a.id

\* One action, one message (WB-12, W-86): unless the user asks for it on the row, a
\* member is never told twice of one payment, by two messages about the payment or by
\* one about it and one about a receipt issued for it, although the check runs when a
\* draft is built and the mark is written when a message is sent.
ToldOnce ==
    \A i, j \in DOMAIN campaign :
        /\ i # j
        /\ campaign[i].ok /\ ~campaign[i].force
        /\ campaign[j].ok /\ ~campaign[j].force
        => ~SameMoney(campaign[i].ref, campaign[j].ref)
=============================================================================
