----------------------------- MODULE SendWizard ------------------------------
(***************************************************************************)
(* The wizard that sends a message to chosen members                       *)
(* (SendWizardDialog.tsx, opened by MembersPage.tsx): recipients, message, *)
(* connection, progress. The main process renders the messages whenever    *)
(* the recipients or the text change (prepareCampaign, after 250 ms of     *)
(* rest), saves the campaign before it is sent (createCampaign), and runs  *)
(* it (runnerHost; CampaignEngine has the sending itself). The lock after  *)
(* minutes of rest takes the whole page down, the wizard with it (App.tsx).*)
(*                                                                         *)
(* Requests that only read are answered in the order they were made; what  *)
(* the buttons start is one operation at a time. The name of the campaign, *)
(* errors and the details of items are left out. A preview is the members, *)
(* the text and the template it was rendered from.                         *)
(***************************************************************************)
EXTENDS Integers, Sequences

CONSTANTS
    Members,
    Bodies, Blank,  \* texts, and the empty one
    Templates,      \* ids of templates
    OneOff,         \* a text of no template
    Lists,          \* what templates:list may answer: sequences of [id, body]
    MaxWork         \* bound: campaigns created and requests under way, together

\* Assumed where the module is used.
WizardConstants ==
    /\ Blank \in Bodies
    /\ OneOff \notin Templates
    /\ \A list \in Lists : list \in Seq([id : Templates, body : Bodies])

VARIABLES
    login,      \* users sign in, and the desk locks itself
    wizard,     \* the dialog: open, step, busy, its campaign, the phase it shows
    draft,      \* what is being prepared: templates, template, text, recipients, preview
    timer,      \* the 250 ms of rest are running
    requests,   \* reads under way
    operation,  \* what a button started: its stage, and the preview it took
    campaign,   \* message_campaign: the status of each
    active      \* runnerHost: the campaign that runs (0: none) and the request to it

vars == <<login, wizard, draft, timer, requests, operation, campaign, active>>

TemplateIds == Templates \cup {OneOff}
Preview == [ids : SUBSET Members, body : Bodies, templateId : TemplateIds]
NoPreview == [ids |-> {}, body |-> Blank, templateId |-> OneOff]

Phases == {"none", "running", "completed", "cancelled", "paused"}
Stages == {"idle", "draft", "create", "get", "starting", "running", "final"}

Mounted == [open |-> FALSE, step |-> 0, busy |-> FALSE, campaignId |-> 0, phase |-> "none"]
NoDraft == [templates |-> <<>>, templateId |-> OneOff, body |-> Blank,
            ids |-> {}, removed |-> {}, prepared |-> NoPreview]
Idle == [stage |-> "idle", prepared |-> NoPreview]
NoRun == [id |-> 0, request |-> "run"]

Init ==
    /\ login \in BOOLEAN
    /\ wizard = Mounted
    /\ draft = NoDraft
    /\ timer = FALSE
    /\ requests = <<>>
    /\ operation = Idle
    /\ campaign = <<>>
    /\ active = NoRun

-----------------------------------------------------------------------------
(* The draft and its preview.                                              *)

ActiveIds(d) == d.ids \ d.removed

\* What the draft d should be previewed as.
Rendering(d) == [ids |-> ActiveIds(d), body |-> d.body, templateId |-> d.templateId]

Request(kind, p) == [kind |-> kind, preview |-> p]

\* mutant: taking a recipient off renders nothing anew
Watched_TextOnly(w, d) == <<w.open, d.body, d.templateId>>

\* What the rendering depends on.
Watched(w, d) == <<w.open, ActiveIds(d), d.body, d.templateId>>

\* The dialog becomes w and its draft d; the effect runs when what it watches changed.
Becomes(w, d) ==
    /\ wizard' = w
    /\ IF Watched(w, d) = Watched(wizard, draft)
       THEN draft' = d /\ timer' = timer
       ELSE IF w.open /\ ActiveIds(d) # {}
       THEN draft' = d /\ timer' = TRUE
       ELSE draft' = [d EXCEPT !.prepared = NoPreview] /\ timer' = FALSE

\* The page opens the dialog on the selected members; the text of the last time is
\* there until the templates are.
Open ==
    /\ ~wizard.open
    /\ Len(requests) + Len(campaign) < MaxWork
    /\ \E ids \in SUBSET Members \ {{}} :
          Becomes([wizard EXCEPT !.open = TRUE],
                  [draft EXCEPT !.ids = ids, !.prepared = NoPreview])
    /\ requests' = Append(requests, Request("list", NoPreview))
    /\ UNCHANGED <<login, operation, campaign, active>>

\* templates:list is answered: the first template is taken, or a text of no template.
ListAnswered ==
    /\ requests # <<>> /\ Head(requests).kind = "list"
    /\ requests' = Tail(requests)
    /\ \E list \in Lists :
          Becomes(wizard,
                  [draft EXCEPT !.templates = list,
                                !.templateId = IF list = <<>> THEN OneOff ELSE list[1].id,
                                !.body = IF list = <<>> THEN Blank ELSE list[1].body])
    /\ UNCHANGED <<login, operation, campaign, active>>

\* The rest is over: campaigns:prepare is asked for what is shown now.
TimerFires ==
    /\ timer
    /\ Len(requests) + Len(campaign) < MaxWork
    /\ timer' = FALSE
    /\ requests' = Append(requests, Request("prepare", Rendering(draft)))
    /\ UNCHANGED <<login, wizard, draft, operation, campaign, active>>

\* prepareCampaign's answer is shown, whatever was changed since.
PrepareAnswered ==
    /\ requests # <<>> /\ Head(requests).kind = "prepare"
    /\ requests' = Tail(requests)
    /\ draft' = [draft EXCEPT !.prepared = Head(requests).preview]
    /\ UNCHANGED <<login, wizard, timer, operation, campaign, active>>

At(step) == wizard.open /\ wizard.step = step

\* A row of the preview is taken off.
Remove ==
    /\ At(0)
    /\ \E m \in draft.prepared.ids :
          Becomes(wizard, [draft EXCEPT !.removed = @ \cup {m}])
    /\ UNCHANGED <<login, requests, operation, campaign, active>>

BodyOf(id) ==
    LET of == {i \in DOMAIN draft.templates : draft.templates[i].id = id}
    IN  IF of = {} THEN Blank ELSE draft.templates[CHOOSE i \in of : TRUE].body

ChooseTemplate ==
    /\ At(1)
    /\ \E id \in {draft.templates[i].id : i \in DOMAIN draft.templates} \cup {OneOff} :
          Becomes(wizard, [draft EXCEPT !.templateId = id,
                                        !.body = IF id = OneOff THEN Blank ELSE BodyOf(id)])
    /\ UNCHANGED <<login, requests, operation, campaign, active>>

Type ==
    /\ At(1)
    /\ \E body \in Bodies : Becomes(wizard, [draft EXCEPT !.body = body])
    /\ UNCHANGED <<login, requests, operation, campaign, active>>

NextStep ==
    /\ \/ At(0) /\ draft.prepared.ids # {}
       \/ At(1) /\ draft.prepared # NoPreview /\ draft.body # Blank
    /\ ~wizard.busy
    /\ wizard' = [wizard EXCEPT !.step = @ + 1]
    /\ UNCHANGED <<login, draft, timer, requests, operation, campaign, active>>

Back ==
    /\ At(1) \/ At(2)
    /\ ~wizard.busy
    /\ wizard' = [wizard EXCEPT !.step = @ - 1]
    /\ UNCHANGED <<login, draft, timer, requests, operation, campaign, active>>

\* mutant: also while an operation is under way
MayClose_Always == wizard.open

\* The buttons, Esc and a click beside the dialog.
MayClose == wizard.open /\ ~wizard.busy

\* What a closed dialog keeps, and nothing reads before it is set anew, is left out: the
\* step, the recipients and its campaign. The text, the template and the phase it keeps.
Closed == [Mounted EXCEPT !.phase = wizard.phase]
Put == [draft EXCEPT !.ids = {}, !.removed = {}]

Close ==
    /\ MayClose
    /\ Becomes(Closed, Put)
    /\ UNCHANGED <<login, requests, operation, campaign, active>>

-----------------------------------------------------------------------------
(* Saving and sending.                                                     *)

\* Save for later, and start, which needs the chat to be ready.
Save(stage) ==
    /\ At(2)
    /\ ~wizard.busy
    /\ draft.prepared # NoPreview
    /\ Len(requests) + Len(campaign) < MaxWork
    /\ wizard' = [wizard EXCEPT !.busy = TRUE]
    /\ operation' = [stage |-> stage, prepared |-> draft.prepared]
    /\ UNCHANGED <<login, draft, timer, requests, campaign, active>>

SaveDraft == Save("draft")
StartSending == Save("create")

\* createCampaign, of the items of the preview that was taken.
Created ==
    /\ campaign' = Append(campaign, "draft")
    /\ UNCHANGED <<login, requests, active>>

\* A saved draft closes the dialog, and the page clears its selection.
DraftSaved ==
    /\ operation.stage = "draft"
    /\ Created
    /\ operation' = Idle
    /\ Becomes(Closed, Put)

CampaignCreated ==
    /\ operation.stage = "create"
    /\ Created
    /\ operation' = [Idle EXCEPT !.stage = "get"]
    /\ wizard' = [wizard EXCEPT !.campaignId = Len(campaign) + 1]
    /\ UNCHANGED <<draft, timer>>

\* The campaign was read back: the last step is shown and campaigns:start is called.
CampaignRead ==
    /\ operation.stage = "get"
    /\ operation' = [operation EXCEPT !.stage = "starting"]
    /\ wizard' = [wizard EXCEPT !.step = 3]
    /\ UNCHANGED <<login, draft, timer, requests, campaign, active>>

\* Continue, after a pause or an error.
Resume ==
    /\ At(3)
    /\ ~wizard.busy
    /\ wizard.campaignId # 0
    /\ wizard.phase \in {"none", "paused"}
    /\ wizard' = [wizard EXCEPT !.busy = TRUE]
    /\ operation' = [Idle EXCEPT !.stage = "starting"]
    /\ UNCHANGED <<login, draft, timer, requests, campaign, active>>

\* startCampaign: refused while another campaign runs.
StartCampaign ==
    /\ operation.stage = "starting"
    /\ active.id = 0
    /\ active' = [id |-> wizard.campaignId, request |-> "run"]
    /\ campaign' = [campaign EXCEPT ![wizard.campaignId] = "running"]
    /\ operation' = [operation EXCEPT !.stage = "running"]
    /\ UNCHANGED <<login, wizard, draft, timer, requests>>

StartRefused ==
    /\ operation.stage = "starting"
    /\ active.id # 0
    /\ operation' = Idle
    /\ wizard' = [wizard EXCEPT !.busy = FALSE]
    /\ UNCHANGED <<login, draft, timer, requests, campaign, active>>

\* The campaign's progress, of whichever campaign it is, reaches an open dialog.
Shown(phase) ==
    wizard' = IF wizard.open THEN [wizard EXCEPT !.phase = phase] ELSE wizard

Progress ==
    /\ active.id # 0
    /\ Shown("running")
    /\ UNCHANGED <<login, draft, timer, requests, operation, campaign, active>>

\* The runner ends: cancelled, drained, or stopped by a pause, the cap, the connection.
RunnerEnds ==
    /\ active.id # 0
    /\ \E phase \in IF active.request = "cancel" THEN {"cancelled"} ELSE {"completed", "paused"} :
          /\ Shown(phase)
          /\ campaign' = [campaign EXCEPT ![active.id] = phase]
    /\ active' = NoRun
    /\ operation' = IF operation.stage = "running" THEN [operation EXCEPT !.stage = "final"]
                    ELSE operation
    /\ UNCHANGED <<login, draft, timer, requests>>

\* campaigns:start was answered and the campaign read once more.
FinalRead ==
    /\ operation.stage = "final"
    /\ operation' = Idle
    /\ wizard' = [wizard EXCEPT !.busy = FALSE]
    /\ UNCHANGED <<login, draft, timer, requests, campaign, active>>

\* The buttons for pause and cancel are there while the shown phase is "running"; they
\* are about the campaign that runs, whichever it is.
Ask(request) ==
    /\ At(3) /\ wizard.phase = "running"
    /\ active' = IF active.id = 0 THEN active ELSE [active EXCEPT !.request = request]
    /\ UNCHANGED <<login, wizard, draft, timer, requests, operation, campaign>>

Pause == Ask("pause")
Cancel == Ask("cancel")

\* Minutes without a key: nothing is under way but a campaign. The screen for signing in
\* replaces the pages; after it they start anew.
Lock ==
    /\ login
    /\ requests = <<>> /\ ~timer /\ operation.stage \in {"idle", "running"}
    /\ wizard' = Mounted
    /\ draft' = NoDraft
    /\ operation' = Idle
    /\ UNCHANGED <<login, timer, requests, campaign, active>>

Edit == Open \/ Remove \/ ChooseTemplate \/ Type \/ NextStep \/ Back \/ Close
Answer == ListAnswered \/ TimerFires \/ PrepareAnswered
Send == SaveDraft \/ DraftSaved \/ StartSending \/ CampaignCreated \/ CampaignRead \/ Resume
            \/ FinalRead \/ Pause \/ Cancel
Run == StartCampaign \/ StartRefused \/ Progress \/ RunnerEnds

Next == Edit \/ Answer \/ Send \/ Run \/ Lock

Spec == Init /\ [][Next]_vars

-----------------------------------------------------------------------------
(* Properties.                                                             *)

TypeOK ==
    /\ login \in BOOLEAN
    /\ campaign \in Seq({"draft", "running", "completed", "cancelled", "paused"})
    /\ wizard \in [open : BOOLEAN, step : 0..3, busy : BOOLEAN,
                   campaignId : 0..Len(campaign), phase : Phases]
    /\ draft \in [templates : Seq([id : Templates, body : Bodies]), templateId : TemplateIds,
                  body : Bodies, ids : SUBSET Members, removed : SUBSET Members,
                  prepared : Preview]
    /\ timer \in BOOLEAN
    /\ requests \in Seq([kind : {"list", "prepare"}, preview : Preview])
    /\ operation \in [stage : Stages, prepared : Preview]
    /\ active \in [id : 0..Len(campaign), request : {"run", "pause", "cancel"}]

\* W-32.  Once the dialog is at rest, the preview is of what it shows: of these
\* recipients, of this text, of this template. (A preview that was asked for before the
\* last recipient was taken off still comes back: then there is nothing to compare.)
SettledPreview ==
    /\ wizard.open /\ ActiveIds(draft) # {} /\ ~timer
    /\ \A i \in DOMAIN requests : requests[i].kind # "prepare"
    => draft.prepared = Rendering(draft)

\* W-38.  A campaign that runs is on the screen, in the dialog that cannot be closed or
\* moved back while it runs, and is the one the dialog is about: for as long as the desk
\* was not locked since it was started. (After a lock the campaign runs on, and no screen
\* shows it: WHATSAPP-SPEC.md:185 wants it paused.)
RunningIsShown ==
    active.id # 0 /\ (~login \/ operation.stage = "running") =>
        /\ wizard.open /\ wizard.busy /\ wizard.step = 3
        /\ wizard.campaignId = active.id
=============================================================================
