----------------------------- MODULE SetupDesk ------------------------------
(***************************************************************************)
(* The settings and the two screens that write them: the wizard of the     *)
(* first start (SetupWizard.tsx, setupWizard.ts), which saves each of its  *)
(* steps and marks the installation as set up at the end, and the settings *)
(* page (SettingsPage.tsx, configuration.ts), which saves what differs     *)
(* from the values it loaded. Both work on drafts of a configuration that  *)
(* was read earlier.                                                       *)
(*                                                                         *)
(* Two settings stand for the thirty: the name of the synagogue, required  *)
(* and first in the wizard, where 0 is the empty name, and the paper of    *)
(* receipts, which the second step asks for.                               *)
(***************************************************************************)
EXTENDS Naturals, Sequences

CONSTANTS
    Names,          \* names of the synagogue; 0 is none
    Papers,         \* sizes of the paper; the seed's is 1
    Numbers,        \* receipt numbers the user may start at
    MaxReceipts     \* bound: the numbers that are issued

\* Assumed where the module is used.
SetupGiven == Numbers \subseteq Nat /\ 1 \in Papers /\ MaxReceipts \in Nat

Keys == {"name", "paper"}
Values(key) == IF key = "name" THEN Names \cup {0} ELSE Papers

\* The steps of the wizard, and what each asks for; the last is the fiscal year.
WizardSteps == <<{"name"}, {"paper"}, {}>>
Required == {"name"}

VARIABLES
    setting,    \* the stored values
    completed,  \* setup_completed_at is set
    next,       \* the receipt sequence
    issued,     \* the highest receipt number issued
    app,        \* the next number the window last loaded, and whether it asks again
    wizard,     \* the wizard: open, step, draft, the start number typed
    page        \* the settings page: open, the configuration it loaded, its draft

vars == <<setting, completed, next, issued, app, wizard, page>>
stored == <<setting, completed, next, issued>>

\* An empty database as the seed leaves it.
Seeded == [key \in Keys |-> IF key = "name" THEN 0 ELSE 1]

NoPage == [open |-> FALSE, config |-> Seeded, draft |-> Seeded, loading |-> FALSE]
NoWizard == [open |-> FALSE, step |-> 1, draft |-> Seeded, start |-> 1]

Init ==
    /\ setting = Seeded /\ completed = FALSE /\ next = 1 /\ issued = 0
    /\ app = [next |-> next, loading |-> TRUE]
    /\ wizard = NoWizard
    /\ page = NoPage

-----------------------------------------------------------------------------
(* services/configuration and services/setupWizard.                        *)

\* The wizard asks again for what is required and empty.
MissingRequired(values) == {key \in Required : values[key] = 0}

\* mutant: an empty value is accepted for every key
ValidateSettings_Lenient(patch) == \A key \in DOMAIN patch : patch[key] \in Values(key)

\* validateSettings looks at the values of the patch only.
ValidateSettings(patch) == \A key \in DOMAIN patch \cap Required : patch[key] # 0

Saved(patch) == [key \in Keys |-> IF key \in DOMAIN patch THEN patch[key] ELSE setting[key]]

MayStartAt(number) == number > issued

-----------------------------------------------------------------------------
(* The window.                                                             *)

\* configuration:get and wizardState, after the start and after every change that
\* reports itself; a fresh configuration starts an open wizard over.
LoadApp ==
    /\ app.loading
    /\ app' = [next |-> next, loading |-> FALSE]
    /\ wizard' = IF wizard.open \/ ~completed
                 THEN [open |-> TRUE, step |-> 1, draft |-> setting, start |-> next]
                 ELSE wizard
    /\ UNCHANGED <<stored, page>>

Bumped == app' = [app EXCEPT !.loading = TRUE]

\* A receipt is issued on another page, and the book's counters move.
IssueReceipt ==
    /\ ~wizard.open /\ ~page.open
    /\ next <= MaxReceipts
    /\ issued' = next /\ next' = next + 1
    /\ Bumped
    /\ UNCHANGED <<setting, completed, wizard, page>>

-----------------------------------------------------------------------------
(* The wizard, which covers the window.                                    *)

TypeInWizard ==
    /\ wizard.open
    /\ \/ \E key \in WizardSteps[wizard.step] : \E v \in Values(key) :
            wizard' = [wizard EXCEPT !.draft[key] = v]
       \/ /\ wizard.step = 2
          /\ \E n \in Numbers : wizard' = [wizard EXCEPT !.start = n]
    /\ UNCHANGED <<stored, app, page>>

WizardBack ==
    /\ wizard.open /\ wizard.step > 1
    /\ wizard' = [wizard EXCEPT !.step = @ - 1]
    /\ UNCHANGED <<stored, app, page>>

\* The step's values are saved; on the second step the start number too, when it is
\* not the one of the configuration the wizard was opened with. A refusal keeps the
\* step, with the values saved and the number not.
StartRefused == wizard.start # app.next /\ ~MayStartAt(wizard.start)

SaveStep ==
    LET keys == WizardSteps[wizard.step]
        patch == [key \in keys |-> wizard.draft[key]]
    IN  /\ wizard.open
        /\ MissingRequired([key \in Keys |-> IF key \in keys THEN wizard.draft[key] ELSE 1]) = {}
        /\ ValidateSettings(patch)
        /\ setting' = Saved(patch)
        /\ next' = IF wizard.step = 2 /\ wizard.start # app.next /\ ~StartRefused
                   THEN wizard.start ELSE next

SaveAndAdvance ==
    /\ wizard.step < Len(WizardSteps)
    /\ SaveStep
    /\ wizard' = IF wizard.step = 2 /\ StartRefused THEN wizard
                 ELSE [wizard EXCEPT !.step = @ + 1]
    /\ UNCHANGED <<completed, issued, app, page>>

\* completeSetup refuses while a required setting is empty.
CompleteSetup ==
    /\ wizard.step = Len(WizardSteps)
    /\ SaveStep
    /\ MissingRequired(setting') = {}
    /\ completed' = TRUE
    /\ wizard' = NoWizard
    /\ Bumped
    /\ UNCHANGED <<issued, page>>

-----------------------------------------------------------------------------
(* The settings page.                                                      *)

OpenPage ==
    /\ ~wizard.open /\ ~page.open
    /\ page' = [NoPage EXCEPT !.open = TRUE, !.loading = TRUE]
    /\ UNCHANGED <<stored, app, wizard>>

\* The draft starts over from what is stored, edits that were not saved included.
LoadPage ==
    /\ page.loading
    /\ page' = [page EXCEPT !.config = setting, !.draft = setting, !.loading = FALSE]
    /\ UNCHANGED <<stored, app, wizard>>

EditPage ==
    /\ page.open /\ ~wizard.open
    /\ \E key \in Keys : \E v \in Values(key) : page' = [page EXCEPT !.draft[key] = v]
    /\ UNCHANGED <<stored, app, wizard>>

SavePage ==
    LET changed == {key \in Keys : page.draft[key] # page.config[key]}
        patch == [key \in changed |-> page.draft[key]]
    IN  /\ page.open /\ ~wizard.open /\ changed # {}
        /\ ValidateSettings(patch)
        /\ setting' = Saved(patch)
        /\ page' = [page EXCEPT !.loading = TRUE]
        /\ Bumped
        /\ UNCHANGED <<completed, next, issued, wizard>>

\* The counters tab.
SetReceiptStart ==
    /\ page.open /\ ~wizard.open
    /\ \E n \in Numbers : MayStartAt(n) /\ next' = n
    /\ page' = [page EXCEPT !.loading = TRUE]
    /\ Bumped
    /\ UNCHANGED <<setting, completed, issued, wizard>>

\* The wizard is asked for again; it opens with the next load.
ReopenSetup ==
    /\ page.open /\ ~wizard.open
    /\ completed' = FALSE
    /\ UNCHANGED <<setting, next, issued, app, wizard, page>>

\* The data tab: an empty, seeded database takes the place of this one.
DeleteDatabase ==
    /\ page.open /\ ~wizard.open
    /\ setting' = Seeded /\ completed' = FALSE /\ next' = 1 /\ issued' = 0
    /\ page' = [page EXCEPT !.loading = TRUE]
    /\ Bumped
    /\ UNCHANGED wizard

LeavePage ==
    /\ page.open /\ ~wizard.open
    /\ page' = NoPage
    /\ UNCHANGED <<stored, app, wizard>>

Next ==
    \/ LoadApp \/ IssueReceipt
    \/ TypeInWizard \/ WizardBack \/ SaveAndAdvance \/ CompleteSetup
    \/ OpenPage \/ LoadPage \/ EditPage \/ SavePage \/ SetReceiptStart
    \/ ReopenSetup \/ DeleteDatabase \/ LeavePage

Spec == Init /\ [][Next]_vars

-----------------------------------------------------------------------------

TypeOK ==
    /\ \A key \in Keys : setting[key] \in Values(key)
    /\ completed \in BOOLEAN /\ next \in Nat /\ issued \in Nat
    /\ wizard.step \in 1..Len(WizardSteps) /\ wizard.open \in BOOLEAN
    /\ page.open \in BOOLEAN /\ page.loading \in BOOLEAN

\* An installation that counts as set up has the name its receipts are printed with
\* (setupWizard.ts: so that there is no configured system that prints empty receipts),
\* through every later change on the settings page and every deletion of the data.
NamedWhenSetUp == completed => MissingRequired(setting) = {}
=============================================================================
