-------------------------------- MODULE Desk ---------------------------------
(***************************************************************************)
(* Who works at the desk and what the window shows: Access, extended, and  *)
(* MemberRegister, ReceiptPrint, EventMessages, VowItemsPage, SetupDesk,   *)
(* SendWizard, TemplateEditor and LookupsTab, instantiated.  No two of     *)
(* them share a variable: a behaviour of one is a behaviour of all in      *)
(* which the others rest.                                                  *)
(***************************************************************************)
EXTENDS Access, Sequences

CONSTANTS
    MobileLength, MinLandline, MinForeign, MaxDigits,                \* MemberRegister
    MaxMembers, MemberNames, Texts, Codes, SheetNumbers, ImportModes,
    Receipts, Folders, Default, NoFolder, MaxPrints, MaxLoads,       \* ReceiptPrint
    Payments, MaxTold, MaxSends, MaxNotices,                         \* EventMessages
    Contents, Refused, Filters, MaxItems, MaxAsked,                  \* VowItemsPage
    SetupNames, Papers, StartNumbers, MaxIssued,                     \* SetupDesk
    Members, Bodies, Blank, Templates, OneOff, Lists, MaxWork,       \* SendWizard
    Readers, NoReader, Fields, EventFields, Unknown, Value, Dash,    \* TemplateEditor
    Letters, NoLetter, LetterNames, SeededLetters, MaxLetters, MaxPreviews,
    Tables, FirstTable, SeededValues, NewNames,                      \* LookupsTab
    MaxValues, MaxUses, MaxPresses

VARIABLES
    member, sequence, memberSetting, memberDialog,                   \* MemberRegister
    receipt, archive, folder, load, receiptDialog, job,              \* ReceiptPrint
    mode, template, mobile, payment, told, campaign,                 \* EventMessages
    requests, messageDialog, sending,
    item, request, list, draft, itemDialog,                          \* VowItemsPage
    stored, completed, next, issued, app, wizard, settingsPage,      \* SetupDesk
    login, sender, message, timer, previews, operation, sent, active, \* SendWizard
    text, editor, texts, rest, asked,                                \* TemplateEditor
    value, lookupsTab, pressed                                       \* LookupsTab

M == INSTANCE MemberRegister WITH
        Names <- MemberNames, setting <- memberSetting, dialog <- memberDialog

P == INSTANCE ReceiptPrint WITH dialog <- receiptDialog

E == INSTANCE EventMessages WITH
        MaxReceipts <- MaxTold, MaxRequests <- MaxNotices,
        receipt <- told, dialog <- messageDialog

V == INSTANCE VowItemsPage WITH MaxRequests <- MaxAsked, dialog <- itemDialog

S == INSTANCE SetupDesk WITH
        Names <- SetupNames, Numbers <- StartNumbers, MaxReceipts <- MaxIssued,
        setting <- stored, page <- settingsPage

G == INSTANCE SendWizard WITH
        wizard <- sender, draft <- message, requests <- previews, campaign <- sent

T == INSTANCE TemplateEditor WITH
        Members <- Readers, NoMember <- NoReader, Bodies <- Letters, Blank <- NoLetter,
        Names <- LetterNames, Seeded <- SeededLetters, Empty <- Dash,
        MaxTemplates <- MaxLetters, MaxRequests <- MaxPreviews,
        template <- text, templates <- texts, timer <- rest, requests <- asked

L == INSTANCE LookupsTab WITH
        Seeded <- SeededValues, MaxRequests <- MaxPresses,
        tab <- lookupsTab, asked <- pressed

ASSUME DeskBounds ==
    /\ M!LengthsGiven /\ M!RegisterBounds /\ M!CodesGiven
    /\ P!PrintBounds /\ E!MessageBounds /\ V!PageBounds /\ S!SetupGiven
    /\ G!WizardConstants /\ T!EditorConstants /\ L!ListsGiven

-----------------------------------------------------------------------------

\* Every table, draft and request of the nine modules holds what it can hold.
DeskTypeOK ==
    /\ TypeOK /\ M!TypeOK /\ P!TypeOK /\ E!TypeOK /\ V!TypeOK /\ S!TypeOK
    /\ G!TypeOK /\ T!TypeOK /\ L!TypeOK

\* The properties of the instances, stated where they are defined: no member keeps the
\* number of an earlier mobile (normalizedMobileFor, executeImport).
NumberFollowsMobile == M!NumberFollowsMobile

\* Changing a telephone keeps the name (MemberDialog, nameForSave).
PhoneEditKeepsName == M!PhoneEditKeepsName

\* What was printed has its file, marked as a copy from the second print on
\* (generateReceiptPdf, printReceipt).
PrintedIsArchived == P!PrintedIsArchived

\* The dialog shows the receipt it was opened for (ReceiptDialog).
ShownIsOpen == P!ShownIsOpen

\* A member is told once of the same money (buildNotification, sendOne).
ToldOnce == E!ToldOnce

\* At rest the list of honours (useAsync, VowItemsTab) and the list of values (LookupsTab)
\* show what the table chosen holds.
ListIsCurrent == V!ListIsCurrent /\ L!ListIsCurrent

\* The dialog saves the honour it was opened for (VowItemDialog).
SavesWhatIsOpen == V!SavesWhatIsOpen

\* An installation that is set up has its name (completeSetup, validateSettings).
NamedWhenSetUp == S!NamedWhenSetUp

\* At rest the preview is of the recipients and the text that are shown, in the wizard
\* (SendWizardDialog, prepareCampaign) and in the editor of templates (TemplatesPage).
SettledPreview == G!SettledPreview /\ T!SettledPreview

\* A campaign that runs is on the screen, unless the desk was locked (SendWizardDialog,
\* runnerHost, App).
RunningIsShown == G!RunningIsShown
=============================================================================

