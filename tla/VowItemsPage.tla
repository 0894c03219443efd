---------------------------- MODULE VowItemsPage ----------------------------
(***************************************************************************)
(* A page of the window and the main process behind it: VowItemsTab, its   *)
(* list loaded through hooks/useAsync, its dialog VowItemDialog and the    *)
(* saves it asks for.                                                      *)
(*                                                                         *)
(* Every request is handled in the main process at one moment and answered *)
(* at a later one; answers may come in any order.  Another change of the   *)
(* filter, or a save, asks for the list anew while older answers are still *)
(* under way.  The dialog stays mounted: its own copy of the draft is taken *)
(* over only when the id of the draft differs from the one it took last.   *)
(*                                                                         *)
(* Abstracted: an item is one content, a filter the contents it lets pass; *)
(* deleting items is in VowCatalog.                                        *)
(***************************************************************************)
EXTENDS Naturals, Sequences, FiniteSets

CONSTANTS
    Contents,     \* contents an item may be given
    Refused,      \* those validate refuses
    Filters,      \* sets of contents the list may be filtered to
    MaxItems,     \* bound: rows of vow_item
    MaxRequests   \* bound: requests in all

\* What the instances assume of these.
PageBounds ==
    /\ MaxItems \in Nat /\ MaxRequests \in Nat \ {0}
    /\ Refused \subseteq Contents /\ \A f \in Filters : f \subseteq Contents

VARIABLES
    item,      \* vow_item: the contents, by id
    request,   \* every request made: handled yet, and what was answered
    list,      \* useAsync: the filter, the request it waits for, data, loading
    draft,     \* the tab's draft: none, or an id (0 for a new item) and its content
    dialog     \* VowItemDialog: key (the id it took last) and its local copy

vars == <<item, request, list, draft, dialog>>

Empty == "empty"           \* emptyDraft: a new item without a name
Ids == DOMAIN item
Closed == [open |-> FALSE, id |-> 0, content |-> Empty]
None == <<>>

Listed(filter) == {<<i, item[i]>> : i \in {j \in Ids : item[j] \in filter}}

\* the table, the requests and the parts of the page hold what they may
TypeOK ==
    /\ item \in Seq(Contents) /\ Len(item) <= MaxItems
    /\ Len(request) <= MaxRequests
    /\ \A r \in DOMAIN request : request[r].kind \in {"list", "save", "none"}
                                 /\ request[r].at \in {"sent", "answered", "done"}
    /\ list.filter \in Filters /\ list.loading \in BOOLEAN /\ list.wants \in DOMAIN request
    /\ draft.open \in BOOLEAN /\ draft.id \in {0} \cup Ids
    /\ draft.content \in Contents \cup {Empty}
    /\ dialog.local.id \in {0} \cup Ids

ListRequest(filter) == [kind |-> "list", at |-> "sent", filter |-> filter, answer |-> {}]
SaveRequest(id, content, closes) ==
    [kind |-> "save", at |-> "sent", id |-> id, content |-> content, closes |-> closes,
     answer |-> "none"]
Done == [kind |-> "none", at |-> "done"]

Init ==
    /\ item = <<>>
    /\ list \in [filter : Filters, wants : {1}, loading : {TRUE}, data : {{}}]
    /\ request = <<ListRequest(list.filter)>>
    /\ draft = Closed
    /\ dialog = [key |-> None, local |-> Closed]

MayAsk(n) == Len(request) + n <= MaxRequests

-----------------------------------------------------------------------------
(* The main process handles a request at once.                             *)

HandleList ==
    \E r \in DOMAIN request :
        /\ request[r].kind = "list" /\ request[r].at = "sent"
        /\ request' = [request EXCEPT ![r].at = "answered",
                                      ![r].answer = Listed(request[r].filter)]
        /\ UNCHANGED <<item, list, draft, dialog>>

\* createVowItem or updateVowItem
HandleSave ==
    \E r \in DOMAIN request :
        LET q == request[r]
            accepted == q.content \notin Refused
        IN  /\ q.kind = "save" /\ q.at = "sent"
            /\ accepted /\ q.id = 0 => Len(item) < MaxItems
            /\ item' = IF ~accepted THEN item
                       ELSE IF q.id = 0 THEN Append(item, q.content)
                       ELSE [item EXCEPT ![q.id] = q.content]
            /\ request' = [request EXCEPT ![r].at = "answered",
                                          ![r].answer = IF accepted THEN "ok" ELSE "refused"]
            /\ UNCHANGED <<list, draft, dialog>>

-----------------------------------------------------------------------------
(* useAsync: asking anew cancels what was asked before.                    *)

Ask(filter, requests) ==
    /\ list' = [list EXCEPT !.filter = filter, !.loading = TRUE, !.wants = Len(requests) + 1]
    /\ request' = Append(requests, ListRequest(filter))

SetFilter ==
    \E f \in Filters :
        /\ f # list.filter /\ MayAsk(1)
        /\ Ask(f, request)
        /\ UNCHANGED <<item, draft, dialog>>

\* mutant: every answer is taken
DeliverList_Any ==
    \E r \in DOMAIN request :
        /\ request[r].kind = "list" /\ request[r].at = "answered"
        /\ request' = [request EXCEPT ![r] = Done]
        /\ list' = [list EXCEPT !.data = request[r].answer, !.loading = FALSE]
        /\ UNCHANGED <<item, draft, dialog>>

\* only the answer that was asked for last is taken
DeliverList ==
    \E r \in DOMAIN request :
        /\ request[r].kind = "list" /\ request[r].at = "answered"
        /\ request' = [request EXCEPT ![r] = Done]
        /\ list' = IF r = list.wants
                   THEN [list EXCEPT !.data = request[r].answer, !.loading = FALSE]
                   ELSE list
        /\ UNCHANGED <<item, draft, dialog>>

-----------------------------------------------------------------------------
(* The tab and its dialog.                                                 *)
\* mutant: the local copy is made once
Opened_Once(d) ==
    /\ draft' = d
    /\ dialog' = IF dialog.key # None THEN dialog ELSE [key |-> <<d.id>>, local |-> d]

\* the dialog renders with the new draft
Opened(d) ==
    /\ draft' = d
    /\ dialog' = IF dialog.key = <<d.id>> THEN dialog ELSE [key |-> <<d.id>>, local |-> d]

Add ==
    /\ ~draft.open
    /\ Opened([open |-> TRUE, id |-> 0, content |-> Empty])
    /\ UNCHANGED <<item, request, list>>

Edit ==
    \E row \in list.data :
        /\ ~draft.open
        /\ Opened([open |-> TRUE, id |-> row[1], content |-> row[2]])
        /\ UNCHANGED <<item, request, list>>

Type ==
    \E content \in Contents :
        /\ draft.open
        /\ dialog' = [dialog EXCEPT !.local.content = content]
        /\ UNCHANGED <<item, request, list, draft>>

Cancel ==
    /\ draft.open
    /\ draft' = Closed
    /\ UNCHANGED <<item, request, list, dialog>>

\* the button is not disabled while a save is under way
Save ==
    /\ draft.open /\ dialog.local.content # Empty /\ MayAsk(2)
    /\ request' = Append(request, SaveRequest(dialog.local.id, dialog.local.content, TRUE))
    /\ UNCHANGED <<item, list, draft, dialog>>

\* a copy of what the dialog shows, with the changes that were not saved
DuplicateShown ==
    /\ draft.open /\ dialog.local.id # 0 /\ MayAsk(2)
    /\ request' = Append(request, SaveRequest(0, dialog.local.content, TRUE))
    /\ UNCHANGED <<item, list, draft, dialog>>

DuplicateRow ==
    \E row \in list.data :
        /\ ~draft.open /\ MayAsk(2)
        /\ request' = Append(request, SaveRequest(0, row[2], FALSE))
        /\ UNCHANGED <<item, list, draft, dialog>>

\* run: the dialog closes and the list is asked for, or the error is shown and
\* both stay
DeliverSave ==
    \E r \in DOMAIN request :
        /\ request[r].kind = "save" /\ request[r].at = "answered"
        /\ LET done == [request EXCEPT ![r] = Done]
           IN  IF request[r].answer = "ok"
               THEN /\ MayAsk(1) /\ Ask(list.filter, done)
                    /\ draft' = IF request[r].closes THEN Closed ELSE draft
               ELSE request' = done /\ UNCHANGED <<list, draft>>
        /\ UNCHANGED <<item, dialog>>

Next ==
    \/ HandleList \/ HandleSave \/ SetFilter \/ DeliverList
    \/ Add \/ Edit \/ Type \/ Cancel \/ Save \/ DuplicateShown \/ DuplicateRow
    \/ DeliverSave

Spec == Init /\ [][Next]_vars

-----------------------------------------------------------------------------
(* Properties.                                                             *)

Saving == \E r \in DOMAIN request : request[r].kind = "save" /\ request[r].at # "done"

\* Once nothing is being saved and the list does not say it is loading, it shows
\* what the table holds for the filter that is chosen: no late answer to an older
\* filter, or from before the last save, is left on the screen
ListIsCurrent == ~Saving /\ ~list.loading => list.data = Listed(list.filter)

\* The dialog saves to the item it was opened for, however many were opened,
\* cancelled and reopened before, and whatever was answered meanwhile
SavesWhatIsOpen == draft.open => dialog.local.id = draft.id

=============================================================================
