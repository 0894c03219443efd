------------------------------- MODULE PageProofs -------------------------------
(***************************************************************************)
(* Theorems about the parts of Desk that are pages with a list or a        *)
(* preview of their own: the honours (VowItemsPage), the lists of values   *)
(* (LookupsTab), the editor of templates (TemplateEditor) and the wizard   *)
(* of campaigns (SendWizard, through its own proofs).  On all of them a    *)
(* late answer meets a page that has moved on.                             *)
(***************************************************************************)
EXTENDS Desk, SequenceTheorems, TLAPS

-----------------------------------------------------------------------------
(* The honours: VowItemsPage.                                                  *)

ItemRows == Nat \X Contents
ListAsked == [kind : {"list"}, at : {"sent", "answered"}, filter : Filters,
              answer : SUBSET ItemRows]
SaveAsked == [kind : {"save"}, at : {"sent", "answered"}, id : Nat, content : Contents,
              closes : BOOLEAN, answer : {"none", "ok", "refused"}]
PageAsked == ListAsked \cup SaveAsked \cup {V!Done}
HonourDraft == [open : BOOLEAN, id : Nat, content : Contents \cup {V!Empty}]

PageTypes ==
    /\ item \in Seq(Contents) /\ Len(item) <= MaxItems
    /\ request \in Seq(PageAsked) /\ Len(request) <= MaxAsked
    /\ list \in [filter : Filters, wants : 1 .. Len(request), loading : BOOLEAN,
                 data : SUBSET ItemRows]
    /\ draft \in HonourDraft
    /\ itemDialog \in [key : Seq(Nat), local : HonourDraft]

\* Every row shown or under way is of an item that exists: items are never taken away.
RowsExist ==
    /\ \A row \in list.data : row[1] \in 1 .. Len(item)
    /\ \A r \in 1 .. Len(request) :
          /\ request[r].kind = "list" => \A row \in request[r].answer : row[1] \in 1 .. Len(item)
          /\ request[r].kind = "save" => request[r].id \in 0 .. Len(item)
    /\ draft.id \in 0 .. Len(item) /\ itemDialog.local.id \in 0 .. Len(item)
    /\ itemDialog.local.id # 0 => itemDialog.local.content \in Contents

\* The dialog took over the draft that is open.
DialogFollows ==
    /\ itemDialog.key # V!None => itemDialog.key = <<itemDialog.local.id>>
    /\ draft.open => itemDialog.key = <<draft.id>>

\* A save went through and the page has not heard of it: it will ask for the list anew.
Unnoticed == \E r \in 1 .. Len(request) : request[r].kind = "save" /\ request[r].answer = "ok"

\* The page waits for the list it asked for last. Unless a save went by unnoticed, the
\* answer under way, or the rows on the screen, are what the table holds.
ListFollows ==
    LET last == request[list.wants] IN
    /\ last.kind \in {"list", "none"}
    /\ last.kind = "list" => last.filter = list.filter
    /\ list.loading <=> last.kind = "list"
    /\ Unnoticed \/ /\ last.kind = "list" /\ last.at = "answered" =>
                          last.answer = V!Listed(list.filter)
                    /\ last.kind = "none" => list.data = V!Listed(list.filter)

PageInv == PageTypes /\ RowsExist /\ DialogFollows /\ ListFollows

LEMMA PageGiven == MaxItems \in Nat /\ MaxAsked \in Nat
  BY DeskBounds DEF V!PageBounds

LEMMA PageLengths ==
    ASSUME PageTypes
    PROVE  /\ Len(item) \in Nat /\ DOMAIN item = 1 .. Len(item)
           /\ \A i \in 1 .. Len(item) : item[i] \in Contents
           /\ Len(request) \in Nat /\ DOMAIN request = 1 .. Len(request)
           /\ \A r \in 1 .. Len(request) : request[r] \in PageAsked
  BY LenProperties, ElementOfSeq DEF PageTypes

LEMMA RowsListed ==
    ASSUME PageTypes, NEW f \in Filters
    PROVE  /\ V!Listed(f) \subseteq ItemRows
           /\ \A row \in V!Listed(f) : row[1] \in 1 .. Len(item)
  BY PageLengths DEF V!Listed, V!Ids, ItemRows

\* Steps that ask for nothing and are answered nothing: the dialog opens, changes, closes.
LEMMA PageDialogKeeps ==
    ASSUME PageInv, V!Add \/ V!Edit \/ V!Type \/ V!Cancel \/ UNCHANGED V!vars
    PROVE  PageInv'
<1>1. /\ PageTypes /\ RowsExist /\ DialogFollows /\ ListFollows
      /\ Len(item) \in Nat
  BY PageLengths DEF PageInv
<1>2. UNCHANGED <<item, request, list>>
  BY DEF V!Add, V!Edit, V!Type, V!Cancel, V!vars
<1>3. ListFollows'
  BY <1>1, <1>2 DEF ListFollows, Unnoticed, V!Listed, V!Ids
<1>4. ASSUME NEW d \in HonourDraft, d.open, d.id \in 0 .. Len(item), V!Opened(d),
             d.id # 0 => d.content \in Contents
      PROVE  PageInv'
  <2>1. /\ draft' = d
        /\ itemDialog' = IF itemDialog.key = <<d.id>> THEN itemDialog
                         ELSE [key |-> <<d.id>>, local |-> d]
    BY <1>4 DEF V!Opened
  <2>2. d.id \in Nat /\ <<d.id>> \in Seq(Nat) /\ <<d.id>> # V!None
    BY DEF HonourDraft, V!None
  <2>3. PageTypes' /\ RowsExist'
    BY <1>1, <1>2, <1>4, <2>1, <2>2 DEF PageTypes, RowsExist
  <2>4. DialogFollows'
    BY <1>1, <2>1, <2>2 DEF DialogFollows
  <2>5. QED
    BY <1>3, <2>3, <2>4 DEF PageInv
<1>5. CASE V!Add
  <2>1. [open |-> TRUE, id |-> 0, content |-> V!Empty] \in HonourDraft
    BY DEF HonourDraft
  <2>2. QED
    BY <1>1, <1>4, <1>5, <2>1 DEF V!Add
<1>6. CASE V!Edit
  <2>1. PICK row \in list.data : V!Opened([open |-> TRUE, id |-> row[1], content |-> row[2]])
    BY <1>6 DEF V!Edit
  <2>2. row \in ItemRows /\ row[1] \in 1 .. Len(item)
    BY <1>1, <2>1 DEF PageTypes, RowsExist
  <2>3. [open |-> TRUE, id |-> row[1], content |-> row[2]] \in HonourDraft
        /\ row[2] \in Contents
    BY <2>2 DEF HonourDraft, ItemRows
  <2>4. QED
    BY <1>1, <1>4, <2>1, <2>2, <2>3
<1>7. CASE V!Type
  <2>1. PICK content \in Contents : itemDialog' = [itemDialog EXCEPT !.local.content = content]
    BY <1>7 DEF V!Type
  <2>2. /\ itemDialog'.key = itemDialog.key /\ itemDialog'.local.id = itemDialog.local.id
        /\ itemDialog' \in [key : Seq(Nat), local : HonourDraft]
        /\ itemDialog'.local.content \in Contents
    BY <1>1, <2>1 DEF PageTypes, HonourDraft
  <2>3. QED
    BY <1>1, <1>2, <1>3, <1>7, <2>2 DEF V!Type, PageInv, PageTypes, RowsExist, DialogFollows
<1>8. CASE V!Cancel
  <2>1. draft' = V!Closed /\ UNCHANGED itemDialog /\ V!Closed \in HonourDraft
    BY <1>8 DEF V!Cancel, V!Closed, HonourDraft
  <2>2. QED
    BY <1>1, <1>2, <1>3, <2>1
       DEF PageInv, PageTypes, RowsExist, DialogFollows, V!Closed
<1>9. CASE UNCHANGED V!vars
  BY <1>1, <1>2, <1>3, <1>9 DEF V!vars, PageInv, PageTypes, RowsExist, DialogFollows
<1>10. QED
  BY <1>5, <1>6, <1>7, <1>8, <1>9

\* A request is handled, or its answer taken: one request changes.
LEMMA OneRequest ==
    ASSUME PageTypes, NEW r \in 1 .. Len(request), NEW q \in PageAsked
    PROVE  /\ [request EXCEPT ![r] = q] \in Seq(PageAsked)
           /\ Len([request EXCEPT ![r] = q]) = Len(request)
           /\ [request EXCEPT ![r] = q][r] = q
           /\ \A o \in 1 .. Len(request) : o # r => [request EXCEPT ![r] = q][o] = request[o]
  BY ExceptSeq DEF PageTypes

LEMMA HandlingKeeps ==
    ASSUME PageInv, V!HandleList \/ V!HandleSave
    PROVE  PageInv'
<1>1. /\ PageTypes /\ RowsExist /\ DialogFollows /\ ListFollows
      /\ Len(item) \in Nat /\ Len(request) \in Nat /\ DOMAIN request = 1 .. Len(request)
      /\ DOMAIN item = 1 .. Len(item) /\ list.wants \in 1 .. Len(request)
      /\ \A r \in 1 .. Len(request) : request[r] \in PageAsked
  BY PageLengths DEF PageInv, PageTypes
<1>2. UNCHANGED <<list, draft, itemDialog>> /\ DialogFollows'
  BY <1>1 DEF V!HandleList, V!HandleSave, DialogFollows
<1>3. CASE V!HandleList
  <2>1. PICK r \in 1 .. Len(request) :
           /\ request[r].kind = "list" /\ request[r].at = "sent"
           /\ request' = [request EXCEPT ![r].at = "answered",
                                         ![r].answer = V!Listed(request[r].filter)]
           /\ UNCHANGED item
    BY <1>1, <1>3 DEF V!HandleList
  <2>2. request[r] \in ListAsked
    BY <1>1, <2>1 DEF PageAsked, SaveAsked, V!Done
  <2>3. PICK f \in Filters : f = request[r].filter
    BY <2>2 DEF ListAsked
  <2>4. PICK q : q = [request[r] EXCEPT !.at = "answered", !.answer = V!Listed(f)]
    OBVIOUS
  <2>5. /\ q \in ListAsked /\ q \in PageAsked /\ \A row \in q.answer : row[1] \in 1 .. Len(item)
        /\ q.kind = "list" /\ q.filter = f /\ q.answer = V!Listed(f)
    <3>1. V!Listed(f) \subseteq ItemRows /\ \A row \in V!Listed(f) : row[1] \in 1 .. Len(item)
      BY <1>1, RowsListed
    <3>2. q \in ListAsked /\ q.filter = f /\ q.answer = V!Listed(f)
      BY <2>2, <2>3, <2>4, <3>1 DEF ListAsked
    <3>3. QED
      BY <3>1, <3>2 DEF ListAsked, PageAsked
  <2>6. request' = [request EXCEPT ![r] = q]
    BY <1>1, <2>1, <2>3, <2>4
  <2>7. /\ request' \in Seq(PageAsked) /\ Len(request') = Len(request) /\ request'[r] = q
        /\ \A o \in 1 .. Len(request) : o # r => request'[o] = request[o]
    BY <1>1, <2>5, <2>6, OneRequest
  <2>8. PageTypes' /\ RowsExist'
    <3>1. PageTypes'
      BY <1>1, <1>2, <2>1, <2>7 DEF PageTypes
    <3>2. ASSUME NEW o \in 1 .. Len(request)
          PROVE  /\ request'[o].kind = "list" =>
                        \A row \in request'[o].answer : row[1] \in 1 .. Len(item)
                 /\ request'[o].kind = "save" => request'[o].id \in 0 .. Len(item)
      BY <1>1, <2>5, <2>7 DEF RowsExist
    <3>3. QED
      BY <1>1, <1>2, <2>1, <2>7, <3>1, <3>2 DEF RowsExist
  <2>9. ListFollows'
    <3>1. Unnoticed <=> Unnoticed'
      BY <2>1, <2>5, <2>7 DEF Unnoticed
    <3>2. V!Listed(list.filter)' = V!Listed(list.filter)
      BY <1>2, <2>1 DEF V!Listed, V!Ids
    <3>3. CASE r = list.wants
      BY <1>1, <1>2, <2>1, <2>3, <2>5, <2>7, <3>1, <3>2, <3>3 DEF ListFollows
    <3>4. CASE r # list.wants
      BY <1>1, <1>2, <2>1, <2>7, <3>1, <3>2, <3>4 DEF ListFollows
    <3>5. QED
      BY <3>3, <3>4
  <2>10. QED
    BY <1>2, <2>8, <2>9 DEF PageInv
<1>4. CASE V!HandleSave
  <2>1. PICK r \in 1 .. Len(request) :
           LET accepted == request[r].content \notin Refused
           IN  /\ request[r].kind = "save" /\ request[r].at = "sent"
               /\ accepted /\ request[r].id = 0 => Len(item) < MaxItems
               /\ item' = IF ~accepted THEN item
                          ELSE IF request[r].id = 0 THEN Append(item, request[r].content)
                          ELSE [item EXCEPT ![request[r].id] = request[r].content]
               /\ request' = [request EXCEPT ![r].at = "answered",
                                             ![r].answer = IF accepted THEN "ok" ELSE "refused"]
    BY <1>1, <1>4 DEF V!HandleSave
  <2>2. request[r] \in SaveAsked /\ request[r].id \in 0 .. Len(item)
        /\ request[r].content \in Contents /\ r # list.wants
    BY <1>1, <2>1 DEF PageAsked, SaveAsked, ListAsked, V!Done, RowsExist, ListFollows
  <2>3. PICK q : q = [request[r] EXCEPT !.at = "answered",
                        !.answer = IF request[r].content \notin Refused THEN "ok" ELSE "refused"]
    OBVIOUS
  <2>4. /\ q \in SaveAsked /\ q \in PageAsked /\ q.kind = "save" /\ q.id = request[r].id
        /\ request[r].content \notin Refused => q.answer = "ok"
    BY <2>2, <2>3 DEF SaveAsked, PageAsked
  <2>5. request' = [request EXCEPT ![r] = q]
    BY <1>1, <2>1, <2>2, <2>3 DEF SaveAsked
  <2>6. /\ request' \in Seq(PageAsked) /\ Len(request') = Len(request) /\ request'[r] = q
        /\ \A o \in 1 .. Len(request) : o # r => request'[o] = request[o]
    BY <1>1, <2>4, <2>5, OneRequest
  <2>7. /\ item' \in Seq(Contents) /\ Len(item') \in Nat /\ Len(item') >= Len(item)
        /\ Len(item') <= MaxItems
    <3>1. CASE request[r].content \in Refused
      BY <1>1, <2>1, <3>1 DEF PageTypes
    <3>2. CASE request[r].content \notin Refused /\ request[r].id = 0
      <4>1. item' = Append(item, request[r].content) /\ Len(item) < MaxItems
        BY <2>1, <3>2
      <4>2. item' \in Seq(Contents) /\ Len(item') = Len(item) + 1
        BY <1>1, <2>2, <4>1, AppendProperties DEF PageTypes
      <4>3. QED
        BY <1>1, <4>1, <4>2, PageGiven
    <3>3. CASE request[r].content \notin Refused /\ request[r].id # 0
      <4>1. request[r].id \in 1 .. Len(item)
        BY <1>1, <2>2, <3>3
      <4>2. item' \in Seq(Contents) /\ Len(item') = Len(item)
        BY <1>1, <2>1, <2>2, <3>3, <4>1, ExceptSeq DEF PageTypes
      <4>3. QED
        BY <1>1, <4>2 DEF PageTypes
    <3>4. QED
      BY <3>1, <3>2, <3>3
  <2>8. PageTypes'
    BY <1>1, <1>2, <2>6, <2>7 DEF PageTypes
  <2>9. RowsExist'
    <3>1. \A i : (i \in 0 .. Len(item) => i \in 0 .. Len(item'))
                 /\ (i \in 1 .. Len(item) => i \in 1 .. Len(item'))
      BY <1>1, <2>7
    <3>2. ASSUME NEW o \in 1 .. Len(request')
          PROVE  /\ request'[o].kind = "list" =>
                        \A row \in request'[o].answer : row[1] \in 1 .. Len(item')
                 /\ request'[o].kind = "save" => request'[o].id \in 0 .. Len(item')
      BY <1>1, <2>2, <2>4, <2>6, <3>1 DEF RowsExist
    <3>3. QED
      BY <1>1, <1>2, <3>1, <3>2 DEF RowsExist
  <2>10. ListFollows'
    <3>1. Unnoticed => Unnoticed'
      BY <2>1, <2>2, <2>4, <2>6 DEF Unnoticed, SaveAsked
    <3>2. CASE request[r].content \notin Refused
      BY <1>1, <1>2, <2>2, <2>4, <2>6, <3>2 DEF ListFollows, Unnoticed
    <3>3. CASE request[r].content \in Refused
      <4>1. V!Listed(list.filter)' = V!Listed(list.filter)
        BY <1>2, <2>1, <3>3 DEF V!Listed, V!Ids
      <4>2. QED
        BY <1>1, <1>2, <2>2, <2>6, <3>1, <4>1 DEF ListFollows
    <3>4. QED
      BY <3>2, <3>3
  <2>11. QED
    BY <1>2, <2>8, <2>9, <2>10 DEF PageInv
<1>5. QED
  BY <1>3, <1>4

\* The page asks for something: a list, which it then waits for, or a save.
LEMMA SavingKeeps ==
    ASSUME PageInv, V!Save \/ V!DuplicateShown \/ V!DuplicateRow
    PROVE  PageInv'
<1>1. /\ PageTypes /\ RowsExist /\ DialogFollows /\ ListFollows
      /\ Len(item) \in Nat /\ Len(request) \in Nat /\ DOMAIN request = 1 .. Len(request)
      /\ list.wants \in 1 .. Len(request)
      /\ \A r \in 1 .. Len(request) : request[r] \in PageAsked
  BY PageLengths DEF PageInv, PageTypes
<1>2. UNCHANGED <<item, list, draft, itemDialog>> /\ DialogFollows'
  BY <1>1 DEF V!Save, V!DuplicateShown, V!DuplicateRow, DialogFollows
<1>3. PICK id \in 0 .. Len(item), content \in Contents, closes \in BOOLEAN :
         /\ Len(request) + 2 <= MaxAsked
         /\ request' = Append(request, V!SaveRequest(id, content, closes))
  <2>1. CASE V!Save
    <3>1. /\ itemDialog.local.content \in Contents /\ itemDialog.local.id \in 0 .. Len(item)
          /\ Len(request) + 2 <= MaxAsked
          /\ request' = Append(request, V!SaveRequest(itemDialog.local.id,
                                                      itemDialog.local.content, TRUE))
      BY <1>1, <2>1 DEF V!Save, V!MayAsk, PageTypes, HonourDraft, RowsExist
    <3>2. QED
      BY <3>1
  <2>2. CASE V!DuplicateShown
    <3>1. itemDialog.local.content \in Contents
      BY <1>1, <2>2 DEF V!DuplicateShown, RowsExist
    <3>2. /\ Len(request) + 2 <= MaxAsked /\ 0 \in 0 .. Len(item)
          /\ request' = Append(request, V!SaveRequest(0, itemDialog.local.content, TRUE))
      BY <1>1, <2>2 DEF V!DuplicateShown, V!MayAsk
    <3>3. QED
      BY <3>1, <3>2
  <2>3. CASE V!DuplicateRow
    <3>1. PICK row \in list.data :
             /\ Len(request) + 2 <= MaxAsked
             /\ request' = Append(request, V!SaveRequest(0, row[2], FALSE))
      BY <2>3 DEF V!DuplicateRow, V!MayAsk
    <3>2. row[2] \in Contents /\ 0 \in 0 .. Len(item)
      BY <1>1 DEF PageTypes, ItemRows
    <3>3. QED
      BY <3>1, <3>2
  <2>4. QED
    BY <2>1, <2>2, <2>3
<1>4. PICK q : q = V!SaveRequest(id, content, closes)
  OBVIOUS
<1>5. q \in SaveAsked /\ q \in PageAsked /\ q.kind = "save" /\ q.id = id /\ q.answer = "none"
  BY <1>1, <1>4 DEF V!SaveRequest, SaveAsked, PageAsked
<1>6. /\ request' \in Seq(PageAsked) /\ Len(request') = Len(request) + 1
      /\ request'[Len(request) + 1] = q
      /\ \A r \in 1 .. Len(request) : request'[r] = request[r]
  BY <1>1, <1>3, <1>4, <1>5, AppendProperties DEF PageTypes
<1>7. \A r \in 1 .. Len(request') : r \in 1 .. Len(request) \/ r = Len(request) + 1
  BY <1>1, <1>6
<1>8. PageTypes'
  BY <1>1, <1>2, <1>3, <1>6, PageGiven DEF PageTypes
<1>9. RowsExist'
  <2>1. ASSUME NEW o \in 1 .. Len(request')
        PROVE  /\ request'[o].kind = "list" =>
                      \A row \in request'[o].answer : row[1] \in 1 .. Len(item)
               /\ request'[o].kind = "save" => request'[o].id \in 0 .. Len(item)
    BY <1>1, <1>3, <1>5, <1>6, <1>7 DEF RowsExist
  <2>2. QED
    BY <1>1, <1>2, <2>1 DEF RowsExist
<1>10. ListFollows'
  <2>1. V!Listed(list.filter)' = V!Listed(list.filter)
    BY <1>2 DEF V!Listed, V!Ids
  <2>2. Unnoticed => Unnoticed'
    BY <1>1, <1>6 DEF Unnoticed
  <2>3. QED
    BY <1>1, <1>2, <1>6, <2>1, <2>2 DEF ListFollows
<1>11. QED
  BY <1>2, <1>8, <1>9, <1>10 DEF PageInv

\* Asking anew: the last request is waited for, it is not answered yet.
LEMMA AskKeeps ==
    ASSUME PageInv, NEW asked_ \in Seq(PageAsked), Len(asked_) = Len(request),
           Len(request) < MaxAsked, NEW f \in Filters,
           \A r \in 1 .. Len(request) :
              asked_[r] = request[r] \/ asked_[r] = V!Done,
           V!Ask(f, asked_), draft' \in {draft, V!Closed}, UNCHANGED <<item, itemDialog>>
    PROVE  PageInv'
<1>1. /\ PageTypes /\ RowsExist /\ DialogFollows /\ ListFollows
      /\ Len(item) \in Nat /\ Len(request) \in Nat /\ DOMAIN request = 1 .. Len(request)
      /\ list.wants \in 1 .. Len(request)
      /\ \A r \in 1 .. Len(request) : request[r] \in PageAsked
  BY PageLengths DEF PageInv, PageTypes
<1>2. /\ list' = [list EXCEPT !.filter = f, !.loading = TRUE, !.wants = Len(request) + 1]
      /\ request' = Append(asked_, V!ListRequest(f))
  BY DEF V!Ask
<1>3. PICK q : q = V!ListRequest(f)
  OBVIOUS
<1>4. /\ q \in ListAsked /\ q \in PageAsked /\ q.kind = "list" /\ q.at = "sent"
      /\ q.filter = f /\ q.answer = {}
  BY <1>3 DEF V!ListRequest, ListAsked, PageAsked
<1>5. /\ request' \in Seq(PageAsked) /\ Len(request') = Len(request) + 1
      /\ request'[Len(request) + 1] = q
      /\ \A r \in 1 .. Len(request) : request'[r] = asked_[r]
  BY <1>1, <1>2, <1>3, <1>4, AppendProperties
<1>6. \A r \in 1 .. Len(request') : r \in 1 .. Len(request) \/ r = Len(request) + 1
  BY <1>1, <1>5
<1>7. list' \in [filter : Filters, wants : 1 .. Len(request'), loading : BOOLEAN,
                 data : SUBSET ItemRows]
      /\ list'.wants = Len(request) + 1 /\ list'.loading = TRUE /\ list'.filter = f
      /\ list'.data = list.data
  <2>1. list \in [filter : Filters, wants : 1 .. Len(request), loading : BOOLEAN,
                  data : SUBSET ItemRows]
    BY <1>1 DEF PageTypes
  <2>2. Len(request) + 1 \in 1 .. Len(request')
    BY <1>1, <1>5
  <2>3. QED
    BY <1>2, <2>1, <2>2
<1>8. V!Closed \in HonourDraft /\ V!Closed.id = 0 /\ ~V!Closed.open
  BY DEF V!Closed, HonourDraft
<1>9. PageTypes'
  BY <1>1, <1>5, <1>7, <1>8, PageGiven DEF PageTypes
<1>10. RowsExist'
  <2>1. V!Done.kind = "none"
    BY DEF V!Done
  <2>2. ASSUME NEW o \in 1 .. Len(request')
        PROVE  /\ request'[o].kind = "list" =>
                      \A row \in request'[o].answer : row[1] \in 1 .. Len(item)
               /\ request'[o].kind = "save" => request'[o].id \in 0 .. Len(item)
    <3>1. CASE o \in 1 .. Len(request)
      BY <1>1, <1>5, <2>1, <3>1 DEF RowsExist
    <3>2. CASE o = Len(request) + 1
      BY <1>4, <1>5, <3>2
    <3>3. QED
      BY <1>6, <3>1, <3>2
  <2>3. QED
    BY <1>1, <1>7, <1>8, <2>2 DEF RowsExist
<1>11. DialogFollows'
  BY <1>1, <1>8 DEF DialogFollows
<1>12. ListFollows'
  BY <1>4, <1>5, <1>7 DEF ListFollows
<1>13. QED
  BY <1>9, <1>10, <1>11, <1>12 DEF PageInv

LEMMA AnswersKeep ==
    ASSUME PageInv, V!SetFilter \/ V!DeliverList \/ V!DeliverSave
    PROVE  PageInv'
<1>1. /\ PageTypes /\ RowsExist /\ DialogFollows /\ ListFollows
      /\ Len(item) \in Nat /\ Len(request) \in Nat /\ DOMAIN request = 1 .. Len(request)
      /\ list.wants \in 1 .. Len(request) /\ list.filter \in Filters
      /\ \A r \in 1 .. Len(request) : request[r] \in PageAsked
      /\ request \in Seq(PageAsked)
  BY PageLengths DEF PageInv, PageTypes
<1>2. V!Done \in PageAsked /\ V!Done.kind = "none"
  BY DEF PageAsked, V!Done
<1>3. CASE V!SetFilter
  <2>1. PICK f \in Filters : Len(request) + 1 <= MaxAsked /\ V!Ask(f, request)
    BY <1>3 DEF V!SetFilter, V!MayAsk
  <2>2. UNCHANGED <<item, draft, itemDialog>>
    BY <1>3 DEF V!SetFilter
  <2>3. QED
    BY <1>1, <2>1, <2>2, PageGiven, AskKeeps
<1>4. ASSUME NEW r \in 1 .. Len(request)
      PROVE  /\ [request EXCEPT ![r] = V!Done] \in Seq(PageAsked)
             /\ Len([request EXCEPT ![r] = V!Done]) = Len(request)
             /\ [request EXCEPT ![r] = V!Done][r] = V!Done
             /\ \A o \in 1 .. Len(request) : o # r =>
                    [request EXCEPT ![r] = V!Done][o] = request[o]
  BY <1>1, <1>2, OneRequest
<1>5. ASSUME NEW r \in 1 .. Len(request), request' = [request EXCEPT ![r] = V!Done],
             UNCHANGED <<item, draft, itemDialog>>,
             list' \in [filter : Filters, wants : 1 .. Len(request), loading : BOOLEAN,
                        data : SUBSET ItemRows],
             \A row \in list'.data : row[1] \in 1 .. Len(item),
             ListFollows'
      PROVE  PageInv'
  <2>1. /\ request' \in Seq(PageAsked) /\ Len(request') = Len(request)
        /\ request'[r] = V!Done
        /\ \A o \in 1 .. Len(request) : o # r => request'[o] = request[o]
    BY <1>4, <1>5
  <2>2. PageTypes'
    BY <1>1, <1>5, <2>1 DEF PageTypes
  <2>3. ASSUME NEW o \in 1 .. Len(request')
        PROVE  /\ request'[o].kind = "list" =>
                      \A row \in request'[o].answer : row[1] \in 1 .. Len(item)
               /\ request'[o].kind = "save" => request'[o].id \in 0 .. Len(item)
    BY <1>1, <1>2, <2>1 DEF RowsExist
  <2>4. RowsExist' /\ DialogFollows'
    BY <1>1, <1>5, <2>3 DEF RowsExist, DialogFollows
  <2>5. QED
    BY <1>5, <2>2, <2>4 DEF PageInv
<1>6. CASE V!DeliverList
  <2>1. PICK r \in 1 .. Len(request) :
           /\ request[r].kind = "list" /\ request[r].at = "answered"
           /\ request' = [request EXCEPT ![r] = V!Done]
           /\ list' = IF r = list.wants
                      THEN [list EXCEPT !.data = request[r].answer, !.loading = FALSE]
                      ELSE list
           /\ UNCHANGED <<item, draft, itemDialog>>
    BY <1>1, <1>6 DEF V!DeliverList
  <2>2. request[r].answer \subseteq ItemRows
        /\ \A row \in request[r].answer : row[1] \in 1 .. Len(item)
    BY <1>1, <2>1 DEF PageAsked, ListAsked, SaveAsked, V!Done, RowsExist
  <2>3. /\ list' \in [filter : Filters, wants : 1 .. Len(request), loading : BOOLEAN,
                      data : SUBSET ItemRows]
        /\ \A row \in list'.data : row[1] \in 1 .. Len(item)
        /\ list'.wants = list.wants /\ list'.filter = list.filter
    BY <1>1, <2>1, <2>2 DEF PageTypes, RowsExist
  <2>4. ListFollows'
    <3>1. V!Listed(list.filter)' = V!Listed(list.filter)
      BY <2>1, <2>3 DEF V!Listed, V!Ids
    <3>2. /\ Len(request') = Len(request) /\ request'[r] = V!Done
          /\ \A o \in 1 .. Len(request) : o # r => request'[o] = request[o]
      BY <1>4, <2>1
    <3>3. Unnoticed => Unnoticed'
      BY <2>1, <3>2 DEF Unnoticed
    <3>4. CASE r = list.wants
      <4>1. list'.data = request[r].answer /\ list'.loading = FALSE
        BY <1>1, <2>1, <3>4 DEF PageTypes
      <4>2. Unnoticed \/ request[r].answer = V!Listed(list.filter)
        BY <1>1, <2>1, <3>4 DEF ListFollows
      <4>3. QED
        BY <1>2, <2>3, <3>1, <3>2, <3>3, <3>4, <4>1, <4>2 DEF ListFollows
    <3>5. CASE r # list.wants
      BY <1>1, <2>1, <3>1, <3>2, <3>3, <3>5 DEF ListFollows
    <3>6. QED
      BY <3>4, <3>5
  <2>5. QED
    BY <1>5, <2>1, <2>3, <2>4
<1>7. CASE V!DeliverSave
  <2>1. PICK r \in 1 .. Len(request) :
           /\ request[r].kind = "save" /\ request[r].at = "answered"
           /\ IF request[r].answer = "ok"
              THEN /\ V!MayAsk(1) /\ V!Ask(list.filter, [request EXCEPT ![r] = V!Done])
                   /\ draft' = IF request[r].closes THEN V!Closed ELSE draft
              ELSE request' = [request EXCEPT ![r] = V!Done] /\ UNCHANGED <<list, draft>>
           /\ UNCHANGED <<item, itemDialog>>
    BY <1>1, <1>7 DEF V!DeliverSave
  <2>2. CASE request[r].answer = "ok"
    <3>1. PICK done \in Seq(PageAsked) : done = [request EXCEPT ![r] = V!Done]
      BY <1>4
    <3>2. /\ Len(done) = Len(request)
          /\ \A o \in 1 .. Len(request) : done[o] = request[o] \/ done[o] = V!Done
      BY <1>4, <3>1
    <3>3. /\ Len(request) < MaxAsked /\ V!Ask(list.filter, done)
          /\ draft' \in {draft, V!Closed}
      BY <1>1, <2>1, <2>2, <3>1, PageGiven DEF V!MayAsk
    <3>4. QED
      BY <1>1, <2>1, <3>2, <3>3, AskKeeps
  <2>3. CASE request[r].answer # "ok"
    <3>1. request' = [request EXCEPT ![r] = V!Done] /\ UNCHANGED <<list, draft>>
      BY <2>1, <2>3
    <3>2. /\ Len(request') = Len(request)
          /\ \A o \in 1 .. Len(request) : o # r => request'[o] = request[o]
      BY <1>4, <3>1
    <3>3. ListFollows'
      <4>1. r # list.wants
        BY <1>1, <2>1 DEF ListFollows
      <4>2. V!Listed(list.filter)' = V!Listed(list.filter)
        BY <2>1, <3>1 DEF V!Listed, V!Ids
      <4>3. Unnoticed => Unnoticed'
        BY <2>3, <3>2 DEF Unnoticed
      <4>4. QED
        BY <1>1, <3>1, <3>2, <4>1, <4>2, <4>3 DEF ListFollows
    <3>4. QED
      BY <1>1, <1>5, <2>1, <3>1, <3>3 DEF PageTypes, RowsExist
  <2>4. QED
    BY <2>2, <2>3
<1>8. QED
  BY <1>3, <1>6, <1>7

LEMMA PageStarts == V!Init => PageInv
<1>1. SUFFICES ASSUME V!Init PROVE PageInv
  OBVIOUS
<1>2. PICK q : q = V!ListRequest(list.filter)
  OBVIOUS
<1>3. /\ list \in [filter : Filters, wants : {1}, loading : {TRUE}, data : {{}}]
      /\ item = <<>> /\ request = <<q>> /\ draft = V!Closed
      /\ itemDialog = [key |-> V!None, local |-> V!Closed]
  BY <1>1, <1>2 DEF V!Init
<1>4. /\ q \in ListAsked /\ q \in PageAsked /\ q.kind = "list" /\ q.at = "sent"
      /\ q.filter = list.filter /\ q.answer = {}
  BY <1>2, <1>3 DEF V!ListRequest, ListAsked, PageAsked
<1>5. /\ Len(item) = 0 /\ item \in Seq(Contents) /\ request \in Seq(PageAsked)
      /\ Len(request) = 1 /\ request[1] = q
  BY <1>3, <1>4, EmptySeq
<1>6. V!Closed \in HonourDraft /\ V!Closed.id = 0 /\ ~V!Closed.open /\ V!None \in Seq(Nat)
  BY DEF V!Closed, HonourDraft, V!None
<1>7. MaxAsked >= 1
  BY DeskBounds DEF V!PageBounds
<1>8. PageTypes
  <2>1. list \in [filter : Filters, wants : 1 .. Len(request), loading : BOOLEAN,
                  data : SUBSET ItemRows]
    <3>1. PICK f \in Filters :
             list = [filter |-> f, wants |-> 1, loading |-> TRUE, data |-> {}]
      BY <1>3
    <3>2. 1 \in 1 .. Len(request) /\ {} \in SUBSET ItemRows
      BY <1>5
    <3>3. QED
      BY <3>1, <3>2
  <2>2. itemDialog \in [key : Seq(Nat), local : HonourDraft] /\ draft \in HonourDraft
    BY <1>3, <1>6
  <2>3. QED
    BY <1>5, <1>7, <2>1, <2>2, PageGiven DEF PageTypes
<1>9. RowsExist /\ DialogFollows
  BY <1>3, <1>4, <1>5, <1>6 DEF RowsExist, DialogFollows
<1>10. ListFollows
  BY <1>3, <1>4, <1>5 DEF ListFollows
<1>11. QED
  BY <1>8, <1>9, <1>10 DEF PageInv

LEMMA PageStays == PageInv /\ [V!Next]_V!vars => PageInv'
  BY PageDialogKeeps, HandlingKeeps, SavingKeeps, AnswersKeep DEF V!Next

\* The page waits for the list it asked for last, and its dialog holds the draft that is
\* open, in every state (VowItemsTab, useAsync, VowItemDialog).
THEOREM PageHolds == V!Spec => []PageInv
  BY PageStarts, PageStays, PTL DEF V!Spec

\* The dialog saves to the honour it was opened for (VowItemDialog, which stays mounted).
THEOREM AlwaysSavesWhatIsOpen == V!Spec => []SavesWhatIsOpen
<1>1. PageInv => SavesWhatIsOpen
  <2>1. SUFFICES ASSUME PageInv, draft.open PROVE itemDialog.local.id = draft.id
    BY DEF SavesWhatIsOpen, V!SavesWhatIsOpen
  <2>2. <<draft.id>> = <<itemDialog.local.id>>
    BY <2>1 DEF PageInv, DialogFollows, V!None
  <2>3. QED
    BY <2>2
<1>2. QED
  BY <1>1, PageHolds, PTL

LEMMA HonoursAreCurrent == PageInv => V!ListIsCurrent
<1>1. SUFFICES ASSUME PageInv, ~V!Saving, ~list.loading
               PROVE  list.data = V!Listed(list.filter)
  BY DEF V!ListIsCurrent
<1>2. DOMAIN request = 1 .. Len(request) /\ \A r \in 1 .. Len(request) : request[r] \in PageAsked
  BY <1>1, PageLengths DEF PageInv
<1>3. ~Unnoticed
  BY <1>1, <1>2 DEF Unnoticed, V!Saving, PageAsked, SaveAsked, ListAsked, V!Done
<1>4. QED
  BY <1>1, <1>3 DEF PageInv, ListFollows

-----------------------------------------------------------------------------
(* The lists of values: LookupsTab.                                            *)

\* What a request holds; the contents of rows and requests play no part, R stands for all
\* of them.
Pressed(R) == [what : {"list", "add", "rename", "active"}, table : Tables,
               handled : BOOLEAN, awaited : BOOLEAN, answer : [ok : BOOLEAN, rows : R],
               id : R, name : R, active : BOOLEAN]

TypedIn(R) ==
    /\ value \in [Tables -> R]
    /\ pressed \in Seq(Pressed(R)) /\ Len(pressed) <= MaxPresses
    /\ lookupsTab \in [mounted : BOOLEAN, table : Tables, rows : R]

TabTypes == \E R : TypedIn(R)

\* Requests are handled in their order, and nobody waits for them when the tab is left.
InOrder ==
    /\ \A k, j \in 1 .. Len(pressed) : j < k /\ pressed[k].handled => pressed[j].handled
    /\ ~lookupsTab.mounted => \A k \in 1 .. Len(pressed) : ~pressed[k].awaited

Fine(k) == pressed[k].handled /\ pressed[k].answer.ok

\* From s on, the requests are the tab's: its list, unless that was answered (s = 0), and
\* changes of the table chosen.
OwnFrom(s) ==
    /\ s # 0 => /\ pressed[s].what = "list" /\ pressed[s].awaited
                /\ pressed[s].table = lookupsTab.table
                /\ pressed[s].handled => pressed[s].answer.ok
    /\ \A k \in 1 .. Len(pressed) : k > s =>
          /\ pressed[k].what # "list" /\ pressed[k].awaited
          /\ pressed[k].table = lookupsTab.table

\* The last of their answers, or when there is none the screen, is what the table holds.
LastIsTrue(s) ==
    /\ \A k \in 1 .. Len(pressed) :
          k >= s /\ Fine(k) /\ (\A j \in 1 .. Len(pressed) : j > k => ~Fine(j)) =>
             pressed[k].answer.rows = value[lookupsTab.table]
    /\ s = 0 /\ (\A j \in 1 .. Len(pressed) : ~Fine(j)) =>
          lookupsTab.rows = value[lookupsTab.table]

TabFollows ==
    lookupsTab.mounted =>
        \E s \in 0 .. Len(pressed) :
            /\ OwnFrom(s)
            /\ (s # 0 /\ ~pressed[s].handled) \/ LastIsTrue(s)

TabInv == TabTypes /\ InOrder /\ TabFollows

LEMMA TabGiven == FirstTable \in Tables /\ MaxPresses \in Nat
  BY DeskBounds DEF L!ListsGiven

LEMMA SeqWidens ==
    ASSUME NEW A, NEW B, A \subseteq B, NEW s \in Seq(A)
    PROVE  s \in Seq(B)
  OBVIOUS

LEMMA Widens ==
    ASSUME NEW R, NEW X, TypedIn(R)
    PROVE  TypedIn(R \cup X)
<1>1. Pressed(R) \subseteq Pressed(R \cup X)
  BY DEF Pressed
<1>2. pressed \in Seq(Pressed(R \cup X))
  BY <1>1, SeqWidens DEF TypedIn
<1>3. QED
  BY <1>2 DEF TypedIn

LEMMA TabLengths ==
    ASSUME NEW R, TypedIn(R)
    PROVE  /\ Len(pressed) \in Nat /\ DOMAIN pressed = 1 .. Len(pressed)
           /\ \A k \in 1 .. Len(pressed) : pressed[k] \in Pressed(R)
  BY LenProperties, ElementOfSeq DEF TypedIn

\* What the main process makes of a request: a refused one changes nothing.
LEMMA Results ==
    ASSUME NEW R, NEW q \in Pressed(R)
    PROVE  /\ L!Result(q) = [ok |-> L!Result(q).ok, rows |-> L!Result(q).rows]
           /\ L!Result(q).ok \in BOOLEAN
           /\ ~L!Result(q).ok => L!Result(q).rows = value[q.table]
           /\ q.what = "list" => L!Result(q) = [ok |-> TRUE, rows |-> value[q.table]]
<1>1. CASE q.what = "list"
  BY <1>1 DEF L!Result
<1>2. CASE q.what = "add"
  BY <1>2 DEF L!Result, L!AddLookupValue
<1>3. CASE q.what = "rename"
  BY <1>3 DEF L!Result, L!RenameLookupValue
<1>4. CASE q.what = "active"
  BY <1>4 DEF L!Result, L!SetLookupActive
<1>5. QED
  BY <1>1, <1>2, <1>3, <1>4 DEF Pressed

LEMMA HandleKeeps ==
    ASSUME TabInv, L!Handle
    PROVE  TabInv'
<1>1. PICK R : TypedIn(R)
  BY DEF TabInv, TabTypes
<1>2. /\ Len(pressed) \in Nat /\ DOMAIN pressed = 1 .. Len(pressed)
      /\ \A k \in 1 .. Len(pressed) : pressed[k] \in Pressed(R)
  BY <1>1, TabLengths
<1>3. PICK k \in 1 .. Len(pressed) :
         /\ ~pressed[k].handled /\ \A j \in 1 .. k - 1 : pressed[j].handled
         /\ value' = [value EXCEPT ![pressed[k].table] = L!Result(pressed[k]).rows]
         /\ pressed' = [pressed EXCEPT ![k].handled = TRUE,
                                       ![k].answer = L!Result(pressed[k])]
         /\ UNCHANGED lookupsTab
  BY <1>2 DEF L!Handle
<1>4. PICK X : X = R \cup {L!Result(pressed[k]).rows}
  OBVIOUS
<1>5. TypedIn(X) /\ L!Result(pressed[k]).rows \in X
  BY <1>1, <1>4, Widens
<1>6. pressed[k] \in Pressed(X)
  BY <1>5, TabLengths
<1>7. PICK q : q = [pressed[k] EXCEPT !.handled = TRUE, !.answer = L!Result(pressed[k])]
  OBVIOUS
<1>8. /\ q \in Pressed(X) /\ q.handled /\ q.answer = L!Result(pressed[k])
      /\ q.what = pressed[k].what /\ q.awaited = pressed[k].awaited
      /\ q.table = pressed[k].table
  <2>1. PICK a : a = L!Result(pressed[k])
    OBVIOUS
  <2>2. a = [ok |-> a.ok, rows |-> a.rows] /\ a.ok \in BOOLEAN /\ a.rows \in X
    BY <1>5, <1>6, <2>1, Results
  <2>3. a \in [ok : BOOLEAN, rows : X]
    BY <2>2
  <2>4. q = [pressed[k] EXCEPT !.handled = TRUE, !.answer = a]
    BY <1>7, <2>1
  <2>5. QED
    BY <1>6, <2>1, <2>3, <2>4 DEF Pressed
<1>9. pressed' = [pressed EXCEPT ![k] = q]
  BY <1>2, <1>3, <1>7
<1>10. /\ pressed' \in Seq(Pressed(X)) /\ Len(pressed') = Len(pressed) /\ pressed'[k] = q
       /\ \A j \in 1 .. Len(pressed) : j # k => pressed'[j] = pressed[j]
  BY <1>2, <1>5, <1>8, <1>9, ExceptSeq DEF TypedIn
<1>11. /\ pressed[k].table \in Tables /\ value' \in [Tables -> X]
       /\ value'[pressed[k].table] = L!Result(pressed[k]).rows
       /\ \A t \in Tables : t # pressed[k].table => value'[t] = value[t]
  BY <1>2, <1>3, <1>5 DEF TypedIn, Pressed
<1>12. TypedIn(X)'
  BY <1>3, <1>5, <1>10, <1>11 DEF TypedIn
<1>13. InOrder'
  <2>1. \A i \in 1 .. Len(pressed) : i < k => pressed[i].handled
    BY <1>2, <1>3
  <2>2. QED
    BY <1>2, <1>3, <1>8, <1>10, <2>1 DEF TabInv, InOrder
<1>14. TabFollows'
  <2>1. SUFFICES ASSUME lookupsTab.mounted
                 PROVE  (\E s \in 0 .. Len(pressed) :
                            /\ OwnFrom(s)
                            /\ (s # 0 /\ ~pressed[s].handled) \/ LastIsTrue(s))'
    BY <1>3 DEF TabFollows
  <2>2. PICK s \in 0 .. Len(pressed) :
           /\ OwnFrom(s)
           /\ (s # 0 /\ ~pressed[s].handled) \/ LastIsTrue(s)
    BY <2>1 DEF TabInv, TabFollows
  <2>3. lookupsTab.table \in Tables
    BY <1>1 DEF TypedIn
  <2>4. pressed[k] \in Pressed(R)
    BY <1>2
  <2>5. OwnFrom(s)'
    BY <1>2, <1>3, <1>8, <1>10, <2>2, <2>4, Results DEF OwnFrom
  <2>6. CASE k < s
    <3>1. s # 0 /\ ~pressed'[s].handled
      BY <1>2, <1>3, <1>10, <2>6 DEF TabInv, InOrder
    <3>2. QED
      BY <1>10, <2>2, <2>5, <3>1
  <2>7. CASE k >= s
    <3>1. \A j \in 1 .. Len(pressed) : j > k => ~pressed[j].handled
      BY <1>2, <1>3 DEF TabInv, InOrder
    <3>2. pressed[k].table = lookupsTab.table /\ (k > s => pressed[k].what # "list")
      BY <1>2, <2>2, <2>7 DEF OwnFrom
    <3>3. CASE L!Result(pressed[k]).ok
      <4>1. Fine(k)' /\ \A j \in 1 .. Len(pressed) : j > k => ~Fine(j)'
        BY <1>2, <1>8, <1>10, <3>1, <3>3 DEF Fine
      <4>2. pressed'[k].answer.rows = value'[lookupsTab.table]
        BY <1>8, <1>10, <1>11, <3>2
      <4>3. ASSUME NEW i \in 1 .. Len(pressed), \A j \in 1 .. Len(pressed) : j > i => ~Fine(j)',
                   Fine(i)'
            PROVE  i = k
        BY <1>2, <4>1, <4>3
      <4>4. LastIsTrue(s)'
        BY <1>3, <1>10, <4>1, <4>2, <4>3 DEF LastIsTrue
      <4>5. QED
        BY <1>10, <2>2, <2>5, <4>4
    <3>4. CASE ~L!Result(pressed[k]).ok
      <4>1. value'[lookupsTab.table] = value[lookupsTab.table]
        BY <1>11, <2>4, <3>2, <3>4, Results
      <4>2. pressed[k].what # "list" /\ k > s
        BY <1>2, <2>2, <2>4, <2>7, <3>2, <3>4, Results DEF OwnFrom
      <4>3. \A j \in 1 .. Len(pressed) : Fine(j)' <=> Fine(j)
        BY <1>3, <1>8, <1>10, <3>4 DEF Fine
      <4>4. s # 0 => pressed[s].handled
        BY <1>2, <1>3, <4>2
      <4>5. LastIsTrue(s)
        BY <2>2, <4>4
      <4>6. \A i \in 1 .. Len(pressed) : Fine(i) => pressed'[i].answer = pressed[i].answer
        BY <1>3, <1>10 DEF Fine
      <4>7. LastIsTrue(s)'
        BY <1>3, <1>10, <4>1, <4>3, <4>5, <4>6 DEF LastIsTrue
      <4>8. QED
        BY <1>10, <2>2, <2>5, <4>7
    <3>5. QED
      BY <3>3, <3>4
  <2>8. QED
    BY <1>2, <2>2, <2>6, <2>7
<1>15. QED
  BY <1>12, <1>13, <1>14 DEF TabInv, TabTypes

\* The tab asks for something. Those who wait may be fewer.
LEMMA AskedMore ==
    ASSUME NEW R, TypedIn(R), NEW q \in Pressed(R), NEW before \in Seq(Pressed(R)),
           Len(before) = Len(pressed), Len(pressed) < MaxPresses,
           \A k \in 1 .. Len(pressed) : before[k].handled = pressed[k].handled,
           ~q.handled, InOrder, lookupsTab'.mounted, UNCHANGED value,
           lookupsTab' \in [mounted : BOOLEAN, table : Tables, rows : R],
           pressed' = Append(before, q)
    PROVE  /\ TypedIn(R)' /\ InOrder'
           /\ Len(pressed') = Len(pressed) + 1 /\ pressed'[Len(pressed) + 1] = q
           /\ \A k \in 1 .. Len(pressed) : pressed'[k] = before[k]
<1>1. Len(pressed) \in Nat
  BY TabLengths
<1>2. /\ pressed' \in Seq(Pressed(R))
      /\ Len(pressed') = Len(pressed) + 1 /\ pressed'[Len(pressed) + 1] = q
      /\ \A k \in 1 .. Len(pressed) : pressed'[k] = before[k]
  BY AppendProperties
<1>3. TypedIn(R)'
  BY <1>1, <1>2, TabGiven DEF TypedIn
<1>4. \A k \in 1 .. Len(pressed') : k \in 1 .. Len(pressed) \/ k = Len(pressed) + 1
  BY <1>1, <1>2
<1>5. InOrder'
  BY <1>1, <1>2, <1>4 DEF InOrder
<1>6. QED
  BY <1>2, <1>3, <1>5

\* Fewer wait.
LEMMA DroppedTypes ==
    ASSUME NEW R, TypedIn(R), NEW whats
    PROVE  /\ L!Dropped(whats) \in Seq(Pressed(R)) /\ Len(L!Dropped(whats)) = Len(pressed)
           /\ \A k \in 1 .. Len(pressed) :
                 /\ L!Dropped(whats)[k].handled = pressed[k].handled
                 /\ pressed[k].what \in whats => ~L!Dropped(whats)[k].awaited
<1>1. /\ Len(pressed) \in Nat /\ DOMAIN pressed = 1 .. Len(pressed)
      /\ \A k \in 1 .. Len(pressed) : pressed[k] \in Pressed(R)
  BY TabLengths
<1>2. \A k \in 1 .. Len(pressed) :
         /\ L!Dropped(whats)[k] = [pressed[k] EXCEPT
                !.awaited = pressed[k].awaited /\ pressed[k].what \notin whats]
  BY <1>1 DEF L!Dropped
<1>3. ASSUME NEW k \in 1 .. Len(pressed)
      PROVE  /\ L!Dropped(whats)[k] \in Pressed(R)
             /\ L!Dropped(whats)[k].handled = pressed[k].handled
             /\ pressed[k].what \in whats => ~L!Dropped(whats)[k].awaited
  <2>1. PICK w \in BOOLEAN : w = (pressed[k].awaited /\ pressed[k].what \notin whats)
    OBVIOUS
  <2>2. L!Dropped(whats)[k] = [pressed[k] EXCEPT !.awaited = w]
    BY <1>2, <2>1
  <2>3. pressed[k] \in Pressed(R)
    BY <1>1
  <2>4. QED
    BY <2>1, <2>2, <2>3 DEF Pressed
<1>4. L!Dropped(whats) \in [1 .. Len(pressed) -> Pressed(R)]
  BY <1>1, <1>3 DEF L!Dropped
<1>5. L!Dropped(whats) \in Seq(Pressed(R)) /\ Len(L!Dropped(whats)) = Len(pressed)
  BY <1>1, <1>4
<1>6. QED
  BY <1>3, <1>5

\* The list is asked for: from here on the requests are the tab's.
LEMMA ListingKeeps ==
    ASSUME TabInv, L!OpenTab \/ \E table \in Tables : L!ChooseTable(table)
    PROVE  TabInv'
<1>1. PICK R : TypedIn(R)
  BY DEF TabInv, TabTypes
<1>2. PICK table \in Tables :
         /\ L!OpenTab /\ table = FirstTable
         \/ L!ChooseTable(table)
  BY TabGiven
<1>3. PICK X : X = R \cup {<<>>, 0, ""}
  OBVIOUS
<1>4. TypedIn(X) /\ <<>> \in X /\ 0 \in X /\ "" \in X
  BY <1>1, <1>3, Widens
<1>5. PICK q : q = L!Request("list", table)
  OBVIOUS
<1>6. /\ q \in Pressed(X) /\ q.what = "list" /\ q.awaited /\ ~q.handled /\ q.table = table
  BY <1>4, <1>5 DEF L!Request, Pressed
<1>7. PICK before :
         /\ before = pressed \/ before = L!Dropped({"list"})
         /\ L!Ask(before, q)
  BY <1>2, <1>5 DEF L!OpenTab, L!ChooseTable
<1>8. /\ before \in Seq(Pressed(X)) /\ Len(before) = Len(pressed)
      /\ \A k \in 1 .. Len(pressed) : before[k].handled = pressed[k].handled
      /\ Len(pressed) \in Nat
  <2>1. pressed \in Seq(Pressed(X)) /\ Len(pressed) \in Nat
    BY <1>4, TabLengths DEF TypedIn
  <2>2. CASE before = pressed
    BY <2>1, <2>2
  <2>3. CASE before = L!Dropped({"list"})
    BY <1>4, <2>1, <2>3, DroppedTypes
  <2>4. QED
    BY <1>7, <2>2, <2>3
<1>9. Len(pressed) < MaxPresses /\ pressed' = Append(before, q)
  BY <1>7 DEF L!Ask
<1>10. /\ lookupsTab' \in [mounted : BOOLEAN, table : Tables, rows : X]
       /\ lookupsTab'.mounted /\ lookupsTab'.table = table /\ UNCHANGED value
  BY <1>2, <1>4, TabGiven DEF L!OpenTab, L!ChooseTable, L!Away, TypedIn
<1>11. /\ TypedIn(X)' /\ InOrder'
       /\ Len(pressed') = Len(pressed) + 1 /\ pressed'[Len(pressed) + 1] = q
  BY <1>4, <1>6, <1>8, <1>9, <1>10, AskedMore DEF TabInv
<1>12. TabFollows'
  <2>1. PICK s \in 0 .. Len(pressed') : s = Len(pressed) + 1
    BY <1>8, <1>11
  <2>2. s # 0 /\ s = Len(pressed')
    BY <1>8, <1>11, <2>1
  <2>3. OwnFrom(s)' /\ ~pressed'[s].handled
    BY <1>6, <1>10, <1>11, <2>1, <2>2 DEF OwnFrom
  <2>4. QED
    BY <2>2, <2>3 DEF TabFollows
<1>13. QED
  BY <1>11, <1>12 DEF TabInv, TabTypes

LEMMA PressKeeps ==
    ASSUME TabInv, L!Press
    PROVE  TabInv'
<1>1. PICK R : TypedIn(R)
  BY DEF TabInv, TabTypes
<1>2. lookupsTab.mounted /\ UNCHANGED <<value, lookupsTab>> /\ lookupsTab.table \in Tables
  BY <1>1 DEF L!Press, TypedIn
<1>3. ASSUME NEW what \in {"add", "rename", "active"}, NEW X, TypedIn(X), <<>> \in X,
             0 \in X, "" \in X
      PROVE  /\ L!Change(what) \in Pressed(X) /\ L!Change(what).what # "list"
             /\ L!Change(what).awaited /\ ~L!Change(what).handled
             /\ L!Change(what).table = lookupsTab.table
  BY <1>2, <1>3 DEF L!Change, L!Request, Pressed
<1>4. PICK X, q :
         /\ TypedIn(X) /\ L!Ask(pressed, q) /\ q \in Pressed(X)
         /\ q.what # "list" /\ q.awaited /\ ~q.handled /\ q.table = lookupsTab.table
  <2>1. CASE \E name \in NewNames : L!Ask(pressed, [L!Change("add") EXCEPT !.name = name])
    <3>1. PICK name : L!Ask(pressed, [L!Change("add") EXCEPT !.name = name])
      BY <2>1
    <3>2. PICK X : X = R \cup {<<>>, 0, "", name}
      OBVIOUS
    <3>3. TypedIn(X) /\ <<>> \in X /\ 0 \in X /\ "" \in X /\ name \in X
      BY <1>1, <3>2, Widens
    <3>4. PICK q : q = [L!Change("add") EXCEPT !.name = name]
      OBVIOUS
    <3>5. PICK c : c = L!Change("add")
      OBVIOUS
    <3>6. /\ c \in Pressed(X) /\ c.what # "list" /\ c.awaited /\ ~c.handled
          /\ c.table = lookupsTab.table
      BY <1>3, <3>3, <3>5
    <3>7. /\ q \in Pressed(X) /\ q.what # "list" /\ q.awaited /\ ~q.handled
          /\ q.table = lookupsTab.table
      BY <3>3, <3>4, <3>5, <3>6 DEF Pressed
    <3>8. QED
      BY <3>1, <3>3, <3>4, <3>7
  <2>2. CASE \E id : \E name :
                L!Ask(pressed, [L!Change("rename") EXCEPT !.id = id, !.name = name])
    <3>1. PICK id, name : L!Ask(pressed, [L!Change("rename") EXCEPT !.id = id, !.name = name])
      BY <2>2
    <3>2. PICK X : X = R \cup {<<>>, 0, "", id, name}
      OBVIOUS
    <3>3. TypedIn(X) /\ <<>> \in X /\ 0 \in X /\ "" \in X /\ id \in X /\ name \in X
      BY <1>1, <3>2, Widens
    <3>4. PICK q : q = [L!Change("rename") EXCEPT !.id = id, !.name = name]
      OBVIOUS
    <3>5. PICK c : c = L!Change("rename")
      OBVIOUS
    <3>6. /\ c \in Pressed(X) /\ c.what # "list" /\ c.awaited /\ ~c.handled
          /\ c.table = lookupsTab.table
      BY <1>3, <3>3, <3>5
    <3>7. /\ q \in Pressed(X) /\ q.what # "list" /\ q.awaited /\ ~q.handled
          /\ q.table = lookupsTab.table
      BY <3>3, <3>4, <3>5, <3>6 DEF Pressed
    <3>8. QED
      BY <3>1, <3>3, <3>4, <3>7
  <2>3. CASE \E id : L!Ask(pressed, [L!Change("active") EXCEPT !.id = id,
                                        !.active = ~lookupsTab.rows[id].active])
    <3>1. PICK id : L!Ask(pressed, [L!Change("active") EXCEPT !.id = id,
                                        !.active = ~lookupsTab.rows[id].active])
      BY <2>3
    <3>2. PICK X : X = R \cup {<<>>, 0, "", id}
      OBVIOUS
    <3>3. TypedIn(X) /\ <<>> \in X /\ 0 \in X /\ "" \in X /\ id \in X
      BY <1>1, <3>2, Widens
    <3>4. PICK on \in BOOLEAN : on = (~lookupsTab.rows[id].active)
      OBVIOUS
    <3>5. PICK q : q = [L!Change("active") EXCEPT !.id = id, !.active = on]
      OBVIOUS
    <3>6. PICK c : c = L!Change("active")
      OBVIOUS
    <3>7. /\ c \in Pressed(X) /\ c.what # "list" /\ c.awaited /\ ~c.handled
          /\ c.table = lookupsTab.table
      BY <1>3, <3>3, <3>6
    <3>8. /\ q \in Pressed(X) /\ q.what # "list" /\ q.awaited /\ ~q.handled
          /\ q.table = lookupsTab.table
      BY <3>3, <3>5, <3>6, <3>7 DEF Pressed
    <3>9. L!Ask(pressed, q)
      BY <3>1, <3>4, <3>5
    <3>10. QED
      BY <3>3, <3>8, <3>9
  <2>4. QED
    BY <2>1, <2>2, <2>3 DEF L!Press
<1>6. TypedIn(X)
  BY <1>4
<1>7. /\ q \in Pressed(X) /\ q.what # "list" /\ q.awaited /\ ~q.handled
      /\ q.table = lookupsTab.table
  BY <1>4
<1>8. Len(pressed) < MaxPresses /\ pressed' = Append(pressed, q)
  BY <1>4 DEF L!Ask
<1>9. /\ TypedIn(X)' /\ InOrder'
      /\ Len(pressed') = Len(pressed) + 1 /\ pressed'[Len(pressed) + 1] = q
      /\ \A k \in 1 .. Len(pressed) : pressed'[k] = pressed[k]
  <2>1. pressed \in Seq(Pressed(X))
        /\ lookupsTab' \in [mounted : BOOLEAN, table : Tables, rows : X]
    BY <1>2, <1>6 DEF TypedIn
  <2>2. QED
    BY <1>2, <1>6, <1>7, <1>8, <2>1, AskedMore DEF TabInv
<1>10. TabFollows'
  <2>1. PICK s \in 0 .. Len(pressed) :
           /\ OwnFrom(s)
           /\ (s # 0 /\ ~pressed[s].handled) \/ LastIsTrue(s)
    BY <1>2 DEF TabInv, TabFollows
  <2>2. Len(pressed) \in Nat /\ s \in 0 .. Len(pressed')
        /\ \A k \in 1 .. Len(pressed') : k \in 1 .. Len(pressed) \/ k = Len(pressed) + 1
    BY <1>6, <1>9, TabLengths
  <2>3. OwnFrom(s)'
    BY <1>2, <1>7, <1>9, <2>1, <2>2 DEF OwnFrom
  <2>4. /\ \A k \in 1 .. Len(pressed) : Fine(k)' <=> Fine(k)
        /\ \A k \in 1 .. Len(pressed') : k \notin 1 .. Len(pressed) => ~Fine(k)'
    BY <1>7, <1>9, <2>2 DEF Fine
  <2>5. CASE s # 0 /\ ~pressed[s].handled
    BY <1>9, <2>1, <2>2, <2>3, <2>5 DEF TabFollows
  <2>6. CASE LastIsTrue(s)
    <3>1. LastIsTrue(s)'
      BY <1>2, <1>9, <2>2, <2>4, <2>6 DEF LastIsTrue, Fine
    <3>2. QED
      BY <2>2, <2>3, <3>1 DEF TabFollows
  <2>7. QED
    BY <2>1, <2>5, <2>6
<1>11. QED
  BY <1>9, <1>10 DEF TabInv, TabTypes

\* An answer is taken, in order: it is not the tab's, or it is overtaken by a later one of
\* its own, or it is what the screen shows from here on.
LEMMA DeliverKeeps ==
    ASSUME TabInv, L!Deliver
    PROVE  TabInv'
<1>1. PICK R : TypedIn(R)
  BY DEF TabInv, TabTypes
<1>2. /\ Len(pressed) \in Nat /\ pressed \in Seq(Pressed(R))
      /\ \A k \in 1 .. Len(pressed) : pressed[k] \in Pressed(R)
      /\ Len(pressed) <= MaxPresses
      /\ lookupsTab \in [mounted : BOOLEAN, table : Tables, rows : R]
  BY <1>1, TabLengths DEF TypedIn
<1>3. PICK q : q = pressed[1]
  OBVIOUS
<1>4. /\ pressed # <<>> /\ Head(pressed) = q
      /\ pressed' \in Seq(Pressed(R)) /\ Len(pressed') = Len(pressed) - 1
      /\ Len(pressed) >= 1 /\ q \in Pressed(R)
      /\ \A k \in 1 .. Len(pressed') : pressed'[k] = pressed[k + 1]
  BY <1>2, <1>3, HeadTailProperties, EmptySeq DEF L!Deliver
<1>5. /\ q.handled /\ UNCHANGED value
      /\ lookupsTab' = IF q.awaited /\ q.answer.ok
                       THEN [lookupsTab EXCEPT !.rows = q.answer.rows] ELSE lookupsTab
  BY <1>4 DEF L!Deliver
<1>6. /\ lookupsTab' \in [mounted : BOOLEAN, table : Tables, rows : R]
      /\ lookupsTab'.mounted = lookupsTab.mounted /\ lookupsTab'.table = lookupsTab.table
      /\ lookupsTab'.rows = IF q.awaited /\ q.answer.ok THEN q.answer.rows
                            ELSE lookupsTab.rows
  BY <1>2, <1>4, <1>5 DEF Pressed
<1>7. TypedIn(R)'
  BY <1>1, <1>2, <1>4, <1>5, <1>6, TabGiven DEF TypedIn
<1>8. \A k \in 1 .. Len(pressed') : k + 1 \in 1 .. Len(pressed) /\ k \in Nat
  BY <1>2, <1>4
<1>9. InOrder'
  <2>1. ASSUME NEW k \in 1 .. Len(pressed'), NEW j \in 1 .. Len(pressed'), j < k,
               pressed'[k].handled
        PROVE  pressed'[j].handled
    <3>1. j + 1 < k + 1
      BY <1>8, <2>1
    <3>2. QED
      BY <1>4, <1>8, <2>1, <3>1 DEF TabInv, InOrder
  <2>2. ~lookupsTab.mounted => \A k \in 1 .. Len(pressed') : ~pressed'[k].awaited
    BY <1>4, <1>8 DEF TabInv, InOrder
  <2>3. QED
    BY <1>6, <2>1, <2>2 DEF InOrder
<1>10. TabFollows'
  <2>1. SUFFICES ASSUME lookupsTab.mounted
                 PROVE  (\E s \in 0 .. Len(pressed) :
                            /\ OwnFrom(s)
                            /\ (s # 0 /\ ~pressed[s].handled) \/ LastIsTrue(s))'
    BY <1>6 DEF TabFollows
  <2>2. PICK s \in 0 .. Len(pressed) :
           /\ OwnFrom(s)
           /\ (s # 0 /\ ~pressed[s].handled) \/ LastIsTrue(s)
    BY <2>1 DEF TabInv, TabFollows
  <2>3. \A k \in 1 .. Len(pressed') : Fine(k)' <=> Fine(k + 1)
    BY <1>4 DEF Fine
  <2>4. CASE s > 1
    <3>1. PICK n : n = s - 1
      OBVIOUS
    <3>2. n \in 0 .. Len(pressed') /\ n # 0 /\ n + 1 = s /\ n \in 1 .. Len(pressed')
      BY <1>2, <1>4, <2>2, <2>4, <3>1
    <3>3. pressed'[n] = pressed[s]
      BY <1>4, <3>2
    <3>4. \A k \in 1 .. Len(pressed') : (k > n => k + 1 > s) /\ (k >= n => k + 1 >= s)
      BY <1>8, <3>2
    <3>5. OwnFrom(n)'
      BY <1>4, <1>6, <1>8, <2>2, <2>4, <3>2, <3>3, <3>4 DEF OwnFrom
    <3>6. CASE ~pressed[s].handled
      BY <3>2, <3>3, <3>5, <3>6
    <3>7. CASE LastIsTrue(s)
      <4>1. ASSUME NEW k \in 1 .. Len(pressed'), k >= n, Fine(k)',
                   \A j \in 1 .. Len(pressed') : j > k => ~Fine(j)'
            PROVE  pressed'[k].answer.rows = value[lookupsTab.table]
        <5>1. ASSUME NEW j \in 1 .. Len(pressed), j > k + 1 PROVE ~Fine(j)
          <6>1. j - 1 \in 1 .. Len(pressed') /\ j - 1 > k /\ (j - 1) + 1 = j
            BY <1>2, <1>4, <1>8, <5>1
          <6>2. QED
            BY <2>3, <4>1, <6>1
        <5>2. k + 1 \in 1 .. Len(pressed) /\ Fine(k + 1) /\ k + 1 >= s
          BY <1>8, <2>3, <3>4, <4>1
        <5>3. QED
          BY <1>4, <3>7, <5>1, <5>2 DEF LastIsTrue
      <4>2. LastIsTrue(n)'
        BY <1>5, <1>6, <3>2, <4>1 DEF LastIsTrue
      <4>3. QED
        BY <3>2, <3>5, <4>2
    <3>8. QED
      BY <2>2, <3>6, <3>7
  <2>5. CASE s <= 1
    <3>1. s \in {0, 1} /\ LastIsTrue(s)
      BY <1>2, <1>3, <1>5, <2>2, <2>5
    <3>2. /\ q.awaited
          /\ s = 1 => Fine(1)
      BY <1>2, <1>3, <1>4, <1>5, <2>2, <3>1 DEF OwnFrom, Fine
    <3>3. OwnFrom(0)'
      <4>1. \A k \in 1 .. Len(pressed') : k + 1 > s
        BY <1>8, <3>1
      <4>2. QED
        BY <1>4, <1>6, <1>8, <2>2, <4>1 DEF OwnFrom
    <3>4. ASSUME NEW k \in 1 .. Len(pressed'), Fine(k)',
                 \A j \in 1 .. Len(pressed') : j > k => ~Fine(j)'
          PROVE  pressed'[k].answer.rows = value[lookupsTab.table]
      <4>1. ASSUME NEW j \in 1 .. Len(pressed), j > k + 1 PROVE ~Fine(j)
        <5>1. j - 1 \in 1 .. Len(pressed') /\ j - 1 > k /\ (j - 1) + 1 = j
          BY <1>2, <1>4, <1>8, <4>1
        <5>2. QED
          BY <2>3, <3>4, <5>1
      <4>2. k + 1 \in 1 .. Len(pressed) /\ Fine(k + 1) /\ k + 1 >= s
        BY <1>8, <2>3, <3>1, <3>4
      <4>3. QED
        BY <1>4, <3>1, <4>1, <4>2 DEF LastIsTrue
    <3>5. ASSUME \A j \in 1 .. Len(pressed') : ~Fine(j)'
          PROVE  lookupsTab'.rows = value[lookupsTab.table]
      <4>1. \A j \in 1 .. Len(pressed) : j > 1 => ~Fine(j)
        <5>1. TAKE j \in 1 .. Len(pressed)
        <5>2. j > 1 => j - 1 \in 1 .. Len(pressed') /\ (j - 1) + 1 = j
          BY <1>2, <1>4
        <5>3. QED
          BY <2>3, <3>5, <5>2
      <4>2. 1 \in 1 .. Len(pressed)
        BY <1>2, <1>4
      <4>3. CASE Fine(1)
        <5>1. pressed[1].answer.rows = value[lookupsTab.table]
          BY <3>1, <4>1, <4>2, <4>3 DEF LastIsTrue
        <5>2. QED
          BY <1>3, <1>6, <3>2, <4>3, <5>1 DEF Fine
      <4>4. CASE ~Fine(1)
        <5>1. s = 0 /\ \A j \in 1 .. Len(pressed) : ~Fine(j)
          BY <1>2, <3>1, <3>2, <4>1, <4>4
        <5>2. QED
          BY <1>3, <1>5, <1>6, <3>1, <4>4, <5>1 DEF LastIsTrue, Fine
      <4>5. QED
        BY <4>3, <4>4
    <3>6. LastIsTrue(0)'
      BY <1>5, <1>6, <3>4, <3>5 DEF LastIsTrue
    <3>7. 0 \in 0 .. Len(pressed')
      BY <1>2, <1>4
    <3>8. QED
      BY <3>3, <3>6, <3>7
  <2>6. QED
    BY <1>2, <2>2, <2>4, <2>5
<1>11. QED
  BY <1>7, <1>9, <1>10 DEF TabInv, TabTypes

\* The tab is left, the records use their values on other pages, the program starts anew.
LEMMA AwayKeeps ==
    ASSUME TabInv, L!Leave \/ L!Record \/ L!Restart
    PROVE  TabInv'
<1>1. PICK R : TypedIn(R)
  BY DEF TabInv, TabTypes
<1>2. /\ Len(pressed) \in Nat /\ pressed \in Seq(Pressed(R))
      /\ \A k \in 1 .. Len(pressed) : pressed[k] \in Pressed(R)
      /\ Len(pressed) <= MaxPresses
      /\ value \in [Tables -> R]
  BY <1>1, TabLengths DEF TypedIn
<1>3. CASE L!Leave
  <2>1. PICK X : X = R \cup {<<>>}
    OBVIOUS
  <2>2. TypedIn(X) /\ <<>> \in X
    BY <1>1, <2>1, Widens
  <2>3. PICK whats : whats = {"list"} \cup L!Changes
    OBVIOUS
  <2>4. /\ pressed' = L!Dropped(whats) /\ UNCHANGED value
        /\ lookupsTab' = L!Away
    BY <1>3, <2>3 DEF L!Leave
  <2>5. L!Away \in [mounted : BOOLEAN, table : Tables, rows : X] /\ ~L!Away.mounted
    BY <2>2, TabGiven DEF L!Away
  <2>6. /\ pressed' \in Seq(Pressed(X)) /\ Len(pressed') = Len(pressed)
        /\ \A k \in 1 .. Len(pressed) :
              pressed'[k].handled = pressed[k].handled /\ ~pressed'[k].awaited
    BY <1>2, <2>2, <2>3, <2>4, DroppedTypes DEF L!Changes, Pressed
  <2>7. TypedIn(X)'
    BY <2>2, <2>4, <2>5, <2>6 DEF TypedIn
  <2>8. InOrder' /\ TabFollows'
    BY <2>4, <2>5, <2>6 DEF TabInv, InOrder, TabFollows
  <2>9. QED
    BY <2>7, <2>8 DEF TabInv, TabTypes
<1>4. CASE L!Record
  <2>1. ~lookupsTab.mounted /\ UNCHANGED <<lookupsTab, pressed>>
    BY <1>4 DEF L!Record
  <2>2. PICK became : \E table \in Tables : value' = [value EXCEPT ![table] = became]
    <3>1. PICK table \in Tables : \E id \in DOMAIN value[table] :
             \/ value' = [value EXCEPT ![table][id].used = @ + 1]
             \/ value' = [value EXCEPT ![table][id].used = @ - 1]
      BY <1>4 DEF L!Record
    <3>2. QED
      BY <3>1
  <2>3. PICK X : X = R \cup {became}
    OBVIOUS
  <2>4. TypedIn(X) /\ became \in X
    BY <1>1, <2>3, Widens
  <2>5. TypedIn(X)'
    BY <2>1, <2>2, <2>4 DEF TypedIn
  <2>6. InOrder' /\ TabFollows'
    BY <2>1 DEF TabInv, InOrder, TabFollows
  <2>7. QED
    BY <2>5, <2>6 DEF TabInv, TabTypes
<1>5. CASE L!Restart
  <2>1. PICK became : became = [table \in Tables |-> L!WithSeeds(value[table], SeededValues[table])]
    OBVIOUS
  <2>2. value' = became /\ lookupsTab' = L!Away /\ pressed' = <<>>
    BY <1>5, <2>1 DEF L!Restart
  <2>3. PICK X : X = {became[table] : table \in Tables} \cup {<<>>}
    OBVIOUS
  <2>4. became \in [Tables -> X] /\ <<>> \in X
    BY <2>1, <2>3
  <2>5. L!Away \in [mounted : BOOLEAN, table : Tables, rows : X] /\ ~L!Away.mounted
    BY <2>4, TabGiven DEF L!Away
  <2>6. Len(pressed') = 0 /\ pressed' \in Seq(Pressed(X))
    BY <2>2, EmptySeq
  <2>7. TypedIn(X)'
    BY <2>2, <2>4, <2>5, <2>6, TabGiven DEF TypedIn
  <2>8. InOrder' /\ TabFollows'
    BY <2>2, <2>5, <2>6 DEF InOrder, TabFollows
  <2>9. QED
    BY <2>7, <2>8 DEF TabInv, TabTypes
<1>6. QED
  BY <1>3, <1>4, <1>5

LEMMA TabStarts == L!Init => TabInv
<1>1. SUFFICES ASSUME L!Init PROVE TabInv
  OBVIOUS
<1>2. PICK X : X = {value[table] : table \in Tables} \cup {<<>>}
  OBVIOUS
<1>3. value \in [Tables -> X] /\ <<>> \in X /\ lookupsTab = L!Away /\ pressed = <<>>
  BY <1>1, <1>2 DEF L!Init
<1>4. L!Away \in [mounted : BOOLEAN, table : Tables, rows : X] /\ ~L!Away.mounted
  BY <1>3, TabGiven DEF L!Away
<1>5. Len(pressed) = 0 /\ pressed \in Seq(Pressed(X))
  BY <1>3, EmptySeq
<1>6. TypedIn(X)
  BY <1>3, <1>4, <1>5, TabGiven DEF TypedIn
<1>7. InOrder /\ TabFollows
  BY <1>3, <1>4, <1>5 DEF InOrder, TabFollows
<1>8. QED
  BY <1>6, <1>7 DEF TabInv, TabTypes

LEMMA TabStays == TabInv /\ [L!Next]_L!vars => TabInv'
<1>1. SUFFICES ASSUME TabInv, [L!Next]_L!vars PROVE TabInv'
  OBVIOUS
<1>2. CASE UNCHANGED L!vars
  <2>1. UNCHANGED <<value, lookupsTab, pressed>>
    BY <1>2 DEF L!vars
  <2>2. TabTypes' /\ InOrder'
    BY <1>1, <2>1 DEF TabInv, TabTypes, TypedIn, InOrder
  <2>3. TabFollows'
    BY <1>1, <2>1 DEF TabInv, TabFollows, OwnFrom, LastIsTrue, Fine
  <2>4. QED
    BY <2>2, <2>3 DEF TabInv
<1>3. QED
  BY <1>1, <1>2, HandleKeeps, ListingKeeps, PressKeeps, DeliverKeeps, AwayKeeps DEF L!Next

\* The tab's own requests are behind its list, and the last of their answers is what the
\* table holds, in every state (LookupsTab's run and useAsync).
THEOREM TabHolds == L!Spec => []TabInv
  BY TabStarts, TabStays, PTL DEF L!Spec

LEMMA ValuesAreCurrent == TabInv => L!ListIsCurrent
<1>1. SUFFICES ASSUME TabInv, lookupsTab.mounted, pressed = <<>>
               PROVE  lookupsTab.rows = value[lookupsTab.table]
  BY DEF L!ListIsCurrent
<1>2. Len(pressed) = 0
  BY <1>1, EmptySeq
<1>3. PICK s \in 0 .. Len(pressed) : (s # 0 /\ ~pressed[s].handled) \/ LastIsTrue(s)
  BY <1>1 DEF TabInv, TabFollows
<1>4. s = 0
  BY <1>2
<1>5. QED
  BY <1>2, <1>3, <1>4 DEF LastIsTrue

\* At rest the honours' list and the lists of values show what their tables hold
\* (VowItemsTab and useAsync, LookupsTab).
THEOREM ListAlwaysCurrent == V!Spec /\ L!Spec => []ListIsCurrent
<1>1. PageInv /\ TabInv => ListIsCurrent
  BY HonoursAreCurrent, ValuesAreCurrent DEF ListIsCurrent
<1>2. QED
  BY <1>1, PageHolds, TabHolds, PTL

-----------------------------------------------------------------------------
(* The editor of templates: TemplateEditor.                                    *)

\* What the page and its requests hold; the contents play no part.
Edited(R) == [selected : R, name : R, body : R, member : R, verdict : R, preview : R,
              busy : BOOLEAN]
Wanted(R) == [kind : {"list", "member", "save", "remove", "validate", "render"},
              id : R, selected : R, name : R, body : R, member : R]

EditorTypes == rest \in BOOLEAN /\ \E R : editor \in Edited(R)
WantedTypes == \E R : asked \in Seq(Wanted(R))

\* The last request of its kind.
LastOf(kind, i) ==
    /\ i \in 1 .. Len(asked) /\ asked[i].kind = kind
    /\ \A j \in 1 .. Len(asked) : j > i => asked[j].kind # kind
NoneOf(kind) == \A i \in 1 .. Len(asked) : asked[i].kind # kind

\* At rest the text that was asked about last is the one on the screen.
VerdictFollows ==
    ~rest =>
        /\ NoneOf("validate") => editor.verdict = T!ValidateTemplate(editor.body)
        /\ \A i : LastOf("validate", i) => asked[i].body = editor.body
TextFollows ==
    ~rest /\ editor.member # NoReader /\ T!Words(editor.body) # {} =>
        /\ NoneOf("render") => editor.preview = T!RenderTemplate(editor.body, editor.member)
        /\ \A i : LastOf("render", i) =>
              asked[i].body = editor.body /\ asked[i].member = editor.member

EditorInv == EditorTypes /\ WantedTypes /\ VerdictFollows /\ TextFollows

\* A step that leaves the requests of a kind: they are where they were, or one place on.
Same(kind) ==
    \E d \in {0, 1} :
        /\ \A i \in 1 .. Len(asked) : asked[i].kind = kind =>
              i - d \in 1 .. Len(asked') /\ asked'[i - d] = asked[i]
        /\ \A i \in 1 .. Len(asked') : asked'[i].kind = kind =>
              i + d \in 1 .. Len(asked) /\ asked[i + d] = asked'[i]

LEMMA WantedLengths ==
    ASSUME WantedTypes
    PROVE  Len(asked) \in Nat /\ DOMAIN asked = 1 .. Len(asked)
  BY LenProperties DEF WantedTypes

LEMMA WantedWidens ==
    ASSUME NEW A, NEW B
    PROVE  Wanted(A) \subseteq Wanted(A \cup B) /\ Wanted(B) \subseteq Wanted(A \cup B)
  BY DEF Wanted

LEMMA LastStays ==
    ASSUME WantedTypes, WantedTypes', NEW kind, Same(kind)
    PROVE  /\ NoneOf(kind)' => NoneOf(kind)
           /\ \A i : LastOf(kind, i)' => \E k : LastOf(kind, k) /\ asked[k] = asked'[i]
<1>1. Len(asked) \in Nat /\ Len(asked') \in Nat
  BY WantedLengths
<1>2. PICK d \in {0, 1} :
        /\ \A i \in 1 .. Len(asked) : asked[i].kind = kind =>
              i - d \in 1 .. Len(asked') /\ asked'[i - d] = asked[i]
        /\ \A i \in 1 .. Len(asked') : asked'[i].kind = kind =>
              i + d \in 1 .. Len(asked) /\ asked[i + d] = asked'[i]
  BY DEF Same
<1>3. NoneOf(kind)' => NoneOf(kind)
  BY <1>2 DEF NoneOf
<1>4. ASSUME NEW i, LastOf(kind, i)'
      PROVE  LastOf(kind, i + d) /\ asked[i + d] = asked'[i]
  <2>1. i \in 1 .. Len(asked') /\ asked'[i].kind = kind
    BY <1>4 DEF LastOf
  <2>2. i + d \in 1 .. Len(asked) /\ asked[i + d] = asked'[i]
    BY <1>2, <2>1
  <2>3. ASSUME NEW j \in 1 .. Len(asked), j > i + d, asked[j].kind = kind
        PROVE  FALSE
    <3>1. j - d \in 1 .. Len(asked') /\ asked'[j - d].kind = kind
      BY <1>2, <2>3
    <3>2. j - d > i
      BY <1>1, <2>1, <2>3
    <3>3. QED
      BY <1>4, <3>1, <3>2 DEF LastOf
  <2>4. QED
    BY <2>1, <2>2, <2>3 DEF LastOf
<1>5. QED
  BY <1>3, <1>4

\* What the page shows stays, and its text too while it rests.
LEMMA VerdictKeeps ==
    ASSUME EditorInv, WantedTypes', Same("validate"),
           editor'.verdict = editor.verdict,
           ~rest' => ~rest /\ editor'.body = editor.body
    PROVE  VerdictFollows'
<1>1. SUFFICES ASSUME ~rest'
               PROVE  /\ NoneOf("validate")' =>
                            editor'.verdict = T!ValidateTemplate(editor'.body)
                      /\ \A i : LastOf("validate", i)' => asked'[i].body = editor'.body
  BY DEF VerdictFollows
<1>2. /\ NoneOf("validate")' => NoneOf("validate")
      /\ \A i : LastOf("validate", i)' => \E k : LastOf("validate", k) /\ asked[k] = asked'[i]
  BY LastStays DEF EditorInv
<1>3. QED
  BY <1>1, <1>2 DEF EditorInv, VerdictFollows

LEMMA TextKeeps ==
    ASSUME EditorInv, WantedTypes', Same("render"),
           editor'.preview = editor.preview,
           ~rest' => ~rest /\ editor'.body = editor.body /\ editor'.member = editor.member
    PROVE  TextFollows'
<1>1. SUFFICES ASSUME ~rest', editor'.member # NoReader, T!Words(editor'.body) # {}
               PROVE  /\ NoneOf("render")' =>
                            editor'.preview = T!RenderTemplate(editor'.body, editor'.member)
                      /\ \A i : LastOf("render", i)' =>
                            asked'[i].body = editor'.body /\ asked'[i].member = editor'.member
  BY DEF TextFollows
<1>2. /\ NoneOf("render")' => NoneOf("render")
      /\ \A i : LastOf("render", i)' => \E k : LastOf("render", k) /\ asked[k] = asked'[i]
  BY LastStays DEF EditorInv
<1>3. QED
  BY <1>1, <1>2 DEF EditorInv, TextFollows

\* A request is appended, or not; and one was answered, or not.
LEMMA MoreWanted ==
    ASSUME WantedTypes, NEW A, NEW q \in Wanted(A),
           asked' = asked \o <<q>> \/ asked' = Append(asked, q)
    PROVE  WantedTypes' /\ \A kind : kind # q.kind => Same(kind)
<1>1. PICK R : asked \in Seq(Wanted(R))
  BY DEF WantedTypes
<1>2. asked \in Seq(Wanted(R \cup A)) /\ q \in Wanted(R \cup A)
  BY <1>1, SeqWidens, WantedWidens
<1>3. Len(asked) \in Nat
  BY WantedLengths
<1>4. /\ asked' \in Seq(Wanted(R \cup A)) /\ Len(asked') = Len(asked) + 1
      /\ asked'[Len(asked) + 1] = q
      /\ \A i \in 1 .. Len(asked) : asked'[i] = asked[i]
  <2>1. CASE asked' = Append(asked, q)
    BY <1>2, <2>1, AppendProperties
  <2>2. CASE asked' = asked \o <<q>>
    <3>1. <<q>> \in Seq(Wanted(R \cup A)) /\ Len(<<q>>) = 1 /\ <<q>>[1] = q
      BY <1>2
    <3>2. QED
      BY <1>2, <1>3, <2>2, <3>1, ConcatProperties
  <2>3. QED
    BY <2>1, <2>2
<1>5. ASSUME NEW kind, kind # q.kind PROVE Same(kind)
  <2>1. \A i \in 1 .. Len(asked') : i \in 1 .. Len(asked) \/ i = Len(asked) + 1
    BY <1>3, <1>4
  <2>2. \A i \in 1 .. Len(asked) : i - 0 = i /\ i + 0 = i /\ i \in 1 .. Len(asked')
    BY <1>3, <1>4
  <2>3. QED
    BY <1>4, <1>5, <2>1, <2>2 DEF Same
<1>6. QED
  BY <1>4, <1>5 DEF WantedTypes

LEMMA Answered ==
    ASSUME WantedTypes, asked # <<>>, NEW A, NEW q \in Wanted(A),
           \/ asked' = Tail(asked) \/ asked' = Tail(asked) \o <<>>
           \/ asked' = Tail(asked) \o <<q>> \/ asked' = Append(Tail(asked), q)
    PROVE  /\ WantedTypes' /\ Head(asked) = asked[1]
           /\ \A kind : kind # q.kind /\ kind # asked[1].kind => Same(kind)
<1>1. PICK R : asked \in Seq(Wanted(R))
  BY DEF WantedTypes
<1>2. asked \in Seq(Wanted(R \cup A)) /\ q \in Wanted(R \cup A)
  BY <1>1, SeqWidens, WantedWidens
<1>3. PICK n \in Nat : Len(asked) = n + 1
  <2>1. Len(asked) \in Nat /\ Len(asked) # 0
    BY <1>2, EmptySeq, WantedLengths
  <2>2. Len(asked) - 1 \in Nat /\ Len(asked) = (Len(asked) - 1) + 1
    BY <2>1
  <2>3. QED
    BY <2>2
<1>4. /\ Head(asked) = asked[1]
      /\ Tail(asked) \in Seq(Wanted(R \cup A)) /\ Len(Tail(asked)) = n
      /\ \A i \in 1 .. n : Tail(asked)[i] = asked[i + 1]
  <2>1. /\ Tail(asked) \in Seq(Wanted(R \cup A)) /\ Len(Tail(asked)) = Len(asked) - 1
        /\ \A i \in 1 .. Len(Tail(asked)) : Tail(asked)[i] = asked[i + 1]
    BY <1>2, HeadTailProperties
  <2>2. Len(Tail(asked)) = n
    BY <1>3, <2>1
  <2>3. Head(asked) = asked[1]
    BY <1>2
  <2>4. QED
    BY <2>1, <2>2, <2>3
<1>5. /\ asked' \in Seq(Wanted(R \cup A)) /\ Len(asked') \in {n, n + 1}
      /\ \A i \in 1 .. n : asked'[i] = asked[i + 1]
      /\ Len(asked') = n + 1 => asked'[n + 1] = q
  <2>1. n # n + 1
    OBVIOUS
  <2>2. CASE asked' = Tail(asked) \/ asked' = Tail(asked) \o <<>>
    BY <1>4, <2>1, <2>2, ConcatEmptySeq
  <2>3. CASE asked' = Append(Tail(asked), q)
    BY <1>2, <1>4, <2>3, AppendProperties
  <2>4. CASE asked' = Tail(asked) \o <<q>>
    <3>1. <<q>> \in Seq(Wanted(R \cup A)) /\ Len(<<q>>) = 1 /\ <<q>>[1] = q
      BY <1>2
    <3>2. /\ asked' \in Seq(Wanted(R \cup A)) /\ Len(asked') = n + 1
          /\ \A i \in 1 .. n + 1 :
                asked'[i] = IF i <= n THEN Tail(asked)[i] ELSE <<q>>[i - n]
      BY <1>2, <1>4, <2>4, <3>1, ConcatProperties
    <3>3. /\ n + 1 \in 1 .. n + 1 /\ ~(n + 1 <= n) /\ (n + 1) - n = 1
          /\ \A i \in 1 .. n : i \in 1 .. n + 1 /\ i <= n
      OBVIOUS
    <3>4. QED
      BY <1>4, <3>1, <3>2, <3>3
  <2>5. QED
    BY <2>2, <2>3, <2>4
<1>6. ASSUME NEW kind, kind # q.kind, kind # asked[1].kind PROVE Same(kind)
  <2>1. ASSUME NEW i \in 1 .. Len(asked), asked[i].kind = kind
        PROVE  i - 1 \in 1 .. Len(asked') /\ asked'[i - 1] = asked[i]
    <3>1. i # 1
      BY <1>6, <2>1
    <3>2. i - 1 \in 1 .. n /\ (i - 1) + 1 = i
      BY <1>3, <3>1
    <3>3. 1 .. n \subseteq 1 .. Len(asked')
      BY <1>5
    <3>4. QED
      BY <1>5, <3>2, <3>3
  <2>2. ASSUME NEW i \in 1 .. Len(asked'), asked'[i].kind = kind
        PROVE  i + 1 \in 1 .. Len(asked) /\ asked[i + 1] = asked'[i]
    <3>1. i \in 1 .. n \/ (i = n + 1 /\ Len(asked') = n + 1)
      BY <1>5
    <3>2. i \in 1 .. n
      BY <1>5, <1>6, <2>2, <3>1
    <3>3. i + 1 \in 1 .. Len(asked)
      BY <1>3, <3>2
    <3>4. QED
      BY <1>5, <3>2, <3>3
  <2>3. QED
    BY <2>1, <2>2 DEF Same
<1>7. QED
  BY <1>4, <1>5, <1>6 DEF WantedTypes

\* The page becomes e: what it shows stays, and while it rests its text and its member.
LEMMA Becoming ==
    ASSUME EditorTypes, NEW A, NEW e \in Edited(A), NEW rows, T!Becomes(e, rows),
           e.verdict = editor.verdict, e.preview = editor.preview
    PROVE  /\ EditorTypes'
           /\ editor'.verdict = editor.verdict /\ editor'.preview = editor.preview
           /\ ~rest' => ~rest /\ editor'.body = editor.body /\ editor'.member = editor.member
<1>1. PICK became :
         /\ \/ became = e
            \/ became = [e EXCEPT !.selected = rows[1].id, !.name = rows[1].name,
                                 !.body = rows[1].body]
         /\ editor' = became
         /\ rest' = (rest \/ became.body # editor.body \/ became.member # editor.member)
  BY DEF T!Becomes
<1>2. PICK B : B = A \cup {rows[1].id, rows[1].name, rows[1].body}
  OBVIOUS
<1>3. became \in Edited(B) /\ became.verdict = editor.verdict /\ became.preview = editor.preview
  <2>1. e \in Edited(B)
    BY <1>2 DEF Edited
  <2>2. rows[1].id \in B /\ rows[1].name \in B /\ rows[1].body \in B
    BY <1>2
  <2>3. QED
    BY <1>1, <2>1, <2>2 DEF Edited
<1>4. rest' \in BOOLEAN
  BY <1>1
<1>5. QED
  BY <1>1, <1>3, <1>4 DEF EditorTypes

\* A step that asks for nothing of the two kinds, and whose answers are of neither.
LEMMA OthersKeep ==
    ASSUME EditorInv, WantedTypes', EditorTypes', Same("validate"), Same("render"),
           editor'.verdict = editor.verdict, editor'.preview = editor.preview,
           ~rest' => ~rest /\ editor'.body = editor.body /\ editor'.member = editor.member
    PROVE  EditorInv'
  BY VerdictKeeps, TextKeeps DEF EditorInv

LEMMA AskedNothing ==
    ASSUME WantedTypes, UNCHANGED asked
    PROVE  WantedTypes' /\ \A kind : Same(kind)
<1>1. Len(asked) \in Nat
  BY WantedLengths
<1>2. \A i \in 1 .. Len(asked) : i - 0 = i /\ i + 0 = i
  BY <1>1
<1>3. QED
  BY <1>2 DEF WantedTypes, Same

Changed(s, n, b, m) == [editor EXCEPT !.selected = s, !.name = n, !.body = b, !.member = m]

\* Typing, choosing, starting anew.
LEMMA TypingKeeps ==
    ASSUME EditorInv, T!Edit \/ T!Select \/ T!StartNew \/ T!Duplicate
    PROVE  EditorInv'
<1>1. UNCHANGED asked
  BY DEF T!Edit, T!Select, T!StartNew, T!Duplicate
<1>2. WantedTypes' /\ Same("validate") /\ Same("render")
  BY <1>1, AskedNothing DEF EditorInv
<1>3. PICK R : editor \in Edited(R)
  BY DEF EditorInv, EditorTypes
<1>4. ASSUME NEW e, NEW rows, T!Becomes(e, rows), NEW A, e \in Edited(A),
             e.verdict = editor.verdict, e.preview = editor.preview
      PROVE  EditorInv'
  <2>1. /\ EditorTypes'
        /\ editor'.verdict = editor.verdict /\ editor'.preview = editor.preview
        /\ ~rest' => ~rest /\ editor'.body = editor.body /\ editor'.member = editor.member
    BY <1>4, Becoming DEF EditorInv
  <2>2. QED
    BY <1>2, <2>1, OthersKeep
<1>5. ASSUME NEW s, NEW n, NEW b, NEW m
      PROVE  /\ \E A : Changed(s, n, b, m) \in Edited(A)
             /\ Changed(s, n, b, m).verdict = editor.verdict
             /\ Changed(s, n, b, m).preview = editor.preview
  <2>1. PICK A : A = R \cup {s, n, b, m}
    OBVIOUS
  <2>2. editor \in Edited(A) /\ s \in A /\ n \in A /\ b \in A /\ m \in A
    BY <1>3, <2>1 DEF Edited
  <2>3. /\ Changed(s, n, b, m) \in Edited(A)
        /\ Changed(s, n, b, m).verdict = editor.verdict
        /\ Changed(s, n, b, m).preview = editor.preview
    BY <2>2 DEF Changed, Edited
  <2>4. QED
    BY <2>3
<1>6. \E s, n, b, m, rows : T!Becomes(Changed(s, n, b, m), rows)
  <2>1. \A n : [editor EXCEPT !.name = n] =
                  Changed(editor.selected, n, editor.body, editor.member)
    BY <1>3 DEF Changed, Edited
  <2>2. \A b : [editor EXCEPT !.body = b] =
                  Changed(editor.selected, editor.name, b, editor.member)
    BY <1>3 DEF Changed, Edited
  <2>3. \A m : [editor EXCEPT !.member = m] =
                  Changed(editor.selected, editor.name, editor.body, m)
    BY <1>3 DEF Changed, Edited
  <2>4. \A row : T!Opened(row) = Changed(row.id, row.name, row.body, editor.member)
    BY <1>3 DEF T!Opened, Changed, Edited
  <2>5. T!Emptied(editor) = Changed(0, 0, NoLetter, editor.member)
    BY <1>3 DEF T!Emptied, Changed, Edited
  <2>6. \A row, n : [T!Opened(row) EXCEPT !.selected = 0, !.name = n] =
                       Changed(0, n, row.body, editor.member)
    BY <1>3 DEF T!Opened, Changed, Edited
  <2>7. CASE \E n \in LetterNames : T!Becomes([editor EXCEPT !.name = n], texts)
    BY <2>1, <2>7
  <2>8. CASE \E b \in Letters : T!Becomes([editor EXCEPT !.body = b], texts)
    BY <2>2, <2>8
  <2>9. CASE \E m \in Readers : T!Becomes([editor EXCEPT !.member = m], texts)
    BY <2>3, <2>9
  <2>10. CASE T!Select
    BY <2>4, <2>10 DEF T!Select
  <2>11. CASE T!StartNew
    BY <2>5, <2>11 DEF T!StartNew
  <2>12. CASE T!Duplicate
    <3>1. PICK row, n : T!Becomes([T!Opened(row) EXCEPT !.selected = 0, !.name = n], texts)
      BY <2>12 DEF T!Duplicate
    <3>2. T!Becomes(Changed(0, n, row.body, editor.member), texts)
      BY <2>6, <3>1
    <3>3. QED
      BY <3>2
  <2>13. QED
    BY <2>7, <2>8, <2>9, <2>10, <2>11, <2>12 DEF T!Edit
<1>7. PICK s, n, b, m, rows : T!Becomes(Changed(s, n, b, m), rows)
  BY <1>6
<1>8. PICK e : e = Changed(s, n, b, m)
  OBVIOUS
<1>9. PICK A : e \in Edited(A)
  BY <1>5, <1>8
<1>10. T!Becomes(e, rows) /\ e.verdict = editor.verdict /\ e.preview = editor.preview
  BY <1>5, <1>7, <1>8
<1>11. QED
  BY <1>4, <1>9, <1>10

\* The requests that are neither of the two kinds, and their answers.
LEMMA RequestWanted ==
    ASSUME NEW kind \in {"list", "member", "save", "remove", "validate", "render"}
    PROVE  /\ T!Request(kind) \in Wanted({0, NoLetter, NoReader})
           /\ T!Request(kind).kind = kind
  BY DEF T!Request, Wanted

LEMMA AskingKeeps ==
    ASSUME EditorInv, T!SaveAsked \/ T!RemoveAsked
    PROVE  EditorInv'
<1>1. PICK R : editor \in Edited(R)
  BY DEF EditorInv, EditorTypes
<1>2. editor' = [editor EXCEPT !.busy = TRUE] /\ UNCHANGED rest
  BY DEF T!SaveAsked, T!RemoveAsked
<1>3. /\ editor' \in Edited(R)
      /\ editor'.verdict = editor.verdict /\ editor'.preview = editor.preview
      /\ editor'.body = editor.body /\ editor'.member = editor.member
  BY <1>1, <1>2 DEF Edited
<1>4. \E A : \E q \in Wanted(A) : q.kind \in {"save", "remove"} /\ asked' = asked \o <<q>>
  <2>1. CASE T!SaveAsked
    <3>1. PICK q : q = [T!Request("save") EXCEPT !.id = editor.selected, !.name = editor.name,
                                                 !.body = editor.body]
      OBVIOUS
    <3>2. PICK A : A = {0, NoLetter, NoReader, editor.selected, editor.name, editor.body}
      OBVIOUS
    <3>3. q \in Wanted(A) /\ q.kind = "save"
      BY <3>1, <3>2 DEF T!Request, Wanted
    <3>4. asked' = asked \o <<q>>
      BY <2>1, <3>1 DEF T!SaveAsked, T!Ask
    <3>5. QED
      BY <3>3, <3>4
  <2>2. CASE T!RemoveAsked
    <3>1. PICK row : T!Ask(<<[T!Request("remove") EXCEPT !.id = row.id,
                                                         !.selected = editor.selected]>>)
      BY <2>2 DEF T!RemoveAsked
    <3>2. PICK q : q = [T!Request("remove") EXCEPT !.id = row.id,
                                                   !.selected = editor.selected]
      OBVIOUS
    <3>3. PICK A : A = {0, NoLetter, NoReader, editor.selected, row.id}
      OBVIOUS
    <3>4. q \in Wanted(A) /\ q.kind = "remove"
      BY <3>2, <3>3 DEF T!Request, Wanted
    <3>5. asked' = asked \o <<q>>
      BY <3>1, <3>2 DEF T!Ask
    <3>6. QED
      BY <3>4, <3>5
  <2>3. QED
    BY <2>1, <2>2
<1>5. PICK A : \E q \in Wanted(A) : q.kind \in {"save", "remove"} /\ asked' = asked \o <<q>>
  BY <1>4
<1>6. WantedTypes' /\ Same("validate") /\ Same("render")
  BY <1>5, MoreWanted DEF EditorInv
<1>7. EditorTypes'
  BY <1>2, <1>3 DEF EditorInv, EditorTypes
<1>8. QED
  BY <1>2, <1>3, <1>6, <1>7, OthersKeep

\* The timer fires: the text on the screen is asked about, last of its kinds.
LEMMA FiringKeeps ==
    ASSUME EditorInv, T!TimerFires
    PROVE  EditorInv'
<1>1. PICK R : editor \in Edited(R)
  BY DEF EditorInv, EditorTypes
<1>2. PICK v : v = [T!Request("validate") EXCEPT !.body = editor.body]
  OBVIOUS
<1>3. PICK r : r = [v EXCEPT !.kind = "render", !.member = editor.member]
  OBVIOUS
<1>4. PICK A : A = {0, NoLetter, NoReader, editor.body, editor.member}
  OBVIOUS
<1>5. /\ v \in Wanted(A) /\ v.kind = "validate" /\ v.body = editor.body
      /\ r \in Wanted(A) /\ r.kind = "render" /\ r.body = editor.body
      /\ r.member = editor.member
  BY <1>2, <1>3, <1>4 DEF T!Request, Wanted
<1>6. /\ rest' = FALSE
      /\ \/ /\ editor.member = NoReader \/ T!Words(editor.body) = {}
            /\ asked' = asked \o <<v>>
            /\ editor' = [editor EXCEPT !.preview = T!NoPreview]
         \/ /\ asked' = asked \o <<v, r>> /\ UNCHANGED editor
  BY <1>2, <1>3 DEF T!TimerFires, T!Ask
<1>7. /\ EditorTypes' /\ editor'.body = editor.body /\ editor'.member = editor.member
  <2>1. PICK B : B = R \cup {T!NoPreview}
    OBVIOUS
  <2>2. editor \in Edited(B) /\ T!NoPreview \in B
    BY <1>1, <2>1 DEF Edited
  <2>3. editor' \in Edited(B) /\ editor'.body = editor.body /\ editor'.member = editor.member
    BY <1>6, <2>2 DEF Edited
  <2>4. QED
    BY <1>6, <2>3 DEF EditorTypes
<1>8. PICK B : asked \in Seq(Wanted(B)) /\ v \in Wanted(B) /\ r \in Wanted(B)
  <2>1. PICK B : asked \in Seq(Wanted(B))
    BY DEF EditorInv, WantedTypes
  <2>2. asked \in Seq(Wanted(B \cup A)) /\ v \in Wanted(B \cup A) /\ r \in Wanted(B \cup A)
    BY <1>5, <2>1, SeqWidens, WantedWidens
  <2>3. QED
    BY <2>2
<1>9. PICK n \in Nat : Len(asked) = n
  BY WantedLengths DEF EditorInv
<1>10. CASE /\ editor.member = NoReader \/ T!Words(editor.body) = {}
            /\ asked' = asked \o <<v>>
  <2>1. <<v>> \in Seq(Wanted(B)) /\ Len(<<v>>) = 1 /\ <<v>>[1] = v
    BY <1>8
  <2>2. /\ asked' \in Seq(Wanted(B)) /\ Len(asked') = n + 1 /\ asked'[n + 1] = v
    <3>1. n + 1 \in 1 .. n + 1 /\ ~(n + 1 <= n) /\ (n + 1) - n = 1
      OBVIOUS
    <3>2. /\ asked' \in Seq(Wanted(B)) /\ Len(asked') = n + 1
          /\ \A i \in 1 .. n + 1 : asked'[i] = IF i <= n THEN asked[i] ELSE <<v>>[i - n]
      BY <1>8, <1>9, <1>10, <2>1, ConcatProperties
    <3>3. QED
      BY <2>1, <3>1, <3>2
  <2>3. \A i : LastOf("validate", i)' => i = n + 1
    <3>1. n + 1 \in 1 .. Len(asked') /\ \A i \in 1 .. Len(asked') : ~(n + 1 > i) => i = n + 1
      BY <2>2
    <3>2. QED
      BY <1>5, <2>2, <3>1 DEF LastOf
  <2>4. ~NoneOf("validate")'
    BY <1>5, <2>2 DEF NoneOf
  <2>5. VerdictFollows'
    BY <1>5, <1>7, <2>2, <2>3, <2>4 DEF VerdictFollows
  <2>6. TextFollows'
    BY <1>7, <1>10 DEF TextFollows
  <2>7. QED
    BY <1>7, <2>2, <2>5, <2>6 DEF EditorInv, WantedTypes
<1>11. CASE asked' = asked \o <<v, r>>
  <2>1. <<v, r>> \in Seq(Wanted(B)) /\ Len(<<v, r>>) = 2 /\ <<v, r>>[1] = v /\ <<v, r>>[2] = r
    BY <1>8
  <2>2. /\ asked' \in Seq(Wanted(B)) /\ Len(asked') = n + 2 /\ asked'[n + 1] = v
        /\ asked'[n + 2] = r
    <3>1. /\ n + 1 \in 1 .. n + 2 /\ ~(n + 1 <= n) /\ (n + 1) - n = 1
          /\ n + 2 \in 1 .. n + 2 /\ ~(n + 2 <= n) /\ (n + 2) - n = 2
      OBVIOUS
    <3>2. /\ asked' \in Seq(Wanted(B)) /\ Len(asked') = n + 2
          /\ \A i \in 1 .. n + 2 : asked'[i] = IF i <= n THEN asked[i] ELSE <<v, r>>[i - n]
      BY <1>8, <1>9, <1>11, <2>1, ConcatProperties
    <3>3. QED
      BY <2>1, <3>1, <3>2
  <2>3. /\ n + 1 \in 1 .. Len(asked') /\ n + 2 \in 1 .. Len(asked')
        /\ \A i \in 1 .. Len(asked') : ~(n + 2 > i) => i = n + 2
        /\ \A i \in 1 .. Len(asked') : ~(n + 1 > i) => i = n + 1 \/ i = n + 2
    BY <2>2
  <2>4. \A i : LastOf("validate", i)' => i = n + 1
    BY <1>5, <2>2, <2>3 DEF LastOf
  <2>5. \A i : LastOf("render", i)' => i = n + 2
    BY <1>5, <2>2, <2>3 DEF LastOf
  <2>6. ~NoneOf("validate")' /\ ~NoneOf("render")'
    BY <1>5, <2>2, <2>3 DEF NoneOf
  <2>7. VerdictFollows'
    BY <1>5, <1>7, <2>2, <2>4, <2>6 DEF VerdictFollows
  <2>8. TextFollows'
    BY <1>5, <1>7, <2>2, <2>5, <2>6 DEF TextFollows
  <2>9. QED
    BY <1>7, <2>2, <2>7, <2>8 DEF EditorInv, WantedTypes
<1>12. QED
  BY <1>6, <1>10, <1>11

\* The answers that are of neither kind.
LEMMA OtherAnswersKeep ==
    ASSUME EditorInv,
           T!ListAnswered \/ T!MemberAnswered \/ T!SaveAnswered \/ T!RemoveAnswered
    PROVE  EditorInv'
<1>1. PICK R : editor \in Edited(R)
  BY DEF EditorInv, EditorTypes
<1>2. PICK q : q = T!Request("list")
  OBVIOUS
<1>3. q \in Wanted({0, NoLetter, NoReader}) /\ q.kind = "list"
  BY <1>2, RequestWanted
<1>4. /\ asked # <<>> /\ Head(asked).kind \notin {"validate", "render"}
      /\ \/ asked' = Tail(asked) \/ asked' = Tail(asked) \o <<>>
         \/ asked' = Tail(asked) \o <<q>> \/ asked' = Append(Tail(asked), q)
  <2>1. CASE T!ListAnswered \/ T!MemberAnswered
    BY <2>1 DEF T!ListAnswered, T!MemberAnswered, T!Answers
  <2>2. CASE T!SaveAnswered
    BY <1>2, <2>2 DEF T!SaveAnswered, T!Answers
  <2>3. CASE T!RemoveAnswered
    BY <1>2, <2>3 DEF T!RemoveAnswered, T!Answers
  <2>4. QED
    BY <2>1, <2>2, <2>3
<1>5. WantedTypes' /\ Same("validate") /\ Same("render")
  BY <1>3, <1>4, Answered DEF EditorInv
<1>6. PICK freed : freed = [editor EXCEPT !.busy = FALSE]
  OBVIOUS
<1>7. PICK emptied : emptied = T!Emptied(freed)
  OBVIOUS
<1>8. \A m : \E A : /\ [editor EXCEPT !.member = m] \in Edited(A)
                    /\ [editor EXCEPT !.member = m].verdict = editor.verdict
                    /\ [editor EXCEPT !.member = m].preview = editor.preview
  <2>1. TAKE m
  <2>2. PICK A : A = R \cup {m}
    OBVIOUS
  <2>3. editor \in Edited(A) /\ m \in A
    BY <1>1, <2>2 DEF Edited
  <2>4. QED
    BY <2>3 DEF Edited
<1>9. /\ freed \in Edited(R) /\ freed.verdict = editor.verdict
      /\ freed.preview = editor.preview
  BY <1>1, <1>6 DEF Edited
<1>10. \E A : /\ emptied \in Edited(A) /\ emptied.verdict = editor.verdict
              /\ emptied.preview = editor.preview
  <2>1. PICK A : A = R \cup {0, NoLetter}
    OBVIOUS
  <2>2. freed \in Edited(A) /\ 0 \in A /\ NoLetter \in A
    BY <1>9, <2>1 DEF Edited
  <2>3. emptied \in Edited(A) /\ emptied.verdict = editor.verdict
        /\ emptied.preview = editor.preview
    BY <1>7, <1>9, <2>2 DEF T!Emptied, Edited
  <2>4. QED
    BY <2>3
<1>11. ASSUME NEW e, NEW rows, T!Becomes(e, rows), NEW A, e \in Edited(A),
              e.verdict = editor.verdict, e.preview = editor.preview
       PROVE  EditorInv'
  <2>1. /\ EditorTypes'
        /\ editor'.verdict = editor.verdict /\ editor'.preview = editor.preview
        /\ ~rest' => ~rest /\ editor'.body = editor.body /\ editor'.member = editor.member
    BY <1>11, Becoming DEF EditorInv
  <2>2. QED
    BY <1>5, <2>1, OthersKeep
<1>12. CASE T!ListAnswered
  <2>1. CASE UNCHANGED <<editor, texts, rest>>
    BY <1>5, <2>1, OthersKeep DEF EditorInv, EditorTypes
  <2>2. CASE T!Becomes(editor, T!ListTemplates)
    BY <1>1, <1>11, <2>2
  <2>3. QED
    BY <1>12, <2>1, <2>2 DEF T!ListAnswered
<1>13. CASE T!MemberAnswered
  <2>1. PICK m : T!Becomes(IF m = NoReader THEN editor ELSE [editor EXCEPT !.member = m], texts)
    BY <1>13 DEF T!MemberAnswered
  <2>2. PICK e : e = IF m = NoReader THEN editor ELSE [editor EXCEPT !.member = m]
    OBVIOUS
  <2>3. \E A : e \in Edited(A) /\ e.verdict = editor.verdict /\ e.preview = editor.preview
    BY <1>1, <1>8, <2>2
  <2>4. QED
    BY <1>11, <2>1, <2>2, <2>3
<1>14. CASE T!SaveAnswered
  <2>1. T!Becomes(freed, texts)
    BY <1>6, <1>14 DEF T!SaveAnswered
  <2>2. QED
    BY <1>9, <1>11, <2>1
<1>15. CASE T!RemoveAnswered
  <2>1. T!Becomes(freed, texts) \/ T!Becomes(emptied, texts)
    BY <1>6, <1>7, <1>15 DEF T!RemoveAnswered
  <2>2. QED
    BY <1>9, <1>10, <1>11, <2>1
<1>16. QED
  BY <1>12, <1>13, <1>14, <1>15

\* The verdict and the preview arrive: with none of their kind left they are of the last.
LEMMA VerdictArrives ==
    ASSUME EditorInv, T!ValidateAnswered \/ T!RenderAnswered
    PROVE  EditorInv'
<1>1. PICK R : editor \in Edited(R)
  BY DEF EditorInv, EditorTypes
<1>2. PICK n \in Nat : Len(asked) = n
  BY WantedLengths DEF EditorInv
<1>3. /\ asked # <<>> /\ asked' = Tail(asked) /\ UNCHANGED rest
      /\ Head(asked).kind \in {"validate", "render"}
  BY DEF T!ValidateAnswered, T!RenderAnswered, T!Answers
<1>4. PICK q : q = T!Request("list")
  OBVIOUS
<1>5. q \in Wanted({0, NoLetter, NoReader}) /\ q.kind = "list"
  BY <1>4, RequestWanted
<1>6. /\ WantedTypes' /\ Head(asked) = asked[1]
      /\ \A kind \in {"validate", "render"} : kind # asked[1].kind => Same(kind)
  BY <1>3, <1>5, Answered DEF EditorInv
<1>7. /\ 1 \in 1 .. Len(asked)
      /\ \A kind : NoneOf(kind)' /\ asked[1].kind = kind => LastOf(kind, 1)
      /\ \A kind, i : LastOf(kind, i)' => LastOf(kind, i + 1) /\ asked[i + 1] = asked'[i]
  <2>1. PICK B : asked \in Seq(B)
    BY DEF EditorInv, WantedTypes
  <2>2. Len(asked') = n - 1 /\ n >= 1 /\ \A i \in 1 .. n - 1 : asked'[i] = asked[i + 1]
    BY <1>2, <1>3, <2>1, HeadTailProperties, EmptySeq
  <2>3. \A j \in 1 .. n : j > 1 => j - 1 \in 1 .. n - 1 /\ (j - 1) + 1 = j
    BY <1>2
  <2>4. \A j \in 1 .. n : j > 1 => asked[j] = asked'[j - 1] /\ j - 1 \in 1 .. Len(asked')
    BY <2>2, <2>3
  <2>5. \A kind : NoneOf(kind)' /\ asked[1].kind = kind => LastOf(kind, 1)
    BY <1>2, <2>2, <2>4 DEF NoneOf, LastOf
  <2>6. ASSUME NEW kind, NEW i, LastOf(kind, i)'
        PROVE  LastOf(kind, i + 1) /\ asked[i + 1] = asked'[i]
    <3>1. i \in 1 .. n - 1 /\ asked'[i].kind = kind
          /\ \A j \in 1 .. n - 1 : j > i => asked'[j].kind # kind
      BY <2>2, <2>6 DEF LastOf
    <3>2. i + 1 \in 1 .. n
      BY <1>2, <3>1
    <3>3. \A j \in 1 .. n : j > i + 1 => j > 1 /\ j - 1 > i
      BY <1>2, <3>1
    <3>4. ASSUME NEW j \in 1 .. n, j > i + 1
          PROVE  asked[j].kind # kind
      <4>1. j - 1 \in 1 .. n - 1 /\ j - 1 > i /\ asked[j] = asked'[j - 1]
        BY <2>3, <2>4, <3>3, <3>4
      <4>2. QED
        BY <3>1, <4>1
    <3>5. asked[i + 1] = asked'[i] /\ asked[i + 1].kind = kind
      BY <2>2, <3>1
    <3>6. QED
      BY <1>2, <3>2, <3>4, <3>5 DEF LastOf
  <2>7. QED
    BY <1>2, <2>2, <2>5, <2>6
<1>8. CASE T!ValidateAnswered
  <2>1. PICK v : v = T!ValidateTemplate(asked[1].body)
    OBVIOUS
  <2>2. asked[1].kind = "validate" /\ editor' = [editor EXCEPT !.verdict = v]
    BY <1>6, <1>8, <2>1 DEF T!ValidateAnswered, T!Answers
  <2>3. /\ EditorTypes' /\ editor'.body = editor.body /\ editor'.member = editor.member
        /\ editor'.preview = editor.preview /\ editor'.verdict = v
    <3>1. PICK A : A = R \cup {v}
      OBVIOUS
    <3>2. editor \in Edited(A) /\ v \in A
      BY <1>1, <3>1 DEF Edited
    <3>3. /\ editor' \in Edited(A) /\ editor'.body = editor.body
          /\ editor'.member = editor.member
          /\ editor'.preview = editor.preview /\ editor'.verdict = v
      BY <2>2, <3>2 DEF Edited
    <3>4. QED
      BY <1>3, <3>3 DEF EditorInv, EditorTypes
  <2>4. TextFollows'
    BY <1>3, <1>6, <2>2, <2>3, TextKeeps
  <2>5. VerdictFollows'
    <3>1. SUFFICES ASSUME ~rest'
                   PROVE  /\ NoneOf("validate")' =>
                                editor'.verdict = T!ValidateTemplate(editor'.body)
                          /\ \A i : LastOf("validate", i)' => asked'[i].body = editor'.body
      BY DEF VerdictFollows
    <3>2. \A i : LastOf("validate", i) => asked[i].body = editor.body
      BY <1>3, <3>1 DEF EditorInv, VerdictFollows
    <3>3. NoneOf("validate")' => asked[1].body = editor.body
      BY <1>7, <2>2, <3>2
    <3>4. \A i : LastOf("validate", i)' => asked'[i].body = editor'.body
      BY <1>7, <2>3, <3>2
    <3>5. NoneOf("validate")' => editor'.verdict = T!ValidateTemplate(editor'.body)
      BY <2>1, <2>3, <3>3
    <3>6. QED
      BY <3>4, <3>5
  <2>6. QED
    BY <1>6, <2>3, <2>4, <2>5 DEF EditorInv
<1>9. CASE T!RenderAnswered
  <2>1. PICK v : v = T!RenderTemplate(asked[1].body, asked[1].member)
    OBVIOUS
  <2>2. asked[1].kind = "render" /\ editor' = [editor EXCEPT !.preview = v]
    BY <1>6, <1>9, <2>1 DEF T!RenderAnswered, T!Answers
  <2>3. /\ EditorTypes' /\ editor'.body = editor.body /\ editor'.member = editor.member
        /\ editor'.verdict = editor.verdict /\ editor'.preview = v
    <3>1. PICK A : A = R \cup {v}
      OBVIOUS
    <3>2. editor \in Edited(A) /\ v \in A
      BY <1>1, <3>1 DEF Edited
    <3>3. /\ editor' \in Edited(A) /\ editor'.body = editor.body
          /\ editor'.member = editor.member
          /\ editor'.verdict = editor.verdict /\ editor'.preview = v
      BY <2>2, <3>2 DEF Edited
    <3>4. QED
      BY <1>3, <3>3 DEF EditorInv, EditorTypes
  <2>4. VerdictFollows'
    BY <1>3, <1>6, <2>2, <2>3, VerdictKeeps
  <2>5. TextFollows'
    <3>1. SUFFICES ASSUME ~rest', editor'.member # NoReader, T!Words(editor'.body) # {}
                   PROVE  /\ NoneOf("render")' =>
                                editor'.preview = T!RenderTemplate(editor'.body, editor'.member)
                          /\ \A i : LastOf("render", i)' =>
                                asked'[i].body = editor'.body /\ asked'[i].member = editor'.member
      BY DEF TextFollows
    <3>2. \A i : LastOf("render", i) =>
                asked[i].body = editor.body /\ asked[i].member = editor.member
      BY <1>3, <2>3, <3>1 DEF EditorInv, TextFollows
    <3>3. NoneOf("render")' => asked[1].body = editor.body /\ asked[1].member = editor.member
      BY <1>7, <2>2, <3>2
    <3>4. \A i : LastOf("render", i)' =>
                asked'[i].body = editor'.body /\ asked'[i].member = editor'.member
      BY <1>7, <2>3, <3>2
    <3>5. NoneOf("render")' =>
                editor'.preview = T!RenderTemplate(editor'.body, editor'.member)
      BY <2>1, <2>3, <3>3
    <3>6. QED
      BY <3>4, <3>5
  <2>6. QED
    BY <1>6, <2>3, <2>4, <2>5 DEF EditorInv
<1>10. QED
  BY <1>8, <1>9

JustMounted ==
    editor = T!Mounted.editor /\ rest = T!Mounted.timer /\ asked = T!Mounted.requests

LEMMA EditorMounts == JustMounted => EditorInv
<1>0. SUFFICES ASSUME JustMounted PROVE EditorInv
  OBVIOUS
<1>1. /\ editor = T!Fresh /\ rest = TRUE
      /\ asked = <<T!Request("list"), T!Request("member")>>
  BY <1>0 DEF JustMounted, T!Mounted
<1>2. PICK R : R = {0, NoLetter, NoReader, T!NotYet, T!NoPreview}
  OBVIOUS
<1>3. editor \in Edited(R)
  BY <1>1, <1>2 DEF T!Fresh, Edited
<1>4. asked \in Seq(Wanted({0, NoLetter, NoReader}))
  BY <1>1, RequestWanted
<1>5. QED
  BY <1>1, <1>3, <1>4 DEF EditorInv, EditorTypes, WantedTypes, VerdictFollows, TextFollows

LEMMA EditorStays == EditorInv /\ [T!Next]_T!vars => EditorInv'
<1>1. SUFFICES ASSUME EditorInv, [T!Next]_T!vars PROVE EditorInv'
  OBVIOUS
<1>2. CASE UNCHANGED T!vars
  <2>1. UNCHANGED <<editor, rest, asked>>
    BY <1>2 DEF T!vars
  <2>2. WantedTypes' /\ Same("validate") /\ Same("render") /\ EditorTypes'
    BY <1>1, <2>1, AskedNothing DEF EditorInv, EditorTypes
  <2>3. QED
    BY <1>1, <2>1, <2>2, OthersKeep
<1>3. CASE T!Restart
  <2>1. JustMounted'
    BY <1>3 DEF JustMounted, T!Restart, T!Mounted
  <2>2. QED
    BY <2>1, EditorMounts, PTL
<1>4. QED
  BY <1>1, <1>2, <1>3, TypingKeeps, AskingKeeps, FiringKeeps, OtherAnswersKeep, VerdictArrives
     DEF T!Next

\* At rest the page has asked about the text on the screen last, in every state
\* (TemplatesPage).
THEOREM EditorHolds == T!Spec => []EditorInv
<1>1. T!Init => EditorInv
  BY EditorMounts DEF T!Init, JustMounted
<1>2. QED
  BY <1>1, EditorStays, PTL DEF T!Spec

LEMMA EditorSettles == EditorInv => T!SettledPreview
<1>1. SUFFICES ASSUME EditorInv, ~rest,
                      \A r \in T!Range(asked) : r.kind \notin {"validate", "render"}
               PROVE  /\ editor.verdict = T!ValidateTemplate(editor.body)
                      /\ editor.member # NoReader /\ T!Words(editor.body) # {} =>
                            editor.preview = T!RenderTemplate(editor.body, editor.member)
  BY DEF T!SettledPreview
<1>2. NoneOf("validate") /\ NoneOf("render")
  BY <1>1, WantedLengths DEF EditorInv, NoneOf, T!Range
<1>3. QED
  BY <1>1, <1>2 DEF EditorInv, VerdictFollows, TextFollows

-----------------------------------------------------------------------------
(* The wizard of campaigns: SendWizard, whose theorems are about this instance too. *)

W == INSTANCE SendWizardProofs WITH
        wizard <- sender, draft <- message, requests <- previews, campaign <- sent

LEMMA SameWizard == (G!Init => W!Init) /\ ([G!Next]_G!vars => [W!Next]_W!vars)
<1>1. G!Init => W!Init
  BY DEF G!Init, W!Init, G!Mounted, W!Mounted, G!NoDraft, W!NoDraft, G!NoPreview, W!NoPreview,
         G!Idle, W!Idle, G!NoRun, W!NoRun
<1>2. G!Edit => W!Edit
  BY DEF G!Edit, W!Edit, G!Open, W!Open, G!Remove, W!Remove, G!ChooseTemplate,
         W!ChooseTemplate, G!Type, W!Type, G!NextStep, W!NextStep, G!Back, W!Back,
         G!MayClose, W!MayClose, G!Close, W!Close, G!TemplateIds, W!TemplateIds,
         G!NoPreview, W!NoPreview, G!Mounted, W!Mounted, G!NoDraft, W!NoDraft, G!Idle,
         W!Idle, G!NoRun, W!NoRun, G!ActiveIds, W!ActiveIds, G!Rendering, W!Rendering,
         G!Request, W!Request, G!Watched, W!Watched, G!Becomes, W!Becomes, G!At, W!At,
         G!BodyOf, W!BodyOf, G!Closed, W!Closed, G!Put, W!Put
<1>3. G!Answer => W!Answer
  BY DEF G!Answer, W!Answer, G!ListAnswered, W!ListAnswered, G!TimerFires, W!TimerFires,
         G!PrepareAnswered, W!PrepareAnswered, G!TemplateIds, W!TemplateIds, G!NoPreview,
         W!NoPreview, G!Mounted, W!Mounted, G!NoDraft, W!NoDraft, G!Idle, W!Idle, G!NoRun,
         W!NoRun, G!ActiveIds, W!ActiveIds, G!Rendering, W!Rendering, G!Request, W!Request,
         G!Watched, W!Watched, G!Becomes, W!Becomes, G!At, W!At, G!BodyOf, W!BodyOf,
         G!Closed, W!Closed, G!Put, W!Put
<1>4. G!Send => W!Send
  BY DEF G!Send, W!Send, G!Save, W!Save, G!SaveDraft, W!SaveDraft, G!StartSending,
         W!StartSending, G!Created, W!Created, G!DraftSaved, W!DraftSaved,
         G!CampaignCreated, W!CampaignCreated, G!CampaignRead, W!CampaignRead, G!Resume,
         W!Resume, G!FinalRead, W!FinalRead, G!Ask, W!Ask, G!Pause, W!Pause, G!Cancel,
         W!Cancel, G!TemplateIds, W!TemplateIds, G!NoPreview, W!NoPreview, G!Mounted,
         W!Mounted, G!NoDraft, W!NoDraft, G!Idle, W!Idle, G!NoRun, W!NoRun, G!ActiveIds,
         W!ActiveIds, G!Rendering, W!Rendering, G!Request, W!Request, G!Watched, W!Watched,
         G!Becomes, W!Becomes, G!At, W!At, G!BodyOf, W!BodyOf, G!Closed, W!Closed, G!Put,
         W!Put
<1>5. G!Run => W!Run
  BY DEF G!Run, W!Run, G!StartCampaign, W!StartCampaign, G!StartRefused, W!StartRefused,
         G!Shown, W!Shown, G!Progress, W!Progress, G!RunnerEnds, W!RunnerEnds,
         G!TemplateIds, W!TemplateIds, G!NoPreview, W!NoPreview, G!Mounted, W!Mounted,
         G!NoDraft, W!NoDraft, G!Idle, W!Idle, G!NoRun, W!NoRun, G!ActiveIds, W!ActiveIds,
         G!Rendering, W!Rendering, G!Request, W!Request, G!Watched, W!Watched, G!Becomes,
         W!Becomes, G!At, W!At, G!BodyOf, W!BodyOf, G!Closed, W!Closed, G!Put, W!Put
<1>6. G!Lock => W!Lock
  BY DEF G!Lock, W!Lock, G!TemplateIds, W!TemplateIds, G!NoPreview, W!NoPreview, G!Mounted,
         W!Mounted, G!NoDraft, W!NoDraft, G!Idle, W!Idle, G!NoRun, W!NoRun, G!ActiveIds,
         W!ActiveIds, G!Rendering, W!Rendering, G!Request, W!Request, G!Watched, W!Watched,
         G!Becomes, W!Becomes, G!At, W!At, G!BodyOf, W!BodyOf, G!Closed, W!Closed, G!Put,
         W!Put
<1>7. G!Next => W!Next
  BY <1>2, <1>3, <1>4, <1>5, <1>6 DEF G!Next, W!Next
<1>8. UNCHANGED G!vars => UNCHANGED W!vars
  BY DEF G!vars, W!vars
<1>9. QED
  BY <1>1, <1>7, <1>8

LEMMA WizardGiven == W!WizardConstants
  BY DeskBounds DEF G!WizardConstants, W!WizardConstants, G!TemplateIds, W!TemplateIds

LEMMA SpecOfWizard == G!Spec => W!Spec
  BY SameWizard, PTL DEF G!Spec, W!Spec

\* Until the desk is locked, the campaign that runs is the one the open dialog is about
\* (SendWizardDialog, runnerHost, App): the theorem of SendWizardProofs, at the desk.
THEOREM RunningShownAtDesk == G!Spec => []RunningIsShown
<1>1. W!Spec => []W!RunningIsShown
  BY WizardGiven, W!RunningAlwaysShown
<1>2. W!RunningIsShown => RunningIsShown
  BY DEF W!RunningIsShown, G!RunningIsShown, RunningIsShown
<1>3. QED
  BY <1>1, <1>2, SpecOfWizard, PTL

LEMMA WizardSettles == G!Spec => []G!SettledPreview
<1>1. W!Spec => []W!SettledPreview
  BY WizardGiven, W!PreviewAlwaysSettles
<1>2. W!SettledPreview => G!SettledPreview
  BY DEF W!SettledPreview, G!SettledPreview, W!ActiveIds, G!ActiveIds, W!Rendering, G!Rendering
<1>3. QED
  BY <1>1, <1>2, SpecOfWizard, PTL

\* At rest the preview is of what is shown, in the wizard (SendWizardDialog) and in the
\* editor of templates (TemplatesPage), whatever was asked for and changed meanwhile.
THEOREM PreviewIsOfWhatIsShown == G!Spec /\ T!Spec => []SettledPreview
<1>1. G!SettledPreview /\ EditorInv => SettledPreview
  BY EditorSettles DEF SettledPreview
<1>2. QED
  BY <1>1, WizardSettles, EditorHolds, PTL
=============================================================================
