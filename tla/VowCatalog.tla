----------------------------- MODULE VowCatalog -----------------------------
(***************************************************************************)
(* The honours for sale and the vows that buy them: services/vowItems and  *)
(* its seeding, the dialog that records a vow (VowDialog, VowItemPicker,   *)
(* OccasionPicker) and the two reports that count vows by occasion and by  *)
(* honour (services/reports).                                              *)
(*                                                                         *)
(* An honour may be edited, retired or deleted while the dialog is open    *)
(* with it chosen, and after vows were recorded for it.                    *)
(*                                                                         *)
(* Abstracted: an item's texts; the dates of vows, one day for each        *)
(* occasion; members and amounts; requests are answered at once (late      *)
(* answers are VowItemsPage's subject).                                    *)
(***************************************************************************)
EXTENDS Naturals, Sequences, FiniteSets

CONSTANTS
    Items,       \* rows vow_item may have
    Occasions,   \* rows of the occasion table
    Parashot,    \* those of type parasha: the readings of ordinary Sabbaths
    NoItem, NoOccasion,
    MaxVows      \* bound: vows recorded

ASSUME OccasionsGiven == Parashot \subseteq Occasions /\ NoOccasion \notin Occasions
ASSUME ItemsGiven == NoItem \notin Items /\ MaxVows \in Nat

VARIABLES
    item,    \* vow_item with its vow_item_occasion links
    vow,     \* vow_charge rows of kind vow
    dialog   \* VowDialog: occasionId, vowItem and what its picker loaded

vars == <<item, vow, dialog>>

Scopes == {"shabbat", "occasion", "always"}
Content == [scope : Scopes, links : SUBSET Occasions, active : BOOLEAN]
Absent == [scope |-> "none", links |-> {}, active |-> FALSE]
Exists(i) == item[i] # Absent

\* every table and field of the dialog holds what it can hold
TypeOK ==
    /\ item \in [Items -> Content \cup {Absent}]
    /\ vow \in Seq([occasion : Occasions, item : Items \cup {NoItem}, live : BOOLEAN])
    /\ Len(vow) <= MaxVows
    /\ dialog \in [open : BOOLEAN, occasion : Occasions \cup {NoOccasion},
                   item : Items \cup {NoItem}, list : SUBSET Items]

Closed == [open |-> FALSE, occasion |-> NoOccasion, item |-> NoItem, list |-> {}]

\* the seeded list, or what its owner made of it
Init ==
    /\ item \in [Items -> {c \in Content : c.active /\ (c.scope = "occasion") = (c.links # {})}]
    /\ vow = <<>>
    /\ dialog = Closed

-----------------------------------------------------------------------------
(* services/vowItems.                                                      *)

\* the condition of listVowItems on an occasion, and of the honours report
Applies(i, o) ==
    \/ item[i].scope = "always"
    \/ item[i].scope = "shabbat" /\ o \in Parashot
    \/ item[i].scope = "occasion" /\ o \in item[i].links

ListVowItems(o) ==
    {i \in Items : item[i].active /\ (o # NoOccasion => Applies(i, o))}

\* validate: an item for certain occasions names one; the page sends none
\* for the other scopes
Valid(content) == (content.scope = "occasion") = (content.links # {})

\* also the copy of an item, which is created with the other's content
CreateVowItem ==
    \E i \in Items, content \in Content :
        /\ ~Exists(i) /\ Valid(content)
        /\ item' = [item EXCEPT ![i] = content]
        /\ UNCHANGED <<vow, dialog>>

UpdateVowItem ==
    \E i \in Items, content \in Content :
        /\ Exists(i) /\ Valid(content)
        /\ item' = [item EXCEPT ![i] = content]
        /\ UNCHANGED <<vow, dialog>>

\* mutant: a deleted vow does not count as a sale
Used_Live(i) == \E k \in DOMAIN vow : vow[k].item = i /\ vow[k].live

Used(i) == \E k \in DOMAIN vow : vow[k].item = i

\* an item that was sold is retired instead of deleted, even when the vow that
\* bought it was deleted since
DeleteVowItem ==
    \E i \in Items :
        /\ Exists(i)
        /\ item' = [item EXCEPT ![i] = IF Used(i) THEN [@ EXCEPT !.active = FALSE] ELSE Absent]
        /\ UNCHANGED <<vow, dialog>>

-----------------------------------------------------------------------------
(* VowDialog and its pickers.  The chosen item stays when the occasion     *)
(* changes and the list no longer has it.                                  *)

\* the item is cleared, the occasion of the last vow is still chosen
OpenDialog ==
    /\ ~dialog.open
    /\ dialog' = [dialog EXCEPT !.open = TRUE, !.item = NoItem,
                                !.list = ListVowItems(dialog.occasion)]
    /\ UNCHANGED <<item, vow>>

CloseDialog ==
    /\ dialog.open
    /\ dialog' = [dialog EXCEPT !.open = FALSE, !.item = NoItem, !.list = {}]
    /\ UNCHANGED <<item, vow>>

\* by hand, or the default for the date when it is typed
PickOccasion ==
    \E o \in Occasions :
        /\ dialog.open
        /\ dialog' = [dialog EXCEPT !.occasion = o, !.list = ListVowItems(o)]
        /\ UNCHANGED <<item, vow>>

\* the switch "the whole list"
ShowAll ==
    /\ dialog.open
    /\ dialog' = [dialog EXCEPT !.list = ListVowItems(NoOccasion)]
    /\ UNCHANGED <<item, vow>>

PickItem ==
    \E i \in dialog.list \cup {NoItem} :
        /\ dialog.open
        /\ dialog' = [dialog EXCEPT !.item = i]
        /\ UNCHANGED <<item, vow>>

\* createVow: the foreign key refuses an item that was deleted meanwhile, and
\* the dialog stays open with the error
Submit ==
    /\ dialog.open /\ dialog.occasion # NoOccasion
    /\ dialog.item # NoItem => Exists(dialog.item)
    /\ Len(vow) < MaxVows
    /\ vow' = Append(vow, [occasion |-> dialog.occasion, item |-> dialog.item, live |-> TRUE])
    /\ dialog' = [dialog EXCEPT !.open = FALSE, !.item = NoItem, !.list = {}]
    /\ UNCHANGED item

DeleteVowCharge ==
    \E k \in DOMAIN vow :
        /\ vow[k].live
        /\ vow' = [vow EXCEPT ![k].live = FALSE]
        /\ UNCHANGED <<item, dialog>>

Next ==
    \/ CreateVowItem \/ UpdateVowItem \/ DeleteVowItem
    \/ OpenDialog \/ CloseDialog \/ PickOccasion \/ ShowAll \/ PickItem \/ Submit
    \/ DeleteVowCharge

Spec == Init /\ [][Next]_vars

-----------------------------------------------------------------------------
(* services/reports.                                                       *)

\* byOccasionReport: how many vows each occasion counts
ByOccasion(o) == Cardinality({k \in DOMAIN vow : vow[k].live /\ vow[k].occasion = o})

\* mutant: vows without an honour are left out
HonorsRows_OnlyHonours(o) ==
    {r \in ListVowItems(o) \X DOMAIN vow :
        vow[r[2]].live /\ vow[r[2]].occasion = o /\ vow[r[2]].item = r[1]}

\* honorsReport: the buyers of each honour that applies, then the vows without
\* one; a row is the honour and the vow, or 0 for an honour nobody bought
HonorsRows(o) ==
    LET sold(i) == {k \in DOMAIN vow : vow[k].live /\ vow[k].occasion = o /\ vow[k].item = i}
        rows(i) == IF sold(i) = {} THEN {<<i, 0>>} ELSE {i} \X sold(i)
        day == ByOccasion(o) > 0
    IN  IF ~day THEN {}
        ELSE (UNION {rows(i) : i \in ListVowItems(o)}) \cup ({NoItem} \X sold(NoItem))

Shown(o) == {r \in HonorsRows(o) : r[2] > 0}

-----------------------------------------------------------------------------
(* Properties.                                                             *)

\* A vow's honour is never gone: every item a vow points to still has its row,
\* whatever was deleted while the dialog was open or after the sale
SoldItemStays == \A k \in DOMAIN vow : vow[k].item # NoItem => Exists(vow[k].item)

\* The honours report shows each vow at most once, and all that the report by
\* occasion counts but those whose honour was retired or moved to another
\* occasion since
HonorsCountVows ==
    \A o \in Occasions :
        LET counted == {k \in DOMAIN vow : vow[k].live /\ vow[k].occasion = o}
            lost == {k \in counted : vow[k].item # NoItem
                                     /\ ~(item[vow[k].item].active /\ Applies(vow[k].item, o))}
        IN  /\ {r[2] : r \in Shown(o)} = counted \ lost
            /\ Cardinality(Shown(o)) + Cardinality(lost) = ByOccasion(o)

=============================================================================
