--------------------------- MODULE MemberRegister ---------------------------
(***************************************************************************)
(* The members' register: services/members, the dialog that edits a member *)
(* (MemberDialog, memberNameForm), the import of members, and what derives *)
(* the number messages are sent to (normalizedMobileFor at every save,     *)
(* mobileBackfill).                                                        *)
(*                                                                         *)
(* A name is a sequence of words for the first name and one for the last.  *)
(* The setting member_name_mode says whether the form has one field or     *)
(* two; a page reads it when it opens.                                     *)
(***************************************************************************)
EXTENDS PhoneNumber, FiniteSets

CONSTANTS
    MaxMembers,    \* bound: members
    Names,         \* names that may be typed, [first, last]
    Texts,         \* what may be typed in the mobile field
    Codes,         \* values of default_country_code
    SheetNumbers,  \* member numbers an imported sheet may have
    ImportModes    \* the modes imports are run in

\* What the instances assume of these.
RegisterBounds ==
    MaxMembers \in Nat /\ ImportModes \subseteq {"insert_only", "upsert", "enrich"}
\* a home number that begins with 5 is never taken for one with its code
CodesGiven == \A code \in Codes : code # <<>> /\ code[1] \notin {0, 5}

VARIABLES
    member,   \* the member table
    sequence, \* sequence 'member'
    setting,  \* member_name_mode and default_country_code
    dialog    \* MemberDialog: the page's name mode, the member edited, the form

vars == <<member, sequence, setting, dialog>>

Modes == {"split", "full"}
Ids == DOMAIN member
Numbers == {member[i].number : i \in Ids}

NoName == [first |-> <<>>, last |-> <<>>]
Closed == [open |-> FALSE, mode |-> "split", id |-> 0, name |-> NoName, mobile |-> <<>>,
           stored |-> NoName]

\* the columns of every member and the fields of the dialog hold what they may
TypeOK ==
    /\ Len(member) <= MaxMembers
    /\ \A i \in Ids : /\ member[i].number \in Nat
                      /\ member[i].mobile \in Texts
                      /\ member[i].phone.status \in {"valid", "invalid", "missing"}
                      /\ (member[i].phone.e164 # NoNumber) = (member[i].phone.status = "valid")
    /\ sequence \in Nat
    /\ setting \in [mode : Modes, code : Codes]
    /\ dialog.open \in BOOLEAN /\ dialog.mode \in Modes /\ dialog.id \in {0} \cup Ids

Init ==
    /\ member = <<>>
    /\ sequence = 1
    /\ setting \in [mode : Modes, code : Codes]
    /\ dialog = Closed

-----------------------------------------------------------------------------
(* memberNameForm.                                                         *)

JoinName(n) == n.first \o n.last
Whole(n) == [first |-> JoinName(n), last |-> <<>>]
NameForForm(mode, stored) == IF mode = "full" THEN Whole(stored) ELSE stored

\* mutant: one field is always saved as one name
NameForSave_Joined(mode, typed, original) ==
    IF mode # "full" THEN typed ELSE [first |-> typed.first, last |-> <<>>]

\* a name that was not touched keeps its two parts (NoName: a new member)
NameForSave(mode, typed, original) ==
    IF mode # "full" THEN typed
    ELSE IF original # NoName /\ typed.first = JoinName(original) THEN original
    ELSE [first |-> typed.first, last |-> <<>>]

-----------------------------------------------------------------------------
(* services/members.                                                       *)

\* assertNameFilled; storedLast is given when a member is updated
NameFilled(name, updated, storedLast) ==
    /\ name.first # <<>>
    /\ \/ setting.mode = "full" \/ name.last # <<>>
       \/ updated /\ storedLast = <<>>

Derived(mobile) == NormalizeMobile(mobile, setting.code)

\* the number comes from the sequence: an imported member who has it makes the
\* insert fail, and the sequence is rolled back with it
CreateMember(name, mobile) ==
    /\ NameFilled(name, FALSE, <<>>)
    /\ sequence \notin Numbers
    /\ Len(member) < MaxMembers
    /\ member' = Append(member, [number |-> sequence, name |-> name, mobile |-> mobile,
                                 phone |-> Derived(mobile)])
    /\ sequence' = sequence + 1

UpdateMember(i, name, mobile) ==
    /\ NameFilled(name, TRUE, member[i].name.last)
    /\ member' = [member EXCEPT ![i].name = name, ![i].mobile = mobile,
                                ![i].phone = Derived(mobile)]
    /\ UNCHANGED sequence

-----------------------------------------------------------------------------
(* MemberDialog.                                                           *)

OpenDialog ==
    \E i \in {0} \cup Ids :
        /\ ~dialog.open
        /\ LET stored == IF i = 0 THEN NoName ELSE member[i].name
           IN  dialog' = [open |-> TRUE, mode |-> setting.mode, id |-> i, stored |-> stored,
                          name |-> NameForForm(setting.mode, stored),
                          mobile |-> IF i = 0 THEN <<>> ELSE member[i].mobile]
        /\ UNCHANGED <<member, sequence, setting>>

TypeName ==
    \E n \in Names :
        /\ dialog.open
        /\ dialog' = [dialog EXCEPT !.name = IF dialog.mode = "full" THEN Whole(n) ELSE n]
        /\ UNCHANGED <<member, sequence, setting>>

TypeMobile ==
    \E text \in Texts :
        /\ dialog.open
        /\ dialog' = [dialog EXCEPT !.mobile = text]
        /\ UNCHANGED <<member, sequence, setting>>

Cancel ==
    /\ dialog.open
    /\ dialog' = Closed
    /\ UNCHANGED <<member, sequence, setting>>

\* a refused save leaves the dialog as it is
Save ==
    /\ dialog.open
    /\ LET name == NameForSave(dialog.mode, dialog.name, dialog.stored)
       IN  \/ dialog.id = 0 /\ CreateMember(name, dialog.mobile)
           \/ dialog.id # 0 /\ UpdateMember(dialog.id, name, dialog.mobile)
    /\ dialog' = Closed
    /\ UNCHANGED setting

-----------------------------------------------------------------------------
(* Settings, import and start.  Import and settings are pages of their own: *)
(* the dialog is closed.                                                   *)

SaveSettings ==
    \E s \in [mode : Modes, code : Codes] :
        /\ ~dialog.open /\ s # setting
        /\ setting' = s
        /\ UNCHANGED <<member, sequence, dialog>>

\* one row of a sheet; the columns e164 and status are not among its fields
ImportMember ==
    \E number \in SheetNumbers, name \in Names, mobile \in Texts :
        /\ ~dialog.open /\ name.last # <<>>
        /\ ImportModes # {}
        /\ number \notin Numbers /\ Len(member) < MaxMembers
        /\ member' = Append(member, [number |-> number, name |-> name, mobile |-> mobile,
                                     phone |-> Result(NoNumber, "missing", "")])
        /\ UNCHANGED <<sequence, setting, dialog>>

\* an empty cell is not written; enriching writes only what is empty
ImportKnownMember ==
    \E i \in Ids, mode \in ImportModes, name \in Names, mobile \in Texts :
        /\ ~dialog.open /\ name.last # <<>> /\ member[i].number \in SheetNumbers
        /\ mode # "insert_only"
        /\ LET old == member[i]
               fills(was, cell) == cell # <<>> /\ (mode = "upsert" \/ was = <<>>)
           IN  member' = [member EXCEPT
                   ![i].mobile = IF fills(old.mobile, mobile) THEN mobile ELSE @,
                   ![i].name = [first |-> IF fills(old.name.first, name.first)
                                          THEN name.first ELSE old.name.first,
                                last |-> IF fills(old.name.last, name.last)
                                         THEN name.last ELSE old.name.last]]
        /\ UNCHANGED <<sequence, setting, dialog>>

\* backfillMobileE164 when the program starts: members never derived
NeverDerived(m) == m.phone.e164 = NoNumber /\ m.mobile # <<>> /\ m.phone.status = "missing"

Start ==
    /\ member' = [i \in Ids |-> IF NeverDerived(member[i])
                                THEN [member[i] EXCEPT !.phone = Derived(member[i].mobile)]
                                ELSE member[i]]
    /\ dialog' = Closed
    /\ UNCHANGED <<sequence, setting>>

Next ==
    \/ OpenDialog \/ TypeName \/ TypeMobile \/ Cancel \/ Save
    \/ SaveSettings \/ ImportMember \/ ImportKnownMember \/ Start

Spec == Init /\ [][Next]_vars

-----------------------------------------------------------------------------
(* Properties.                                                             *)

\* No member's number is that of an earlier mobile: a number messages may be
\* sent to is what the mobile as it reads now gives, under one of the country
\* codes there were (changing the code derives nothing anew)
NumberFollowsMobile ==
    \A i \in Ids : member[i].phone.status = "valid" =>
        \E code \in Codes : member[i].phone.e164 = NormalizeMobile(member[i].mobile, code).e164

\* Opening a member to change the telephone never changes the name: a save in
\* which the name's fields still show what they showed when the dialog opened
\* leaves both parts of the name, in either mode and after a change of mode
PhoneEditKeepsName ==
    [][\A i \in Ids :
          (dialog.open /\ dialog.id = i /\ ~dialog'.open
              /\ dialog.name = NameForForm(dialog.mode, member[i].name))
          => member'[i].name = member[i].name]_vars

=============================================================================
