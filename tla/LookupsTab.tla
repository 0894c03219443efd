----------------------------- MODULE LookupsTab ------------------------------
(***************************************************************************)
(* The lists records choose from (occasions, payment methods, types of     *)
(* donations, categories of expenses): services/configuration's            *)
(* listLookup, addLookupValue, renameLookupValue and setLookupActive, the  *)
(* seeds of every start, and LookupsTab, which edits one of them.          *)
(*                                                                         *)
(* The tab changes its table at once and its rows when they are answered:  *)
(* in between, the buttons of the earlier table's rows ask for changes of  *)
(* the table chosen now.  Handlers do not wait for anything, so requests   *)
(* are handled and answered in their order.                                *)
(*                                                                         *)
(* Abstracted: a value's kind, order and need of a reference; a value's id *)
(* is its place.  Renaming asks for the name by window.prompt, which is    *)
(* taken to answer.                                                        *)
(***************************************************************************)
EXTENDS Naturals, Sequences, SequencesExt

CONSTANTS
    Tables, FirstTable,  \* the lists, and the one the tab opens with
    Seeded,              \* names each list is seeded with
    NewNames,            \* names typed into the tab
    MaxValues, MaxUses,  \* bound: values of a list, records that name a value
    MaxRequests          \* bound: requests under way

\* Assumed where the module is used.
ListsGiven ==
    /\ FirstTable \in Tables /\ DOMAIN Seeded = Tables
    /\ MaxValues \in Nat /\ MaxUses \in Nat /\ MaxRequests \in Nat

VARIABLES
    value,   \* the rows of each table, with the count of records that name them
    tab,     \* LookupsTab: on the screen, the table chosen, the rows shown
    asked    \* requests, in order: handled or not, and whether the tab still waits

vars == <<value, tab, asked>>

-----------------------------------------------------------------------------
(* services/configuration.                                                 *)

NewValue(name) == [name |-> name, active |-> TRUE, used |-> 0]
NamesOf(rows) == {rows[id].name : id \in DOMAIN rows}

\* INSERT OR IGNORE of every name: one that was renamed comes back as another row.
WithSeeds(rows, names) ==
    LET missing == SelectSeq(names, LAMBDA name : name \notin NamesOf(rows))
    IN  rows \o [k \in DOMAIN missing |-> NewValue(missing[k])]

\* What the main process makes of a change: the table, and whether it was refused
\* (the name exists, or no row has the id).
AddLookupValue(rows, name) ==
    IF name \in NamesOf(rows)
    THEN [ok |-> FALSE, rows |-> rows]
    ELSE [ok |-> TRUE, rows |-> Append(rows, NewValue(name))]

RenameLookupValue(rows, id, name) ==
    IF id \notin DOMAIN rows \/ \E other \in DOMAIN rows \ {id} : rows[other].name = name
    THEN [ok |-> FALSE, rows |-> rows]
    ELSE [ok |-> TRUE, rows |-> [rows EXCEPT ![id].name = name]]

SetLookupActive(rows, id, active) ==
    IF id \notin DOMAIN rows
    THEN [ok |-> FALSE, rows |-> rows]
    ELSE [ok |-> TRUE, rows |-> [rows EXCEPT ![id].active = active]]

Result(request) ==
    LET rows == value[request.table] IN
    CASE request.what = "list" -> [ok |-> TRUE, rows |-> rows]
      [] request.what = "add" -> AddLookupValue(rows, request.name)
      [] request.what = "rename" -> RenameLookupValue(rows, request.id, request.name)
      [] request.what = "active" -> SetLookupActive(rows, request.id, request.active)

\* The earliest request that is not handled.
Handle ==
    \E k \in DOMAIN asked :
        /\ ~asked[k].handled /\ \A j \in 1 .. k - 1 : asked[j].handled
        /\ Len(Result(asked[k]).rows) <= MaxValues
        /\ value' = [value EXCEPT ![asked[k].table] = Result(asked[k]).rows]
        /\ asked' = [asked EXCEPT ![k].handled = TRUE, ![k].answer = Result(asked[k])]
        /\ UNCHANGED tab

-----------------------------------------------------------------------------
(* LookupsTab.                                                             *)

Away == [mounted |-> FALSE, table |-> FirstTable, rows |-> <<>>]

Request(what, table) ==
    [what |-> what, table |-> table, handled |-> FALSE, awaited |-> TRUE,
     answer |-> [ok |-> FALSE, rows |-> <<>>], id |-> 0, name |-> "", active |-> TRUE]
Change(what) == Request(what, tab.table)

Ask(requests, request) ==
    /\ Len(asked) < MaxRequests
    /\ asked' = Append(requests, request)

\* The answers of these requests are no longer waited for.
Dropped(whats) ==
    [k \in DOMAIN asked |-> [asked[k] EXCEPT !.awaited = @ /\ asked[k].what \notin whats]]

Changes == {"add", "rename", "active"}

OpenTab ==
    /\ ~tab.mounted
    /\ tab' = [Away EXCEPT !.mounted = TRUE]
    /\ Ask(asked, Request("list", FirstTable))
    /\ UNCHANGED value

\* useAsync cancels the list that was asked for; the changes' answers are still taken.
ChooseTable(table) ==
    /\ tab.mounted /\ table # tab.table
    /\ tab' = [tab EXCEPT !.table = table]
    /\ Ask(Dropped({"list"}), Request("list", table))
    /\ UNCHANGED value

Press ==
    /\ tab.mounted
    /\ \/ \E name \in NewNames : Ask(asked, [Change("add") EXCEPT !.name = name])
       \/ \E id \in DOMAIN tab.rows :
            \/ \E name \in NewNames \ {tab.rows[id].name} :
                  Ask(asked, [Change("rename") EXCEPT !.id = id, !.name = name])
            \/ Ask(asked, [Change("active") EXCEPT !.id = id, !.active = ~tab.rows[id].active])
    /\ UNCHANGED <<value, tab>>

\* run and useAsync alike: the answer's rows are shown, an error leaves them.
Deliver ==
    /\ asked # <<>> /\ Head(asked).handled
    /\ asked' = Tail(asked)
    /\ tab' = IF Head(asked).awaited /\ Head(asked).answer.ok
              THEN [tab EXCEPT !.rows = Head(asked).answer.rows] ELSE tab
    /\ UNCHANGED value

Leave ==
    /\ tab.mounted
    /\ tab' = Away
    /\ asked' = Dropped({"list"} \cup Changes)
    /\ UNCHANGED value

-----------------------------------------------------------------------------
(* The rest of the program.                                                *)

\* The other pages' dialogs offer active values; deleting a record uses its value no more.
Record ==
    /\ ~tab.mounted
    /\ \E table \in Tables : \E id \in DOMAIN value[table] :
          \/ /\ value[table][id].active /\ value[table][id].used < MaxUses
             /\ value' = [value EXCEPT ![table][id].used = @ + 1]
          \/ /\ value[table][id].used > 0
             /\ value' = [value EXCEPT ![table][id].used = @ - 1]
    /\ UNCHANGED <<tab, asked>>

Restart ==
    /\ \A table \in Tables : Len(WithSeeds(value[table], Seeded[table])) <= MaxValues
    /\ value' = [table \in Tables |-> WithSeeds(value[table], Seeded[table])]
    /\ tab' = Away /\ asked' = <<>>

Init ==
    /\ value = [table \in Tables |-> WithSeeds(<<>>, Seeded[table])]
    /\ tab = Away /\ asked = <<>>

Next ==
    \/ Handle \/ OpenTab \/ Press \/ Deliver \/ Leave \/ Record \/ Restart
    \/ \E table \in Tables : ChooseTable(table)

Spec == Init /\ [][Next]_vars

-----------------------------------------------------------------------------
(* Properties.                                                             *)

\* The tables' names are unique, whichever way they came.
TypeOK ==
    /\ \A table \in Tables :
          /\ Len(value[table]) <= MaxValues
          /\ \A a, b \in DOMAIN value[table] :
                value[table][a].name = value[table][b].name => a = b
    /\ tab.mounted \in BOOLEAN /\ tab.table \in Tables
    /\ Len(asked) <= MaxRequests
    /\ ~tab.mounted => \A k \in DOMAIN asked : ~asked[k].awaited

\* When nothing is under way the rows on the screen are those of the table whose tab is
\* chosen, as they are: no answer about a table left meanwhile, and none from before a
\* later change, is left there (LookupsTab's run and useAsync both write the rows).
ListIsCurrent == tab.mounted /\ asked = <<>> => tab.rows = value[tab.table]
=============================================================================
