---------------------------- MODULE ImportWizard ----------------------------
(***************************************************************************)
(* The import wizard: the six steps on the screen (ImportWizard.tsx), the  *)
(* session the main process keeps (import/session.ts), the checks of the   *)
(* rows (validate.ts) and the run that writes them (execute.ts, modes.ts). *)
(*                                                                         *)
(* Two of the sheets a workbook may hold: members, keyed by a number that  *)
(* must be there, and donations, keyed by a number that may be blank (then *)
(* the run takes the next one) and naming a member or nobody. A row has    *)
(* one more optional column. 0 is a blank cell, an empty column, nobody.   *)
(*                                                                         *)
(* The screen and the main process exchange requests in order; a request   *)
(* is handled and its reply applied in one step, which loses nothing: the  *)
(* handlers do not wait, and what the screen sends before it has the reply *)
(* is handled after it anyway. Choosing a file is the exception: it waits  *)
(* for the user outside the queue.                                         *)
(***************************************************************************)
EXTENDS Naturals, Sequences, SequencesExt

CONSTANTS
    Books,        \* the books an import may start from: [member, donation, next]
    Files,        \* the workbooks the user may choose: [member, donation] of rows
    MaxChoosers,  \* file dialogs open at a time
    MaxRequests,  \* requests under way at a time: 1 when the user is slower than the replies
    MaxRuns       \* imports in a behaviour

Modes == {"insert", "upsert", "enrich", "replace"}
Entities == {"member", "donation"}

NoSession == [file |-> "none"]
NoReport == [canImport |-> FALSE]

VARIABLES
    book,        \* the two tables and the donation sequence
    session,     \* the open file, its included sheets and its mapping, in the main process
    screen,      \* the dialog: open, step, mode, file, busy, report and result
    requests,    \* sent and not answered
    choosers,    \* file dialogs waiting for the user
    runs         \* imports so far

vars == <<book, session, screen, requests, choosers, runs>>

Keys(rows) == {r.key : r \in rows} \ {0}

DependsOn(entity) == IF entity = "donation" THEN {"member"} ELSE {}

\* mutant: in the order of the sheets of the workbook
Order_AsGiven == <<"donation", "member">>

\* Every entity after the ones it refers to.
Order ==
    CHOOSE o \in {<<"member", "donation">>, <<"donation", "member">>} :
        \A i, j \in DOMAIN o : i < j => o[j] \notin DependsOn(o[i])

\* The cells of a sheet as the mapping reads them: an unmapped column is blank.
RowsFromMapping(s, entity) ==
    [i \in DOMAIN s.file[entity] |->
        IF s.linked THEN s.file[entity][i] ELSE [s.file[entity][i] EXCEPT !.member = 0]]

\* A row is accepted when its required cells are filled, the member it names is
\* known, and no earlier row of the sheet has its key.
Accepts(rows, i, known) ==
    /\ rows[i].member # 0 => rows[i].member \in known
    /\ rows[i].key # 0 => \A j \in 1..(i - 1) : rows[j].key # rows[i].key

ValidateSheet(rows, required, known) ==
    FoldLeftDomain(LAMBDA kept, i :
            IF Accepts(rows, i, known) /\ (required => rows[i].key # 0)
            THEN Append(kept, rows[i]) ELSE kept,
        <<>>, rows)

\* The accepted rows of each sheet; the members of the file count as known to the
\* donations of the same file.
Prepare(b, s) ==
    LET members == ValidateSheet(RowsFromMapping(s, "member"), TRUE, {})
        pending == IF "member" \in s.include THEN Keys(ToSet(members)) ELSE {}
    IN  [entity \in s.include |->
            IF entity = "member" THEN members
            ELSE ValidateSheet(RowsFromMapping(s, entity), FALSE, Keys(b.member) \cup pending)]

NoCounts == [insert |-> 0, update |-> 0, enrich |-> 0, skip |-> 0]

Existing(b, entity, mode, key) ==
    IF mode = "replace" \/ key = 0 THEN {} ELSE {r \in b[entity] : r.key = key}

\* A heading with a value in the file that is empty in the record. The heading of a
\* reference is never read from the record, so it always counts as empty.
FillableFields(old, row) ==
    {f \in {"text", "member"} : row[f] # 0 /\ (f = "text" => old.text = 0)}

DecideRowAction(mode, existing, row) ==
    IF mode = "replace" THEN "insert"
    ELSE IF existing = {} THEN IF mode = "enrich" THEN "skip" ELSE "insert"
    ELSE IF mode = "insert" THEN "skip"
    ELSE IF mode = "upsert" THEN "update"
    ELSE IF \A old \in existing : FillableFields(old, row) = {} THEN "skip" ELSE "enrich"

\* A reference becomes the record it names, or no column at all when there is none.
Link(b, row) == IF row.member \in Keys(b.member) THEN row.member ELSE 0

\* One row of a run: the columns it writes, the number it takes when it has none,
\* and the failure of the whole run when that number is already used.
WriteRow(entity, mode, acc, row) ==
    LET b == acc.book
        existing == Existing(b, entity, mode, row.key)
        action == DecideRowAction(mode, existing, row)
        key == IF row.key = 0 THEN b.next ELSE row.key
        new == [key |-> key, member |-> Link(b, row), text |-> row.text]
        Filled(old, value) == IF value # 0 THEN value ELSE old
        updated == {[old EXCEPT !.text = Filled(@, row.text), !.member = Filled(@, Link(b, row))]
                        : old \in existing}
        enriched == {[old EXCEPT !.text = IF @ = 0 THEN row.text ELSE @] : old \in existing}
        rows == CASE action = "insert" -> b[entity] \cup {new}
                  [] action = "update" -> (b[entity] \ existing) \cup updated
                  [] action = "enrich" -> (b[entity] \ existing) \cup enriched
                  [] OTHER -> b[entity]
    IN  [ok |-> acc.ok /\ (action = "insert" => key \notin Keys(b[entity])),
         book |-> [b EXCEPT ![entity] = rows,
                            !.next = IF action = "insert" /\ row.key = 0 THEN @ + 1 ELSE @],
         counts |-> [acc.counts EXCEPT ![entity] = [@ EXCEPT ![action] = @ + 1]]]

\* Replacing empties the table first, which the database refuses for members that a
\* donation refers to.
Emptied(entity, mode, acc) ==
    IF mode # "replace" THEN acc
    ELSE [acc EXCEPT !.ok = @ /\ (entity = "member" => \A d \in acc.book.donation : d.member = 0),
                     !.book = [@ EXCEPT ![entity] = {}]]

\* A whole run in one transaction: every included sheet in dependency order.
ExecuteImport(b, mode, prepared) ==
    LET Sheet(acc, entity) ==
            IF entity \notin DOMAIN prepared THEN acc
            ELSE FoldLeft(LAMBDA a, row : WriteRow(entity, mode, a, row),
                          Emptied(entity, mode, acc), prepared[entity])
    IN  FoldLeft(Sheet,
                 [ok |-> TRUE, book |-> b, counts |-> [entity \in DOMAIN prepared |-> NoCounts]],
                 Order)

\* mutant: the dry run is not rolled back
ValidateSession_Kept(b, s, mode) ==
    LET prepared == Prepare(b, s)
        dry == ExecuteImport(b, mode, prepared)
    IN  [ok |-> dry.ok, book |-> dry.book,
         report |-> [canImport |-> TRUE, preview |-> dry.counts]]

\* The report of step 4: whether there is a row to import, and what a dry run that is
\* rolled back would have counted. A dry run that fails leaves no report.
ValidateSession(b, s, mode) ==
    LET prepared == Prepare(b, s)
        dry == ExecuteImport(b, mode, prepared)
        some == \E entity \in DOMAIN prepared : prepared[entity] # <<>>
    IN  [ok |-> dry.ok \/ ~some,
         book |-> b,
         report |-> IF some THEN [canImport |-> TRUE, preview |-> dry.counts] ELSE NoReport]

Closed == [open |-> FALSE, step |-> 0, mode |-> "upsert", file |-> NoSession, busy |-> FALSE,
           report |-> NoReport, result |-> NoCounts]

Init ==
    /\ book \in Books
    /\ session = NoSession
    /\ screen = Closed
    /\ requests = <<>>
    /\ choosers = 0
    /\ runs = 0

Send(request) ==
    /\ Len(requests) < MaxRequests
    /\ requests' = Append(requests, request)

\* ------------------------------------------------------------- the screen

\* Opening starts the six steps again; the mode chosen last time stays.
Open ==
    /\ ~screen.open
    /\ screen' = [Closed EXCEPT !.open = TRUE, !.mode = screen.mode, !.busy = screen.busy]
    /\ UNCHANGED <<book, session, requests, choosers, runs>>

SetMode(mode) ==
    /\ screen.open /\ screen.step = 0
    /\ screen' = [screen EXCEPT !.mode = mode]
    /\ UNCHANGED <<book, session, requests, choosers, runs>>

ChooseFile ==
    /\ screen.open /\ screen.step = 1
    /\ choosers < MaxChoosers
    /\ choosers' = choosers + 1
    /\ screen' = [screen EXCEPT !.busy = TRUE]
    /\ UNCHANGED <<book, session, requests, runs>>

\* The user chose a file (it is read, and its sheets with rows are included) or cancelled.
OpenImportFile(file) ==
    LET opened == [file |-> file, linked |-> TRUE,
                   include |-> {e \in Entities : file[e] # <<>>}]
    IN  /\ choosers > 0
        /\ choosers' = choosers - 1
        /\ session' = opened
        /\ screen' = [screen EXCEPT !.file = opened, !.report = NoReport, !.busy = FALSE]
        /\ UNCHANGED <<book, requests, runs>>

ChoiceCancelled ==
    /\ choosers > 0
    /\ choosers' = choosers - 1
    /\ screen' = [screen EXCEPT !.busy = FALSE]
    /\ UNCHANGED <<book, session, requests, runs>>

\* mutant: the last step is not the last
CanAdvance_PastTheEnd ==
    /\ screen.open /\ ~screen.busy
    /\ screen.step \in {1, 2} => screen.file # NoSession /\ screen.file.include # {}
    /\ screen.step = 3 => screen.report.canImport

CanAdvance ==
    /\ screen.open /\ ~screen.busy
    /\ screen.step < 4
    /\ screen.step \in {1, 2} => screen.file # NoSession /\ screen.file.include # {}
    /\ screen.step = 3 => screen.report.canImport

\* Leaving the mapping asks for the checks again, whatever was checked before.
Advance ==
    /\ CanAdvance
    /\ \/ /\ screen.step = 2
          /\ Send([kind |-> "preflight", mode |-> screen.mode])
          /\ screen' = [screen EXCEPT !.busy = TRUE]
       \/ /\ screen.step # 2
          /\ screen' = [screen EXCEPT !.step = @ + 1]
          /\ UNCHANGED requests
    /\ UNCHANGED <<book, session, choosers, runs>>

Back ==
    /\ screen.open /\ ~screen.busy
    /\ screen.step \in 1..3
    /\ screen' = [screen EXCEPT !.step = @ - 1,
                                !.report = IF screen.step = 3 THEN NoReport ELSE @]
    /\ UNCHANGED <<book, session, requests, choosers, runs>>

\* A change of the mapping step: a sheet in or out, or the member column mapped or
\* not, each computed from the file as the screen shows it. None waits for the last.
PatchSheet ==
    /\ screen.open /\ screen.step = 2 /\ screen.file # NoSession
    /\ \/ \E entity \in Entities :
            Send([kind |-> "include", entity |-> entity,
                  value |-> entity \notin screen.file.include])
       \/ Send([kind |-> "mapping", linked |-> ~screen.file.linked])
    /\ screen' = [screen EXCEPT !.busy = TRUE]
    /\ UNCHANGED <<book, session, choosers, runs>>

RunNow ==
    /\ screen.open /\ screen.step = 4 /\ ~screen.busy
    /\ runs < MaxRuns
    /\ runs' = runs + 1
    /\ Send([kind |-> "run", mode |-> screen.mode])
    /\ screen' = [screen EXCEPT !.busy = TRUE]
    /\ UNCHANGED <<book, session, choosers>>

Close ==
    /\ screen.open /\ ~screen.busy
    /\ Send([kind |-> "cancel"])
    /\ UNCHANGED <<book, session, screen, choosers, runs>>

\* -------------------------------------------------------- the main process

Request == Head(requests)
Handles(kind) == requests # <<>> /\ Request.kind = kind
Replied == requests' = Tail(requests)

Patched(s, patch) ==
    IF patch.kind = "mapping" THEN [s EXCEPT !.linked = patch.linked]
    ELSE [s EXCEPT !.include = IF patch.value THEN @ \cup {patch.entity} ELSE @ \ {patch.entity}]

UpdateSheet ==
    /\ Handles("include") \/ Handles("mapping")
    /\ Replied
    /\ IF session = NoSession
       THEN /\ screen' = [screen EXCEPT !.busy = FALSE]
            /\ UNCHANGED session
       ELSE /\ session' = Patched(session, Request)
            /\ screen' = [screen EXCEPT !.file = session', !.report = NoReport, !.busy = FALSE]
    /\ UNCHANGED <<book, choosers, runs>>

\* The reply of preflight moves the screen on and asks for the report.
Preflight ==
    /\ Handles("preflight")
    /\ IF session = NoSession
       THEN /\ Replied
            /\ screen' = [screen EXCEPT !.busy = FALSE]
       ELSE /\ requests' = Append(Tail(requests), [kind |-> "validate", mode |-> Request.mode])
            /\ screen' = [screen EXCEPT !.step = 3]
    /\ UNCHANGED <<book, session, choosers, runs>>

Validate ==
    /\ Handles("validate") /\ Replied
    /\ IF session = NoSession
       THEN /\ screen' = [screen EXCEPT !.busy = FALSE]
            /\ UNCHANGED book
       ELSE LET checked == ValidateSession(book, session, Request.mode)
            IN  /\ book' = checked.book
                /\ screen' = [screen EXCEPT !.busy = FALSE,
                                            !.report = IF checked.ok THEN checked.report ELSE @]
    /\ UNCHANGED <<session, choosers, runs>>

\* The rows are prepared again and written; a failure writes nothing.
RunImport ==
    /\ Handles("run") /\ Replied
    /\ IF session = NoSession
       THEN /\ screen' = [screen EXCEPT !.busy = FALSE]
            /\ UNCHANGED book
       ELSE LET done == ExecuteImport(book, Request.mode, Prepare(book, session))
            IN  IF done.ok
                THEN /\ book' = done.book
                     /\ screen' = [screen EXCEPT !.busy = FALSE, !.step = 5,
                                                 !.result = done.counts]
                ELSE /\ screen' = [screen EXCEPT !.busy = FALSE]
                     /\ UNCHANGED book
    /\ UNCHANGED <<session, choosers, runs>>

CancelImport ==
    /\ Handles("cancel") /\ Replied
    /\ session' = NoSession
    /\ screen' = [screen EXCEPT !.open = FALSE]
    /\ UNCHANGED <<book, choosers, runs>>

Next ==
    \/ Open \/ ChooseFile \/ ChoiceCancelled \/ Advance \/ Back \/ RunNow \/ Close
    \/ \E mode \in Modes : SetMode(mode)
    \/ \E file \in Files : OpenImportFile(file)
    \/ PatchSheet \/ UpdateSheet \/ Preflight \/ Validate \/ RunImport \/ CancelImport

Spec == Init /\ [][Next]_vars

-----------------------------------------------------------------------------

TypeOK ==
    /\ DOMAIN book = {"member", "donation", "next"}
    /\ session = NoSession \/ session.include \subseteq Entities
    /\ screen.step \in 0..5 /\ screen.mode \in Modes /\ screen.busy \in BOOLEAN
    /\ Len(requests) <= MaxRequests
    /\ choosers \in 0..MaxChoosers /\ runs \in 0..MaxRuns

\* The numbers of the summary are the numbers of the report the user pressed "import
\* now" under (session.ts: what is shown is what will happen, not an estimate), however
\* the user went back and forth, changed the mode or the mapping, or imported before. A
\* file chosen in a dialog left open since step 2 takes the report away: the button
\* still works then, and what it imports was shown to nobody.
PreviewIsResult ==
    screen.open /\ screen.step = 5 /\ screen.report # NoReport =>
        screen.result = screen.report.preview

\* An import that updates puts every row the checks accepted into its table with the
\* values of the sheet, linked to the member it names even when that member came in the
\* same file (order.ts: the entities a sheet depends on are written before it).
Landed(rows, table) ==
    \A row \in ToSet(rows) : row.key # 0 =>
        \E r \in table :
            /\ r.key = row.key
            /\ row.text # 0 => r.text = row.text
            /\ row.member # 0 => r.member = row.member

UpsertLands ==
    [][ screen.step = 4 /\ screen'.step = 5 /\ Request.mode = "upsert" =>
            LET prepared == Prepare(book, session)
            IN  \A entity \in DOMAIN prepared : Landed(prepared[entity], book'[entity]) ]_vars
=============================================================================
