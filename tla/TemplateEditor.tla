--------------------------- MODULE TemplateEditor ----------------------------
(***************************************************************************)
(* The page of message templates (TemplatesPage.tsx), the table it edits   *)
(* (services/templates) and what its live preview is computed by           *)
(* (whatsapp/TemplateRenderer).                                            *)
(*                                                                         *)
(* A body is a sequence of lines, a line its words and whether it is       *)
(* conditional; a word is a placeholder, a lone pair of braces, or text.   *)
(* What the page asks for is handled in the main process without an await, *)
(* so the answers come in the order of the requests, at any later time;    *)
(* the handling and its answer are one step.                               *)
(*                                                                         *)
(* Left out: wording and formats of values, the templates of events (in    *)
(* EventMessages), errors on the screen, and roles: only an administrator  *)
(* edits here.                                                             *)
(***************************************************************************)
EXTENDS Integers, Sequences, SequencesExt

CONSTANTS
    Members,
    Fields, EventFields,  \* placeholders the editor offers; of a member, of an event
    Unknown,              \* what looks like a placeholder and is none
    Value,                \* what a member's fields read
    Empty,                \* the dash a field without a value reads
    Bodies, Blank,        \* texts, and the one without a word
    Names,                \* names in the order they sort; 0 is the empty one
    NoMember,
    Seeded,               \* the templates every start puts in place: [name, body]
    MaxTemplates,         \* bound: rows
    MaxRequests           \* bound: requests under way

\* Assumed where the module is used.
EditorConstants ==
    /\ Blank \in Bodies /\ Names \subseteq Nat /\ 0 \in Names /\ NoMember \notin Members
    /\ Seeded \in Seq([name : Names \ {0}, body : Bodies])
    /\ Fields \cap EventFields = {} /\ Unknown \cap (Fields \cup EventFields) = {}
    /\ \A m \in Members : Fields \subseteq DOMAIN Value[m]

VARIABLES
    template,   \* message_template
    editor,     \* the page: selected (0: none), name, body, member, verdict, preview, busy
    templates,  \* the page's list: the rows as they were loaded
    timer,      \* the 250 ms of rest are running
    requests    \* requests under way

vars == <<template, editor, templates, timer, requests>>

-----------------------------------------------------------------------------
(* whatsapp/TemplateRenderer.                                              *)

Words(body) == UNION {Range(body[i].words) : i \in DOMAIN body}
Occurrences(body, word) ==
    FoldLeft(LAMBDA n, line : n + Len(SelectSeq(line.words, LAMBDA w : w = word)), 0, body)

\* What keeps a template from being saved, and what it is only warned of.
ValidateTemplate(body) ==
    [ok |-> /\ Words(body) # {}
            /\ Words(body) \cap Unknown = {}
            /\ Occurrences(body, "{{") = Occurrences(body, "}}"),
     warnings |-> Words(body) \cap EventFields]

\* The editor's preview has no event.
ValueFor(word, member) == IF word \in EventFields THEN Empty ELSE Value[member][word]

Rendered(line, member) ==
    [i \in DOMAIN line.words |->
        IF line.words[i] \in Fields \cup EventFields
        THEN ValueFor(line.words[i], member) ELSE line.words[i]]

\* A conditional line is there when all of its fields have values.
RenderTemplate(body, member) ==
    LET shown(line) == line.maybe =>
            \A w \in Range(line.words) \cap (Fields \cup EventFields) :
                ValueFor(w, member) # Empty
        lines == SelectSeq(body, shown)
    IN  [i \in DOMAIN lines |-> Rendered(lines[i], member)]

-----------------------------------------------------------------------------
(* services/templates.                                                     *)

Row(name, body) == [name |-> name, body |-> body, live |-> TRUE]

\* Mutant: the index on names leaves out what was deleted.
MaySave_LiveNames(id, name, body) ==
    /\ ValidateTemplate(body).ok
    /\ \A i \in DOMAIN template \ {id} : template[i].live => template[i].name # name

\* A name is used once, also by what was deleted; and the text must be valid.
MaySave(id, name, body) ==
    /\ ValidateTemplate(body).ok
    /\ \A i \in DOMAIN template \ {id} : template[i].name # name

\* A row that was deleted meanwhile is found and written too, and stays deleted.
SaveTemplate(id, name, body) ==
    IF id = 0 THEN Append(template, Row(name, body))
    ELSE [template EXCEPT ![id].name = name, ![id].body = body]

RemoveTemplate(id) == [template EXCEPT ![id].live = FALSE]

\* The templates of no event that were not deleted, by name.
ListTemplates ==
    LET order == SetToSortSeq({i \in DOMAIN template : template[i].live},
                              LAMBDA i, j : template[i].name < template[j].name)
    IN  [k \in DOMAIN order |->
            [id |-> order[k], name |-> template[order[k]].name,
             body |-> template[order[k]].body]]

\* INSERT OR IGNORE: a seeded template is put in place at every start, unless its name is
\* used; one that was renamed comes back beside its renamed self.
WithSeeds(rows) ==
    FoldLeft(LAMBDA made, t : IF \E i \in DOMAIN made : made[i].name = t.name THEN made
                              ELSE Append(made, Row(t.name, t.body)),
             rows, Seeded)

-----------------------------------------------------------------------------
(* The page.                                                               *)

NotYet == [ok |-> FALSE, warnings |-> {}]
NoPreview == <<>>
Fresh == [selected |-> 0, name |-> 0, body |-> Blank, member |-> NoMember,
          verdict |-> NotYet, preview |-> NoPreview, busy |-> FALSE]

Request(kind) == [kind |-> kind, id |-> 0, selected |-> 0, name |-> 0, body |-> Blank,
                  member |-> NoMember]

Mounted ==
    [editor |-> Fresh, templates |-> <<>>, timer |-> TRUE,
     requests |-> <<Request("list"), Request("member")>>]

Init ==
    /\ template = WithSeeds(<<>>)
    /\ editor = Mounted.editor /\ templates = Mounted.templates
    /\ timer = Mounted.timer /\ requests = Mounted.requests

\* The program ends, at any moment, and is started again.
Restart ==
    /\ Len(WithSeeds(template)) <= MaxTemplates
    /\ template' = WithSeeds(template)
    /\ editor' = Mounted.editor /\ templates' = Mounted.templates
    /\ timer' = Mounted.timer /\ requests' = Mounted.requests

Ask(news) ==
    /\ Len(requests) + Len(news) <= MaxRequests
    /\ requests' = requests \o news

\* The page is e, its list rows: with nothing open and nothing typed the first template
\* is opened; a text or a member that changed is validated and previewed after a rest.
Becomes(e, rows) ==
    LET opens == e.selected = 0 /\ e.name = 0 /\ e.body = Blank /\ rows # <<>>
        shown == IF opens THEN [e EXCEPT !.selected = rows[1].id, !.name = rows[1].name,
                                         !.body = rows[1].body]
                 ELSE e
    IN  /\ editor' = shown
        /\ templates' = rows
        /\ timer' = (timer \/ shown.body # editor.body \/ shown.member # editor.member)

\* Typing in either field, a field's chip, and the choice of a member for the preview.
Edit ==
    /\ \/ \E name \in Names : Becomes([editor EXCEPT !.name = name], templates)
       \/ \E body \in Bodies : Becomes([editor EXCEPT !.body = body], templates)
       \/ \E m \in Members : Becomes([editor EXCEPT !.member = m], templates)
    /\ UNCHANGED <<template, requests>>

Opened(row) == [editor EXCEPT !.selected = row.id, !.name = row.name, !.body = row.body]
Emptied(e) == [e EXCEPT !.selected = 0, !.name = 0, !.body = Blank]

Select ==
    /\ \E row \in Range(templates) : Becomes(Opened(row), templates)
    /\ UNCHANGED <<template, requests>>

StartNew ==
    /\ Becomes(Emptied(editor), templates)
    /\ UNCHANGED <<template, requests>>

\* A copy is a new template, with another name made from the first one's.
Duplicate ==
    /\ \E row \in Range(templates), copyOf \in Names \ {0} :
          /\ copyOf # row.name
          /\ Becomes([Opened(row) EXCEPT !.selected = 0, !.name = copyOf], templates)
    /\ UNCHANGED <<template, requests>>

Dirty ==
    LET current == SelectSeq(templates, LAMBDA row : row.id = editor.selected)
    IN  IF current = <<>> THEN editor.name # 0 \/ editor.body # Blank
        ELSE editor.name # current[1].name \/ editor.body # current[1].body

CanSave == Dirty /\ editor.name # 0 /\ editor.verdict.ok

SaveAsked ==
    /\ ~editor.busy /\ CanSave
    /\ editor.selected = 0 => Len(template) < MaxTemplates
    /\ Ask(<<[Request("save") EXCEPT !.id = editor.selected, !.name = editor.name,
                                     !.body = editor.body]>>)
    /\ editor' = [editor EXCEPT !.busy = TRUE]
    /\ UNCHANGED <<template, templates, timer>>

\* Confirmed by the user; what was open is remembered from the click.
RemoveAsked ==
    /\ \E row \in Range(templates) :
          Ask(<<[Request("remove") EXCEPT !.id = row.id, !.selected = editor.selected]>>)
    /\ editor' = [editor EXCEPT !.busy = TRUE]
    /\ UNCHANGED <<template, templates, timer>>

\* The rest is over: the text is validated, and rendered when there is what to render.
TimerFires ==
    /\ timer
    /\ LET asked == [Request("validate") EXCEPT !.body = editor.body]
       IN  IF editor.member = NoMember \/ Words(editor.body) = {}
           THEN /\ Ask(<<asked>>)
                /\ editor' = [editor EXCEPT !.preview = NoPreview]
           ELSE /\ Ask(<<asked, [asked EXCEPT !.kind = "render", !.member = editor.member]>>)
                /\ UNCHANGED editor
    /\ timer' = FALSE
    /\ UNCHANGED <<template, templates>>

-----------------------------------------------------------------------------
(* Requests are answered.                                                  *)

Answers(kind) == requests # <<>> /\ Head(requests).kind = kind

\* useAsync takes the answer to what it asked last.
ListAnswered ==
    /\ Answers("list")
    /\ requests' = Tail(requests)
    /\ IF \E r \in Range(Tail(requests)) : r.kind = "list"
       THEN UNCHANGED <<editor, templates, timer>>
       ELSE Becomes(editor, ListTemplates)
    /\ UNCHANGED template

\* The first member who owes, any other, or none; asked for while none is chosen.
MemberAnswered ==
    /\ Answers("member")
    /\ requests' = Tail(requests)
    /\ \E m \in Members \cup {NoMember} :
          Becomes(IF m = NoMember THEN editor ELSE [editor EXCEPT !.member = m], templates)
    /\ UNCHANGED template

ValidateAnswered ==
    /\ Answers("validate")
    /\ requests' = Tail(requests)
    /\ editor' = [editor EXCEPT !.verdict = ValidateTemplate(Head(requests).body)]
    /\ UNCHANGED <<template, templates, timer>>

RenderAnswered ==
    /\ Answers("render")
    /\ requests' = Tail(requests)
    /\ editor' = [editor EXCEPT !.preview = RenderTemplate(Head(requests).body,
                                                           Head(requests).member)]
    /\ UNCHANGED <<template, templates, timer>>

\* Saved, or refused: the verdict on the screen may be of an earlier text, and the name
\* taken. What is open stays open: a new template is still a new one, whose name is now
\* taken by itself.
SaveAnswered ==
    /\ Answers("save")
    /\ LET asked == Head(requests)
           ok == MaySave(asked.id, asked.name, asked.body)
       IN  /\ requests' = Tail(requests) \o (IF ok THEN <<Request("list")>> ELSE <<>>)
           /\ template' = IF ok THEN SaveTemplate(asked.id, asked.name, asked.body) ELSE template
    /\ Becomes([editor EXCEPT !.busy = FALSE], templates)

\* The effect opens the first of the rows loaded before, which may be the removed one.
RemoveAnswered ==
    /\ Answers("remove")
    /\ LET asked == Head(requests)
           freed == [editor EXCEPT !.busy = FALSE]
       IN  /\ requests' = Append(Tail(requests), Request("list"))
           /\ template' = RemoveTemplate(asked.id)
           /\ Becomes(IF asked.selected = asked.id THEN Emptied(freed) ELSE freed, templates)

Next ==
    \/ Edit \/ Select \/ StartNew \/ Duplicate \/ SaveAsked \/ RemoveAsked \/ TimerFires
    \/ ListAnswered \/ MemberAnswered \/ ValidateAnswered \/ RenderAnswered
    \/ SaveAnswered \/ RemoveAnswered \/ Restart

Spec == Init /\ [][Next]_vars

-----------------------------------------------------------------------------
(* Properties.                                                             *)

\* The table, the page and its requests hold what they may.
TypeOK ==
    /\ template \in Seq([name : Names \ {0}, body : Bodies, live : BOOLEAN])
    /\ Len(template) <= MaxTemplates
    /\ \A i, j \in DOMAIN template : template[i].name = template[j].name => i = j
    /\ \A i \in DOMAIN templates : templates[i].id \in DOMAIN template
    /\ editor.selected \in {0} \cup DOMAIN template
    /\ editor.name \in Names /\ editor.body \in Bodies /\ editor.busy \in BOOLEAN
    /\ editor.member \in Members \cup {NoMember} /\ timer \in BOOLEAN
    /\ Len(requests) <= MaxRequests

\* W-13, W-14.  Once the page rests, the verdict under the text and the preview beside it
\* are those of the text on the screen, and of the member chosen. (An emptied text clears
\* the preview when the rest ends, and an answer that is later still brings the earlier
\* one back: so the preview of an empty text is not spoken of.)
SettledPreview ==
    ~timer /\ (\A r \in Range(requests) : r.kind \notin {"validate", "render"}) =>
        /\ editor.verdict = ValidateTemplate(editor.body)
        /\ editor.member # NoMember /\ Words(editor.body) # {} =>
              editor.preview = RenderTemplate(editor.body, editor.member)
=============================================================================
