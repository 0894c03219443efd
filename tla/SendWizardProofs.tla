-------------------------- MODULE SendWizardProofs --------------------------
(***************************************************************************)
(* Theorems about SendWizard, for every set of members, texts, templates   *)
(* and answers, and any number of campaigns and requests.                  *)
(*                                                                         *)
(* A campaign is on the screen because its dialog stays busy until it ends *)
(* and a busy dialog neither closes nor moves; the preview catches up      *)
(* because a change starts the rest anew, and what is asked for last is    *)
(* answered last.                                                          *)
(***************************************************************************)
EXTENDS SendWizard, SequenceTheorems, TLAPS

Template == [id : Templates, body : Bodies]
Draft == [templates : Seq(Template), templateId : TemplateIds, body : Bodies,
          ids : SUBSET Members, removed : SUBSET Members, prepared : Preview]
Read == [kind : {"list", "prepare"}, preview : Preview]
Status == {"draft", "running", "completed", "cancelled", "paused"}

\* The dialog and the operation under way.  The dialog is busy exactly while an operation
\* is under way; from the moment the campaign was read the last step is shown.
DialogTellsOperation ==
    /\ operation.stage # "idle" <=> wizard.busy
    /\ wizard.busy => wizard.open
    /\ operation.stage \in {"get", "starting", "running", "final"} => wizard.campaignId # 0
    /\ operation.stage \in {"starting", "running", "final"} => wizard.step = 3
    /\ operation.stage = "running" => active.id = wizard.campaignId
    /\ ~login /\ active.id # 0 => operation.stage = "running"

\* What was asked for last is what is shown; with nothing asked for, it is what is previewed.
PreviewFollows ==
    wizard.open /\ ActiveIds(draft) # {} /\ ~timer =>
        /\ (\A i \in DOMAIN requests : requests[i].kind # "prepare")
              => draft.prepared = Rendering(draft)
        /\ \A i \in DOMAIN requests :
              /\ requests[i].kind = "prepare"
              /\ \A j \in DOMAIN requests : j > i => requests[j].kind # "prepare"
              => requests[i].preview = Rendering(draft)

IInv == TypeOK /\ DialogTellsOperation /\ PreviewFollows

-----------------------------------------------------------------------------

LEMMA Types ==
    ASSUME TypeOK
    PROVE  /\ campaign \in Seq(Status) /\ Len(campaign) \in Nat
           /\ requests \in Seq(Read) /\ Len(requests) \in Nat
           /\ DOMAIN requests = 1..Len(requests)
           /\ draft \in Draft
           /\ wizard \in [open : BOOLEAN, step : 0..3, busy : BOOLEAN,
                          campaignId : 0..Len(campaign), phase : Phases]
           /\ operation \in [stage : Stages, prepared : Preview]
           /\ active \in [id : 0..Len(campaign), request : {"run", "pause", "cancel"}]
           /\ login \in BOOLEAN /\ timer \in BOOLEAN
  BY LenProperties DEF TypeOK, Status, Read, Draft, Template

LEMMA NoPreviewIsPreview == WizardConstants => NoPreview \in Preview
  BY DEF WizardConstants, NoPreview, Preview, TemplateIds

LEMMA RenderingIsPreview == ASSUME NEW d \in Draft PROVE Rendering(d) \in Preview
  BY DEF Draft, Rendering, Preview, ActiveIds

LEMMA InvariantStarts == WizardConstants /\ Init => IInv
<1>1. SUFFICES ASSUME WizardConstants, Init PROVE IInv
  OBVIOUS
<1>2. NoPreview \in Preview
  BY <1>1, NoPreviewIsPreview
<1>3. /\ campaign \in Seq(Status) /\ Len(campaign) = 0
      /\ requests \in Seq(Read) /\ <<>> \in Seq(Template)
  BY <1>1, EmptySeq DEF Init
<1>4. wizard \in [open : BOOLEAN, step : 0..3, busy : BOOLEAN,
                  campaignId : 0..Len(campaign), phase : Phases]
  BY <1>1, <1>3 DEF Init, Mounted, Phases
<1>5. draft \in Draft
  BY <1>1, <1>2, <1>3 DEF Init, NoDraft, Draft, WizardConstants, TemplateIds
<1>6. /\ operation \in [stage : Stages, prepared : Preview]
      /\ active \in [id : 0..Len(campaign), request : {"run", "pause", "cancel"}]
  BY <1>1, <1>2, <1>3 DEF Init, Idle, NoRun, Stages
<1>7. TypeOK
  BY <1>1, <1>3, <1>4, <1>5, <1>6 DEF Init, TypeOK, Status, Read, Draft, Template
<1>8. DialogTellsOperation /\ PreviewFollows
  BY <1>1 DEF Init, Mounted, NoDraft, Idle, NoRun, DialogTellsOperation, PreviewFollows
<1>9. QED
  BY <1>7, <1>8 DEF IInv

-----------------------------------------------------------------------------
(* The preview.                                                            *)

\* The first request is answered: the others keep their order, and the last stays last.
LEMMA Answered ==
    ASSUME IInv, requests # <<>>, requests' = Tail(requests)
    PROVE  /\ requests' \in Seq(Read) /\ Len(requests') = Len(requests) - 1
           /\ DOMAIN requests' = 1..(Len(requests) - 1)
           /\ \A i \in 1..(Len(requests) - 1) : requests'[i] = requests[i + 1]
           /\ requests[1] = Head(requests)
<1>1. requests \in Seq(Read) /\ Len(requests) \in Nat
  BY Types DEF IInv
<1>2. Tail(requests) \in Seq(Read) /\ Len(Tail(requests)) = Len(requests) - 1
      /\ \A i \in 1..Len(Tail(requests)) : Tail(requests)[i] = requests[i + 1]
  BY <1>1, HeadTailProperties
<1>3. DOMAIN Tail(requests) = 1..Len(Tail(requests))
  BY <1>2, LenProperties
<1>4. Head(requests) = requests[1]
  BY <1>1
<1>5. QED
  BY <1>2, <1>3, <1>4

\* An answered list leaves what is asked for about the preview as it was.
LEMMA TailFollows ==
    ASSUME IInv, requests # <<>>, Head(requests).kind = "list", requests' = Tail(requests),
           wizard'.open = wizard.open, ActiveIds(draft') = ActiveIds(draft),
           Rendering(draft') = Rendering(draft), draft'.prepared = draft.prepared,
           timer' = timer
    PROVE  PreviewFollows'
<1>1. /\ DOMAIN requests = 1..Len(requests) /\ Len(requests) \in Nat
      /\ DOMAIN requests' = 1..(Len(requests) - 1)
      /\ \A i \in 1..(Len(requests) - 1) : requests'[i] = requests[i + 1]
      /\ requests[1].kind = "list"
  BY Answered, Types DEF IInv
<1>2. SUFFICES ASSUME wizard.open, ActiveIds(draft) # {}, ~timer
               PROVE  /\ (\A i \in DOMAIN requests' : requests'[i].kind # "prepare")
                            => draft.prepared = Rendering(draft)
                      /\ \A i \in DOMAIN requests' :
                            /\ requests'[i].kind = "prepare"
                            /\ \A j \in DOMAIN requests' : j > i => requests'[j].kind # "prepare"
                            => requests'[i].preview = Rendering(draft)
  BY DEF PreviewFollows
<1>3. ASSUME \A i \in DOMAIN requests' : requests'[i].kind # "prepare"
      PROVE  draft.prepared = Rendering(draft)
  <2>1. ASSUME NEW i \in DOMAIN requests PROVE requests[i].kind # "prepare"
    <3>1. CASE i = 1
      BY <1>1, <3>1
    <3>2. CASE i # 1
      <4>1. i - 1 \in 1..(Len(requests) - 1) /\ requests'[i - 1] = requests[(i - 1) + 1]
        BY <1>1, <3>2
      <4>2. (i - 1) + 1 = i
        BY <1>1
      <4>3. QED
        BY <1>1, <1>3, <4>1, <4>2
    <3>3. QED
      BY <3>1, <3>2
  <2>2. QED
    BY <1>2, <2>1 DEF IInv, PreviewFollows
<1>4. ASSUME NEW i \in DOMAIN requests', requests'[i].kind = "prepare",
             \A j \in DOMAIN requests' : j > i => requests'[j].kind # "prepare"
      PROVE  requests'[i].preview = Rendering(draft)
  <2>1. i + 1 \in DOMAIN requests /\ requests[i + 1] = requests'[i]
    BY <1>1
  <2>2. ASSUME NEW j \in DOMAIN requests, j > i + 1 PROVE requests[j].kind # "prepare"
    <3>1. j - 1 \in DOMAIN requests' /\ j - 1 > i /\ requests'[j - 1] = requests[(j - 1) + 1]
      BY <1>1, <2>2
    <3>2. (j - 1) + 1 = j
      BY <1>1
    <3>3. QED
      BY <1>4, <3>1, <3>2
  <2>3. QED
    BY <1>2, <1>4, <2>1, <2>2 DEF IInv, PreviewFollows
<1>5. QED
  BY <1>3, <1>4

\* The dialog and its draft change through the effect: either nothing it depends on
\* changed, or the rest starts anew, or there is nothing to preview.
LEMMA EffectFollows ==
    ASSUME IInv, NEW w, NEW d \in Draft, Becomes(w, d),
           d.prepared = draft.prepared \/ w.open # wizard.open,
           \/ requests' = requests
           \/ w.open # wizard.open
           \/ requests # <<>> /\ Head(requests).kind = "list" /\ requests' = Tail(requests)
    PROVE  PreviewFollows'
<1>1. CASE Watched(w, d) # Watched(wizard, draft)
  <2>1. CASE w.open /\ ActiveIds(d) # {}
    BY <1>1, <2>1 DEF Becomes, PreviewFollows
  <2>2. CASE ~(w.open /\ ActiveIds(d) # {})
    <3>1. wizard' = w /\ draft' = [d EXCEPT !.prepared = NoPreview]
      BY <1>1, <2>2 DEF Becomes
    <3>2. ActiveIds(draft') = ActiveIds(d)
      BY <3>1 DEF ActiveIds, Draft
    <3>3. QED
      BY <2>2, <3>1, <3>2 DEF PreviewFollows, ActiveIds
  <2>3. QED
    BY <2>1, <2>2
<1>2. CASE Watched(w, d) = Watched(wizard, draft)
  <2>1. /\ w.open = wizard.open /\ ActiveIds(d) = ActiveIds(draft)
        /\ Rendering(d) = Rendering(draft) /\ d.prepared = draft.prepared
        /\ wizard' = w /\ draft' = d /\ timer' = timer
    BY <1>2 DEF Becomes, Watched, Rendering
  <2>2. CASE requests' = requests
    BY <2>1, <2>2 DEF IInv, PreviewFollows
  <2>3. CASE requests # <<>> /\ Head(requests).kind = "list" /\ requests' = Tail(requests)
    BY <2>1, <2>3, TailFollows
  <2>4. QED
    BY <2>1, <2>2, <2>3
<1>3. QED
  BY <1>1, <1>2

\* Steps that leave the draft, its rest and the requests alone.
LEMMA NothingAsked ==
    ASSUME IInv, UNCHANGED <<draft, timer, requests>>, wizard'.open = wizard.open
    PROVE  PreviewFollows'
  BY DEF IInv, PreviewFollows

\* What is shown is asked for: it is the last request.
LEMMA AskedLast == IInv /\ TimerFires => PreviewFollows'
<1>1. SUFFICES ASSUME IInv, TimerFires PROVE PreviewFollows'
  OBVIOUS
<1>2. draft' = draft /\ wizard' = wizard
      /\ requests' = Append(requests, Request("prepare", Rendering(draft)))
  BY <1>1 DEF TimerFires
<1>3. draft \in Draft /\ requests \in Seq(Read) /\ Len(requests) \in Nat
  BY <1>1, Types DEF IInv
<1>4. Request("prepare", Rendering(draft)) \in Read
  BY <1>3, RenderingIsPreview DEF Request, Read
<1>5. /\ requests' \in Seq(Read) /\ Len(requests') = Len(requests) + 1
      /\ requests'[Len(requests) + 1] = Request("prepare", Rendering(draft))
  BY <1>2, <1>3, <1>4, AppendProperties
<1>6. DOMAIN requests' = 1..(Len(requests) + 1)
  BY <1>5, LenProperties
<1>7. requests'[Len(requests) + 1].kind = "prepare"
      /\ requests'[Len(requests) + 1].preview = Rendering(draft)
  BY <1>5 DEF Request
<1>8. ASSUME NEW i \in DOMAIN requests',
             \A j \in DOMAIN requests' : j > i => requests'[j].kind # "prepare"
      PROVE  i = Len(requests) + 1
  BY <1>3, <1>6, <1>7, <1>8
<1>9. Len(requests) + 1 \in DOMAIN requests'
  BY <1>3, <1>6
<1>10. QED
  BY <1>2, <1>7, <1>8, <1>9 DEF PreviewFollows

\* An answer is shown: if nothing more was asked for, it was asked for last.
LEMMA AnswerShown == IInv /\ PrepareAnswered => PreviewFollows'
<1>1. SUFFICES ASSUME IInv, PrepareAnswered PROVE PreviewFollows'
  OBVIOUS
<1>2. /\ requests # <<>> /\ Head(requests).kind = "prepare" /\ requests' = Tail(requests)
      /\ draft' = [draft EXCEPT !.prepared = Head(requests).preview]
      /\ UNCHANGED <<wizard, timer>>
  BY <1>1 DEF PrepareAnswered
<1>3. draft \in Draft /\ Len(requests) \in Nat /\ DOMAIN requests = 1..Len(requests)
  BY <1>1, Types DEF IInv
<1>4. ActiveIds(draft') = ActiveIds(draft) /\ Rendering(draft') = Rendering(draft)
      /\ draft'.prepared = requests[1].preview
  BY <1>1, <1>2, <1>3, Answered DEF ActiveIds, Rendering, Draft
<1>5. /\ DOMAIN requests' = 1..(Len(requests) - 1)
      /\ \A i \in 1..(Len(requests) - 1) : requests'[i] = requests[i + 1]
      /\ 1 \in DOMAIN requests /\ requests[1].kind = "prepare"
  BY <1>1, <1>2, <1>3, Answered
<1>6. SUFFICES ASSUME wizard.open, ActiveIds(draft) # {}, ~timer
               PROVE  /\ (\A i \in DOMAIN requests' : requests'[i].kind # "prepare")
                            => draft'.prepared = Rendering(draft)
                      /\ \A i \in DOMAIN requests' :
                            /\ requests'[i].kind = "prepare"
                            /\ \A j \in DOMAIN requests' : j > i => requests'[j].kind # "prepare"
                            => requests'[i].preview = Rendering(draft)
  BY <1>2, <1>4 DEF PreviewFollows
<1>7. \A j \in DOMAIN requests : j > 1 => j - 1 \in DOMAIN requests' /\ requests'[j - 1] = requests[j]
  <2>1. SUFFICES ASSUME NEW j \in DOMAIN requests, j > 1
                 PROVE  j - 1 \in DOMAIN requests' /\ requests'[j - 1] = requests[j]
    OBVIOUS
  <2>2. j - 1 \in 1..(Len(requests) - 1) /\ (j - 1) + 1 = j
    BY <1>3, <2>1
  <2>3. QED
    BY <1>5, <2>2
<1>8. ASSUME \A i \in DOMAIN requests' : requests'[i].kind # "prepare"
      PROVE  draft'.prepared = Rendering(draft)
  <2>1. \A j \in DOMAIN requests : j > 1 => requests[j].kind # "prepare"
    BY <1>7, <1>8
  <2>2. requests[1].preview = Rendering(draft)
    BY <1>1, <1>5, <1>6, <2>1 DEF IInv, PreviewFollows
  <2>3. QED
    BY <1>4, <2>2
<1>9. ASSUME NEW i \in DOMAIN requests', requests'[i].kind = "prepare",
             \A j \in DOMAIN requests' : j > i => requests'[j].kind # "prepare"
      PROVE  requests'[i].preview = Rendering(draft)
  <2>1. i + 1 \in DOMAIN requests /\ requests[i + 1] = requests'[i]
    BY <1>3, <1>5
  <2>2. ASSUME NEW j \in DOMAIN requests, j > i + 1 PROVE requests[j].kind # "prepare"
    <3>1. j > 1 /\ j - 1 > i
      BY <1>3, <1>5, <2>2
    <3>2. QED
      BY <1>7, <1>9, <3>1
  <2>3. QED
    BY <1>1, <1>6, <1>9, <2>1, <2>2 DEF IInv, PreviewFollows
<1>10. QED
  BY <1>8, <1>9

-----------------------------------------------------------------------------
(* Types.                                                                  *)

Wizard(n) == [open : BOOLEAN, step : 0..3, busy : BOOLEAN, campaignId : 0..n, phase : Phases]
Operation == [stage : Stages, prepared : Preview]
Running(n) == [id : 0..n, request : {"run", "pause", "cancel"}]

LEMMA TypesSuffice ==
    ASSUME campaign' \in Seq(Status), requests' \in Seq(Read), draft' \in Draft,
           wizard' \in Wizard(Len(campaign')), operation' \in Operation,
           active' \in Running(Len(campaign')), login' \in BOOLEAN, timer' \in BOOLEAN
    PROVE  TypeOK'
  BY DEF TypeOK, Status, Read, Draft, Template, Wizard, Operation, Running

LEMMA EffectTypes ==
    ASSUME WizardConstants, IInv, NEW w, NEW d \in Draft, Becomes(w, d)
    PROVE  wizard' = w /\ draft' \in Draft /\ timer' \in BOOLEAN
<1>1. [d EXCEPT !.prepared = NoPreview] \in Draft
  BY NoPreviewIsPreview DEF Draft
<1>2. QED
  BY <1>1, Types DEF IInv, Becomes

LEMMA BodyOfIsBody ==
    ASSUME WizardConstants, IInv, NEW id
    PROVE  BodyOf(id) \in Bodies
<1>1. draft.templates \in Seq(Template)
  BY Types DEF IInv, Draft
<1>2. DEFINE of == {i \in DOMAIN draft.templates : draft.templates[i].id = id}
<1>3. CASE of = {}
  BY <1>3 DEF BodyOf, WizardConstants
<1>4. CASE of # {}
  <2>1. PICK i : i = CHOOSE j \in of : TRUE
    OBVIOUS
  <2>2. i \in DOMAIN draft.templates
    BY <1>4, <2>1
  <2>3. draft.templates[i] \in Template
    BY <1>1, <2>2, LenProperties, ElementOfSeq
  <2>4. BodyOf(id) = draft.templates[i].body
    BY <1>4, <2>1 DEF BodyOf
  <2>5. QED
    BY <2>3, <2>4 DEF Template
<1>5. QED
  BY <1>3, <1>4

\* The two ways a step keeps the invariant, as far as its types go.
LEMMA EffectKeeps ==
    ASSUME WizardConstants, IInv, NEW w \in Wizard(Len(campaign)), NEW d \in Draft,
           Becomes(w, d), d.prepared = draft.prepared \/ w.open # wizard.open,
           \/ requests' = requests
           \/ w.open # wizard.open /\ requests' \in Seq(Read)
           \/ requests # <<>> /\ Head(requests).kind = "list" /\ requests' = Tail(requests),
           UNCHANGED <<login, active>>, operation' \in Operation,
           campaign' \in Seq(Status), Len(campaign') >= Len(campaign),
           DialogTellsOperation'
    PROVE  IInv'
<1>1. /\ requests \in Seq(Read) /\ Len(campaign) \in Nat /\ Len(campaign') \in Nat
      /\ login \in BOOLEAN /\ active \in Running(Len(campaign))
  BY Types, LenProperties DEF IInv, Running
<1>2. wizard' = w /\ draft' \in Draft /\ timer' \in BOOLEAN
  BY EffectTypes
<1>3. requests' \in Seq(Read)
  BY <1>1, Answered
<1>4. wizard' \in Wizard(Len(campaign')) /\ active' \in Running(Len(campaign'))
  BY <1>1, <1>2 DEF Wizard, Running
<1>5. TypeOK'
  BY <1>1, <1>2, <1>3, <1>4, TypesSuffice
<1>6. PreviewFollows'
  BY EffectFollows
<1>7. QED
  BY <1>5, <1>6 DEF IInv

LEMMA DraftStays ==
    ASSUME IInv, UNCHANGED <<login, draft, timer, requests>>,
           campaign' \in Seq(Status), wizard' \in Wizard(Len(campaign')),
           wizard'.open = wizard.open, operation' \in Operation,
           active' \in Running(Len(campaign')), DialogTellsOperation'
    PROVE  IInv'
<1>1. requests' \in Seq(Read) /\ draft' \in Draft /\ login' \in BOOLEAN /\ timer' \in BOOLEAN
  BY Types DEF IInv
<1>2. TypeOK'
  BY <1>1, TypesSuffice
<1>3. PreviewFollows'
  BY NothingAsked
<1>4. QED
  BY <1>2, <1>3 DEF IInv

-----------------------------------------------------------------------------
(* The steps.                                                              *)

LEMMA ClosedAndPut ==
    ASSUME IInv
    PROVE  /\ Closed \in Wizard(Len(campaign)) /\ ~Closed.open /\ ~Closed.busy
           /\ Put \in Draft /\ Put.prepared = draft.prepared
<1>1. Len(campaign) \in Nat /\ wizard \in Wizard(Len(campaign)) /\ draft \in Draft
  BY Types DEF IInv, Wizard
<1>2. Closed \in Wizard(Len(campaign)) /\ ~Closed.open /\ ~Closed.busy
  <2>1. Mounted \in Wizard(Len(campaign)) /\ ~Mounted.open /\ ~Mounted.busy
    BY <1>1 DEF Mounted, Wizard, Phases
  <2>2. QED
    BY <1>1, <2>1 DEF Closed, Wizard
<1>3. Put \in Draft /\ Put.prepared = draft.prepared
  BY <1>1 DEF Put, Draft
<1>4. QED
  BY <1>2, <1>3

LEMMA EditKeeps == WizardConstants /\ IInv /\ Edit => IInv'
<1>1. SUFFICES ASSUME WizardConstants, IInv, Edit PROVE IInv'
  OBVIOUS
<1>2. /\ draft \in Draft /\ wizard \in Wizard(Len(campaign)) /\ operation \in Operation
      /\ active \in Running(Len(campaign)) /\ campaign \in Seq(Status) /\ Len(campaign) \in Nat
      /\ requests \in Seq(Read)
  BY <1>1, Types DEF IInv, Wizard, Operation, Running
<1>3. CASE Open
  <2>1. PICK w, d : /\ Becomes(w, d) /\ w = [wizard EXCEPT !.open = TRUE]
                    /\ \E ids \in SUBSET Members :
                          d = [draft EXCEPT !.ids = ids, !.prepared = NoPreview]
    BY <1>3 DEF Open
  <2>2. /\ ~wizard.open /\ requests' = Append(requests, Request("list", NoPreview))
        /\ UNCHANGED <<login, operation, campaign, active>>
    BY <1>3 DEF Open
  <2>3. Request("list", NoPreview) \in Read
    BY <1>1, NoPreviewIsPreview DEF Request, Read
  <2>4. requests' \in Seq(Read)
    BY <1>2, <2>2, <2>3, AppendProperties
  <2>5. w \in Wizard(Len(campaign)) /\ d \in Draft /\ w.open # wizard.open
    BY <1>1, <1>2, <2>1, <2>2, NoPreviewIsPreview DEF Wizard, Draft
  <2>6. wizard' = [wizard EXCEPT !.open = TRUE]
    BY <2>1 DEF Becomes
  <2>7. DialogTellsOperation'
    BY <1>1, <1>2, <2>2, <2>6 DEF IInv, DialogTellsOperation, Wizard
  <2>8. QED
    <3>1. /\ d.prepared = draft.prepared \/ w.open # wizard.open
          /\ w.open # wizard.open /\ requests' \in Seq(Read)
          /\ operation' \in Operation /\ campaign' \in Seq(Status)
          /\ Len(campaign') >= Len(campaign)
      BY <1>2, <2>2, <2>4, <2>5
    <3>2. QED
      BY <1>1, <2>1, <2>2, <2>5, <2>7, <3>1, EffectKeeps
<1>4. CASE Remove \/ ChooseTemplate \/ Type
  <2>1. PICK d \in Draft : Becomes(wizard, d) /\ d.prepared = draft.prepared
    <3>1. CASE Remove
      <4>1. PICK m \in draft.prepared.ids :
              Becomes(wizard, [draft EXCEPT !.removed = @ \cup {m}])
        BY <3>1 DEF Remove
      <4>2. [draft EXCEPT !.removed = @ \cup {m}] \in Draft
            /\ [draft EXCEPT !.removed = @ \cup {m}].prepared = draft.prepared
        BY <1>2, <4>1 DEF Draft, Preview
      <4>3. QED
        BY <4>1, <4>2
    <3>2. CASE ChooseTemplate
      <4> DEFINE body(id) == IF id = OneOff THEN Blank ELSE BodyOf(id)
                 d(id) == [draft EXCEPT !.templateId = id, !.body = body(id)]
      <4>1. PICK id \in {draft.templates[i].id : i \in DOMAIN draft.templates} \cup {OneOff} :
              Becomes(wizard, d(id))
        BY <3>2 DEF ChooseTemplate
      <4>2. id \in TemplateIds
        <5>1. \A i \in DOMAIN draft.templates : draft.templates[i] \in Template
          BY <1>2, LenProperties, ElementOfSeq DEF Draft
        <5>2. QED
          BY <4>1, <5>1 DEF Template, TemplateIds
      <4>3. body(id) \in Bodies
        BY <1>1, <4>1, BodyOfIsBody DEF WizardConstants
      <4>4. d(id) \in Draft /\ d(id).prepared = draft.prepared
        BY <1>2, <4>1, <4>2, <4>3 DEF Draft
      <4>5. QED
        BY <4>1, <4>4
    <3>3. CASE Type
      BY <1>2, <3>3 DEF Type, Draft
    <3>4. QED
      BY <1>4, <3>1, <3>2, <3>3
  <2>2. UNCHANGED <<requests, login, operation, campaign, active>>
    BY <1>4 DEF Remove, ChooseTemplate, Type
  <2>3. wizard' = wizard
    BY <2>1 DEF Becomes
  <2>4. DialogTellsOperation'
    BY <1>1, <2>2, <2>3 DEF IInv, DialogTellsOperation
  <2>5. QED
    BY <1>1, <1>2, <2>1, <2>2, <2>4, EffectKeeps
<1>5. CASE NextStep \/ Back
  <2>1. /\ UNCHANGED <<login, draft, timer, requests, operation, campaign, active>>
        /\ ~wizard.busy
        /\ \E step \in 0..3 : wizard' = [wizard EXCEPT !.step = step]
    BY <1>2, <1>5 DEF NextStep, Back, At, Wizard
  <2>2. wizard' \in Wizard(Len(campaign)) /\ wizard'.open = wizard.open /\ ~wizard'.busy
    BY <1>2, <2>1 DEF Wizard
  <2>3. DialogTellsOperation'
    BY <1>1, <2>1, <2>2 DEF IInv, DialogTellsOperation
  <2>4. QED
    BY <1>1, <1>2, <2>1, <2>2, <2>3, DraftStays
<1>6. CASE Close
  <2>1. /\ Becomes(Closed, Put) /\ ~wizard.busy /\ wizard.open
        /\ UNCHANGED <<login, requests, operation, campaign, active>>
    BY <1>6 DEF Close, MayClose
  <2>2. wizard' = Closed
    BY <2>1 DEF Becomes
  <2>3. DialogTellsOperation'
    BY <1>1, <1>2, <2>1, <2>2, ClosedAndPut DEF IInv, DialogTellsOperation
  <2>4. QED
    <3>1. /\ operation' \in Operation /\ campaign' \in Seq(Status)
          /\ Len(campaign') >= Len(campaign) /\ Put.prepared = draft.prepared
          /\ Closed \in Wizard(Len(campaign)) /\ Put \in Draft
      BY <1>1, <1>2, <2>1, ClosedAndPut
    <3>2. QED
      BY <1>1, <2>1, <2>3, <3>1, EffectKeeps
<1>7. QED
  BY <1>1, <1>3, <1>4, <1>5, <1>6 DEF Edit

LEMMA AnswerKeeps == WizardConstants /\ IInv /\ Answer => IInv'
<1>1. SUFFICES ASSUME WizardConstants, IInv, Answer PROVE IInv'
  OBVIOUS
<1>2. /\ draft \in Draft /\ wizard \in Wizard(Len(campaign)) /\ operation \in Operation
      /\ active \in Running(Len(campaign)) /\ campaign \in Seq(Status) /\ Len(campaign) \in Nat
      /\ requests \in Seq(Read) /\ login \in BOOLEAN /\ timer \in BOOLEAN
  BY <1>1, Types DEF IInv, Wizard, Operation, Running
<1>3. CASE ListAnswered
  <2>0. PICK list \in Lists :
          Becomes(wizard, [draft EXCEPT !.templates = list,
                                        !.templateId = IF list = <<>> THEN OneOff ELSE list[1].id,
                                        !.body = IF list = <<>> THEN Blank ELSE list[1].body])
    BY <1>3 DEF ListAnswered
  <2>1. PICK d :
          /\ Becomes(wizard, d)
          /\ d = [draft EXCEPT !.templates = list,
                               !.templateId = IF list = <<>> THEN OneOff ELSE list[1].id,
                               !.body = IF list = <<>> THEN Blank ELSE list[1].body]
    BY <2>0
  <2>2. /\ requests # <<>> /\ Head(requests).kind = "list" /\ requests' = Tail(requests)
        /\ UNCHANGED <<login, operation, campaign, active>>
    BY <1>3 DEF ListAnswered
  <2>3. list \in Seq(Template)
    BY <1>1 DEF WizardConstants, Template
  <2>4. PICK id, body :
          /\ id = IF list = <<>> THEN OneOff ELSE list[1].id
          /\ body = IF list = <<>> THEN Blank ELSE list[1].body
    OBVIOUS
  <2>5. id \in TemplateIds /\ body \in Bodies
    <3>1. CASE list = <<>>
      BY <1>1, <2>4, <3>1 DEF WizardConstants, TemplateIds
    <3>2. CASE list # <<>>
      <4>1. list[1] \in Template
        BY <2>3, <3>2
      <4>2. QED
        BY <2>4, <3>2, <4>1 DEF Template, TemplateIds
    <3>3. QED
      BY <3>1, <3>2
  <2>6. d \in Draft /\ d.prepared = draft.prepared
    <3>1. d = [draft EXCEPT !.templates = list, !.templateId = id, !.body = body]
      BY <2>1, <2>4
    <3>2. QED
      BY <1>2, <2>3, <2>5, <3>1 DEF Draft
  <2>7. wizard' = wizard
    BY <2>1 DEF Becomes
  <2>8. DialogTellsOperation'
    BY <1>1, <2>2, <2>7 DEF IInv, DialogTellsOperation
  <2>9. operation' \in Operation /\ campaign' \in Seq(Status) /\ Len(campaign') >= Len(campaign)
    BY <1>2, <2>2
  <2>10. QED
    BY <1>1, <1>2, <2>1, <2>2, <2>6, <2>8, <2>9, EffectKeeps
<1>4. CASE TimerFires
  <2>1. /\ UNCHANGED <<login, wizard, draft, operation, campaign, active>> /\ timer' = FALSE
        /\ requests' = Append(requests, Request("prepare", Rendering(draft)))
    BY <1>4 DEF TimerFires
  <2>2. requests' \in Seq(Read)
    <3>1. Request("prepare", Rendering(draft)) \in Read
      BY <1>2, RenderingIsPreview DEF Request, Read
    <3>2. QED
      BY <1>2, <2>1, <3>1, AppendProperties
  <2>3. TypeOK'
    BY <1>2, <2>1, <2>2, TypesSuffice
  <2>4. PreviewFollows'
    BY <1>1, <1>4, AskedLast
  <2>5. QED
    BY <1>1, <2>1, <2>3, <2>4 DEF IInv, DialogTellsOperation
<1>5. CASE PrepareAnswered
  <2>1. /\ UNCHANGED <<login, wizard, timer, operation, campaign, active>>
        /\ requests # <<>> /\ requests' = Tail(requests)
        /\ draft' = [draft EXCEPT !.prepared = Head(requests).preview]
    BY <1>5 DEF PrepareAnswered
  <2>2. requests' \in Seq(Read) /\ Head(requests) \in Read
    BY <1>2, <2>1, HeadTailProperties
  <2>3. draft' \in Draft
    BY <1>2, <2>1, <2>2 DEF Draft, Read
  <2>4. TypeOK'
    BY <1>2, <2>1, <2>2, <2>3, TypesSuffice
  <2>5. PreviewFollows'
    BY <1>1, <1>5, AnswerShown
  <2>6. QED
    BY <1>1, <2>1, <2>4, <2>5 DEF IInv, DialogTellsOperation
<1>6. QED
  BY <1>1, <1>3, <1>4, <1>5 DEF Answer

LEMMA SendKeeps == WizardConstants /\ IInv /\ Send => IInv'
<1>1. SUFFICES ASSUME WizardConstants, IInv, Send PROVE IInv'
  OBVIOUS
<1>2. /\ draft \in Draft /\ wizard \in Wizard(Len(campaign)) /\ operation \in Operation
      /\ active \in Running(Len(campaign)) /\ campaign \in Seq(Status) /\ Len(campaign) \in Nat
      /\ NoPreview \in Preview
  BY <1>1, Types, NoPreviewIsPreview DEF IInv, Wizard, Operation, Running
<1>3. /\ Append(campaign, "draft") \in Seq(Status)
      /\ Len(Append(campaign, "draft")) = Len(campaign) + 1
  BY <1>2, AppendProperties DEF Status
<1>4. CASE SaveDraft \/ StartSending
  <2>1. PICK stage \in {"draft", "create"} : Save(stage)
    BY <1>4 DEF SaveDraft, StartSending
  <2>2. /\ UNCHANGED <<login, draft, timer, requests, campaign, active>>
        /\ ~wizard.busy /\ wizard.open /\ wizard' = [wizard EXCEPT !.busy = TRUE]
        /\ operation' = [stage |-> stage, prepared |-> draft.prepared]
    BY <2>1 DEF Save, At
  <2>3. /\ wizard' \in Wizard(Len(campaign)) /\ wizard'.open /\ wizard'.busy
        /\ operation' \in Operation /\ operation'.stage = stage
    BY <1>2, <2>2 DEF Wizard, Operation, Stages, Draft
  <2>4. operation.stage = "idle"
    BY <1>1, <2>2 DEF IInv, DialogTellsOperation
  <2>5. DialogTellsOperation'
    BY <1>1, <2>2, <2>3, <2>4 DEF IInv, DialogTellsOperation
  <2>6. QED
    BY <1>1, <1>2, <2>2, <2>3, <2>5, DraftStays
<1>5. CASE DraftSaved
  <2>1. /\ operation.stage = "draft" /\ operation' = Idle
        /\ campaign' = Append(campaign, "draft") /\ UNCHANGED <<login, requests, active>>
        /\ Becomes(Closed, Put)
    BY <1>5 DEF DraftSaved, Created
  <2>2. wizard' = Closed
    BY <2>1 DEF Becomes
  <2>3. operation' \in Operation /\ operation'.stage = "idle"
    BY <1>2, <2>1 DEF Idle, Operation, Stages
  <2>4. DialogTellsOperation'
    BY <1>1, <2>1, <2>2, <2>3, ClosedAndPut DEF IInv, DialogTellsOperation
  <2>5. /\ Closed \in Wizard(Len(campaign)) /\ Put \in Draft /\ Put.prepared = draft.prepared
        /\ campaign' \in Seq(Status) /\ Len(campaign') >= Len(campaign)
    BY <1>1, <1>2, <1>3, <2>1, ClosedAndPut
  <2>6. QED
    BY <1>1, <2>1, <2>3, <2>4, <2>5, EffectKeeps
<1>6. CASE CampaignCreated
  <2>1. /\ operation.stage = "create" /\ operation' = [Idle EXCEPT !.stage = "get"]
        /\ campaign' = Append(campaign, "draft")
        /\ wizard' = [wizard EXCEPT !.campaignId = Len(campaign) + 1]
        /\ UNCHANGED <<login, requests, active, draft, timer>>
    BY <1>6 DEF CampaignCreated, Created
  <2>2. /\ wizard' \in Wizard(Len(campaign')) /\ wizard'.open = wizard.open
        /\ wizard'.busy = wizard.busy /\ wizard'.campaignId # 0
    BY <1>2, <1>3, <2>1 DEF Wizard
  <2>3. operation' \in Operation /\ operation'.stage = "get"
    BY <1>2, <2>1 DEF Idle, Operation, Stages
  <2>4. active' \in Running(Len(campaign'))
    BY <1>2, <1>3, <2>1 DEF Running
  <2>5. DialogTellsOperation'
    BY <1>1, <2>1, <2>2, <2>3 DEF IInv, DialogTellsOperation
  <2>6. QED
    BY <1>1, <1>3, <2>1, <2>2, <2>3, <2>4, <2>5, DraftStays
<1>7. CASE CampaignRead \/ Resume \/ FinalRead
  <2>1. /\ UNCHANGED <<login, draft, timer, requests, campaign, active>>
        /\ \/ /\ operation.stage = "get" /\ operation' = [operation EXCEPT !.stage = "starting"]
              /\ wizard' = [wizard EXCEPT !.step = 3]
           \/ /\ wizard.open /\ wizard.step = 3 /\ ~wizard.busy /\ wizard.campaignId # 0
              /\ wizard' = [wizard EXCEPT !.busy = TRUE]
              /\ operation' = [Idle EXCEPT !.stage = "starting"]
           \/ /\ operation.stage = "final" /\ operation' = Idle
              /\ wizard' = [wizard EXCEPT !.busy = FALSE]
    BY <1>7 DEF CampaignRead, Resume, FinalRead, At
  <2>2. wizard' \in Wizard(Len(campaign)) /\ wizard'.open = wizard.open
        /\ operation' \in Operation /\ wizard'.campaignId = wizard.campaignId
    <3>1. wizard' \in Wizard(Len(campaign)) /\ wizard'.open = wizard.open
          /\ wizard'.campaignId = wizard.campaignId
      <4>1. CASE wizard' = [wizard EXCEPT !.step = 3]
        BY <1>2, <4>1 DEF Wizard
      <4>2. CASE \E busy \in BOOLEAN : wizard' = [wizard EXCEPT !.busy = busy]
        BY <1>2, <4>2 DEF Wizard
      <4>3. QED
        BY <2>1, <4>1, <4>2
    <3>2. Idle \in Operation
      BY <1>2 DEF Operation, Stages, Idle
    <3>3. operation' \in Operation
      BY <1>2, <2>1, <3>2 DEF Operation, Stages
    <3>4. QED
      BY <3>1, <3>3
  <2>3. \/ /\ operation.stage = "get" /\ operation'.stage = "starting" /\ wizard'.step = 3
           /\ wizard'.busy = wizard.busy
        \/ /\ wizard.open /\ ~wizard.busy /\ wizard.campaignId # 0 /\ wizard'.step = 3
           /\ wizard'.busy /\ operation'.stage = "starting"
        \/ operation.stage = "final" /\ operation'.stage = "idle" /\ ~wizard'.busy
    BY <1>2, <2>1 DEF Wizard, Operation, Idle
  <2>4. DialogTellsOperation'
    BY <1>1, <2>1, <2>2, <2>3 DEF IInv, DialogTellsOperation
  <2>5. QED
    BY <1>1, <1>2, <2>1, <2>2, <2>4, DraftStays
<1>8. CASE Pause \/ Cancel
  <2>1. /\ UNCHANGED <<login, wizard, draft, timer, requests, operation, campaign>>
        /\ active' \in Running(Len(campaign)) /\ active'.id = active.id
    BY <1>2, <1>8 DEF Pause, Cancel, Ask, Running
  <2>2. DialogTellsOperation'
    BY <1>1, <2>1 DEF IInv, DialogTellsOperation
  <2>3. QED
    BY <1>1, <1>2, <2>1, <2>2, DraftStays
<1>9. QED
  BY <1>1, <1>4, <1>5, <1>6, <1>7, <1>8 DEF Send

LEMMA RunKeeps == WizardConstants /\ IInv /\ Run => IInv'
<1>1. SUFFICES ASSUME WizardConstants, IInv, Run PROVE IInv'
  OBVIOUS
<1>2. /\ wizard \in Wizard(Len(campaign)) /\ operation \in Operation
      /\ active \in Running(Len(campaign)) /\ campaign \in Seq(Status) /\ Len(campaign) \in Nat
      /\ NoPreview \in Preview /\ login \in BOOLEAN
  BY <1>1, Types, NoPreviewIsPreview DEF IInv, Wizard, Operation, Running
<1>3. Idle \in Operation /\ Idle.stage = "idle"
  BY <1>2 DEF Idle, Operation, Stages
<1>4. CASE StartCampaign
  <2>1. /\ operation.stage = "starting" /\ active.id = 0
        /\ active' = [id |-> wizard.campaignId, request |-> "run"]
        /\ campaign' = [campaign EXCEPT ![wizard.campaignId] = "running"]
        /\ operation' = [operation EXCEPT !.stage = "running"]
        /\ UNCHANGED <<login, wizard, draft, timer, requests>>
    BY <1>4 DEF StartCampaign
  <2>2. wizard.campaignId \in 1..Len(campaign)
    BY <1>1, <1>2, <2>1 DEF IInv, DialogTellsOperation, Wizard
  <2>3. campaign' \in Seq(Status) /\ Len(campaign') = Len(campaign)
    BY <1>2, <2>1, <2>2, ExceptSeq DEF Status
  <2>4. operation' \in Operation /\ operation'.stage = "running"
    BY <1>2, <2>1 DEF Operation, Stages
  <2>5. active' \in Running(Len(campaign')) /\ wizard' \in Wizard(Len(campaign'))
    BY <1>2, <2>1, <2>2, <2>3 DEF Running, Wizard
  <2>6. DialogTellsOperation'
    BY <1>1, <2>1, <2>4 DEF IInv, DialogTellsOperation
  <2>7. QED
    BY <1>1, <2>1, <2>3, <2>4, <2>5, <2>6, DraftStays
<1>5. CASE StartRefused
  <2>1. /\ operation.stage = "starting" /\ active.id # 0 /\ operation' = Idle
        /\ wizard' = [wizard EXCEPT !.busy = FALSE]
        /\ UNCHANGED <<login, draft, timer, requests, campaign, active>>
    BY <1>5 DEF StartRefused
  <2>2. wizard' \in Wizard(Len(campaign)) /\ wizard'.open = wizard.open /\ ~wizard'.busy
    BY <1>2, <2>1 DEF Wizard
  <2>3. DialogTellsOperation'
    BY <1>1, <1>3, <2>1, <2>2 DEF IInv, DialogTellsOperation
  <2>4. QED
    BY <1>1, <1>2, <1>3, <2>1, <2>2, <2>3, DraftStays
<1>6. CASE Progress \/ RunnerEnds
  <2>1. /\ active.id # 0 /\ UNCHANGED <<login, draft, timer, requests>>
        /\ \E phase \in {"running", "completed", "cancelled", "paused"} :
              /\ Shown(phase)
              /\ campaign' = campaign \/ campaign' = [campaign EXCEPT ![active.id] = phase]
        /\ \/ UNCHANGED <<active, operation>>
           \/ /\ active' = NoRun
              /\ operation' = IF operation.stage = "running"
                              THEN [operation EXCEPT !.stage = "final"] ELSE operation
    BY <1>6 DEF Progress, RunnerEnds
  <2>2. PICK phase \in {"running", "completed", "cancelled", "paused"} :
           /\ Shown(phase)
           /\ campaign' = campaign \/ campaign' = [campaign EXCEPT ![active.id] = phase]
    BY <2>1
  <2>3. active.id \in 1..Len(campaign)
    BY <1>2, <2>1 DEF Running
  <2>4. campaign' \in Seq(Status) /\ Len(campaign') = Len(campaign)
    BY <1>2, <2>2, <2>3, ExceptSeq DEF Status
  <2>5. wizard' \in Wizard(Len(campaign))
        /\ wizard'.open = wizard.open /\ wizard'.busy = wizard.busy
        /\ wizard'.step = wizard.step /\ wizard'.campaignId = wizard.campaignId
    BY <1>2, <2>2 DEF Shown, Wizard, Phases
  <2>6. active' \in Running(Len(campaign))
        /\ (active' = active \/ active'.id = 0)
    BY <1>2, <2>1 DEF Running, NoRun
  <2>7. /\ operation' \in Operation
        /\ \/ UNCHANGED <<active, operation>>
           \/ active'.id = 0 /\ operation.stage = "running" /\ operation'.stage = "final"
           \/ active'.id = 0 /\ operation.stage # "running" /\ operation' = operation
    BY <1>2, <2>1 DEF Operation, Stages, NoRun
  <2>8. DialogTellsOperation'
    BY <1>1, <2>1, <2>5, <2>6, <2>7 DEF IInv, DialogTellsOperation
  <2>9. QED
    BY <1>1, <2>1, <2>4, <2>5, <2>6, <2>7, <2>8, DraftStays
<1>7. QED
  BY <1>1, <1>4, <1>5, <1>6 DEF Run

\* The lock takes the dialog down, and only when users sign in.
LEMMA LockKeeps == WizardConstants /\ IInv /\ Lock => IInv'
<1>1. SUFFICES ASSUME WizardConstants, IInv, Lock PROVE IInv'
  OBVIOUS
<1>2. /\ active \in Running(Len(campaign)) /\ campaign \in Seq(Status) /\ Len(campaign) \in Nat
      /\ NoPreview \in Preview /\ login \in BOOLEAN /\ timer \in BOOLEAN /\ requests \in Seq(Read)
  BY <1>1, Types, NoPreviewIsPreview DEF IInv, Running
<1>3. /\ login /\ wizard' = Mounted /\ draft' = NoDraft /\ operation' = Idle
      /\ UNCHANGED <<login, timer, requests, campaign, active>>
  BY <1>1 DEF Lock
<1>4. Mounted \in Wizard(Len(campaign)) /\ ~Mounted.open /\ ~Mounted.busy
  BY <1>2 DEF Mounted, Wizard, Phases
<1>5. NoDraft \in Draft
  <2>1. <<>> \in Seq(Template)
    BY EmptySeq
  <2>2. QED
    BY <1>1, <1>2, <2>1 DEF NoDraft, Draft, WizardConstants, TemplateIds
<1>6. Idle \in Operation /\ Idle.stage = "idle"
  BY <1>2 DEF Idle, Operation, Stages
<1>7. TypeOK'
  BY <1>2, <1>3, <1>4, <1>5, <1>6, TypesSuffice
<1>8. DialogTellsOperation' /\ PreviewFollows'
  BY <1>3, <1>4, <1>6 DEF DialogTellsOperation, PreviewFollows
<1>9. QED
  BY <1>7, <1>8 DEF IInv

LEMMA InvariantStays == WizardConstants /\ IInv /\ [Next]_vars => IInv'
<1>1. SUFFICES ASSUME WizardConstants, IInv, [Next]_vars PROVE IInv'
  OBVIOUS
<1>2. CASE UNCHANGED vars
  BY <1>1, <1>2 DEF vars, IInv, TypeOK, DialogTellsOperation, PreviewFollows
<1>3. QED
  BY <1>1, <1>2, EditKeeps, AnswerKeeps, SendKeeps, RunKeeps, LockKeeps DEF Next

-----------------------------------------------------------------------------

\* In every state the dialog tells what operation is under way, and what was asked for
\* last is what it shows.
THEOREM WizardHolds == ASSUME WizardConstants PROVE Spec => []IInv
<1>1. Init => IInv
  BY InvariantStarts
<1>2. IInv /\ [Next]_vars => IInv'
  BY InvariantStays
<1>3. QED
  BY <1>1, <1>2, PTL DEF Spec

\* Until the desk is locked, the campaign that runs is the one the open dialog is about,
\* whatever is clicked, closed or answered meanwhile (SendWizardDialog, App's idle lock).
THEOREM RunningAlwaysShown == ASSUME WizardConstants PROVE Spec => []RunningIsShown
<1>1. IInv => RunningIsShown
  BY DEF IInv, DialogTellsOperation, RunningIsShown
<1>2. QED
  BY <1>1, WizardHolds, PTL

\* Whatever is typed, taken off or chosen while earlier previews are under way, the one
\* that is left on the screen is of what it shows (SendWizardDialog's effect).
THEOREM PreviewAlwaysSettles == ASSUME WizardConstants PROVE Spec => []SettledPreview
<1>1. IInv => SettledPreview
  BY DEF IInv, PreviewFollows, SettledPreview
<1>2. QED
  BY <1>1, WizardHolds, PTL
=============================================================================
