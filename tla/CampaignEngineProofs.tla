------------------------ MODULE CampaignEngineProofs ------------------------
(***************************************************************************)
(* Theorems about CampaignEngine, for any campaigns, queues, numbers and   *)
(* texts, any cap and threshold, and any number of crashes and midnights:  *)
(* how a run ended tells what is left of it, the cap is kept, and the      *)
(* engine implements Outbox.                                               *)
(***************************************************************************)
EXTENDS CampaignEngine, WellFoundedInduction, TLAPS

\* What is suspended for a campaign, and its place in its queue.
Suspended == [phase : {"none", "connecting", "probing", "verifying"},
              item : Items \cup {NoItem}, clicked : BOOLEAN]
Runner == [request : {"run", "pause", "cancel"}, failures : Nat,
           fresh : BOOLEAN, waiting : BOOLEAN]

\* The item s is about is marked as s is far.
Marked(c, s, it) ==
    /\ s.phase = "connecting" =>
          c \in Singles /\ s.item \in Range(Queue[c]) /\ it[s.item] = "pending"
    /\ s.phase \in {"probing", "verifying"} =>
          s.item \in Range(Queue[c]) /\ it[s.item] = "sending"

\* No other item of the campaign is marked as being sent.
OnlyMarked(c, s, it) ==
    \A i \in Range(Queue[c]) :
        it[i] = "sending" => s.phase \in {"probing", "verifying"} /\ s.item = i

SendsAreMarked == \A c \in Campaigns : Marked(c, send[c], item)
MarkedAreSends == up => \A c \in Campaigns : OnlyMarked(c, send[c], item)

\* A campaign that sends is the active one, which reads running; nothing runs while the
\* process does not.
RunnerTells ==
    /\ active # NoCampaign => campaign[active] = "running"
    /\ \A c \in Bulks : send[c].phase # "none" => active = c /\ ~runner.waiting
    /\ ~up => active = NoCampaign /\ \A c \in Campaigns : send[c].phase = "none"

\* A campaign that was not saved has no items.
UnsavedIsEmpty ==
    \A c \in Campaigns : campaign[c] = "none" => \A i \in Range(Queue[c]) : item[i] = "none"

IInv == TypeOK /\ SendsAreMarked /\ MarkedAreSends /\ RunnerTells /\ UnsavedIsEmpty
        /\ StatusTellsWork

\* With one send at a time, the cap that was looked at before a send holds when it is
\* counted; what was not counted for a crash is counted by the crashes.
OneSender ==
    /\ \A c, d \in Campaigns :
          send[c].phase # "none" /\ (send[d].phase # "none" \/ active = d) => c = d
    /\ \A c \in Campaigns : Sending(c) => used < Cap
    /\ used <= Cap
    /\ today <= used + crashes

\* With one send at a time, the window's chat and text are that send's.
WindowIsSenders ==
    /\ \A c \in Campaigns : Sending(c) => chat = send[c].item /\ (typed => delivered[chat] = 0)
    /\ \A i \in Items : /\ delivered[i] \in {0, 1}
                        /\ item[i] \in {"none", "pending"} => delivered[i] = 0

-----------------------------------------------------------------------------
(* The queue of a campaign, and its next item.                             *)

LEMMA MinIsMember ==
    ASSUME NEW S \in SUBSET Nat, S # {}
    PROVE  Min(S) \in S
<1>1. PICK u \in S : \A v \in S : <<v, u>> \notin OpToRel(<, Nat)
  BY NatLessThanWellFounded, WFMin
<1>2. \A v \in S : u <= v
  <2>1. TAKE v \in S
  <2>2. <<v, u>> \in Nat \X Nat /\ <<v, u>>[1] = v /\ <<v, u>>[2] = u
    OBVIOUS
  <2>3. <<v, u>> \in OpToRel(<, Nat) <=> v < u
    BY <2>2 DEF OpToRel
  <2>4. ~(v < u)
    BY <1>1, <2>3
  <2>5. v \in Nat /\ u \in Nat
    OBVIOUS
  <2>6. QED
    BY <2>4, <2>5
<1>3. QED
  BY <1>1, <1>2 DEF Min

\* The first item that waits is one that waits, and there is none only if none waits.
LEMMA NextPendingWaits ==
    ASSUME NEW c \in Campaigns, NEW it
    PROVE  /\ NextPending(c, it) # NoItem =>
                NextPending(c, it) \in Range(Queue[c]) /\ it[NextPending(c, it)] = "pending"
           /\ NextPending(c, it) = NoItem =>
                \A i \in Range(Queue[c]) : it[i] # "pending"
<1> DEFINE I == {k \in 1..Len(Queue[c]) : it[Queue[c][k]] = "pending"}
<1>1. Range(Queue[c]) = {Queue[c][k] : k \in 1..Len(Queue[c])}
  <2>1. Queue[c] \in Seq(Range(Queue[c]))
    BY QueuesApart
  <2>2. QED
    BY <2>1 DEF Range
<1>2. CASE I = {}
  <2>1. NextPending(c, it) = NoItem
    BY <1>2 DEF NextPending, SelectInSeq
  <2>2. QED
    BY <1>1, <1>2, <2>1
<1>3. CASE I # {}
  <2>1. I \in SUBSET Nat
    OBVIOUS
  <2>2. Min(I) \in I
    BY <1>3, <2>1, MinIsMember
  <2>3. NextPending(c, it) = Queue[c][Min(I)]
    <3>1. Min(I) # 0
      BY <2>2
    <3>2. QED
      BY <1>3, <3>1 DEF NextPending, SelectInSeq
  <2>4. NextPending(c, it) # NoItem
    BY <1>1, <2>2, <2>3, QueuesApart DEF Items
  <2>5. QED
    BY <1>1, <2>2, <2>3, <2>4
<1>4. QED
  BY <1>2, <1>3

\* Items belong to one campaign.
LEMMA QueueItems ==
    /\ \A c \in Campaigns : Range(Queue[c]) \subseteq Items
    /\ \A c, d \in Campaigns : \A i \in Range(Queue[c]) : i \in Range(Queue[d]) => c = d
    /\ \A i \in Items : \E c \in Campaigns : i \in Range(Queue[c])
    /\ NoItem \notin Items
  BY QueuesApart DEF Items

LEMMA Kinds ==
    /\ \A c \in Bulks : c \in Campaigns /\ c \notin Singles /\ c # NoCampaign
    /\ \A c \in Singles : c \in Campaigns /\ c \notin Bulks /\ c # NoCampaign
    /\ \A c \in Campaigns : c \in Bulks \/ c \in Singles
  BY CampaignsApart DEF Campaigns

LEMMA IdleIsSuspended == Idle \in Suspended /\ Idle.phase = "none" /\ Fresh \in Runner
  BY DEF Idle, Suspended, Fresh, Runner

LEMMA Types ==
    ASSUME TypeOK
    PROVE  /\ send \in [Campaigns -> Suspended] /\ runner \in Runner
           /\ item \in [Items -> ItemStatus] /\ campaign \in [Campaigns -> CampaignStatus]
           /\ used \in Nat /\ active \in Bulks \cup {NoCampaign}
  BY DEF TypeOK, Suspended, Runner

-----------------------------------------------------------------------------
(* The invariant through one step.                                         *)

LEMMA InvariantStarts == Init => IInv
<1>1. SUFFICES ASSUME Init PROVE IInv
  OBVIOUS
<1>2. TypeOK
  <2>1. item \in [Items -> ItemStatus] /\ campaign \in [Campaigns -> CampaignStatus]
    BY <1>1 DEF Init, ItemStatus, CampaignStatus
  <2>2. send \in [Campaigns -> Suspended] /\ runner \in Runner
    BY <1>1, IdleIsSuspended DEF Init
  <2>3. crashes \in 0..MaxCrashes /\ days \in 0..MaxDays
    BY <1>1, LimitsNatural DEF Init
  <2>4. delivered \in [Items -> Nat]
    BY <1>1 DEF Init
  <2>5. QED
    BY <1>1, <2>1, <2>2, <2>3, <2>4 DEF Init, TypeOK, Suspended, Runner
<1>3. \A c \in Campaigns : send[c].phase = "none" /\ campaign[c] = "none"
  BY <1>1 DEF Init, Idle
<1>4. \A c \in Campaigns : \A i \in Range(Queue[c]) : item[i] = "none"
  BY <1>1, QueueItems DEF Init
<1>5. active = NoCampaign
  BY <1>1 DEF Init
<1>6. StatusTellsWork
  BY <1>3, Kinds DEF StatusTellsWork, FinishedIsDrained, PausedHasWork
<1>7. QED
  BY <1>2, <1>3, <1>4, <1>5, <1>6, Kinds
     DEF IInv, SendsAreMarked, MarkedAreSends, Marked, OnlyMarked, RunnerTells, UnsavedIsEmpty

\* A step of one campaign c leaves s suspended for it and st as its status; what it does
\* to the items of its queue is what these two say.
LEMMA StepOfOne ==
    ASSUME IInv, NEW c \in Campaigns, NEW s \in Suspended, NEW st \in CampaignStatus,
           item' \in [Items -> ItemStatus],
           \A i \in Items : i \notin Range(Queue[c]) => item'[i] = item[i],
           send' = [send EXCEPT ![c] = s],
           campaign' = [campaign EXCEPT ![c] = st],
           up, up', Marked(c, s, item'), OnlyMarked(c, s, item'),
           st = "none" => \A i \in Range(Queue[c]) : item'[i] = "none",
           c \in Bulks /\ st \in {"completed", "cancelled"} =>
              \A i \in Range(Queue[c]) : item'[i] \notin {"pending", "sending"},
           c \in Bulks /\ st = "paused" => \E i \in Range(Queue[c]) : item'[i] = "pending"
    PROVE  /\ SendsAreMarked' /\ MarkedAreSends' /\ UnsavedIsEmpty' /\ StatusTellsWork'
           /\ send' \in [Campaigns -> Suspended]
           /\ campaign' \in [Campaigns -> CampaignStatus]
<1>1. send \in [Campaigns -> Suspended] /\ campaign \in [Campaigns -> CampaignStatus]
  BY Types DEF IInv
<1>2. /\ \A d \in Campaigns : d # c => send'[d] = send[d] /\ campaign'[d] = campaign[d]
      /\ send'[c] = s /\ campaign'[c] = st
  BY <1>1
<1>3. \A d \in Campaigns : d # c => \A i \in Range(Queue[d]) : item'[i] = item[i]
  BY QueueItems
<1>4. SendsAreMarked'
  <2>1. SUFFICES ASSUME NEW d \in Campaigns PROVE Marked(d, send'[d], item')
    BY DEF SendsAreMarked
  <2>2. CASE d = c
    BY <1>2, <2>2
  <2>3. CASE d # c
    <3>1. Marked(d, send[d], item)
      BY DEF IInv, SendsAreMarked
    <3>2. QED
      BY <1>2, <1>3, <2>3, <3>1 DEF Marked
  <2>4. QED
    BY <2>2, <2>3
<1>5. MarkedAreSends'
  <2>1. SUFFICES ASSUME NEW d \in Campaigns PROVE OnlyMarked(d, send'[d], item')
    BY DEF MarkedAreSends
  <2>2. CASE d = c
    BY <1>2, <2>2
  <2>3. CASE d # c
    <3>1. OnlyMarked(d, send[d], item)
      BY DEF IInv, MarkedAreSends
    <3>2. QED
      BY <1>2, <1>3, <2>3, <3>1 DEF OnlyMarked
  <2>4. QED
    BY <2>2, <2>3
<1>6. UnsavedIsEmpty'
  BY <1>2, <1>3 DEF IInv, UnsavedIsEmpty
<1>7. StatusTellsWork'
  <2>1. SUFFICES ASSUME NEW d \in Bulks
                 PROVE  /\ campaign'[d] \in {"completed", "cancelled"} =>
                             \A i \in Range(Queue[d]) : item'[i] \notin {"pending", "sending"}
                        /\ campaign'[d] = "paused" => NextPending(d, item') # NoItem
    BY DEF StatusTellsWork, FinishedIsDrained, PausedHasWork
  <2>2. d \in Campaigns
    BY Kinds
  <2>3. CASE d = c
    BY <1>2, <2>2, <2>3, NextPendingWaits
  <2>4. CASE d # c
    <3>1. /\ campaign[d] \in {"completed", "cancelled"} =>
                 \A i \in Range(Queue[d]) : item[i] \notin {"pending", "sending"}
          /\ campaign[d] = "paused" => NextPending(d, item) # NoItem
      BY DEF IInv, StatusTellsWork, FinishedIsDrained, PausedHasWork
    <3>2. campaign[d] = "paused" => NextPending(d, item') # NoItem
      BY <1>3, <2>2, <2>4, <3>1, NextPendingWaits
    <3>3. QED
      BY <1>2, <1>3, <2>2, <2>4, <3>1, <3>2
  <2>5. QED
    BY <2>3, <2>4
<1>8. QED
  BY <1>1, <1>4, <1>5, <1>6, <1>7

\* runner.ts: between two awaits the loop ends the campaign, takes its next item or
\* begins a wait; with no item of it on its way before, it leaves what IInv says.
LEMMA ProceedKeeps ==
    ASSUME IInv, up, up', NEW c \in Bulks, active \in {NoCampaign, c}, campaign[c] # "none",
           NEW it \in [Items -> ItemStatus], NEW u \in Nat, NEW r \in Runner, NEW waited,
           \A i \in Items : i \notin Range(Queue[c]) => it[i] = item[i],
           \A i \in Range(Queue[c]) : it[i] # "sending",
           Proceed(c, it, u, r, waited)
    PROVE  /\ SendsAreMarked' /\ MarkedAreSends' /\ UnsavedIsEmpty' /\ StatusTellsWork'
           /\ RunnerTells'
           /\ item' \in [Items -> ItemStatus] /\ campaign' \in [Campaigns -> CampaignStatus]
           /\ send' \in [Campaigns -> Suspended] /\ runner' \in Runner
           /\ active' \in Bulks \cup {NoCampaign}
           /\ chat' \in Items \cup {NoItem} /\ typed' \in BOOLEAN /\ delivered' = delivered
<1>1. c \in Campaigns /\ c # NoCampaign
  BY Kinds
<1>2. /\ send \in [Campaigns -> Suspended] /\ campaign \in [Campaigns -> CampaignStatus]
      /\ chat \in Items \cup {NoItem} /\ typed \in BOOLEAN
  BY Types DEF IInv, TypeOK
<1>3. \A b \in Bulks : b # c => send[b].phase = "none"
  BY Kinds DEF IInv, RunnerTells
<1>4. ASSUME NEW st \in {"cancelled", "completed", "paused"}, End(c, st),
             item' \in [Items -> ItemStatus],
             \A i \in Items : i \notin Range(Queue[c]) => item'[i] = item[i],
             \A i \in Range(Queue[c]) : item'[i] # "sending",
             st \in {"cancelled", "completed"} => \A i \in Range(Queue[c]) : item'[i] # "pending",
             st = "paused" => \E i \in Range(Queue[c]) : item'[i] = "pending"
      PROVE  /\ SendsAreMarked' /\ MarkedAreSends' /\ UnsavedIsEmpty' /\ StatusTellsWork'
             /\ RunnerTells'
             /\ campaign' \in [Campaigns -> CampaignStatus]
             /\ send' \in [Campaigns -> Suspended] /\ runner' \in Runner
             /\ active' \in Bulks \cup {NoCampaign}
             /\ chat' \in Items \cup {NoItem} /\ typed' \in BOOLEAN /\ delivered' = delivered
  <2>1. /\ campaign' = [campaign EXCEPT ![c] = st] /\ send' = [send EXCEPT ![c] = Idle]
        /\ active' = NoCampaign /\ runner' = Fresh
        /\ chat' = chat /\ typed' = typed /\ delivered' = delivered
    BY <1>4 DEF End, window
  <2>2. Marked(c, Idle, item') /\ OnlyMarked(c, Idle, item')
    BY <1>4, IdleIsSuspended DEF Marked, OnlyMarked
  <2>3. st \in CampaignStatus /\ st # "none"
    BY <1>4 DEF CampaignStatus
  <2>4. /\ SendsAreMarked' /\ MarkedAreSends' /\ UnsavedIsEmpty' /\ StatusTellsWork'
        /\ campaign' \in [Campaigns -> CampaignStatus] /\ send' \in [Campaigns -> Suspended]
    BY <1>1, <1>4, <2>1, <2>2, <2>3, IdleIsSuspended, StepOfOne
  <2>5. RunnerTells'
    <3>1. \A b \in Bulks : send'[b].phase = "none"
      BY <1>2, <1>3, <2>1, IdleIsSuspended, Kinds
    <3>2. QED
      BY <2>1, <3>1 DEF RunnerTells
  <2>6. QED
    BY <1>2, <2>1, <2>4, <2>5, IdleIsSuspended
<1>5. CASE Cancels(c, it, r)
  <2>1. item' = Cancelled(c, it) /\ End(c, "cancelled")
    BY <1>5 DEF Cancels
  <2>2. /\ item' \in [Items -> ItemStatus]
        /\ \A i \in Items : i \notin Range(Queue[c]) => item'[i] = item[i]
    BY <2>1 DEF Cancelled, ItemStatus
  <2>3. \A i \in Range(Queue[c]) : item'[i] \notin {"pending", "sending"}
    <3>1. Range(Queue[c]) \subseteq Items
      BY <1>1, QueueItems
    <3>2. QED
      BY <2>1, <3>1 DEF Cancelled
  <2>4. QED
    BY <1>4, <2>1, <2>2, <2>3
<1>6. CASE Completes(c, it, u, r)
  <2>1. item' = it /\ End(c, "completed") /\ NextPending(c, it) = NoItem
    BY <1>6 DEF Completes
  <2>2. \A i \in Range(Queue[c]) : item'[i] # "pending"
    BY <1>1, <2>1, NextPendingWaits
  <2>3. QED
    BY <1>4, <2>1, <2>2
<1>7. CASE Pauses(c, it, u, r)
  <2>1. item' = it /\ End(c, "paused") /\ NextPending(c, it) # NoItem
    BY <1>7 DEF Pauses, StopsHere
  <2>2. \E i \in Range(Queue[c]) : item'[i] = "pending"
    BY <1>1, <2>1, NextPendingWaits
  <2>3. QED
    BY <1>4, <2>1, <2>2
<1>8. CASE Continues(c, it, u, r, waited)
  <2>1. /\ campaign' = [campaign EXCEPT ![c] = "running"] /\ active' = c
        /\ NextPending(c, it) # NoItem
    BY <1>8 DEF Continues
  <2>2. "running" \in CampaignStatus
    BY DEF CampaignStatus
  <2>3. ASSUME NEW s \in Suspended, send' = [send EXCEPT ![c] = s],
               item' \in [Items -> ItemStatus],
               \A i \in Items : i \notin Range(Queue[c]) => item'[i] = item[i],
               Marked(c, s, item'), OnlyMarked(c, s, item'),
               runner' \in Runner, s.phase # "none" => ~runner'.waiting
        PROVE  /\ SendsAreMarked' /\ MarkedAreSends' /\ UnsavedIsEmpty' /\ StatusTellsWork'
               /\ RunnerTells'
               /\ campaign' \in [Campaigns -> CampaignStatus]
               /\ send' \in [Campaigns -> Suspended]
    <3>1. /\ SendsAreMarked' /\ MarkedAreSends' /\ UnsavedIsEmpty' /\ StatusTellsWork'
          /\ campaign' \in [Campaigns -> CampaignStatus] /\ send' \in [Campaigns -> Suspended]
      BY <1>1, <2>1, <2>2, <2>3, StepOfOne
    <3>2. \A b \in Bulks : b # c => send'[b].phase = "none"
      BY <1>2, <1>3, <2>3, Kinds
    <3>3. send'[c] = s /\ campaign'[c] = "running"
      BY <1>1, <1>2, <2>1, <2>3
    <3>4. RunnerTells'
      BY <1>1, <2>1, <2>3, <3>2, <3>3 DEF RunnerTells
    <3>5. QED
      BY <3>1, <3>4
  <2>4. CASE r.fresh \/ waited
    <3> DEFINE i == NextPending(c, it)
               s == [phase |-> "probing", item |-> i, clicked |-> FALSE]
    <3>1. i \in Range(Queue[c]) /\ i \in Items /\ it[i] = "pending"
      BY <1>1, <2>1, NextPendingWaits, QueueItems
    <3>2. /\ runner' = [r EXCEPT !.waiting = FALSE]
          /\ item' = [it EXCEPT ![i] = "sending"] /\ send' = [send EXCEPT ![c] = s]
          /\ chat' = i /\ typed' = TRUE /\ delivered' = delivered
      BY <1>8, <2>4 DEF Continues, Begin
    <3>3. s \in Suspended /\ s.phase = "probing" /\ s.item = i
      BY <3>1 DEF Suspended
    <3>4. runner' \in Runner /\ ~runner'.waiting
      BY <3>2 DEF Runner
    <3>5. /\ item' \in [Items -> ItemStatus] /\ item'[i] = "sending"
          /\ \A j \in Items : j # i => item'[j] = it[j]
      BY <3>1, <3>2 DEF ItemStatus
    <3>6. \A j \in Items : j \notin Range(Queue[c]) => item'[j] = item[j]
      BY <3>1, <3>5
    <3>7. Range(Queue[c]) \subseteq Items
      BY <1>1, QueueItems
    <3>8. Marked(c, s, item') /\ OnlyMarked(c, s, item')
      BY <3>1, <3>3, <3>5, <3>7 DEF Marked, OnlyMarked
    <3>9. QED
      BY <2>1, <2>3, <3>1, <3>2, <3>3, <3>4, <3>5, <3>6, <3>8
  <2>5. CASE ~(r.fresh \/ waited)
    <3>1. /\ runner' = [r EXCEPT !.waiting = TRUE] /\ item' = it
          /\ send' = [send EXCEPT ![c] = Idle]
          /\ chat' = chat /\ typed' = typed /\ delivered' = delivered
      BY <1>8, <2>5 DEF Continues, window
    <3>2. runner' \in Runner
      BY <3>1 DEF Runner
    <3>3. Marked(c, Idle, item') /\ OnlyMarked(c, Idle, item')
      BY <3>1, IdleIsSuspended DEF Marked, OnlyMarked
    <3>4. QED
      BY <1>2, <2>1, <2>3, <3>1, <3>2, <3>3, IdleIsSuspended
  <2>6. QED
    BY <2>4, <2>5
<1>9. QED
  BY <1>5, <1>6, <1>7, <1>8 DEF Proceed

\* services/campaigns: the items of a campaign that is saved wait, or are skipped.
LEMMA SavedItems ==
    ASSUME TypeOK, NEW c \in Campaigns, NEW valid
    PROVE  /\ Saved(c, valid) \in [Items -> ItemStatus]
           /\ \A i \in Items : i \notin Range(Queue[c]) => Saved(c, valid)[i] = item[i]
           /\ \A i \in Range(Queue[c]) :
                 Saved(c, valid)[i] = IF i \in valid THEN "pending" ELSE "skipped"
<1>1. item \in [Items -> ItemStatus] /\ Range(Queue[c]) \subseteq Items
  BY Types, QueueItems
<1>2. QED
  BY <1>1 DEF Saved, ItemStatus

LEMMA CreateKeeps ==
    ASSUME IInv, NEW c \in Bulks, NEW valid, CreateCampaign(c, valid)
    PROVE  IInv'
<1>1. c \in Campaigns
  BY Kinds
<1>2. /\ up /\ campaign[c] = "none" /\ campaign' = [campaign EXCEPT ![c] = "draft"]
      /\ item' = Saved(c, valid)
      /\ UNCHANGED <<used, up, active, runner, send, connected, chat, typed, delivered, today,
                     crashes, days>>
  BY DEF CreateCampaign, window, limits
<1>3. TypeOK /\ send \in [Campaigns -> Suspended] /\ campaign \in [Campaigns -> CampaignStatus]
  BY Types DEF IInv
<1>4. send[c].phase = "none"
  BY <1>2, Kinds DEF IInv, RunnerTells
<1>5. send[c] \in Suspended /\ send' = [send EXCEPT ![c] = send[c]]
  BY <1>1, <1>2, <1>3
<1>6. /\ item' \in [Items -> ItemStatus]
      /\ \A i \in Items : i \notin Range(Queue[c]) => item'[i] = item[i]
      /\ \A i \in Range(Queue[c]) : item'[i] \in {"pending", "skipped"}
  BY <1>1, <1>2, <1>3, SavedItems
<1>7. Marked(c, send[c], item') /\ OnlyMarked(c, send[c], item')
  BY <1>4, <1>6 DEF Marked, OnlyMarked
<1>8. "draft" \in CampaignStatus
  BY DEF CampaignStatus
<1>9. /\ SendsAreMarked' /\ MarkedAreSends' /\ UnsavedIsEmpty' /\ StatusTellsWork'
      /\ campaign' \in [Campaigns -> CampaignStatus]
  BY <1>1, <1>2, <1>5, <1>6, <1>7, <1>8, StepOfOne
<1>10. RunnerTells'
  BY <1>1, <1>2, <1>3 DEF IInv, RunnerTells
<1>11. TypeOK'
  BY <1>2, <1>3, <1>6, <1>9 DEF TypeOK
<1>12. QED
  BY <1>9, <1>10, <1>11 DEF IInv

\* What a step of the loop leaves to be said of the types.
LEMMA TypesSuffice ==
    ASSUME IInv,
           item' \in [Items -> ItemStatus], campaign' \in [Campaigns -> CampaignStatus],
           send' \in [Campaigns -> Suspended], runner' \in Runner,
           active' \in Bulks \cup {NoCampaign},
           chat' \in Items \cup {NoItem}, typed' \in BOOLEAN, delivered' \in [Items -> Nat],
           used' \in Nat, today' \in Nat,
           UNCHANGED <<up, connected, crashes, days>>
    PROVE  TypeOK'
  BY DEF IInv, TypeOK, Suspended, Runner

LEMMA StartKeeps ==
    ASSUME IInv, NEW c \in Bulks, StartCampaign(c)
    PROVE  IInv'
<1>1. /\ up /\ active = NoCampaign /\ campaign[c] # "none"
      /\ Proceed(c, item, used, Fresh, FALSE)
      /\ UNCHANGED <<used, up, connected, today, crashes, days>>
  BY DEF StartCampaign, limits
<1>2. c \in Campaigns /\ TypeOK /\ item \in [Items -> ItemStatus] /\ used \in Nat
  BY Kinds, Types DEF IInv
<1>3. \A i \in Range(Queue[c]) : item[i] # "sending"
  BY <1>1, <1>2, Kinds DEF IInv, MarkedAreSends, OnlyMarked, RunnerTells
<1>4. /\ SendsAreMarked' /\ MarkedAreSends' /\ UnsavedIsEmpty' /\ StatusTellsWork'
      /\ RunnerTells'
      /\ item' \in [Items -> ItemStatus] /\ campaign' \in [Campaigns -> CampaignStatus]
      /\ send' \in [Campaigns -> Suspended] /\ runner' \in Runner
      /\ active' \in Bulks \cup {NoCampaign}
      /\ chat' \in Items \cup {NoItem} /\ typed' \in BOOLEAN /\ delivered' = delivered
  BY <1>1, <1>2, <1>3, IdleIsSuspended, ProceedKeeps
<1>5. delivered' \in [Items -> Nat] /\ used' \in Nat /\ today' \in Nat
  BY <1>1, <1>2, <1>4 DEF TypeOK
<1>6. QED
  BY <1>1, <1>4, <1>5, TypesSuffice DEF IInv

LEMMA RequestKeeps ==
    ASSUME IInv, NEW what \in {"pause", "cancel"}, Request(what)
    PROVE  IInv'
<1>1. /\ runner' = [runner EXCEPT !.request = what]
      /\ UNCHANGED <<item, campaign, used, up, active, send, connected, chat, typed, delivered,
                     today, crashes, days>>
  BY DEF Request, db, window, limits
<1>2. runner \in Runner
  BY Types DEF IInv
<1>3. runner' \in Runner /\ runner'.waiting = runner.waiting
  BY <1>1, <1>2 DEF Runner
<1>4. TypeOK'
  BY <1>1, <1>3 DEF IInv, TypeOK, Runner
<1>5. RunnerTells'
  BY <1>1, <1>3 DEF IInv, RunnerTells
<1>6. SendsAreMarked' /\ MarkedAreSends' /\ UnsavedIsEmpty'
  BY <1>1 DEF IInv, SendsAreMarked, MarkedAreSends, UnsavedIsEmpty
<1>7. StatusTellsWork'
  BY <1>1 DEF IInv, StatusTellsWork, FinishedIsDrained, PausedHasWork
<1>8. QED
  BY <1>4, <1>5, <1>6, <1>7 DEF IInv

LEMMA EndWaitKeeps == IInv /\ EndWait => IInv'
<1>1. SUFFICES ASSUME IInv, EndWait PROVE IInv'
  OBVIOUS
<1> DEFINE r == [runner EXCEPT !.waiting = FALSE]
<1>2. /\ active # NoCampaign /\ runner.waiting
      /\ Proceed(active, item, used, r, WaitOver(runner))
      /\ UNCHANGED <<used, up, connected, today, crashes, days>>
  BY <1>1 DEF EndWait, limits
<1>3. /\ TypeOK /\ item \in [Items -> ItemStatus] /\ used \in Nat /\ runner \in Runner
      /\ active \in Bulks
  BY <1>1, <1>2, Types DEF IInv
<1>4. up /\ campaign[active] = "running" /\ send[active].phase = "none"
  BY <1>1, <1>2, <1>3 DEF IInv, RunnerTells
<1>5. \A i \in Range(Queue[active]) : item[i] # "sending"
  BY <1>1, <1>3, <1>4, Kinds DEF IInv, MarkedAreSends, OnlyMarked
<1>6. r \in Runner
  BY <1>3 DEF Runner
<1>7. /\ SendsAreMarked' /\ MarkedAreSends' /\ UnsavedIsEmpty' /\ StatusTellsWork'
      /\ RunnerTells'
      /\ item' \in [Items -> ItemStatus] /\ campaign' \in [Campaigns -> CampaignStatus]
      /\ send' \in [Campaigns -> Suspended] /\ runner' \in Runner
      /\ active' \in Bulks \cup {NoCampaign}
      /\ chat' \in Items \cup {NoItem} /\ typed' \in BOOLEAN /\ delivered' = delivered
  BY <1>1, <1>2, <1>3, <1>4, <1>5, <1>6, ProceedKeeps
<1>8. delivered' \in [Items -> Nat] /\ used' \in Nat /\ today' \in Nat
  BY <1>2, <1>3, <1>7 DEF TypeOK
<1>9. QED
  BY <1>1, <1>2, <1>7, <1>8, TypesSuffice DEF IInv

\* What does not touch the active campaign leaves what is told of it.
LEMMA RunnerUndisturbed ==
    ASSUME IInv, up, NEW c \in Campaigns, NEW s \in Suspended, NEW st \in CampaignStatus,
           send' = [send EXCEPT ![c] = s], campaign' = [campaign EXCEPT ![c] = st],
           UNCHANGED <<up, active, runner>>,
           c \in Bulks => st = campaign[c] /\ (s.phase # "none" => send[c].phase # "none")
    PROVE  RunnerTells'
<1>1. /\ send \in [Campaigns -> Suspended] /\ campaign \in [Campaigns -> CampaignStatus]
      /\ active \in Bulks \cup {NoCampaign}
  BY Types DEF IInv
<1>2. \A d \in Bulks : campaign'[d] = campaign[d]
                       /\ (send'[d].phase # "none" => send[d].phase # "none")
  BY <1>1, Kinds
<1>3. QED
  BY <1>1, <1>2 DEF IInv, RunnerTells

LEMMA SendOneKeeps ==
    ASSUME IInv, NEW c \in Singles, NEW valid, SendOne(c, valid)
    PROVE  IInv'
<1> DEFINE s == IF Queue[c][1] \in valid
                THEN [phase |-> "connecting", item |-> Queue[c][1], clicked |-> FALSE]
                ELSE send[c]
<1>1. c \in Campaigns /\ c \notin Bulks
  BY Kinds
<1>2. /\ up /\ campaign[c] = "none" /\ campaign' = [campaign EXCEPT ![c] = "draft"]
      /\ item' = Saved(c, valid)
      /\ send' = IF Queue[c][1] \in valid
                 THEN [send EXCEPT ![c] = [phase |-> "connecting", item |-> Queue[c][1],
                                           clicked |-> FALSE]]
                 ELSE send
      /\ UNCHANGED <<used, up, active, runner, connected, chat, typed, delivered, today,
                     crashes, days>>
  BY DEF SendOne, window, limits
<1>3. TypeOK /\ send \in [Campaigns -> Suspended] /\ campaign \in [Campaigns -> CampaignStatus]
  BY Types DEF IInv
<1>4. Queue[c][1] \in Range(Queue[c]) /\ Queue[c][1] \in Items
  <2>1. Queue[c] \in Seq(Range(Queue[c])) /\ Len(Queue[c]) = 1
    BY <1>1, QueuesApart
  <2>2. 1 \in DOMAIN Queue[c]
    BY <2>1
  <2>3. QED
    BY <1>1, <2>2, QueueItems DEF Range
<1>5. send' = [send EXCEPT ![c] = s]
  BY <1>1, <1>2, <1>3
<1>6. s \in Suspended
  BY <1>1, <1>3, <1>4 DEF Suspended
<1>7. /\ item' \in [Items -> ItemStatus]
      /\ \A i \in Items : i \notin Range(Queue[c]) => item'[i] = item[i]
      /\ \A i \in Range(Queue[c]) : item'[i] = IF i \in valid THEN "pending" ELSE "skipped"
  BY <1>1, <1>2, <1>3, SavedItems
<1>8. Marked(c, send[c], item) /\ \A i \in Range(Queue[c]) : item[i] = "none"
  BY <1>1, <1>2 DEF IInv, SendsAreMarked, UnsavedIsEmpty
<1>9. send[c].phase = "none"
  <2>1. send[c] \in Suspended
    BY <1>1, <1>3
  <2>2. QED
    BY <1>8, <2>1 DEF Marked, Suspended
<1>10. Marked(c, s, item') /\ OnlyMarked(c, s, item')
  <2>1. CASE Queue[c][1] \in valid
    BY <1>4, <1>7, <2>1 DEF Marked, OnlyMarked
  <2>2. CASE Queue[c][1] \notin valid
    BY <1>7, <1>9, <2>2 DEF Marked, OnlyMarked
  <2>3. QED
    BY <2>1, <2>2
<1>11. "draft" \in CampaignStatus
  BY DEF CampaignStatus
<1>12. /\ SendsAreMarked' /\ MarkedAreSends' /\ UnsavedIsEmpty' /\ StatusTellsWork'
       /\ campaign' \in [Campaigns -> CampaignStatus] /\ send' \in [Campaigns -> Suspended]
  BY <1>1, <1>2, <1>5, <1>6, <1>7, <1>10, <1>11, StepOfOne
<1>13. RunnerTells'
  BY <1>1, <1>2, <1>5, <1>6, <1>11, RunnerUndisturbed
<1>14. TypeOK'
  BY <1>2, <1>3, <1>7, <1>12 DEF TypeOK, Suspended
<1>15. QED
  BY <1>12, <1>13, <1>14 DEF IInv

\* The campaign of a single message ends, with its item no longer on its way.
LEMMA SingleEnds ==
    ASSUME IInv, up, NEW c \in Singles, NEW status \in {"completed", "failed"},
           send[c].phase # "none",
           item' \in [Items -> ItemStatus], item'[send[c].item] # "sending",
           \A j \in Items : j # send[c].item => item'[j] = item[j],
           campaign' = [campaign EXCEPT ![c] = status],
           send' = [send EXCEPT ![c] = Idle],
           UNCHANGED <<up, active, runner>>
    PROVE  /\ SendsAreMarked' /\ MarkedAreSends' /\ UnsavedIsEmpty' /\ StatusTellsWork'
           /\ RunnerTells' /\ campaign' \in [Campaigns -> CampaignStatus]
           /\ send' \in [Campaigns -> Suspended]
<1>1. c \in Campaigns /\ c \notin Bulks
  BY Kinds
<1>2. Range(Queue[c]) \subseteq Items /\ send[c].item \in Range(Queue[c])
  BY <1>1, QueueItems DEF IInv, SendsAreMarked, Marked, TypeOK
<1>3. OnlyMarked(c, send[c], item)
  BY <1>1 DEF IInv, MarkedAreSends
<1>4. Marked(c, Idle, item') /\ OnlyMarked(c, Idle, item')
  BY <1>2, <1>3, IdleIsSuspended DEF Marked, OnlyMarked
<1>5. status \in CampaignStatus /\ status # "none"
  BY DEF CampaignStatus
<1>6. \A j \in Items : j \notin Range(Queue[c]) => item'[j] = item[j]
  BY <1>2
<1>7. /\ SendsAreMarked' /\ MarkedAreSends' /\ UnsavedIsEmpty' /\ StatusTellsWork'
      /\ campaign' \in [Campaigns -> CampaignStatus] /\ send' \in [Campaigns -> Suspended]
  BY <1>1, <1>4, <1>5, <1>6, IdleIsSuspended, StepOfOne
<1>8. RunnerTells'
  BY <1>1, <1>5, IdleIsSuspended, RunnerUndisturbed
<1>9. QED
  BY <1>7, <1>8

LEMMA NotReadyKeeps ==
    ASSUME IInv, NEW c \in Singles, SingleNotReady(c) \/ SingleRefused(c)
    PROVE  IInv'
<1>1. /\ send[c].phase = "connecting"
      /\ item' = [item EXCEPT ![send[c].item] = "failed"] \/ item' = item
      /\ campaign' = [campaign EXCEPT ![c] = "failed"] /\ send' = [send EXCEPT ![c] = Idle]
      /\ UNCHANGED <<used, up, active, runner, connected, chat, typed, delivered, today,
                     crashes, days>>
  BY DEF SingleNotReady, SingleRefused, window, limits
<1>2. c \in Campaigns
  BY Kinds
<1>3. up /\ send[c].item \in Range(Queue[c]) /\ item[send[c].item] = "pending"
  BY <1>1, <1>2 DEF IInv, RunnerTells, SendsAreMarked, Marked, TypeOK
<1>4. /\ item' \in [Items -> ItemStatus] /\ item'[send[c].item] # "sending"
      /\ \A j \in Items : j # send[c].item => item'[j] = item[j]
  <2>1. item \in [Items -> ItemStatus] /\ send[c].item \in Items
    BY <1>2, <1>3, Types, QueueItems DEF IInv
  <2>2. QED
    BY <1>1, <1>3, <2>1 DEF ItemStatus
<1>5. /\ SendsAreMarked' /\ MarkedAreSends' /\ UnsavedIsEmpty' /\ StatusTellsWork'
      /\ RunnerTells'
      /\ campaign' \in [Campaigns -> CampaignStatus] /\ send' \in [Campaigns -> Suspended]
  BY <1>1, <1>3, <1>4, SingleEnds
<1>6. TypeOK'
  BY <1>1, <1>4, <1>5 DEF IInv, TypeOK, Suspended
<1>7. QED
  BY <1>5, <1>6 DEF IInv

LEMMA ReadyKeeps ==
    ASSUME IInv, NEW c \in Singles, SingleReady(c)
    PROVE  IInv'
<1> DEFINE i == send[c].item
           s == [phase |-> "probing", item |-> i, clicked |-> FALSE]
<1>1. /\ send[c].phase = "connecting"
      /\ item' = [item EXCEPT ![i] = "sending"] /\ send' = [send EXCEPT ![c] = s]
      /\ chat' = i /\ typed' = TRUE
      /\ UNCHANGED <<campaign, used, up, active, runner, connected, delivered, today, crashes,
                     days>>
  BY DEF SingleReady, Begin, limits
<1>2. c \in Campaigns /\ c \notin Bulks
  BY Kinds
<1>3. /\ TypeOK /\ item \in [Items -> ItemStatus] /\ Range(Queue[c]) \subseteq Items
      /\ campaign \in [Campaigns -> CampaignStatus] /\ send \in [Campaigns -> Suspended]
  BY <1>2, Types, QueueItems DEF IInv
<1>4. up /\ i \in Range(Queue[c]) /\ item[i] = "pending"
  BY <1>1, <1>2 DEF IInv, RunnerTells, SendsAreMarked, Marked, TypeOK
<1>5. s \in Suspended
  BY <1>3, <1>4 DEF Suspended
<1>6. /\ item' \in [Items -> ItemStatus] /\ item'[i] = "sending"
      /\ \A j \in Items : j # i => item'[j] = item[j]
  BY <1>1, <1>3, <1>4 DEF ItemStatus
<1>7. \A j \in Items : j \notin Range(Queue[c]) => item'[j] = item[j]
  BY <1>4, <1>6
<1>8. OnlyMarked(c, send[c], item)
  BY <1>2, <1>4 DEF IInv, MarkedAreSends
<1>9. Marked(c, s, item') /\ OnlyMarked(c, s, item')
  BY <1>1, <1>3, <1>4, <1>6, <1>8 DEF Marked, OnlyMarked
<1>10. campaign[c] # "none" /\ campaign[c] \in CampaignStatus
       /\ campaign' = [campaign EXCEPT ![c] = campaign[c]]
  BY <1>1, <1>2, <1>3, <1>4 DEF IInv, UnsavedIsEmpty
<1>11. /\ SendsAreMarked' /\ MarkedAreSends' /\ UnsavedIsEmpty' /\ StatusTellsWork'
       /\ campaign' \in [Campaigns -> CampaignStatus] /\ send' \in [Campaigns -> Suspended]
  BY <1>1, <1>2, <1>4, <1>5, <1>6, <1>7, <1>9, <1>10, StepOfOne
<1>12. RunnerTells'
  BY <1>1, <1>2, <1>4, <1>5, <1>10, RunnerUndisturbed
<1>13. TypeOK'
  BY <1>1, <1>3, <1>4, <1>6, <1>11 DEF TypeOK, Suspended
<1>14. QED
  BY <1>11, <1>12, <1>13 DEF IInv

LEMMA SubmitKeeps ==
    ASSUME IInv, NEW c \in Campaigns, PressEnter(c) \/ ClickSend(c)
    PROVE  IInv'
<1>1. /\ Sending(c) /\ Submit
      /\ UNCHANGED <<item, campaign, used, up, active, runner, connected, chat, today, crashes,
                     days>>
  BY DEF PressEnter, ClickSend, Sending, db, limits
<1>2. /\ TypeOK /\ campaign \in [Campaigns -> CampaignStatus] /\ send \in [Campaigns -> Suspended]
  BY Types DEF IInv
<1>3. up /\ Marked(c, send[c], item) /\ OnlyMarked(c, send[c], item)
  <2>1. up
    BY <1>1, <1>2 DEF IInv, RunnerTells, Sending, TypeOK
  <2>2. QED
    BY <2>1 DEF IInv, SendsAreMarked, MarkedAreSends
<1>4. PICK s \in Suspended : /\ send' = [send EXCEPT ![c] = s] /\ s.item = send[c].item
                             /\ s.phase = "verifying"
  <2>1. send[c] \in Suspended
    BY <1>2
  <2>2. CASE PressEnter(c)
    <3> DEFINE s == [send[c] EXCEPT !.phase = "verifying"]
    <3>1. s \in Suspended /\ s.item = send[c].item /\ s.phase = "verifying"
      BY <2>1 DEF Suspended
    <3>2. send' = [send EXCEPT ![c] = s]
      BY <1>2, <2>2 DEF PressEnter
    <3>3. QED
      BY <3>1, <3>2
  <2>3. CASE ClickSend(c)
    <3> DEFINE s == [send[c] EXCEPT !.clicked = TRUE]
    <3>1. s \in Suspended /\ s.item = send[c].item /\ s.phase = "verifying"
      BY <2>1, <2>3 DEF Suspended, ClickSend
    <3>2. send' = [send EXCEPT ![c] = s]
      BY <1>2, <2>3 DEF ClickSend
    <3>3. QED
      BY <3>1, <3>2
  <2>4. QED
    BY <2>2, <2>3
<1>5. Marked(c, s, item') /\ OnlyMarked(c, s, item')
  BY <1>1, <1>3, <1>4 DEF Marked, OnlyMarked, Sending
<1>6. campaign[c] # "none" /\ campaign[c] \in CampaignStatus
      /\ campaign' = [campaign EXCEPT ![c] = campaign[c]]
  BY <1>1, <1>2, <1>3 DEF IInv, UnsavedIsEmpty, Marked, Sending
<1>7. /\ c \in Bulks /\ campaign[c] \in {"completed", "cancelled"} =>
            \A i \in Range(Queue[c]) : item'[i] \notin {"pending", "sending"}
      /\ c \in Bulks /\ campaign[c] = "paused" => \E i \in Range(Queue[c]) : item'[i] = "pending"
  BY <1>1, NextPendingWaits DEF IInv, StatusTellsWork, FinishedIsDrained, PausedHasWork
<1>8. /\ SendsAreMarked' /\ MarkedAreSends' /\ UnsavedIsEmpty' /\ StatusTellsWork'
      /\ send' \in [Campaigns -> Suspended]
  BY <1>1, <1>2, <1>3, <1>4, <1>5, <1>6, <1>7, StepOfOne DEF TypeOK
<1>9. RunnerTells'
  BY <1>1, <1>3, <1>4, <1>6, RunnerUndisturbed DEF Sending
<1>10. typed' \in BOOLEAN /\ delivered' \in [Items -> Nat]
  <2>1. typed \in BOOLEAN /\ delivered \in [Items -> Nat]
    BY <1>2 DEF TypeOK
  <2>2. CASE UNCHANGED <<typed, delivered>>
    BY <2>1, <2>2
  <2>3. CASE typed' = FALSE /\ delivered' = [delivered EXCEPT ![chat] = @ + 1]
    <3>1. \A i \in Items : delivered'[i] = IF i = chat THEN delivered[i] + 1 ELSE delivered[i]
      BY <2>1, <2>3
    <3>2. \A i \in Items : delivered'[i] \in Nat
      BY <2>1, <3>1
    <3>3. delivered' \in [Items -> Nat]
      BY <2>1, <2>3, <3>2
    <3>4. QED
      BY <2>3, <3>3
  <2>4. QED
    BY <1>1, <2>2, <2>3 DEF Submit
<1>11. TypeOK'
  BY <1>1, <1>2, <1>8, <1>10 DEF TypeOK, Suspended
<1>12. QED
  BY <1>8, <1>9, <1>11 DEF IInv

\* sendCampaignItem after its await: the item has its fate, and the runner goes on or the
\* single message's campaign ends.
LEMMA SettleKeeps ==
    ASSUME IInv, NEW c \in Campaigns, Sending(c), NEW at \in {"sent", "failed"},
           NEW u \in Nat, NEW r \in Runner, NEW status \in {"completed", "failed"},
           Settle(c, [item EXCEPT ![send[c].item] = at], u, r, status),
           UNCHANGED <<up, connected, crashes, days>>, used' \in Nat, today' \in Nat
    PROVE  IInv'
<1> DEFINE i == send[c].item
           it == [item EXCEPT ![i] = at]
<1>1. TypeOK /\ item \in [Items -> ItemStatus] /\ Range(Queue[c]) \subseteq Items
  BY Types, QueueItems DEF IInv
<1>2. up /\ i \in Range(Queue[c]) /\ item[i] = "sending" /\ OnlyMarked(c, send[c], item)
  <2>1. up
    BY <1>1 DEF IInv, RunnerTells, Sending, TypeOK
  <2>2. QED
    BY <2>1 DEF IInv, SendsAreMarked, MarkedAreSends, Marked, Sending
<1>3. /\ at \in ItemStatus \ {"sending", "none"} /\ it \in [Items -> ItemStatus]
      /\ \A j \in Items : j # i => it[j] = item[j]
      /\ it[i] = at
  BY <1>1, <1>2 DEF ItemStatus
<1>4. CASE c \in Bulks
  <2>1. active = c /\ campaign[c] = "running"
    BY <1>4, Kinds DEF IInv, RunnerTells, Sending
  <2>2. Proceed(c, it, u, [r EXCEPT !.fresh = FALSE], FALSE)
    BY <1>4, Kinds DEF Settle
  <2>3. [r EXCEPT !.fresh = FALSE] \in Runner
    BY DEF Runner
  <2>4. \A j \in Range(Queue[c]) : it[j] # "sending"
    BY <1>1, <1>2, <1>3 DEF OnlyMarked
  <2>5. \A j \in Items : j \notin Range(Queue[c]) => it[j] = item[j]
    BY <1>2, <1>3
  <2>6. /\ SendsAreMarked' /\ MarkedAreSends' /\ UnsavedIsEmpty' /\ StatusTellsWork'
        /\ RunnerTells'
        /\ item' \in [Items -> ItemStatus] /\ campaign' \in [Campaigns -> CampaignStatus]
        /\ send' \in [Campaigns -> Suspended] /\ runner' \in Runner
        /\ active' \in Bulks \cup {NoCampaign}
        /\ chat' \in Items \cup {NoItem} /\ typed' \in BOOLEAN /\ delivered' = delivered
    BY <1>2, <1>3, <1>4, <2>1, <2>2, <2>3, <2>4, <2>5, ProceedKeeps
  <2>7. delivered' \in [Items -> Nat]
    BY <1>1, <2>6 DEF TypeOK
  <2>8. QED
    BY <2>6, <2>7, TypesSuffice DEF IInv
<1>5. CASE c \in Singles
  <2>1. /\ item' = it /\ campaign' = [campaign EXCEPT ![c] = status]
        /\ send' = [send EXCEPT ![c] = Idle]
        /\ UNCHANGED <<active, runner, chat, typed, delivered>>
    BY <1>5, Kinds DEF Settle, window
  <2>2. /\ SendsAreMarked' /\ MarkedAreSends' /\ UnsavedIsEmpty' /\ StatusTellsWork'
        /\ RunnerTells'
        /\ campaign' \in [Campaigns -> CampaignStatus] /\ send' \in [Campaigns -> Suspended]
    <3>1. send[c].phase # "none" /\ item'[i] # "sending"
      BY <1>3, <2>1 DEF Sending
    <3>2. QED
      BY <1>2, <1>3, <1>5, <2>1, <3>1, SingleEnds
  <2>3. TypeOK'
    BY <1>1, <1>3, <2>1, <2>2 DEF TypeOK, Suspended
  <2>4. QED
    BY <2>2, <2>3 DEF IInv
<1>6. QED
  BY <1>4, <1>5, Kinds

LEMMA SendEndsKeeps ==
    ASSUME IInv, NEW c \in Campaigns, SendEnds(c)
    PROVE  IInv'
<1>1. runner \in Runner /\ used \in Nat /\ today \in Nat
  BY Types DEF IInv, TypeOK
<1>2. CASE VerifyOk(c)
  <2>1. /\ Sending(c) /\ used' = used + 1 /\ today' = today + 1
        /\ Settle(c, [item EXCEPT ![send[c].item] = "sent"], used',
                  [runner EXCEPT !.failures = 0], "completed")
        /\ UNCHANGED <<up, connected, crashes, days>>
    BY <1>2 DEF VerifyOk, Sending, Counted, Recorded, limits
  <2>2. [runner EXCEPT !.failures = 0] \in Runner /\ used' \in Nat /\ today' \in Nat
    BY <1>1, <2>1 DEF Runner
  <2>3. QED
    BY <2>1, <2>2, SettleKeeps
<1>3. CASE \E counts \in BOOLEAN : SendFails(c, counts)
  <2>1. PICK counts \in BOOLEAN : SendFails(c, counts)
    BY <1>3
  <2> DEFINE r == [runner EXCEPT !.failures = IF counts THEN @ + 1 ELSE 0]
  <2>2. /\ Sending(c) /\ Settle(c, [item EXCEPT ![send[c].item] = "failed"], used, r, "failed")
        /\ UNCHANGED <<used, up, connected, today, crashes, days>>
    BY <2>1 DEF SendFails, limits
  <2>3. r \in Runner
    BY <1>1 DEF Runner
  <2>4. QED
    BY <1>1, <2>2, <2>3, SettleKeeps
<1>4. QED
  BY <1>2, <1>3 DEF SendEnds

\* The session, the calendar, and nothing at all leave items and campaigns.
LEMMA RestKeeps ==
    ASSUME IInv, Connection \/ Midnight \/ UNCHANGED vars
    PROVE  IInv'
<1>1. UNCHANGED <<item, campaign, up, active, runner, send, chat, typed, delivered, crashes>>
  BY DEF Connection, Midnight, vars, db, window, limits
<1>2. SendsAreMarked' /\ MarkedAreSends' /\ UnsavedIsEmpty' /\ StatusTellsWork' /\ RunnerTells'
  <2>1. SendsAreMarked' /\ MarkedAreSends' /\ UnsavedIsEmpty'
    BY <1>1 DEF IInv, SendsAreMarked, MarkedAreSends, UnsavedIsEmpty
  <2>2. StatusTellsWork'
    BY <1>1 DEF IInv, StatusTellsWork, FinishedIsDrained, PausedHasWork
  <2>3. RunnerTells'
    BY <1>1 DEF IInv, RunnerTells
  <2>4. QED
    BY <2>1, <2>2, <2>3
<1>3. connected' \in BOOLEAN /\ days' \in 0..MaxDays /\ used' \in Nat /\ today' \in Nat
  <2>1. connected \in BOOLEAN /\ days \in 0..MaxDays /\ used \in Nat /\ today \in Nat
    BY DEF IInv, TypeOK
  <2>2. CASE Connection
    BY <2>1, <2>2 DEF Connection, db, limits
  <2>3. CASE Midnight
    BY <2>1, <2>3, LimitsNatural DEF Midnight
  <2>4. CASE UNCHANGED vars
    BY <2>1, <2>4 DEF vars, db, limits
  <2>5. QED
    BY <2>2, <2>3, <2>4
<1>4. TypeOK'
  BY <1>1, <1>3 DEF IInv, TypeOK
<1>5. QED
  BY <1>2, <1>4 DEF IInv

\* A stop of the process, whatever it interrupts: at most the item of one send is recorded
\* before.
LEMMA CrashKeeps ==
    ASSUME IInv, Crash \/ \E c \in Campaigns : CrashBeforeCount(c)
    PROVE  IInv'
<1>1. /\ up /\ ~up' /\ active' = NoCampaign /\ runner' = Fresh
      /\ crashes < MaxCrashes /\ crashes' = crashes + 1 /\ connected' = FALSE
      /\ send' = [c \in Campaigns |-> Idle] /\ chat' = NoItem /\ typed' = FALSE
      /\ UNCHANGED <<campaign, used, delivered, days>>
  BY DEF Crash, CrashBeforeCount, Down, TypeOK
<1>2. TypeOK /\ item \in [Items -> ItemStatus] /\ campaign \in [Campaigns -> CampaignStatus]
  BY Types DEF IInv
<1>3. /\ item' \in [Items -> ItemStatus] /\ today' \in Nat
      /\ \A j \in Items : item'[j] # item[j] => item[j] = "sending" /\ item'[j] = "sent"
  <2>1. CASE Crash
    BY <1>2, <2>1 DEF Crash, TypeOK
  <2>2. CASE \E c \in Campaigns : CrashBeforeCount(c)
    <3>1. PICK c \in Campaigns : CrashBeforeCount(c)
      BY <2>2
    <3>2. /\ Sending(c) /\ item' = [item EXCEPT ![send[c].item] = "sent"] /\ today' = today + 1
      BY <3>1 DEF CrashBeforeCount, Recorded, Sending
    <3>3. item[send[c].item] = "sending"
      BY <3>2 DEF IInv, SendsAreMarked, Marked, Sending
    <3>4. /\ item' \in [Items -> ItemStatus]
          /\ \A j \in Items : item'[j] # item[j] => item[j] = "sending" /\ item'[j] = "sent"
      BY <1>2, <3>2, <3>3 DEF ItemStatus
    <3>5. today' \in Nat
      BY <1>2, <3>2 DEF TypeOK
    <3>6. QED
      BY <3>4, <3>5
  <2>3. QED
    BY <2>1, <2>2
<1>4. \A c \in Campaigns : send'[c] = Idle
  BY <1>1
<1>5. SendsAreMarked' /\ MarkedAreSends' /\ RunnerTells'
  BY <1>1, <1>4, IdleIsSuspended, Kinds DEF SendsAreMarked, MarkedAreSends, RunnerTells, Marked
<1>6. UnsavedIsEmpty' /\ StatusTellsWork'
  <2>1. \A c \in Campaigns : \A j \in Range(Queue[c]) :
            item'[j] # item[j] => item[j] = "sending" /\ item'[j] = "sent"
    BY <1>3, QueueItems
  <2>2. UnsavedIsEmpty'
    BY <1>1, <2>1 DEF IInv, UnsavedIsEmpty
  <2>3. FinishedIsDrained'
    BY <1>1, <2>1, Kinds DEF IInv, StatusTellsWork, FinishedIsDrained
  <2>4. PausedHasWork'
    <3>1. SUFFICES ASSUME NEW c \in Bulks, campaign[c] = "paused"
                   PROVE  NextPending(c, item') # NoItem
      BY <1>1 DEF PausedHasWork
    <3>2. \E j \in Range(Queue[c]) : item[j] = "pending"
      BY <3>1, Kinds, NextPendingWaits DEF IInv, StatusTellsWork, PausedHasWork
    <3>3. QED
      BY <2>1, <3>2, Kinds, NextPendingWaits
  <2>5. QED
    BY <2>2, <2>3, <2>4 DEF StatusTellsWork
<1>7. TypeOK'
  <2>1. crashes' \in 0..MaxCrashes
    BY <1>1, <1>2, LimitsNatural DEF TypeOK
  <2>2. send' \in [Campaigns -> Suspended] /\ runner' \in Runner
    BY <1>1, IdleIsSuspended
  <2>3. up' \in BOOLEAN
    BY <1>1 DEF Crash, CrashBeforeCount, Down
  <2>4. QED
    BY <1>1, <1>2, <1>3, <2>1, <2>2, <2>3 DEF TypeOK, Suspended, Runner
<1>8. QED
  BY <1>5, <1>6, <1>7 DEF IInv

LEMMA RestartKeeps == IInv /\ Restart => IInv'
<1>1. SUFFICES ASSUME IInv, Restart PROVE IInv'
  OBVIOUS
<1>2. /\ ~up /\ up' = TRUE /\ item' = Reconciled
      /\ UNCHANGED <<campaign, used, active, runner, send, connected, chat, typed, delivered,
                     today, crashes, days>>
  BY <1>1 DEF Restart, window, limits
<1>3. TypeOK /\ item \in [Items -> ItemStatus]
  BY <1>1, Types DEF IInv
<1>4. /\ item' \in [Items -> ItemStatus]
      /\ \A j \in Items : /\ item'[j] # "sending"
                          /\ item'[j] # item[j] => item[j] = "sending" /\ item'[j] = "unknown"
  BY <1>2, <1>3 DEF Reconciled, ItemStatus
<1>5. \A c \in Campaigns : \A j \in Range(Queue[c]) :
          /\ item'[j] # "sending"
          /\ item'[j] # item[j] => item[j] = "sending" /\ item'[j] = "unknown"
  BY <1>4, QueueItems
<1>6. active = NoCampaign /\ \A c \in Campaigns : send[c].phase = "none"
  BY <1>1, <1>2 DEF IInv, RunnerTells
<1>7. SendsAreMarked' /\ MarkedAreSends' /\ RunnerTells' /\ UnsavedIsEmpty'
  <2>1. SendsAreMarked'
    BY <1>2, <1>6 DEF SendsAreMarked, Marked
  <2>2. MarkedAreSends'
    BY <1>5 DEF MarkedAreSends, OnlyMarked
  <2>3. RunnerTells'
    BY <1>2, <1>6, Kinds DEF RunnerTells
  <2>4. UnsavedIsEmpty'
    BY <1>1, <1>2, <1>5 DEF IInv, UnsavedIsEmpty
  <2>5. QED
    BY <2>1, <2>2, <2>3, <2>4
<1>8. StatusTellsWork'
  <2>1. FinishedIsDrained'
    BY <1>1, <1>2, <1>5, Kinds DEF IInv, StatusTellsWork, FinishedIsDrained
  <2>2. PausedHasWork'
    <3>1. SUFFICES ASSUME NEW c \in Bulks, campaign[c] = "paused"
                   PROVE  NextPending(c, item') # NoItem
      BY <1>2 DEF PausedHasWork
    <3>2. \E j \in Range(Queue[c]) : item[j] = "pending"
      BY <1>1, <3>1, Kinds, NextPendingWaits DEF IInv, StatusTellsWork, PausedHasWork
    <3>3. QED
      BY <1>5, <3>2, Kinds, NextPendingWaits
  <2>3. QED
    BY <2>1, <2>2 DEF StatusTellsWork
<1>9. TypeOK'
  BY <1>2, <1>3, <1>4 DEF TypeOK
<1>10. QED
  BY <1>7, <1>8, <1>9 DEF IInv

LEMMA InvariantKept == IInv /\ [Next]_vars => IInv'
<1>1. SUFFICES ASSUME IInv, [Next]_vars PROVE IInv'
  OBVIOUS
<1>2. CASE RunnerStep
  BY <1>1, <1>2, CreateKeeps, StartKeeps, RequestKeeps, EndWaitKeeps DEF RunnerStep
<1>3. CASE \E c \in Singles : SingleStep(c)
  BY <1>1, <1>3, SendOneKeeps, NotReadyKeeps, ReadyKeeps DEF SingleStep
<1>4. CASE \E c \in Campaigns : SendStep(c)
  BY <1>1, <1>4, SubmitKeeps, SendEndsKeeps DEF SendStep
<1>5. CASE World \/ UNCHANGED vars
  BY <1>1, <1>5, RestKeeps, CrashKeeps, RestartKeeps DEF World
<1>6. QED
  BY <1>1, <1>2, <1>3, <1>4, <1>5 DEF Next

\* The types, the marks of what is being sent, and what a status tells hold in every state
\* the engine reaches, with overlapping sends, crashes and midnights (CampaignRunner,
\* runnerHost, sendMessage, campaigns:sendOne).
THEOREM EngineHolds == Spec => []IInv
<1>1. Init => IInv
  BY InvariantStarts
<1>2. IInv /\ [Next]_vars => IInv'
  BY InvariantKept
<1>3. QED
  BY <1>1, <1>2, PTL DEF Spec

\* How a run ended tells what is left of it (runnerDecision: W-43, W-47).
THEOREM StatusAlwaysTells == Spec => []StatusTellsWork
<1>1. IInv => StatusTellsWork
  BY DEF IInv
<1>2. QED
  BY <1>1, EngineHolds, PTL

-----------------------------------------------------------------------------
(* One send at a time: the cap.                                            *)

LEMMA SenderIsAlone ==
    ASSUME IInv, OneSender, NEW c \in Campaigns, send[c].phase # "none" \/ active = c
    PROVE  active \in {NoCampaign, c}
           /\ \A d \in Campaigns : d # c => send[d].phase = "none"
<1>1. active \in Bulks \cup {NoCampaign}
  BY Types DEF IInv
<1>2. QED
  BY <1>1, Kinds DEF OneSender

LEMMA Alone ==
    ASSUME IInv, NEW c \in Campaigns, NEW s \in Suspended,
           \A d \in Campaigns : d # c => send[d].phase = "none",
           send' = [send EXCEPT ![c] = s], active' \in {NoCampaign, c},
           s.phase \in {"probing", "verifying"} => used' < Cap,
           used' <= Cap, today' <= used' + crashes'
    PROVE  OneSender'
<1>1. send \in [Campaigns -> Suspended]
  BY Types DEF IInv
<1>2. send'[c] = s /\ \A d \in Campaigns : d # c => send'[d].phase = "none"
  BY <1>1
<1>3. QED
  BY <1>2, CampaignsApart DEF OneSender, Sending

\* The loop only takes an item below the cap, and only into the campaign it runs for.
LEMMA ProceedBelowCap ==
    ASSUME IInv, NEW c \in Bulks, NEW it, NEW u \in Nat, NEW r, NEW waited,
           active' \in Bulks \cup {NoCampaign}, Proceed(c, it, u, r, waited),
           send' \in [Campaigns -> Suspended]
    PROVE  /\ active' \in {NoCampaign, c}
           /\ \E s \in Suspended : /\ send' = [send EXCEPT ![c] = s]
                                   /\ s.phase \in {"probing", "verifying"} => u < Cap
<1>1. c \in Campaigns /\ send \in [Campaigns -> Suspended] /\ Cap \in Nat
  BY Kinds, Types, LimitsNatural DEF IInv
<1>2. ASSUME NEW st, End(c, st)
      PROVE  active' = NoCampaign /\ send' = [send EXCEPT ![c] = Idle]
  BY <1>2 DEF End
<1>3. CASE Cancels(c, it, r) \/ Completes(c, it, u, r) \/ Pauses(c, it, u, r)
  BY <1>2, <1>3, IdleIsSuspended DEF Cancels, Completes, Pauses
<1>4. CASE Continues(c, it, u, r, waited)
  <2>1. u < Cap /\ active' = c
    BY <1>1, <1>4 DEF Continues, StopsHere, Stops
  <2>2. \E s : send' = [send EXCEPT ![c] = s]
    BY <1>4 DEF Continues, Begin
  <2>3. PICK s : send' = [send EXCEPT ![c] = s]
    BY <2>2
  <2>4. s \in Suspended
    <3>1. send'[c] = s
      BY <1>1, <2>3
    <3>2. QED
      BY <1>1, <3>1
  <2>5. QED
    BY <2>1, <2>3, <2>4
<1>5. QED
  BY <1>3, <1>4 DEF Proceed

LEMMA OneSenderStarts == Init => OneSender
<1>1. SUFFICES ASSUME Init PROVE OneSender
  OBVIOUS
<1>2. /\ \A c \in Campaigns : send[c].phase = "none"
      /\ used = 0 /\ today = 0 /\ crashes = 0
  BY <1>1 DEF Init, Idle
<1>3. QED
  BY <1>2, LimitsNatural DEF OneSender, Sending

LEMMA RunnerStepOneSender ==
    ASSUME ~Overlap, IInv, OneSender, IInv', RunnerStep
    PROVE  OneSender'
<1>1. /\ active' \in Bulks \cup {NoCampaign} /\ send' \in [Campaigns -> Suspended]
      /\ used \in Nat /\ active \in Bulks \cup {NoCampaign}
  BY Types DEF IInv, TypeOK, Suspended
<1>2. CASE /\ UNCHANGED <<used, active, send, today, crashes>>
  BY <1>2 DEF OneSender, Sending
<1>3. ASSUME NEW c \in Bulks, StartCampaign(c) PROVE OneSender'
  <2>1. /\ Quiet /\ Proceed(c, item, used, Fresh, FALSE) /\ UNCHANGED <<used, today, crashes>>
    BY <1>3 DEF StartCampaign, limits
  <2>2. c \in Campaigns /\ \A d \in Campaigns : send[d].phase = "none"
    BY <2>1, Kinds DEF Quiet
  <2>3. active' \in {NoCampaign, c}
        /\ \E s \in Suspended : /\ send' = [send EXCEPT ![c] = s]
                                /\ s.phase \in {"probing", "verifying"} => used < Cap
    BY <1>1, <2>1, ProceedBelowCap
  <2>4. QED
    BY <2>1, <2>2, <2>3, Alone DEF OneSender
<1>4. ASSUME EndWait PROVE OneSender'
  <2>1. /\ active # NoCampaign
        /\ Proceed(active, item, used, [runner EXCEPT !.waiting = FALSE], WaitOver(runner))
        /\ UNCHANGED <<used, today, crashes>>
    BY <1>4 DEF EndWait, limits
  <2>2. active \in Bulks /\ active \in Campaigns
    BY <1>1, <2>1, Kinds
  <2>3. \A d \in Campaigns : d # active => send[d].phase = "none"
    BY <2>2, SenderIsAlone
  <2>4. active' \in {NoCampaign, active}
        /\ \E s \in Suspended : /\ send' = [send EXCEPT ![active] = s]
                                /\ s.phase \in {"probing", "verifying"} => used < Cap
    BY <1>1, <2>1, <2>2, ProceedBelowCap
  <2>5. QED
    BY <2>1, <2>2, <2>3, <2>4, Alone DEF OneSender
<1>5. QED
  BY <1>2, <1>3, <1>4 DEF RunnerStep, CreateCampaign, Request, db, limits

LEMMA SingleStepOneSender ==
    ASSUME ~Overlap, IInv, OneSender, IInv', NEW c \in Singles, SingleStep(c)
    PROVE  OneSender'
<1>1. c \in Campaigns /\ used \in Nat /\ Cap \in Nat /\ send \in [Campaigns -> Suspended]
      /\ send' \in [Campaigns -> Suspended]
  <2>1. send' \in [Campaigns -> Suspended]
    BY DEF IInv, TypeOK, Suspended
  <2>2. QED
    BY <2>1, Kinds, Types, LimitsNatural DEF IInv
<1>2. UNCHANGED <<used, active, today, crashes>>
  BY DEF SingleStep, SendOne, SingleNotReady, SingleRefused, SingleReady, limits
<1>3. active \in {NoCampaign, c} /\ \A d \in Campaigns : d # c => send[d].phase = "none"
  <2>1. CASE send[c].phase # "none"
    BY <1>1, <2>1, SenderIsAlone
  <2>2. CASE \E valid \in SUBSET Range(Queue[c]) : SendOne(c, valid)
    BY <2>2 DEF SendOne, Quiet
  <2>3. QED
    BY <2>1, <2>2 DEF SingleStep, SingleNotReady, SingleRefused, SingleReady
<1>4. \E s : /\ send' = [send EXCEPT ![c] = s]
             /\ s.phase \in {"probing", "verifying"} => used < Cap
  <2>1. CASE \E valid \in SUBSET Range(Queue[c]) : SendOne(c, valid)
    <3>1. PICK valid \in SUBSET Range(Queue[c]) : SendOne(c, valid)
      BY <2>1
    <3>2. CASE Queue[c][1] \in valid
      <4> DEFINE s == [phase |-> "connecting", item |-> Queue[c][1], clicked |-> FALSE]
      <4>1. send' = [send EXCEPT ![c] = s]
        BY <3>1, <3>2 DEF SendOne
      <4>2. s.phase = "connecting"
        OBVIOUS
      <4> HIDE DEF s
      <4>3. QED
        BY <4>1, <4>2
    <3>3. CASE Queue[c][1] \notin valid
      <4>1. send' = [send EXCEPT ![c] = send[c]]
        BY <1>1, <3>1, <3>3 DEF SendOne
      <4>2. send[c].phase = "none"
        BY <1>1, <3>1 DEF SendOne, Quiet
      <4>3. QED
        BY <4>1, <4>2
    <3>4. QED
      BY <3>2, <3>3
  <2>2. CASE SingleNotReady(c) \/ SingleRefused(c)
    BY <2>2, IdleIsSuspended DEF SingleNotReady, SingleRefused
  <2>3. CASE SingleReady(c)
    <3>1. used < Cap
      BY <1>1, <2>3 DEF SingleReady, CapReached
    <3>2. QED
      BY <2>3, <3>1 DEF SingleReady, Begin
  <2>4. QED
    BY <2>1, <2>2, <2>3 DEF SingleStep
<1>5. PICK s : /\ send' = [send EXCEPT ![c] = s]
               /\ s.phase \in {"probing", "verifying"} => used < Cap
  BY <1>4
<1>6. s \in Suspended
  <2>1. send'[c] = s
    BY <1>1, <1>5
  <2>2. QED
    BY <1>1, <2>1
<1>7. QED
  BY <1>1, <1>2, <1>3, <1>5, <1>6, Alone DEF OneSender

LEMMA SendStepOneSender ==
    ASSUME IInv, OneSender, IInv', NEW c \in Campaigns, SendStep(c)
    PROVE  OneSender'
<1>1. /\ used \in Nat /\ Cap \in Nat \ {0} /\ send \in [Campaigns -> Suspended]
      /\ today \in Nat /\ crashes \in Nat /\ active \in Bulks \cup {NoCampaign}
  BY Types, LimitsNatural DEF IInv, TypeOK
<1>2. send' \in [Campaigns -> Suspended] /\ active' \in Bulks \cup {NoCampaign}
      /\ used' \in Nat
  BY DEF IInv, TypeOK, Suspended
<1>3. Sending(c) /\ UNCHANGED crashes
  BY DEF SendStep, PressEnter, ClickSend, SendEnds, VerifyOk, SendFails, Sending, limits
<1>4. /\ active \in {NoCampaign, c} /\ \A d \in Campaigns : d # c => send[d].phase = "none"
      /\ used < Cap /\ today <= used + crashes
  <2>1. send[c].phase # "none"
    BY <1>3 DEF Sending
  <2>2. QED
    BY <1>3, <2>1, SenderIsAlone DEF OneSender
<1>5. CASE PressEnter(c) \/ ClickSend(c)
  <2>1. /\ UNCHANGED <<used, active, today, crashes>>
        /\ \E s : send' = [send EXCEPT ![c] = s]
    BY <1>5 DEF PressEnter, ClickSend, db, limits
  <2>2. PICK s : send' = [send EXCEPT ![c] = s]
    BY <2>1
  <2>3. s \in Suspended
    <3>1. send'[c] = s
      BY <1>1, <2>2
    <3>2. QED
      BY <1>2, <3>1
  <2>4. used' <= Cap /\ used' < Cap /\ today' <= used' + crashes'
    BY <1>1, <1>3, <1>4, <2>1
  <2>5. QED
    BY <1>4, <2>1, <2>2, <2>3, <2>4, Alone
<1>6. ASSUME NEW it, NEW r, NEW st, Settle(c, it, used', r, st),
             used' <= Cap, today' <= used' + crashes
      PROVE  OneSender'
  <2>1. /\ active' \in {NoCampaign, c}
        /\ \E s \in Suspended : /\ send' = [send EXCEPT ![c] = s]
                                /\ s.phase \in {"probing", "verifying"} => used' < Cap
    <3>1. CASE c \in Bulks
      <4>1. Proceed(c, it, used', [r EXCEPT !.fresh = FALSE], FALSE)
        BY <1>6, <3>1, Kinds DEF Settle
      <4>2. QED
        BY <1>2, <3>1, <4>1, ProceedBelowCap
    <3>2. CASE c \in Singles
      <4>1. active' = active /\ send' = [send EXCEPT ![c] = Idle]
        BY <1>6, <3>2, Kinds DEF Settle
      <4>2. QED
        BY <1>4, <4>1, IdleIsSuspended
    <3>3. QED
      BY <3>1, <3>2, Kinds
  <2>2. QED
    BY <1>3, <1>4, <1>6, <2>1, Alone
<1>7. CASE VerifyOk(c)
  <2>1. /\ used' = used + 1 /\ today' = today + 1
        /\ Settle(c, Recorded(c), used', [runner EXCEPT !.failures = 0], "completed")
    BY <1>7 DEF VerifyOk, Counted
  <2>2. used' <= Cap /\ today' <= used' + crashes
    BY <1>1, <1>4, <2>1
  <2>3. QED
    BY <1>6, <2>1, <2>2
<1>8. ASSUME NEW counts \in BOOLEAN, SendFails(c, counts) PROVE OneSender'
  <2>1. /\ UNCHANGED <<used, today>>
        /\ Settle(c, [item EXCEPT ![send[c].item] = "failed"], used',
                  [runner EXCEPT !.failures = IF counts THEN @ + 1 ELSE 0], "failed")
    BY <1>8 DEF SendFails
  <2>2. used' <= Cap /\ today' <= used' + crashes
    BY <1>1, <1>4, <2>1
  <2>3. QED
    BY <1>6, <2>1, <2>2
<1>9. QED
  BY <1>5, <1>7, <1>8 DEF SendStep, SendEnds

LEMMA WorldOneSender ==
    ASSUME IInv, OneSender, World
    PROVE  OneSender'
<1>1. /\ used \in Nat /\ Cap \in Nat \ {0} /\ today \in Nat /\ crashes \in Nat
  BY Types, LimitsNatural DEF IInv, TypeOK
<1>2. CASE Connection \/ Restart
  BY <1>2 DEF Connection, Restart, db, limits, OneSender, Sending
<1>3. CASE Midnight
  <2>1. used' = 0 /\ today' = 0 /\ UNCHANGED <<active, send, crashes>>
    BY <1>3 DEF Midnight
  <2>2. QED
    BY <1>1, <2>1 DEF OneSender, Sending
<1>4. CASE Crash \/ \E c \in Campaigns : CrashBeforeCount(c)
  <2>1. /\ today' \in {today, today + 1} /\ crashes' = crashes + 1 /\ used' = used
        /\ send' = [c \in Campaigns |-> Idle]
    BY <1>4 DEF Crash, CrashBeforeCount, Down
  <2>2. \A c \in Campaigns : send'[c].phase = "none"
    BY <2>1, IdleIsSuspended
  <2>3. used' <= Cap /\ today' <= used' + crashes'
    BY <1>1, <2>1 DEF OneSender
  <2>4. QED
    BY <2>2, <2>3 DEF OneSender, Sending
<1>5. QED
  BY <1>2, <1>3, <1>4 DEF World

LEMMA OneSenderKept == ~Overlap /\ IInv /\ OneSender /\ IInv' /\ [Next]_vars => OneSender'
<1>1. SUFFICES ASSUME ~Overlap, IInv, OneSender, IInv', [Next]_vars PROVE OneSender'
  OBVIOUS
<1>2. CASE UNCHANGED vars
  BY <1>1, <1>2 DEF vars, db, limits, OneSender, Sending
<1>3. CASE \E c \in Campaigns : SendStep(c)
  BY <1>1, <1>3, SendStepOneSender
<1>4. CASE \E c \in Singles : SingleStep(c)
  BY <1>1, <1>4, SingleStepOneSender
<1>5. QED
  BY <1>1, <1>2, <1>3, <1>4, RunnerStepOneSender, WorldOneSender DEF Next

\* With one send at a time a day has no more sends than the cap allows, but for those the
\* crashes kept from being counted (WB-07; runnerDecision, recordSent, campaigns:sendOne).
THEOREM CapAlwaysKept == ASSUME ~Overlap PROVE Spec => []CapKept
<1>1. Init => IInv /\ OneSender
  BY InvariantStarts, OneSenderStarts
<1>2. IInv /\ OneSender /\ [Next]_vars => (IInv /\ OneSender)'
  BY InvariantKept, OneSenderKept
<1>3. IInv /\ OneSender => CapKept
  <2>1. SUFFICES ASSUME IInv, OneSender PROVE CapKept
    OBVIOUS
  <2>2. used \in Nat /\ Cap \in Nat /\ today \in Nat /\ crashes \in Nat
    BY <2>1, LimitsNatural DEF IInv, TypeOK
  <2>3. used <= Cap /\ today <= used + crashes
    BY <2>1 DEF OneSender
  <2>4. QED
    BY <2>2, <2>3 DEF CapKept
<1>4. QED
  BY <1>1, <1>2, <1>3, PTL DEF Spec

-----------------------------------------------------------------------------
(* The engine implements Outbox.                                           *)

\* Two messages of the same text are never to the same number.
DistinctMessages == \A i, j \in Items : Phone[i] = Phone[j] /\ Text[i] = Text[j] => i = j

\* An item goes on without its message leaving.
LEMMA Moved ==
    ASSUME NEW i \in Items, delivered'[i] = delivered[i],
           \/ item'[i] = item[i]
           \/ item[i] = "none" /\ item'[i] \in {"pending", "skipped"}
           \/ item[i] = "pending" /\ item'[i] \in {"sending", "failed"}
           \/ item[i] = "sending" /\ item'[i] \in {"failed", "unknown"}
           \/ item[i] = "sending" /\ item'[i] = "sent" /\ delivered[i] = 1
    PROVE  MessageOnce!Step(i)
  BY DEF MessageOnce!Step, MessageOnce!Rest, MessageOnce!Prepare, MessageOnce!Take,
         MessageOnce!Confirm, MessageOnce!GiveUp, MessageOnce!Doubt, MessageOnce!Moves

\* Outbox itself keeps what is known of the messages that left.
LEMMA OutboxKeepsDelivered ==
    ASSUME MessageOnce!Next, WindowIsSenders
    PROVE  \A i \in Items : /\ delivered'[i] \in {0, 1}
                            /\ item'[i] \in {"none", "pending"} => delivered'[i] = 0
<1>1. SUFFICES ASSUME NEW i \in Items
               PROVE  /\ delivered'[i] \in {0, 1}
                      /\ item'[i] \in {"none", "pending"} => delivered'[i] = 0
  OBVIOUS
<1>2. MessageOnce!Step(i) /\ delivered[i] \in {0, 1}
      /\ (item[i] \in {"none", "pending"} => delivered[i] = 0)
  BY DEF MessageOnce!Next, WindowIsSenders
<1>3. QED
  BY <1>2 DEF MessageOnce!Step, MessageOnce!Leave, MessageOnce!Rest, MessageOnce!Prepare,
              MessageOnce!Take, MessageOnce!Confirm, MessageOnce!GiveUp, MessageOnce!Doubt,
              MessageOnce!Moves

\* No step but a begin touches the chat, and none types.
LEMMA WindowUndisturbed ==
    ASSUME MessageOnce!Next, WindowIsSenders, UNCHANGED <<chat, typed, delivered>>,
           \A c \in Campaigns : Sending(c)' => Sending(c) /\ send'[c].item = send[c].item
    PROVE  WindowIsSenders'
  BY OutboxKeepsDelivered DEF WindowIsSenders

\* A step of the one sender.
LEMMA WindowOfOne ==
    ASSUME MessageOnce!Next, WindowIsSenders, NEW c \in Campaigns,
           \A d \in Campaigns : d # c => send'[d].phase = "none",
           Sending(c)' => chat' = send'[c].item /\ (typed' => delivered'[chat'] = 0)
    PROVE  WindowIsSenders'
<1>1. \A d \in Campaigns : Sending(d)' => chat' = send'[d].item
                                          /\ (typed' => delivered'[chat'] = 0)
  BY DEF Sending
<1>2. QED
  BY <1>1, OutboxKeepsDelivered DEF WindowIsSenders

\* The loop takes its next item, leaves it, or gives up those that wait.
LEMMA ProceedMoves ==
    ASSUME NEW c \in Bulks, NEW it \in [Items -> ItemStatus], NEW u, NEW r, NEW waited,
           send \in [Campaigns -> Suspended], Proceed(c, it, u, r, waited)
    PROVE  /\ delivered' = delivered
           /\ \A j \in Items : \/ item'[j] = it[j]
                               \/ it[j] = "pending" /\ item'[j] \in {"sending", "failed"}
           /\ \A d \in Campaigns : d # c => send'[d] = send[d]
           /\ Sending(c)' => /\ chat' = send'[c].item
                             /\ chat' \in Items /\ it[chat'] = "pending"
<1>1. c \in Campaigns
  BY Kinds
<1>2. ASSUME NEW st, End(c, st)
      PROVE  /\ delivered' = delivered
             /\ \A d \in Campaigns : d # c => send'[d] = send[d]
             /\ ~Sending(c)'
  BY <1>1, <1>2, IdleIsSuspended DEF End, window, Sending
<1>3. CASE Cancels(c, it, r)
  BY <1>2, <1>3 DEF Cancels, Cancelled
<1>4. CASE Completes(c, it, u, r) \/ Pauses(c, it, u, r)
  BY <1>2, <1>4 DEF Completes, Pauses
<1>5. CASE Continues(c, it, u, r, waited)
  <2> DEFINE i == NextPending(c, it)
  <2>1. i \in Range(Queue[c]) /\ it[i] = "pending"
    BY <1>1, <1>5, NextPendingWaits DEF Continues
  <2>2. i \in Items
    BY <1>1, <2>1, QueueItems
  <2>3. CASE Begin(c, i, it)
    <3>1. /\ item' = [it EXCEPT ![i] = "sending"] /\ delivered' = delivered /\ chat' = i
          /\ send' = [send EXCEPT ![c] = [phase |-> "probing", item |-> i, clicked |-> FALSE]]
      BY <2>3 DEF Begin
    <3>2. send'[c].item = i /\ \A d \in Campaigns : d # c => send'[d] = send[d]
      BY <1>1, <3>1
    <3>3. \A j \in Items : item'[j] = IF j = i THEN "sending" ELSE it[j]
      BY <2>2, <3>1
    <3>4. QED
      BY <2>1, <2>2, <3>1, <3>2, <3>3
  <2>4. CASE /\ item' = it /\ send' = [send EXCEPT ![c] = Idle] /\ UNCHANGED window
    BY <1>1, <2>4, IdleIsSuspended DEF window, Sending
  <2>5. QED
    BY <1>5, <2>3, <2>4 DEF Continues
<1>6. QED
  BY <1>3, <1>4, <1>5 DEF Proceed

Implements == MessageOnce!Next /\ WindowIsSenders'

\* What one item's change lets Outbox do, with the loop going on behind it.
LEMMA ProceedImplements ==
    ASSUME IInv, OneSender, WindowIsSenders, NEW c \in Bulks,
           \A d \in Campaigns : d # c => send[d].phase = "none",
           NEW u, NEW r, NEW waited, Proceed(c, item, u, r, waited)
    PROVE  Implements
<1>1. item \in [Items -> ItemStatus] /\ send \in [Campaigns -> Suspended] /\ c \in Campaigns
  BY Types, Kinds DEF IInv
<1>2. /\ delivered' = delivered
      /\ \A j \in Items : \/ item'[j] = item[j]
                          \/ item[j] = "pending" /\ item'[j] \in {"sending", "failed"}
      /\ \A d \in Campaigns : d # c => send'[d] = send[d]
      /\ Sending(c)' => /\ chat' = send'[c].item
                        /\ chat' \in Items /\ item[chat'] = "pending"
  BY <1>1, ProceedMoves
<1>3. MessageOnce!Next
  BY <1>2, Moved DEF MessageOnce!Next
<1>4. Sending(c)' => chat' = send'[c].item /\ delivered'[chat'] = 0
  BY <1>2 DEF WindowIsSenders
<1>5. QED
  BY <1>1, <1>2, <1>3, <1>4, WindowOfOne DEF Implements

LEMMA RunnerStepImplements ==
    ASSUME ~Overlap, IInv, OneSender, WindowIsSenders, RunnerStep
    PROVE  Implements
<1>1. TypeOK /\ active \in Bulks \cup {NoCampaign}
  BY Types DEF IInv
<1>2. ASSUME NEW c \in Bulks, NEW valid \in SUBSET Range(Queue[c]), CreateCampaign(c, valid)
      PROVE  Implements
  <2>1. /\ campaign[c] = "none" /\ item' = Saved(c, valid)
        /\ UNCHANGED <<send, chat, typed, delivered>> /\ c \in Campaigns
    BY <1>2, Kinds DEF CreateCampaign, window
  <2>2. \A i \in Range(Queue[c]) : item[i] = "none"
    BY <2>1 DEF IInv, UnsavedIsEmpty
  <2>3. \A i \in Items : \/ item'[i] = item[i]
                         \/ item[i] = "none" /\ item'[i] \in {"pending", "skipped"}
    BY <1>1, <2>1, <2>2, SavedItems
  <2>4. MessageOnce!Next
    BY <2>1, <2>3, Moved DEF MessageOnce!Next
  <2>5. QED
    BY <2>1, <2>4, WindowUndisturbed DEF Implements, Sending
<1>3. ASSUME NEW c \in Bulks, StartCampaign(c) PROVE Implements
  <2>1. Quiet /\ Proceed(c, item, used, Fresh, FALSE)
    BY <1>3 DEF StartCampaign
  <2>2. QED
    BY <2>1, ProceedImplements DEF Quiet
<1>4. ASSUME NEW what, Request(what) PROVE Implements
  <2>1. UNCHANGED <<item, send, chat, typed, delivered>>
    BY <1>4 DEF Request, db, window
  <2>2. MessageOnce!Next
    BY <2>1, Moved DEF MessageOnce!Next
  <2>3. QED
    BY <2>1, <2>2, WindowUndisturbed DEF Implements, Sending
<1>5. CASE EndWait
  <2>1. /\ active # NoCampaign
        /\ Proceed(active, item, used, [runner EXCEPT !.waiting = FALSE], WaitOver(runner))
    BY <1>5 DEF EndWait
  <2>2. active \in Bulks /\ active \in Campaigns
    BY <1>1, <2>1, Kinds
  <2>3. \A d \in Campaigns : d # active => send[d].phase = "none"
    BY <2>2, SenderIsAlone
  <2>4. QED
    BY <2>1, <2>2, <2>3, ProceedImplements
<1>6. QED
  BY <1>2, <1>3, <1>4, <1>5 DEF RunnerStep

LEMMA SingleStepImplements ==
    ASSUME ~Overlap, IInv, OneSender, WindowIsSenders, NEW c \in Singles, SingleStep(c)
    PROVE  Implements
<1>1. /\ TypeOK /\ c \in Campaigns /\ send \in [Campaigns -> Suspended]
      /\ item \in [Items -> ItemStatus] /\ Range(Queue[c]) \subseteq Items
  BY Types, Kinds, QueueItems DEF IInv
<1>2. ASSUME NEW valid, SendOne(c, valid) PROVE Implements
  <2>1. /\ campaign[c] = "none" /\ item' = Saved(c, valid)
        /\ \A d \in Campaigns : send[d].phase = "none"
        /\ UNCHANGED <<chat, typed, delivered>>
    BY <1>2 DEF SendOne, Quiet, window
  <2>2. \A i \in Range(Queue[c]) : item[i] = "none"
    BY <1>1, <2>1 DEF IInv, UnsavedIsEmpty
  <2>3. \A i \in Items : \/ item'[i] = item[i]
                         \/ item[i] = "none" /\ item'[i] \in {"pending", "skipped"}
    BY <1>1, <2>1, <2>2, SavedItems
  <2>4. MessageOnce!Next
    BY <2>1, <2>3, Moved DEF MessageOnce!Next
  <2>5. /\ \A d \in Campaigns : d # c => send'[d] = send[d]
        /\ send'[c].phase \in {"none", "connecting"}
    <3>1. CASE Queue[c][1] \in valid
      BY <1>1, <1>2, <3>1 DEF SendOne
    <3>2. CASE Queue[c][1] \notin valid
      BY <1>1, <1>2, <2>1, <3>2 DEF SendOne
    <3>3. QED
      BY <3>1, <3>2
  <2>6. QED
    BY <1>1, <2>1, <2>4, <2>5, WindowOfOne DEF Implements, Sending
<1>3. ASSUME send[c].phase = "connecting"
      PROVE  /\ send[c].item \in Items /\ item[send[c].item] = "pending"
             /\ \A d \in Campaigns : d # c => send[d].phase = "none"
  <2>1. send[c].item \in Range(Queue[c]) /\ item[send[c].item] = "pending"
    BY <1>1, <1>3 DEF IInv, SendsAreMarked, Marked
  <2>2. QED
    BY <1>1, <1>3, <2>1, SenderIsAlone
<1>4. CASE SingleNotReady(c) \/ SingleRefused(c)
  <2>1. /\ send[c].phase = "connecting"
        /\ item' = item \/ item' = [item EXCEPT ![send[c].item] = "failed"]
        /\ send' = [send EXCEPT ![c] = Idle] /\ UNCHANGED <<chat, typed, delivered>>
    BY <1>4 DEF SingleNotReady, SingleRefused, window
  <2>2. \A i \in Items : item'[i] = item[i] \/ (item[i] = "pending" /\ item'[i] = "failed")
    BY <1>1, <1>3, <2>1
  <2>3. MessageOnce!Next
    BY <2>1, <2>2, Moved DEF MessageOnce!Next
  <2>4. \A d \in Campaigns : ~Sending(d)' \/ send'[d] = send[d]
    BY <1>1, <2>1, IdleIsSuspended DEF Sending
  <2>5. QED
    BY <2>1, <2>3, <2>4, WindowUndisturbed DEF Implements, Sending
<1>5. CASE SingleReady(c)
  <2> DEFINE i == send[c].item
  <2>1. /\ send[c].phase = "connecting" /\ item' = [item EXCEPT ![i] = "sending"]
        /\ send' = [send EXCEPT ![c] = [phase |-> "probing", item |-> i, clicked |-> FALSE]]
        /\ chat' = i /\ delivered' = delivered
    BY <1>5 DEF SingleReady, Begin
  <2>2. \A j \in Items : item'[j] = item[j] \/ (item[j] = "pending" /\ item'[j] = "sending")
    BY <1>1, <1>3, <2>1
  <2>3. MessageOnce!Next
    BY <2>1, <2>2, Moved DEF MessageOnce!Next
  <2>4. send'[c].item = i /\ \A d \in Campaigns : d # c => send'[d] = send[d]
    BY <1>1, <2>1
  <2>5. delivered'[chat'] = 0
    BY <1>3, <2>1 DEF WindowIsSenders
  <2>6. QED
    BY <1>1, <1>3, <2>1, <2>3, <2>4, <2>5, WindowOfOne DEF Implements
<1>6. QED
  BY <1>2, <1>4, <1>5 DEF SingleStep

\* What was typed leaves from the sender's own chat.
LEMMA SubmitImplements ==
    ASSUME IInv, OneSender, WindowIsSenders, NEW c \in Campaigns, PressEnter(c) \/ ClickSend(c)
    PROVE  Implements
<1> DEFINE i == send[c].item
<1>1. /\ Sending(c) /\ Submit /\ UNCHANGED <<item, chat>>
  BY DEF PressEnter, ClickSend, Sending, db
<1>2. /\ send \in [Campaigns -> Suspended] /\ Range(Queue[c]) \subseteq Items
      /\ delivered \in [Items -> Nat]
  BY Types, QueueItems DEF IInv, TypeOK
<1>3. /\ i \in Items /\ item[i] = "sending" /\ chat = i /\ (typed => delivered[i] = 0)
      /\ \A d \in Campaigns : d # c => send[d].phase = "none"
  <2>1. i \in Range(Queue[c]) /\ item[i] = "sending"
    BY <1>1 DEF IInv, SendsAreMarked, Marked, Sending
  <2>2. chat = i /\ (typed => delivered[i] = 0)
    BY <1>1 DEF WindowIsSenders
  <2>3. \A d \in Campaigns : d # c => send[d].phase = "none"
    BY <1>1, SenderIsAlone DEF Sending
  <2>4. QED
    BY <1>2, <2>1, <2>2, <2>3
<1>4. /\ send'[c].item = i /\ \A d \in Campaigns : d # c => send'[d] = send[d]
  <2>1. CASE PressEnter(c)
    BY <1>2, <2>1 DEF PressEnter, Suspended
  <2>2. CASE ClickSend(c)
    BY <1>2, <2>2 DEF ClickSend, Suspended
  <2>3. QED
    BY <2>1, <2>2
<1>5. CASE typed /\ typed' = FALSE /\ delivered' = [delivered EXCEPT ![chat] = @ + 1]
  <2>1. delivered[i] = 0 /\ delivered'[i] = 1
        /\ \A j \in Items : j # i => delivered'[j] = delivered[j]
    BY <1>2, <1>3, <1>5
  <2>2. MessageOnce!Step(i)
    BY <1>1, <1>3, <2>1 DEF MessageOnce!Step, MessageOnce!Leave, MessageOnce!Moves
  <2>3. MessageOnce!Next
    BY <1>1, <2>1, <2>2, Moved DEF MessageOnce!Next
  <2>4. QED
    BY <1>1, <1>3, <1>4, <1>5, <2>3, WindowOfOne DEF Implements
<1>6. CASE UNCHANGED <<typed, delivered>>
  <2>1. MessageOnce!Next
    BY <1>1, <1>6, Moved DEF MessageOnce!Next
  <2>2. QED
    BY <1>1, <1>3, <1>4, <1>6, <2>1, WindowOfOne DEF Implements
<1>7. QED
  BY <1>1, <1>5, <1>6 DEF Submit

\* The bubble that is found is the message's own.
LEMMA OwnBubble ==
    ASSUME DistinctMessages, IInv, WindowIsSenders, NEW c \in Campaigns, Sending(c),
           BubbleFound(c)
    PROVE  delivered[send[c].item] = 1
<1>1. send[c].item \in Items /\ chat = send[c].item
  BY QueueItems DEF IInv, SendsAreMarked, Marked, Sending, WindowIsSenders
<1>2. PICK i \in Items : delivered[i] > 0 /\ Phone[i] = Phone[chat] /\ Text[i] = Text[send[c].item]
  BY DEF BubbleFound
<1>3. i = send[c].item
  BY <1>1, <1>2 DEF DistinctMessages
<1>4. QED
  BY <1>1, <1>2, <1>3 DEF WindowIsSenders

LEMMA SettleImplements ==
    ASSUME IInv, OneSender, WindowIsSenders, NEW c \in Campaigns, Sending(c),
           NEW at \in {"sent", "failed"}, at = "sent" => delivered[send[c].item] = 1,
           NEW u, NEW r, NEW st, Settle(c, [item EXCEPT ![send[c].item] = at], u, r, st)
    PROVE  Implements
<1> DEFINE i == send[c].item
           it == [item EXCEPT ![i] = at]
<1>1. /\ item \in [Items -> ItemStatus] /\ send \in [Campaigns -> Suspended]
      /\ Range(Queue[c]) \subseteq Items
  BY Types, QueueItems DEF IInv
<1>2. i \in Items /\ item[i] = "sending"
  BY <1>1 DEF IInv, SendsAreMarked, Marked, Sending
<1>3. \A d \in Campaigns : d # c => send[d].phase = "none"
  BY SenderIsAlone DEF Sending
<1>4. /\ it \in [Items -> ItemStatus] /\ it[i] = at
      /\ \A j \in Items : j # i => it[j] = item[j]
  BY <1>1, <1>2 DEF ItemStatus
<1>5. /\ delivered' = delivered
      /\ \A j \in Items : \/ item'[j] = it[j]
                          \/ it[j] = "pending" /\ item'[j] \in {"sending", "failed"}
      /\ \A d \in Campaigns : d # c => send'[d] = send[d]
      /\ Sending(c)' => /\ chat' = send'[c].item
                        /\ chat' \in Items /\ it[chat'] = "pending"
  <2>1. CASE c \in Bulks
    <3>1. Proceed(c, it, u, [r EXCEPT !.fresh = FALSE], FALSE)
      BY <2>1, Kinds DEF Settle
    <3>2. QED
      BY <1>1, <1>4, <2>1, <3>1, ProceedMoves
  <2>2. CASE c \in Singles
    <3>1. item' = it /\ send' = [send EXCEPT ![c] = Idle] /\ delivered' = delivered
      BY <2>2, Kinds DEF Settle, window
    <3>2. QED
      BY <1>1, <3>1, IdleIsSuspended DEF Sending
  <2>3. QED
    BY <2>1, <2>2, Kinds
<1>6. MessageOnce!Next
  <2>1. SUFFICES ASSUME NEW j \in Items PROVE MessageOnce!Step(j)
    BY DEF MessageOnce!Next
  <2>2. CASE j = i
    BY <1>2, <1>4, <1>5, <2>2, Moved
  <2>3. CASE j # i
    BY <1>4, <1>5, <2>3, Moved
  <2>4. QED
    BY <2>2, <2>3
<1>7. Sending(c)' => chat' = send'[c].item /\ delivered'[chat'] = 0
  BY <1>2, <1>4, <1>5 DEF WindowIsSenders
<1>8. QED
  BY <1>3, <1>5, <1>6, <1>7, WindowOfOne DEF Implements

LEMMA SendStepImplements ==
    ASSUME DistinctMessages, IInv, OneSender, WindowIsSenders, NEW c \in Campaigns, SendStep(c)
    PROVE  Implements
<1>1. CASE PressEnter(c) \/ ClickSend(c)
  BY <1>1, SubmitImplements
<1>2. CASE VerifyOk(c)
  <2>1. /\ Sending(c) /\ BubbleFound(c)
        /\ Settle(c, [item EXCEPT ![send[c].item] = "sent"], used',
                  [runner EXCEPT !.failures = 0], "completed")
    BY <1>2 DEF VerifyOk, Sending, Recorded
  <2>2. QED
    BY <2>1, OwnBubble, SettleImplements
<1>3. ASSUME NEW counts \in BOOLEAN, SendFails(c, counts) PROVE Implements
  <2>1. /\ Sending(c)
        /\ Settle(c, [item EXCEPT ![send[c].item] = "failed"], used,
                  [runner EXCEPT !.failures = IF counts THEN @ + 1 ELSE 0], "failed")
    BY <1>3 DEF SendFails
  <2>2. QED
    BY <2>1, SettleImplements
<1>4. QED
  BY <1>1, <1>2, <1>3 DEF SendStep, SendEnds

LEMMA WorldImplements ==
    ASSUME DistinctMessages, IInv, WindowIsSenders, World
    PROVE  Implements
<1>1. item \in [Items -> ItemStatus]
  BY Types DEF IInv
<1>2. CASE Connection \/ Midnight
  <2>1. UNCHANGED <<item, send, chat, typed, delivered>>
    BY <1>2 DEF Connection, Midnight, db, window
  <2>2. MessageOnce!Next
    BY <2>1, Moved DEF MessageOnce!Next
  <2>3. QED
    BY <2>1, <2>2, WindowUndisturbed DEF Implements, Sending
<1>3. ASSUME Down, \A i \in Items : \/ item'[i] = item[i]
                                    \/ /\ item[i] = "sending" /\ item'[i] = "sent"
                                       /\ delivered[i] = 1
      PROVE  Implements
  <2>1. send' = [c \in Campaigns |-> Idle] /\ delivered' = delivered
    BY <1>3 DEF Down
  <2>2. \A c \in Campaigns : ~Sending(c)'
    BY <2>1, IdleIsSuspended DEF Sending
  <2>3. MessageOnce!Next
    BY <1>3, <2>1, Moved DEF MessageOnce!Next
  <2>4. QED
    BY <2>2, <2>3, OutboxKeepsDelivered DEF Implements, WindowIsSenders
<1>4. CASE Crash
  BY <1>3, <1>4 DEF Crash
<1>5. ASSUME NEW c \in Campaigns, CrashBeforeCount(c) PROVE Implements
  <2>1. /\ Sending(c) /\ BubbleFound(c) /\ Down
        /\ item' = [item EXCEPT ![send[c].item] = "sent"]
    BY <1>5 DEF CrashBeforeCount, Recorded, Sending
  <2>2. item[send[c].item] = "sending" /\ send[c].item \in Items
    BY <2>1, QueueItems DEF IInv, SendsAreMarked, Marked, Sending
  <2>3. delivered[send[c].item] = 1
    BY <2>1, OwnBubble
  <2>4. QED
    BY <1>1, <1>3, <2>1, <2>2, <2>3
<1>6. CASE Restart
  <2>1. /\ item' = Reconciled /\ UNCHANGED <<send, chat, typed, delivered>>
    BY <1>6 DEF Restart, window
  <2>2. \A i \in Items : item'[i] = item[i] \/ (item[i] = "sending" /\ item'[i] = "unknown")
    BY <2>1 DEF Reconciled
  <2>3. MessageOnce!Next
    BY <2>1, <2>2, Moved DEF MessageOnce!Next
  <2>4. QED
    BY <2>1, <2>3, WindowUndisturbed DEF Implements, Sending
<1>7. QED
  BY <1>2, <1>4, <1>5, <1>6 DEF World

\* WB-08.  With one send at a time, and no two messages that look alike in one chat, every
\* step of the engine is a step of Outbox: a message leaves at most once, whatever crashes
\* and resumes, and reads sent only if it left (sendMessage, CampaignRunner,
\* reconcileStuckSending).
THEOREM EngineImplementsOutbox == ASSUME ~Overlap, DistinctMessages PROVE Spec => AtMostOnce
<1>1. Init => MessageOnce!Init
  BY DEF Init, MessageOnce!Init
<1>2. Init => IInv /\ OneSender /\ WindowIsSenders
  <2>1. Init => WindowIsSenders
    <3>1. SUFFICES ASSUME Init PROVE WindowIsSenders
      OBVIOUS
    <3>2. \A c \in Campaigns : ~Sending(c)
      BY <3>1, IdleIsSuspended DEF Init, Sending
    <3>3. QED
      BY <3>1, <3>2 DEF Init, WindowIsSenders
  <2>2. QED
    BY <2>1, InvariantStarts, OneSenderStarts
<1>3. IInv /\ OneSender /\ WindowIsSenders /\ [Next]_vars
      => [MessageOnce!Next]_(MessageOnce!vars) /\ (IInv /\ OneSender /\ WindowIsSenders)'
  <2>1. SUFFICES ASSUME IInv, OneSender, WindowIsSenders, [Next]_vars
                 PROVE  /\ [MessageOnce!Next]_(MessageOnce!vars)
                        /\ IInv' /\ OneSender' /\ WindowIsSenders'
    OBVIOUS
  <2>2. IInv' /\ OneSender'
    BY <2>1, InvariantKept, OneSenderKept
  <2>3. CASE UNCHANGED vars
    <3>1. UNCHANGED <<item, send, chat, typed, delivered>>
      BY <2>3 DEF vars, db, window
    <3>2. UNCHANGED MessageOnce!vars
      BY <3>1 DEF MessageOnce!vars
    <3>3. WindowIsSenders'
      BY <2>1, <3>1 DEF WindowIsSenders, Sending
    <3>4. QED
      BY <2>2, <3>2, <3>3
  <2>4. CASE Next
    <3>1. Implements
      BY <2>1, <2>4, RunnerStepImplements, SingleStepImplements, SendStepImplements,
         WorldImplements DEF Next
    <3>2. QED
      BY <2>2, <3>1 DEF Implements
  <2>5. QED
    BY <2>1, <2>2, <2>3, <2>4
<1>4. QED
  BY <1>1, <1>2, <1>3, PTL DEF Spec, AtMostOnce, MessageOnce!Spec
=============================================================================
