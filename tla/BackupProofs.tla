---------------------------- MODULE BackupProofs ----------------------------
(***************************************************************************)
(* Theorems about backups, restores, the deletion of the database and the  *)
(* scans of expenses, for any contents, handlers and numbers of backups    *)
(* kept, and any order of failures and crashes.                            *)
(***************************************************************************)
EXTENDS Backups, FiniteSetTheorems, SequenceTheorems, TLAPS

-----------------------------------------------------------------------------
(* The database                                                             *)

Active(j) == job[j].kind # "none"
Place(j) == FolderOf(job[j].kind)

\* The entry of the backup j makes is among the newest ones its folder keeps.
Room ==
    \A j \in Jobs : Active(j) =>
        \A k \in 1 .. Len(folder[Place(j)]) :
            folder[Place(j)][k].name = job[j].name
                => Len(folder[Place(j)]) - k < KeepIn(Place(j))

\* Names are given in order, and no two backups have the same.
NamesRise ==
    \A d \in Folders :
        /\ Len(folder[d]) <= made
        /\ \A k \in 1 .. Len(folder[d]) :
              /\ folder[d][k].name \in 1 .. made
              /\ \A l \in 1 .. Len(folder[d]) : k < l => folder[d][k].name < folder[d][l].name

\* What is finished opens.
DoneOpens ==
    \A d \in Folders : \A k \in 1 .. Len(folder[d]) :
        folder[d][k].done => Opens(folder[d][k].content)

\* A handler that awaits has its own backup in its folder, and the database open.
OwnThere ==
    \A j \in Jobs : Active(j) =>
        /\ open /\ up
        /\ job[j].name \in 1 .. made
        /\ \E k \in 1 .. Len(folder[Place(j)]) : folder[Place(j)][k].name = job[j].name
        /\ \A i \in Jobs : Active(i) /\ job[i].name = job[j].name => i = j

OpenIsWhole == open => up /\ Opens(file)

IInv == TypeOK /\ NamesRise /\ DoneOpens /\ OwnThere /\ OpenIsWhole

-----------------------------------------------------------------------------

LEMMA PruneDropsOldest ==
    ASSUME NEW S, NEW s \in Seq(S), NEW keep \in Nat \ {0}
    PROVE  /\ Prune(s, keep) \in Seq(S)
           /\ \E drop \in 0 .. Len(s) :
                 /\ Len(Prune(s, keep)) = Len(s) - drop
                 /\ \A i \in 1 .. Len(s) - drop : Prune(s, keep)[i] = s[i + drop]
                 /\ \A k \in 1 .. Len(s) : Len(s) - k < keep => drop < k
<1> DEFINE m == IF Len(s) > keep THEN Len(s) - keep + 1 ELSE 1
<1>1. m \in 1 .. Len(s) + 1 /\ Len(s) \in Nat
  OBVIOUS
<1>2. \A i \in m .. Len(s) : s[i] \in S
  BY <1>1
<1>3. /\ SubSeq(s, m, Len(s)) \in Seq(S)
      /\ Len(SubSeq(s, m, Len(s))) = IF m <= Len(s) THEN Len(s) - m + 1 ELSE 0
      /\ \A i \in 1 .. Len(s) - m + 1 : SubSeq(s, m, Len(s))[i] = s[m + i - 1]
  BY <1>1, <1>2, SubSeqProperties
<1>4. Prune(s, keep) = SubSeq(s, m, Len(s))
  BY DEF Prune
<1>5. m - 1 \in 0 .. Len(s)
  BY <1>1
<1>6. \A k \in 1 .. Len(s) : Len(s) - k < keep => m - 1 < k
  BY <1>1
<1> HIDE DEF m
<1>7. /\ Len(Prune(s, keep)) = Len(s) - (m - 1)
      /\ \A i \in 1 .. Len(s) - (m - 1) : Prune(s, keep)[i] = s[i + (m - 1)]
  BY <1>1, <1>3, <1>4
<1>8. QED
  BY <1>3, <1>4, <1>5, <1>6, <1>7

\* What the folder of a finished backup holds: the newest of what it held, the backup's own
\* entry with what the database holds.
LEMMA StoredIs ==
    ASSUME IInv, NEW j \in Jobs, Active(j)
    PROVE  LET d == Place(j) IN
           /\ Stored(j) \in [Folders -> Seq(Backup)]
           /\ \A e \in Folders : e # d => Stored(j)[e] = folder[e]
           /\ \E drop \in 0 .. Len(folder[d]) :
                 /\ Len(Stored(j)[d]) = Len(folder[d]) - drop
                 /\ \A i \in 1 .. Len(folder[d]) - drop :
                       Stored(j)[d][i] = IF folder[d][i + drop].name = job[j].name
                                         THEN [folder[d][i + drop] EXCEPT !.content = file,
                                                                          !.done = TRUE]
                                         ELSE folder[d][i + drop]
                 /\ \A k \in 1 .. Len(folder[d]) : Len(folder[d]) - k < KeepIn(d) => drop < k
<1> DEFINE d == Place(j)
<1>1. d \in Folders /\ KeepIn(d) \in Nat \ {0}
  BY KeepsSome DEF Place, FolderOf, Folders, KeepIn
<1>2. folder[d] \in Seq(Backup) /\ folder \in [Folders -> Seq(Backup)]
  BY <1>1 DEF IInv, TypeOK
<1>3. file \in Data \cup {Fresh}
  BY DEF IInv, OpenIsWhole, OwnThere, Opens
<1>4. \A k \in 1 .. Len(folder[d]) :
         folder[d][k] \in Backup /\ [folder[d][k] EXCEPT !.content = file, !.done = TRUE] \in Backup
  <2> HIDE DEF d
  <2>1. \A k \in 1 .. Len(folder[d]) : folder[d][k] \in Backup
    BY <1>2, ElementOfSeq
  <2>2. ASSUME NEW b \in Backup PROVE [b EXCEPT !.content = file, !.done = TRUE] \in Backup
    BY <1>3 DEF Backup
  <2>3. QED
    BY <2>1, <2>2
<1>5. Finished(j) \in Seq(Backup) /\ Len(Finished(j)) = Len(folder[d])
  <2>1. Finished(j) \in [1 .. Len(folder[d]) -> Backup]
    BY <1>4 DEF Finished, Place
  <2>2. Len(folder[d]) \in Nat
    BY <1>2
  <2>3. QED
    BY <2>1, <2>2
<1>6. \A k \in 1 .. Len(folder[d]) :
         Finished(j)[k] = IF folder[d][k].name = job[j].name
                          THEN [folder[d][k] EXCEPT !.content = file, !.done = TRUE]
                          ELSE folder[d][k]
  BY DEF Finished, Place
<1>7. Stored(j) = [folder EXCEPT ![d] = Prune(Finished(j), KeepIn(d))]
  BY DEF Stored, Place
<1> HIDE DEF d
<1>8. Prune(Finished(j), KeepIn(d)) \in Seq(Backup)
  BY <1>1, <1>5, PruneDropsOldest
<1>9. PICK drop \in 0 .. Len(Finished(j)) :
         /\ Len(Prune(Finished(j), KeepIn(d))) = Len(Finished(j)) - drop
         /\ \A i \in 1 .. Len(Finished(j)) - drop :
               Prune(Finished(j), KeepIn(d))[i] = Finished(j)[i + drop]
         /\ \A k \in 1 .. Len(Finished(j)) : Len(Finished(j)) - k < KeepIn(d) => drop < k
  BY <1>1, <1>5, PruneDropsOldest
<1>10. /\ Stored(j) \in [Folders -> Seq(Backup)]
       /\ \A e \in Folders : e # d => Stored(j)[e] = folder[e]
       /\ Stored(j)[d] = Prune(Finished(j), KeepIn(d))
  BY <1>1, <1>2, <1>7, <1>8
<1>11. \A i \in 1 .. Len(folder[d]) - drop : i + drop \in 1 .. Len(folder[d])
  BY <1>2
<1>12. \A i \in 1 .. Len(folder[d]) - drop :
          Stored(j)[d][i] = IF folder[d][i + drop].name = job[j].name
                            THEN [folder[d][i + drop] EXCEPT !.content = file, !.done = TRUE]
                            ELSE folder[d][i + drop]
  BY <1>5, <1>6, <1>9, <1>10, <1>11
<1>13. QED
  BY <1>5, <1>9, <1>10, <1>12 DEF d

\* The backup itself is there when its handler goes on, finished, with all the database holds.
LEMMA OwnIsStored ==
    ASSUME IInv, Room, NEW j \in Jobs, Active(j)
    PROVE  \E i \in DOMAIN Stored(j)[Place(j)] :
               /\ Stored(j)[Place(j)][i].name = job[j].name
               /\ Stored(j)[Place(j)][i].done
               /\ Stored(j)[Place(j)][i].content = file
<1> DEFINE d == Place(j)
<1>1. PICK k \in 1 .. Len(folder[d]) : folder[d][k].name = job[j].name
  BY DEF IInv, OwnThere
<1>2. d \in Folders /\ folder[d] \in Seq(Backup)
  BY DEF IInv, TypeOK, Place, FolderOf, Folders
<1>3. k \in 1 .. Len(folder[d]) /\ Len(folder[d]) - k < KeepIn(d)
  BY <1>1, <1>2 DEF Room
<1> HIDE DEF d
<1>4. PICK drop \in 0 .. Len(folder[d]) :
         /\ Len(Stored(j)[d]) = Len(folder[d]) - drop
         /\ \A i \in 1 .. Len(folder[d]) - drop :
               Stored(j)[d][i] = IF folder[d][i + drop].name = job[j].name
                                 THEN [folder[d][i + drop] EXCEPT !.content = file, !.done = TRUE]
                                 ELSE folder[d][i + drop]
         /\ \A x \in 1 .. Len(folder[d]) : Len(folder[d]) - x < KeepIn(d) => drop < x
  BY StoredIs DEF d
<1>5. k - drop \in 1 .. Len(folder[d]) - drop /\ (k - drop) + drop = k
  <2>1. drop < k
    BY <1>3, <1>4
  <2>2. Len(folder[d]) \in Nat
    BY <1>2
  <2>3. QED
    BY <1>3, <2>1, <2>2
<1>6. Stored(j)[d][k - drop] = [folder[d][k] EXCEPT !.content = file, !.done = TRUE]
  BY <1>1, <1>4, <1>5
<1>7. folder[d][k] \in Backup
  BY <1>2, <1>3
<1>8. Stored(j)[d] \in Seq(Backup)
  BY <1>2, StoredIs
<1>9. k - drop \in DOMAIN Stored(j)[d]
  <2>1. DOMAIN Stored(j)[d] = 1 .. Len(Stored(j)[d])
    BY <1>8, LenProperties
  <2>2. QED
    BY <1>4, <1>5, <2>1
<1>10. QED
  BY <1>1, <1>6, <1>7, <1>9 DEF Backup, d

\* So are those the other handlers make.
LEMMA OthersAreStored ==
    ASSUME IInv, Room, NEW j \in Jobs, Active(j), NEW i \in Jobs, Active(i)
    PROVE  \E k \in 1 .. Len(Stored(j)[Place(i)]) :
               Stored(j)[Place(i)][k].name = job[i].name
<1> DEFINE d == Place(j)
<1>1. PICK k \in 1 .. Len(folder[Place(i)]) : folder[Place(i)][k].name = job[i].name
  BY DEF IInv, OwnThere
<1>2. /\ d \in Folders /\ Place(i) \in Folders
      /\ folder[Place(i)] \in Seq(Backup)
  BY DEF IInv, TypeOK, Place, FolderOf, Folders
<1>3. Len(folder[Place(i)]) - k < KeepIn(Place(i))
  BY <1>1 DEF Room
<1>4. CASE Place(i) # d
  BY <1>1, <1>2, <1>4, StoredIs
<1>5. CASE Place(i) = d
  <2> HIDE DEF d
  <2>1. PICK drop \in 0 .. Len(folder[d]) :
         /\ Len(Stored(j)[d]) = Len(folder[d]) - drop
         /\ \A x \in 1 .. Len(folder[d]) - drop :
               Stored(j)[d][x] = IF folder[d][x + drop].name = job[j].name
                                 THEN [folder[d][x + drop] EXCEPT !.content = file, !.done = TRUE]
                                 ELSE folder[d][x + drop]
         /\ \A x \in 1 .. Len(folder[d]) : Len(folder[d]) - x < KeepIn(d) => drop < x
    BY StoredIs DEF d
  <2>2. drop < k
    BY <1>3, <1>5, <2>1
  <2>3. Len(folder[d]) \in Nat /\ k \in 1 .. Len(folder[d])
    BY <1>2, <1>5
  <2>4. k - drop \in 1 .. Len(folder[d]) - drop /\ (k - drop) + drop = k
    BY <2>2, <2>3
  <2>5. folder[d][k] \in Backup
    BY <1>2, <1>5, ElementOfSeq
  <2>6. Stored(j)[d][k - drop].name = folder[d][k].name
    BY <2>1, <2>4, <2>5 DEF Backup
  <2>7. QED
    BY <1>1, <1>5, <2>1, <2>4, <2>6
<1>6. QED
  BY <1>4, <1>5

\* Pruning keeps what the folders are.
LEMMA StoredInOrder ==
    ASSUME IInv, NEW j \in Jobs, Active(j), folder' = Stored(j), made' = made
    PROVE  /\ folder' \in [Folders -> Seq(Backup)]
           /\ \A d \in Folders : Len(folder'[d]) <= MaxBackups
           /\ NamesRise' /\ DoneOpens'
<1>1. Place(j) \in Folders /\ made \in Nat /\ Opens(file) /\ folder \in [Folders -> Seq(Backup)]
  BY Bounds DEF IInv, TypeOK, Place, FolderOf, Folders, OwnThere, OpenIsWhole
<1>2. folder' \in [Folders -> Seq(Backup)]
  BY StoredIs
<1>3. \A d \in Folders : Len(folder[d]) \in Nat /\ \A k \in 1 .. Len(folder[d]) : folder[d][k] \in Backup
  BY <1>1, ElementOfSeq
<1>4. ASSUME NEW d \in Folders
      PROVE  \E drop \in Nat :
                /\ drop <= Len(folder[d])
                /\ Len(folder'[d]) = Len(folder[d]) - drop
                /\ \A i \in 1 .. Len(folder[d]) - drop :
                      /\ folder'[d][i].name = folder[d][i + drop].name
                      /\ \/ folder'[d][i].done /\ folder'[d][i].content = file
                         \/ folder'[d][i] = folder[d][i + drop]
  <2>1. CASE d = Place(j)
    <3>1. PICK drop \in 0 .. Len(folder[d]) :
         /\ Len(Stored(j)[d]) = Len(folder[d]) - drop
         /\ \A x \in 1 .. Len(folder[d]) - drop :
               Stored(j)[d][x] = IF folder[d][x + drop].name = job[j].name
                                 THEN [folder[d][x + drop] EXCEPT !.content = file, !.done = TRUE]
                                 ELSE folder[d][x + drop]
      BY StoredIs, <2>1
    <3>2. ASSUME NEW x \in 1 .. Len(folder[d]) - drop
          PROVE  /\ folder'[d][x].name = folder[d][x + drop].name
                 /\ \/ folder'[d][x].done /\ folder'[d][x].content = file
                    \/ folder'[d][x] = folder[d][x + drop]
      <4>1. x + drop \in 1 .. Len(folder[d])
        BY <1>3, <3>2
      <4>2. folder[d][x + drop] \in Backup
        BY <1>3, <4>1
      <4>3. QED
        BY <3>1, <4>2 DEF Backup
    <3>3. drop \in Nat /\ drop <= Len(folder[d])
      BY <1>3
    <3>4. QED
      BY <3>1, <3>2, <3>3
  <2>2. CASE d # Place(j)
    <3>1. folder'[d] = folder[d]
      BY <2>2, StoredIs
    <3>2. 0 <= Len(folder[d]) /\ Len(folder[d]) = Len(folder[d]) - 0
          /\ \A i \in 1 .. Len(folder[d]) : i + 0 = i
      BY <1>3
    <3>3. QED
      BY <3>1, <3>2
  <2>3. QED
    BY <2>1, <2>2
<1>5. \A d \in Folders : Len(folder'[d]) <= Len(folder[d]) /\ Len(folder'[d]) \in Nat
  BY <1>3, <1>4
<1>6. \A d \in Folders : Len(folder'[d]) <= MaxBackups
  BY <1>3, <1>5, Bounds DEF IInv, TypeOK
<1>7. ASSUME NEW d \in Folders, NEW k \in 1 .. Len(folder'[d])
      PROVE  /\ folder'[d][k].name \in 1 .. made
             /\ \A l \in 1 .. Len(folder'[d]) : k < l => folder'[d][k].name < folder'[d][l].name
             /\ folder'[d][k].done => Opens(folder'[d][k].content)
  <2>1. PICK drop \in Nat :
                /\ drop <= Len(folder[d])
                /\ Len(folder'[d]) = Len(folder[d]) - drop
                /\ \A i \in 1 .. Len(folder[d]) - drop :
                      /\ folder'[d][i].name = folder[d][i + drop].name
                      /\ \/ folder'[d][i].done /\ folder'[d][i].content = file
                         \/ folder'[d][i] = folder[d][i + drop]
    BY <1>4
  <2>2. /\ k + drop \in 1 .. Len(folder[d])
        /\ folder'[d][k].name = folder[d][k + drop].name
        /\ \/ folder'[d][k].done /\ folder'[d][k].content = file
           \/ folder'[d][k] = folder[d][k + drop]
    BY <1>3, <2>1
  <2>3. ASSUME NEW l \in 1 .. Len(folder'[d]), k < l
        PROVE  folder'[d][k].name < folder'[d][l].name
    <3>1. /\ l + drop \in 1 .. Len(folder[d])
          /\ folder'[d][l].name = folder[d][l + drop].name
          /\ k + drop < l + drop
      BY <1>3, <2>1, <2>3
    <3>2. QED
      BY <2>2, <3>1 DEF IInv, NamesRise
  <2>4. folder'[d][k].name \in 1 .. made
    BY <2>2 DEF IInv, NamesRise
  <2>5. folder'[d][k].done => Opens(folder'[d][k].content)
    BY <1>1, <2>2 DEF IInv, DoneOpens
  <2>6. QED
    BY <2>3, <2>4, <2>5
<1>8. \A d \in Folders : Len(folder'[d]) <= made
  BY <1>1, <1>3, <1>5 DEF IInv, NamesRise
<1>9. NamesRise'
  BY <1>7, <1>8 DEF NamesRise
<1>10. DoneOpens'
  BY <1>7 DEF DoneOpens, Opens
<1>11. QED
  BY <1>2, <1>6, <1>9, <1>10
-----------------------------------------------------------------------------

LEMMA InitHolds == Init => IInv
<1> SUFFICES ASSUME Init PROVE IInv
  OBVIOUS
<1>1. folder = [d \in Folders |-> <<>>] /\ \A d \in Folders : Len(folder[d]) = 0
  BY DEF Init
<1>2. folder \in [Folders -> Seq(Backup)]
  BY <1>1, EmptySeq
<1>3. Idle \in Job
  BY DEF Idle, Job, NoChoice, Choice
<1>4. TypeOK
  BY <1>1, <1>2, <1>3, Bounds DEF TypeOK, Init
<1>5. NamesRise /\ DoneOpens
  BY <1>1 DEF NamesRise, DoneOpens, Init
<1>6. OwnThere /\ OpenIsWhole
  BY DEF OwnThere, OpenIsWhole, Init, Active, Idle, Opens
<1>7. QED
  BY <1>4, <1>5, <1>6 DEF IInv

LEMMA OfferedAreChoices == IInv => Offered \subseteq Choice
<1> SUFFICES ASSUME IInv, NEW c \in Offered PROVE c \in Choice
  OBVIOUS
<1>1. CASE \E d \in Folders : \E b \in {x \in Range(folder[d]) : x.done} :
               c = [place |-> d, name |-> b.name, content |-> b.content]
  <2> PICK d \in Folders : \E b \in {x \in Range(folder[d]) : x.done} :
               c = [place |-> d, name |-> b.name, content |-> b.content]
    BY <1>1
  <2>1. PICK b \in Range(folder[d]) :
            b.done /\ c = [place |-> d, name |-> b.name, content |-> b.content]
    OBVIOUS
  <2>2. folder[d] \in Seq(Backup)
    BY DEF IInv, TypeOK
  <2>3. PICK k \in 1 .. Len(folder[d]) : b = folder[d][k]
    BY <2>1, <2>2, LenProperties DEF Range
  <2>4. b \in Backup /\ Opens(b.content)
    BY <2>1, <2>2, <2>3, ElementOfSeq DEF IInv, DoneOpens
  <2>5. QED
    BY <2>1, <2>4 DEF Choice, Backup, Opens
<1>2. CASE \E e \in Elsewhere : c = [place |-> "elsewhere", name |-> 0, content |-> e]
  BY <1>2, ContentsApart DEF Choice
<1> DEFINE From(d) == {[place |-> d, name |-> b.name, content |-> b.content] :
                           b \in {x \in Range(folder[d]) : x.done}}
<1> DEFINE Internal == UNION {From(d) : d \in Folders}
           External == {[place |-> "elsewhere", name |-> 0, content |-> e] : e \in Elsewhere}
<1>3. c \in Internal \/ c \in External
  <2>1. Offered = Internal \cup External
    BY DEF Offered
  <2> HIDE DEF Internal, External
  <2>2. QED
    BY <2>1
<1>4. CASE c \in UNION {From(d) : d \in Folders}
  <2>1. \E d \in Folders : c \in From(d)
    <3> HIDE DEF From
    <3>1. QED
      BY <1>4
  <2>2. QED
    BY <1>1, <2>1
<1>5. QED
  BY <1>2, <1>3, <1>4

LEMMA BeginStep ==
    ASSUME IInv, NEW j \in Jobs, NEW kind \in {"backup", "restore", "delete"},
           NEW choice \in Choice, Begin(j, kind, choice)
    PROVE  IInv'
<1> DEFINE own == [name |-> made + 1, content |-> Torn, done |-> FALSE]
<1>1. /\ open /\ ~Active(j) /\ made < MaxBackups /\ made' = made + 1
      /\ job' = [job EXCEPT ![j] = [kind |-> kind, name |-> made + 1, from |-> choice]]
      /\ folder' = [folder EXCEPT ![FolderOf(kind)] = Append(@, own)]
      /\ UNCHANGED <<file, open, up, failures, crashes>>
  BY DEF Begin, Active
<1>2. /\ made \in Nat /\ MaxBackups \in Nat /\ folder \in [Folders -> Seq(Backup)]
      /\ job \in [Jobs -> Job] /\ FolderOf(kind) \in Folders
  BY Bounds DEF IInv, TypeOK, FolderOf, Folders
<1>3. own \in Backup
  BY <1>2 DEF Backup
<1> HIDE DEF own
<1>4. \A d \in Folders : Len(folder[d]) \in Nat /\ folder'[d] =
          IF d = FolderOf(kind) THEN Append(folder[d], own) ELSE folder[d]
  BY <1>1, <1>2
<1>5. ASSUME NEW d \in Folders
      PROVE  /\ folder'[d] \in Seq(Backup)
             /\ Len(folder'[d]) <= Len(folder[d]) + 1 /\ Len(folder'[d]) >= Len(folder[d])
             /\ \A k \in 1 .. Len(folder[d]) : folder'[d][k] = folder[d][k]
             /\ \A k \in 1 .. Len(folder'[d]) :
                    k \notin 1 .. Len(folder[d]) =>
                        k = Len(folder[d]) + 1 /\ folder'[d][k] = own
             /\ d = FolderOf(kind) => /\ Len(folder'[d]) = Len(folder[d]) + 1
                                      /\ folder'[d][Len(folder[d]) + 1] = own
  <2>1. CASE d = FolderOf(kind)
    <3>1. /\ folder'[d] \in Seq(Backup)
          /\ Len(folder'[d]) = Len(folder[d]) + 1
          /\ \A k \in 1 .. Len(folder[d]) : folder'[d][k] = folder[d][k]
          /\ folder'[d][Len(folder[d]) + 1] = own
      <4>1. folder[d] \in Seq(Backup) /\ folder'[d] = Append(folder[d], own)
        BY <1>2, <1>4, <2>1
      <4>2. QED
        BY <1>3, <4>1, AppendProperties
    <3>2. QED
      BY <1>4, <3>1
  <2>2. CASE d # FolderOf(kind)
    <3>1. folder'[d] = folder[d] /\ folder[d] \in Seq(Backup)
      BY <1>2, <1>4, <2>2
    <3>2. QED
      BY <1>4, <2>2, <3>1
  <2>3. QED
    BY <2>1, <2>2
<1>6. folder' \in [Folders -> Seq(Backup)]
  BY <1>1, <1>2, <1>3
<1>7. \A d \in Folders : Len(folder'[d]) <= made'
  BY <1>1, <1>2, <1>4, <1>5 DEF IInv, NamesRise
<1>8. own.name = made + 1 /\ own.done = FALSE
  BY DEF own
<1>9. NamesRise'
  <2>1. ASSUME NEW d \in Folders, NEW k \in 1 .. Len(folder'[d])
        PROVE  /\ folder'[d][k].name \in 1 .. made'
               /\ \A l \in 1 .. Len(folder'[d]) : k < l => folder'[d][k].name < folder'[d][l].name
    <3>1. CASE k \in 1 .. Len(folder[d])
      <4>1. folder'[d][k].name = folder[d][k].name /\ folder[d][k].name \in 1 .. made
        BY <1>5, <3>1 DEF IInv, NamesRise
      <4>2. ASSUME NEW l \in 1 .. Len(folder'[d]), k < l
            PROVE  folder'[d][k].name < folder'[d][l].name
        <5>1. CASE l \in 1 .. Len(folder[d])
          BY <1>5, <3>1, <4>2, <5>1 DEF IInv, NamesRise
        <5>2. CASE l \notin 1 .. Len(folder[d])
          BY <1>2, <1>5, <1>8, <4>1, <5>2
        <5>3. QED
          BY <5>1, <5>2
      <4>3. QED
        BY <1>1, <1>2, <4>1, <4>2
    <3>2. CASE k \notin 1 .. Len(folder[d])
      <4>1. k = Len(folder[d]) + 1 /\ folder'[d][k].name = made + 1
        BY <1>5, <1>8, <3>2
      <4>2. Len(folder'[d]) <= k
        BY <1>5, <4>1
      <4>3. Len(folder'[d]) \in Nat
        BY <1>5
      <4>4. QED
        BY <1>1, <1>2, <4>1, <4>2, <4>3
    <3>3. QED
      BY <3>1, <3>2
  <2>2. QED
    BY <1>7, <2>1 DEF NamesRise
<1>10. DoneOpens'
  <2>1. ASSUME NEW d \in Folders, NEW k \in 1 .. Len(folder'[d]), folder'[d][k].done
        PROVE  Opens(folder'[d][k].content)
    <3>1. k \in 1 .. Len(folder[d]) /\ folder'[d][k] = folder[d][k]
      BY <1>5, <1>8, <2>1
    <3>2. QED
      BY <2>1, <3>1 DEF IInv, DoneOpens
  <2>2. QED
    BY <2>1 DEF DoneOpens, Opens
<1>11. job' \in [Jobs -> Job]
  BY <1>1, <1>2 DEF Job
<1>12. \A i \in Jobs : i # j => job'[i] = job[i]
  BY <1>1, <1>2
<1>13. job'[j] = [kind |-> kind, name |-> made + 1, from |-> choice]
  BY <1>1, <1>2
<1>14. \A i \in Jobs : Active(i) => job[i].name \in 1 .. made
  BY DEF IInv, OwnThere
<1>15. OwnThere'
  <2>1. up
    BY <1>1 DEF IInv, OpenIsWhole
  <2>2. ASSUME NEW i \in Jobs, job'[i].kind # "none"
        PROVE  /\ job'[i].name \in 1 .. made'
               /\ \E k \in 1 .. Len(folder'[FolderOf(job'[i].kind)]) :
                      folder'[FolderOf(job'[i].kind)][k].name = job'[i].name
               /\ \A x \in Jobs : job'[x].kind # "none" /\ job'[x].name = job'[i].name => x = i
    <3>1. CASE i = j
      <4>1. FolderOf(job'[i].kind) = FolderOf(kind) /\ job'[i].name = made + 1
        BY <1>13, <3>1
      <4>2. Len(folder[FolderOf(kind)]) + 1 \in 1 .. Len(folder'[FolderOf(kind)])
        BY <1>2, <1>4, <1>5
      <4>3. folder'[FolderOf(kind)][Len(folder[FolderOf(kind)]) + 1].name = made + 1
        BY <1>2, <1>5, <1>8
      <4>4. \A x \in Jobs : job'[x].kind # "none" /\ job'[x].name = made + 1 => x = i
        BY <1>2, <1>12, <1>14, <3>1 DEF Active
      <4>5. made + 1 \in 1 .. made'
        BY <1>1, <1>2
      <4>6. QED
        BY <4>1, <4>2, <4>3, <4>4, <4>5
    <3>2. CASE i # j
      <4>1. job'[i] = job[i] /\ Active(i) /\ Place(i) \in Folders
        BY <1>12, <2>2, <3>2 DEF Active, Place, FolderOf, Folders
      <4>2. PICK k \in 1 .. Len(folder[Place(i)]) : folder[Place(i)][k].name = job[i].name
        BY <4>1 DEF IInv, OwnThere
      <4>3. k \in 1 .. Len(folder'[Place(i)]) /\ folder'[Place(i)][k].name = job[i].name
        BY <1>4, <1>5, <4>1, <4>2
      <4>4. job[i].name \in 1 .. made /\ made + 1 # job[i].name
        BY <1>2, <1>14, <4>1
      <4>5. \A x \in Jobs : job'[x].kind # "none" /\ job'[x].name = job[i].name => x = i
        BY <1>12, <1>13, <4>1, <4>4 DEF IInv, OwnThere, Active
      <4>6. job[i].name \in 1 .. made'
        BY <1>1, <1>2, <4>4
      <4>7. FolderOf(job'[i].kind) = Place(i) /\ job'[i].name = job[i].name
        BY <4>1 DEF Place
      <4>8. QED
        BY <4>3, <4>5, <4>6, <4>7
    <3>3. QED
      BY <3>1, <3>2
  <2>3. QED
    BY <1>1, <2>1, <2>2 DEF OwnThere, Active, Place
<1>16. TypeOK'
  <2>1. made' \in 0 .. MaxBackups
    BY <1>1, <1>2
  <2>2. \A d \in Folders : Len(folder'[d]) <= MaxBackups
    BY <1>1, <1>2, <1>5, <1>7, <2>1
  <2>3. QED
    BY <1>1, <1>6, <1>11, <2>1, <2>2 DEF IInv, TypeOK
<1>17. OpenIsWhole'
  BY <1>1 DEF IInv, OpenIsWhole, Opens
<1>18. QED
  BY <1>9, <1>10, <1>15, <1>16, <1>17 DEF IInv

LEMMA WriteStep == ASSUME IInv, NEW c \in Data, Write(c) PROVE IInv'
<1> USE DEF Write
<1>1. TypeOK'
  BY DEF IInv, TypeOK
<1>2. NamesRise' /\ DoneOpens' /\ OpenIsWhole'
  BY DEF IInv, NamesRise, DoneOpens, OpenIsWhole, Opens
<1>3. OwnThere'
  BY DEF IInv, OwnThere, Active, Place
<1>4. QED
  BY <1>1, <1>2, <1>3 DEF IInv

\* A backup that ends alone leaves the other handlers theirs.
LEMMA EndsAlone ==
    ASSUME IInv, NEW j \in Jobs, Active(j), job' = [job EXCEPT ![j] = Idle],
           UNCHANGED <<open, up, made>>,
           \A i \in Jobs : Active(i) =>
              \E k \in 1 .. Len(folder'[Place(i)]) : folder'[Place(i)][k].name = job[i].name
    PROVE  OwnThere' /\ job' \in [Jobs -> Job]
<1>1. job \in [Jobs -> Job] /\ Idle \in Job
  BY DEF IInv, TypeOK, Idle, Job, NoChoice, Choice
<1>2. job' \in [Jobs -> Job] /\ job'[j] = Idle /\ \A i \in Jobs : i # j => job'[i] = job[i]
  BY <1>1
<1>3. ASSUME NEW i \in Jobs, job'[i].kind # "none"
      PROVE  job'[i] = job[i] /\ Active(i)
  BY <1>2, <1>3 DEF Idle, Active
<1>4. OwnThere'
  <2>1. ASSUME NEW i \in Jobs, job'[i].kind # "none"
        PROVE  /\ open /\ up /\ job'[i].name \in 1 .. made
               /\ \E k \in 1 .. Len(folder'[FolderOf(job'[i].kind)]) :
                      folder'[FolderOf(job'[i].kind)][k].name = job'[i].name
               /\ \A x \in Jobs : job'[x].kind # "none" /\ job'[x].name = job'[i].name => x = i
    <3>1. job'[i] = job[i] /\ Active(i)
      BY <1>3, <2>1
    <3>2. \A x \in Jobs : job'[x].kind # "none" => job'[x] = job[x] /\ Active(x)
      BY <1>3
    <3>3. open /\ up /\ job[i].name \in 1 .. made
          /\ \A x \in Jobs : Active(x) /\ job[x].name = job[i].name => x = i
      BY <3>1 DEF IInv, OwnThere
    <3>4. QED
      BY <3>1, <3>2, <3>3 DEF Place
  <2>2. QED
    BY <2>1 DEF OwnThere, Active, Place
<1>5. QED
  BY <1>2, <1>4

LEMMA FinishBackupStep == ASSUME IInv, Room, NEW j \in Jobs, FinishBackup(j) PROVE IInv'
<1>1. Active(j) /\ folder' = Stored(j) /\ job' = [job EXCEPT ![j] = Idle]
      /\ UNCHANGED <<file, open, up, made, failures, crashes>>
  BY DEF FinishBackup, Active
<1>2. /\ folder' \in [Folders -> Seq(Backup)] /\ \A d \in Folders : Len(folder'[d]) <= MaxBackups
      /\ NamesRise' /\ DoneOpens'
  BY <1>1, StoredInOrder
<1>3. OwnThere' /\ job' \in [Jobs -> Job]
  BY <1>1, EndsAlone, OthersAreStored
<1>4. TypeOK'
  BY <1>1, <1>2, <1>3 DEF IInv, TypeOK
<1>5. OpenIsWhole'
  BY <1>1 DEF IInv, OpenIsWhole, Opens
<1>6. QED
  BY <1>2, <1>3, <1>4, <1>5 DEF IInv

LEMMA BackupFailsStep == ASSUME IInv, NEW j \in Jobs, BackupFails(j) PROVE IInv'
<1>1. Active(j) /\ job' = [job EXCEPT ![j] = Idle] /\ failures' = failures + 1
      /\ failures < MaxFailures /\ UNCHANGED <<file, open, up, made, crashes>>
  BY DEF BackupFails, Active
<1>2. folder' = folder
  BY DEF BackupFails, LeftBehind, IInv, TypeOK, FolderOf, Folders
<1>3. NamesRise' /\ DoneOpens' /\ OpenIsWhole'
  BY <1>1, <1>2 DEF IInv, NamesRise, DoneOpens, OpenIsWhole, Opens
<1>4. OwnThere' /\ job' \in [Jobs -> Job]
  <2>1. \A i \in Jobs : Active(i) =>
            \E k \in 1 .. Len(folder'[Place(i)]) : folder'[Place(i)][k].name = job[i].name
    BY <1>2 DEF IInv, OwnThere
  <2>2. QED
    BY <1>1, <2>1, EndsAlone
<1>5. TypeOK'
  BY <1>1, <1>2, <1>4, Bounds DEF IInv, TypeOK
<1>6. QED
  BY <1>3, <1>4, <1>5 DEF IInv

\* What the handlers that replace or remove the database do to the folders and to each other,
\* however far they come.
LEMMA AllEndStep ==
    ASSUME IInv, job' = AllRejected, made' = made,
           folder' \in [Folders -> Seq(Backup)], \A d \in Folders : Len(folder'[d]) <= MaxBackups,
           NamesRise', DoneOpens', failures' = failures, crashes' \in 0 .. MaxCrashes,
           file' \in Data \cup {Fresh, Bad, NoFile, Torn}, open' \in BOOLEAN, up' \in BOOLEAN,
           open' => up' /\ file' \in Data \cup {Fresh}
    PROVE  IInv'
<1>1. Idle \in Job /\ Idle.kind = "none"
  BY DEF Idle, Job, NoChoice, Choice
<1>2. job' \in [Jobs -> Job] /\ \A j \in Jobs : job'[j] = Idle
  BY <1>1 DEF AllRejected
<1>3. OwnThere'
  BY <1>1, <1>2 DEF OwnThere, Active
<1>4. TypeOK'
  BY <1>2 DEF IInv, TypeOK
<1>5. OpenIsWhole'
  BY DEF OpenIsWhole, Opens
<1>6. QED
  BY <1>3, <1>4, <1>5 DEF IInv

LEMMA FinishRestoreStep == ASSUME IInv, NEW j \in Jobs, FinishRestore(j) PROVE IInv'
<1>1. Active(j) /\ folder' = Stored(j) /\ job' = AllRejected
      /\ UNCHANGED <<up, made, failures, crashes>>
  BY DEF FinishRestore, Active
<1>2. /\ folder' \in [Folders -> Seq(Backup)] /\ \A d \in Folders : Len(folder'[d]) <= MaxBackups
      /\ NamesRise' /\ DoneOpens'
  BY <1>1, StoredInOrder
<1>3. up /\ open /\ file \in Data \cup {Fresh} /\ job[j].from.content \in Data \cup {Fresh, Bad}
  BY <1>1 DEF IInv, TypeOK, OwnThere, OpenIsWhole, Opens, Job, Choice
<1>4. /\ file' \in Data \cup {Fresh, Bad} /\ open' \in BOOLEAN
      /\ open' => file' \in Data \cup {Fresh}
  <2>1. CASE ChoiceGone(job[j].from, folder')
    BY <1>3, <2>1 DEF ChoiceGone
  <2>2. CASE ChoiceOpens(job[j].from, folder')
    BY <2>2 DEF ChoiceOpens, Opens
  <2>3. CASE ChoiceFails(job[j].from, folder')
    BY <1>3, <2>3 DEF ChoiceFails
  <2>4. QED
    BY <2>1, <2>2, <2>3 DEF FinishRestore
<1>5. crashes' \in 0 .. MaxCrashes /\ up'
  BY <1>1, <1>3 DEF IInv, TypeOK
<1>6. QED
  BY <1>1, <1>2, <1>3, <1>4, <1>5, AllEndStep

LEMMA FinishDeleteStep == ASSUME IInv, NEW j \in Jobs, FinishDelete(j) PROVE IInv'
<1>1. Active(j) /\ folder' = Stored(j) /\ job' = AllRejected /\ file' = Fresh
      /\ UNCHANGED <<open, up, made, failures, crashes>>
  BY DEF FinishDelete, Active
<1>2. /\ folder' \in [Folders -> Seq(Backup)] /\ \A d \in Folders : Len(folder'[d]) <= MaxBackups
      /\ NamesRise' /\ DoneOpens'
  BY <1>1, StoredInOrder
<1>3. up /\ open /\ crashes' \in 0 .. MaxCrashes
  BY <1>1 DEF IInv, TypeOK, OwnThere
<1>4. QED
  BY <1>1, <1>2, <1>3, AllEndStep

LEMMA StopStep == ASSUME IInv, Stop PROVE IInv'
<1>1. ASSUME Down PROVE /\ job' = AllRejected /\ made' = made /\ failures' = failures
                        /\ crashes' \in 0 .. MaxCrashes /\ open' = FALSE /\ up' = FALSE
  BY <1>1, Bounds DEF Down, IInv, TypeOK
<1>2. CASE Crash
  <2>1. Down /\ folder' = folder /\ file' = file
    BY <1>2 DEF Crash
  <2>2. NamesRise' /\ DoneOpens'
    BY <1>1, <2>1 DEF IInv, NamesRise, DoneOpens, Opens
  <2>3. /\ folder' \in [Folders -> Seq(Backup)] /\ \A d \in Folders : Len(folder'[d]) <= MaxBackups
        /\ file' \in Data \cup {Fresh, Bad, NoFile, Torn}
    BY <2>1 DEF IInv, TypeOK
  <2>4. QED
    BY <1>1, <2>1, <2>2, <2>3, AllEndStep
<1>3. ASSUME NEW j \in Jobs, CrashInRestore(j) \/ CrashInDelete(j)
      PROVE  IInv'
  <2>1. Active(j) /\ folder' = Stored(j) /\ file' \in {NoFile, Torn} /\ Down
    BY <1>3 DEF CrashInRestore, CrashInDelete, Active
  <2>2. /\ folder' \in [Folders -> Seq(Backup)] /\ \A d \in Folders : Len(folder'[d]) <= MaxBackups
        /\ NamesRise' /\ DoneOpens'
    BY <1>1, <2>1, StoredInOrder
  <2>3. QED
    BY <1>1, <2>1, <2>2, AllEndStep
<1>4. QED
  BY <1>2, <1>3 DEF Stop

LEMMA StartupStep == ASSUME IInv, Startup PROVE IInv'
<1>1. ~up /\ file' = (IF file = NoFile THEN Fresh ELSE file) /\ up' = TRUE /\ open' = TRUE
      /\ (Opens(file) \/ file = NoFile)
      /\ UNCHANGED <<folder, job, made, failures, crashes>>
  BY DEF Startup
<1>2. \A j \in Jobs : ~Active(j)
  BY <1>1 DEF IInv, OwnThere
<1>3. file' \in Data \cup {Fresh}
  BY <1>1 DEF Opens
<1>4. NamesRise' /\ DoneOpens' /\ OpenIsWhole'
  BY <1>1, <1>3 DEF IInv, NamesRise, DoneOpens, OpenIsWhole, Opens
<1>5. OwnThere'
  BY <1>1, <1>2 DEF OwnThere, Active
<1>6. TypeOK'
  BY <1>1, <1>3 DEF IInv, TypeOK
<1>7. QED
  BY <1>4, <1>5, <1>6 DEF IInv

LEMMA NextStep == IInv /\ Room /\ [Next]_vars => IInv'
<1> SUFFICES ASSUME IInv, Room, [Next]_vars PROVE IInv'
  OBVIOUS
<1>1. ASSUME NEW c \in Data, Write(c) PROVE IInv'
  BY <1>1, WriteStep
<1>2. ASSUME NEW j \in Jobs, Start(j) PROVE IInv'
  <2>1. NoChoice \in Choice
    BY DEF NoChoice, Choice
  <2>2. \E kind \in {"backup", "restore", "delete"} : \E choice \in Choice :
            Begin(j, kind, choice)
    BY <1>2, <2>1, OfferedAreChoices DEF Start, StartBackup, StartDelete, StartRestore
  <2>3. QED
    BY <2>2, BeginStep
<1>3. ASSUME NEW j \in Jobs, Finish(j) PROVE IInv'
  BY <1>3, FinishBackupStep, FinishRestoreStep, FinishDeleteStep, BackupFailsStep DEF Finish
<1>4. CASE UNCHANGED vars
  <2>1. TypeOK'
    BY <1>4 DEF vars, IInv, TypeOK
  <2>2. NamesRise' /\ DoneOpens' /\ OpenIsWhole' /\ OwnThere'
    BY <1>4 DEF vars, IInv, NamesRise, DoneOpens, OpenIsWhole, OwnThere, Opens, Active, Place
  <2>3. QED
    BY <2>1, <2>2 DEF IInv
<1>5. QED
  BY <1>1, <1>2, <1>3, <1>4, StopStep, StartupStep DEF Next

-----------------------------------------------------------------------------
(* Room, from the constants: as many backups fit as can be begun, or, in    *)
(* before-restore, as many as may be under way at once or have failed.      *)

\* The restores that were begun after j's.
Behind(j) == {i \in Jobs : job[i].kind = "restore" /\ job[i].name > job[j].name}

\* Nothing finishes in before-restore while another restore is under way: what lies behind its
\* backup is under way too, or has failed.
FewBehind ==
    \A j \in Jobs : job[j].kind = "restore" =>
        \A k \in 1 .. Len(folder["before-restore"]) :
            folder["before-restore"][k].name = job[j].name =>
                Len(folder["before-restore"]) - k <= Cardinality(Behind(j)) + failures

\* What makes room: the internal folder keeps as many as are ever begun, the other one as
\* many as are under way at once or fail.
Roomy ==
    /\ MaxBackups <= KeepAuto
    /\ IsFiniteSet(Jobs) /\ Cardinality(Jobs) + MaxFailures <= KeepSafety

LEMMA FewBehindIsRoom == ASSUME Roomy, IInv, FewBehind PROVE Room
<1> SUFFICES ASSUME NEW j \in Jobs, Active(j), NEW k \in 1 .. Len(folder[Place(j)]),
                    folder[Place(j)][k].name = job[j].name
             PROVE  Len(folder[Place(j)]) - k < KeepIn(Place(j))
  BY DEF Room
<1>1. /\ job[j] \in Job /\ Place(j) \in Folders /\ folder[Place(j)] \in Seq(Backup)
      /\ Len(folder[Place(j)]) <= MaxBackups
  BY DEF IInv, TypeOK, Place, FolderOf, Folders
<1>2. Len(folder[Place(j)]) \in Nat
  BY <1>1
<1>3. CASE job[j].kind = "restore"
  <2>1. Place(j) = "before-restore"
    BY <1>3 DEF Place, FolderOf
  <2>2. Len(folder[Place(j)]) - k <= Cardinality(Behind(j)) + failures
    BY <1>3, <2>1 DEF FewBehind
  <2>3. Behind(j) \subseteq Jobs \ {j}
    BY <1>1 DEF Behind, Job
  <2>4. /\ IsFiniteSet(Jobs \ {j}) /\ Cardinality(Jobs \ {j}) = Cardinality(Jobs) - 1
        /\ Cardinality(Jobs) \in Nat
    BY FS_RemoveElement, FS_CardinalityType DEF Roomy
  <2>5. Cardinality(Behind(j)) <= Cardinality(Jobs) - 1 /\ Cardinality(Behind(j)) \in Nat
    BY <2>3, <2>4, FS_Subset, FS_CardinalityType
  <2>6. failures \in Nat /\ failures <= MaxFailures /\ MaxFailures \in Nat /\ KeepSafety \in Nat
    BY Bounds, KeepsSome DEF IInv, TypeOK
  <2>7. KeepIn(Place(j)) = KeepSafety
    BY <2>1 DEF KeepIn
  <2>8. QED
    BY <1>2, <2>2, <2>4, <2>5, <2>6, <2>7 DEF Roomy
<1>4. CASE job[j].kind # "restore"
  <2>1. KeepIn(Place(j)) = KeepAuto
    BY <1>4 DEF Place, FolderOf, KeepIn
  <2>2. QED
    BY <1>1, <1>2, <2>1, KeepsSome, Bounds DEF Roomy
<1>5. QED
  BY <1>3, <1>4

LEMMA FewBehindInit == Init => FewBehind
BY DEF Init, FewBehind, Idle

\* A step that leaves the folder and takes no restore away unless it counts as failed.
LEMMA FewBehindEnds ==
    ASSUME IInv, FewBehind, IsFiniteSet(Jobs), NEW j \in Jobs,
           job' = [job EXCEPT ![j] = Idle],
           folder'["before-restore"] = folder["before-restore"],
           \/ failures' = failures /\ job[j].kind # "restore"
           \/ failures' = failures + 1
    PROVE  FewBehind'
<1>1. job \in [Jobs -> Job] /\ failures \in Nat
  BY Bounds DEF IInv, TypeOK
<1>2. job'[j] = Idle /\ \A i \in Jobs : i # j => job'[i] = job[i]
  BY <1>1
<1>3. SUFFICES ASSUME NEW i \in Jobs, job'[i].kind = "restore",
                      NEW k \in 1 .. Len(folder["before-restore"]),
                      folder["before-restore"][k].name = job'[i].name
               PROVE  Len(folder["before-restore"]) - k
                        <= Cardinality({x \in Jobs : job'[x].kind = "restore"
                                                     /\ job'[x].name > job'[i].name}) + failures'
  BY DEF FewBehind, Behind
<1> DEFINE Now == {x \in Jobs : job'[x].kind = "restore" /\ job'[x].name > job'[i].name}
<1>4. i # j /\ job'[i] = job[i]
  BY <1>2, <1>3 DEF Idle
<1>5. Len(folder["before-restore"]) - k <= Cardinality(Behind(i)) + failures
  BY <1>3, <1>4 DEF FewBehind
<1>6. Now = IF job[j].kind = "restore" THEN Behind(i) \ {j} ELSE Behind(i)
  BY <1>2, <1>4 DEF Behind, Idle
<1>7. IsFiniteSet(Behind(i)) /\ Cardinality(Behind(i)) \in Nat
  BY FS_Subset, FS_CardinalityType DEF Behind
<1>8. Len(folder["before-restore"]) \in Nat
  BY DEF IInv, TypeOK, Folders
<1>9. SUFFICES Len(folder["before-restore"]) - k <= Cardinality(Now) + failures'
  OBVIOUS
<1> HIDE DEF Now
<1>10. CASE job[j].kind # "restore"
  BY <1>1, <1>3, <1>5, <1>6, <1>7, <1>8, <1>10
<1>11. CASE job[j].kind = "restore"
  <2>1. failures' = failures + 1 /\ Now = Behind(i) \ {j}
    BY <1>3, <1>6, <1>11
  <2>2. Cardinality(Now) = IF j \in Behind(i) THEN Cardinality(Behind(i)) - 1
                                               ELSE Cardinality(Behind(i))
    BY <1>7, <2>1, FS_RemoveElement
  <2>3. Cardinality(Now) \in Int /\ Cardinality(Now) >= Cardinality(Behind(i)) - 1
    BY <1>7, <2>2
  <2>4. QED
    BY <1>1, <1>5, <1>7, <1>8, <2>1, <2>3
<1>12. QED
  BY <1>10, <1>11

LEMMA FewBehindBegins ==
    ASSUME IInv, FewBehind, IsFiniteSet(Jobs), NEW j \in Jobs,
           NEW kind \in {"backup", "restore", "delete"}, NEW choice, Begin(j, kind, choice)
    PROVE  FewBehind'
<1> DEFINE s == folder["before-restore"]
           own == [name |-> made + 1, content |-> Torn, done |-> FALSE]
<1>1. /\ job \in [Jobs -> Job] /\ failures \in Nat /\ made \in Nat
      /\ s \in Seq(Backup) /\ Len(s) \in Nat
      /\ folder \in [Folders -> Seq(Backup)] /\ "before-restore" \in Folders
  BY Bounds DEF IInv, TypeOK, Folders
<1>2. /\ ~Active(j) /\ failures' = failures
      /\ job' = [job EXCEPT ![j] = [kind |-> kind, name |-> made + 1, from |-> choice]]
      /\ folder' = [folder EXCEPT ![FolderOf(kind)] = Append(@, own)]
  BY DEF Begin, Active
<1>3. /\ job'[j] = [kind |-> kind, name |-> made + 1, from |-> choice]
      /\ \A i \in Jobs : i # j => job'[i] = job[i]
  BY <1>1, <1>2
<1>4. folder'["before-restore"] = IF kind = "restore" THEN Append(s, own) ELSE s
  BY <1>1, <1>2 DEF FolderOf
<1>5. own \in Backup /\ own.name = made + 1
  BY <1>1 DEF Backup
<1>6. \A i \in Jobs : Active(i) => job[i].name \in 1 .. made
  BY DEF IInv, OwnThere
<1>7. \A k \in 1 .. Len(s) : s[k].name \in 1 .. made
  BY <1>1 DEF IInv, NamesRise
<1> HIDE DEF s, own
<1>8. SUFFICES ASSUME NEW i \in Jobs, job'[i].kind = "restore",
                      NEW k \in 1 .. Len(folder'["before-restore"]),
                      folder'["before-restore"][k].name = job'[i].name
               PROVE  Len(folder'["before-restore"]) - k
                        <= Cardinality({x \in Jobs : job'[x].kind = "restore"
                                                     /\ job'[x].name > job'[i].name}) + failures'
  BY DEF FewBehind, Behind
<1> DEFINE Now == {x \in Jobs : job'[x].kind = "restore" /\ job'[x].name > job'[i].name}
<1>9. IsFiniteSet(Now) /\ Cardinality(Now) \in Nat
  BY FS_Subset, FS_CardinalityType
<1>10. CASE i = j
  <2>1. kind = "restore" /\ job'[i].name = made + 1
    BY <1>3, <1>8, <1>10
  <2>2. /\ Len(folder'["before-restore"]) = Len(s) + 1
        /\ \A x \in 1 .. Len(s) : folder'["before-restore"][x] = s[x]
    BY <1>1, <1>4, <1>5, <2>1, AppendProperties
  <2>3. k = Len(s) + 1
    BY <1>1, <1>7, <1>8, <2>1, <2>2
  <2>4. QED
    BY <1>1, <1>2, <1>9, <2>2, <2>3
<1>11. CASE i # j
  <2>1. job'[i] = job[i] /\ Active(i)
    BY <1>3, <1>8, <1>11 DEF Active
  <2>2. IsFiniteSet(Behind(i)) /\ Cardinality(Behind(i)) \in Nat
    BY FS_Subset, FS_CardinalityType DEF Behind
  <2>3. CASE kind = "restore"
    <3>1. /\ Len(folder'["before-restore"]) = Len(s) + 1
          /\ \A x \in 1 .. Len(s) : folder'["before-restore"][x] = s[x]
          /\ folder'["before-restore"][Len(s) + 1] = own
      BY <1>1, <1>4, <1>5, <2>3, AppendProperties
    <3>2. k \in 1 .. Len(s) /\ s[k].name = job[i].name
      <4>1. job[i].name # made + 1
        BY <1>1, <1>6, <2>1
      <4>2. k # Len(s) + 1
        BY <1>5, <1>8, <2>1, <3>1, <4>1
      <4>3. k \in 1 .. Len(s)
        BY <1>1, <3>1, <4>2
      <4>4. QED
        BY <1>8, <2>1, <3>1, <4>3
    <3>3. Len(s) - k <= Cardinality(Behind(i)) + failures
      BY <1>8, <2>1, <3>2 DEF FewBehind, s
    <3>4. Now = Behind(i) \cup {j} /\ j \notin Behind(i)
      BY <1>1, <1>2, <1>3, <1>6, <2>1, <2>3 DEF Behind, Active
    <3>5. Cardinality(Now) = Cardinality(Behind(i)) + 1
      BY <2>2, <3>4, FS_AddElement
    <3> HIDE DEF Now
    <3>6. QED
      BY <1>1, <1>2, <2>2, <3>1, <3>2, <3>3, <3>5 DEF Now
  <2>4. CASE kind # "restore"
    <3>1. folder'["before-restore"] = s
      BY <1>4, <2>4
    <3>2. Len(s) - k <= Cardinality(Behind(i)) + failures
      BY <1>8, <2>1, <3>1 DEF FewBehind, s
    <3>3. Now = Behind(i)
      BY <1>2, <1>3, <2>1, <2>4 DEF Behind, Active
    <3>4. QED
      BY <1>2, <3>1, <3>2, <3>3
  <2>5. QED
    BY <2>3, <2>4
<1>12. QED
  BY <1>10, <1>11

LEMMA FewBehindStep ==
    ASSUME Roomy, IInv, FewBehind, [Next]_vars
    PROVE  FewBehind'
<1>1. IsFiniteSet(Jobs)
  BY DEF Roomy
<1>2. ASSUME folder' = folder, job' = job, failures' = failures PROVE FewBehind'
  BY <1>2 DEF FewBehind, Behind
<1>3. ASSUME job' = AllRejected PROVE FewBehind'
  <2>1. \A j \in Jobs : job'[j].kind = "none"
    BY <1>3 DEF AllRejected, Idle
  <2>2. QED
    BY <2>1 DEF FewBehind
<1>4. ASSUME NEW j \in Jobs, Start(j) PROVE FewBehind'
  <2>1. \E kind \in {"backup", "restore", "delete"} : \E choice : Begin(j, kind, choice)
    BY <1>4 DEF Start, StartBackup, StartDelete, StartRestore
  <2>2. QED
    BY <1>1, <2>1, FewBehindBegins
<1>5. ASSUME NEW j \in Jobs, FinishBackup(j) PROVE FewBehind'
  <2>1. Active(j) /\ Place(j) = "auto" /\ job[j].kind # "restore" /\ failures' = failures
        /\ folder' = Stored(j) /\ job' = [job EXCEPT ![j] = Idle]
    BY <1>5 DEF FinishBackup, Active, Place, FolderOf
  <2>2. folder'["before-restore"] = folder["before-restore"]
    BY <2>1, StoredIs DEF Folders
  <2>3. QED
    BY <1>1, <2>1, <2>2, FewBehindEnds
<1>6. ASSUME NEW j \in Jobs, BackupFails(j) PROVE FewBehind'
  <2>1. failures' = failures + 1 /\ job' = [job EXCEPT ![j] = Idle] /\ folder' = folder
    BY <1>6 DEF BackupFails, LeftBehind, IInv, TypeOK, FolderOf, Folders
  <2>2. QED
    BY <1>1, <2>1, FewBehindEnds
<1>7. ASSUME NEW j \in Jobs, Finish(j) PROVE FewBehind'
  BY <1>3, <1>5, <1>6, <1>7 DEF Finish, FinishRestore, FinishDelete
<1>8. CASE Stop
  BY <1>3, <1>8 DEF Stop, Crash, CrashInRestore, CrashInDelete, Down
<1>9. CASE Startup
  BY <1>2, <1>9 DEF Startup
<1>10. ASSUME NEW c \in Data, Write(c) PROVE FewBehind'
  BY <1>2, <1>10 DEF Write
<1>11. CASE UNCHANGED vars
  BY <1>2, <1>11 DEF vars
<1>12. QED
  BY <1>4, <1>7, <1>8, <1>9, <1>10, <1>11 DEF Next

-----------------------------------------------------------------------------
(* Steps                                                                    *)

\* A finished backup is never dropped without a newer one in its place.
LEMMA KeepsACopyStep ==
    ASSUME IInv, Room, [Next]_vars, NEW d \in Folders, \E b \in Range(folder[d]) : b.done
    PROVE  \E b \in Range(folder'[d]) : b.done
<1>1. folder[d] \in Seq(Backup) /\ folder \in [Folders -> Seq(Backup)]
  BY DEF IInv, TypeOK
<1>2. ASSUME folder'[d] = folder[d] PROVE \E b \in Range(folder'[d]) : b.done
  BY <1>2
<1>3. ASSUME NEW j \in Jobs, Active(j), folder' = Stored(j)
      PROVE  \E b \in Range(folder'[d]) : b.done
  <2>1. CASE d = Place(j)
    BY <1>3, <2>1, OwnIsStored DEF Range
  <2>2. CASE d # Place(j)
    BY <1>2, <1>3, <2>2, StoredIs
  <2>3. QED
    BY <2>1, <2>2
<1>4. ASSUME NEW j \in Jobs, NEW kind, NEW choice, Begin(j, kind, choice)
      PROVE  \E b \in Range(folder'[d]) : b.done
  <2> DEFINE own == [name |-> made', content |-> Torn, done |-> FALSE]
  <2>1. folder' = [folder EXCEPT ![FolderOf(kind)] = Append(@, own)] /\ made' = made + 1
    BY <1>4 DEF Begin
  <2>2. own \in Backup
    BY <2>1, Bounds DEF IInv, TypeOK, Backup
  <2> HIDE DEF own
  <2>3. CASE d = FolderOf(kind)
    <3>1. folder'[d] = Append(folder[d], own)
      BY <1>1, <2>1, <2>3
    <3>2. /\ Append(folder[d], own) \in Seq(Backup)
          /\ Len(Append(folder[d], own)) = Len(folder[d]) + 1
          /\ \A i \in 1 .. Len(folder[d]) : Append(folder[d], own)[i] = folder[d][i]
      BY <1>1, <2>2, AppendProperties
    <3>3. PICK k \in 1 .. Len(folder[d]) : folder[d][k].done
      BY <1>1 DEF Range
    <3>4. Len(folder[d]) \in Nat /\ k \in DOMAIN folder'[d]
      BY <1>1, <3>1, <3>2
    <3>5. folder'[d][k] = folder[d][k]
      BY <3>1, <3>2
    <3>6. QED
      BY <3>3, <3>4, <3>5 DEF Range
  <2>4. CASE d # FolderOf(kind)
    BY <1>1, <1>2, <2>1, <2>4
  <2>5. QED
    BY <2>3, <2>4
<1>5. ASSUME NEW j \in Jobs, Start(j) PROVE \E b \in Range(folder'[d]) : b.done
  <2>1. \E kind, choice : Begin(j, kind, choice)
    BY <1>5 DEF Start, StartBackup, StartDelete, StartRestore
  <2>2. QED
    BY <1>4, <2>1
<1>6. ASSUME NEW j \in Jobs, Finish(j) PROVE \E b \in Range(folder'[d]) : b.done
  <2>1. CASE FinishBackup(j) \/ FinishRestore(j) \/ FinishDelete(j)
    BY <1>3, <2>1 DEF FinishBackup, FinishRestore, FinishDelete, Active
  <2>2. CASE BackupFails(j)
    BY <1>1, <1>2, <2>2 DEF BackupFails, LeftBehind, FolderOf, Folders
  <2>3. QED
    BY <1>6, <2>1, <2>2 DEF Finish
<1>7. CASE Stop
  BY <1>2, <1>3, <1>7 DEF Stop, Crash, CrashInRestore, CrashInDelete, Active
<1>8. CASE Startup
  BY <1>2, <1>8 DEF Startup
<1>9. ASSUME NEW c \in Data, Write(c) PROVE \E b \in Range(folder'[d]) : b.done
  BY <1>2, <1>9 DEF Write
<1>10. CASE UNCHANGED vars
  BY <1>2, <1>10 DEF vars
<1>11. QED
  BY <1>5, <1>6, <1>7, <1>8, <1>9, <1>10 DEF Next

\* Whoever replaces or removes the database has just stored all of it.
LEMMA ReplacedStep ==
    ASSUME IInv, Room, Next, file' # file, job' # job
    PROVE  CopyOf(file, folder')
<1>1. ASSUME NEW j \in Jobs, Active(j), folder' = Stored(j) PROVE CopyOf(file, folder')
  <2>1. Place(j) \in Folders
    BY DEF Place, FolderOf, Folders
  <2>2. QED
    BY <1>1, <2>1, OwnIsStored DEF CopyOf, Range
<1>2. ASSUME NEW j \in Jobs, Start(j) PROVE FALSE
  BY <1>2 DEF Start, StartBackup, StartDelete, StartRestore, Begin
<1>3. ASSUME NEW j \in Jobs, Finish(j) PROVE CopyOf(file, folder')
  BY <1>1, <1>3 DEF Finish, FinishBackup, BackupFails, FinishRestore, FinishDelete, Active
<1>4. CASE Stop
  BY <1>1, <1>4 DEF Stop, Crash, CrashInRestore, CrashInDelete, Active
<1>5. CASE Startup
  BY <1>5 DEF Startup
<1>6. ASSUME NEW c \in Data, Write(c) PROVE FALSE
  BY <1>6 DEF Write
<1>7. QED
  BY <1>2, <1>3, <1>4, <1>5, <1>6 DEF Next

-----------------------------------------------------------------------------

LEMMA InvariantHolds == Spec /\ []Room => []IInv
BY InitHolds, NextStep, PTL DEF Spec

\* With few enough backups under way, every backup has room when it is finished.
THEOREM RoomHolds == ASSUME Roomy PROVE Spec => []Room
<1>1. IInv /\ FewBehind /\ [Next]_vars => IInv' /\ FewBehind'
  BY FewBehindIsRoom, NextStep, FewBehindStep
<1>2. IInv /\ FewBehind => Room
  BY FewBehindIsRoom
<1>3. QED
  BY <1>1, <1>2, InitHolds, FewBehindInit, PTL DEF Spec

\* F-100 of the source: with room, no step pushes the last usable backup out of its folder.
THEOREM UsableBackupStays == Spec /\ []Room => KeepsACopy
<1>1. IInv /\ Room /\ [Next]_vars
         => [\A d \in Folders : (\E b \in Range(folder[d]) : b.done)
                 => \E b \in Range(folder'[d]) : b.done]_vars
  BY KeepsACopyStep
<1>2. QED
  BY <1>1, InvariantHolds, PTL DEF Spec, KeepsACopy

\* F-101, F-130: with room, what replaces or removes the database leaves a copy of it.
THEOREM ReplacedLeavesCopy == Spec /\ []Room => ReplacedOnlyWithCopy
<1>1. IInv /\ Room /\ [Next]_vars
         => [file' # file /\ job' # job => CopyOf(file, folder')]_vars
  BY ReplacedStep
<1>2. QED
  BY <1>1, InvariantHolds, PTL DEF Spec, ReplacedOnlyWithCopy

-----------------------------------------------------------------------------
(* The scans of expenses                                                    *)

Rows == [path : X!Paths \cup {X!NoPath}, chosen : Scans \cup {NoScan},
         own : BOOLEAN, live : BOOLEAN]

\* Rows, the next number and files that fit: the rows the program gave their number lie below
\* the next one, and what they name is there, as long as what was chosen.
Fit(rows, next, files) ==
    /\ rows \in [DOMAIN rows -> Rows] /\ DOMAIN rows \subseteq 1 .. MaxNumber
    /\ next \in 1 .. MaxNumber + 1
    /\ files \in [X!Paths -> Scans \cup {NoScan}]
    /\ \A n \in DOMAIN rows :
          /\ rows[n].path = X!PathFor(n, rows[n].chosen, X!NoPath)
          /\ rows[n].own => n < next
          /\ rows[n].own /\ rows[n].chosen # NoScan =>
                /\ files[rows[n].path] # NoScan
                /\ Size[files[rows[n].path]] = Size[rows[n].chosen]

\* Until something is restored, what they name is what was chosen.
Exact ==
    \A n \in DOMAIN expense :
        expense[n].own /\ expense[n].chosen # NoScan =>
            attachments[expense[n].path] = expense[n].chosen

Snapshots ==
    {s \in [expense : UNION {[D -> Rows] : D \in SUBSET (1 .. MaxNumber)},
            sequence : Nat, folder : [X!Paths -> Scans \cup {NoScan}]] :
        Fit(s.expense, s.sequence, s.folder)}

\* So did what was backed up.
ScanInv ==
    /\ Fit(expense, sequence, attachments)
    /\ backups \in Seq(Snapshots) /\ Len(backups) <= MaxCopies
    /\ restored \in BOOLEAN
    /\ ~restored => Exact

-----------------------------------------------------------------------------

LEMMA PathNamesNumber ==
    ASSUME NEW n \in 1 .. MaxNumber, NEW f \in Scans
    PROVE  /\ X!PathFor(n, f, X!NoPath) = <<n, Extension[f]>>
           /\ <<n, Extension[f]>> \in X!Paths /\ <<n, Extension[f]>> # X!NoPath
<1>1. f # NoScan
  BY ScansGiven DEF X!FileConstants
<1>2. 0 \notin 1 .. MaxNumber
  BY ScansGiven DEF X!FileConstants
<1>3. QED
  BY <1>1, <1>2 DEF X!PathFor, X!PathOf, X!Paths, X!NoPath

\* Storing a file under a number leaves the files of the others.
LEMMA StoreLeavesOthers ==
    ASSUME NEW n \in 1 .. MaxNumber, NEW f \in Scans \cup {NoScan},
           attachments \in [X!Paths -> Scans \cup {NoScan}]
    PROVE  /\ X!StoreAttachment(n, f) \in [X!Paths -> Scans \cup {NoScan}]
           /\ f = NoScan => X!StoreAttachment(n, f) = attachments
           /\ f # NoScan => X!StoreAttachment(n, f)[X!PathFor(n, f, X!NoPath)] = f
           /\ \A m \in 1 .. MaxNumber : \A g \in Scans :
                 m # n => X!StoreAttachment(n, f)[X!PathFor(m, g, X!NoPath)]
                            = attachments[X!PathFor(m, g, X!NoPath)]
<1>1. CASE f = NoScan
  BY <1>1 DEF X!StoreAttachment
<1>2. CASE f # NoScan
  <2>1. X!StoreAttachment(n, f) = [attachments EXCEPT ![<<n, Extension[f]>>] = f]
    BY <1>2 DEF X!StoreAttachment, X!PathOf
  <2>2. \A m \in 1 .. MaxNumber : \A g \in Scans :
            X!PathFor(m, g, X!NoPath) = <<m, Extension[g]>> /\ <<m, Extension[g]>> \in X!Paths
    BY PathNamesNumber
  <2>3. X!PathFor(n, f, X!NoPath) = <<n, Extension[f]>> /\ <<n, Extension[f]>> \in X!Paths
    BY <1>2, <2>2
  <2>4. ASSUME NEW m \in 1 .. MaxNumber, NEW g \in Scans, m # n
        PROVE  X!StoreAttachment(n, f)[X!PathFor(m, g, X!NoPath)]
                  = attachments[X!PathFor(m, g, X!NoPath)]
    <3>1. /\ X!PathFor(m, g, X!NoPath) = <<m, Extension[g]>>
          /\ <<m, Extension[g]>> \in X!Paths
      BY <2>2
    <3>2. <<m, Extension[g]>> # <<n, Extension[f]>>
      BY <2>4
    <3>3. QED
      BY <2>1, <2>3, <3>1, <3>2
  <2>5. X!StoreAttachment(n, f) \in [X!Paths -> Scans \cup {NoScan}]
        /\ X!StoreAttachment(n, f)[X!PathFor(n, f, X!NoPath)] = f
    BY <1>2, <2>1, <2>3
  <2>6. QED
    BY <1>2, <2>4, <2>5
<1>3. QED
  BY <1>1, <1>2

LEMMA ScanInit == X!Init => ScanInv
<1> SUFFICES ASSUME X!Init PROVE ScanInv
  OBVIOUS
<1>1. /\ DOMAIN expense = {} /\ sequence = 1 /\ backups = <<>> /\ restored = FALSE
      /\ attachments = [path \in X!Paths |-> NoScan]
      /\ expense = [n \in {} |-> X!Row(X!NoPath, NoScan, TRUE)]
  BY DEF X!Init
<1>2. {MaxNumber, MaxCopies} \subseteq Nat
  BY ScansGiven DEF X!FileConstants
<1>3. Fit(expense, sequence, attachments)
  BY <1>1, <1>2 DEF Fit
<1>4. backups \in Seq(Snapshots) /\ Len(backups) = 0
  BY <1>1, EmptySeq
<1>5. Len(backups) <= MaxCopies
  BY <1>2, <1>4
<1>6. Exact
  BY <1>1 DEF Exact
<1>7. QED
  BY <1>1, <1>3, <1>4, <1>5, <1>6 DEF ScanInv

\* Every backup is of rows and files that fit.
LEMMA CopyStep ==
    ASSUME ScanInv, X!CreateBackup
    PROVE  backups' \in Seq(Snapshots) /\ Len(backups') <= MaxCopies
<1>1. X!Snapshot \in Snapshots
  <2>1. expense \in UNION {[D -> Rows] : D \in SUBSET (1 .. MaxNumber)}
    <3>1. DOMAIN expense \in SUBSET (1 .. MaxNumber) /\ expense \in [DOMAIN expense -> Rows]
      BY DEF ScanInv, Fit
    <3> DEFINE D == DOMAIN expense
    <3>2. [D -> Rows] \in {[E -> Rows] : E \in SUBSET (1 .. MaxNumber)}
      BY <3>1
    <3>3. QED
      BY <3>1, <3>2
  <2>2. sequence \in Nat
    BY ScansGiven DEF ScanInv, Fit, X!FileConstants
  <2>3. QED
    BY <2>1, <2>2 DEF Snapshots, X!Snapshot, ScanInv, Fit
<1>2. MaxCopies \in Nat /\ backups \in Seq(Snapshots) /\ Len(backups) <= MaxCopies
  BY ScansGiven DEF ScanInv, X!FileConstants
<1>3. CASE Len(backups) < MaxCopies
  <2>1. backups' = Append(backups, X!Snapshot)
    BY <1>3 DEF X!CreateBackup
  <2>2. backups' \in Seq(Snapshots) /\ Len(backups') = Len(backups) + 1
    BY <1>1, <1>2, <2>1, AppendProperties
  <2>3. QED
    BY <1>2, <1>3, <2>2
<1>4. CASE ~(Len(backups) < MaxCopies)
  BY <1>2, <1>4 DEF X!CreateBackup
<1>5. QED
  BY <1>3, <1>4

LEMMA CreateStep ==
    ASSUME ScanInv, NEW f \in Scans \cup {NoScan}, X!CreateExpense(f), UNCHANGED <<backups, restored>>
    PROVE  ScanInv'
<1> DEFINE row == X!Row(X!PathFor(sequence, f, X!NoPath), f, TRUE)
<1>1. /\ MaxNumber \in Nat /\ sequence \in 1 .. MaxNumber
      /\ expense \in [DOMAIN expense -> Rows] /\ DOMAIN expense \subseteq 1 .. MaxNumber
      /\ attachments \in [X!Paths -> Scans \cup {NoScan}]
  BY ScansGiven DEF ScanInv, Fit, X!CreateExpense, X!FileConstants
<1>2. attachments' = X!StoreAttachment(sequence, f)
  BY DEF X!CreateExpense
<1>3. attachments' \in [X!Paths -> Scans \cup {NoScan}]
  BY <1>1, <1>2, StoreLeavesOthers
<1>4. ASSUME NEW n \in DOMAIN expense, expense[n].own, expense[n].chosen # NoScan
      PROVE  n < sequence /\ attachments'[expense[n].path] = attachments[expense[n].path]
  <2>1. n < sequence /\ n \in 1 .. MaxNumber /\ expense[n].chosen \in Scans
    BY <1>1, <1>4 DEF ScanInv, Fit, Rows
  <2>2. expense[n].path = X!PathFor(n, expense[n].chosen, X!NoPath)
    BY DEF ScanInv, Fit
  <2>3. n # sequence
    BY <1>1, <2>1
  <2>4. QED
    BY <1>1, <1>2, <2>1, <2>2, <2>3, StoreLeavesOthers
<1>5. CASE sequence \in DOMAIN expense
  <2>1. expense' = expense /\ sequence' = sequence
    BY <1>5 DEF X!CreateExpense
  <2>2. Fit(expense', sequence', attachments')
    BY <1>1, <1>3, <1>4, <2>1 DEF ScanInv, Fit
  <2>3. ~restored => Exact'
    BY <1>4, <2>1 DEF ScanInv, Exact
  <2>4. QED
    BY <2>2, <2>3 DEF ScanInv
<1>6. CASE sequence \notin DOMAIN expense
  <2>1. expense' = X!WithRow(expense, sequence, row) /\ sequence' = sequence + 1
    BY <1>6 DEF X!CreateExpense
  <2>2. /\ row.path = X!PathFor(sequence, f, X!NoPath) /\ row.chosen = f /\ row.own
        /\ row \in Rows
    <3>1. X!PathFor(sequence, f, X!NoPath) \in X!Paths \cup {X!NoPath}
      BY <1>1, PathNamesNumber DEF X!PathFor
    <3>2. QED
      BY <3>1 DEF X!Row, Rows
  <2> HIDE DEF row
  <2>3. DOMAIN expense' = DOMAIN expense \cup {sequence}
    BY <2>1 DEF X!WithRow
  <2>4. expense'[sequence] = row /\ \A n \in DOMAIN expense : expense'[n] = expense[n]
    BY <1>6, <2>1 DEF X!WithRow
  <2>5. expense' \in [DOMAIN expense' -> Rows]
    <3>1. expense' = [n \in DOMAIN expense' |-> expense'[n]]
      BY <2>1 DEF X!WithRow
    <3>2. \A n \in DOMAIN expense' : expense'[n] \in Rows
      BY <1>1, <2>2, <2>3, <2>4
    <3>3. QED
      BY <3>1, <3>2
  <2>6. f # NoScan => attachments'[row.path] = f
    BY <1>1, <1>2, <2>2, StoreLeavesOthers
  <2>7. ASSUME NEW n \in DOMAIN expense'
        PROVE  /\ expense'[n].path = X!PathFor(n, expense'[n].chosen, X!NoPath)
               /\ expense'[n].own => n < sequence + 1
               /\ expense'[n].own /\ expense'[n].chosen # NoScan =>
                     /\ attachments'[expense'[n].path] # NoScan
                     /\ Size[attachments'[expense'[n].path]] = Size[expense'[n].chosen]
                     /\ ~restored => attachments'[expense'[n].path] = expense'[n].chosen
    <3>1. CASE n = sequence
      BY <1>1, <2>2, <2>4, <2>6, <3>1
    <3>2. CASE n # sequence
      <4>1. n \in DOMAIN expense /\ expense'[n] = expense[n]
        BY <2>3, <2>4, <3>2
      <4>2. n \in Nat /\ sequence \in Nat
        BY <1>1, <4>1
      <4>3. QED
        BY <1>4, <4>1, <4>2 DEF ScanInv, Fit, Exact
    <3>3. QED
      BY <3>1, <3>2
  <2>8. sequence + 1 \in 1 .. MaxNumber + 1 /\ DOMAIN expense' \subseteq 1 .. MaxNumber
    BY <1>1, <2>3
  <2>9. Fit(expense', sequence', attachments') /\ (~restored => Exact')
    BY <1>3, <2>1, <2>5, <2>7, <2>8 DEF Fit, Exact
  <2>10. QED
    BY <2>9 DEF ScanInv
<1>7. QED
  BY <1>5, <1>6

LEMMA UpdateStep ==
    ASSUME ScanInv, NEW f \in Scans \cup {NoScan}, NEW number \in DOMAIN expense,
           X!UpdateExpense(number, f), UNCHANGED <<backups, restored>>
    PROVE  ScanInv'
<1> DEFINE row == expense[number]
           chosen == IF f = NoScan THEN row.chosen ELSE f
           new == [row EXCEPT !.path = X!PathFor(number, f, row.path), !.chosen = chosen]
<1>1. /\ number \in 1 .. MaxNumber /\ row \in Rows
      /\ expense \in [DOMAIN expense -> Rows] /\ DOMAIN expense \subseteq 1 .. MaxNumber
      /\ attachments \in [X!Paths -> Scans \cup {NoScan}]
      /\ row.path = X!PathFor(number, row.chosen, X!NoPath)
  BY DEF ScanInv, Fit
<1>2. /\ attachments' = X!StoreAttachment(number, f) /\ sequence' = sequence
      /\ expense' = [expense EXCEPT ![number] = new]
  BY <1>1 DEF X!UpdateExpense, Rows
<1>3. attachments' \in [X!Paths -> Scans \cup {NoScan}]
  BY <1>1, <1>2, StoreLeavesOthers
<1>4. /\ new \in Rows /\ new.own = row.own /\ new.chosen = chosen
      /\ new.path = X!PathFor(number, chosen, X!NoPath)
  <2>1. CASE f = NoScan
    <3>1. X!PathFor(number, f, row.path) = row.path
      BY <2>1 DEF X!PathFor
    <3>2. QED
      BY <1>1, <2>1, <3>1 DEF Rows
  <2>2. CASE f # NoScan
    <3>1. X!PathFor(number, f, row.path) = X!PathFor(number, f, X!NoPath)
          /\ X!PathFor(number, f, X!NoPath) \in X!Paths
      BY <1>1, <2>2, PathNamesNumber DEF X!PathFor
    <3>2. QED
      BY <1>1, <2>2, <3>1 DEF Rows
  <2>3. QED
    BY <2>1, <2>2
<1>5. attachments'[new.path] = IF f = NoScan THEN attachments[row.path] ELSE f
  <2> HIDE DEF row, new
  <2>1. CASE f = NoScan
    <3>1. attachments' = attachments
      BY <1>1, <1>2, <2>1, StoreLeavesOthers
    <3>2. QED
      BY <1>1, <1>4, <2>1, <3>1
  <2>2. CASE f # NoScan
    <3>1. chosen = f
      BY <2>2
    <3>2. QED
      BY <1>1, <1>2, <1>4, <2>2, <3>1, StoreLeavesOthers
  <2>3. QED
    BY <2>1, <2>2
<1>6. \A n \in DOMAIN expense : expense'[n] = IF n = number THEN new ELSE expense[n]
  BY <1>1, <1>2
<1>7. DOMAIN expense' = DOMAIN expense /\ expense' \in [DOMAIN expense' -> Rows]
  BY <1>1, <1>2, <1>4
<1>8. ASSUME NEW n \in DOMAIN expense
      PROVE  /\ expense'[n].path = X!PathFor(n, expense'[n].chosen, X!NoPath)
             /\ expense'[n].own => n < sequence
             /\ expense'[n].own /\ expense'[n].chosen # NoScan =>
                   /\ attachments'[expense'[n].path] # NoScan
                   /\ Size[attachments'[expense'[n].path]] = Size[expense'[n].chosen]
                   /\ ~restored => attachments'[expense'[n].path] = expense'[n].chosen
  <2>1. CASE n = number
    <3>1. expense'[n] = new
      BY <1>6, <2>1
    <3>2. row.own => number < sequence
      BY DEF ScanInv, Fit
    <3>3. row.own /\ row.chosen # NoScan =>
              /\ attachments[row.path] # NoScan /\ Size[attachments[row.path]] = Size[row.chosen]
              /\ ~restored => attachments[row.path] = row.chosen
      BY DEF ScanInv, Fit, Exact
    <3> HIDE DEF new, row
    <3>4. QED
      BY <1>4, <1>5, <2>1, <3>1, <3>2, <3>3
  <2>2. CASE n # number
    <3>1. expense'[n] = expense[n] /\ n \in 1 .. MaxNumber
      BY <1>1, <1>6, <2>2
    <3>2. ASSUME expense[n].chosen # NoScan
          PROVE  attachments'[expense[n].path] = attachments[expense[n].path]
      <4>1. expense[n].chosen \in Scans
        BY <1>1, <3>2 DEF Rows
      <4>2. expense[n].path = X!PathFor(n, expense[n].chosen, X!NoPath)
        BY DEF ScanInv, Fit
      <4>3. QED
        BY <1>1, <1>2, <2>2, <3>1, <4>1, <4>2, StoreLeavesOthers
    <3>3. QED
      BY <3>1, <3>2 DEF ScanInv, Fit, Exact
  <2>3. QED
    BY <2>1, <2>2
<1>9. Fit(expense', sequence', attachments') /\ (~restored => Exact')
  <2> HIDE DEF new, row
  <2>1. QED
    BY <1>1, <1>2, <1>3, <1>7, <1>8 DEF Fit, Exact, ScanInv
<1>10. QED
  BY <1>9 DEF ScanInv

LEMMA DeleteStep == ASSUME ScanInv, X!DeleteExpense PROVE ScanInv'
<1> PICK number \in DOMAIN expense : expense' = [expense EXCEPT ![number].live = FALSE]
  BY DEF X!DeleteExpense
<1>1. UNCHANGED <<sequence, attachments, backups, restored>>
  BY DEF X!DeleteExpense
<1>2. expense \in [DOMAIN expense -> Rows]
  BY DEF ScanInv, Fit
<1>3. \A n \in DOMAIN expense :
         /\ expense'[n] \in Rows /\ expense'[n].path = expense[n].path
         /\ expense'[n].chosen = expense[n].chosen /\ expense'[n].own = expense[n].own
  BY <1>2 DEF Rows
<1>4. DOMAIN expense' = DOMAIN expense /\ expense' \in [DOMAIN expense' -> Rows]
  BY <1>2, <1>3
<1>5. Fit(expense', sequence', attachments')
  BY <1>1, <1>3, <1>4 DEF ScanInv, Fit
<1>6. ~restored => Exact'
  BY <1>1, <1>3, <1>4 DEF ScanInv, Exact
<1>7. QED
  BY <1>1, <1>5, <1>6 DEF ScanInv

LEMMA ImportStep == ASSUME ScanInv, X!ImportExpense PROVE ScanInv'
<1> DEFINE row == X!Row(X!NoPath, NoScan, FALSE)
<1> PICK number \in SheetNumbers, kept \in {DOMAIN expense, {}} :
         number \notin kept /\ expense' = X!WithRow(X!Restrict(expense, kept), number, row)
  BY DEF X!ImportExpense
<1>1. UNCHANGED <<sequence, attachments, backups, restored>>
  BY DEF X!ImportExpense
<1>2. /\ expense \in [DOMAIN expense -> Rows] /\ DOMAIN expense \subseteq 1 .. MaxNumber
      /\ number \in 1 .. MaxNumber /\ kept \subseteq DOMAIN expense
  BY ScansGiven DEF ScanInv, Fit, X!FileConstants
<1>3. row \in Rows /\ row.path = X!NoPath /\ row.chosen = NoScan /\ row.own = FALSE
  BY DEF X!Row, Rows
<1> HIDE DEF row
<1>4. DOMAIN expense' = {number} \cup kept
  BY DEF X!WithRow, X!Restrict
<1>5. expense'[number] = row /\ \A n \in kept : expense'[n] = expense[n]
  BY DEF X!WithRow, X!Restrict
<1>6. expense' \in [DOMAIN expense' -> Rows]
  <2>1. expense' = [n \in DOMAIN expense' |-> expense'[n]]
    BY DEF X!WithRow, X!Restrict
  <2>2. \A n \in DOMAIN expense' : expense'[n] \in Rows
    BY <1>2, <1>3, <1>4, <1>5
  <2>3. QED
    BY <2>1, <2>2
<1>7. X!PathFor(number, NoScan, X!NoPath) = X!NoPath
  BY DEF X!PathFor
<1>8. Fit(expense', sequence', attachments')
  BY <1>1, <1>2, <1>3, <1>4, <1>5, <1>6, <1>7 DEF ScanInv, Fit
<1>9. ~restored => Exact'
  BY <1>1, <1>2, <1>3, <1>4, <1>5 DEF ScanInv, Exact
<1>10. QED
  BY <1>1, <1>8, <1>9 DEF ScanInv

LEMMA RestoreStep == ASSUME ScanInv, X!Restore PROVE ScanInv'
<1> PICK k \in DOMAIN backups :
         /\ expense' = backups[k].expense /\ sequence' = backups[k].sequence
         /\ attachments' = X!CopyTree(backups[k].folder, attachments)
  BY DEF X!Restore
<1> DEFINE source == backups[k].folder
<1>1. X!CreateBackup /\ restored' = TRUE
  BY DEF X!Restore
<1>2. backups[k] \in Snapshots
  BY DEF ScanInv
<1>3. Fit(expense', sequence', source)
  BY <1>2 DEF Snapshots
<1>4. attachments \in [X!Paths -> Scans \cup {NoScan}] /\ source \in [X!Paths -> Scans \cup {NoScan}]
  BY <1>2 DEF ScanInv, Fit, Snapshots
<1> HIDE DEF source
<1>5. attachments' = [path \in X!Paths |->
          IF \/ source[path] = NoScan
             \/ attachments[path] # NoScan /\ Size[attachments[path]] = Size[source[path]]
          THEN attachments[path] ELSE source[path]]
  BY DEF X!CopyTree, source
<1>6. attachments' \in [X!Paths -> Scans \cup {NoScan}]
  BY <1>4, <1>5
<1>7. \A path \in X!Paths : source[path] # NoScan =>
         attachments'[path] # NoScan /\ Size[attachments'[path]] = Size[source[path]]
  BY <1>4, <1>5
<1>8. ASSUME NEW n \in DOMAIN expense', expense'[n].own, expense'[n].chosen # NoScan
      PROVE  /\ attachments'[expense'[n].path] # NoScan
             /\ Size[attachments'[expense'[n].path]] = Size[expense'[n].chosen]
  <2>1. /\ n \in 1 .. MaxNumber /\ expense'[n].chosen \in Scans
        /\ expense'[n].path = X!PathFor(n, expense'[n].chosen, X!NoPath)
        /\ source[expense'[n].path] # NoScan
        /\ Size[source[expense'[n].path]] = Size[expense'[n].chosen]
    BY <1>3, <1>8 DEF Fit, Rows
  <2>2. expense'[n].path \in X!Paths
    BY <2>1, PathNamesNumber
  <2>3. QED
    BY <1>7, <2>1, <2>2
<1>9. Fit(expense', sequence', attachments')
  BY <1>3, <1>6, <1>8 DEF Fit
<1>10. QED
  BY <1>1, <1>9, CopyStep DEF ScanInv

LEMMA DeleteDatabaseStep == ASSUME ScanInv, X!DeleteDatabase PROVE ScanInv'
<1>1. /\ DOMAIN expense' = {} /\ expense' = [n \in {} |-> X!Row(X!NoPath, NoScan, TRUE)]
      /\ sequence' = 1 /\ UNCHANGED <<attachments, restored>> /\ X!CreateBackup
  BY DEF X!DeleteDatabase
<1>2. MaxNumber \in Nat /\ attachments \in [X!Paths -> Scans \cup {NoScan}]
  BY ScansGiven DEF X!FileConstants, ScanInv, Fit
<1>3. Fit(expense', sequence', attachments')
  BY <1>1, <1>2 DEF Fit
<1>4. Exact'
  BY <1>1 DEF Exact
<1>5. QED
  BY <1>1, <1>3, <1>4, CopyStep DEF ScanInv

LEMMA ScanStep == ScanInv /\ [X!Next]_(X!vars) => ScanInv'
<1> SUFFICES ASSUME ScanInv, [X!Next]_(X!vars) PROVE ScanInv'
  OBVIOUS
<1>1. CASE X!Submit
  <2>1. UNCHANGED <<backups, restored>>
    BY <1>1 DEF X!Submit
  <2>2. PICK f \in Scans \cup {NoScan} :
            \/ X!CreateExpense(f)
            \/ \E number \in DOMAIN expense : X!UpdateExpense(number, f)
    BY <1>1 DEF X!Submit
  <2>3. QED
    BY <2>1, <2>2, CreateStep, UpdateStep
<1>2. CASE X!Backup
  <2>1. UNCHANGED <<expense, sequence, attachments, restored>> /\ X!CreateBackup
    BY <1>2 DEF X!Backup
  <2>2. QED
    BY <2>1, CopyStep DEF ScanInv, Exact
<1>3. CASE UNCHANGED X!vars
  BY <1>3 DEF X!vars, ScanInv, Exact
<1>4. QED
  BY <1>1, <1>2, <1>3, DeleteStep, ImportStep, RestoreStep, DeleteDatabaseStep DEF X!Next

LEMMA ScanInvTells == ScanInv => ScanIsItsOwn /\ X!TypeOK
<1> SUFFICES ASSUME ScanInv PROVE ScanIsItsOwn /\ X!TypeOK
  OBVIOUS
<1>1. ASSUME NEW n \in DOMAIN expense, expense[n].own, expense[n].path # X!NoPath
      PROVE  /\ attachments[expense[n].path] # NoScan
             /\ \/ attachments[expense[n].path] = expense[n].chosen
                \/ restored /\ Size[attachments[expense[n].path]] = Size[expense[n].chosen]
  <2>1. expense[n].path = X!PathFor(n, expense[n].chosen, X!NoPath)
    BY DEF ScanInv, Fit
  <2>2. expense[n].chosen # NoScan
    BY <1>1, <2>1 DEF X!PathFor
  <2>3. QED
    BY <1>1, <2>2 DEF ScanInv, Fit, Exact
<1>2. ScanIsItsOwn
  BY <1>1 DEF ScanIsItsOwn, X!ScanIsItsOwn
<1>3. X!TypeOK
  BY DEF X!TypeOK, ScanInv, Fit, Rows
<1>4. QED
  BY <1>2, <1>3

\* F-61 of the source: an expense the program gave its number shows the scan that was chosen
\* for it, or after a restore one exactly as long.
THEOREM ScansStay == X!Spec => []ScanIsItsOwn
BY ScanInit, ScanStep, ScanInvTells, PTL DEF X!Spec

\* The variables of both parts keep their types.
THEOREM BackupsTypeCorrect == Spec /\ []Room /\ X!Spec => []BackupsTypeOK
<1>1. IInv /\ ScanInv => BackupsTypeOK
  BY ScanInvTells DEF IInv, BackupsTypeOK
<1>2. QED
  BY <1>1, InvariantHolds, ScanInit, ScanStep, PTL DEF X!Spec
=============================================================================
