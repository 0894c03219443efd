-------------------------- MODULE VowCatalogProofs --------------------------
(***************************************************************************)
(* Theorems about VowCatalog, for every set of items and occasions and any *)
(* number of vows.                                                         *)
(*                                                                         *)
(* A vow is only recorded for an item that exists (the foreign key), and   *)
(* an item only loses its row while no vow, deleted ones included, points  *)
(* to it; every other step keeps the rows there are.                       *)
(*                                                                         *)
(* What the two reports count follows from the types alone: a row of the   *)
(* honours report is a vow with its own honour, so no vow has two rows.    *)
(***************************************************************************)
EXTENDS VowCatalog, SequenceTheorems, FiniteSetTheorems, TLAPS

\* The inductive invariant.  The types give what a vow's item can be.
IInv == TypeOK /\ SoldItemStays

Vow == [occasion : Occasions, item : Items \cup {NoItem}, live : BOOLEAN]

-----------------------------------------------------------------------------

LEMMA AbsentIsNoContent == Absent \notin Content
  BY DEF Absent, Content, Scopes

LEMMA VowTypes ==
    ASSUME TypeOK
    PROVE  vow \in Seq(Vow) /\ Len(vow) \in Nat
  BY LenProperties DEF TypeOK, Vow

\* Rows that existed still exist, and the vows are as they were.
LEMMA RowsStay ==
    ASSUME IInv, UNCHANGED vow, item' \in [Items -> Content \cup {Absent}],
           \A i \in Items : item[i] # Absent /\ Used(i) => item'[i] # Absent
    PROVE  SoldItemStays'
<1>1. SUFFICES ASSUME NEW k \in DOMAIN vow, vow[k].item # NoItem
               PROVE  item'[vow[k].item] # Absent
  BY DEF SoldItemStays, Exists
<1>2. vow[k].item \in Items
  <2>1. vow \in Seq(Vow) /\ k \in 1..Len(vow)
    BY VowTypes, LenProperties DEF IInv
  <2>2. vow[k] \in Vow
    BY <2>1, ElementOfSeq
  <2>3. QED
    BY <1>1, <2>2 DEF Vow
<1>3. Used(vow[k].item)
  BY <1>1 DEF Used
<1>4. item[vow[k].item] # Absent
  BY <1>1 DEF IInv, SoldItemStays, Exists
<1>5. QED
  BY <1>2, <1>3, <1>4

LEMMA InvariantStarts == Init => IInv
<1>1. SUFFICES ASSUME Init PROVE IInv
  OBVIOUS
<1>2. vow \in Seq(Vow) /\ Len(vow) = 0 /\ DOMAIN vow = {}
  BY <1>1, EmptySeq DEF Init
<1>3. dialog \in [open : BOOLEAN, occasion : Occasions \cup {NoOccasion},
                  item : Items \cup {NoItem}, list : SUBSET Items]
  BY <1>1 DEF Init, Closed
<1>4. item \in [Items -> Content \cup {Absent}]
  BY <1>1 DEF Init
<1>5. TypeOK
  BY <1>2, <1>3, <1>4, ItemsGiven DEF TypeOK, Vow
<1>6. SoldItemStays
  BY <1>2 DEF SoldItemStays
<1>7. QED
  BY <1>5, <1>6 DEF IInv

\* A step of the dialog that records nothing.
LEMMA DialogMoves ==
    ASSUME IInv, UNCHANGED <<item, vow>>,
           OpenDialog \/ CloseDialog \/ PickOccasion \/ ShowAll \/ PickItem
    PROVE  IInv'
<1>1. ListVowItems(NoOccasion) \subseteq Items /\ ListVowItems(dialog.occasion) \subseteq Items
      /\ \A o \in Occasions : ListVowItems(o) \subseteq Items
  BY DEF ListVowItems
<1>2. dialog' \in [open : BOOLEAN, occasion : Occasions \cup {NoOccasion},
                   item : Items \cup {NoItem}, list : SUBSET Items]
  <2>1. CASE OpenDialog
    BY <1>1, <2>1 DEF OpenDialog, IInv, TypeOK
  <2>2. CASE CloseDialog
    BY <2>2 DEF CloseDialog, IInv, TypeOK
  <2>3. CASE PickOccasion
    BY <1>1, <2>3 DEF PickOccasion, IInv, TypeOK
  <2>4. CASE ShowAll
    BY <1>1, <2>4 DEF ShowAll, IInv, TypeOK
  <2>5. CASE PickItem
    BY <2>5 DEF PickItem, IInv, TypeOK
  <2>6. QED
    BY <2>1, <2>2, <2>3, <2>4, <2>5
<1>3. TypeOK'
  BY <1>2 DEF IInv, TypeOK
<1>4. SoldItemStays'
  BY DEF IInv, SoldItemStays, Exists
<1>5. QED
  BY <1>3, <1>4 DEF IInv

\* A row that is written, created or retired.
LEMMA ItemWritten ==
    ASSUME IInv, CreateVowItem \/ UpdateVowItem \/ DeleteVowItem
    PROVE  IInv'
<1>1. UNCHANGED <<vow, dialog>>
  BY DEF CreateVowItem, UpdateVowItem, DeleteVowItem
<1>2. /\ item' \in [Items -> Content \cup {Absent}]
      /\ \A i \in Items : item[i] # Absent /\ Used(i) => item'[i] # Absent
  <2>1. CASE CreateVowItem
    BY <2>1, AbsentIsNoContent DEF CreateVowItem, IInv, TypeOK
  <2>2. CASE UpdateVowItem
    BY <2>2, AbsentIsNoContent DEF UpdateVowItem, IInv, TypeOK
  <2>3. CASE DeleteVowItem
    <3>1. PICK i \in Items :
            /\ item[i] # Absent
            /\ item' = [item EXCEPT ![i] = IF Used(i) THEN [@ EXCEPT !.active = FALSE] ELSE Absent]
      BY <2>3 DEF DeleteVowItem, Exists
    <3>2. item[i] \in Content /\ [item[i] EXCEPT !.active = FALSE] \in Content
      BY <3>1 DEF IInv, TypeOK, Content
    <3>3. QED
      BY <3>1, <3>2, AbsentIsNoContent DEF IInv, TypeOK
  <2>4. QED
    BY <2>1, <2>2, <2>3
<1>3. TypeOK'
  BY <1>1, <1>2 DEF IInv, TypeOK
<1>4. SoldItemStays'
  BY <1>1, <1>2, RowsStay
<1>5. QED
  BY <1>3, <1>4 DEF IInv

\* A vow that is recorded or deleted.
LEMMA VowWritten ==
    ASSUME IInv, Submit \/ DeleteVowCharge
    PROVE  IInv'
<1>0. vow \in Seq(Vow) /\ Len(vow) \in Nat
  BY VowTypes DEF IInv
<1>1. CASE Submit
  <2>1. DEFINE new == [occasion |-> dialog.occasion, item |-> dialog.item, live |-> TRUE]
  <2>2. new \in Vow
    BY <1>1 DEF Submit, IInv, TypeOK, Vow
  <2>3. /\ vow' = Append(vow, new) /\ Len(vow) < MaxVows
        /\ new.item # NoItem => item[new.item] # Absent
        /\ UNCHANGED item
    BY <1>1 DEF Submit, Exists
  <2> HIDE DEF new
  <2>4. vow' \in Seq(Vow) /\ Len(vow') = Len(vow) + 1
        /\ \A k \in 1..Len(vow) : vow'[k] = vow[k]
        /\ vow'[Len(vow) + 1] = new
    BY <1>0, <2>2, <2>3, AppendProperties
  <2>5. TypeOK'
    <3>1. dialog' \in [open : BOOLEAN, occasion : Occasions \cup {NoOccasion},
                       item : Items \cup {NoItem}, list : SUBSET Items]
      BY <1>1 DEF Submit, IInv, TypeOK
    <3>2. Len(vow') <= MaxVows
      BY <1>0, <2>3, <2>4, ItemsGiven
    <3>3. QED
      BY <2>3, <2>4, <3>1, <3>2 DEF IInv, TypeOK, Vow
  <2>6. SoldItemStays'
    <3>1. DOMAIN vow = 1..Len(vow) /\ DOMAIN vow' = 1..(Len(vow) + 1)
      BY <1>0, <2>4, LenProperties
    <3>2. \A k \in 1..Len(vow) : vow[k].item # NoItem => item[vow[k].item] # Absent
      BY <3>1 DEF IInv, SoldItemStays, Exists
    <3>3. QED
      BY <1>0, <2>3, <2>4, <3>1, <3>2 DEF SoldItemStays, Exists
  <2>7. QED
    BY <2>5, <2>6 DEF IInv
<1>2. CASE DeleteVowCharge
  <2>1. PICK k \in DOMAIN vow : vow' = [vow EXCEPT ![k].live = FALSE] /\ UNCHANGED <<item, dialog>>
    BY <1>2 DEF DeleteVowCharge
  <2>2. DOMAIN vow = 1..Len(vow) /\ vow[k] \in Vow
    BY <1>0, LenProperties, ElementOfSeq
  <2>3. [vow[k] EXCEPT !.live = FALSE] \in Vow
    BY <2>2 DEF Vow
  <2>4. vow' \in Seq(Vow) /\ Len(vow') = Len(vow)
    BY <1>0, <2>1, <2>3, ExceptSeq
  <2>5. DOMAIN vow' = DOMAIN vow /\ \A j \in DOMAIN vow : vow'[j].item = vow[j].item
    BY <2>1, <2>2 DEF Vow
  <2>6. TypeOK'
    BY <2>1, <2>4 DEF IInv, TypeOK, Vow
  <2>7. SoldItemStays'
    BY <2>1, <2>5 DEF IInv, SoldItemStays, Exists
  <2>8. QED
    BY <2>6, <2>7 DEF IInv
<1>3. QED
  BY <1>1, <1>2

LEMMA InvariantStays == IInv /\ [Next]_vars => IInv'
<1>1. SUFFICES ASSUME IInv, [Next]_vars PROVE IInv'
  OBVIOUS
<1>2. CASE CreateVowItem \/ UpdateVowItem \/ DeleteVowItem
  BY <1>1, <1>2, ItemWritten
<1>3. CASE OpenDialog \/ CloseDialog \/ PickOccasion \/ ShowAll \/ PickItem
  <2>1. UNCHANGED <<item, vow>>
    BY <1>3 DEF OpenDialog, CloseDialog, PickOccasion, ShowAll, PickItem
  <2>2. QED
    BY <1>1, <1>3, <2>1, DialogMoves
<1>4. CASE Submit \/ DeleteVowCharge
  BY <1>1, <1>4, VowWritten
<1>5. CASE UNCHANGED vars
  BY <1>1, <1>5 DEF vars, IInv, TypeOK, SoldItemStays, Exists
<1>6. QED
  BY <1>1, <1>2, <1>3, <1>4, <1>5 DEF Next

-----------------------------------------------------------------------------

\* In every state the tables and the dialog have their types, and every item a vow
\* points to has its row.
THEOREM CatalogHolds == Spec => []IInv
  BY InvariantStarts, InvariantStays, PTL DEF Spec

\* A sold honour is never deleted, through deletions of its vows, edits while the
\* dialog holds it and every order of them (deleteVowItem, createVow).
THEOREM SoldItemsStay == Spec => []SoldItemStays
<1>1. IInv => SoldItemStays
  BY DEF IInv
<1>2. QED
  BY <1>1, CatalogHolds, PTL
-----------------------------------------------------------------------------
(* The two reports, in any state of the right type.                            *)

Counted(o) == {k \in DOMAIN vow : vow[k].live /\ vow[k].occasion = o}
Lost(o) ==
    {k \in Counted(o) : vow[k].item # NoItem
                        /\ ~(item[vow[k].item].active /\ Applies(vow[k].item, o))}

\* A vow and the row that shows it.
RowOf == [k \in DOMAIN vow |-> <<vow[k].item, k>>]

\* The report shows the rows of the vows it has not lost, and no others.
LEMMA ShownRows ==
    ASSUME TypeOK, NEW o \in Occasions
    PROVE  Shown(o) = {RowOf[k] : k \in Counted(o) \ Lost(o)}
<1>1. /\ vow \in Seq(Vow) /\ Len(vow) \in Nat /\ DOMAIN vow = 1 .. Len(vow)
      /\ \A k \in DOMAIN vow : vow[k] \in Vow
  BY VowTypes, LenProperties, ElementOfSeq
<1>2. ListVowItems(o) = {i \in Items : item[i].active /\ Applies(i, o)}
  BY OccasionsGiven DEF ListVowItems
<1>3. DOMAIN vow \subseteq Nat /\ 0 \notin DOMAIN vow /\ \A k \in DOMAIN vow : k > 0
  BY <1>1
<1>4. IsFiniteSet(Counted(o)) /\ (Cardinality(Counted(o)) = 0 <=> Counted(o) = {})
      /\ Cardinality(Counted(o)) \in Nat
  <2>1. IsFiniteSet(1 .. Len(vow))
    BY <1>1, FS_Interval
  <2>2. Counted(o) \in SUBSET (1 .. Len(vow))
    BY <1>1 DEF Counted
  <2>3. IsFiniteSet(Counted(o))
    BY <2>1, <2>2, FS_Subset
  <2>4. QED
    BY <2>3, FS_EmptySet, FS_CardinalityType
<1>5. ByOccasion(o) > 0 <=> Counted(o) # {}
  <2>1. ByOccasion(o) = Cardinality(Counted(o))
    BY DEF ByOccasion, Counted
  <2>2. QED
    BY <1>4, <2>1
<1>6. CASE Counted(o) = {}
  <2>1. HonorsRows(o) = {}
    BY <1>5, <1>6 DEF HonorsRows
  <2>2. QED
    BY <1>6, <2>1 DEF Shown
<1>7. CASE Counted(o) # {}
  <2>1. DEFINE sold(i) == {k \in DOMAIN vow : vow[k].live /\ vow[k].occasion = o
                                              /\ vow[k].item = i}
               rows(i) == IF sold(i) = {} THEN {<<i, 0>>} ELSE {i} \X sold(i)
  <2>8. HonorsRows(o) =
            (UNION {rows(i) : i \in ListVowItems(o)}) \cup ({NoItem} \X sold(NoItem))
    BY <1>5, <1>7 DEF HonorsRows
  <2>2. \A r : r \in HonorsRows(o) <=> \/ \E i \in ListVowItems(o) : r \in rows(i)
                                      \/ r \in {NoItem} \X sold(NoItem)
    BY <2>8
  <2>3. \A i : sold(i) = {k \in Counted(o) : vow[k].item = i}
    BY DEF Counted
  <2>4. \A i : 0 \notin sold(i) /\ \A k \in sold(i) : k > 0
    BY <1>3
  <2> HIDE DEF sold
  <2>5. ASSUME NEW r \in Shown(o)
        PROVE  r \in {RowOf[k] : k \in Counted(o) \ Lost(o)}
    <3>1. r \in HonorsRows(o) /\ r[2] > 0
      BY <2>5 DEF Shown
    <3>2. CASE r \in {NoItem} \X sold(NoItem)
      <4>1. PICK k \in sold(NoItem) : r = <<NoItem, k>>
        BY <3>2
      <4>2. k \in Counted(o) /\ vow[k].item = NoItem /\ k \in DOMAIN vow
        BY <2>3, <4>1 DEF Counted
      <4>3. k \notin Lost(o) /\ RowOf[k] = r
        BY <4>1, <4>2 DEF Lost, RowOf
      <4>4. QED
        BY <4>2, <4>3
    <3>3. CASE \E i \in ListVowItems(o) : r \in rows(i)
      <4>1. PICK i \in ListVowItems(o) : r \in rows(i)
        BY <3>3
      <4>2. r # <<i, 0>>
        BY <3>1
      <4>3. PICK k \in sold(i) : r = <<i, k>>
        BY <4>1, <4>2
      <4>4. k \in Counted(o) /\ vow[k].item = i /\ k \in DOMAIN vow
        BY <2>3, <4>3 DEF Counted
      <4>5. item[i].active /\ Applies(i, o)
        BY <1>2, <4>1
      <4>6. k \notin Lost(o) /\ RowOf[k] = r
        BY <4>3, <4>4, <4>5 DEF Lost, RowOf
      <4>7. QED
        BY <4>4, <4>6
    <3>4. QED
      BY <2>2, <3>1, <3>2, <3>3
  <2>6. ASSUME NEW k \in Counted(o) \ Lost(o)
        PROVE  RowOf[k] \in Shown(o)
    <3>1. k \in DOMAIN vow /\ RowOf[k] = <<vow[k].item, k>> /\ k \in sold(vow[k].item)
      BY <2>3, <2>6 DEF Counted, RowOf
    <3>2. RowOf[k][2] > 0
      BY <1>3, <3>1
    <3>3. RowOf[k] \in HonorsRows(o)
      <4>1. CASE vow[k].item = NoItem
        <5>1. RowOf[k] \in {NoItem} \X sold(NoItem)
          BY <3>1, <4>1
        <5>2. QED
          BY <2>2, <5>1
      <4>2. CASE vow[k].item # NoItem
        <5>1. vow[k].item \in Items
          BY <1>1, <3>1, <4>2 DEF Vow
        <5>2. vow[k].item \in ListVowItems(o)
          BY <1>2, <2>6, <4>2, <5>1 DEF Lost
        <5>3. RowOf[k] \in rows(vow[k].item)
          BY <3>1
        <5>4. QED
          BY <2>2, <5>2, <5>3
      <4>3. QED
        BY <4>1, <4>2
    <3>4. QED
      BY <3>2, <3>3 DEF Shown
  <2>7. QED
    BY <2>5, <2>6
<1>8. QED
  BY <1>6, <1>7

LEMMA CountsAgree == TypeOK => HonorsCountVows
<1>1. SUFFICES ASSUME TypeOK, NEW o \in Occasions
               PROVE  /\ {r[2] : r \in Shown(o)} = Counted(o) \ Lost(o)
                      /\ Cardinality(Shown(o)) + Cardinality(Lost(o)) = ByOccasion(o)
  BY DEF HonorsCountVows, Counted, Lost
<1>2. DEFINE kept == Counted(o) \ Lost(o)
<1>3. kept \subseteq DOMAIN vow /\ Lost(o) \subseteq Counted(o)
  BY DEF Counted, Lost
<1>4. Shown(o) = {RowOf[k] : k \in kept} /\ \A k \in kept : RowOf[k][2] = k
  BY <1>1, <1>3, ShownRows DEF RowOf
<1>5. IsFiniteSet(Counted(o))
  <2>1. Len(vow) \in Nat /\ DOMAIN vow = 1 .. Len(vow)
    BY <1>1, VowTypes, LenProperties
  <2>2. IsFiniteSet(1 .. Len(vow)) /\ Counted(o) \in SUBSET (1 .. Len(vow))
    BY <2>1, FS_Interval DEF Counted
  <2>3. QED
    BY <2>2, FS_Subset
<1>6. IsFiniteSet(kept) /\ Cardinality(kept) + Cardinality(Lost(o)) = Cardinality(Counted(o))
  <2>1. /\ IsFiniteSet(kept)
        /\ Cardinality(kept) = Cardinality(Counted(o)) - Cardinality(Counted(o) \cap Lost(o))
    BY <1>5, FS_Difference
  <2>2. Counted(o) \cap Lost(o) = Lost(o)
    BY <1>3
  <2>3. Lost(o) \in SUBSET Counted(o)
    BY <1>3
  <2>4. IsFiniteSet(Lost(o))
    BY <1>5, <2>3, FS_Subset
  <2>5. Cardinality(Lost(o)) \in Nat /\ Cardinality(Counted(o)) \in Nat
    BY <1>5, <2>4, FS_CardinalityType
  <2>6. QED
    BY <2>1, <2>2, <2>5
<1>7. Cardinality(Shown(o)) = Cardinality(kept)
  <2>1. DEFINE f == [k \in kept |-> RowOf[k]]
  <2>2. \A k, j \in kept : f[k] = f[j] => k = j
    BY <1>4
  <2>3. f \in [kept -> Shown(o)] /\ \A r \in Shown(o) : \E k \in kept : f[k] = r
    BY <1>4
  <2>4. f \in Bijection(kept, Shown(o))
    BY <2>2, <2>3 DEF Bijection, Injection, Surjection, IsInjective
  <2>5. ExistsBijection(kept, Shown(o))
    BY <2>4 DEF ExistsBijection
  <2>6. QED
    BY <1>6, <2>5, FS_Bijection
<1>8. {r[2] : r \in Shown(o)} = kept
  BY <1>4
<1>9. QED
  BY <1>6, <1>7, <1>8 DEF ByOccasion, Counted

\* The honours report shows each vow at most once, and with the vows whose honour was
\* retired or moved since, it counts what the report by occasion counts (honorsReport,
\* byOccasionReport).
THEOREM HonorsAlwaysCount == Spec => []HonorsCountVows
<1>1. IInv => HonorsCountVows
  BY CountsAgree DEF IInv
<1>2. QED
  BY <1>1, CatalogHolds, PTL
=============================================================================
