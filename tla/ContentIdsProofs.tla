--------------------------- MODULE ContentIdsProofs ---------------------------
(***************************************************************************)
(* No two resources have the same item (OneHolder), for every number of     *)
(* resources, every kind and any number of lost answers, losses of state    *)
(* and actions of others, and however late a request arrives whose answer   *)
(* nobody waits for.  An item that a resource has, and that did not go away *)
(* behind its back, is there, so a create, which needs it not to be there,  *)
(* cannot take it; what an import has looked up is nobody's; and an         *)
(* adoption gives a new id only to an anonymous section, which nobody has.  *)
(* The same invariant shows that every step is one OwnedItems allows.       *)
(***************************************************************************)
EXTENDS ContentIds, TLAPS

\* What a resource has and did not go away is on the router.
HeldIsThere ==
  kind # "key" => \A r \in Resources, i \in Ids :
                    Holds(r, i) /\ <<r, i>> \notin vanished => There(i)

\* A resource has an item once, but for one that went away.
HeldOnce ==
  kind # "key" => \A r \in Resources :
    deposed[r] # None /\ state[r].id = deposed[r] => <<r, deposed[r]>> \in vanished

\* A section that a resource has is not anonymous, so an adoption leaves it its id.
HeldIsNamed ==
  kind = "section" => \A r \in Resources, i \in Ids : Holds(r, i) => i \notin Anonymous

\* An anonymous section was made by others, and was not adopted.
AnonymousOfOthers ==
  kind = "section" =>
    \A i \in Anonymous : items[i].by \notin Resources /\ ~ items[i].managed

\* An import in progress is of a section that no resource has or imports.
Reserved ==
  /\ kind # "section" => \A r \in Resources : importing[r] = None
  /\ \A r, s \in Resources : importing[r] # None =>
       /\ ~ Holds(s, importing[r])
       /\ r # s => importing[s] # importing[r]

\* Only a section is adopted.
LateAdoptions == kind # "section" => \A q \in late : q.method # "ADOPT"

Safe == HeldIsThere /\ HeldOnce /\ HeldIsNamed /\ Reserved /\ OneHolder

IInv == TypeOK /\ LateAdoptions /\ AnonymousOfOthers /\ Safe

-----------------------------------------------------------------------------
LEMMA NewIdsUnused == \A i \in NewIds : i \in Names /\ Unused(i)
  BY DEF NewIds

LEMMA TargetsFree ==
  ASSUME kind \in Kinds, NEW c \in Contents, NEW i \in Targets(c)
  PROVE  /\ i \in Ids
         /\ kind = "section" => i \notin Anonymous
         /\ kind # "key" => ~ There(i)
<1>1. CASE kind = "section"
  BY <1>1, NewIdsUnused, ChoiceAssumption DEF Targets, Ids, Unused
<1>2. CASE kind # "section"
  <2>1. IdOf[kind][c] \in Ids /\ IdOf[kind][c] # None
    BY <1>2, KindAssumption, NameAssumption DEF Ids
  <2> QED
    BY <1>2, <2>1 DEF Targets
<1> QED
  BY <1>1, <1>2

LEMMA AdoptedIdsFree ==
  ASSUME kind \in Kinds, NEW k \in Ids, NEW j \in AdoptedIds(k)
  PROVE  /\ j \in Ids /\ (j = k \/ (k \in Anonymous /\ Unused(j)))
         /\ kind = "section" => j \notin Anonymous
<1>1. CASE k \in Anonymous
  <2>1. j \in Names /\ Unused(j)
    BY <1>1, NewIdsUnused DEF AdoptedIds
  <2> QED
    BY <1>1, <2>1, ChoiceAssumption DEF Ids
<1>2. CASE k \notin Anonymous
  BY <1>2 DEF AdoptedIds
<1> QED
  BY <1>1, <1>2

LEMMA ItemTyped ==
  ASSUME NEW c \in Contents, NEW r \in Resources \cup {"others"}, NEW m \in BOOLEAN
  PROVE  Item(c, r, m) \in Items /\ Item(c, r, m) # NoItem
  BY NameAssumption DEF Item, Items, NoItem

LEMMA ThereTyped ==
  ASSUME TypeOK, NEW i \in Ids, There(i)
  PROVE  items[i] \in Items
  BY DEF TypeOK, There

LEMMA EntryTyped ==
  ASSUME NEW i \in Ids, NEW c, c \in Contents \/ (c = None /\ kind = "key")
  PROVE  Entry(i, c) \in Entries
  BY DEF Entry, Entries

\* Whoever has an entry names an id by it.
LEMMA HeldTyped ==
  ASSUME TypeOK, NEW r \in Resources, state[r] # NoEntry
  PROVE  state[r].id \in Ids /\ state[r] \in Entries
  BY DEF TypeOK, Entries

LEMMA InitType == Init => TypeOK
<1> SUFFICES ASSUME Init PROVE TypeOK
  OBVIOUS
<1>1. upsets \in 0 .. MaxUpsets
  BY BoundAssumption DEF Init
<1>2. cbd \in BOOLEAN
  BY DEF Init
<1> QED
  BY <1>1, <1>2 DEF Init, TypeOK
-----------------------------------------------------------------------------
LEMMA UpsetTyped == TypeOK /\ Upset => upsets' \in 0 .. MaxUpsets
  BY BoundAssumption DEF TypeOK, Upset

\* A request without an answer is of one of three sorts.
LEMMA LostTyped ==
  ASSUME TypeOK, NEW m, NEW r \in Resources, NEW i, NEW c, Lost(m, r, i, c),
         \/ m = "POST" /\ i = None /\ c \in Contents
         \/ m = "DELETE" /\ i \in Ids /\ c \in Contents \cup {None}
         \/ m = "ADOPT" /\ i \in Ids /\ c = None
  PROVE  late' \in SUBSET Requests /\ upsets' \in 0 .. MaxUpsets
<1>1. upsets' \in 1 .. MaxUpsets
  BY BoundAssumption DEF TypeOK, Lost, Upset
<1>2. [call |-> upsets', method |-> m, by |-> r, id |-> i, content |-> c] \in Requests
  BY <1>1 DEF Requests
<1> QED
  BY <1>1, <1>2 DEF TypeOK, Lost

\* What is known of a request on its way.
LEMMA RequestTyped ==
  ASSUME TypeOK, NEW q \in late
  PROVE  /\ q.by \in Resources
         /\ q.method = "POST" => q.content \in Contents
         /\ q.method # "POST" => q.id \in Ids
  BY DEF TypeOK, Requests

LEMMA RememberTyped == Remember => vanished' \in SUBSET (Resources \X Ids)
  BY DEF Remember

LEMMA PostTyped ==
  ASSUME TypeOK, NEW r \in Resources, NEW c \in Contents, NEW i, Post(r, c, i)
  PROVE  i \in Ids /\ items' \in [Ids -> Items \cup {NoItem}]
<1>1. i \in Targets(c) /\ kind \in Kinds
  BY DEF TypeOK, Post
<1>2. i \in Ids
  BY <1>1, TargetsFree
<1>3. Item(c, r, TRUE) \in Items
  BY <1>1, ItemTyped
<1> QED
  BY <1>2, <1>3 DEF Post, TypeOK

LEMMA AdoptedTyped ==
  ASSUME TypeOK, NEW i \in Ids, There(i), NEW j, Adopted(i, j)
  PROVE  /\ j \in Ids /\ items[i] \in Items
         /\ items' \in [Ids -> Items \cup {NoItem}]
<1>1. j \in Ids /\ items[i] \in Items
  BY AdoptedIdsFree, ThereTyped DEF Adopted, TypeOK
<1>2. [items[i] EXCEPT !.managed = TRUE] \in Items
  BY <1>1 DEF Items
<1> QED
  BY <1>1, <1>2 DEF Adopted, TypeOK

\* Every step keeps the types.
LEMMA TypeStep == TypeOK /\ [Next]_vars => TypeOK'
<1> SUFFICES ASSUME TypeOK, [Next]_vars PROVE TypeOK'
  OBVIOUS
<1>1. ASSUME NEW r \in Resources, Create(r) PROVE TypeOK'
  <2>1. PICK i \in Ids : /\ Post(r, config[r], i)
                         /\ state' = [state EXCEPT ![r] = Entry(i, config[r])]
                         /\ orphaned' = orphaned \ {i}
    BY <1>1 DEF Create
  <2>2. config[r] \in Contents
    BY <1>1, NameAssumption DEF Create, Creates, TypeOK
  <2>3. Entry(i, config[r]) \in Entries
    BY <2>2, EntryTyped
  <2>4. state[r] # NoEntry => state[r].id \in Ids
    BY HeldTyped
  <2>5. items' \in [Ids -> Items \cup {NoItem}]
    BY <2>1, <2>2, PostTyped
  <2> QED
    BY <1>1, <2>1, <2>3, <2>4, <2>5 DEF Create, TypeOK, Calm, Entries
<1>2. ASSUME NEW r \in Resources, CreateLost(r) PROVE TypeOK'
  <2>1. config[r] \in Contents
    BY <1>2, NameAssumption DEF CreateLost, Creates, TypeOK
  <2>2. late' \in SUBSET Requests /\ upsets' \in 0 .. MaxUpsets
    BY <1>2, <2>1, LostTyped DEF CreateLost
  <2> QED
    BY <1>2, <2>2 DEF CreateLost, TypeOK, Entries
<1>3. ASSUME NEW r \in Resources, Read(r) PROVE TypeOK'
  <2>1. state[r].id \in Ids /\ state[r] \in Entries
    BY <1>3, HeldTyped DEF Read
  <2>2. There(state[r].id) =>
          Entry(state[r].id, ReadBack(state[r].id, state[r].content)) \in Entries
    BY <2>1, ThereTyped, EntryTyped DEF ReadBack, Entries, Items
  <2> QED
    BY <1>3, <2>1, <2>2, RememberTyped DEF Read, TypeOK, Calm, Entries
<1>4. ASSUME NEW r \in Resources, Update(r) PROVE TypeOK'
  <2>1. state[r].id \in Ids /\ state[r] \in Entries /\ config[r] \in Contents
    BY <1>4, HeldTyped DEF Update, TypeOK
  <2>2. items[state[r].id] \in Items
    BY <1>4, <2>1, ThereTyped DEF Update
  <2> QED
    BY <1>4, <2>1, <2>2 DEF Update, TypeOK, Calm, Entries, Items
<1>5. ASSUME NEW r \in Resources, Import(r) PROVE TypeOK'
  <2>1. PICK i \in Ids : /\ There(i)
                         /\ state' = [state EXCEPT ![r] = Entry(i, ReadBack(i, None))]
                         /\ orphaned' = orphaned \ {i}
    BY <1>5 DEF Import, Fitting
  <2>2. Entry(i, ReadBack(i, None)) \in Entries
    BY <2>1, ThereTyped, EntryTyped DEF ReadBack, Items
  <2> QED
    BY <1>5, <2>1, <2>2 DEF Import, TypeOK, Calm, Entries
<1>6. ASSUME NEW r \in Resources, LookUp(r) PROVE TypeOK'
  BY <1>6 DEF LookUp, TypeOK, Calm, Entries
<1>7. ASSUME NEW r \in Resources, Adopt(r) PROVE TypeOK'
  <2>1. CASE There(importing[r])
    <3>1. PICK j \in Ids : /\ Adopted(importing[r], j)
                           /\ state' = [state EXCEPT ![r] = Entry(j, items[importing[r]].content)]
      BY <1>7, <2>1 DEF Adopt
    <3>2. importing[r] \in Ids
      BY <1>7 DEF Adopt, TypeOK
    <3>3. items[importing[r]] \in Items /\ items' \in [Ids -> Items \cup {NoItem}]
      BY <2>1, <3>1, <3>2, AdoptedTyped
    <3>4. Entry(j, items[importing[r]].content) \in Entries
      BY <3>3, EntryTyped DEF Items
    <3> QED
      BY <1>7, <3>1, <3>3, <3>4 DEF Adopt, TypeOK, Calm, Entries
  <2>2. CASE ~ There(importing[r])
    BY <1>7, <2>2 DEF Adopt, TypeOK, Calm, Entries
  <2> QED
    BY <2>1, <2>2
<1>8. ASSUME NEW r \in Resources, AdoptLost(r) PROVE TypeOK'
  <2>1. importing[r] \in Ids
    BY <1>8 DEF AdoptLost, TypeOK
  <2>2. late' \in SUBSET Requests /\ upsets' \in 0 .. MaxUpsets
    BY <1>8, <2>1, LostTyped DEF AdoptLost
  <2> QED
    BY <1>8, <2>2 DEF AdoptLost, TypeOK, Entries
<1>9. ASSUME NEW r \in Resources, Delete(r) PROVE TypeOK'
  BY <1>9, RememberTyped DEF Delete, Removed, TypeOK, Calm, Entries
<1>10. ASSUME NEW r \in Resources, DeleteLost(r) PROVE TypeOK'
  <2>1. state[r].id \in Ids /\ state[r] \in Entries
    BY <1>10, HeldTyped DEF DeleteLost, Destroys
  <2>2. kind = "section" => state[r].content \in Contents
    BY <2>1 DEF Entries
  <2>3. late' \in SUBSET Requests /\ upsets' \in 0 .. MaxUpsets
    BY <1>10, <2>1, <2>2, LostTyped DEF DeleteLost
  <2> QED
    BY <1>10, <2>1, <2>3, RememberTyped DEF DeleteLost, TypeOK, Entries
<1>11. ASSUME NEW r \in Resources, DeleteDeposed(r) PROVE TypeOK'
  BY <1>11, RememberTyped DEF DeleteDeposed, Removed, TypeOK, Calm, Entries
<1>12. ASSUME NEW r \in Resources, DeposedLost(r) PROVE TypeOK'
  <2>1. deposed[r] \in Ids
    BY <1>12 DEF DeposedLost, TypeOK
  <2>2. late' \in SUBSET Requests /\ upsets' \in 0 .. MaxUpsets
    BY <1>12, <2>1, LostTyped DEF DeposedLost
  <2> QED
    BY <1>12, <2>2 DEF DeposedLost, TypeOK, Entries
<1>13. ASSUME NEW q \in late, Late(q) PROVE TypeOK'
  <2>1. late' \in SUBSET Requests /\ UNCHANGED <<kind, cbd, config, deposed, importing, upsets>>
    BY <1>13 DEF Late, TypeOK
  <2>2. CASE LatePost(q)
    <3>1. PICK i \in Ids : Post(q.by, q.content, i) /\ orphaned' = orphaned \cup {i}
      BY <2>2 DEF LatePost
    <3>2. items' \in [Ids -> Items \cup {NoItem}]
      BY <2>2, <3>1, RequestTyped, PostTyped DEF LatePost
    <3> QED
      BY <2>1, <2>2, <3>1, <3>2 DEF LatePost, TypeOK, Entries
  <2>3. CASE LateAdopt(q)
    <3>1. q.id \in Ids
      BY <2>3, RequestTyped DEF LateAdopt
    <3>2. items' \in [Ids -> Items \cup {NoItem}]
      BY <2>3, <3>1, AdoptedTyped DEF LateAdopt
    <3> QED
      BY <2>1, <2>3, <3>2 DEF LateAdopt, TypeOK, Entries
  <2>4. CASE LateDelete(q)
    BY <2>1, <2>4, RememberTyped DEF LateDelete, Removed, TypeOK, Entries
  <2> QED
    BY <1>13, <2>2, <2>3, <2>4 DEF Late
<1>14. CASE OthersAdd
  <2>1. PICK c \in Contents : \E i \in OthersIds(c) :
          items' = [items EXCEPT ![i] = Item(c, "others", FALSE)]
    BY <1>14 DEF OthersAdd
  <2>2. Item(c, "others", FALSE) \in Items
    BY ItemTyped
  <2> QED
    BY <1>14, <2>1, <2>2, UpsetTyped DEF OthersAdd, TypeOK, Entries
<1>15. CASE OthersRemove
  BY <1>15, UpsetTyped, RememberTyped DEF OthersRemove, TypeOK, Entries
<1>16. CASE Reconfigure
  BY <1>16, UpsetTyped DEF Reconfigure, TypeOK, Entries
<1>17. CASE Crash
  BY <1>17, UpsetTyped, HeldTyped, RememberTyped DEF Crash, TypeOK, Entries
<1>18. CASE UNCHANGED vars
  BY <1>18 DEF vars, TypeOK, Entries
<1> QED
  BY <1>1, <1>2, <1>3, <1>4, <1>5, <1>6, <1>7, <1>8, <1>9, <1>10, <1>11, <1>12, <1>13,
     <1>14, <1>15, <1>16, <1>17, <1>18 DEF Next, Run

-----------------------------------------------------------------------------

\* What a resource had before a step and has after it: what went away from it is
\* remembered.
Recorded ==
  kind # "key" => \A s \in Resources, j \in Ids : Holds(s, j) /\ Holds(s, j)' =>
    /\ <<s, j>> \in vanished => <<s, j>> \in vanished'
    /\ There(j) /\ ~ There(j)' => <<s, j>> \in vanished'

NoNewImport == \A s \in Resources : importing'[s] \in {importing[s], None}

LEMMA RecordedBy ==
  /\ Remember => Recorded
  /\ vanished' = vanished /\ (\A s \in Resources, j \in Ids : Holds(s, j) /\ There(j) => There(j)')
       => Recorded
BY DEF Remember, Recorded

\* A step by which nobody gets an item.
LEMMA QuietStep ==
  ASSUME IInv, kind' = kind, Recorded, NoNewImport,
         \A s \in Resources : /\ deposed'[s] \in {deposed[s], None}
                              /\ state'[s].id \in {state[s].id, None}
  PROVE  Safe'
<1> USE DEF IInv, Safe
<1>1. None \notin Ids
  BY NameAssumption
<1>2. \A s \in Resources, j \in Ids : Holds(s, j)' => Holds(s, j)
  BY <1>1 DEF Holds
<1>3. HeldIsThere'
  BY <1>2 DEF HeldIsThere, Recorded
<1>4. HeldOnce'
  <2> SUFFICES ASSUME kind # "key", NEW s \in Resources,
                      deposed'[s] # None, state'[s].id = deposed'[s]
               PROVE  <<s, deposed'[s]>> \in vanished'
    BY DEF HeldOnce
  <2>1. deposed[s] # None /\ state[s].id = deposed[s] /\ deposed'[s] = deposed[s]
    OBVIOUS
  <2>2. deposed[s] \in Ids
    BY <2>1 DEF TypeOK
  <2>3. Holds(s, deposed[s]) /\ Holds(s, deposed[s])'
    BY <2>1 DEF Holds
  <2> QED
    BY <2>1, <2>2, <2>3 DEF HeldOnce, Recorded
<1>5. HeldIsNamed'
  BY <1>2 DEF HeldIsNamed
<1>6. Reserved'
  <2>1. kind # "section" => \A r \in Resources : importing'[r] = None
    BY DEF Reserved, NoNewImport
  <2>2. ASSUME NEW r \in Resources, NEW s \in Resources, importing'[r] # None
        PROVE  ~ Holds(s, importing[r])' /\ (r # s => importing'[s] # importing'[r])
    <3>1. importing'[r] = importing[r] /\ importing[r] \in Ids
      BY <2>2 DEF NoNewImport, TypeOK
    <3>2. ~ Holds(s, importing[r]) /\ (r # s => importing[s] # importing[r])
      BY <2>2, <3>1 DEF Reserved
    <3>3. deposed'[s] # importing'[r] /\ state'[s].id # importing'[r]
      BY <1>1, <2>2, <3>1, <3>2 DEF Holds
    <3> QED
      BY <2>2, <3>1, <3>2, <3>3 DEF Holds, NoNewImport
  <2> QED
    BY <2>1, <2>2 DEF Reserved, Holds, NoNewImport
<1>7. OneHolder'
  <2> SUFFICES ASSUME kind # "key", NEW r \in Resources, NEW s \in Resources, NEW i \in Ids,
                      r # s, Holds(r, i)', Holds(s, i)'
               PROVE  {<<r, i>>, <<s, i>>} \cap vanished' # {}
    BY DEF OneHolder
  <2>1. <<r, i>> \in vanished \/ <<s, i>> \in vanished
    BY <1>2 DEF OneHolder
  <2> QED
    BY <1>2, <2>1 DEF Recorded
<1> QED
  BY <1>3, <1>4, <1>5, <1>6, <1>7

\* A step by which one resource gets an item that nobody else has or imports, unless
\* it went away from who still has it.
LEMMA GainStep ==
  ASSUME IInv, kind' = kind, Recorded, NoNewImport,
         NEW r \in Resources, NEW k \in Ids,
         \A s \in Resources, j \in Ids : Holds(s, j)' => Holds(s, j) \/ (s = r /\ j = k),
         kind # "key" => /\ There(k)'
                         /\ \A s \in Resources : Holds(s, k) => <<s, k>> \in vanished
                         /\ \A s \in Resources : deposed'[s] # None /\ state'[s].id = deposed'[s]
                              => <<s, deposed'[s]>> \in vanished',
         kind = "section" => k \notin Anonymous /\ \A s \in Resources : importing'[s] # k
  PROVE  Safe'
<1> USE DEF IInv, Safe
<1>1. HeldIsThere'
  BY DEF HeldIsThere, Recorded
<1>2. HeldOnce'
  BY DEF HeldOnce
<1>3. HeldIsNamed'
  BY DEF HeldIsNamed
<1>4. Reserved'
  <2>1. kind # "section" => \A s \in Resources : importing'[s] = None
    BY DEF Reserved, NoNewImport
  <2>2. ASSUME NEW t \in Resources, NEW s \in Resources, importing'[t] # None
        PROVE  ~ (state'[s].id = importing'[t] \/ deposed'[s] = importing'[t])
               /\ (t # s => importing'[s] # importing'[t])
    <3>1. importing'[t] = importing[t] /\ importing[t] \in Ids /\ kind = "section"
      BY <2>1, <2>2 DEF NoNewImport, TypeOK
    <3>2. ~ Holds(s, importing[t]) /\ (t # s => importing[s] # importing[t])
      BY <2>2, <3>1 DEF Reserved
    <3>3. ~ Holds(s, importing[t])'
      BY <3>1, <3>2
    <3> QED
      BY <2>2, <3>1, <3>2, <3>3 DEF Holds, NoNewImport
  <2> QED
    BY <2>1, <2>2 DEF Reserved, Holds
<1>5. OneHolder'
  <2> SUFFICES ASSUME kind # "key", NEW s \in Resources, NEW t \in Resources, NEW i \in Ids,
                      s # t, Holds(s, i)', Holds(t, i)'
               PROVE  <<s, i>> \in vanished' \/ <<t, i>> \in vanished'
    BY DEF OneHolder
  <2>1. CASE Holds(s, i) /\ Holds(t, i)
    <3>1. <<s, i>> \in vanished \/ <<t, i>> \in vanished
      BY <2>1 DEF OneHolder
    <3> QED
      BY <2>1, <3>1 DEF Recorded
  <2>2. CASE ~ Holds(s, i)
    <3>1. Holds(t, i) /\ <<t, i>> \in vanished
      BY <2>2
    <3> QED
      BY <3>1 DEF Recorded
  <2>3. CASE ~ Holds(t, i)
    <3>1. Holds(s, i) /\ <<s, i>> \in vanished
      BY <2>3
    <3> QED
      BY <3>1 DEF Recorded
  <2> QED
    BY <2>1, <2>2, <2>3
<1> QED
  BY <1>1, <1>2, <1>3, <1>4, <1>5

\* What is to be known of the id that a create takes, and what it leaves alone.
LEMMA PostIsSafe ==
  ASSUME IInv, NEW r \in Resources, NEW c \in Contents, NEW i, Post(r, c, i)
  PROVE  /\ i \in Ids /\ items' = [items EXCEPT ![i] = Item(c, r, TRUE)]
         /\ kind = "section" => i \notin Anonymous
         /\ kind # "key" => ~ There(i)
         /\ There(i)'
         /\ \A j \in Ids : There(j) => There(j)'
<1> USE DEF IInv
<1>1. i \in Targets(c) /\ kind \in Kinds /\ items' = [items EXCEPT ![i] = Item(c, r, TRUE)]
  BY DEF Post, TypeOK
<1>2. i \in Ids /\ (kind = "section" => i \notin Anonymous) /\ (kind # "key" => ~ There(i))
  BY <1>1, TargetsFree
<1>3. Item(c, r, TRUE) # NoItem
  BY ItemTyped
<1>4. items'[i] = Item(c, r, TRUE) /\ \A j \in Ids \ {i} : items'[j] = items[j]
  BY <1>1, <1>2 DEF TypeOK
<1>5. There(i)' /\ \A j \in Ids : There(j) => There(j)'
  BY <1>3, <1>4 DEF There
<1> QED
  BY <1>1, <1>2, <1>5

\* An adoption takes nothing from anybody: a section keeps its id, or nobody has it.
LEMMA AdoptedIsSafe ==
  ASSUME IInv, NEW k \in Ids, There(k), NEW j \in Ids, Adopted(k, j), kind = "section"
  PROVE  /\ j = k \/ (Unused(j) /\ \A s \in Resources : ~ Holds(s, k))
         /\ j \notin Anonymous
         /\ There(j)'
         /\ \A s \in Resources, i \in Ids : Holds(s, i) /\ There(i) => There(i)'
<1> USE DEF IInv, Safe
<1>1. items[k] \in Items
  BY ThereTyped
<1>2. [items[k] EXCEPT !.managed = TRUE].content \in Contents
  BY <1>1 DEF Items
<1>3. NoItem.content \notin Contents
  BY NameAssumption DEF NoItem, Item
<1>4. items'[j] = [items[k] EXCEPT !.managed = TRUE]
      /\ \A i \in Ids : i # k /\ i # j => items'[i] = items[i]
  BY DEF Adopted, TypeOK
<1>5. There(j)'
  BY <1>1, <1>2, <1>3, <1>4 DEF There, Items
<1>6. (j = k \/ (k \in Anonymous /\ Unused(j))) /\ j \notin Anonymous
  BY AdoptedIdsFree DEF Adopted, TypeOK
<1>7. j = k \/ (Unused(j) /\ \A s \in Resources : ~ Holds(s, k))
  BY <1>6 DEF HeldIsNamed
<1>8. \A s \in Resources, i \in Ids : Holds(s, i) /\ There(i) => There(i)'
  BY <1>4, <1>5, <1>7 DEF There
<1> QED
  BY <1>5, <1>6, <1>7, <1>8

\* What is removed leaves every other item as it is.
LEMMA RemovedIsSafe ==
  ASSUME IInv, NEW i, items' = [items EXCEPT ![i] = NoItem]
  PROVE  \A j \in Ids : There(j)' => j # i /\ items'[j] = items[j]
BY DEF IInv, TypeOK, There

\* Every step keeps what no resource may lose to another.
LEMMA SafeStep == IInv /\ [Next]_vars => Safe'
<1> SUFFICES ASSUME IInv, [Next]_vars PROVE Safe'
  OBVIOUS
<1> USE DEF IInv, Safe
<1>1. None \notin Ids
  BY NameAssumption
<1>2. NoEntry.id = None
  BY DEF NoEntry, Entry
<1>4. ASSUME UNCHANGED <<kind, items, importing, vanished>>,
             \A s \in Resources : /\ deposed'[s] \in {deposed[s], None}
                                  /\ state'[s].id \in {state[s].id, None}
      PROVE  Safe'
  <2>1. Recorded
    BY <1>4, RecordedBy DEF There
  <2> QED
    BY <1>4, <2>1, QuietStep DEF NoNewImport
<1>5. ASSUME NEW r \in Resources, Create(r) PROVE Safe'
  <2>1. PICK i \in Ids : /\ Post(r, config[r], i)
                         /\ state' = [state EXCEPT ![r] = Entry(i, config[r])]
    BY <1>5 DEF Create
  <2>2. /\ config[r] \in Contents /\ \A s \in Resources : importing[s] = None
        /\ deposed' = [deposed EXCEPT ![r] = IF state[r] = NoEntry THEN @ ELSE state[r].id]
        /\ kind' = kind /\ vanished' = vanished /\ importing' = importing
    BY <1>5 DEF Create, Creates, TypeOK
  <2>3. /\ i \in Ids /\ (kind = "section" => i \notin Anonymous)
        /\ kind # "key" => ~ There(i)
        /\ There(i)' /\ \A j \in Ids : There(j) => There(j)'
    BY <2>1, <2>2, PostIsSafe
  <2>4. state'[r].id = i /\ \A s \in Resources \ {r} : state'[s] = state[s] /\ deposed'[s] = deposed[s]
    BY <2>1, <2>2 DEF TypeOK, Entry
  <2>5. \A s \in Resources, j \in Ids : Holds(s, j)' => Holds(s, j) \/ (s = r /\ j = i)
    BY <2>2, <2>4 DEF Holds, TypeOK
  <2>6. kind # "key" => \A s \in Resources : Holds(s, i) => <<s, i>> \in vanished
    BY <2>3 DEF HeldIsThere
  <2>7. kind # "key" => \A s \in Resources : deposed'[s] # None /\ state'[s].id = deposed'[s]
                          => <<s, deposed'[s]>> \in vanished'
    <3>1. kind # "key" /\ deposed'[r] = i => <<r, i>> \in vanished
      BY <2>2, <2>6 DEF Holds, TypeOK
    <3> QED
      BY <2>2, <2>4, <3>1 DEF HeldOnce
  <2>8. kind = "section" => i \notin Anonymous /\ \A s \in Resources : importing'[s] # i
    BY <1>1, <2>2, <2>3
  <2>9. Recorded /\ NoNewImport
    BY <2>2, <2>3, RecordedBy DEF NoNewImport
  <2> QED
    BY <2>2, <2>3, <2>5, <2>6, <2>7, <2>8, <2>9, GainStep
<1>6. ASSUME NEW r \in Resources, Read(r) PROVE Safe'
  <2>1. \A s \in Resources : state'[s].id \in {state[s].id, None}
    BY <1>2, <1>6 DEF Read, TypeOK, Entry
  <2> QED
    BY <1>6, <2>1, RecordedBy, QuietStep DEF Read, NoNewImport
<1>7. ASSUME NEW r \in Resources, Update(r) PROVE Safe'
  <2>1. state[r] \in Entries /\ state[r].id \in Ids
    BY <1>7, HeldTyped DEF Update
  <2>2. \A s \in Resources : state'[s].id = state[s].id
    BY <1>7, <2>1 DEF Update, TypeOK, Entries
  <2>3. items[state[r].id] \in Items /\ config[r] \in Contents
    BY <1>7, <2>1, ThereTyped DEF Update, TypeOK
  <2>4. [items[state[r].id] EXCEPT !.content = config[r]] \in Items
    BY <2>3 DEF Items
  <2>5. \A i \in Items : i # NoItem
    BY NameAssumption DEF Items, NoItem, Item
  <2>6. \A j \in Ids : There(j)' <=> There(j)
    BY <1>7, <2>1, <2>3, <2>4, <2>5 DEF Update, There, TypeOK, Items
  <2>7. Recorded
    BY <1>7, <2>6, RecordedBy DEF Update
  <2> QED
    BY <1>7, <2>2, <2>7, QuietStep DEF Update, NoNewImport
<1>8. ASSUME NEW r \in Resources, Import(r) PROVE Safe'
  <2>1. PICK i \in Ids : /\ Fitting(r, i)
                         /\ kind = "section" => items[i].managed
                         /\ state' = [state EXCEPT ![r] = Entry(i, ReadBack(i, None))]
    BY <1>8 DEF Import
  <2>2. state'[r].id = i /\ \A s \in Resources \ {r} : state'[s] = state[s]
    BY <2>1 DEF TypeOK, Entry
  <2>3. \A s \in Resources, j \in Ids : Holds(s, j)' => Holds(s, j) \/ (s = r /\ j = i)
    BY <1>8, <2>2 DEF Import, Holds
  <2>4. There(i) /\ \A s \in Resources : ~ Holds(s, i) /\ importing[s] # i
    BY <2>1 DEF Fitting
  <2>5. There(i)' /\ Recorded /\ NoNewImport
    BY <1>8, <2>4, RecordedBy DEF Import, There, NoNewImport
  <2>6. kind # "key" => \A s \in Resources : deposed'[s] # None /\ state'[s].id = deposed'[s]
                          => <<s, deposed'[s]>> \in vanished'
    BY <1>8, <2>2, <2>4 DEF Import, Holds, HeldOnce
  <2>7. kind = "section" => i \notin Anonymous /\ \A s \in Resources : importing'[s] # i
    BY <1>8, <2>1, <2>4 DEF Import, AnonymousOfOthers
  <2>8. kind' = kind
    BY <1>8 DEF Import
  <2> QED
    BY <2>3, <2>4, <2>5, <2>6, <2>7, <2>8, GainStep
<1>9. ASSUME NEW r \in Resources, LookUp(r) PROVE Safe'
  <2>1. PICK i \in Ids : /\ Fitting(r, i)
                         /\ importing' = [importing EXCEPT ![r] = i]
    BY <1>9 DEF LookUp
  <2>2. Reserved'
    BY <1>9, <2>1 DEF LookUp, Fitting, Reserved, Holds, TypeOK
  <2> QED
    BY <1>9, <2>2 DEF LookUp, HeldIsThere, HeldOnce, HeldIsNamed, OneHolder, Holds, There
<1>10. ASSUME NEW r \in Resources, Adopt(r) PROVE Safe'
  <2>1. importing[r] # None /\ importing[r] \in Ids /\ kind = "section"
    BY <1>10 DEF Adopt, Reserved, TypeOK
  <2>2. NoNewImport /\ importing'[r] = None /\ kind' = kind /\ vanished' = vanished
    BY <1>10 DEF Adopt, NoNewImport, TypeOK
  <2>3. CASE ~ There(importing[r])
    <3>1. UNCHANGED <<items, state, deposed>>
      BY <1>10, <2>3 DEF Adopt
    <3>2. Recorded
      BY <2>2, <3>1, RecordedBy DEF There
    <3> QED
      BY <2>2, <3>1, <3>2, QuietStep
  <2>4. CASE There(importing[r])
    <3>1. PICK j \in Ids : /\ Adopted(importing[r], j)
                           /\ state' = [state EXCEPT ![r] = Entry(j, items[importing[r]].content)]
      BY <1>10, <2>4 DEF Adopt
    <3>2. \A s \in Resources : ~ Holds(s, importing[r])
      BY <2>1 DEF Reserved
    <3>3. /\ j = importing[r] \/ Unused(j)
          /\ There(j)' /\ j \notin Anonymous
          /\ Recorded
      BY <2>1, <2>2, <2>4, <3>1, AdoptedIsSafe, RecordedBy
    <3>8. \A s \in Resources : ~ Holds(s, j)
      BY <3>2, <3>3 DEF Unused
    <3>4. state'[r].id = j /\ \A s \in Resources \ {r} : state'[s] = state[s]
      BY <3>1 DEF TypeOK, Entry
    <3>5. \A s \in Resources, i \in Ids : Holds(s, i)' => Holds(s, i) \/ (s = r /\ i = j)
      BY <1>10, <3>4 DEF Adopt, Holds
    <3>6. \A s \in Resources : importing'[s] # j
      <4> SUFFICES ASSUME NEW s \in Resources, importing'[s] = j PROVE FALSE
        OBVIOUS
      <4>1. s # r /\ importing[s] = j
        BY <1>1, <2>2 DEF NoNewImport
      <4> QED
        BY <2>1, <3>3, <4>1 DEF Reserved, Unused
    <3>7. \A s \in Resources : deposed'[s] # None /\ state'[s].id = deposed'[s]
            => <<s, deposed'[s]>> \in vanished'
      BY <1>10, <2>1, <3>4, <3>8 DEF Adopt, Holds, HeldOnce
    <3> QED
      BY <2>1, <2>2, <3>3, <3>5, <3>6, <3>7, <3>8, GainStep
  <2> QED
    BY <2>3, <2>4
<1>11. ASSUME NEW r \in Resources, CreateLost(r) \/ DeposedLost(r) PROVE Safe'
  BY <1>4, <1>11 DEF CreateLost, DeposedLost
<1>12. ASSUME NEW r \in Resources, AdoptLost(r) PROVE Safe'
  <2>1. Recorded /\ NoNewImport
    BY <1>12, RecordedBy DEF AdoptLost, There, NoNewImport, TypeOK
  <2> QED
    BY <1>12, <2>1, QuietStep DEF AdoptLost
<1>13. ASSUME NEW r \in Resources, Delete(r) PROVE Safe'
  <2>1. \A s \in Resources : state'[s].id \in {state[s].id, None}
    BY <1>2, <1>13 DEF Delete, TypeOK
  <2> QED
    BY <1>13, <2>1, RecordedBy, QuietStep DEF Delete, NoNewImport
<1>14. ASSUME NEW r \in Resources, DeleteLost(r) PROVE Safe'
  <2>1. \A s \in Resources : state'[s].id \in {state[s].id, None}
    BY <1>2, <1>14 DEF DeleteLost, TypeOK
  <2> QED
    BY <1>14, <2>1, RecordedBy, QuietStep DEF DeleteLost, NoNewImport
<1>15. ASSUME NEW r \in Resources, DeleteDeposed(r) PROVE Safe'
  <2>1. \A s \in Resources : deposed'[s] \in {deposed[s], None}
    BY <1>15 DEF DeleteDeposed, TypeOK
  <2> QED
    BY <1>15, <2>1, RecordedBy, QuietStep DEF DeleteDeposed, NoNewImport
<1>16. ASSUME NEW q \in late, Late(q) PROVE Safe'
  <2>1. UNCHANGED <<kind, deposed, importing>> /\ NoNewImport
    BY <1>16 DEF Late, NoNewImport
  <2>2. CASE LatePost(q)
    <3>1. PICK i \in Ids : Post(q.by, q.content, i)
      BY <2>2 DEF LatePost
    <3>2. q.by \in Resources /\ q.content \in Contents
      BY <2>2, RequestTyped DEF LatePost
    <3>3. \A j \in Ids : There(j) => There(j)'
      BY <3>1, <3>2, PostIsSafe
    <3>4. Recorded
      BY <2>2, <3>3, RecordedBy DEF LatePost
    <3> QED
      BY <2>1, <2>2, <3>4, QuietStep DEF LatePost
  <2>3. CASE LateAdopt(q)
    <3>1. PICK j \in Ids : Adopted(q.id, j)
      BY <2>3 DEF LateAdopt
    <3>2. q.id \in Ids /\ There(q.id) /\ kind = "section"
      BY <2>3, RequestTyped DEF LateAdopt, LateAdoptions
    <3>4. Recorded
      BY <2>3, <3>1, <3>2, AdoptedIsSafe, RecordedBy DEF LateAdopt
    <3> QED
      BY <2>1, <2>3, <3>4, QuietStep DEF LateAdopt
  <2>4. CASE LateDelete(q)
    <3>1. Recorded
      BY <2>4, RecordedBy DEF LateDelete
    <3> QED
      BY <2>1, <2>4, <3>1, QuietStep DEF LateDelete
  <2> QED
    BY <1>16, <2>2, <2>3, <2>4 DEF Late
<1>17. CASE OthersAdd
  <2>1. PICK c \in Contents : \E i \in OthersIds(c) :
          ~ There(i) /\ items' = [items EXCEPT ![i] = Item(c, "others", FALSE)]
    BY <1>17 DEF OthersAdd
  <2>2. PICK i \in OthersIds(c) :
          ~ There(i) /\ items' = [items EXCEPT ![i] = Item(c, "others", FALSE)]
    BY <2>1
  <2>3. Item(c, "others", FALSE) # NoItem
    BY ItemTyped
  <2>5. Recorded
    BY <1>17, <2>2, <2>3, RecordedBy DEF OthersAdd, There, TypeOK
  <2> QED
    BY <1>17, <2>5, QuietStep DEF OthersAdd, NoNewImport
<1>18. CASE OthersRemove
  BY <1>18, RecordedBy, QuietStep DEF OthersRemove, NoNewImport
<1>19. CASE Reconfigure \/ UNCHANGED vars
  BY <1>4, <1>19 DEF Reconfigure, vars
<1>20. CASE Crash
  BY <1>2, <1>20, RecordedBy, QuietStep DEF Crash, NoNewImport, TypeOK
<1> QED
  BY <1>5, <1>6, <1>7, <1>8, <1>9, <1>10, <1>11, <1>12, <1>13, <1>14, <1>15, <1>16,
     <1>17, <1>18, <1>19, <1>20 DEF Next, Run

\* Nothing but an import asks uapi to adopt.
LEMMA LateAdoptionsStep == IInv /\ [Next]_vars => LateAdoptions'
<1> SUFFICES ASSUME IInv, [Next]_vars PROVE LateAdoptions'
  OBVIOUS
<1> USE DEF IInv, Safe, LateAdoptions
<1>1. ASSUME late' \subseteq late, kind' = kind PROVE LateAdoptions'
  BY <1>1
<1>2. ASSUME NEW r \in Resources, NEW m, NEW i, NEW c, Lost(m, r, i, c), kind' = kind,
             m # "ADOPT" \/ kind = "section"
      PROVE  LateAdoptions'
  BY <1>2 DEF Lost
<1>3. ASSUME NEW r \in Resources, CreateLost(r) \/ DeleteLost(r) \/ DeposedLost(r)
      PROVE  LateAdoptions'
  BY <1>2, <1>3 DEF CreateLost, DeleteLost, DeposedLost
<1>4. ASSUME NEW r \in Resources, AdoptLost(r) PROVE LateAdoptions'
  <2>1. kind = "section"
    BY <1>4 DEF AdoptLost, Reserved
  <2> QED
    BY <1>2, <1>4, <2>1 DEF AdoptLost
<1>5. ASSUME NEW r \in Resources, Run(r) \/ Import(r) \/ LookUp(r) PROVE LateAdoptions'
  BY <1>1, <1>5 DEF Run, Create, Read, Update, Adopt, Delete, DeleteDeposed, Import, LookUp, Calm
<1>6. ASSUME NEW q \in late, Late(q) PROVE LateAdoptions'
  BY <1>1, <1>6 DEF Late
<1>7. CASE OthersAdd \/ OthersRemove \/ Reconfigure \/ Crash \/ UNCHANGED vars
  BY <1>1, <1>7 DEF OthersAdd, OthersRemove, Reconfigure, Crash, vars
<1> QED
  BY <1>3, <1>4, <1>5, <1>6, <1>7 DEF Next

LEMMA NobodyMadeNoItem == NoItem.by \notin Resources /\ NoItem.by = None /\ ~ NoItem.managed
  BY NameAssumption DEF NoItem, Item

\* An adoption puts the item of a resource nowhere where it was not, nor at an
\* anonymous id.
LEMMA AdoptMovesOthers ==
  ASSUME IInv, kind = "section", NEW k \in Ids, NEW j, Adopted(k, j)
  PROVE  /\ \A i \in Ids : items'[i].by \in Resources => items[i].by \in Resources
         /\ \A i \in Anonymous : items'[i] \in {items[i], NoItem}
<1> USE DEF IInv
<1>1. items \in [Ids -> Items \cup {NoItem}] /\ Anonymous \subseteq Ids
  BY DEF TypeOK, Ids
<1>2. j \in Ids /\ j \notin Anonymous /\ (j = k \/ k \in Anonymous)
  BY AdoptedIdsFree DEF Adopted, TypeOK
<1>3. items'[j] = [items[k] EXCEPT !.managed = TRUE]
      /\ \A i \in Ids \ {j} : items'[i] \in {items[i], NoItem}
  BY <1>1, <1>2 DEF Adopted
<1>4. [items[k] EXCEPT !.managed = TRUE].by = items[k].by
  BY <1>1 DEF Items, NoItem, Item
<1>5. \A i \in Ids : items'[i].by \in Resources => items[i].by \in Resources
  <2> SUFFICES ASSUME NEW i \in Ids, items'[i].by \in Resources
               PROVE  items[i].by \in Resources
    OBVIOUS
  <2>1. CASE i # j
    BY <1>3, <2>1, NobodyMadeNoItem
  <2>2. CASE i = j
    BY <1>2, <1>3, <1>4, <2>2 DEF AnonymousOfOthers
  <2> QED
    BY <2>1, <2>2
<1> QED
  BY <1>1, <1>2, <1>3, <1>5

\* No step manages an anonymous section or makes one for Terraform.
LEMMA AnonymousStep == IInv /\ [Next]_vars => AnonymousOfOthers'
<1> SUFFICES ASSUME IInv, [Next]_vars PROVE AnonymousOfOthers'
  OBVIOUS
<1> USE DEF IInv
<1>1. Anonymous \subseteq Ids
  BY DEF Ids
<1>2. ASSUME kind' = kind, kind = "section" =>
               \A i \in Anonymous : items'[i] \in {items[i], NoItem}
      PROVE  AnonymousOfOthers'
  BY <1>2, NobodyMadeNoItem DEF AnonymousOfOthers
<1>3. ASSUME NEW r \in Resources, NEW c \in Contents, NEW i, Post(r, c, i), kind' = kind
      PROVE  AnonymousOfOthers'
  <2>1. items' = [items EXCEPT ![i] = Item(c, r, TRUE)] /\ (kind = "section" => i \notin Anonymous)
    BY <1>3, PostIsSafe
  <2> QED
    BY <1>1, <1>2, <1>3, <2>1 DEF TypeOK
<1>4. ASSUME NEW i, items' = [items EXCEPT ![i] = NoItem], kind' = kind
      PROVE  AnonymousOfOthers'
  BY <1>1, <1>2, <1>4 DEF TypeOK
<1>5. ASSUME NEW r \in Resources, Create(r) PROVE AnonymousOfOthers'
  BY <1>3, <1>5 DEF Create, Creates, TypeOK
<1>6. ASSUME NEW r \in Resources, Update(r) PROVE AnonymousOfOthers'
  <2>1. state[r].id \in Ids /\ items[state[r].id] \in Items /\ kind' = kind
    BY <1>6, HeldTyped, ThereTyped DEF Update
  <2>2. \A i \in Ids : items'[i].by = items[i].by /\ items'[i].managed = items[i].managed
    BY <1>6, <2>1 DEF Update, TypeOK, Items
  <2> QED
    BY <1>1, <2>1, <2>2 DEF AnonymousOfOthers
<1>7. ASSUME NEW r \in Resources, Adopt(r) PROVE AnonymousOfOthers'
  <2>1. importing[r] \in Ids /\ kind = "section" /\ kind' = kind
    BY <1>7 DEF Adopt, Safe, Reserved, TypeOK
  <2>2. CASE items' = items
    BY <1>2, <2>1, <2>2
  <2>3. CASE \E j \in Ids : Adopted(importing[r], j)
    BY <1>2, <2>1, <2>3, AdoptMovesOthers
  <2> QED
    BY <1>7, <2>2, <2>3 DEF Adopt
<1>8. ASSUME NEW r \in Resources, Delete(r) \/ DeleteDeposed(r) PROVE AnonymousOfOthers'
  BY <1>4, <1>8 DEF Delete, DeleteDeposed, Removed
<1>9. ASSUME NEW r \in Resources,
             \/ CreateLost(r) \/ Read(r) \/ Import(r) \/ LookUp(r)
             \/ AdoptLost(r) \/ DeleteLost(r) \/ DeposedLost(r)
      PROVE  AnonymousOfOthers'
  BY <1>2, <1>9 DEF CreateLost, Read, Import, LookUp, AdoptLost, DeleteLost, DeposedLost
<1>10. ASSUME NEW q \in late, Late(q) PROVE AnonymousOfOthers'
  <2>1. kind' = kind
    BY <1>10 DEF Late
  <2>2. CASE LatePost(q)
    BY <1>3, <2>1, <2>2, RequestTyped DEF LatePost
  <2>3. CASE LateAdopt(q)
    <3>1. q.id \in Ids /\ kind = "section" /\ \E j \in Ids : Adopted(q.id, j)
      BY <2>3, RequestTyped DEF LateAdopt, LateAdoptions
    <3> QED
      BY <1>2, <2>1, <3>1, AdoptMovesOthers
  <2>4. CASE LateDelete(q)
    BY <1>4, <2>1, <2>4 DEF LateDelete, Removed
  <2> QED
    BY <1>10, <2>2, <2>3, <2>4 DEF Late
<1>11. CASE OthersAdd
  <2>1. PICK c \in Contents : \E i \in OthersIds(c) :
          items' = [items EXCEPT ![i] = Item(c, "others", FALSE)]
    BY <1>11 DEF OthersAdd
  <2>2. Item(c, "others", FALSE).by \notin Resources /\ ~ Item(c, "others", FALSE).managed
    BY NameAssumption DEF Item
  <2>3. \A i \in Anonymous : items'[i] \in {items[i], Item(c, "others", FALSE)}
    BY <1>1, <2>1 DEF TypeOK
  <2> QED
    BY <1>11, <2>2, <2>3 DEF OthersAdd, AnonymousOfOthers
<1>12. CASE OthersRemove
  BY <1>4, <1>12 DEF OthersRemove
<1>13. CASE Reconfigure \/ Crash \/ UNCHANGED vars
  BY <1>2, <1>13 DEF Reconfigure, Crash, vars
<1> QED
  BY <1>5, <1>6, <1>7, <1>8, <1>9, <1>10, <1>11, <1>12, <1>13 DEF Next, Run

\* The invariant as a whole.
LEMMA IInvStep == IInv /\ [Next]_vars => IInv'
BY TypeStep, SafeStep, LateAdoptionsStep, AnonymousStep DEF IInv

LEMMA IInvInit == Init => IInv
<1> SUFFICES ASSUME Init PROVE IInv
  OBVIOUS
<1>1. None \notin Ids
  BY NameAssumption
<1>2. \A r \in Resources, i \in Ids : ~ Holds(r, i)
  BY <1>1 DEF Init, Holds, NoEntry, Entry
<1>3. Safe
  BY <1>2 DEF Init, Safe, HeldIsThere, HeldOnce, HeldIsNamed, Reserved, OneHolder
<1>4. AnonymousOfOthers
  BY NobodyMadeNoItem DEF Init, AnonymousOfOthers, Ids, NoItem, Item
<1> QED
  BY <1>3, <1>4, InitType DEF Init, IInv, LateAdoptions

-----------------------------------------------------------------------------
(* The promise to the other users of the collection.                         *)

maker  == [i \in Ids |-> items[i].by]
claims == {c \in Resources \X Ids : Holds(c[1], c[2])}
sent   == {i \in Ids : \E q \in late : q.method = "DELETE" /\ q.id = i}

\* A block whose import is in progress has nothing in the state.
ImportsFirst == \A r \in Resources : importing[r] # None => state[r].id = None

LEMMA ImportsFirstStep == TypeOK /\ ImportsFirst /\ [Next]_vars => ImportsFirst'
<1> SUFFICES ASSUME TypeOK, ImportsFirst, [Next]_vars PROVE ImportsFirst'
  OBVIOUS
<1>1. NoEntry.id = None
  BY DEF NoEntry, Entry
<1>2. ASSUME NEW r \in Resources, Update(r) PROVE ImportsFirst'
  <2>1. state[r] \in Entries
    BY <1>2, HeldTyped DEF Update
  <2> QED
    BY <1>2, <2>1 DEF Update, ImportsFirst, TypeOK, Entries
<1>3. ASSUME NEW r \in Resources,
             Create(r) \/ CreateLost(r) \/ Read(r) \/ Import(r) \/ LookUp(r) \/ Adopt(r)
      PROVE  ImportsFirst'
  BY <1>1, <1>3 DEF Create, Creates, CreateLost, Read, Import, LookUp, Adopt, ImportsFirst,
                    TypeOK, Entry
<1>4. ASSUME NEW r \in Resources,
             AdoptLost(r) \/ Delete(r) \/ DeleteLost(r) \/ DeleteDeposed(r) \/ DeposedLost(r)
      PROVE  ImportsFirst'
  BY <1>1, <1>4 DEF AdoptLost, Delete, DeleteLost, DeleteDeposed, DeposedLost, ImportsFirst,
                    TypeOK
<1>5. ASSUME NEW q \in late, Late(q) PROVE ImportsFirst'
  BY <1>5 DEF Late, LatePost, LateAdopt, LateDelete, ImportsFirst
<1>6. CASE OthersAdd \/ OthersRemove \/ Reconfigure \/ Crash \/ UNCHANGED vars
  BY <1>1, <1>6 DEF OthersAdd, OthersRemove, Reconfigure, Crash, vars, ImportsFirst, TypeOK
<1> QED
  BY <1>2, <1>3, <1>4, <1>5, <1>6 DEF Next, Run

\* What is there has a maker, and what is not has none.
LEMMA MakerOfThere ==
  ASSUME TypeOK, NEW i \in Ids
  PROVE  There(i) <=> maker[i] # "none"
<1>1. NoItem.by = "none"
  BY DEF NoItem, Item, None
<1>2. \A x \in Items : x.by # "none"
  BY NameAssumption DEF Items, None
<1> QED
  BY <1>1, <1>2 DEF TypeOK, There, maker

\* Who holds what, as one fact about each pair.
LEMMA ClaimsAre == \A r \in Resources, i \in Ids : <<r, i>> \in claims <=> Holds(r, i)
  BY DEF claims

\* Claims are pairs, so a change to them can be told pair by pair.
LEMMA ClaimsChange ==
  ASSUME NEW r \in Resources, NEW i \in Ids
  PROVE  /\ (\A s \in Resources, j \in Ids :
               Holds(s, j)' <=> Holds(s, j)) => claims' = claims
         /\ (\A s \in Resources, j \in Ids :
               Holds(s, j)' <=> Holds(s, j) \/ (s = r /\ j = i))
              => claims' = claims \cup {<<r, i>>}
         /\ (\A s \in Resources, j \in Ids :
               Holds(s, j)' <=> Holds(s, j) /\ ~ (s = r /\ j = i))
              => claims' = claims \ {<<r, i>>}
<1>1. claims \subseteq Resources \X Ids /\ claims' \subseteq Resources \X Ids
  BY DEF claims
<1>2. \A s \in Resources, j \in Ids : /\ <<s, j>> \in claims <=> Holds(s, j)
                                      /\ <<s, j>> \in claims' <=> Holds(s, j)'
  BY DEF claims
<1>3. \A S, T \in SUBSET (Resources \X Ids) :
        (\A s \in Resources, j \in Ids : <<s, j>> \in S <=> <<s, j>> \in T) => S = T
  OBVIOUS
<1>4. claims \cup {<<r, i>>} \in SUBSET (Resources \X Ids)
  BY <1>1
<1>5. claims \ {<<r, i>>} \in SUBSET (Resources \X Ids)
  BY <1>1
<1> QED
  BY <1>1, <1>2, <1>3, <1>4, <1>5

\* Requests for a removal come and go one by one.
LEMMA SentChange ==
  /\ late' = late => sent' = sent
  /\ \A m, r, i, c : Lost(m, r, i, c) =>
       /\ m # "DELETE" => sent' = sent
       /\ m = "DELETE" /\ i \in Ids => sent' = sent \cup {i}
  /\ \A q \in late : late' = late \ {q} =>
       /\ q.method # "DELETE" => sent' = sent
       /\ q.method = "DELETE" => sent' \in {sent, sent \ {q.id}}
<1>1. late' = late => sent' = sent
  BY DEF sent
<1>2. ASSUME NEW m, NEW r, NEW i, NEW c, Lost(m, r, i, c)
      PROVE  /\ m # "DELETE" => sent' = sent
             /\ m = "DELETE" /\ i \in Ids => sent' = sent \cup {i}
  <2> DEFINE q == [call |-> upsets', method |-> m, by |-> r, id |-> i, content |-> c]
  <2>1. late' = late \cup {q} /\ q.method = m /\ q.id = i
    BY <1>2 DEF Lost
  <2> HIDE DEF q
  <2>2. \A j \in Ids : j \in sent' <=> j \in sent \/ (m = "DELETE" /\ j = i)
    BY <2>1 DEF sent
  <2>3. sent \subseteq Ids /\ sent' \subseteq Ids
    BY DEF sent
  <2> QED
    BY <2>2, <2>3
<1>3. ASSUME NEW q \in late, late' = late \ {q}
      PROVE  /\ q.method # "DELETE" => sent' = sent
             /\ q.method = "DELETE" => sent' \in {sent, sent \ {q.id}}
  <2>1. \A i \in Ids : i \in sent' => i \in sent
    BY <1>3 DEF sent
  <2>2. \A i \in Ids : i \in sent /\ ~ (q.method = "DELETE" /\ q.id = i) => i \in sent'
    BY <1>3 DEF sent
  <2>3. sent \subseteq Ids /\ sent' \subseteq Ids
    BY DEF sent
  <2>4. q.method # "DELETE" => sent' = sent
    BY <2>1, <2>2, <2>3
  <2>5. q.method = "DELETE" => sent' = sent \/ sent' = sent \ {q.id}
    BY <2>1, <2>2, <2>3
  <2> QED
    BY <2>4, <2>5
<1> QED
  BY <1>1, <1>2, <1>3

LEMMA OwnedInit == Init => Owned!Init
<1> SUFFICES ASSUME Init PROVE Owned!Init
  OBVIOUS
<1>1. \A i \in Ids : items[i].by = "none"
  BY DEF Init, NoItem, Item, None
<1>2. \A r \in Resources, i \in Ids : ~ Holds(r, i)
  BY NameAssumption DEF Init, Holds, NoEntry, Entry
<1>3. claims = {}
  BY <1>2 DEF claims
<1>4. [i \in Ids |-> items[i].by] \in [Ids -> {"none", "others"}]
  BY <1>1
<1>5. sent = {}
  BY DEF Init, sent
<1> QED
  BY <1>3, <1>4, <1>5 DEF Owned!Init, claims, sent

\* Every step is one of the promise's, or none of its.
LEMMA OwnedStep ==
  IInv /\ ImportsFirst /\ TypeOK' /\ [Next]_vars => [Owned!Next]_(Owned!vars)
<1> SUFFICES ASSUME IInv, ImportsFirst, TypeOK', [Next]_vars
             PROVE  [Owned!Next]_(Owned!vars)
  OBVIOUS
<1> USE DEF IInv, Safe
<1>1. None \notin Ids
  BY NameAssumption
<1>2. NoEntry.id = None /\ NoItem.by = "none"
  BY DEF NoEntry, NoItem, Entry, Item, None
<1>3. kind' = kind
  BY DEF Next, Run, Create, CreateLost, Read, Update, Import, LookUp, Adopt, AdoptLost, Delete,
         DeleteLost, DeleteDeposed, DeposedLost, Late, OthersAdd, OthersRemove, Reconfigure,
         Crash, vars
<1>4. ASSUME maker' = maker, sent' = sent,
             \A s \in Resources, j \in Ids : Holds(s, j)' <=> Holds(s, j)
      PROVE  UNCHANGED Owned!vars
  <2>1. claims' = claims
    BY <1>4 DEF claims
  <2> QED
    BY <1>3, <1>4, <2>1 DEF Owned!vars, maker, claims, sent
<1>5. ASSUME NEW r \in Resources, NEW i \in Ids, maker' = maker, sent' = sent,
             \A s \in Resources, j \in Ids : Holds(s, j)' <=> Holds(s, j) /\ ~ (s = r /\ j = i)
      PROVE  Owned!Next
  <2>1. claims' = claims \ {<<r, i>>}
    BY <1>5, ClaimsChange
  <2> QED
    BY <1>3, <1>5, <2>1 DEF Owned!Next, Owned!Forget, maker, claims, sent
<1>6. ASSUME NEW r \in Resources, NEW i \in Ids, ~ There(i) \/ kind = "key",
             maker' = [maker EXCEPT ![i] = r], sent' = sent,
             \/ \A s \in Resources, j \in Ids : Holds(s, j)' <=> Holds(s, j)
             \/ \A s \in Resources, j \in Ids : Holds(s, j)' <=> Holds(s, j) \/ (s = r /\ j = i)
      PROVE  Owned!Next
  <2>1. claims' \in {claims, claims \cup {<<r, i>>}}
    BY <1>6, ClaimsChange
  <2>2. maker[i] = "none" \/ kind = "key"
    BY <1>6, MakerOfThere
  <2> QED
    BY <1>3, <1>6, <2>1, <2>2 DEF Owned!Next, Owned!Make, maker, claims, sent
<1>7. ASSUME NEW r \in Resources, NEW i \in Ids, Holds(r, i), sent' = sent,
             maker' = [maker EXCEPT ![i] = "none"],
             \/ \A s \in Resources, j \in Ids : Holds(s, j)' <=> Holds(s, j)
             \/ \A s \in Resources, j \in Ids : Holds(s, j)' <=> Holds(s, j) /\ ~ (s = r /\ j = i)
      PROVE  Owned!Next
  <2>1. claims' \in {claims, claims \ {<<r, i>>}}
    BY <1>7, ClaimsChange
  <2>2. <<r, i>> \in claims
    BY <1>7, ClaimsAre
  <2> QED
    BY <1>3, <1>7, <2>1, <2>2 DEF Owned!Next, Owned!Remove, maker, claims, sent
<1>8. ASSUME NEW r \in Resources, NEW i \in Ids, There(i), maker' = maker, sent' = sent,
             \A s \in Resources : ~ Holds(s, i),
             \A s \in Resources, j \in Ids : Holds(s, j)' <=> Holds(s, j) \/ (s = r /\ j = i)
      PROVE  Owned!Next
  <2>1. claims' = claims \cup {<<r, i>>}
    BY <1>8, ClaimsChange
  <2>2. maker[i] # "none" /\ \A s \in Resources : <<s, i>> \notin claims
    BY <1>8, MakerOfThere, ClaimsAre
  <2> QED
    BY <1>3, <1>8, <2>1, <2>2 DEF Owned!Next, Owned!Import, maker, claims, sent
<1>9. ASSUME NEW r \in Resources, NEW i \in Ids, NEW k \in Ids, There(i), ~ There(k),
             \A s \in Resources : ~ Holds(s, i), sent' = sent,
             maker' = [maker EXCEPT ![i] = "none", ![k] = maker[i]],
             \/ \A s \in Resources, j \in Ids : Holds(s, j)' <=> Holds(s, j)
             \/ \A s \in Resources, j \in Ids : Holds(s, j)' <=> Holds(s, j) \/ (s = r /\ j = k)
      PROVE  Owned!Next
  <2>1. claims' \in {claims, claims \cup {<<r, k>>}}
    BY <1>9, ClaimsChange
  <2>2. maker[i] # "none" /\ maker[k] = "none" /\ \A s \in Resources : <<s, i>> \notin claims
    BY <1>9, MakerOfThere, ClaimsAre
  <2> QED
    BY <1>3, <1>9, <2>1, <2>2 DEF Owned!Next, Owned!Adopt, maker, claims, sent
<1>10. ASSUME NEW i \in Ids, \A s \in Resources, j \in Ids : Holds(s, j)' <=> Holds(s, j),
              sent' = sent,
              \/ ~ There(i) /\ maker' = [maker EXCEPT ![i] = "others"]
              \/ There(i) /\ maker' = [maker EXCEPT ![i] = "none"]
      PROVE  Owned!Next
  <2>1. claims' = claims
    BY <1>10 DEF claims
  <2>2. There(i) <=> maker[i] # "none"
    BY MakerOfThere
  <2> QED
    BY <1>3, <1>10, <2>1, <2>2 DEF Owned!Next, Owned!Others, maker, claims, sent
<1>11. ASSUME NEW r \in Resources, NEW i \in Ids, NEW c, Holds(r, i),
              Lost("DELETE", r, i, c), maker' = maker,
              \/ \A s \in Resources, j \in Ids : Holds(s, j)' <=> Holds(s, j)
              \/ \A s \in Resources, j \in Ids : Holds(s, j)' <=> Holds(s, j) /\ ~ (s = r /\ j = i)
       PROVE  Owned!Next
  <2>1. claims' \in {claims, claims \ {<<r, i>>}}
    BY <1>11, ClaimsChange
  <2>2. <<r, i>> \in claims /\ sent' = sent \cup {i}
    BY <1>11, ClaimsAre, SentChange
  <2> QED
    BY <1>3, <1>11, <2>1, <2>2 DEF Owned!Next, Owned!Ask, maker, claims, sent
<1>12. items' = items => maker' = maker
  BY DEF maker
<1>13. ASSUME NEW i \in Ids, NEW x, items' = [items EXCEPT ![i] = x]
       PROVE  maker' = [maker EXCEPT ![i] = x.by]
  BY <1>13 DEF maker, TypeOK
<1>14. UNCHANGED <<state, deposed>>
         => \A s \in Resources, j \in Ids : Holds(s, j)' <=> Holds(s, j)
  BY DEF Holds
<1>15. late' = late => sent' = sent
  BY SentChange
<1>16. ASSUME NEW r \in Resources, NEW c \in Contents, NEW i, Post(r, c, i)
       PROVE  /\ i \in Ids /\ maker' = [maker EXCEPT ![i] = r]
              /\ ~ There(i) \/ kind = "key"
  <2>1. i \in Ids /\ items' = [items EXCEPT ![i] = Item(c, r, TRUE)]
        /\ (~ There(i) \/ kind = "key")
    BY <1>16, PostIsSafe
  <2>2. Item(c, r, TRUE).by = r
    BY DEF Item
  <2> QED
    BY <1>13, <2>1, <2>2
<1>17. ASSUME NEW k \in Ids, NEW j \in Ids, There(k), Adopted(k, j), kind = "section"
       PROVE  /\ maker' = [maker EXCEPT ![k] = "none", ![j] = maker[k]]
              /\ j # k => ~ There(j) /\ \A s \in Resources : ~ Holds(s, k)
  <2>1. items[k] \in Items
    BY <1>17, ThereTyped
  <2>2. [items[k] EXCEPT !.managed = TRUE].by = items[k].by
    BY <2>1 DEF Items
  <2>3. j = k \/ (Unused(j) /\ \A s \in Resources : ~ Holds(s, k))
    BY <1>17, AdoptedIsSafe
  <2> QED
    BY <1>2, <1>17, <2>2, <2>3 DEF Adopted, maker, TypeOK, Unused
<1>18. ASSUME NEW r \in Resources, Create(r) PROVE Owned!Next
  <2>1. PICK i \in Ids : /\ Post(r, config[r], i)
                         /\ state' = [state EXCEPT ![r] = Entry(i, config[r])]
    BY <1>18 DEF Create
  <2>2. /\ config[r] \in Contents /\ (state[r] = NoEntry \/ deposed[r] = None)
        /\ deposed' = [deposed EXCEPT ![r] = IF state[r] = NoEntry THEN @ ELSE state[r].id]
        /\ late' = late
    BY <1>18 DEF Create, Creates, Calm, TypeOK
  <2>3. (~ There(i) \/ kind = "key") /\ maker' = [maker EXCEPT ![i] = r]
    BY <1>16, <2>1, <2>2
  <2>4. state'[r].id = i /\ \A s \in Resources \ {r} : state'[s] = state[s] /\ deposed'[s] = deposed[s]
    BY <2>1, <2>2 DEF TypeOK, Entry
  <2>5. \A s \in Resources, j \in Ids : Holds(s, j)' <=> Holds(s, j) \/ (s = r /\ j = i)
    BY <1>1, <1>2, <2>2, <2>4 DEF Holds, TypeOK
  <2> QED
    BY <1>6, <1>15, <2>2, <2>3, <2>5
<1>19. ASSUME NEW r \in Resources, CreateLost(r) \/ AdoptLost(r) PROVE UNCHANGED Owned!vars
  <2>1. sent' = sent /\ UNCHANGED <<items, state, deposed>>
    BY <1>19, SentChange DEF CreateLost, AdoptLost
  <2> QED
    BY <1>4, <1>12, <1>14, <2>1
<1>20. ASSUME NEW r \in Resources, Read(r) PROVE [Owned!Next]_(Owned!vars)
  <2>1. state[r].id \in Ids /\ maker' = maker /\ sent' = sent
    BY <1>12, <1>15, <1>20, HeldTyped DEF Read, Calm
  <2>2. \/ state'[r].id = state[r].id
        \/ state'[r].id = None
    BY <1>2, <1>20 DEF Read, TypeOK, Entry
  <2>3. \A s \in Resources \ {r} : state'[s] = state[s]
    BY <1>20 DEF Read, TypeOK
  <2>4. CASE state'[r].id = state[r].id \/ deposed[r] = state[r].id
    <3>1. \A s \in Resources, j \in Ids : Holds(s, j)' <=> Holds(s, j)
      BY <1>1, <1>20, <2>1, <2>2, <2>3, <2>4 DEF Read, Holds
    <3> QED
      BY <1>4, <2>1, <3>1
  <2>5. CASE state'[r].id = None /\ deposed[r] # state[r].id
    <3>1. \A s \in Resources, j \in Ids :
            Holds(s, j)' <=> Holds(s, j) /\ ~ (s = r /\ j = state[r].id)
      BY <1>1, <1>20, <2>1, <2>3, <2>5 DEF Read, Holds
    <3> QED
      BY <1>5, <2>1, <3>1
  <2> QED
    BY <2>2, <2>4, <2>5
<1>21. ASSUME NEW r \in Resources, Update(r) PROVE UNCHANGED Owned!vars
  <2>1. state[r] \in Entries /\ state[r].id \in Ids
    BY <1>21, HeldTyped DEF Update
  <2>2. items[state[r].id] \in Items
    BY <1>21, <2>1, ThereTyped DEF Update
  <2>3. \A i \in Ids : items'[i].by = items[i].by
    BY <1>21, <2>2 DEF Update, TypeOK, Items
  <2>4. maker' = maker
    BY <2>3 DEF maker
  <2>5. \A s \in Resources : state'[s].id = state[s].id
    BY <1>21, <2>1 DEF Update, TypeOK, Entries
  <2>6. \A s \in Resources, j \in Ids : Holds(s, j)' <=> Holds(s, j)
    BY <1>21, <2>5 DEF Update, Holds
  <2> QED
    BY <1>4, <1>15, <1>21, <2>4, <2>6 DEF Update, Calm
<1>22. ASSUME NEW r \in Resources, Import(r) PROVE Owned!Next
  <2>1. PICK i \in Ids : /\ Fitting(r, i)
                         /\ state' = [state EXCEPT ![r] = Entry(i, ReadBack(i, None))]
    BY <1>22 DEF Import
  <2>2. state'[r].id = i /\ \A s \in Resources \ {r} : state'[s] = state[s]
    BY <2>1 DEF TypeOK, Entry
  <2>3. \A s \in Resources, j \in Ids : Holds(s, j)' <=> Holds(s, j) \/ (s = r /\ j = i)
    BY <1>1, <1>2, <1>22, <2>2 DEF Import, Holds
  <2> QED
    BY <1>8, <1>12, <1>15, <1>22, <2>1, <2>3 DEF Import, Fitting, Calm
<1>23. ASSUME NEW r \in Resources, Adopt(r) PROVE [Owned!Next]_(Owned!vars)
  <2>1. /\ importing[r] # None /\ importing[r] \in Ids /\ state[r].id = None
        /\ kind = "section"
    BY <1>23 DEF Adopt, ImportsFirst, TypeOK, Reserved
  <2>2. deposed' = deposed /\ sent' = sent
    BY <1>15, <1>23 DEF Adopt, Calm
  <2>3. CASE UNCHANGED <<items, state>>
    BY <1>4, <1>12, <1>14, <2>2, <2>3
  <2>4. CASE There(importing[r]) /\ ~ UNCHANGED <<items, state>>
    <3>1. PICK j \in Ids : /\ Adopted(importing[r], j)
                           /\ state' = [state EXCEPT ![r] = Entry(j, items[importing[r]].content)]
      BY <1>23, <2>4 DEF Adopt
    <3>2. \A s \in Resources : ~ Holds(s, importing[r])
      BY <2>1 DEF Reserved
    <3>3. /\ maker' = [maker EXCEPT ![importing[r]] = "none", ![j] = maker[importing[r]]]
          /\ j # importing[r] => ~ There(j)
      BY <1>17, <2>1, <2>4, <3>1, <3>2
    <3>4. state'[r].id = j /\ \A s \in Resources \ {r} : state'[s] = state[s]
      BY <3>1 DEF TypeOK, Entry
    <3>5. \A s \in Resources, k \in Ids : Holds(s, k)' <=> Holds(s, k) \/ (s = r /\ k = j)
      BY <1>1, <2>1, <2>2, <3>4 DEF Holds
    <3>6. CASE j # importing[r]
      BY <1>9, <2>1, <2>2, <2>4, <3>2, <3>3, <3>5, <3>6
    <3>7. CASE j = importing[r]
      <4>1. maker' = maker
        BY <2>1, <3>3, <3>7 DEF maker
      <4> QED
        BY <1>8, <2>2, <2>4, <3>2, <3>5, <3>7, <4>1
    <3> QED
      BY <3>6, <3>7
  <2> QED
    BY <1>23, <2>3, <2>4 DEF Adopt
<1>24. ASSUME NEW r \in Resources, Delete(r) PROVE Owned!Next
  <2>1. state[r].id \in Ids /\ Holds(r, state[r].id)
    BY <1>24, HeldTyped DEF Delete, Destroys, Holds
  <2>2. maker' = [maker EXCEPT ![state[r].id] = "none"] /\ sent' = sent
    BY <1>2, <1>13, <1>15, <1>24, <2>1 DEF Delete, Removed, Calm
  <2>3. deposed' = deposed /\ state'[r].id = None /\ \A s \in Resources \ {r} : state'[s] = state[s]
    BY <1>2, <1>24 DEF Delete, TypeOK
  <2>4. \/ \A s \in Resources, j \in Ids : Holds(s, j)' <=> Holds(s, j)
        \/ \A s \in Resources, j \in Ids :
             Holds(s, j)' <=> Holds(s, j) /\ ~ (s = r /\ j = state[r].id)
    BY <1>1, <2>1, <2>3 DEF Holds
  <2> QED
    BY <1>7, <2>1, <2>2, <2>4
<1>25. ASSUME NEW r \in Resources, DeleteLost(r) PROVE Owned!Next
  <2>1. state[r].id \in Ids /\ Holds(r, state[r].id) /\ maker' = maker
    BY <1>12, <1>25, HeldTyped DEF DeleteLost, Destroys, Holds
  <2>2. deposed' = deposed /\ \/ state' = state
                              \/ state'[r].id = None /\ \A s \in Resources \ {r} : state'[s] = state[s]
    BY <1>2, <1>25 DEF DeleteLost, TypeOK
  <2>3. \/ \A s \in Resources, j \in Ids : Holds(s, j)' <=> Holds(s, j)
        \/ \A s \in Resources, j \in Ids :
             Holds(s, j)' <=> Holds(s, j) /\ ~ (s = r /\ j = state[r].id)
    BY <1>1, <2>1, <2>2 DEF Holds
  <2>4. PICK c : Lost("DELETE", r, state[r].id, c)
    BY <1>25 DEF DeleteLost
  <2> QED
    BY <1>11, <2>1, <2>3, <2>4
<1>26. ASSUME NEW r \in Resources, DeleteDeposed(r) PROVE Owned!Next
  <2>1. deposed[r] \in Ids /\ Holds(r, deposed[r])
    BY <1>26 DEF DeleteDeposed, Holds, TypeOK
  <2>2. maker' = [maker EXCEPT ![deposed[r]] = "none"] /\ sent' = sent
    BY <1>2, <1>13, <1>15, <1>26, <2>1 DEF DeleteDeposed, Removed, Calm
  <2>3. state' = state /\ deposed'[r] = None /\ \A s \in Resources \ {r} : deposed'[s] = deposed[s]
    BY <1>26 DEF DeleteDeposed, TypeOK
  <2>4. \/ \A s \in Resources, j \in Ids : Holds(s, j)' <=> Holds(s, j)
        \/ \A s \in Resources, j \in Ids :
             Holds(s, j)' <=> Holds(s, j) /\ ~ (s = r /\ j = deposed[r])
    BY <1>1, <2>1, <2>3 DEF Holds
  <2> QED
    BY <1>7, <2>1, <2>2, <2>4
<1>27. ASSUME NEW r \in Resources, DeposedLost(r) PROVE Owned!Next
  <2>1. deposed[r] \in Ids /\ Holds(r, deposed[r]) /\ Lost("DELETE", r, deposed[r], None)
    BY <1>27 DEF DeposedLost, Holds, TypeOK
  <2> QED
    BY <1>11, <1>12, <1>14, <1>27, <2>1 DEF DeposedLost
<1>28. ASSUME NEW q \in late, LatePost(q), Late(q) PROVE Owned!Next
  <2>1. PICK i \in Ids : Post(q.by, q.content, i)
    BY <1>28 DEF LatePost
  <2>2. q.by \in Resources /\ q.content \in Contents
    BY <1>28, RequestTyped DEF LatePost
  <2>3. maker' = [maker EXCEPT ![i] = q.by] /\ (~ There(i) \/ kind = "key")
    BY <1>16, <2>1, <2>2
  <2>4. sent' = sent /\ UNCHANGED <<state, deposed>>
    BY <1>28, SentChange DEF LatePost, Late
  <2> QED
    BY <1>6, <1>14, <2>2, <2>3, <2>4
<1>29. ASSUME NEW q \in late, LateAdopt(q), Late(q) PROVE [Owned!Next]_(Owned!vars)
  <2>1. PICK j \in Ids : Adopted(q.id, j)
    BY <1>29 DEF LateAdopt
  <2>2. q.id \in Ids /\ q.by \in Resources /\ There(q.id)
    BY <1>29, RequestTyped DEF LateAdopt
  <2>3. kind = "section"
    BY <1>29 DEF LateAdopt, LateAdoptions
  <2>4. /\ maker' = [maker EXCEPT ![q.id] = "none", ![j] = maker[q.id]]
        /\ j # q.id => ~ There(j) /\ \A s \in Resources : ~ Holds(s, q.id)
    BY <1>17, <2>1, <2>2, <2>3
  <2>5. sent' = sent /\ \A s \in Resources, i \in Ids : Holds(s, i)' <=> Holds(s, i)
    BY <1>14, <1>29, SentChange DEF LateAdopt, Late
  <2>6. CASE j # q.id
    BY <1>9, <2>2, <2>4, <2>5, <2>6
  <2>7. CASE j = q.id
    <3>1. maker' = maker
      BY <2>2, <2>4, <2>7 DEF maker
    <3> QED
      BY <1>4, <2>5, <3>1
  <2> QED
    BY <2>6, <2>7
<1>30. ASSUME NEW q \in late, LateDelete(q), Late(q) PROVE Owned!Next
  <2>1. q.id \in Ids /\ q.id \in sent
    <3>1. q.method = "DELETE" /\ q.id \in Ids
      BY <1>30, RequestTyped DEF LateDelete
    <3> QED
      BY <3>1 DEF sent
  <2>2. maker' = [maker EXCEPT ![q.id] = "none"]
    <3>1. items' = [items EXCEPT ![q.id] = NoItem]
      BY <1>30 DEF LateDelete, Removed
    <3> QED
      BY <1>2, <1>13, <2>1, <3>1
  <2>3. sent' \in {sent, sent \ {q.id}}
    BY <1>30, SentChange DEF LateDelete, Late
  <2>4. \A s \in Resources, j \in Ids : Holds(s, j)' <=> Holds(s, j)
    BY <1>14, <1>30 DEF LateDelete, Late
  <2>5. claims' = claims
    BY <2>4 DEF claims
  <2> QED
    BY <1>3, <2>1, <2>2, <2>3, <2>5 DEF Owned!Next, Owned!RemoveLate, maker, claims, sent
<1>31. CASE OthersAdd
  <2>1. PICK c \in Contents : \E i \in OthersIds(c) :
          ~ There(i) /\ items' = [items EXCEPT ![i] = Item(c, "others", FALSE)]
    BY <1>31 DEF OthersAdd
  <2>2. PICK i \in OthersIds(c) :
          ~ There(i) /\ items' = [items EXCEPT ![i] = Item(c, "others", FALSE)]
    BY <2>1
  <2>3. i \in Ids
    BY <2>2, NewIdsUnused, KindAssumption DEF OthersIds, Ids, TypeOK
  <2>4. Item(c, "others", FALSE).by = "others"
    BY DEF Item
  <2>5. maker' = [maker EXCEPT ![i] = "others"]
    BY <1>13, <2>2, <2>3, <2>4
  <2> QED
    BY <1>10, <1>14, <1>15, <1>31, <2>2, <2>3, <2>5 DEF OthersAdd
<1>32. CASE OthersRemove
  <2>1. PICK i \in Ids : There(i) /\ items' = [items EXCEPT ![i] = NoItem]
    BY <1>32 DEF OthersRemove
  <2>2. maker' = [maker EXCEPT ![i] = "none"]
    BY <1>2, <1>13, <2>1
  <2> QED
    BY <1>10, <1>14, <1>15, <1>32, <2>1, <2>2 DEF OthersRemove
<1>33. CASE Crash
  <2>1. PICK r \in Resources : state[r] # NoEntry /\ state' = [state EXCEPT ![r] = NoEntry]
    BY <1>33 DEF Crash
  <2>2. state[r].id \in Ids /\ maker' = maker /\ sent' = sent
    BY <1>12, <1>15, <1>33, <2>1, HeldTyped DEF Crash
  <2>3. \/ \A s \in Resources, j \in Ids : Holds(s, j)' <=> Holds(s, j)
        \/ \A s \in Resources, j \in Ids :
             Holds(s, j)' <=> Holds(s, j) /\ ~ (s = r /\ j = state[r].id)
    BY <1>1, <1>2, <1>33, <2>1, <2>2 DEF Crash, Holds, TypeOK
  <2>4. CASE \A s \in Resources, j \in Ids : Holds(s, j)' <=> Holds(s, j)
    BY <1>4, <2>2, <2>4
  <2>5. CASE \A s \in Resources, j \in Ids :
               Holds(s, j)' <=> Holds(s, j) /\ ~ (s = r /\ j = state[r].id)
    BY <1>5, <2>2, <2>5
  <2> QED
    BY <2>3, <2>4, <2>5
<1>34. CASE Reconfigure \/ UNCHANGED vars \/ \E r \in Resources : LookUp(r)
  BY <1>4, <1>12, <1>14, <1>15, <1>34 DEF Reconfigure, vars, LookUp, Calm
<1> QED
  BY <1>18, <1>19, <1>20, <1>21, <1>22, <1>23, <1>24, <1>25, <1>26, <1>27, <1>28, <1>29,
     <1>30, <1>31, <1>32, <1>33, <1>34 DEF Next, Run, Late

\* Every variable of every run has its type, whatever the bound.
THEOREM ContentIdsTypeCorrect == Spec => []TypeOK
<1>1. Init => TypeOK
  BY InitType
<1>2. TypeOK /\ [Next]_vars => TypeOK'
  BY TypeStep
<1> QED
  BY <1>1, <1>2, PTL DEF Spec

\* However creates, imports, replacements, losses, requests that arrive late and the
\* actions of others interleave, no two resources of a kind other than SSH keys have
\* the same item, but for one that went away behind the back of one of them.
THEOREM NoItemShared == Spec => []OneHolder
<1>1. IInv => OneHolder
  BY DEF IInv, Safe
<1> QED
  BY <1>1, IInvInit, IInvStep, PTL DEF Spec

\* For the other users of the collection the resources of a configuration are a
\* party that takes away what it made or imported, or had when it asked for its
\* removal, and makes nothing over theirs, however late its requests are handled.
THEOREM ContentIdsImplementOwnedItems == Spec => ClaimsRespected
<1>1. Init => IInv /\ ImportsFirst /\ Owned!Init
  BY IInvInit, OwnedInit DEF ImportsFirst, Init
<1>2. IInv /\ ImportsFirst /\ [Next]_vars => IInv' /\ ImportsFirst' /\ [Owned!Next]_(Owned!vars)
  <2>1. IInv /\ ImportsFirst /\ [Next]_vars => IInv' /\ ImportsFirst'
    BY IInvStep, ImportsFirstStep DEF IInv
  <2> QED
    BY <2>1, OwnedStep DEF IInv
<1> QED
  BY <1>1, <1>2, PTL DEF Spec, ClaimsRespected, Owned!Spec
-----------------------------------------------------------------------------
(***************************************************************************)
(* What Terraform made on the router has a resource that will destroy it,   *)
(* unless it was orphaned by a lost create, a dead run or a lost Close      *)
(* (OrphansOnlyByLoss).  The step that could break it is an adoption whose  *)
(* answer is lost: it moves an item, however late, to an id that nobody is  *)
(* told of.  It does not: an anonymous section was made by others.          *)
(***************************************************************************)

\* A step that makes no item for Terraform, and by which no resource lets go of one
\* that is still there, unless it is recorded as lost.
LEMMA NothingMade ==
  ASSUME OrphansOnlyByLoss,
         \A i \in Ids : items'[i].by \in Resources =>
           /\ items[i].by \in Resources
           /\ i \in orphaned => i \in orphaned' \/ \E r \in Resources : Holds(r, i)'
           /\ \A r \in Resources : Holds(r, i) =>
                i \in orphaned' \/ \E s \in Resources : Holds(s, i)'
  PROVE  OrphansOnlyByLoss'
BY DEF OrphansOnlyByLoss

\* A create, answered or not: the item is new, or replaces the line of a key.
LEMMA OneMade ==
  ASSUME IInv, OrphansOnlyByLoss, NEW r \in Resources, NEW c \in Contents, NEW k \in Ids,
         Post(r, c, k), orphaned \ {k} \subseteq orphaned',
         k \in orphaned' \/ Holds(r, k)',
         \A s \in Resources, i \in Ids : Holds(s, i) => Holds(s, i)'
  PROVE  OrphansOnlyByLoss'
<1>1. \A i \in Ids \ {k} : items'[i] = items[i]
  BY DEF Post, IInv, TypeOK
<1> SUFFICES ASSUME NEW i \in Ids, items'[i].by \in Resources
             PROVE  i \in orphaned' \/ \E s \in Resources : Holds(s, i)'
  BY DEF OrphansOnlyByLoss
<1>2. CASE i = k
  BY <1>2
<1>3. CASE i # k
  BY <1>1, <1>3 DEF OrphansOnlyByLoss
<1> QED
  BY <1>2, <1>3
-----------------------------------------------------------------------------
LEMMA OrphansStep ==
  IInv /\ ImportsFirst /\ OrphansOnlyByLoss /\ [Next]_vars => OrphansOnlyByLoss'
<1> SUFFICES ASSUME IInv, ImportsFirst, OrphansOnlyByLoss, [Next]_vars PROVE OrphansOnlyByLoss'
  OBVIOUS
<1> USE DEF IInv, Safe
<1>1. None \notin Ids /\ NoEntry.id = None
  BY NameAssumption DEF NoEntry, Entry
<1>2. ASSUME NEW r \in Resources, Create(r) PROVE OrphansOnlyByLoss'
  <2>1. PICK k \in Ids : /\ Post(r, config[r], k)
                         /\ state' = [state EXCEPT ![r] = Entry(k, config[r])]
                         /\ orphaned' = orphaned \ {k}
    BY <1>2 DEF Create
  <2>2. /\ config[r] \in Contents
        /\ deposed' = [deposed EXCEPT ![r] = IF state[r] = NoEntry THEN @ ELSE state[r].id]
        /\ state[r] # NoEntry => deposed[r] = None
        /\ UNCHANGED <<kind, importing>>
    BY <1>2 DEF Create, Creates, TypeOK
  <2>3. state'[r].id = k /\ \A s \in Resources \ {r} : state'[s] = state[s] /\ deposed'[s] = deposed[s]
    BY <2>1, <2>2 DEF TypeOK, Entry
  <2>4. \A s \in Resources, i \in Ids : Holds(s, i) => Holds(s, i)'
    BY <1>1, <2>2, <2>3 DEF Holds, TypeOK
  <2>5. Holds(r, k)'
    BY <2>3 DEF Holds
  <2> QED
    BY <2>1, <2>2, <2>4, <2>5, OneMade
<1>3. ASSUME NEW r \in Resources, Read(r) PROVE OrphansOnlyByLoss'
  <2>1. \A s \in Resources \ {r} : state'[s] = state[s]
    BY <1>3 DEF Read, TypeOK
  <2>2. There(state[r].id) => state'[r].id = state[r].id
    BY <1>3 DEF Read, TypeOK, Entry
  <2>3. \A s \in Resources, i \in Ids : items[i].by \in Resources /\ Holds(s, i) => Holds(s, i)'
    BY <1>3, <2>1, <2>2, NobodyMadeNoItem DEF Read, Holds, There
  <2> QED
    BY <1>3, <2>3, NothingMade DEF Read
<1>4. ASSUME NEW r \in Resources, Update(r) PROVE OrphansOnlyByLoss'
  <2>1. state[r] \in Entries /\ state[r].id \in Ids
    BY <1>4, HeldTyped DEF Update
  <2>2. \A s \in Resources : state'[s].id = state[s].id
    BY <1>4, <2>1 DEF Update, TypeOK, Entries
  <2>3. \A i \in Ids : items'[i].by = items[i].by /\ items'[i].managed = items[i].managed
    BY <1>4, <2>1 DEF Update, TypeOK, Items, NoItem, Item
  <2>4. \A s \in Resources, i \in Ids : Holds(s, i) => Holds(s, i)'
    BY <1>4, <2>2 DEF Update, Holds
  <2> QED
    BY <1>4, <2>3, <2>4, NothingMade DEF Update
<1>5. ASSUME NEW r \in Resources, Import(r) PROVE OrphansOnlyByLoss'
  <2>1. PICK k \in Ids : /\ state' = [state EXCEPT ![r] = Entry(k, ReadBack(k, None))]
                         /\ orphaned' = orphaned \ {k}
    BY <1>5 DEF Import
  <2>2. state'[r].id = k /\ \A s \in Resources \ {r} : state'[s] = state[s]
    BY <2>1 DEF TypeOK, Entry
  <2>3. Holds(r, k)' /\ \A s \in Resources, i \in Ids : Holds(s, i) => Holds(s, i)'
    BY <1>1, <1>5, <2>2 DEF Import, Holds
  <2> QED
    BY <1>5, <2>1, <2>3, NothingMade DEF Import
<1>6. ASSUME NEW r \in Resources, LookUp(r) PROVE OrphansOnlyByLoss'
  BY <1>6, NothingMade DEF LookUp, Holds
<1>7. ASSUME NEW r \in Resources, Adopt(r) PROVE OrphansOnlyByLoss'
  <2>1. /\ importing[r] # None /\ importing[r] \in Ids /\ kind = "section"
        /\ orphaned' = orphaned \ {importing[r]} /\ deposed' = deposed
    BY <1>7 DEF Adopt, TypeOK, Reserved
  <2>2. CASE ~ There(importing[r])
    <3>1. UNCHANGED <<items, state>>
      BY <1>7, <2>2 DEF Adopt
    <3>2. \A i \in Ids : items[i].by \in Resources => i # importing[r]
      BY <2>2, NobodyMadeNoItem DEF There
    <3> QED
      BY <2>1, <3>1, <3>2, NothingMade DEF Holds
  <2>3. CASE There(importing[r])
    <3>1. PICK j \in Ids : /\ Adopted(importing[r], j)
                           /\ state' = [state EXCEPT ![r] = Entry(j, items[importing[r]].content)]
      BY <1>7, <2>3 DEF Adopt
    <3>2. \A i \in Ids : items'[i].by \in Resources => items[i].by \in Resources
      BY <2>1, <3>1, AdoptMovesOthers
    <3>3. state[r].id = None
      BY <2>1 DEF ImportsFirst
    <3>4. state'[r].id = j /\ \A s \in Resources \ {r} : state'[s] = state[s]
      BY <3>1 DEF TypeOK, Entry
    <3>5. Holds(r, j)' /\ \A s \in Resources, i \in Ids : Holds(s, i) => Holds(s, i)'
      BY <1>1, <2>1, <3>3, <3>4 DEF Holds
    <3>6. items'[importing[r]].by \in Resources => importing[r] = j
      BY <2>1, <3>1, NobodyMadeNoItem DEF Adopted, TypeOK
    <3> QED
      BY <2>1, <3>2, <3>5, <3>6, NothingMade
  <2> QED
    BY <2>2, <2>3
<1>8. ASSUME NEW r \in Resources, CreateLost(r) \/ AdoptLost(r) \/ DeposedLost(r) PROVE OrphansOnlyByLoss'
  <2>1. UNCHANGED <<items, state, deposed, orphaned>>
    BY <1>8 DEF CreateLost, AdoptLost, DeposedLost, TypeOK
  <2> QED
    BY <2>1, NothingMade DEF Holds
<1>9. ASSUME NEW i \in Ids, Removed(i),
             \A s \in Resources, j \in Ids : j # i /\ Holds(s, j) => Holds(s, j)'
      PROVE  OrphansOnlyByLoss'
  <2>1. \A j \in Ids : items'[j].by \in Resources => j # i /\ items'[j] = items[j]
    BY <1>9, NobodyMadeNoItem DEF Removed, TypeOK
  <2> QED
    BY <1>9, <2>1, NothingMade DEF Removed
<1>10. ASSUME NEW r \in Resources, Delete(r) PROVE OrphansOnlyByLoss'
  <2>1. state[r].id \in Ids
    BY <1>10, HeldTyped DEF Delete, Destroys
  <2>2. \A s \in Resources, i \in Ids : i # state[r].id /\ Holds(s, i) => Holds(s, i)'
    BY <1>10 DEF Delete, Holds, TypeOK
  <2> QED
    BY <1>9, <1>10, <2>1, <2>2 DEF Delete
<1>11. ASSUME NEW r \in Resources, DeleteLost(r) PROVE OrphansOnlyByLoss'
  <2>1. \A s \in Resources, i \in Ids : Holds(s, i) => Holds(s, i)' \/ i \in orphaned'
    BY <1>11 DEF DeleteLost, Holds, TypeOK
  <2> QED
    BY <1>11, <2>1, NothingMade DEF DeleteLost
<1>12. ASSUME NEW r \in Resources, DeleteDeposed(r) PROVE OrphansOnlyByLoss'
  <2>1. deposed[r] \in Ids
    BY <1>12 DEF DeleteDeposed, TypeOK
  <2>2. \A s \in Resources, i \in Ids : i # deposed[r] /\ Holds(s, i) => Holds(s, i)'
    BY <1>12 DEF DeleteDeposed, Holds, TypeOK
  <2> QED
    BY <1>9, <1>12, <2>1, <2>2 DEF DeleteDeposed
<1>13. ASSUME NEW q \in late, Late(q) PROVE OrphansOnlyByLoss'
  <2>1. UNCHANGED <<kind, deposed, importing>>
    BY <1>13 DEF Late
  <2>2. CASE LatePost(q)
    <3>1. PICK k \in Ids : Post(q.by, q.content, k) /\ orphaned' = orphaned \cup {k}
      BY <2>2 DEF LatePost
    <3>2. q.by \in Resources /\ q.content \in Contents
      BY <2>2, RequestTyped DEF LatePost
    <3>3. \A s \in Resources, i \in Ids : Holds(s, i) => Holds(s, i)'
      BY <2>1, <2>2 DEF LatePost, Holds
    <3> QED
      BY <2>1, <3>1, <3>2, <3>3, OneMade
  <2>3. CASE LateAdopt(q)
    <3>1. PICK j \in Ids : Adopted(q.id, j)
      BY <2>3 DEF LateAdopt
    <3>2. q.id \in Ids /\ kind = "section"
      BY <2>3, RequestTyped DEF LateAdopt, LateAdoptions
    <3>3. \A i \in Ids : items'[i].by \in Resources => items[i].by \in Resources
      BY <3>1, <3>2, AdoptMovesOthers
    <3> QED
      BY <2>1, <2>3, <3>3, NothingMade DEF LateAdopt, Holds
  <2>4. CASE LateDelete(q)
    <3>1. q.id \in Ids /\ \A s \in Resources, i \in Ids : Holds(s, i) => Holds(s, i)'
      BY <2>1, <2>4, RequestTyped DEF LateDelete, Holds
    <3> QED
      BY <1>9, <2>1, <2>4, <3>1 DEF LateDelete
  <2> QED
    BY <1>13, <2>2, <2>3, <2>4 DEF Late
<1>14. CASE OthersAdd
  <2>1. PICK c \in Contents : \E i \in OthersIds(c) :
          items' = [items EXCEPT ![i] = Item(c, "others", FALSE)]
    BY <1>14 DEF OthersAdd
  <2>2. Item(c, "others", FALSE).by \notin Resources
    BY NameAssumption DEF Item
  <2>3. \A i \in Ids : items'[i].by \in Resources => items'[i] = items[i]
    BY <2>1, <2>2 DEF TypeOK
  <2> QED
    BY <1>14, <2>3, NothingMade DEF OthersAdd, Holds
<1>15. CASE OthersRemove
  <2>1. PICK k \in Ids : Removed(k)
    BY <1>15 DEF OthersRemove, Removed
  <2> QED
    BY <1>9, <1>15, <2>1 DEF OthersRemove, Holds
<1>16. CASE Crash
  <2>1. PICK r \in Resources : /\ state[r] # NoEntry
                               /\ state' = [state EXCEPT ![r] = NoEntry]
                               /\ orphaned' = orphaned \cup {state[r].id}
    BY <1>16 DEF Crash
  <2>2. \A s \in Resources, i \in Ids : Holds(s, i) => Holds(s, i)' \/ i \in orphaned'
    BY <1>16, <2>1 DEF Crash, Holds, TypeOK
  <2> QED
    BY <1>16, <2>1, <2>2, NothingMade DEF Crash
<1>17. CASE Reconfigure \/ UNCHANGED vars
  BY <1>17, NothingMade DEF Reconfigure, vars, Holds
<1> QED
  BY <1>2, <1>3, <1>4, <1>5, <1>6, <1>7, <1>8, <1>10, <1>11, <1>12, <1>13, <1>14,
     <1>15, <1>16, <1>17 DEF Next, Run

\* However many answers are lost, and however late those requests are handled,
\* nothing that Terraform made stays behind without a resource that will destroy it,
\* but for what a create without an answer made, and for the token of a run that died
\* before Close or whose Close got no answer.
THEOREM OrphansAreLosses == Spec => []OrphansOnlyByLoss
<1>1. Init => IInv /\ ImportsFirst /\ OrphansOnlyByLoss
  BY IInvInit, NobodyMadeNoItem DEF ImportsFirst, OrphansOnlyByLoss, Init
<1>2. IInv /\ ImportsFirst /\ OrphansOnlyByLoss /\ [Next]_vars
        => IInv' /\ ImportsFirst' /\ OrphansOnlyByLoss'
  BY IInvStep, ImportsFirstStep, OrphansStep DEF IInv
<1> QED
  BY <1>1, <1>2, PTL DEF Spec
=============================================================================
