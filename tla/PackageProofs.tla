---------------------------- MODULE PackageProofs ----------------------------
(***************************************************************************)
(* Theorems about uapi_package for every set of packages and every bound.   *)
(***************************************************************************)
EXTENDS PackageResource, TLAPS

\* Create runs for a configured package that is not in the state.
Creating == pc = "checked" => config # None /\ state = Absent

\* While nobody acts between the two requests of Create, a package that its GET did
\* not find and its POST finds is one that an earlier lost POST of this resource has
\* installed meanwhile; and pre_existed is true where it should be.
Honest == /\ pc = "checked" /\ found = "no" => config \notin installed \ own
          /\ before /\ state.pre_existed # "null" => state.pre_existed = "yes"

\* Without lost answers, and while nobody acts within a Create, the resource has
\* installed the package in its state, unless that was there, and no other.
Tidy == /\ late = {}
        /\ pc = "checked" /\ found = "yes" => config \in installed
        /\ own \subseteq {state.name}
        /\ Kept => own = {}

\* Without imports the state says of every package whether it was there.
Known == state # Absent => state.pre_existed # "null"
-----------------------------------------------------------------------------
\* A state that names a package is in the type, whatever its pre_existed.
LEMMA NamedState ==
  ASSUME NEW n \in Names, NEW p \in Answers \cup {"null"}
  PROVE  [name |-> n, pre_existed |-> p] \in State
BY DEF State

\* A request that is given up is one for a package, with a number of its own.
LEMMA LostStep ==
  ASSUME TypeOK, NEW m \in {"POST", "DELETE"}, NEW n \in Names, Lost(m, n)
  PROVE  late' \subseteq Requests /\ upsets' \in 0 .. MaxUpsets
<1>1. upsets' \in 1 .. MaxUpsets
  BY BoundAssumption DEF TypeOK, Lost, Upset
<1>2. [call |-> upsets', method |-> m, name |-> n] \in Requests
  BY <1>1 DEF Requests
<1> QED
  BY <1>1, <1>2 DEF TypeOK, Lost

\* Types, and what Create starts from, hold at first.
LEMMA TypeInit == Init => TypeOK /\ Creating
<1> SUFFICES ASSUME Init PROVE TypeOK /\ Creating
  OBVIOUS
<1>1. state \in State
  BY DEF Init, State
<1>2. upsets \in 0 .. MaxUpsets
  BY BoundAssumption DEF Init
<1> QED
  BY <1>1, <1>2 DEF Init, TypeOK, Creating, Answers

\* Every step keeps them, whatever else can happen.
LEMMA TypeStep == TypeOK /\ Creating /\ [Next]_vars => TypeOK' /\ Creating'
<1> SUFFICES ASSUME TypeOK, Creating, [Next]_vars PROVE TypeOK' /\ Creating'
  OBVIOUS
<1> USE BoundAssumption DEF TypeOK, Creating
<1>1. CASE Check
  BY <1>1 DEF Check, Answers
<1>2. CASE Post
  <2>1. state' \in State
    BY <1>2, NamedState DEF Post
  <2> QED
    BY <1>2, <2>1 DEF Post, Installed, Answers
<1>3. CASE PostLost
  BY <1>3, LostStep DEF PostLost, Answers
<1>4. CASE Refresh
  BY <1>4 DEF Refresh, State
<1>5. CASE Import
  <2>1. state' \in State
    BY <1>5, NamedState DEF Import
  <2> QED
    BY <1>5, <2>1 DEF Import
<1>6. CASE Delete
  BY <1>6 DEF Delete, Destroys, Uninstalled, State
<1>7. CASE DeleteLost
  <2>1. state.name \in Names
    BY <1>7 DEF DeleteLost, Destroys, State, Absent
  <2> QED
    BY <1>7, <2>1, LostStep DEF DeleteLost, Destroys
<1>11. CASE Late
  <2>1. PICK q \in late : /\ LatePost(q) \/ LateDelete(q)
                         /\ late' = late \ {q}
                         /\ UNCHANGED <<config, state, pc, found, before, upsets>>
    BY <1>11 DEF Late
  <2>2. q.name \in Names
    BY <2>1 DEF Requests
  <2> QED
    BY <2>1, <2>2 DEF LatePost, LateDelete, Installed, Uninstalled
<1>8. CASE Reconfigure
  BY <1>8 DEF Reconfigure, Upset
<1>9. CASE Others
  BY <1>9 DEF Others, Upset
<1>10. CASE UNCHANGED vars
  BY <1>10 DEF vars
<1> QED
  BY <1>1, <1>2, <1>3, <1>4, <1>5, <1>6, <1>7, <1>8, <1>9, <1>10, <1>11 DEF Next, Run

\* Types hold in every reachable state.
LEMMA TypeInvariant == Spec => [](TypeOK /\ Creating)
BY TypeInit, TypeStep, PTL DEF Spec

\* Every variable keeps its type: pre_existed is known or null in the state, and
\* what Create installed and nobody removed is on the router.
THEOREM PackageTypeCorrect == Spec => []TypeOK
BY TypeInvariant, PTL

\* Lost answers, what their requests still do, replacements, imports, and others who
\* act between the runs of Terraform leave pre_existed honest.
LEMMA HonestStep ==
  ASSUME "window" \notin Events
  PROVE  TypeOK /\ Creating /\ Honest /\ [Next]_vars => Honest'
<1> SUFFICES ASSUME TypeOK, Creating, Honest, [Next]_vars PROVE Honest'
  OBVIOUS
<1> USE DEF Honest
<1>1. CASE Check
  BY <1>1 DEF Check
<1>2. CASE Post
  BY <1>2 DEF Post, TypeOK, Answers
<1>3. CASE PostLost
  BY <1>3 DEF PostLost
<1>4. CASE Refresh \/ Delete
  BY <1>4 DEF Refresh, Delete, Destroys, Absent
<1>5. CASE Reconfigure \/ DeleteLost \/ Others
  BY <1>5 DEF Reconfigure, DeleteLost, Destroys, Others
<1>6. CASE Import
  BY <1>6 DEF Import
<1>7. CASE Late
  BY <1>7 DEF Late, LatePost, LateDelete, Installed, Uninstalled
<1>8. CASE UNCHANGED vars
  BY <1>8 DEF vars
<1> QED
  BY <1>1, <1>2, <1>3, <1>4, <1>5, <1>6, <1>7, <1>8 DEF Next, Run

\* Honest holds in every reachable state.
LEMMA HonestInvariant ==
  ASSUME "window" \notin Events
  PROVE  Spec => []Honest
<1>1. Init => Honest
  BY DEF Init, Honest
<1>2. TypeOK /\ Creating /\ Honest /\ [Next]_vars => Honest'
  BY HonestStep
<1> QED
  BY <1>1, <1>2, TypeInvariant, PTL DEF Spec

\* Destroying a uapi_package that Create made never uninstalls what Terraform did not
\* install, unless somebody acted between the two requests of Create.
THEOREM CreatedIsHonest ==
  ASSUME "window" \notin Events
  PROVE  Spec => CreatedSparesPreExisted
<1>1. Honest => (Uninstalls /\ state.pre_existed # "null" => ~ before)
  BY DEF Honest, Uninstalls, DeleteLost, Kept
<1>2. Honest /\ [Next]_vars
        => [Uninstalls /\ state.pre_existed # "null" => ~ before]_vars
  BY <1>1
<1> QED
  BY <1>2, HonestInvariant, PTL DEF Spec, CreatedSparesPreExisted
-----------------------------------------------------------------------------
\* Only Import leaves pre_existed null.
LEMMA KnownStep ==
  ASSUME "import" \notin Events
  PROVE  TypeOK /\ Known /\ [Next]_vars => Known'
<1> SUFFICES ASSUME TypeOK, Known, [Next]_vars PROVE Known'
  OBVIOUS
<1> USE DEF Known
<1>1. CASE Post
  BY <1>1 DEF Post, TypeOK, Answers
<1>2. CASE Refresh \/ Delete
  BY <1>2 DEF Refresh, Delete
<1>3. CASE Check \/ PostLost \/ DeleteLost \/ Late \/ Reconfigure \/ Others
  BY <1>3 DEF Check, PostLost, DeleteLost, Late, Reconfigure, Others
<1>4. CASE UNCHANGED vars
  BY <1>4 DEF vars
<1> QED
  BY <1>1, <1>2, <1>3, <1>4 DEF Next, Run, Import

\* Where nothing is imported, what the documentation says of pre_existed holds: a
\* package that Terraform did not install stays when the resource is destroyed or
\* replaced.  Imports are the only way to break it between the runs of Terraform.
THEOREM UnimportedIsSpared ==
  ASSUME "import" \notin Events, "window" \notin Events
  PROVE  Spec => PreExistedSpared
<1>1. Init => Known
  BY DEF Init, Known
<1>2. TypeOK /\ Known /\ [Next]_vars => Known'
  BY KnownStep
<1>3. Honest /\ Known => (Uninstalls => ~ before)
  BY DEF Honest, Known, Uninstalls, Delete, DeleteLost, Destroys, Kept
<1>4. Honest /\ Known /\ [Next]_vars => [Uninstalls => ~ before]_vars
  BY <1>3
<1> QED
  BY <1>1, <1>2, <1>4, TypeInvariant, HonestInvariant, PTL DEF Spec, PreExistedSpared
-----------------------------------------------------------------------------
\* Create and Delete keep the resource tidy while every request is answered.
LEMMA TidyStep ==
  ASSUME "loss" \notin Events, "window" \notin Events
  PROVE  TypeOK /\ Creating /\ Tidy /\ [Next]_vars => Tidy'
<1> SUFFICES ASSUME TypeOK, Creating, Tidy, [Next]_vars PROVE Tidy'
  OBVIOUS
<1> USE DEF Tidy, Kept
<1>1. state = Absent => own = {}
  BY NameAssumption DEF TypeOK, Absent
<1>2. CASE Check
  BY <1>2 DEF Check
<1>3. CASE Post
  <2>1. own' \subseteq {config} /\ (found = "yes" => own' = {})
    BY <1>1, <1>3 DEF Post, Installed, Creating
  <2> QED
    BY <1>3, <2>1 DEF Post
<1>4. CASE Refresh
  <2>1. own = {}
    BY <1>4 DEF Refresh, TypeOK
  <2> QED
    BY <1>4, <2>1 DEF Refresh
<1>5. CASE Delete
  <2>1. own' = {}
    BY <1>5 DEF Delete, Uninstalled
  <2> QED
    BY <1>5, <2>1 DEF Delete, Destroys
<1>6. CASE Import
  BY <1>1, <1>6 DEF Import
<1>7. CASE Reconfigure \/ Others
  BY <1>7 DEF Reconfigure, Others
<1>8. CASE UNCHANGED vars
  BY <1>8 DEF vars
<1> QED
  BY <1>2, <1>3, <1>4, <1>5, <1>6, <1>7, <1>8
     DEF Next, Run, PostLost, DeleteLost, Lost, Late

\* Where every request is answered, terraform destroy leaves nothing behind that the
\* resource installed: only a lost answer to the POST of Create can make a later
\* Create take the resource's own package for one that was there.
THEOREM OwnPackagesAreRemoved ==
  ASSUME "loss" \notin Events, "window" \notin Events
  PROVE  Spec => OwnIsRemoved
<1>1. Init => Tidy
  BY DEF Init, Tidy, Kept, Absent
<1>2. TypeOK /\ Creating /\ Tidy /\ [Next]_vars => Tidy'
  BY TidyStep
<1>3. Tidy => (Delete => state.name \notin own')
  BY DEF Tidy, Delete, Uninstalled
<1>4. Tidy /\ [Next]_vars => [Delete => state.name \notin own']_vars
  BY <1>3
<1> QED
  BY <1>1, <1>2, <1>4, TypeInvariant, PTL DEF Spec, OwnIsRemoved
=============================================================================
