------------------------------ MODULE ContentIds ------------------------------
(***************************************************************************)
(* Which item on the router belongs to which resource.  Cron jobs, SSH keys,*)
(* feeds and tokens have an id that follows from what they say, and neither *)
(* update nor ETag.  A section has the id that its block chooses, or one    *)
(* from uapi if it chooses none; it is updated in place, replaced when its  *)
(* block chooses another id, and adopted by the import of one that somebody *)
(* else made.  Resources of one configuration, others on the router and     *)
(* requests whose answer is lost, which uapi may handle much later or       *)
(* never, interleave.                                                       *)
(***************************************************************************)
EXTENDS Naturals, FiniteSets

CONSTANTS Resources,  \* of one kind, in one configuration
          Kinds,      \* the kinds considered
          Contents,   \* what an item can say
          IdOf,       \* the id that follows from a content, by kind; of a section
                      \* the id that its block chooses, None if it leaves it to uapi
          Names,      \* the ids of named sections
          Anonymous,  \* the cfgXXXX ids
          MaxUpsets   \* bound: what others do, changed configurations, losses

VARIABLES kind,
          cbd,        \* whether the resources create_before_destroy
          config,     \* what each resource is to say, None without a block
          items,      \* on the router, by id
          state,      \* the Terraform state of each resource; for a token what
                      \* Close gets from Open
          deposed,    \* the id that a replacement has still to destroy
          importing,  \* the unmanaged section that an import has looked up
          orphaned,   \* ids whose maker was not told of them
          vanished,   \* pairs: the item of a resource went away while it had it
          late,       \* requests without an answer that uapi may still handle
          upsets

vars == <<kind, cbd, config, items, state, deposed, importing, orphaned, vanished, late,
          upsets>>

None == "none"
ContentKinds == {"cron", "key", "feed", "token"}

Ids == Names \cup Anonymous
       \cup UNION {{IdOf[k][c] : c \in Contents} : k \in Kinds \cap ContentKinds}

ASSUME KindAssumption == Kinds \subseteq ContentKinds \cup {"section"}
ASSUME NameAssumption == /\ None \notin Contents \cup Ids
                         /\ Resources \cap {None, "others"} = {}
ASSUME ChoiceAssumption ==
  "section" \in Kinds => /\ \A c \in Contents : IdOf["section"][c] \in Names \cup {None}
                         /\ Names \cap Anonymous = {}
ASSUME BoundAssumption == MaxUpsets \in Nat

Item(content, by, managed) == [content |-> content, by |-> by, managed |-> managed]
NoItem == Item(None, None, FALSE)
Entry(id, content) == [id |-> id, content |-> content]
NoEntry == Entry(None, None)

There(i) == items[i] # NoItem
Holds(r, i) == state[r].id = i \/ deposed[r] = i

Init == /\ kind \in Kinds
        /\ cbd \in IF kind = "token" THEN {FALSE} ELSE BOOLEAN
        /\ config \in [Resources -> Contents \cup {None}]
        /\ items = [i \in Ids |-> NoItem]
        /\ state = [r \in Resources |-> NoEntry]
        /\ deposed = [r \in Resources |-> None]
        /\ importing = [r \in Resources |-> None]
        /\ orphaned = {}
        /\ vanished = {}
        /\ late = {}
        /\ upsets = 0

Upset == upsets < MaxUpsets /\ upsets' = upsets + 1
Calm  == upsets' = upsets /\ late' = late

\* No answer before the deadline: the request may reach uapi at any later time, or
\* never.  Its number tells it from an equal one.
Lost(m, r, i, c) ==
  /\ Upset
  /\ late' = late \cup {[call |-> upsets', method |-> m, by |-> r, id |-> i, content |-> c]}

\* A claim on what goes away is remembered for as long as the resource has it.
Remember ==
  vanished' = {p \in Resources \X Ids :
                 /\ Holds(p[1], p[2])'
                 /\ (There(p[2]) => There(p[2])') => p \in vanished}
-----------------------------------------------------------------------------
(* What Terraform did not do. *)

\* uapi gives each id once.  One that nothing refers to is as good as a new one, and
\* all those are alike.
Unused(i) == /\ ~ There(i) /\ i \notin orphaned
             /\ \A r \in Resources : ~ Holds(r, i) /\ importing[r] # i
             /\ \A q \in late : q.id # i
             /\ \A c \in Contents : IdOf[kind][c] # i
NewIds == LET unused == {i \in Names : Unused(i)}
          IN IF unused = {} THEN {} ELSE {CHOOSE i \in unused : TRUE}

\* Others give a section any name, that of one which is gone among them.
OthersIds(c) == IF kind = "section"
                THEN Anonymous \cup NewIds \cup {i \in Names : ~ Unused(i)}
                ELSE {IdOf[kind][c]}

OthersAdd ==
  /\ Upset
  /\ \E c \in Contents : \E i \in OthersIds(c) :
       /\ ~ There(i)
       /\ items' = [items EXCEPT ![i] = Item(c, "others", FALSE)]
  /\ UNCHANGED <<kind, cbd, config, state, deposed, importing, orphaned, vanished, late>>

OthersRemove ==
  /\ Upset
  /\ \E i \in Ids : /\ There(i)
                    /\ items' = [items EXCEPT ![i] = NoItem]
                    /\ orphaned' = orphaned \ {i}
  /\ UNCHANGED <<kind, cbd, config, state, deposed, importing, late>>
  /\ Remember

Reconfigure ==
  /\ Upset
  /\ \E r \in Resources, c \in Contents \cup {None} :
       c # config[r] /\ config' = [config EXCEPT ![r] = c]
  /\ UNCHANGED <<kind, cbd, items, state, deposed, importing, orphaned, vanished, late>>

\* Terraform dies between Open and Close: the private data is gone.
Crash ==
  /\ kind = "token"
  /\ Upset
  /\ \E r \in Resources :
       /\ state[r] # NoEntry
       /\ state' = [state EXCEPT ![r] = NoEntry]
       /\ orphaned' = orphaned \cup {state[r].id}
  /\ UNCHANGED <<kind, cbd, config, items, deposed, importing, late>>
  /\ Remember
-----------------------------------------------------------------------------
(* Create and Open.  When the id is taken uapi answers 409, or 422 for a       *)
(* section, and nothing is changed; only an SSH key replaces the line that has *)
(* its blob.                                                                   *)

Targets(c) == IF IdOf[kind][c] = None THEN NewIds
              ELSE {i \in {IdOf[kind][c]} : kind = "key" \/ ~ There(i)}

PostTakesConflict(r, c, i) ==
  /\ i \in IF IdOf[kind][c] = None THEN Targets(c) ELSE {IdOf[kind][c]}
  /\ items' = [items EXCEPT ![i] = IF There(i) /\ kind # "key" THEN @ ELSE Item(c, r, TRUE)]

Post(r, c, i) == /\ i \in Targets(c)
                 /\ items' = [items EXCEPT ![i] = Item(c, r, TRUE)]

Differs(r) == kind # "token" /\ config[r] # state[r].content

\* The id of a section is create-only, and one that is not chosen stays as it is.
Renamed(r) == IdOf[kind][config[r]] \notin {None, state[r].id}

Replaces(r) == config[r] # None /\ IF kind = "section" THEN Renamed(r) ELSE Differs(r)

\* The first create, or the first half of a create_before_destroy replacement.
\* Terraform resolves its imports before it creates anything.
Creates(r) == /\ config[r] # None /\ \A s \in Resources : importing[s] = None
              /\ \/ state[r] = NoEntry
                 \/ Replaces(r) /\ cbd /\ deposed[r] = None

Create(r) ==
  /\ Creates(r)
  /\ \E i \in Ids : /\ Post(r, config[r], i)
                    /\ state' = [state EXCEPT ![r] = Entry(i, config[r])]
                    /\ orphaned' = orphaned \ {i}
  /\ deposed' = [deposed EXCEPT ![r] = IF state[r] = NoEntry THEN @ ELSE state[r].id]
  /\ Calm
  /\ UNCHANGED <<kind, cbd, config, importing, vanished>>

CreateLost(r) ==
  /\ Creates(r)
  /\ Lost("POST", r, None, config[r])
  /\ UNCHANGED <<kind, cbd, config, items, state, deposed, importing, orphaned, vanished>>

\* The resource does not learn of what this makes.
LatePost(q) ==
  /\ q.method = "POST"
  /\ \E i \in Ids : Post(q.by, q.content, i) /\ orphaned' = orphaned \cup {i}
  /\ UNCHANGED <<state, vanished>>
-----------------------------------------------------------------------------
(* Read, update, import. *)

\* uapi does not answer the blob of a key: the state keeps what it has.
ReadBack(i, content) == IF kind = "key" THEN content ELSE items[i].content

ReadKeepsGone(r) ==
  /\ kind # "token"
  /\ state[r] # NoEntry /\ There(state[r].id)
  /\ state' = [state EXCEPT ![r].content = ReadBack(state[r].id, @)]
  /\ Calm
  /\ UNCHANGED <<kind, cbd, config, items, deposed, importing, orphaned, vanished>>

ReadAssumesThere(r) ==
  /\ kind # "token"
  /\ state[r] # NoEntry
  /\ state' = [state EXCEPT ![r].content = ReadBack(state[r].id, @)]
  /\ Calm
  /\ UNCHANGED <<kind, cbd, config, items, deposed, importing, orphaned, vanished>>

Read(r) ==
  /\ kind # "token"
  /\ state[r] # NoEntry
  /\ state' = [state EXCEPT ![r] = IF There(@.id) THEN Entry(@.id, ReadBack(@.id, @.content))
                                   ELSE NoEntry]
  /\ Calm
  /\ UNCHANGED <<kind, cbd, config, items, deposed, importing, orphaned>>
  /\ Remember

\* A section alone; its ETag is the subject of ResourceLifecycle.
Update(r) ==
  /\ kind = "section"
  /\ state[r] # NoEntry /\ config[r] # None /\ There(state[r].id)
  /\ Differs(r) /\ ~ Renamed(r)
  /\ items' = [items EXCEPT ![state[r].id].content = config[r]]
  /\ state' = [state EXCEPT ![r].content = config[r]]
  /\ Calm
  /\ UNCHANGED <<kind, cbd, config, deposed, importing, orphaned, vanished>>

\* The operator imports, for a block without a state, an item that no other block
\* of the configuration has.
Fitting(r, i) == /\ There(i) /\ \A s \in Resources : ~ Holds(s, i) /\ importing[s] # i
                 /\ kind # "section" => i = IdOf[kind][config[r]]

\* ImportStatePassthroughID and Read, or resolveImportID of a managed section.
Import(r) ==
  /\ kind # "token"
  /\ config[r] # None /\ state[r] = NoEntry /\ importing[r] = None
  /\ \E i \in Ids : /\ Fitting(r, i)
                    /\ kind = "section" => items[i].managed
                    /\ state' = [state EXCEPT ![r] = Entry(i, ReadBack(i, None))]
                    /\ orphaned' = orphaned \ {i}
  /\ Calm
  /\ UNCHANGED <<kind, cbd, config, items, deposed, importing, vanished>>

\* The first request of resolveImportID finds an unmanaged section, the second
\* adopts what then has that id, managed or not.
LookUp(r) ==
  /\ kind = "section"
  /\ config[r] # None /\ state[r] = NoEntry /\ importing[r] = None
  /\ \E i \in Ids : /\ Fitting(r, i) /\ ~ items[i].managed
                    /\ importing' = [importing EXCEPT ![r] = i]
  /\ Calm
  /\ UNCHANGED <<kind, cbd, config, items, state, deposed, orphaned, vanished>>

AdoptedIds(i) == IF i \in Anonymous THEN NewIds ELSE {i}

Adopted(i, j) == /\ j \in AdoptedIds(i)
                 /\ items' = [items EXCEPT ![i] = NoItem,
                                           ![j] = [items[i] EXCEPT !.managed = TRUE]]

AdoptKeepsId(r) ==
  /\ importing[r] # None
  /\ \/ ~ There(importing[r]) /\ UNCHANGED <<items, state>>
     \/ /\ There(importing[r])
        /\ \E j \in Ids : Adopted(importing[r], j)
        /\ state' = [state EXCEPT ![r] = Entry(importing[r], items[importing[r]].content)]
  /\ importing' = [importing EXCEPT ![r] = None]
  /\ orphaned' = orphaned \ {importing[r]}
  /\ Calm
  /\ UNCHANGED <<kind, cbd, config, deposed, vanished>>

\* With the Read that follows.  A section that is gone ends the import.
Adopt(r) ==
  /\ importing[r] # None
  /\ \/ ~ There(importing[r]) /\ UNCHANGED <<items, state>>
     \/ /\ There(importing[r])
        /\ \E j \in Ids :
             /\ Adopted(importing[r], j)
             /\ state' = [state EXCEPT ![r] = Entry(j, items[importing[r]].content)]
  /\ importing' = [importing EXCEPT ![r] = None]
  /\ orphaned' = orphaned \ {importing[r]}
  /\ Calm
  /\ UNCHANGED <<kind, cbd, config, deposed, vanished>>

AdoptLost(r) ==
  /\ importing[r] # None
  /\ Lost("ADOPT", r, importing[r], None)
  /\ importing' = [importing EXCEPT ![r] = None]
  /\ UNCHANGED <<kind, cbd, config, items, state, deposed, orphaned, vanished>>

LateAdopt(q) ==
  /\ q.method = "ADOPT" /\ There(q.id) /\ ~ items[q.id].managed
  /\ \E j \in Ids : Adopted(q.id, j)
  /\ UNCHANGED <<state, orphaned, vanished>>
-----------------------------------------------------------------------------
(* Delete, and Close at the end of each run: by id, a 404 being a success.    *)
(* Only a section has an If-Match, which is the subject of ResourceLifecycle; *)
(* here what the state says stands for the ETag of a request on its way.      *)

Destroys(r) == /\ state[r] # NoEntry
               /\ \/ config[r] = None \/ kind = "token"
                  \/ Replaces(r) /\ ~ cbd

DeleteForgets(r) ==
  /\ Destroys(r)
  /\ state' = [state EXCEPT ![r] = NoEntry]
  /\ Calm
  /\ UNCHANGED <<kind, cbd, config, items, deposed, importing, orphaned, vanished>>

Removed(i) == /\ items' = [items EXCEPT ![i] = NoItem]
              /\ orphaned' = orphaned \ {i}

Delete(r) ==
  /\ Destroys(r)
  /\ Removed(state[r].id)
  /\ state' = [state EXCEPT ![r] = NoEntry]
  /\ Calm
  /\ UNCHANGED <<kind, cbd, config, deposed, importing>>
  /\ Remember

\* The second half of a create_before_destroy replacement.
DeleteDeposed(r) ==
  /\ deposed[r] # None
  /\ Removed(deposed[r])
  /\ deposed' = [deposed EXCEPT ![r] = None]
  /\ Calm
  /\ UNCHANGED <<kind, cbd, config, state, importing>>
  /\ Remember

\* The state keeps what it could not destroy; Close is not called a second time.
DeleteLost(r) ==
  /\ Destroys(r)
  /\ Lost("DELETE", r, state[r].id, IF kind = "section" THEN state[r].content ELSE None)
  /\ \/ kind # "token" /\ UNCHANGED <<state, orphaned>>
     \/ /\ kind = "token"
        /\ state' = [state EXCEPT ![r] = NoEntry]
        /\ orphaned' = orphaned \cup {state[r].id}
  /\ UNCHANGED <<kind, cbd, config, items, deposed, importing>>
  /\ Remember

\* What the deposed half said is not kept here: the request has any ETag.
DeposedLost(r) ==
  /\ deposed[r] # None
  /\ Lost("DELETE", r, deposed[r], None)
  /\ UNCHANGED <<kind, cbd, config, items, state, deposed, importing, orphaned, vanished>>

LateDelete(q) ==
  /\ q.method = "DELETE" /\ There(q.id) /\ q.content \in {None, items[q.id].content}
  /\ Removed(q.id)
  /\ UNCHANGED state
  /\ Remember

\* uapi handles a request that nobody waits for any more.  One that changes nothing,
\* by a 409, 404 or 412, is as good as one that never arrives.
Late(q) == /\ late' = late \ {q}
           /\ UNCHANGED <<kind, cbd, config, deposed, importing, upsets>>
           /\ LatePost(q) \/ LateAdopt(q) \/ LateDelete(q)

Run(r) == \/ Create(r) \/ Read(r) \/ Update(r) \/ Adopt(r)
          \/ Delete(r) \/ DeleteDeposed(r)

Next == \/ \E r \in Resources : \/ Run(r) \/ Import(r) \/ LookUp(r) \/ CreateLost(r)
                                \/ AdoptLost(r) \/ DeleteLost(r) \/ DeposedLost(r)
        \/ \E q \in late : Late(q)
        \/ OthersAdd \/ OthersRemove \/ Reconfigure \/ Crash

Spec == Init /\ [][Next]_vars

\* The import of a 409, or of the id that a block chooses and that is taken.
ImportTaken(r) == /\ Import(r) \/ LookUp(r)
                  /\ IdOf[kind][config[r]] \in {state'[r].id, importing'[r]} \ {None}

\* The operator keeps applying each resource, and imports what a 409 names.
FairSpec == /\ Spec
            /\ \A r \in Resources :
                 /\ SF_vars(Create(r)) /\ WF_vars(Read(r)) /\ WF_vars(Update(r))
                 /\ WF_vars(Adopt(r)) /\ SF_vars(Delete(r)) /\ WF_vars(DeleteDeposed(r))
                 /\ SF_vars(ImportTaken(r))
-----------------------------------------------------------------------------
(* Properties. *)

Items   == [content : Contents, by : Resources \cup {"others"}, managed : BOOLEAN]
Entries == [id : Ids, content : Contents \cup (IF kind = "key" THEN {None} ELSE {})]

Requests ==
  UNION {[call : 1 .. MaxUpsets, method : {"POST"}, by : Resources, id : {None},
          content : Contents],
         [call : 1 .. MaxUpsets, method : {"DELETE"}, by : Resources, id : Ids,
          content : Contents \cup {None}],
         [call : 1 .. MaxUpsets, method : {"ADOPT"}, by : Resources, id : Ids,
          content : {None}]}

\* The type of every variable; a resource refers to ids and contents, never to
\* the placeholder of an item that it lost.
TypeOK ==
  /\ kind \in Kinds
  /\ cbd \in BOOLEAN
  /\ config \in [Resources -> Contents \cup {None}]
  /\ items \in [Ids -> Items \cup {NoItem}]
  /\ state \in [Resources -> Entries \cup {NoEntry}]
  /\ deposed \in [Resources -> Ids \cup {None}]
  /\ importing \in [Resources -> Ids \cup {None}]
  /\ orphaned \in SUBSET Ids
  /\ vanished \in SUBSET (Resources \X Ids)
  /\ late \in SUBSET Requests
  /\ upsets \in 0 .. MaxUpsets

\* Nothing that Terraform made on the router is without a resource in the state
\* that will destroy it, but for three ways to an orphan: the answer to its create was
\* lost, the run of a token died before Close, or Close of a token got no answer,
\* which is not called again.
OrphansOnlyByLoss ==
  \A i \in Ids : items[i].by \in Resources =>
    i \in orphaned \/ \E r \in Resources : Holds(r, i)

\* No two resources have the same item, so that destroying one leaves the other's
\* alone, save for SSH keys, which overwrite, and for an item that went away behind
\* the back of one of the two, who has not noticed it yet, and was made again.
OneHolder ==
  kind # "key" =>
    \A r, s \in Resources, i \in Ids :
      r # s /\ Holds(r, i) /\ Holds(s, i) => {<<r, i>>, <<s, i>>} \cap vanished # {}

\* The promise to the other users of the collection (OwnedItems): Terraform takes
\* away only what it made or imported, or had when it asked for its removal, and
\* makes nothing over what is there, with requests that are handled late too.
Owned == INSTANCE OwnedItems
  WITH overwrites <- (kind = "key"),
       maker <- [i \in Ids |-> items[i].by],
       claims <- {c \in Resources \X Ids : Holds(c[1], c[2])},
       sent <- {i \in Ids : \E q \in late : q.method = "DELETE" /\ q.id = i}
ClaimsRespected == Owned!Spec

\* The id that the item of a block is to have, None if uapi is still to give one.
WantedId(r) == IF IdOf[kind][config[r]] = None THEN state[r].id ELSE IdOf[kind][config[r]]

\* The configuration asks for items that can exist side by side.  A replacement
\* that creates first has no way past a 409: its block has a state, so nothing can
\* be imported for it, and a feed that keeps its name meets itself, as two sections
\* that exchange their names meet each other.  A token has neither an import nor a
\* second run.
Acceptable ==
  /\ kind # "token"
  /\ cbd => kind = "key"
  /\ \A r, s \in Resources : r # s /\ config[r] # None /\ config[s] # None =>
       WantedId(r) = None \/ WantedId(r) # WantedId(s)

Settled(r) ==
  IF config[r] = None THEN state[r] = NoEntry
  ELSE /\ state[r].content = config[r] /\ There(state[r].id)
       /\ ReadBack(state[r].id, config[r]) = config[r] /\ ~ Renamed(r)

\* After lost answers, taken ids and what others did, applying again and importing
\* what a 409 names ends with every configured item on the router.
Reconciles == <>[](Acceptable => \A r \in Resources : Settled(r) /\ deposed[r] = None)
=============================================================================
