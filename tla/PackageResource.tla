--------------------------- MODULE PackageResource ---------------------------
(***************************************************************************)
(* uapi_package: a package that Terraform installs, unless it was there      *)
(* already, and that terraform destroy uninstalls in the first case only.   *)
(* Create asks before it installs, in a request of its own; others install  *)
(* and remove packages at any moment; answers get lost, and what such a      *)
(* request asks for may still happen long after Terraform gave it up.  A new *)
(* name in the configuration replaces the resource: Delete, then Create.    *)
(***************************************************************************)
EXTENDS Naturals

CONSTANTS Names,     \* of packages
          Events,    \* what can happen besides runs of Terraform
          MaxUpsets  \* bound on what others and the network do

VARIABLES config,     \* the configured name, or None
          state,      \* the Terraform state, or Absent
          pc,         \* of Create: "idle", or "checked" after its GET
          found,      \* what that GET answered
          installed,  \* the packages on the router
          own,        \* those that a request of this resource installed
          before,     \* Terraform did not install the one in the state
          late,       \* requests without an answer that uapi may still handle
          upsets

vars == <<config, state, pc, found, installed, own, before, late, upsets>>

None == "none"
Absent == [name |-> None, pre_existed |-> "null"]
Answers == {"yes", "no"}
State == [name : Names, pre_existed : Answers \cup {"null"}] \cup {Absent}
Requests == [call : 1 .. MaxUpsets, method : {"POST", "DELETE"}, name : Names]

ASSUME NameAssumption == None \notin Names
ASSUME EventAssumption == Events \subseteq {"loss", "import", "window"}
ASSUME BoundAssumption == MaxUpsets \in Nat

Init == /\ config \in Names \cup {None}
        /\ state = Absent
        /\ pc = "idle"
        /\ found = "no"
        /\ installed \in SUBSET Names
        /\ own = {}
        /\ before = FALSE
        /\ late = {}
        /\ upsets = 0
-----------------------------------------------------------------------------
Upset == upsets < MaxUpsets /\ upsets' = upsets + 1

\* No answer before the deadline.  The request may reach uapi at any later time,
\* or never; its number tells it from an equal one.
Lost(m, n) == /\ "loss" \in Events /\ Upset
              /\ late' = late \cup {[call |-> upsets', method |-> m, name |-> n]}

Reconfigure == /\ Upset
               /\ pc = "idle"
               /\ config' \in (Names \cup {None}) \ {config}
               /\ UNCHANGED <<state, pc, found, installed, own, before, late>>

\* Between the two requests of Create only with "window".
Others == /\ Upset
          /\ pc = "idle" \/ "window" \in Events
          /\ \E n \in Names :
               installed' = IF n \in installed THEN installed \ {n} ELSE installed \cup {n}
          /\ own' = own \cap installed'
          /\ UNCHANGED <<config, state, pc, found, before, late>>

CheckNothing == /\ pc = "idle" /\ config # None /\ state = Absent
                /\ pc' = "checked"
                /\ found' = "no"
                /\ UNCHANGED <<config, state, installed, own, before, late, upsets>>

\* Create, first request: is the package there?
Check == /\ pc = "idle" /\ config # None /\ state = Absent
         /\ pc' = "checked"
         /\ found' = IF config \in installed THEN "yes" ELSE "no"
         /\ UNCHANGED <<config, state, installed, own, before, late, upsets>>

\* Create, second request: uapi installs the package if it is not there.
Installed(n) == /\ installed' = installed \cup {n}
                /\ own' = own \cup ({n} \ installed)
Uninstalled(n) == /\ installed' = installed \ {n}
                  /\ own' = own \ {n}

PostForgetsPre == /\ pc = "checked"
                  /\ Installed(config)
                  /\ state' = [name |-> config, pre_existed |-> "unknown"]
                  /\ before' = (config \in installed \ own)
                  /\ pc' = "idle" /\ found' = "no"
                  /\ UNCHANGED <<config, late, upsets>>

Post == /\ pc = "checked"
        /\ Installed(config)
        /\ state' = [name |-> config, pre_existed |-> found]
        /\ before' = (config \in installed \ own)
        /\ pc' = "idle" /\ found' = "no"
        /\ UNCHANGED <<config, late, upsets>>

PostLost == /\ pc = "checked"
            /\ Lost("POST", config)
            /\ pc' = "idle" /\ found' = "no"
            /\ UNCHANGED <<config, state, installed, own, before>>

RefreshKeeps == FALSE

\* Read: a package that is gone leaves the state.
Refresh == /\ pc = "idle" /\ state # Absent /\ state.name \notin installed
           /\ state' = Absent
           /\ before' = FALSE
           /\ UNCHANGED <<config, pc, found, installed, own, late, upsets>>

\* Import, and the Read after it, leave pre_existed null.
Import == /\ "import" \in Events
          /\ pc = "idle" /\ config # None /\ state = Absent /\ config \in installed
          /\ state' = [name |-> config, pre_existed |-> "null"]
          /\ before' = (config \notin own)
          /\ UNCHANGED <<config, pc, found, installed, own, late, upsets>>

Destroys == pc = "idle" /\ state # Absent /\ config # state.name
Kept     == state.pre_existed = "yes"

\* Delete: nothing is sent for a package that pre-existed, and a 404 is a success.
Delete == /\ Destroys
          /\ \/ Kept /\ UNCHANGED <<installed, own>>
             \/ ~ Kept /\ Uninstalled(state.name)
          /\ state' = Absent
          /\ before' = FALSE
          /\ UNCHANGED <<config, pc, found, late, upsets>>

DeleteLost == /\ Destroys /\ ~ Kept
              /\ Lost("DELETE", state.name)
              /\ UNCHANGED <<config, state, pc, found, installed, own, before>>

\* uapi handles a request that Terraform has given up, also between two others.
LatePost(q) == q.method = "POST" /\ Installed(q.name)
LateDelete(q) == q.method = "DELETE" /\ Uninstalled(q.name)
Late == \E q \in late : /\ LatePost(q) \/ LateDelete(q)
                       /\ late' = late \ {q}
                       /\ UNCHANGED <<config, state, pc, found, before, upsets>>

Run == Check \/ Post \/ Refresh \/ Delete

Next == Run \/ PostLost \/ DeleteLost \/ Late \/ Import \/ Reconfigure \/ Others

Spec == Init /\ [][Next]_vars

\* The operator runs Terraform again until there is nothing left to do.
FairSpec == Spec /\ WF_vars(Run)
-----------------------------------------------------------------------------
\* Every variable keeps its type: pre_existed is known once in the state, and
\* what this resource installed and nobody removed is on the router.
TypeOK == /\ config \in Names \cup {None}
          /\ state \in State
          /\ pc \in {"idle", "checked"}
          /\ found \in Answers
          /\ installed \subseteq Names
          /\ own \subseteq installed
          /\ before \in BOOLEAN
          /\ late \subseteq Requests
          /\ upsets \in 0 .. MaxUpsets

\* A DELETE goes out for a package that is on the router.
Uninstalls == /\ (Delete /\ ~ Kept) \/ DeleteLost
              /\ state.name \in installed

\* Destroying or replacing the resource never uninstalls a package that Terraform
\* did not install.
PreExistedSpared == [][Uninstalls => ~ before]_vars

\* The same for a resource that Create made: whoever installs and removes packages
\* between the runs and whichever answers are lost, pre_existed tells the truth.
CreatedSparesPreExisted ==
  [][Uninstalls /\ state.pre_existed # "null" => ~ before]_vars

\* Destroying the resource leaves nothing behind that it installed itself.
OwnIsRemoved == [][Delete => state.name \notin own']_vars

\* Once nothing interferes, running Terraform again ends with the configured
\* package installed and in the state, after lost answers and removals by others.
Settles == <>[](/\ state.name = config
                /\ config # None => config \in installed)
=============================================================================
