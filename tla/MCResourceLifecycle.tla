------------------------ MODULE MCResourceLifecycle ------------------------
(* Small instances of the life of a resource.  The fields are chosen one of *)
(* each class from the schemas they are named after.                        *)
EXTENDS ResourceLifecycle

Table == INSTANCE ScopeTable

\* The table that the generator makes of network_interface's schema excludes a field
\* on a proto exactly where uapi's own table has it that the field does not apply.
ScopeAgreesWithUapi == kind = "interface" => Table!AgreesWithUapi

\* Of the table of network_interface only broadcast_flag is not complete on the
\* protos that uapi does not model.  Each instance has no list that is Computed and
\* scoped, or keeps its entity tags.
ASSUME TablesAssumption ==
  /\ ScopeIsSound
  /\ ScopeIsComplete(IF "broadcast_flag" \in Fields THEN Known ELSE Protos)
  /\ DefaultsAreComputed
  /\ DefaultsFollowScope
  /\ Sticky \cap Lists \cap scoped = {} \/ UnseenKeepsETag

ExcludedOf(fields, protos) ==
  [p \in protos |-> fields \cap Table!excluded(Table!networkInterfaceScope, p)]
AppliesOf(fields, protos) ==
  [f \in fields |-> {p \in protos : Table!ifaceApplies(f, p)}]

\* network_interface: a wireguard flag with a default, and a clear-on-omit list
\* that static and wireguard take.
InterfaceFields == {"nohostroute", "ip6prefix"}
InterfaceSettings == [f \in InterfaceFields |->
                        IF f = "nohostroute" THEN {"false", "true"} ELSE {"a"}]
InterfaceProtos == {"static", "dhcp", "wireguard", "6in4"}
InterfaceKnown == InterfaceProtos \cap Table!networkInterfaceScope.known
InterfaceExcluded == ExcludedOf(InterfaceFields, InterfaceProtos)
InterfaceApplies == AppliesOf(InterfaceFields, InterfaceProtos)
InterfaceDefault == [f \in InterfaceFields |-> [p \in InterfaceProtos |->
                        IF f = "nohostroute" /\ p \in {"wireguard", "6in4"}
                        THEN "false" ELSE Null]]
InterfaceProtoOf == [k \in {"interface"} |-> InterfaceProtos]
InterfaceHidden == {{}, {"proto"}}

\* A sticky list and a write-only string, as addresses and private_key of an
\* interface, where static takes neither, or as tag and a secret of the sections
\* without a scope.
SectionFields == {"list", "secret"}
SectionProtos == {"static", "wireguard", "6in4", "any"}
SectionKnown == SectionProtos \ {"6in4"}
SectionSettings == [f \in SectionFields |-> {"a"}]
SectionExcluded == [p \in SectionProtos |-> IF p = "static" THEN SectionFields ELSE {}]
SectionApplies == [f \in SectionFields |-> SectionProtos \ {"static"}]
SectionDefault == [f \in SectionFields |-> [p \in SectionProtos |-> Null]]
SectionProtoOf == [k \in {"interface", "wireless", "collection", "singleton"} |->
                     IF k = "interface" THEN SectionProtos \ {"any"} ELSE {"any"}]
SectionHidden == {{}, {"list"}}

\* A field that uapi takes on dhcp alone, while the table has no rule for 6in4.
FlagFields == {"broadcast_flag"}
FlagProtos == {"dhcp", "6in4"}
FlagSettings == [f \in FlagFields |-> {"true"}]
FlagExcluded == ExcludedOf(FlagFields, FlagProtos)
FlagApplies == AppliesOf(FlagFields, FlagProtos)
FlagDefault == [f \in FlagFields |-> [p \in FlagProtos |-> Null]]
FlagProtoOf == [k \in {"interface"} |-> FlagProtos]
=============================================================================
