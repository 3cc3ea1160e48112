------------------------------ MODULE ScopeTable ------------------------------
(***************************************************************************)
(* internal/gen/scope.go: the table of the fields that some values of one   *)
(* discriminator do not take, read from the allOf entries of a request      *)
(* schema; fieldScope.excluded, which reads the table; and the table that   *)
(* uapi has of its own for network_interface.                               *)
(***************************************************************************)
EXTENDS FiniteSets

\* "if" maps a field to the values it matches, a const being one value; "then"
\* maps a field to its type.
Entry(if, then) == [if |-> if, then |-> then]

NoScope == [field |-> "none", known |-> {}, rules |-> {}]
Failed  == [field |-> "failed", known |-> {}, rules |-> {}]

nulls(e) == {f \in DOMAIN e.then : e.then[f] = "null"}

\* The entries that the generator reads; what else an entry asks is uapi's affair.
nullsOnly(entries) == {e \in entries : nulls(e) # {}}

Discriminators(entries) == UNION {DOMAIN e.if : e \in nullsOnly(entries)}

\* fieldScope.excluded and scoped.
excluded(s, v) == UNION {r.fields : r \in {q \in s.rules : v \in q.values}}
scoped(s)      == UNION {r.fields : r \in s.rules}

\* A rule of one field is all that an entry makes.
rulesOfOneField(entries, n) ==
  {[values |-> e.if[n], fields |-> {CHOOSE f \in nulls(e) : TRUE}] : e \in nullsOnly(entries)}

rulesOf(entries, n) ==
  {[values |-> e.if[n], fields |-> nulls(e)] : e \in nullsOnly(entries)}

Fails(entries, writable, enum) ==
  \/ \E e \in nullsOnly(entries) : nulls(e) # DOMAIN e.then
  \/ \E e \in nullsOnly(entries) : Cardinality(DOMAIN e.if) # 1
  \/ \E m, n \in Discriminators(entries) : m # n
  \/ \E e \in nullsOnly(entries) : ~ nulls(e) \subseteq writable
  \/ \E n \in Discriminators(entries) :
       \/ enum[n] = {}
       \/ \E f \in writable :
            \A v \in enum[n] : \E r \in rulesOf(entries, n) : f \in r.fields /\ v \in r.values

\* writable are the attributes that a configuration may set, enum the values that
\* the request schema lists for a field.
applyScope(entries, writable, enum) ==
  IF nullsOnly(entries) = {} THEN NoScope
  ELSE IF Fails(entries, writable, enum) THEN Failed
  ELSE LET n == CHOOSE d \in Discriminators(entries) : TRUE
       IN [field |-> n, known |-> enum[n], rules |-> rulesOf(entries, n)]
-----------------------------------------------------------------------------
(* network_interface: the request schema, the enum of proto being uapi's protos. *)

ifaceProtos == {"static", "dhcp", "dhcpv6", "pppoe", "none", "ppp", "wwan", "wireguard"}

OnProto(protos, then) == Entry([proto |-> protos], then)
Nulls(fields)   == [f \in fields |-> "null"]
OthersThan(protos, fields) == OnProto(ifaceProtos \ protos, Nulls(fields))

networkInterfaceEntries == {
  OnProto({"wireguard"}, [f \in {} |-> "null"]),
  OthersThan({"static"}, {"ipaddrs", "ip6addrs", "netmask", "broadcast", "gateway", "ip6gw"}),
  OthersThan({"static", "dhcpv6", "wireguard"}, {"ip6prefix"}),
  OthersThan({"dhcp"}, {"broadcast_flag", "hostname"}),
  OthersThan({"dhcp", "dhcpv6"}, {"clientid"}),
  OthersThan({"dhcpv6"}, {"reqaddress"}),
  OthersThan({"dhcpv6", "pppoe", "ppp"}, {"reqprefix", "sourcefilter"}),
  OthersThan({"dhcp", "dhcpv6", "pppoe", "ppp", "wwan"}, {"peerdns"}),
  OthersThan({"wireguard"}, {"private_key", "listen_port", "addresses", "nohostroute"}),
  OnProto({"ppp", "pppoe"}, [mtu |-> "bounded"])}

\* The writable attributes that the run or the entries name.
networkInterfaceWritable ==
  {"proto", "mtu", "device"} \cup UNION {nulls(e) : e \in networkInterfaceEntries}

networkInterfaceScope ==
  applyScope(networkInterfaceEntries, networkInterfaceWritable, [proto |-> ifaceProtos])

\* The protos that uapi lets each field be set on; a field not named, on each.
ifaceFieldProtos(f) ==
  CASE f \in {"ipaddrs", "ip6addrs", "netmask", "broadcast", "gateway", "ip6gw"} -> {"static"}
    [] f = "ip6prefix" -> {"static", "dhcpv6", "wireguard"}
    [] f \in {"broadcast_flag", "hostname"} -> {"dhcp"}
    [] f = "clientid" -> {"dhcp", "dhcpv6"}
    [] f = "reqaddress" -> {"dhcpv6"}
    [] f \in {"reqprefix", "sourcefilter"} -> {"dhcpv6", "pppoe", "ppp"}
    [] f = "peerdns" -> {"dhcp", "dhcpv6", "pppoe", "ppp", "wwan"}
    [] f \in {"private_key", "has_private_key", "listen_port", "addresses", "nohostroute"} ->
         {"wireguard"}
    [] OTHER -> ifaceProtos

ifaceApplies(f, p) == \/ p \in ifaceFieldProtos(f)
                      \/ p \notin ifaceProtos /\ f \notin {"broadcast_flag", "has_private_key"}
-----------------------------------------------------------------------------
\* The generated table of network_interface says of each field on a proto what
\* uapi's own table says; on one that uapi does not model, the scope excludes nothing.
AgreesOn(p) ==
  \A f \in networkInterfaceWritable :
    (f \in excluded(networkInterfaceScope, p))
      <=> (~ ifaceApplies(f, p) /\ p \in networkInterfaceScope.known)

\* So it is on every proto of uapi ("so that a misread of the spec's allOf entries
\* fails the suite") and on 6in4, of whose fields uapi takes all but broadcast_flag.
AgreesWithUapi == \A p \in ifaceProtos \cup {"6in4"} : AgreesOn(p)
=============================================================================
