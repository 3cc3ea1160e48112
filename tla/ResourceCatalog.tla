--------------------------- MODULE ResourceCatalog ---------------------------
(***************************************************************************)
(* The generated resources: the attributes of each by the class that its    *)
(* Schema, body and read give them, and the handlers of its Create, Update  *)
(* and Delete.  "match.x" is attribute x of the nested block match.  id,     *)
(* managed and etag, which every resource has, are left out.                *)
(***************************************************************************)
EXTENDS TLC

Classes == [
  requiredStr |-> [kind |-> "required", goType |-> "types.String"],
  requiredInt |-> [kind |-> "required", goType |-> "types.Int64"],
  requiredList |-> [kind |-> "required", goType |-> "types.List"],
  str |-> [kind |-> "optcomp", goType |-> "types.String"],
  int |-> [kind |-> "optcomp", goType |-> "types.Int64"],
  bool |-> [kind |-> "optcomp", goType |-> "types.Bool"],
  list |-> [kind |-> "optcomp", goType |-> "types.List"],
  intStr |-> [kind |-> "intstr", goType |-> "types.String"],
  clearStr |-> [kind |-> "optclear", goType |-> "types.String"],
  clearList |-> [kind |-> "optclear", goType |-> "types.List"],
  secretStr |-> [kind |-> "writeonly", goType |-> "types.String"],
  secretList |-> [kind |-> "writeonly", goType |-> "types.List"],
  viewBool |-> [kind |-> "computedbool", goType |-> "types.Bool"],
  viewStr |-> [kind |-> "computedstring", goType |-> "types.String"]]

Resource(handlers, attributes) ==
  attributes @@ [handlers |-> handlers, saved |-> <<>>] @@ [c \in DOMAIN Classes |-> {}]

Collection(attributes) == Resource("put", attributes)
MergePatched(attributes) == Resource("patch", attributes)
Singleton(attributes) == Resource("singleton", attributes)

\* state_upgrades.go: the selectors of a redirect that became scalars.
redirectMatchScalars == {"match.src_ip", "match.src_port", "match.src_dip",
                         "match.src_dport", "match.dest_ip", "match.dest_port"}
-----------------------------------------------------------------------------
dhcp_dnsmasq == Singleton([
  str |-> {"domain", "leasefile", "local", "resolvfile"},
  int |-> {"cachesize", "port"},
  bool |-> {"authoritative", "boguspriv", "domainneeded", "expandhosts",
      "filterwin2k", "nonwildcard", "noresolv", "readethers",
      "rebind_protection"},
  list |-> {"address", "server"}])

dhcp_host == Collection([
  str |-> {"duid", "hostid", "instance", "ip", "leasetime", "name"},
  bool |-> {"broadcast", "dns"}, list |-> {"macs", "match_tag", "tag"},
  saved |-> "tag" :> "wordsOfString"])

dhcp_odhcpd == Singleton([
  str |-> {"leasefile", "leasetrigger"}, int |-> {"loglevel"},
  bool |-> {"maindhcp"}])

dhcp_server == Collection([
  requiredStr |-> {"interface"},
  str |-> {"dhcpv4", "dhcpv6", "domain", "leasetime", "ra"},
  int |-> {"limit", "ra_default", "start"},
  bool |-> {"dynamicdhcp", "force", "ignore", "ra_slaac"},
  list |-> {"dhcp_option", "ra_flags"}])

dropbear_instance == Collection([
  str |-> {"banner_file", "interface"}, int |-> {"port"},
  bool |-> {"enable", "gateway_ports", "password_auth", "root_login",
      "root_password_auth"}])

firewall_defaults == Singleton([
  str |-> {"forward", "input", "output_policy"},
  int |-> {"synflood_burst", "synflood_rate"},
  bool |-> {"drop_invalid", "flow_offloading", "flow_offloading_hw",
      "syn_flood", "tcp_syncookies"}])

firewall_forwarding == Collection([
  requiredStr |-> {"dest", "src"}, str |-> {"family"}, bool |-> {"enabled"}])

firewall_nat == Collection([
  str |-> {"name", "snat_ip", "snat_port", "target", "match.src_zone",
      "match.device", "match.src_ip", "match.src_port", "match.dest_ip",
      "match.dest_port", "match.mark", "match.family"},
  bool |-> {"enabled"}, list |-> {"match.proto"}])

firewall_redirect == Collection([
  requiredStr |-> {"match.src_zone"},
  str |-> {"name", "reflection_src", "target", "match.dest_zone",
      "match.src_ip", "match.src_port", "match.src_dport", "match.src_dip",
      "match.dest_ip", "match.dest_port", "match.family", "match.mark"},
  bool |-> {"enabled", "reflection"},
  list |-> {"reflection_zone", "match.proto"},
  saved |-> [n \in redirectMatchScalars |-> "firstOfList"]])

firewall_rule == Collection([
  requiredStr |-> {"target"},
  str |-> {"name", "set_dscp", "set_mark", "set_xmark", "match.src_zone",
      "match.dest_zone", "match.family", "match.mark", "match.dscp"},
  bool |-> {"enabled"},
  list |-> {"match.src_ip", "match.src_port", "match.dest_ip",
      "match.dest_port", "match.proto"}])

firewall_zone == Collection([
  requiredStr |-> {"name"},
  str |-> {"family", "forward", "input", "output_policy"},
  bool |-> {"masq", "mtu_fix"}, list |-> {"network"}])

lldpd_config == Singleton([
  str |-> {"lldp_description", "lldp_mgmt_ip"}, int |-> {"lldp_class"},
  bool |-> {"enable_cdp", "enable_edp", "enable_fdp", "enable_sonmp",
      "lldp_capabilities"},
  list |-> {"interface"}])

mwan3_globals == Singleton([
  str |-> {"loglevel", "mmx_mask"}, bool |-> {"logging"}])

mwan3_interface == Collection([
  requiredStr |-> {"family"}, str |-> {"track_method"},
  int |-> {"down", "failure_interval", "failure_latency", "failure_loss",
      "interval", "max_ttl", "probe_count", "recovery_interval",
      "recovery_latency", "recovery_loss", "reliability", "size", "timeout",
      "up"},
  bool |-> {"check_quality", "enabled", "keep_failure_interval"},
  list |-> {"flush_conntrack", "track_ip"}])

mwan3_member == Collection([
  requiredStr |-> {"interface"}, int |-> {"metric", "weight"}])

mwan3_policy == Collection([
  requiredList |-> {"use_members"}, str |-> {"last_resort"}])

mwan3_rule == Collection([
  requiredStr |-> {"use_policy"},
  str |-> {"dest_ip", "dest_port", "family", "ipset", "proto", "src_ip",
      "src_port"},
  int |-> {"timeout"}, bool |-> {"logging", "sticky"}])

network_bridge_vlan == Collection([
  requiredStr |-> {"device"}, requiredInt |-> {"vlan"}, list |-> {"ports"}])

network_device == Collection([
  requiredStr |-> {"name"}, str |-> {"ifname", "macaddr", "type"},
  int |-> {"mtu", "vid"}, bool |-> {"ipv6"}, list |-> {"ports"}])

\* By its PUT; ResourceLifecycle has its scope and its merge PATCH.
network_interface == Collection([
  requiredStr |-> {"proto"},
  str |-> {"clientid", "device", "hostname", "ip4table", "ip6hint",
      "ip6ifaceid", "ip6table", "reqaddress", "reqprefix"},
  int |-> {"ip6assign", "ip6weight", "listen_port", "metric", "mtu"},
  bool |-> {"auto", "broadcast_flag", "defaultroute", "delegate", "disabled",
      "nohostroute", "peerdns", "sourcefilter"},
  list |-> {"addresses", "dns", "ip6addrs", "ip6class", "ipaddrs"},
  clearStr |-> {"broadcast", "gateway", "ip6gw", "netmask"},
  clearList |-> {"ip6prefix"}, secretStr |-> {"private_key"},
  viewBool |-> {"has_private_key"}, viewStr |-> {"ipaddr"},
  saved |-> "ip6prefix" :> "prefixes" @@ "private_key" :> "carried"])

network_route == Collection([
  requiredStr |-> {"target"},
  str |-> {"gateway", "interface", "netmask", "source", "type"},
  int |-> {"metric", "mtu", "table"}, bool |-> {"disabled"}])

network_rule == Collection([
  str |-> {"action", "dest", "dport", "in", "mark", "out", "sport", "src",
      "uidrange"},
  int |-> {"goto", "lookup", "priority", "suppress_prefixlength", "tos"},
  bool |-> {"disabled", "invert"}, intStr |-> {"ipproto"}])

network_wireguard_peer == Collection([
  requiredStr |-> {"interface", "public_key"},
  str |-> {"description", "endpoint_host"},
  int |-> {"endpoint_port", "persistent_keepalive"},
  bool |-> {"disabled", "route_allowed_ips"}, list |-> {"allowed_ips"},
  secretStr |-> {"preshared_key"}, viewBool |-> {"has_preshared_key"}])

openvpn_instance == Collection([
  str |-> {"auth", "ca", "cert", "cipher", "comp_lzo", "compress", "crl_verify",
      "dev", "dev_type", "dh", "group", "ifconfig", "ifconfig_pool",
      "keepalive", "local", "log", "log_append", "ncp_ciphers", "proto",
      "remote_cert_tls", "route_gateway", "server", "server_bridge", "status",
      "tls_crypt", "topology", "user", "verify_x509_name"},
  int |-> {"lport", "mute", "ping", "ping_restart", "port", "rport", "verb"},
  bool |-> {"client", "client_to_client", "duplicate_cn", "enabled", "float",
      "ncp_disable", "nobind", "persist_key", "persist_tun", "tls_client",
      "tls_server"},
  list |-> {"push", "remote", "route"},
  secretStr |-> {"key", "pkcs12", "tls_auth"},
  viewBool |-> {"has_key", "has_pkcs12", "has_tls_auth"}])

prometheus_node_exporter_lua_config == Singleton([
  str |-> {"listen_interface"}, int |-> {"listen_port"}])

snmpd_access == Collection([
  requiredStr |-> {"group"},
  str |-> {"context", "level", "notify", "prefix", "read", "version", "write"}])

snmpd_agent == Collection([list |-> {"agentaddress"}])

snmpd_com2sec == Collection([
  requiredStr |-> {"community", "secname", "source"}])

snmpd_group == Collection([
  requiredStr |-> {"group"}, str |-> {"secname", "version"}])

snmpd_system == Singleton([
  str |-> {"sys_contact", "sys_descr", "sys_location", "sys_name",
      "sys_object_id"},
  int |-> {"sys_services"}])

sqm_queue == Collection([
  requiredStr |-> {"interface"}, str |-> {"linklayer", "qdisc", "script"},
  int |-> {"download", "overhead", "upload"}, bool |-> {"enabled"}])

system == Singleton([
  str |-> {"description", "hostname", "log_ip", "log_proto", "notes",
      "timezone", "urandom_seed", "zonename"},
  int |-> {"log_size"}, bool |-> {"log_remote"}])

system_timeserver == Collection([
  str |-> {"interface"}, bool |-> {"enable_server", "enabled", "use_dhcp"},
  list |-> {"server"}])

uhttpd_cert == Collection([
  requiredStr |-> {"commonname"},
  str |-> {"country", "location", "organization", "state"},
  int |-> {"bits", "days"}])

uhttpd_instance == Collection([
  str |-> {"cert", "cgi_prefix", "error_page", "home", "key"},
  int |-> {"http_keepalive", "max_connections", "max_requests",
      "network_timeout", "script_timeout", "tcp_keepalive"},
  bool |-> {"no_dirlists", "no_symlinks", "rfc1918_filter"},
  list |-> {"index_page", "listen_http", "listen_https", "lua_prefix",
      "ucode_prefix"}])

unbound_ext == Singleton([bool |-> {"enabled"}, list |-> {"ext_line"}])

unbound_server == Singleton([
  str |-> {"dhcp_link", "domain", "domain_type", "protocol",
      "rebind_protection", "recursion", "resource_limits"},
  int |-> {"add_local_fqdn", "add_wan_fqdn", "listen_port", "num_threads",
      "ttl_min"},
  bool |-> {"dnssec_enabled", "extended_stats", "hide_binddata",
      "interface_auto", "localservice", "manual_conf", "query_minimize"}])

unbound_srv == Singleton([
  bool |-> {"enabled", "ip_transparent"},
  list |-> {"interface_bind", "interface_outgoing", "srv_line"}])

usteer_config == Singleton([
  str |-> {"network", "node_up_script"},
  int |-> {"band_steering_threshold", "debug_level", "load_balancing_threshold",
      "local_sta_timeout", "local_sta_update", "max_neighbor_reports",
      "max_retry_band", "measurement_report_timeout", "min_connect_snr",
      "min_snr", "min_snr_kick_delay", "remote_node_timeout",
      "remote_update_interval", "roam_kick_delay", "roam_process_timeout",
      "roam_scan_interval", "roam_scan_snr", "roam_scan_tries",
      "roam_trigger_interval", "roam_trigger_snr", "seen_policy_timeout",
      "signal_diff_threshold", "sta_block_timeout"},
  bool |-> {"assoc_steering", "enabled", "ipv6", "syslog"},
  list |-> {"event_log_types", "ssid_list"}])

vnstat_config == Singleton([list |-> {"interfaces"}])

wireless_device == MergePatched([
  requiredStr |-> {"type"},
  str |-> {"band", "country", "htmode", "macaddr", "path", "phy"},
  int |-> {"cell_density", "radio", "txpower"},
  bool |-> {"disabled", "legacy_rates"}, intStr |-> {"channel"}])

wireless_interface == MergePatched([
  requiredStr |-> {"device"},
  str |-> {"encryption", "mobility_domain", "mode", "nasid", "network",
      "r1_key_holder", "ssid"},
  int |-> {"r0_key_lifetime", "reassociation_deadline"},
  bool |-> {"disabled", "ft_over_ds", "ft_psk_generate_local", "hidden",
      "ieee80211r", "isolate", "pmk_r1_push"},
  secretStr |-> {"key"}, secretList |-> {"r0kh", "r1kh"},
  viewBool |-> {"has_key", "has_r0kh", "has_r1kh"}])
-----------------------------------------------------------------------------
Catalogue == {
  dhcp_dnsmasq, dhcp_host, dhcp_odhcpd, dhcp_server, dropbear_instance,
   firewall_defaults, firewall_forwarding, firewall_nat, firewall_redirect,
   firewall_rule, firewall_zone, lldpd_config, mwan3_globals,
   mwan3_interface, mwan3_member, mwan3_policy, mwan3_rule,
   network_bridge_vlan, network_device, network_interface, network_route,
   network_rule, network_wireguard_peer, openvpn_instance,
   prometheus_node_exporter_lua_config, snmpd_access, snmpd_agent,
   snmpd_com2sec, snmpd_group, snmpd_system, sqm_queue, system,
   system_timeserver, uhttpd_cert, uhttpd_instance, unbound_ext,
   unbound_server, unbound_srv, usteer_config, vnstat_config,
   wireless_device, wireless_interface}

\* A resource with schema version 1 upgrades a saved state: attribute n goes
\* through the conversion r.saved[n], the others as they are.
upgradeOf(r, n) == IF r.saved = <<>> THEN "none"
                   ELSE IF n \in DOMAIN r.saved THEN r.saved[n] ELSE "plain"

\* What the handlers can tell of an attribute.  Those of one shape are alike.
Shapes == UNION {UNION {{[handlers |-> r.handlers, field |-> Classes[c],
                          upgrade |-> upgradeOf(r, n)] : n \in r[c]} :
                        c \in DOMAIN Classes} : r \in Catalogue}
=============================================================================
