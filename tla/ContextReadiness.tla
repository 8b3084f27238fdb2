--------------------------- MODULE ContextReadiness ---------------------------
(***************************************************************************)
(* What a profile must contain for the detectors to have their context:    *)
(* the checklist of the editor (readiness) and the requirements of the     *)
(* modules the selector shows (CONTEXT_REQUIREMENTS, moduleReadiness), two *)
(* lists written independently of each other (profile.ts). A profile is    *)
(* the set of the kinds of rows it has; texts and counts are left out.     *)
(***************************************************************************)
EXTENDS Integers, FiniteSets

CONSTANT MaxKinds  \* bound of the model: kinds of rows at a time

ASSUME KindsAssumption == MaxKinds \in Nat

(* The kinds of rows: what the two lists can tell of one. *)
Shows == [
    plainSegment  |-> {"segment"},
    otSegment     |-> {"segment", "otSegment", "ot"},
    itSegment     |-> {"segment", "itSegment"},
    purdueSegment |-> {"segment", "purdue"},
    vlanSegment   |-> {"segment", "vlan"},
    staticSegment |-> {"segment", "static"},
    ipv4Segment   |-> {"segment", "ipv4Segment"},
    ipv4OtSegment |-> {"segment", "otSegment", "ot", "ipv4Segment", "ipv4Ot"},
    seenHost      |-> {"asset"},
    plc           |-> {"asset", "ot", "controller", "plcOrIed", "snmpTarget", "identity"},
    ied           |-> {"asset", "plcOrIed", "identity"},
    switch        |-> {"asset", "snmpTarget", "identity"},
    engineering   |-> {"asset", "engineering", "identity"},
    dns           |-> {"dns"},
    ntp           |-> {"ntp"},
    dhcp          |-> {"dhcp"},
    management    |-> {"management"},
    modbus        |-> {"action", "modbusOrDnp3"},
    s7            |-> {"action", "s7comm"},
    enip          |-> {"action"},
    hostPair      |-> {"pair"},
    segmentPair   |-> {"pair"},
    ignoredHost   |-> {"pair"},
    destination   |-> {"destination"},
    internalOnly  |-> {"scope", "internalOnly"},
    dedicated     |-> {"scope"},
    ipv4Only      |-> {"scope", "ipv4Only"}]

VARIABLE kinds

ReadyInit == kinds = {}

Has(fact) == \E k \in kinds : fact \in Shows[k]

(* isOt *)
IsOt == Has("ot")

-----------------------------------------------------------------------------
(* readiness: the items that are ready. *)
Readiness == [
    capture  |-> Has("scope"),
    segments |-> Has("segment"),
    assets   |-> Has("asset"),
    purdue   |-> Has("purdue"),
    dns      |-> Has("dns"),
    ntp      |-> Has("ntp"),
    dhcp     |-> Has("dhcp") \/ Has("static"),
    ipv6     |-> Has("ipv4Only") \/ Has("ipv4Segment"),
    pairs    |-> Has("pair"),
    control  |-> Has("action")]

(* A faulty DhcpComplete: a segment that prohibits DHCP does not count. *)
DhcpCompleteFault == Has("dhcp")

(* The requirement of rogue_dhcp_static_ot. *)
DhcpComplete == Has("dhcp") \/ Has("static")

(* CONTEXT_REQUIREMENTS: whether the context of a module is complete. *)
Requirements == [
    cross_purdue_level_traffic |-> Has("purdue"),
    control_system_enterprise_non_dmz |-> Has("otSegment") /\ Has("itSegment"),
    internet_exposed_ics |-> IsOt,
    ipv6_traffic_ot |-> Has("ipv4Only") \/ Has("ipv4Ot"),
    new_ot_conversation_pair |-> IsOt,
    new_service_emergence_ot |-> IsOt,
    ot_asset_gone_silent |-> IsOt,
    ot_external_dns_resolver |-> Has("dns"),
    ntp_internet_multi_dest_ot |-> Has("ntp"),
    rogue_dhcp_static_ot |-> DhcpComplete,
    unexpected_dhcp_server |-> Has("dhcp"),
    dns_source_drift |-> Has("dns"),
    ntp_source_drift |-> Has("ntp"),
    arp_ip_mac_identity_change |-> Has("identity"),
    ot_protocol_role_reversal |-> IsOt,
    plc_rtu_peer_change |-> Has("plcOrIed"),
    engineering_workstation_control_burst |-> Has("engineering"),
    encrypted_session_fingerprint_change |-> IsOt,
    remote_access_session_anomaly |-> Has("management"),
    service_disappearance_replacement |-> IsOt,
    polling_cadence_disruption |-> IsOt,
    controller_communication_jitter |-> Has("controller"),
    vlan_tag_mismatch_double_tag |-> Has("vlan"),
    public_to_public_traffic |-> Has("internalOnly"),
    unknown_rogue_devices |-> Has("asset"),
    snmp_write_ot_devices |-> Has("snmpTarget") \/ Has("controller"),
    ics_write_operations |-> Has("modbusOrDnp3"),
    s7comm_unauthorized_write_stop |-> Has("s7comm"),
    plc_program_logic_firmware_update |-> Has("action"),
    ot_outbound_internet_any_protocol |-> IsOt,
    file_extraction_sensitive_types |-> Has("destination"),
    database_service_exposed |-> Has("segment"),
    netbios_smbv1_exposure |-> Has("segment"),
    ot_protocol_exposure |-> Has("segment")]

(* moduleReadiness: a module without requirements has its context. *)
ContextComplete(id) == id \in DOMAIN Requirements => Requirements[id]

-----------------------------------------------------------------------------
(* The editor adds the first row of a kind, or removes the last one. *)
AddKind(k) == k \notin kinds /\ Cardinality(kinds) < MaxKinds /\ kinds' = kinds \cup {k}
RemoveKind(k) == k \in kinds /\ kinds' = kinds \ {k}

ReadyNext == \E k \in DOMAIN Shows : AddKind(k) \/ RemoveKind(k)

ReadySpec == ReadyInit /\ [][ReadyNext]_kinds

-----------------------------------------------------------------------------
(* The two lists agree where they are about the same context: what the     *)
(* editor calls ready is complete for the modules it is about, and the     *)
(* other way round. For IPv6 only the latter: the checklist counts IPv4    *)
(* segments of any role.                                                   *)
ListsAgree ==
    /\ Readiness.purdue <=> ContextComplete("cross_purdue_level_traffic")
    /\ Readiness.dns <=> /\ ContextComplete("ot_external_dns_resolver")
                         /\ ContextComplete("dns_source_drift")
    /\ Readiness.ntp <=> /\ ContextComplete("ntp_internet_multi_dest_ot")
                         /\ ContextComplete("ntp_source_drift")
    /\ Readiness.dhcp <=> ContextComplete("rogue_dhcp_static_ot")
    /\ Readiness.control <=> ContextComplete("plc_program_logic_firmware_update")
    /\ ContextComplete("ipv6_traffic_ot") => Readiness.ipv6
=============================================================================
