----------------------------- MODULE NfProfile ------------------------------
(***************************************************************************)
(* The profile a SEPP registers at the NRF (sepp_profile.cpp and .hpp in   *)
(* src/src/sepp_app) and how sepp_nrf fills it (sepp_nrf.cpp).             *)
(*                                                                         *)
(* A JSON object is a function from the names of its members.  An IPv4     *)
(* address is what the model says it is; AnyAddress is 0.0.0.0, which an   *)
(* address that cannot be read becomes.  IPv6 addresses are never written  *)
(* and never read.                                                         *)
(***************************************************************************)
EXTENDS Naturals, Sequences

CONSTANTS NoFqdn, AnyAddress

Width16 == 65536   \* priority and capacity are uint16_t

NewProfile ==
  [nfInstanceId |-> "", nfInstanceName |-> "", nfType |-> "NF_TYPE_UNKNOWN",
   nfStatus |-> "", heartBeatTimer |-> 0, snssais |-> <<>>, fqdn |-> NoFqdn,
   ipv4 |-> <<>>, priority |-> 0, capacity |-> 0, services |-> <<>>,
   seppPrefix |-> "", seppPorts |-> {}, remotePlmns |-> <<>>,
   purposes |-> <<>>]

\* generate_sepp_profile.  The service, the ports and the PLMN of the partner
\* are written in the code, whatever is configured.
Generate(id, host, address, port) ==
  [NewProfile EXCEPT
     !.nfInstanceId = id, !.nfInstanceName = "OAI-SEPP", !.nfType = "SEPP",
     !.nfStatus = "REGISTERED", !.heartBeatTimer = 50,
     !.fqdn = host, !.ipv4 = <<address>>, !.priority = 1, !.capacity = 100,
     !.services = <<[name |-> "nsepp-telescopic", address |-> address,
                     port |-> port]>>,
     !.seppPrefix = "oai-sepp-prefix",
     !.seppPorts = {<<"n32f", 443>>, <<"n32c", 443>>},
     !.remotePlmns = <<<<"262", "10">>>>, !.purposes = <<"ROAMING">>]

Scalars == {"nfInstanceId", "nfInstanceName", "nfType", "nfStatus",
            "heartBeatTimer", "priority", "capacity"}

\* to_json of nf_profile: the members it writes whatever their value, and the
\* FQDN if there is one.
CommonMembers(p) ==
  Scalars \cup {"snssais", "ipv4"} \cup {k \in {"fqdn"} : p.fqdn # NoFqdn}

\* to_json of sepp_profile, which calls the one of nf_profile first.
ToJson(p) ==
  [k \in CommonMembers(p) \cup
       {"services", "seppPrefix", "seppPorts", "remotePlmns", "purposes"}
     |-> p[k]]

Member(j, k, default) == IF k \in DOMAIN j THEN j[k] ELSE default

\* What inet_pton makes of an address.
ReadAddresses(j, Readable) ==
  LET as == Member(j, "ipv4", <<>>) IN
  [i \in DOMAIN as |-> IF as[i] \in Readable THEN as[i] ELSE AnyAddress]

\* The part of from_json that both classes have: scalars are replaced, lists
\* are added to.
ReadCommon(p, j, Readable) ==
  [k \in DOMAIN p |->
     CASE k \in {"priority", "capacity"} -> Member(j, k, p[k]) % Width16
       [] k \in Scalars \ {"priority", "capacity"} -> Member(j, k, p[k])
       [] k = "snssais" -> p.snssais \o Member(j, "snssais", <<>>)
       [] k = "ipv4" -> p.ipv4 \o ReadAddresses(j, Readable)
       [] OTHER -> p[k]]

\* Variant: from_json of sepp_profile does not call the one of nf_profile.
FromJsonAlone(p, j, Readable) ==
  [ReadCommon(p, j, Readable) EXCEPT
     !.seppPrefix = Member(j, "seppPrefix", p.seppPrefix)]

\* from_json of sepp_profile: it calls the one of nf_profile, which also reads
\* the FQDN, repeats what that one did, and reads the prefix; services, ports,
\* PLMNs and purposes are not read.
FromJson(p, j, Readable) ==
  LET base == [ReadCommon(p, j, Readable) EXCEPT
                 !.fqdn = Member(j, "fqdn", p.fqdn)]
  IN  [ReadCommon(base, j, Readable) EXCEPT
         !.seppPrefix = Member(j, "seppPrefix", p.seppPrefix)]

\* handle_heartbeart_timeout
HeartbeatTimeout(p) == [p EXCEPT !.nfStatus = "SUSPENDED"]
=============================================================================
