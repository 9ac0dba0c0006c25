----------------------------- MODULE SeppConfig -----------------------------
(***************************************************************************)
(* The SEPP's own section of the configuration (sepp_config.cpp in         *)
(* src/src/sepp_app) and what the start of the NBI server makes of it      *)
(* (sepp-http2-nbi-server.cpp).                                            *)
(*                                                                         *)
(* A file is a record of the nodes that are looked for.  The rest of the   *)
(* configuration is read by the common library.                            *)
(***************************************************************************)
CONSTANTS None    \* a node that is not in the file; an empty path

\* What is not in the file has none of the values a node is compared with.
ASSUME NoneAssumption == None \notin {"c-sepp", "p-sepp", "ipx"}

\* The values of the nodes: private_key, cert and cacert are paths.
Files ==
  [yaml : BOOLEAN,                \* the file is YAML and values have their type
   section : BOOLEAN,             \* there is a node "sepp"
   role : {None, "c-sepp", "p-sepp", "ipx"},
   security : {None, "PRINS", "TLS"},
   disable_tls : {None, TRUE, FALSE},
   private_key : {None, "key"},
   cert : {None, "crt"},
   cacert : {None, "ca"}]

Or(node, default) == IF node = None THEN default ELSE node

Default ==
  [role |-> "c-sepp", role_enum |-> "C_SEPP", security |-> "PRINS",
   disable_tls |-> FALSE, private_key |-> None, cert |-> None,
   cacert |-> None]

\* The role the constructor of sepp_app goes by.
RoleEnum(role) == IF role = "p-sepp" THEN "P_SEPP" ELSE "C_SEPP"

IsTlsEnabled(c) == ~c.disable_tls

\* The values of the section, the paths only when TLS is enabled.
ReadSection(f) ==
  LET tls == ~Or(f.disable_tls, Default.disable_tls) IN
  [role |-> Or(f.role, Default.role),
   role_enum |-> RoleEnum(f.role),
   security |-> Or(f.security, Default.security),
   disable_tls |-> ~tls,
   private_key |-> IF tls THEN f.private_key ELSE None,
   cert |-> IF tls THEN f.cert ELSE None,
   cacert |-> IF tls THEN f.cacert ELSE None]

\* Variant: the private key alone is looked at.
WarnsOfKey(c) == IsTlsEnabled(c) /\ c.private_key = None

\* The warning that a path is missing; the configuration is used all the same.
Warns(c) == IsTlsEnabled(c) /\ None \in {c.private_key, c.cert}

\* Variant: a role the SEPP does not know is not refused.
ReadFromFileOfAnyRole(f) ==
  IF ~f.yaml
  THEN [thrown |-> TRUE, config |-> Default, warned |-> FALSE]
  ELSE LET c == IF f.section THEN ReadSection(f) ELSE Default IN
       [thrown |-> FALSE, config |-> c, warned |-> f.section /\ Warns(c)]

\* The constructor and read_from_file: a role the SEPP does not know and what
\* YAML cannot read are thrown, and nothing is configured.
ReadFromFile(f) ==
  IF ~f.yaml \/ (f.section /\ f.role = "ipx")
  THEN [thrown |-> TRUE, config |-> Default, warned |-> FALSE]
  ELSE LET c == IF f.section THEN ReadSection(f) ELSE Default IN
       [thrown |-> FALSE, config |-> c, warned |-> f.section /\ Warns(c)]

\* start of the NBI server, with readable files behind the paths: a TLS context
\* needs a certificate and its key, and verifies the peer if it is told how.
NbiStart(c) ==
  [listens |-> ~IsTlsEnabled(c) \/ None \notin {c.private_key, c.cert},
   tls |-> IsTlsEnabled(c),
   verifies |-> IsTlsEnabled(c) /\ c.cacert # None]
=============================================================================
