--------------------------- MODULE SeppDataProofs ---------------------------
(***************************************************************************)
(* What the SEPP makes of its configuration, of the JSON of a profile and  *)
(* of the encoded body of a message, for any hosts, addresses, keys,       *)
(* bodies and additional data, and for a profile object that reads JSON    *)
(* any number of times.                                                    *)
(***************************************************************************)
EXTENDS SeppData, SeppEncodingProofs, TLAPS
-----------------------------------------------------------------------------
(***************************************************************************)
(* The configuration and the NBI server.                                   *)
(***************************************************************************)

\* What was read comes from a file, and the NBI server was started with it.
StartInv ==
  /\ read # None => \E f \in Files : read = ReadFromFile(f)
  /\ nbi # None => read # None /\ nbi = NbiStart(read.config)

\* The configuration that is used has an enumerated role that is the written
\* one, and either it is the default or the warning tells that the NBI server
\* cannot listen with it.
LEMMA ConfigurationWarns ==
  ASSUME NEW f \in Files, ~ReadFromFile(f).thrown
  PROVE  LET r == ReadFromFile(f) IN
         /\ r.config.role_enum = "P_SEPP" <=> r.config.role = "p-sepp"
         /\ r.warned => ~NbiStart(r.config).listens
         /\ ~NbiStart(r.config).listens => r.warned \/ r.config = Default
<1> DEFINE r == ReadFromFile(f)
<1>1. CASE f.section
  <2>1. /\ r.config = ReadSection(f)
        /\ r.warned <=> Warns(ReadSection(f))
    BY <1>1 DEF ReadFromFile
  <2>2. ReadSection(f).role_enum = "P_SEPP" <=> ReadSection(f).role = "p-sepp"
    BY NoneAssumption DEF ReadSection, RoleEnum, Or, Default, Files
  <2>3. Warns(ReadSection(f)) <=> ~NbiStart(ReadSection(f)).listens
    BY DEF Warns, NbiStart, IsTlsEnabled
  <2> QED BY <2>1, <2>2, <2>3
<1>2. CASE ~f.section
  <2>1. /\ r.config = Default
        /\ ~r.warned
    BY <1>2 DEF ReadFromFile
  <2>2. Default.role_enum # "P_SEPP" /\ Default.role # "p-sepp"
    BY DEF Default
  <2> QED BY <2>1, <2>2
<1>3. f.section \in BOOLEAN
  BY DEF Files
<1> QED BY <1>1, <1>2, <1>3

\* Every step keeps it: the file is read once, and the NBI server is started
\* once, after it.
LEMMA StartStep ==
  ASSUME StartInv, [Next]_vars
  PROVE  StartInv'
<1>1. ASSUME NEW f \in Files, ReadFile(f) PROVE StartInv'
  BY <1>1 DEF StartInv, ReadFile
<1>2. ASSUME StartNbi PROVE StartInv'
  BY <1>2 DEF StartInv, StartNbi, Running
<1>3. ASSUME read' = read, nbi' = nbi PROVE StartInv'
  BY <1>3 DEF StartInv
<1>4. CASE UNCHANGED vars
  BY <1>3, <1>4 DEF vars
<1>5. ASSUME NEW host \in Hosts, NEW address \in Addresses,
             GenerateProfile(host, address)
      PROVE  StartInv'
  BY <1>3, <1>5 DEF GenerateProfile
<1>6. CASE WriteJson \/ Suspend \/ ReadJson
  BY <1>3, <1>6 DEF WriteJson, Suspend, ReadJson
<1>7. ASSUME NEW b \in Texts, Code(b) PROVE StartInv'
  BY <1>3, <1>7 DEF Code, startup
<1>8. ASSUME NEW body \in Bodies, NEW aad \in Aads, NEW key \in Keys,
             Seal(body, aad, key)
      PROVE  StartInv'
  BY <1>3, <1>8 DEF Seal, startup
<1>9. ASSUME NEW aad \in Aads, NEW key \in Keys, Open(aad, key)
      PROVE  StartInv'
  BY <1>3, <1>9 DEF Open, startup
<1> QED
  BY <1>1, <1>2, <1>4, <1>5, <1>6, <1>7, <1>8, <1>9 DEF Next

\* A "sepp" section lets the NBI server listen unless reading it warned of a
\* missing path (sepp_config.cpp, sepp-http2-nbi-server.cpp): the two ask for
\* the same paths under the same condition.
THEOREM NbiListensUnlessWarnedHolds == Spec => []NbiListensUnlessWarned
<1>1. Init => StartInv
  BY DEF Init, StartInv
<1>2. StartInv /\ [Next]_vars => StartInv'
  BY StartStep
<1>3. StartInv => NbiListensUnlessWarned
  <2> SUFFICES ASSUME StartInv, Running
               PROVE  /\ read.config.role_enum = "P_SEPP"
                           <=> read.config.role = "p-sepp"
                      /\ read.warned => nbi = None \/ ~nbi.listens
                      /\ nbi # None /\ ~nbi.listens =>
                           read.warned \/ read.config = Default
    BY DEF NbiListensUnlessWarned
  <2>1. PICK f \in Files : read = ReadFromFile(f)
    BY DEF StartInv, Running
  <2>2. ~ReadFromFile(f).thrown
    BY <2>1 DEF Running
  <2>3. nbi # None => nbi = NbiStart(read.config)
    BY DEF StartInv
  <2> QED BY ONLY <2>1, <2>2, <2>3, ConfigurationWarns
<1> QED BY <1>1, <1>2, <1>3, PTL DEF Spec
-----------------------------------------------------------------------------
(***************************************************************************)
(* Messages.                                                               *)
(***************************************************************************)

\* What the two SEPPs did: one message is wrapped, and what is opened is this
\* message.
SealInv ==
  /\ sent # None =>
       sent = [body |-> sent.body, aad |-> sent.aad, key |-> sent.key,
               message |-> Wrap(sent.body, sent.aad, sent.key,
                                Opaque("iv", IvSize))]
  /\ opened # None =>
       /\ sent # None /\ sent.message.ok
       /\ opened = [aad |-> opened.aad, key |-> opened.key,
                    result |-> Unwrap(sent.message, opened.aad, opened.key)]

\* What is not sealed, because there is no key or no body, is handed over as
\* it is.  What is sealed opens with its key and its additional data only, and
\* is taken for the body where there is no key.
LEMMA UnwrapWrapped ==
  ASSUME NEW body, NEW aad, NEW key, NEW other, NEW otherKey, NEW m, NEW u,
         m = Wrap(body, aad, key, Opaque("iv", IvSize)), m.ok,
         u = Unwrap(m, other, otherKey)
  PROVE  IF Empty(body) \/ Empty(key)
         THEN u.ok /\ u.text = body
         ELSE IF Empty(otherKey)
         THEN u.ok /\ u.text = m.ciphertext
         ELSE /\ u.ok <=> otherKey = key /\ other = aad
              /\ u.ok => u.text = body
<1>1. CASE Empty(body) \/ Empty(key)
  <2>1. m = Bare(body)
    BY <1>1 DEF Wrap
  <2>2. m.ciphertext = body /\ m.iv = Absent
    BY <2>1 DEF Bare, Failed
  <2>3. Empty(m.iv)
    BY <2>2 DEF Empty, Absent, Opaque
  <2>4. u = [ok |-> TRUE, text |-> body]
    BY <2>2, <2>3 DEF Unwrap
  <2> QED BY <1>1, <2>4
<1>2. CASE ~Empty(body) /\ ~Empty(key)
  <2> DEFINE iv == Opaque("iv", IvSize)
             c == GcmCiphertext(key, iv, body)
  <2>1. m = ApplyJweEncryption(body, aad, key, iv)
    BY <1>2 DEF Wrap
  <2>2. key.size = KeySize
    BY <2>1 DEF ApplyJweEncryption, Failed
  <2>3. m = [ok |-> TRUE, iv |-> iv, ciphertext |-> c,
             tag |-> GcmTag(key, iv, aad, c)]
    BY <2>1, <2>2 DEF ApplyJweEncryption
  <2>4. m.iv = iv /\ m.ciphertext = c /\ m.tag = GcmTag(key, iv, aad, c)
    BY <2>3
  <2>5. /\ iv.size = IvSize /\ c.size = body.size
        /\ GcmTag(key, iv, aad, c).size = TagSize
        /\ c.of.text = body
    BY DEF Opaque, GcmCiphertext, GcmTag
  <2>6. ~(Empty(c) \/ Empty(key) \/ Empty(iv) \/ Empty(m.tag))
    BY <1>2, <2>4, <2>5 DEF Empty, IvSize, TagSize
  <2>7. CASE Empty(otherKey)
    <3>1. u = [ok |-> TRUE, text |-> m.ciphertext]
      BY <2>7 DEF Unwrap
    <3> QED BY <1>2, <2>7, <3>1
  <2>8. CASE ~Empty(otherKey)
    <3>1. u = DecryptJwePayload(m, other, otherKey)
      BY <2>4, <2>6, <2>8 DEF Unwrap
    <3>2. m.tag = GcmTag(otherKey, iv, other, c)
            <=> otherKey = key /\ other = aad
      <4>1. /\ GcmTag(otherKey, iv, other, c).of.key = otherKey
            /\ GcmTag(otherKey, iv, other, c).of.aad = other
        BY DEF GcmTag, Opaque
      <4>2. GcmTag(key, iv, aad, c).of.key = key
            /\ GcmTag(key, iv, aad, c).of.aad = aad
        BY DEF GcmTag, Opaque
      <4> QED BY <2>4, <4>1, <4>2
    <3>3. m.iv.size = IvSize /\ m.tag.size = TagSize
      BY <2>4, <2>5
    <3>4. CASE otherKey = key /\ other = aad
      <4>1. u = [ok |-> TRUE, text |-> body]
        BY <2>2, <2>4, <2>5, <3>1, <3>2, <3>3, <3>4 DEF DecryptJwePayload
      <4> QED BY <1>2, <2>8, <3>4, <4>1
    <3>5. CASE ~(otherKey = key /\ other = aad)
      <4>1. u = Refused
        BY <2>4, <3>1, <3>2, <3>5 DEF DecryptJwePayload
      <4> QED BY <1>2, <2>8, <3>5, <4>1 DEF Refused
    <3> QED BY <3>4, <3>5
  <2> QED BY <2>7, <2>8
<1> QED BY <1>1, <1>2

\* Every step keeps it: a message is wrapped once and opened once, after it.
LEMMA SealStep ==
  ASSUME SealInv, [Next]_vars
  PROVE  SealInv'
<1>1. ASSUME NEW body \in Bodies, NEW aad \in Aads, NEW key \in Keys,
             Seal(body, aad, key)
      PROVE  SealInv'
  <2>1. sent = None /\ opened = None
    BY <1>1 DEF SealInv, Seal
  <2>2. opened' = None
    BY <1>1, <2>1 DEF Seal
  <2>3. sent' = [body |-> sent'.body, aad |-> sent'.aad, key |-> sent'.key,
                 message |-> Wrap(sent'.body, sent'.aad, sent'.key,
                                  Opaque("iv", IvSize))]
    BY <1>1 DEF Seal
  <2> QED BY <2>2, <2>3 DEF SealInv
<1>2. ASSUME NEW aad \in Aads, NEW key \in Keys, Open(aad, key)
      PROVE  SealInv'
  <2>1. sent' = sent /\ sent # None /\ sent.message.ok
    BY <1>2 DEF Open
  <2>2. opened' = [aad |-> opened'.aad, key |-> opened'.key,
                   result |-> Unwrap(sent.message, opened'.aad, opened'.key)]
    BY <1>2 DEF Open
  <2> QED BY <2>1, <2>2 DEF SealInv
<1>3. ASSUME sent' = sent, opened' = opened PROVE SealInv'
  BY <1>3 DEF SealInv
<1>4. CASE UNCHANGED vars
  BY <1>3, <1>4 DEF vars
<1>5. ASSUME NEW f \in Files, ReadFile(f) PROVE SealInv'
  BY <1>3, <1>5 DEF ReadFile, messages
<1>6. ASSUME NEW host \in Hosts, NEW address \in Addresses,
             GenerateProfile(host, address)
      PROVE  SealInv'
  BY <1>3, <1>6 DEF GenerateProfile, messages
<1>7. CASE StartNbi \/ WriteJson \/ Suspend \/ ReadJson
  BY <1>3, <1>7 DEF StartNbi, WriteJson, Suspend, ReadJson, messages
<1>8. ASSUME NEW b \in Texts, Code(b) PROVE SealInv'
  BY <1>3, <1>8 DEF Code, messages
<1> QED
  BY <1>1, <1>2, <1>4, <1>5, <1>6, <1>7, <1>8 DEF Next

\* What two SEPPs make of a body, with any keys (build_reformatted_data
\* against handle_n32f_process_post and handle_nf_service_request_prins): one
\* that was not sealed gets across; one that was is opened by its own key and
\* additional data, is refused by others, and is handed on still sealed by a
\* receiver without a key.
THEOREM OpensAsSealedHolds == Spec => []OpensAsSealed
<1>1. Init => SealInv
  BY DEF Init, SealInv
<1>2. SealInv /\ [Next]_vars => SealInv'
  BY SealStep
<1>3. SealInv => OpensAsSealed
  <2> SUFFICES ASSUME SealInv, opened # None
               PROVE  OpensAsSealed
    BY DEF OpensAsSealed
  <2>1. /\ sent.message = Wrap(sent.body, sent.aad, sent.key,
                               Opaque("iv", IvSize))
        /\ sent.message.ok
        /\ opened.result = Unwrap(sent.message, opened.aad, opened.key)
    BY DEF SealInv
  <2> QED BY <2>1, UnwrapWrapped DEF OpensAsSealed
<1> QED BY <1>1, <1>2, <1>3, PTL DEF Spec
-----------------------------------------------------------------------------
(***************************************************************************)
(* The profile and its JSON.                                               *)
(***************************************************************************)
Fields == DOMAIN NewProfile
Plain == Scalars \ {"nfStatus", "priority", "capacity"}

\* The members of a profile that the model names.
LEMMA FieldNames ==
  Fields = {"nfInstanceId", "nfInstanceName", "nfType", "nfStatus",
            "heartBeatTimer", "snssais", "fqdn", "ipv4", "priority",
            "capacity", "services", "seppPrefix", "seppPorts",
            "remotePlmns", "purposes"}
BY DEF Fields, NewProfile

\* What a profile object is before anything is read into it.
LEMMA NewIsEmpty ==
  /\ NewProfile.fqdn = NoFqdn /\ NewProfile.ipv4 = <<>>
  /\ NewProfile.services = <<>> /\ NewProfile.remotePlmns = <<>>
BY DEF NewProfile

\* q is p after the part of from_json that both classes have.
CommonRead(q, p, j, R) ==
  /\ DOMAIN q = Fields
  /\ \A k \in Plain : q[k] = Member(j, k, p[k])
  /\ q["priority"] = Member(j, "priority", p["priority"]) % Width16
  /\ q["capacity"] = Member(j, "capacity", p["capacity"]) % Width16
  /\ q["ipv4"] = p["ipv4"] \o ReadAddresses(j, R)
  /\ \A k \in {"fqdn", "seppPrefix", "services", "remotePlmns"} :
       q[k] = p[k]

\* What that part makes of each member.
LEMMA ReadCommonFields ==
  ASSUME NEW p, DOMAIN p = Fields, NEW j, NEW R
  PROVE  CommonRead(ReadCommon(p, j, R), p, j, R)
<1> DEFINE q == ReadCommon(p, j, R)
<1> USE FieldNames
<1> DEFINE Value(k) ==
      CASE k \in {"priority", "capacity"} -> Member(j, k, p[k]) % Width16
        [] k \in Scalars \ {"priority", "capacity"} -> Member(j, k, p[k])
        [] k = "snssais" -> p.snssais \o Member(j, "snssais", <<>>)
        [] k = "ipv4" -> p.ipv4 \o ReadAddresses(j, R)
        [] OTHER -> p[k]
<1>1. q = [k \in Fields |-> Value(k)]
  BY DEF ReadCommon
<1>2. DOMAIN q = Fields /\ \A k \in Fields : q[k] = Value(k)
  <2> HIDE DEF Value
  <2> QED BY <1>1
<1>3. ASSUME NEW k \in Plain PROVE q[k] = Member(j, k, p[k])
  <2>1. k \in Fields /\ k \in Scalars \ {"priority", "capacity"}
    BY DEF Plain, Scalars
  <2>2. k \notin {"priority", "capacity", "snssais", "ipv4"}
    BY DEF Plain, Scalars
  <2> QED BY <1>2, <2>1, <2>2
<1>4. q["priority"] = Member(j, "priority", p["priority"]) % Width16
  BY <1>2
<1>5. q["capacity"] = Member(j, "capacity", p["capacity"]) % Width16
  BY <1>2
<1>6. q["ipv4"] = p["ipv4"] \o ReadAddresses(j, R)
  BY <1>2 DEF Scalars
<1>7. ASSUME NEW k \in {"fqdn", "seppPrefix", "services", "remotePlmns"}
      PROVE  q[k] = p[k]
  <2>1. k \in Fields /\ k \notin Scalars /\ k # "snssais" /\ k # "ipv4"
    BY DEF Scalars
  <2>2. k \notin {"priority", "capacity"}
    BY <1>7
  <2> QED BY <1>2, <2>1, <2>2
<1>8. CommonRead(q, p, j, R)
  <2> HIDE DEF q
  <2> QED BY <1>2, <1>3, <1>4, <1>5, <1>6, <1>7 DEF CommonRead
<1> QED BY <1>8

\* q is p after from_json of a SEPP.
JsonRead(q, p, j, R) ==
  /\ DOMAIN q = Fields
  /\ \A k \in Plain : q[k] = Member(j, k, p[k])
  /\ \A k \in {"priority", "capacity"} :
       q[k] = Member(j, k, Member(j, k, p[k]) % Width16) % Width16
  /\ q.ipv4 = (p.ipv4 \o ReadAddresses(j, R)) \o ReadAddresses(j, R)
  /\ q.fqdn = Member(j, "fqdn", p.fqdn)
  /\ q.seppPrefix = Member(j, "seppPrefix", p.seppPrefix)
  /\ q.services = p.services /\ q.remotePlmns = p.remotePlmns

\* What from_json of a SEPP makes of each member: both classes have read the
\* scalars and the addresses.
LEMMA FromJsonFields ==
  ASSUME NEW p, DOMAIN p = Fields, NEW j, NEW R
  PROVE  JsonRead(FromJson(p, j, R), p, j, R)
<1> USE FieldNames
<1> DEFINE r == ReadCommon(p, j, R)
           base == [r EXCEPT !["fqdn"] = Member(j, "fqdn", p.fqdn)]
           t == ReadCommon(base, j, R)
           q == [t EXCEPT !["seppPrefix"] =
                   Member(j, "seppPrefix", p.seppPrefix)]
<1>1. FromJson(p, j, R) = q
  BY DEF FromJson
<1>2. CommonRead(r, p, j, R)
  BY ReadCommonFields
<1>3. /\ DOMAIN base = Fields
      /\ base["fqdn"] = Member(j, "fqdn", p.fqdn)
      /\ \A k \in Fields \ {"fqdn"} : base[k] = r[k]
  <2> HIDE DEF r
  <2> QED BY <1>2 DEF CommonRead
<1>4. CommonRead(t, base, j, R)
  <2> HIDE DEF base
  <2> QED BY <1>3, ReadCommonFields
<1>5. /\ DOMAIN q = Fields
      /\ q["seppPrefix"] = Member(j, "seppPrefix", p.seppPrefix)
      /\ \A k \in Fields \ {"seppPrefix"} : q[k] = t[k]
  <2> HIDE DEF t
  <2> QED BY <1>4 DEF CommonRead
<1> HIDE DEF r, base, t, q
<1>6. ASSUME NEW k \in Plain PROVE q[k] = Member(j, k, p[k])
  <2>1. k \in Fields /\ k # "fqdn" /\ k # "seppPrefix"
    BY DEF Plain, Scalars
  <2>2. q[k] = Member(j, k, Member(j, k, p[k]))
    BY <1>2, <1>3, <1>4, <1>5, <2>1 DEF CommonRead
  <2> QED BY <2>2 DEF Member
<1>7. \A k \in {"priority", "capacity"} :
        q[k] = Member(j, k, Member(j, k, p[k]) % Width16) % Width16
  BY <1>2, <1>3, <1>4, <1>5 DEF CommonRead
<1>8. q.ipv4 = (p.ipv4 \o ReadAddresses(j, R)) \o ReadAddresses(j, R)
  BY <1>2, <1>3, <1>4, <1>5 DEF CommonRead
<1>9. q.fqdn = Member(j, "fqdn", p.fqdn)
  BY <1>3, <1>4, <1>5 DEF CommonRead
<1>10. q.services = p.services /\ q.remotePlmns = p.remotePlmns
  BY <1>2, <1>3, <1>4, <1>5 DEF CommonRead
<1> QED
  BY <1>1, <1>5, <1>6, <1>7, <1>8, <1>9, <1>10 DEF JsonRead

\* A profile that generate_sepp_profile made, whatever its status is now: one
\* address, which can be read, and numbers of 16 bits.
Generated(p) ==
  /\ DOMAIN p = Fields
  /\ p.nfType = "SEPP"
  /\ p.priority = 1 /\ p.capacity = 100
  /\ \E address \in Readable : p.ipv4 = <<address>>

\* The address of a profile.
OwnAddress(p) == p.ipv4[1]

\* The JSON is that of the profile, with the status it had when it was
\* written.
WrittenFrom(j, p) ==
  /\ DOMAIN j = {k \in Fields : k = "fqdn" => p.fqdn # NoFqdn}
  /\ \A k \in DOMAIN j \ {"nfStatus"} : j[k] = p[k]

ProfileInv ==
  /\ profile # NewProfile => Generated(profile)
  /\ json # None => profile # NewProfile /\ WrittenFrom(json, profile)

\* A profile object that has read JSON has what the profile has, and two of
\* its address for each read.
CopyInv ==
  /\ reads \in Nat
  /\ DOMAIN copy = Fields
  /\ copy.services = <<>> /\ copy.remotePlmns = <<>>
  /\ reads = 0 => copy = NewProfile
  /\ reads > 0 =>
       /\ profile # NewProfile /\ WrittenFrom(json, profile)
       /\ copy.fqdn = profile.fqdn
       /\ \A k \in (Scalars \ {"nfStatus"}) \cup {"seppPrefix"} :
            copy[k] = profile[k]
       /\ copy.ipv4 \in Seq({OwnAddress(profile)})
       /\ Len(copy.ipv4) = 2 * reads

\* What generate_sepp_profile makes.
LEMMA GenerateMakes ==
  ASSUME NEW id, NEW host, NEW address \in Addresses, NEW port
  PROVE  /\ Generated(Generate(id, host, address, port))
         /\ Generate(id, host, address, port) # NewProfile
<1>1. DOMAIN Generate(id, host, address, port) = Fields
  BY DEF Generate, Fields
<1>2. /\ Generate(id, host, address, port).nfType = "SEPP"
      /\ Generate(id, host, address, port).priority = 1
      /\ Generate(id, host, address, port).capacity = 100
      /\ Generate(id, host, address, port).ipv4 = <<address>>
  <2>1. {"nfType", "priority", "capacity", "ipv4"} \subseteq DOMAIN NewProfile
    BY FieldNames DEF Fields
  <2> QED BY <2>1 DEF Generate
<1>3. NewProfile.nfType = "NF_TYPE_UNKNOWN"
  BY DEF NewProfile
<1> QED BY <1>1, <1>2, <1>3, AddressesAssumption DEF Generated

\* The status does not change what a profile is otherwise.
LEMMA SuspendKeeps ==
  ASSUME NEW p, Generated(p), NEW q, q = HeartbeatTimeout(p)
  PROVE  /\ Generated(q) /\ q # NewProfile
         /\ \A k \in Fields \ {"nfStatus"} : q[k] = p[k]
<1> USE FieldNames
<1>1. /\ DOMAIN q = Fields
      /\ \A k \in Fields \ {"nfStatus"} : q[k] = p[k]
  BY DEF HeartbeatTimeout, Generated
<1>2. q.nfType = "SEPP" /\ q.priority = 1 /\ q.capacity = 100
      /\ q.ipv4 = p.ipv4
  BY <1>1 DEF Generated
<1>3. NewProfile.nfType = "NF_TYPE_UNKNOWN"
  BY DEF NewProfile
<1> QED BY <1>1, <1>2, <1>3 DEF Generated

\* What to_json writes.
LEMMA ToJsonWrites ==
  ASSUME NEW p, DOMAIN p = Fields
  PROVE  WrittenFrom(ToJson(p), p)
<1>1. CommonMembers(p) \cup
        {"services", "seppPrefix", "seppPorts", "remotePlmns", "purposes"}
      = {k \in Fields : k = "fqdn" => p.fqdn # NoFqdn}
  BY FieldNames DEF CommonMembers, Scalars
<1>2. ToJson(p) =
        [k \in {k \in Fields : k = "fqdn" => p.fqdn # NoFqdn} |-> p[k]]
  BY <1>1 DEF ToJson
<1> QED BY <1>2 DEF WrittenFrom

\* One read of the JSON of a profile.
LEMMA OneRead ==
  ASSUME NEW j, NEW p, NEW c, NEW n \in Nat, NEW d,
         Generated(p), WrittenFrom(j, p), DOMAIN c = Fields,
         d = FromJson(c, j, Readable),
         c.fqdn \in {NoFqdn, p.fqdn},
         c.ipv4 \in Seq({OwnAddress(p)}), Len(c.ipv4) = n
  PROVE  /\ DOMAIN d = Fields
         /\ d.services = c.services /\ d.remotePlmns = c.remotePlmns
         /\ d.fqdn = p.fqdn
         /\ \A k \in (Scalars \ {"nfStatus"}) \cup {"seppPrefix"} :
              d[k] = p[k]
         /\ d.ipv4 \in Seq({OwnAddress(p)})
         /\ Len(d.ipv4) = n + 2
<1> USE FieldNames
<1>1. /\ DOMAIN d = Fields
      /\ \A k \in Plain : d[k] = Member(j, k, c[k])
      /\ \A k \in {"priority", "capacity"} :
           d[k] = Member(j, k, Member(j, k, c[k]) % Width16) % Width16
      /\ d.ipv4 = (c.ipv4 \o ReadAddresses(j, Readable))
                    \o ReadAddresses(j, Readable)
      /\ d.fqdn = Member(j, "fqdn", c.fqdn)
      /\ d.seppPrefix = Member(j, "seppPrefix", c.seppPrefix)
      /\ d.services = c.services /\ d.remotePlmns = c.remotePlmns
  <2>1. JsonRead(d, c, j, Readable)
    BY FromJsonFields
  <2> QED BY ONLY <2>1 DEF JsonRead
<1>2. ASSUME NEW k \in Fields \ {"fqdn", "nfStatus"}, NEW v
      PROVE  Member(j, k, v) = p[k]
  BY DEF Member, WrittenFrom
<1>3. d.fqdn = p.fqdn
  <2>1. CASE p.fqdn = NoFqdn
    <3>1. "fqdn" \notin DOMAIN j
      BY <2>1 DEF WrittenFrom
    <3> QED BY <1>1, <2>1, <3>1 DEF Member
  <2>2. CASE p.fqdn # NoFqdn
    <3>1. "fqdn" \in DOMAIN j /\ j["fqdn"] = p["fqdn"]
      BY <2>2 DEF WrittenFrom
    <3> QED BY <1>1, <3>1 DEF Member
  <2> QED BY <2>1, <2>2
<1>4. ASSUME NEW k \in (Scalars \ {"nfStatus"}) \cup {"seppPrefix"}
      PROVE  d[k] = p[k]
  <2>1. CASE k \in Plain
    <3>1. k \in Fields \ {"fqdn", "nfStatus"}
      BY <2>1 DEF Plain, Scalars
    <3> QED BY <1>1, <1>2, <2>1, <3>1
  <2>2. CASE k = "seppPrefix"
    BY <1>1, <1>2, <2>2
  <2>3. CASE k = "priority"
    <3>1. d["priority"] = p["priority"] % Width16
      BY <1>1, <1>2
    <3> QED BY <2>3, <3>1 DEF Generated, Width16
  <2>4. CASE k = "capacity"
    <3>1. d["capacity"] = p["capacity"] % Width16
      BY <1>1, <1>2
    <3> QED BY <2>4, <3>1 DEF Generated, Width16
  <2> QED BY <2>1, <2>2, <2>3, <2>4 DEF Plain
<1>5. ReadAddresses(j, Readable) = <<OwnAddress(p)>>
  <2>1. PICK address \in Readable : p.ipv4 = <<address>>
    BY DEF Generated
  <2>2. Member(j, "ipv4", <<>>) = p.ipv4
    BY <1>2
  <2>3. ReadAddresses(j, Readable) =
          [i \in DOMAIN p.ipv4 |->
             IF p.ipv4[i] \in Readable THEN p.ipv4[i] ELSE AnyAddress]
    BY <2>2 DEF ReadAddresses
  <2>4. DOMAIN p.ipv4 = 1 .. 1 /\ p.ipv4[1] = address
    BY <2>1
  <2>5. ReadAddresses(j, Readable) = [i \in 1 .. 1 |-> OwnAddress(p)]
    BY <2>3, <2>4 DEF OwnAddress
  <2> QED BY <2>5
<1>6. d.ipv4 \in Seq({OwnAddress(p)}) /\ Len(d.ipv4) = n + 2
  <2> DEFINE a == OwnAddress(p)
  <2> HIDE DEF a
  <2>1. c.ipv4 \o <<a>> \in Seq({a}) /\ Len(c.ipv4 \o <<a>>) = n + 1
    BY DEF a
  <2>2. /\ (c.ipv4 \o <<a>>) \o <<a>> \in Seq({a})
        /\ Len((c.ipv4 \o <<a>>) \o <<a>>) = n + 2
    BY <2>1
  <2> QED BY <1>1, <1>5, <2>2 DEF a
<1> QED BY <1>1, <1>3, <1>4, <1>6

\* Every step keeps both: a profile is made once and only its status changes,
\* so that any JSON of it reads back as the others do.
LEMMA ProfileStep ==
  ASSUME ProfileInv, CopyInv, [Next]_vars
  PROVE  ProfileInv' /\ CopyInv'
<1>1. ASSUME profile' = profile, json' = json, copy' = copy, reads' = reads
      PROVE  ProfileInv' /\ CopyInv'
  <2>1. ProfileInv'
    BY <1>1 DEF ProfileInv
  <2>2. CopyInv'
    BY <1>1 DEF CopyInv, OwnAddress
  <2> QED BY <2>1, <2>2
<1>2. ASSUME NEW host \in Hosts, NEW address \in Addresses,
             GenerateProfile(host, address)
      PROVE  ProfileInv' /\ CopyInv'
  <2>1. /\ profile = NewProfile
        /\ profile' = Generate("uuid", host, address, 8080)
        /\ json' = json /\ copy' = copy /\ reads' = reads
    BY <1>2 DEF GenerateProfile
  <2>2. json = None
    BY <2>1 DEF ProfileInv
  <2>3. ~(reads > 0)
    BY <2>1 DEF CopyInv
  <2>4. Generated(profile') /\ profile' # NewProfile
    BY <2>1, GenerateMakes
  <2>5. ProfileInv'
    BY <2>1, <2>2, <2>4 DEF ProfileInv
  <2>6. CopyInv'
    BY <2>1, <2>3 DEF CopyInv
  <2> QED BY <2>5, <2>6
<1>3. ASSUME WriteJson PROVE ProfileInv' /\ CopyInv'
  <2>1. /\ profile # NewProfile
        /\ json' = ToJson(profile)
        /\ profile' = profile /\ copy' = copy /\ reads' = reads
    BY <1>3 DEF WriteJson
  <2>2. Generated(profile)
    BY <2>1 DEF ProfileInv
  <2>3. WrittenFrom(json', profile')
    BY <2>1, <2>2, ToJsonWrites DEF Generated
  <2>4. ProfileInv'
    BY <2>1, <2>2, <2>3 DEF ProfileInv
  <2>5. CopyInv'
    BY <2>1, <2>3 DEF CopyInv, OwnAddress
  <2> QED BY <2>4, <2>5
<1>4. ASSUME Suspend PROVE ProfileInv' /\ CopyInv'
  <2>1. /\ profile # NewProfile
        /\ profile' = HeartbeatTimeout(profile)
        /\ json' = json /\ copy' = copy /\ reads' = reads
    BY <1>4 DEF Suspend
  <2>2. Generated(profile)
    BY <2>1 DEF ProfileInv
  <2>3. /\ Generated(profile') /\ profile' # NewProfile
        /\ \A k \in Fields \ {"nfStatus"} : profile'[k] = profile[k]
    BY <2>1, <2>2, SuspendKeeps
  <2>4. /\ profile'.fqdn = profile.fqdn
        /\ profile'.ipv4 = profile.ipv4
        /\ \A k \in (Scalars \ {"nfStatus"}) \cup {"seppPrefix"} :
             profile'[k] = profile[k]
    BY <2>3, FieldNames DEF Scalars
  <2>5. WrittenFrom(json, profile) => WrittenFrom(json, profile')
    BY <2>3, <2>4 DEF WrittenFrom
  <2>6. ProfileInv'
    BY <2>1, <2>3, <2>5 DEF ProfileInv
  <2>7. CopyInv'
    BY <2>1, <2>3, <2>4, <2>5 DEF CopyInv, OwnAddress
  <2> QED BY <2>6, <2>7
<1>5. ASSUME ReadJson PROVE ProfileInv' /\ CopyInv'
  <2>1. /\ json # None
        /\ copy' = FromJson(copy, json, Readable)
        /\ reads' = reads + 1
        /\ profile' = profile /\ json' = json
    BY <1>5 DEF ReadJson
  <2>2. Generated(profile) /\ WrittenFrom(json, profile)
    BY <2>1 DEF ProfileInv
  <2>3. /\ DOMAIN copy = Fields
        /\ copy.services = <<>> /\ copy.remotePlmns = <<>>
        /\ reads \in Nat
    BY DEF CopyInv
  <2>4. /\ copy.fqdn \in {NoFqdn, profile.fqdn}
        /\ copy.ipv4 \in Seq({OwnAddress(profile)})
        /\ Len(copy.ipv4) = 2 * reads
    <3>1. CASE reads = 0
      <4>1. copy.fqdn = NoFqdn /\ copy.ipv4 = <<>>
        BY <3>1, NewIsEmpty DEF CopyInv
      <4> QED BY <3>1, <4>1
    <3>2. CASE reads > 0
      BY <3>2 DEF CopyInv
    <3> QED BY <2>3, <3>1, <3>2
  <2>5. /\ DOMAIN copy' = Fields
        /\ copy'.services = copy.services
        /\ copy'.remotePlmns = copy.remotePlmns
        /\ copy'.fqdn = profile.fqdn
        /\ \A k \in (Scalars \ {"nfStatus"}) \cup {"seppPrefix"} :
             copy'[k] = profile[k]
        /\ copy'.ipv4 \in Seq({OwnAddress(profile)})
        /\ Len(copy'.ipv4) = 2 * reads + 2
    <3>1. 2 * reads \in Nat
      BY <2>3
    <3> QED BY ONLY <2>1, <2>2, <2>3, <2>4, <3>1, OneRead
  <2>6. ProfileInv'
    BY <2>1 DEF ProfileInv
  <2>7. OwnAddress(profile)' = OwnAddress(profile)
    BY <2>1 DEF OwnAddress
  <2>8. 2 * reads + 2 = 2 * reads' /\ reads' \in Nat /\ reads' # 0
    BY <2>1, <2>3
  <2>9. profile # NewProfile
    BY <2>1 DEF ProfileInv
  <2>10. CopyInv'
    BY <2>1, <2>2, <2>3, <2>5, <2>7, <2>8, <2>9 DEF CopyInv
  <2> QED BY <2>6, <2>10
<1>6. CASE UNCHANGED vars
  BY <1>1, <1>6 DEF vars
<1>7. ASSUME NEW f \in Files, ReadFile(f) PROVE ProfileInv' /\ CopyInv'
  BY <1>1, <1>7 DEF ReadFile
<1>8. CASE StartNbi
  BY <1>1, <1>8 DEF StartNbi
<1>9. ASSUME NEW b \in Texts, Code(b) PROVE ProfileInv' /\ CopyInv'
  BY <1>1, <1>9 DEF Code, startup
<1>10. ASSUME NEW body \in Bodies, NEW aad \in Aads, NEW key \in Keys,
              Seal(body, aad, key)
       PROVE  ProfileInv' /\ CopyInv'
  BY <1>1, <1>10 DEF Seal, startup
<1>11. ASSUME NEW aad \in Aads, NEW key \in Keys, Open(aad, key)
       PROVE  ProfileInv' /\ CopyInv'
  BY <1>1, <1>11 DEF Open, startup
<1> QED
  BY <1>2, <1>3, <1>4, <1>5, <1>6, <1>7, <1>8, <1>9, <1>10, <1>11 DEF Next

\* A profile object that has read the JSON of a profile, any number of times
\* (from_json of sepp_profile and of nf_profile), has its scalars, its FQDN
\* and its address, twice for each read, and no list that is not read.
THEOREM ReadBackSameHolds == Spec => []ReadBackSame
<1>1. Init => ProfileInv /\ CopyInv
  BY NewIsEmpty DEF Init, ProfileInv, CopyInv, Fields
<1>2. ProfileInv /\ CopyInv /\ [Next]_vars => ProfileInv' /\ CopyInv'
  BY ProfileStep
<1>3. ProfileInv /\ CopyInv => ReadBackSame
  <2> SUFFICES ASSUME ProfileInv, CopyInv, reads > 0
               PROVE  ReadBackSame
    BY DEF ReadBackSame
  <2>1. Generated(profile) /\ WrittenFrom(json, profile)
    BY DEF ProfileInv, CopyInv
  <2>2. copy.fqdn = Member(json, "fqdn", NoFqdn)
    <3>1. "fqdn" \in DOMAIN json <=> profile.fqdn # NoFqdn
      BY <2>1, FieldNames DEF WrittenFrom
    <3>2. "fqdn" \in DOMAIN json => json["fqdn"] = profile.fqdn
      BY <2>1 DEF WrittenFrom
    <3> QED BY <3>1, <3>2 DEF CopyInv, Member
  <2>3. PICK address \in Readable : profile.ipv4 = <<address>>
    BY <2>1 DEF Generated
  <2>4. /\ DOMAIN profile.ipv4 = 1 .. 1
        /\ profile.ipv4[1] = address
        /\ Len(profile.ipv4) = 1
    BY <2>3
  <2>5. {profile.ipv4[i] : i \in DOMAIN profile.ipv4} = {address}
    BY <2>4
  <2>6. {profile.ipv4[i] : i \in DOMAIN profile.ipv4} = {OwnAddress(profile)}
    BY <2>4, <2>5 DEF OwnAddress
  <2>7. /\ copy.ipv4 \in Seq({OwnAddress(profile)})
        /\ Len(copy.ipv4) = 2 * reads
        /\ reads \in Nat
    BY DEF CopyInv
  <2>8. {copy.ipv4[i] : i \in DOMAIN copy.ipv4} = {OwnAddress(profile)}
    <3>1. 1 \in DOMAIN copy.ipv4
      BY <2>7
    <3>2. \A i \in DOMAIN copy.ipv4 : copy.ipv4[i] = OwnAddress(profile)
      BY <2>7
    <3> QED BY <3>1, <3>2
  <2>9. Len(copy.ipv4) = 2 * reads * Len(profile.ipv4)
    BY <2>4, <2>7
  <2>10. /\ \A k \in (Scalars \ {"nfStatus"}) \cup {"seppPrefix"} :
              copy[k] = profile[k]
         /\ copy.services = <<>> /\ copy.remotePlmns = <<>>
    BY DEF CopyInv
  <2> QED BY <2>2, <2>6, <2>8, <2>9, <2>10 DEF ReadBackSame
<1> QED BY <1>1, <1>2, <1>3, PTL DEF Spec
-----------------------------------------------------------------------------
(***************************************************************************)
(* Types.                                                                  *)
(***************************************************************************)
Configurations ==
  [role : {"c-sepp", "p-sepp"}, role_enum : {"C_SEPP", "P_SEPP"},
   security : {"PRINS", "TLS"}, disable_tls : BOOLEAN,
   private_key : {None, "key"}, cert : {None, "crt"}, cacert : {None, "ca"}]

\* A node that is missing gets a value of the type of those that are not: a
\* role that is neither of the two does not leave read_from_file.
LEMMA ConfigurationTypes ==
  ASSUME NEW f \in Files
  PROVE  /\ ReadFromFile(f).thrown \in BOOLEAN
         /\ ReadFromFile(f).config \in Configurations
<1>1. Default \in Configurations
  BY DEF Default, Configurations
<1>2. f.role # "ipx" => ReadSection(f) \in Configurations
  <2> SUFFICES ASSUME f.role # "ipx"
               PROVE  ReadSection(f) \in Configurations
    OBVIOUS
  <2> DEFINE c == ReadSection(f)
             tls == ~Or(f.disable_tls, Default.disable_tls)
  <2>1. tls \in BOOLEAN
    BY DEF Or, Default
  <2>2. /\ Or(f.role, Default.role) \in {"c-sepp", "p-sepp"}
        /\ Or(f.security, Default.security) \in {"PRINS", "TLS"}
    BY DEF Files, Or, Default
  <2>3. RoleEnum(f.role) \in {"C_SEPP", "P_SEPP"}
    BY DEF RoleEnum
  <2>4. /\ f.private_key \in {None, "key"} /\ f.cert \in {None, "crt"}
        /\ f.cacert \in {None, "ca"}
    BY DEF Files
  <2>5. c = [role |-> Or(f.role, Default.role),
             role_enum |-> RoleEnum(f.role),
             security |-> Or(f.security, Default.security),
             disable_tls |-> ~tls,
             private_key |-> IF tls THEN f.private_key ELSE None,
             cert |-> IF tls THEN f.cert ELSE None,
             cacert |-> IF tls THEN f.cacert ELSE None]
    BY DEF ReadSection
  <2> HIDE DEF c, tls
  <2>6. c \in Configurations
    BY ONLY <2>1, <2>2, <2>3, <2>4, <2>5 DEF Configurations
  <2> QED BY <2>6 DEF c
<1>3. CASE ~f.yaml \/ (f.section /\ f.role = "ipx")
  BY ONLY <1>1, <1>3 DEF ReadFromFile
<1>4. CASE ~(~f.yaml \/ (f.section /\ f.role = "ipx"))
  <2>1. /\ ReadFromFile(f).thrown = FALSE
        /\ ReadFromFile(f).config =
             IF f.section THEN ReadSection(f) ELSE Default
    BY ONLY <1>4 DEF ReadFromFile
  <2>2. f.section => f.role # "ipx"
    BY ONLY <1>4
  <2> QED BY ONLY <1>1, <1>2, <2>1, <2>2
<1> QED BY ONLY <1>3, <1>4

\* A body is handed over or it is not.
LEMMA UnwrapType ==
  ASSUME NEW m, NEW aad, NEW key
  PROVE  Unwrap(m, aad, key).ok \in BOOLEAN
<1>1. DecryptJwePayload(m, aad, key).ok \in BOOLEAN
  BY DEF DecryptJwePayload, Refused
<1> QED BY <1>1 DEF Unwrap

\* The subject of a behaviour stays, and one profile object is read into as
\* often as the bound allows.
CountInv ==
  /\ subject \in {"start", "text", "message"}
  /\ reads \in 0 .. MaxReads

\* Every step keeps it.
LEMMA CountStep ==
  ASSUME CountInv, [Next]_vars
  PROVE  CountInv'
<1>1. ASSUME UNCHANGED <<subject, reads>> PROVE CountInv'
  BY <1>1 DEF CountInv
<1>2. CASE ReadJson
  BY <1>2, MaxReadsAssumption DEF CountInv, ReadJson
<1>3. CASE UNCHANGED vars
  BY <1>1, <1>3 DEF vars
<1>4. ASSUME NEW f \in Files, ReadFile(f) PROVE CountInv'
  BY <1>1, <1>4 DEF ReadFile
<1>5. ASSUME NEW host \in Hosts, NEW address \in Addresses,
             GenerateProfile(host, address)
      PROVE  CountInv'
  BY <1>1, <1>5 DEF GenerateProfile
<1>6. CASE StartNbi \/ WriteJson \/ Suspend
  BY <1>1, <1>6 DEF StartNbi, WriteJson, Suspend
<1>7. ASSUME NEW b \in Texts, Code(b) PROVE CountInv'
  BY <1>1, <1>7 DEF Code, startup
<1>8. ASSUME NEW body \in Bodies, NEW aad \in Aads, NEW key \in Keys,
             Seal(body, aad, key)
      PROVE  CountInv'
  BY <1>1, <1>8 DEF Seal, startup
<1>9. ASSUME NEW aad \in Aads, NEW key \in Keys, Open(aad, key)
      PROVE  CountInv'
  BY <1>1, <1>9 DEF Open, startup
<1> QED
  BY <1>2, <1>3, <1>4, <1>5, <1>6, <1>7, <1>8, <1>9 DEF Next

\* What is read of any file, the profile and what JSON is read into, the
\* characters of any text and what is opened have their types in every state.
THEOREM TypeCorrect == Spec => []TypeOK
<1>1. Init => CountInv /\ StartInv /\ SealInv /\ ProfileInv /\ CopyInv
  <2> SUFFICES ASSUME Init
               PROVE  CountInv /\ StartInv /\ SealInv /\ ProfileInv /\ CopyInv
    OBVIOUS
  <2>1. CountInv /\ StartInv /\ SealInv
    BY MaxReadsAssumption DEF Init, CountInv, StartInv, SealInv
  <2>2. ProfileInv /\ CopyInv
    BY NewIsEmpty DEF Init, ProfileInv, CopyInv, Fields
  <2> QED BY <2>1, <2>2
<1>2. /\ CountInv /\ StartInv /\ SealInv /\ ProfileInv /\ CopyInv
      /\ [Next]_vars
      => (CountInv /\ StartInv /\ SealInv /\ ProfileInv /\ CopyInv)'
  BY CountStep, StartStep, SealStep, ProfileStep
<1>3. /\ CountInv /\ StartInv /\ SealInv /\ ProfileInv /\ CopyInv /\ TextInv
      => TypeOK
  <2> SUFFICES ASSUME CountInv, StartInv, SealInv, ProfileInv, CopyInv,
                      TextInv
               PROVE  TypeOK
    OBVIOUS
  <2>1. subject \in {"start", "text", "message"} /\ reads \in 0 .. MaxReads
    BY DEF CountInv
  <2>2. read # None =>
          read.thrown \in BOOLEAN /\ read.config \in Configurations
    BY ONLY StartInv, ConfigurationTypes DEF StartInv
  <2>3. DOMAIN copy = DOMAIN NewProfile /\ DOMAIN profile = DOMAIN NewProfile
    BY ONLY ProfileInv, CopyInv DEF ProfileInv, CopyInv, Generated, Fields
  <2>4. text # None => text \in Seq(Byte) /\ coded \in Seq(Char)
    <3> SUFFICES ASSUME text # None
                 PROVE  text \in Seq(Byte) /\ coded \in Seq(Char)
      OBVIOUS
    <3>1. text \in Seq(Byte) /\ coded = Base64urlEncode(text)
      BY TextsAssumption DEF TextInv
    <3> QED BY ONLY <3>1, EncodedChars
  <2>5. opened # None => opened.result.ok \in BOOLEAN
    <3> SUFFICES ASSUME opened # None
                 PROVE  opened.result.ok \in BOOLEAN
      OBVIOUS
    <3>1. opened.result = Unwrap(sent.message, opened.aad, opened.key)
      BY ONLY SealInv, opened # None DEF SealInv
    <3> QED BY ONLY <3>1, UnwrapType
  <2> QED
    BY ONLY <2>1, <2>2, <2>3, <2>4, <2>5 DEF TypeOK, Configurations
<1> QED BY <1>1, <1>2, <1>3, TextInvariant, PTL DEF Spec
=============================================================================
