------------------------------ MODULE SeppData ------------------------------
(***************************************************************************)
(* The data a SEPP converts: its configuration file and what the NBI       *)
(* server and the registration make of it, the profile as JSON, and the    *)
(* encodings of N32-f messages.  The conversions are the operators of      *)
(* SeppConfig, NfProfile and Jose; here they are called in the order of    *)
(* the program, one subject at a time.                                     *)
(***************************************************************************)
EXTENDS SeppConfig, NfProfile, Jose

CONSTANTS
  Hosts,      \* host names of the SBI interface; NoFqdn is the empty one
  Addresses,  \* its IPv4 addresses
  Readable,   \* those that inet_pton reads
  Texts,      \* byte sequences that are coded
  Keys,       \* content keys; m_enc_key is Absent unless somebody sets it
  Bodies,     \* bodies of requests and answers
  Aads,       \* additional data
  MaxReads    \* bound: how often one profile object reads JSON

ASSUME TextsAssumption == Texts \subseteq Seq(Byte)
ASSUME MaxReadsAssumption == MaxReads \in Nat

\* The address of the interface is an in_addr, which inet_ntoa writes.
ASSUME AddressesAssumption == Addresses \subseteq Readable

VARIABLES
  subject,  \* what this behaviour is about: the start, a text or a message
  read,     \* what reading the configuration ended with
  nbi,      \* how the NBI server started
  profile,  \* m_nf_instance_profile
  json,     \* the JSON last written
  copy,     \* a profile object JSON is read into
  reads,    \* how often it was
  text,     \* bytes
  coded,    \* the characters they are coded in
  sent,     \* a message as it was wrapped, with what it was wrapped from
  opened    \* what the receiver made of it, and with what

vars == <<subject, read, nbi, profile, json, copy, reads, text, coded, sent,
          opened>>
startup == <<read, nbi, profile, json, copy, reads>>
texts == <<text, coded>>
messages == <<sent, opened>>

Init ==
  /\ subject \in {"start", "text", "message"}
  /\ read = None /\ nbi = None
  /\ profile = NewProfile /\ json = None
  /\ copy = NewProfile /\ reads = 0
  /\ text = None /\ coded = None
  /\ sent = None /\ opened = None

Running == read # None /\ ~read.thrown

\* main: the configuration is the first object that is made.
ReadFile(f) ==
  /\ subject = "start" /\ read = None
  /\ read' = ReadFromFile(f)
  /\ UNCHANGED <<subject, nbi, profile, json, copy, reads, texts, messages>>

\* The N32 thread starts the NBI server, the constructor of sepp_nrf makes the
\* profile: both read the configuration.
StartNbi ==
  /\ Running /\ nbi = None
  /\ nbi' = NbiStart(read.config)
  /\ UNCHANGED <<subject, read, profile, json, copy, reads, texts, messages>>

GenerateProfile(host, address) ==
  /\ Running /\ profile = NewProfile
  /\ profile' = Generate("uuid", host, address, 8080)
  /\ UNCHANGED <<subject, read, nbi, json, copy, reads, texts, messages>>

\* register_to_nrf writes the profile.
WriteJson ==
  /\ profile # NewProfile
  /\ json' = ToJson(profile)
  /\ UNCHANGED <<subject, read, nbi, profile, copy, reads, texts, messages>>

\* The operations of the profile that the program has and does not call.
Suspend ==
  /\ profile # NewProfile
  /\ profile' = HeartbeatTimeout(profile)
  /\ UNCHANGED <<subject, read, nbi, json, copy, reads, texts, messages>>

ReadJson ==
  /\ json # None /\ reads < MaxReads
  /\ copy' = FromJson(copy, json, Readable)
  /\ reads' = reads + 1
  /\ UNCHANGED <<subject, read, nbi, profile, json, texts, messages>>

Code(b) ==
  /\ subject = "text" /\ text = None
  /\ text' = b
  /\ coded' = Base64urlEncode(b)
  /\ UNCHANGED <<subject, startup, messages>>

\* One SEPP wraps a body ...
Seal(body, aad, key) ==
  /\ subject = "message" /\ sent = None
  /\ sent' = [body |-> body, aad |-> aad, key |-> key,
              message |-> Wrap(body, aad, key, Opaque("iv", IvSize))]
  /\ UNCHANGED <<subject, opened, startup, texts>>

\* ... and the other unwraps it, with the key it has and the additional data
\* that came with the message, if it could be wrapped at all.
Open(aad, key) ==
  /\ sent # None /\ opened = None
  /\ sent.message.ok
  /\ opened' = [aad |-> aad, key |-> key,
                result |-> Unwrap(sent.message, aad, key)]
  /\ UNCHANGED <<subject, sent, startup, texts>>

Next ==
  \/ \E f \in Files : ReadFile(f)
  \/ StartNbi \/ WriteJson \/ Suspend \/ ReadJson
  \/ \E host \in Hosts, address \in Addresses : GenerateProfile(host, address)
  \/ \E b \in Texts : Code(b)
  \/ \E aad \in Aads, key \in Keys :
       \/ \E body \in Bodies : Seal(body, aad, key)
       \/ Open(aad, key)

Spec == Init /\ [][Next]_vars
-----------------------------------------------------------------------------
TypeOK ==
  /\ subject \in {"start", "text", "message"}
  /\ read # None => read.thrown \in BOOLEAN /\ read.config \in
       [role : {"c-sepp", "p-sepp"}, role_enum : {"C_SEPP", "P_SEPP"},
        security : {"PRINS", "TLS"}, disable_tls : BOOLEAN,
        private_key : {None, "key"}, cert : {None, "crt"},
        cacert : {None, "ca"}]
  /\ DOMAIN copy = DOMAIN NewProfile /\ DOMAIN profile = DOMAIN NewProfile
  /\ reads \in 0 .. MaxReads
  /\ text # None => text \in Seq(Byte) /\ coded \in Seq(Char)
  /\ opened # None => opened.result.ok \in BOOLEAN

\* A "sepp" section that is read without the warning about paths lets the NBI
\* server listen, and one that is read with it does not: read_from_file and
\* start of the server ask for the same paths under the same condition.  The
\* role it goes by is the one that is written.
NbiListensUnlessWarned ==
  Running =>
    /\ read.config.role_enum = "P_SEPP" <=> read.config.role = "p-sepp"
    /\ read.warned => nbi = None \/ ~nbi.listens
    /\ nbi # None /\ ~nbi.listens => read.warned \/ read.config = Default

\* A profile object that has read the JSON of a profile has every scalar of
\* it, the FQDN and the addresses, and none of the lists that are not read.
\* from_json runs twice over the addresses, in sepp_profile and in nf_profile:
\* each read adds two of each.
ReadBackSame ==
  reads > 0 =>
    LET addresses(p) == {p.ipv4[i] : i \in DOMAIN p.ipv4} IN
    /\ copy.fqdn = Member(json, "fqdn", NoFqdn)
    /\ \A k \in (Scalars \ {"nfStatus"}) \cup {"seppPrefix"} :
         copy[k] = profile[k]
    /\ addresses(copy) = addresses(profile)
    /\ Len(copy.ipv4) = 2 * reads * Len(profile.ipv4)
    /\ copy.services = <<>> /\ copy.remotePlmns = <<>>

\* base64url as RFC 4648 defines it: the bits of the bytes in groups of six,
\* the last one filled up with zeros, in the URL-safe alphabet.
BitWeight == <<128, 64, 32, 16, 8, 4, 2, 1>>
Bit(b, n) ==
  IF n > 8 * Len(b) THEN 0
  ELSE (b[((n - 1) \div 8) + 1] \div BitWeight[((n - 1) % 8) + 1]) % 2
Sextet(b, k) ==
  LET n == 6 * (k - 1) IN
  32 * Bit(b, n + 1) + 16 * Bit(b, n + 2) + 8 * Bit(b, n + 3)
    + 4 * Bit(b, n + 4) + 2 * Bit(b, n + 5) + Bit(b, n + 6)
UrlSafe(n) ==
  CASE n = Plus -> Minus [] n = Slash -> Underscore [] OTHER -> n

\* base64url_encode, which goes through OpenSSL's base64 and changes it
\* afterwards, gives just that.
EncodesAsBase64url ==
  text # None =>
    coded = [k \in 1 .. (8 * Len(text) + 5) \div 6 |-> UrlSafe(Sextet(text, k))]

\* base64url_decode gives back every text, whatever its length: AAD, body,
\* header and the parts of an encrypted body come out as they went in.
DecodesBack == text # None => Base64urlDecode(coded) = text

\* Wrapping and unwrapping (build_reformatted_data against
\* handle_n32f_process_post and handle_nf_service_request_prins), though each
\* side decides by itself whether a body is encrypted.  What was wrapped
\* without a key gets across as it is, whatever the receiver has.  What was
\* sealed is opened by the same key with the same additional data and is
\* refused otherwise; but a receiver without a key takes it for the body.
OpensAsSealed ==
  opened # None =>
    LET result == opened.result IN
    IF Empty(sent.body) \/ Empty(sent.key)
    THEN result.ok /\ result.text = sent.body
    ELSE IF Empty(opened.key)
    THEN result.ok /\ result.text = sent.message.ciphertext
    ELSE /\ result.ok <=> opened.key = sent.key /\ opened.aad = sent.aad
         /\ result.ok => result.text = sent.body
=============================================================================
