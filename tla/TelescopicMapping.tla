-------------------------- MODULE TelescopicMapping --------------------------
(***************************************************************************)
(* The telescopic FQDN mapping (sepp_telescopic_fqdn_mapping.cpp in        *)
(* src/src/sepp_app) and the route of the SBI server that offers it        *)
(* (/nsepp-telescopic/v1/mapping, sepp-http2-sbi-server.cpp).              *)
(*                                                                         *)
(* An NF asks for the label that stands for an NF of a roaming partner, or *)
(* for the FQDN a label stands for.  The MNC of a PLMN has two or three    *)
(* digits and is written with three in an FQDN; labels and FQDNs carry it  *)
(* in either form, and a PLMN id is its digits run together.  Digits are   *)
(* therefore sequences; of the rest of an FQDN or a label only the parts   *)
(* the parser looks for are kept.                                          *)
(***************************************************************************)
EXTENDS Naturals, Sequences

CONSTANTS
  None,      \* a parameter or a field that is absent
  Partners,  \* m_roaming_partners: records of mcc and mnc, as configured
  Queries    \* the requests of the NFs that are considered

\* A configured MCC has three digits, an MNC two or three.
ASSUME PartnersAssumption ==
  \A p \in Partners :
    /\ p.mcc \in Seq(0 .. 9) /\ Len(p.mcc) = 3
    /\ p.mnc \in Seq(0 .. 9) /\ Len(p.mnc) \in {2, 3}

VARIABLES
  mapper,    \* sepp_app made its mapping object, as it does with register_nf
  app,       \* sepp_app_inst is set
  query,     \* the last request that was answered
  mapping,   \* what the application made of it
  answer,    \* what the route answered
  origin     \* ghost: the FQDN the last label was asked for

vars == <<mapper, app, query, mapping, answer, origin>>

AllowedNfs == {"nrf", "ausf", "smf", "amf", "udm", "pcf", "nssf"}
SeppDomain == "sepp.5gc.mnc001.mcc001.3gppnetwork.org"

\* The parts of an FQDN that parse_fqdn looks for.
FqdnParts == {".5gc.", ".mcc", ".3gppnetwork.org"}

Digits(lengths) == {d \in Seq(0 .. 9) : Len(d) \in lengths}

\* Labels and FQDNs the application makes have all their digits; what an NF
\* sends, and the server returns, need not.
Labels(lengths) ==
  [nf : STRING, plmn : Digits(lengths), keyword : BOOLEAN]
Fqdns(mcc, mnc) ==
  [nf : STRING, mcc : Digits(mcc), mnc : Digits(mnc),
   lacks : SUBSET FqdnParts]

\* An NF sends any digits at all, and may leave out a parameter.
ASSUME QueriesAssumption ==
  \A q \in Queries :
    /\ q.fqdn = None \/ q.fqdn \in Fqdns(Nat, Nat)
    /\ q.label = None \/ q.label \in Labels(Nat)

Fqdn(nf, mcc, mnc) == [nf |-> nf, mcc |-> mcc, mnc |-> mnc, lacks |-> {}]

NotFound == [found |-> FALSE, label |-> None, fqdn |-> None,
             domain |-> None]

\* An MNC as an FQDN writes it.
Padded(mnc) == IF Len(mnc) = 2 THEN <<0>> \o mnc ELSE mnc

\* Variant: a PLMN is known by its MCC.
IsKnownCountry(id) == \E p \in Partners : SubSeq(id, 1, 3) = p.mcc

\* is_roaming_partner
IsRoamingPartner(id) ==
  \E p \in Partners : id \in {p.mcc \o p.mnc, p.mcc \o Padded(p.mnc)}

\* parse_fqdn: the parts have to be there, and digits before the suffix.  The
\* letters in front of the MNC are only counted.
Parses(f) == f.lacks = {} /\ f.mcc # <<>>
PlmnId(f) == f.mcc \o f.mnc

\* generate_telescopic_label
Label(nf, id) == [nf |-> nf, plmn |-> id, keyword |-> TRUE]

\* fqdn_to_mapping: label and domain are set, the foreign FQDN is not.
FqdnToMapping(f) ==
  IF Parses(f) /\ f.nf \in AllowedNfs /\ IsRoamingPartner(PlmnId(f))
  THEN [found |-> TRUE, label |-> Label(f.nf, PlmnId(f)), fqdn |-> None,
        domain |-> SeppDomain]
  ELSE NotFound

\* Variants: the MNC is not filled up, or changes places with the MCC.
UnpaddedFqdnOf(nf, id) ==
  Fqdn(nf, SubSeq(id, 1, 3), SubSeq(id, 4, Len(id)))
SwappedFqdnOf(nf, id) ==
  Fqdn(nf, SubSeq(id, Len(id) - 2, Len(id)),
       Padded(SubSeq(id, 1, Len(id) - 3)))

\* The FQDN a label is resolved to: the first three digits are the MCC.
FqdnOf(nf, id) ==
  Fqdn(nf, SubSeq(id, 1, 3), Padded(SubSeq(id, 4, Len(id))))

\* mapping_to_fqdn
MappingToFqdn(l) ==
  IF l.keyword /\ l.nf \in AllowedNfs /\ IsRoamingPartner(l.plmn)
  THEN [found |-> TRUE, label |-> l, fqdn |-> FqdnOf(l.nf, l.plmn),
        domain |-> SeppDomain]
  ELSE NotFound

\* get_telescopic_mapping of the mapping object: exactly one is given.
GetTelescopicMapping(fqdn, label) ==
  CASE fqdn # None /\ label = None -> FqdnToMapping(fqdn)
    [] fqdn = None /\ label # None -> MappingToFqdn(label)
    [] OTHER -> NotFound

\* get_telescopic_mapping of sepp_app, which has a mapping object or not.
AppMapping(fqdn, label) ==
  IF mapper THEN GetTelescopicMapping(fqdn, label) ELSE NotFound

\* Variant: every method is taken for a GET.
RefusalOfAnyMethod(q) ==
  CASE q.fqdn # None /\ q.label # None -> 400
    [] q.fqdn = None /\ q.label = None -> 400
    [] ~app -> 503
    [] OTHER -> 0

\* The checks of the route before it asks the application, in their order; 0
\* when all are passed.
Refusal(q) ==
  CASE q.method # "GET" -> 405
    [] q.fqdn # None /\ q.label # None -> 400
    [] q.fqdn = None /\ q.label = None -> 400
    [] ~app -> 503
    [] OTHER -> 0

\* handle_telescopic_mapping of the server: the mapping decides between 200
\* and 404, and the answer is filled from the request.
RouteAnswer(q, m) ==
  IF m.found THEN [status |-> 200, label |-> q.label, fqdn |-> q.fqdn]
  ELSE [status |-> 404, label |-> None, fqdn |-> None]

NoQuery == [method |-> None, fqdn |-> None, label |-> None]
NoAnswer == [status |-> 0, label |-> None, fqdn |-> None]

Init ==
  /\ mapper \in BOOLEAN
  /\ app \in BOOLEAN
  /\ query = NoQuery
  /\ mapping = NotFound
  /\ answer = NoAnswer
  /\ origin = None

\* The route handles the request q.
Handle(q) ==
  /\ query' = q
  /\ IF Refusal(q) # 0
     THEN /\ mapping' = NotFound
          /\ answer' = [NoAnswer EXCEPT !.status = Refusal(q)]
     ELSE LET m == AppMapping(q.fqdn, q.label) IN
          /\ mapping' = m
          /\ answer' = RouteAnswer(q, m)
  /\ UNCHANGED <<mapper, app>>

\* An NF asks anything ...
Ask(q) == Handle(q) /\ origin' = q.fqdn

\* ... or for the FQDN behind the label the application has just made.
AskBack ==
  /\ mapping.found
  /\ query.fqdn # None
  /\ Handle([method |-> "GET", fqdn |-> None, label |-> mapping.label])
  /\ UNCHANGED origin

\* The signal handler resets the application while the server still listens.
TakeDown ==
  /\ app
  /\ app' = FALSE
  /\ UNCHANGED <<mapper, query, mapping, answer, origin>>

Next == AskBack \/ TakeDown \/ \E q \in Queries : Ask(q)

Spec == Init /\ [][Next]_vars
-----------------------------------------------------------------------------
\* The values are well formed: a label of the application has the five or six
\* digits of a PLMN, and an FQDN three of the MCC and three of the MNC.
TypeOK ==
  /\ {mapper, app} \subseteq BOOLEAN
  /\ mapping.found \in BOOLEAN
  /\ mapping.label = None \/ mapping.label \in Labels({5, 6})
  /\ mapping.fqdn = None \/ mapping.fqdn \in Fqdns({3}, {3})
  /\ mapping.domain \in {None, SeppDomain}
  /\ answer.status \in {0, 200, 400, 404, 405, 503}
  /\ answer.label = None \/ answer.label \in Labels(Nat)
  /\ answer.fqdn = None \/ answer.fqdn \in Fqdns(Nat, Nat)

\* A label leads back to the NF it was made for (fqdn_to_mapping and
\* mapping_to_fqdn): for an FQDN with an MCC of three digits, the FQDN the
\* label is resolved to is the one it was asked for, with its MNC in three
\* digits.  (With two digits it does not come back as it was; and an FQDN with
\* its digits split elsewhere gets the label of the partner they spell.)
LabelLeadsBack ==
  mapping.fqdn # None /\ origin # None =>
    \/ Len(origin.mcc) # 3
    \/ mapping.fqdn = Fqdn(origin.nf, origin.mcc, Padded(origin.mnc))

\* Whatever digits an NF sends, in a label of its own or in the one made for an
\* FQDN split in the wrong place, what mapping_to_fqdn resolves them to is in a
\* configured partner's network, in the form FQDNs have.
OnlyPartnersResolved ==
  mapping.fqdn # None =>
    \E p \in Partners :
      mapping.fqdn.mcc = p.mcc /\ mapping.fqdn.mnc = Padded(p.mnc)

\* The status of the route tells what happened, also after the application is
\* taken down: 200 for exactly the mappings it has found, and those it only
\* looks for on a GET with one parameter.
StatusTellsResult ==
  answer.status = 200 <=>
    mapping.found /\ query.method = "GET"
      /\ (query.fqdn = None) # (query.label = None)

\* docs/FEATURE_SET.md lists topology hiding "Using telescopic fqdn mapping":
\* the answer gives the NF what it did not know, the label for an FQDN and the
\* FQDN for a label, as the application computed it.
AnswerCarriesMapping ==
  answer.status = 200 =>
    /\ query.fqdn # None => answer.label = mapping.label
    /\ query.label # None => answer.fqdn = mapping.fqdn
=============================================================================
