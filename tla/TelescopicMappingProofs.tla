----------------------- MODULE TelescopicMappingProofs -----------------------
(***************************************************************************)
(* Theorems about TelescopicMapping, for any partners and any queries.     *)
(***************************************************************************)
EXTENDS TelescopicMapping, SequenceTheorems, TLAPS

\* Cutting digits after the third gives back the two parts they were put
\* together from, if the first one has three digits.
LEMMA CutAfterThree ==
    ASSUME NEW S, NEW a \in Seq(S), NEW b \in Seq(S), Len(a) = 3
    PROVE  /\ a \o b \in Seq(S)
           /\ Len(a \o b) = 3 + Len(b)
           /\ SubSeq(a \o b, 1, 3) = a
           /\ SubSeq(a \o b, 4, Len(a \o b)) = b
  <1>1. a \o b \in Seq(S) /\ Len(a \o b) = 3 + Len(b)
    <2>1. a \o b \in Seq(S) /\ Len(a \o b) = Len(a) + Len(b)
      BY ConcatProperties, Zenon
    <2>. QED
      BY <2>1
  <1>2. SubSeq(a \o b, 1, 3) = a
    <2>1. 1 \in 1 .. Len(a) /\ 3 \in 1 .. Len(a)
      OBVIOUS
    <2>2. SubSeq(a \o b, 1, 3) = SubSeq(a, 1, 3)
      BY <2>1, SubSeqOfConcat1, Zenon
    <2>3. SubSeq(a, 1, Len(a)) = a
      BY SubSeqFull, Zenon
    <2>. QED
      BY <2>2, <2>3
  <1>3. CASE Len(b) = 0
    <2>1. SubSeq(a \o b, 4, Len(a \o b)) = <<>>
      BY <1>1, <1>3, SubSeqEmpty
    <2>2. b = <<>>
      BY <1>3
    <2>. QED
      BY <1>1, <1>2, <2>1, <2>2
  <1>4. CASE Len(b) # 0
    <2>1. /\ 4 \in Len(a) + 1 .. Len(a) + Len(b)
          /\ Len(a) + Len(b) \in Len(a) + 1 .. Len(a) + Len(b)
      BY <1>4
    <2>2. SubSeq(a \o b, 4, Len(a) + Len(b))
            = SubSeq(b, 4 - Len(a), (Len(a) + Len(b)) - Len(a))
      BY <2>1, SubSeqOfConcat2, Zenon
    <2>3. /\ 4 - Len(a) = 1
          /\ (Len(a) + Len(b)) - Len(a) = Len(b)
          /\ Len(a) + Len(b) = Len(a \o b)
      BY <1>1
    <2>4. SubSeq(b, 1, Len(b)) = b
      BY SubSeqFull, Zenon
    <2>. QED
      BY <1>1, <1>2, <2>2, <2>3, <2>4
  <1>. QED
    BY <1>3, <1>4

\* The same for digits.
LEMMA CutDigits ==
    ASSUME NEW a \in Seq(0 .. 9), NEW b \in Seq(0 .. 9), Len(a) = 3
    PROVE  /\ a \o b \in Seq(0 .. 9)
           /\ Len(a \o b) = 3 + Len(b)
           /\ SubSeq(a \o b, 1, 3) = a
           /\ SubSeq(a \o b, 4, Len(a \o b)) = b
  BY CutAfterThree

\* The FQDN of digits put together from an MCC and an MNC.
LEMMA FqdnOfParts ==
    ASSUME NEW nf, NEW a \in Seq(0 .. 9), NEW b \in Seq(0 .. 9), Len(a) = 3
    PROVE  FqdnOf(nf, a \o b) = Fqdn(nf, a, Padded(b))
  <1>1. /\ SubSeq(a \o b, 1, 3) = a
        /\ SubSeq(a \o b, 4, Len(a \o b)) = b
    BY CutDigits
  <1>. QED
    BY <1>1, Zenon DEF FqdnOf

\* Padding fills an MNC of two digits up to three, and does nothing more.
LEMMA PaddedMnc ==
    ASSUME NEW m \in Seq(0 .. 9), Len(m) \in {2, 3}
    PROVE  /\ Padded(m) \in Seq(0 .. 9)
           /\ Len(Padded(m)) = 3
           /\ Padded(Padded(m)) = Padded(m)
  <1>1. /\ <<0>> \o m \in Seq(0 .. 9)
        /\ Len(<<0>> \o m) = 1 + Len(m)
    OBVIOUS
  <1>2. CASE Len(m) = 2
    <2>1. Padded(m) = <<0>> \o m
      BY <1>2 DEF Padded
    <2>2. Len(Padded(m)) = 3
      BY <1>1, <1>2, <2>1
    <2>. QED
      BY <1>1, <2>1, <2>2 DEF Padded
  <1>3. CASE Len(m) = 3
    BY <1>3 DEF Padded
  <1>. QED
    BY <1>2, <1>3

\* The fields of an FQDN and of a label the application makes.
LEMMA FqdnFields ==
    ASSUME NEW nf, NEW mcc, NEW mnc
    PROVE  /\ Fqdn(nf, mcc, mnc).mcc = mcc
           /\ Fqdn(nf, mcc, mnc).mnc = mnc
  BY DEF Fqdn

LEMMA LabelFields ==
    ASSUME NEW l, NEW nf, NEW id, l = Label(nf, id)
    PROVE  l.nf = nf /\ l.plmn = id
  BY DEF Label

\* Any digits a partner is known by are resolved to an FQDN of its network.
LEMMA PartnersFqdn ==
    ASSUME NEW nf, NEW id, IsRoamingPartner(id)
    PROVE  /\ id \in Digits({5, 6})
           /\ \E p \in Partners :
                FqdnOf(nf, id) = Fqdn(nf, p.mcc, Padded(p.mnc))
  <1>1. PICK p \in Partners : id \in {p.mcc \o p.mnc, p.mcc \o Padded(p.mnc)}
    BY DEF IsRoamingPartner
  <1>2. /\ p.mcc \in Seq(0 .. 9) /\ Len(p.mcc) = 3
        /\ p.mnc \in Seq(0 .. 9) /\ Len(p.mnc) \in {2, 3}
    BY PartnersAssumption
  <1>3. PICK m \in {p.mnc, Padded(p.mnc)} : id = p.mcc \o m
    BY <1>1
  <1>4. /\ m \in Seq(0 .. 9) /\ Len(m) \in {2, 3}
        /\ Padded(m) = Padded(p.mnc)
    BY <1>2, <1>3, PaddedMnc
  <1>5. /\ id \in Seq(0 .. 9) /\ Len(id) = 3 + Len(m)
        /\ SubSeq(id, 1, 3) = p.mcc /\ SubSeq(id, 4, Len(id)) = m
    <2>1. /\ p.mcc \o m \in Seq(0 .. 9)
          /\ Len(p.mcc \o m) = 3 + Len(m)
          /\ SubSeq(p.mcc \o m, 1, 3) = p.mcc
          /\ SubSeq(p.mcc \o m, 4, Len(p.mcc \o m)) = m
      <3>1. p.mcc \in Seq(0 .. 9) /\ m \in Seq(0 .. 9) /\ Len(p.mcc) = 3
        BY <1>2, <1>4
      <3>. QED
        BY <3>1, CutDigits, Zenon
    <2>. QED
      BY <1>3, <2>1, Zenon
  <1>6. FqdnOf(nf, id) = Fqdn(nf, p.mcc, Padded(p.mnc))
    BY <1>4, <1>5, Zenon DEF FqdnOf
  <1>7. id \in Digits({5, 6})
    <2>1. Len(m) = 2 => Len(id) = 5
      BY <1>5
    <2>2. Len(m) = 3 => Len(id) = 6
      BY <1>5
    <2>3. Len(id) \in {5, 6}
      BY <1>4, <2>1, <2>2, Zenon
    <2>. QED
      BY <1>5, <2>3, Zenon DEF Digits
  <1>. QED
    BY <1>6, <1>7

\* What the application finds is well-formed, and what it resolves is in a
\* partner's network.
LEMMA MappingFound ==
    ASSUME NEW f, f = None \/ f \in Fqdns(Nat, Nat),
           NEW l, l = None \/ l \in Labels(Nat),
           mapper \in BOOLEAN
    PROVE  LET m == AppMapping(f, l) IN
           /\ m.found \in BOOLEAN
           /\ m.label = None \/ m.label \in Labels({5, 6})
           /\ m.fqdn # None => \E p \in Partners :
                m.fqdn = Fqdn(l.nf, p.mcc, Padded(p.mnc))
           /\ m.domain \in {None, SeppDomain}
  <1> DEFINE m == AppMapping(f, l)
  <1>1. CASE m = NotFound
    BY <1>1 DEF NotFound
  <1>2. CASE f # None /\ m = FqdnToMapping(f) /\ m # NotFound
    <2>1. /\ IsRoamingPartner(PlmnId(f)) /\ f \in Fqdns(Nat, Nat)
          /\ m = [found |-> TRUE, label |-> Label(f.nf, PlmnId(f)),
                  fqdn |-> None, domain |-> SeppDomain]
      BY <1>2 DEF FqdnToMapping
    <2>2. PlmnId(f) \in Digits({5, 6})
      BY <2>1, PartnersFqdn
    <2>3. Label(f.nf, PlmnId(f)) \in Labels({5, 6})
      BY <2>1, <2>2 DEF Label, Labels, Fqdns
    <2>. QED
      BY <2>1, <2>3
  <1>3. CASE l # None /\ m = MappingToFqdn(l) /\ m # NotFound
    <2>1. /\ IsRoamingPartner(l.plmn) /\ l \in Labels(Nat)
          /\ m = [found |-> TRUE, label |-> l, fqdn |-> FqdnOf(l.nf, l.plmn),
                  domain |-> SeppDomain]
      BY <1>3 DEF MappingToFqdn
    <2>2. /\ l.plmn \in Digits({5, 6})
          /\ \E p \in Partners :
               FqdnOf(l.nf, l.plmn) = Fqdn(l.nf, p.mcc, Padded(p.mnc))
      BY <2>1, PartnersFqdn
    <2>3. l \in Labels({5, 6})
      BY <2>1, <2>2 DEF Labels
    <2>. QED
      BY <2>1, <2>2, <2>3
  <1>. QED
    BY <1>1, <1>2, <1>3 DEF AppMapping, GetTelescopicMapping
-----------------------------------------------------------------------------
\* The label that was made last is the one of the FQDN that was asked for.
LabelInv ==
  query.fqdn # None /\ mapping.found =>
    /\ origin = query.fqdn
    /\ origin \in Fqdns(Nat, Nat)
    /\ mapping.label = Label(origin.nf, PlmnId(origin))

Inv ==
  TypeOK /\ StatusTellsResult /\ OnlyPartnersResolved /\ LabelInv
    /\ LabelLeadsBack

\* A request is refused with one of the codes of the route, and let through
\* only if it is a GET with one parameter.
LEMMA RefusalCodes ==
    ASSUME NEW q
    PROVE  /\ Refusal(q) \in {0, 400, 405, 503}
           /\ Refusal(q) = 0 =>
                q.method = "GET" /\ (q.fqdn = None) # (q.label = None)
  BY DEF Refusal

\* What the route does with any request, of an NF or with the last label.
LEMMA HandleStep ==
    ASSUME TypeOK, NEW q, Handle(q),
           q.fqdn = None \/ q.fqdn \in Fqdns(Nat, Nat),
           q.label = None \/ q.label \in Labels(Nat)
    PROVE  TypeOK' /\ StatusTellsResult' /\ OnlyPartnersResolved'
  <1>0. /\ query' = q /\ UNCHANGED <<mapper, app>>
        /\ mapper \in BOOLEAN /\ app \in BOOLEAN
    BY DEF Handle, TypeOK
  <1>1. CASE Refusal(q) # 0
    <2>1. /\ mapping' = NotFound
          /\ answer' = [status |-> Refusal(q), label |-> None, fqdn |-> None]
      BY <1>1 DEF Handle, NoAnswer
    <2>2. answer'.status \in {400, 405, 503}
      BY <1>1, <2>1, RefusalCodes
    <2>3. TypeOK'
      BY <1>0, <2>1, <2>2 DEF TypeOK, NotFound
    <2>4. StatusTellsResult'
      BY <2>1, <2>2 DEF StatusTellsResult, NotFound
    <2>5. OnlyPartnersResolved'
      BY <2>1 DEF OnlyPartnersResolved, NotFound
    <2>. QED
      BY <2>3, <2>4, <2>5
  <1>2. CASE Refusal(q) = 0
    <2> DEFINE m == AppMapping(q.fqdn, q.label)
    <2>1. mapping' = m /\ answer' = RouteAnswer(q, m)
      BY <1>2 DEF Handle
    <2>2. /\ m.found \in BOOLEAN
          /\ m.label = None \/ m.label \in Labels({5, 6})
          /\ m.fqdn # None => \E p \in Partners :
               m.fqdn = Fqdn(q.label.nf, p.mcc, Padded(p.mnc))
          /\ m.domain \in {None, SeppDomain}
      BY <1>0, MappingFound, Zenon
    <2>3. m.fqdn # None => q.label \in Labels(Nat)
      BY DEF AppMapping, GetTelescopicMapping, NotFound, FqdnToMapping
    <2> HIDE DEF m
    <2>4. m.fqdn = None \/ m.fqdn \in Fqdns({3}, {3})
      <3> SUFFICES ASSUME m.fqdn # None
                   PROVE  m.fqdn \in Fqdns({3}, {3})
        OBVIOUS
      <3>1. PICK p \in Partners :
              m.fqdn = Fqdn(q.label.nf, p.mcc, Padded(p.mnc))
        BY <2>2
      <3>2. p.mcc \in Digits({3}) /\ Padded(p.mnc) \in Digits({3})
        BY PartnersAssumption, PaddedMnc DEF Digits
      <3>3. q.label.nf \in STRING
        BY <2>3 DEF Labels
      <3>. QED
        BY <3>1, <3>2, <3>3 DEF Fqdn, Fqdns
    <2>5. /\ answer'.status \in {200, 404}
          /\ answer'.status = 200 <=> m.found
          /\ answer'.label \in {None, q.label}
          /\ answer'.fqdn \in {None, q.fqdn}
      BY <2>1, <2>2 DEF RouteAnswer
    <2>6. TypeOK'
      BY <1>0, <2>1, <2>2, <2>4, <2>5 DEF TypeOK
    <2>7. StatusTellsResult'
      <3>1. q.method = "GET" /\ (q.fqdn = None) # (q.label = None)
        BY <1>2, RefusalCodes
      <3>2. /\ query'.method = "GET"
            /\ (query'.fqdn = None) # (query'.label = None)
        BY <1>0, <3>1
      <3>3. answer'.status = 200 <=> mapping'.found
        BY <2>1, <2>5
      <3>. QED
        BY <3>2, <3>3, Zenon DEF StatusTellsResult
    <2>8. OnlyPartnersResolved'
      <3> SUFFICES ASSUME mapping'.fqdn # None
                   PROVE  \E p \in Partners :
                            /\ mapping'.fqdn.mcc = p.mcc
                            /\ mapping'.fqdn.mnc = Padded(p.mnc)
        BY Zenon DEF OnlyPartnersResolved
      <3>1. PICK p \in Partners :
              mapping'.fqdn = Fqdn(q.label.nf, p.mcc, Padded(p.mnc))
        BY <2>1, <2>2
      <3>. QED
        BY <3>1, FqdnFields
    <2>. QED
      BY <2>6, <2>7, <2>8
  <1>. QED
    BY <1>1, <1>2

LEMMA InvInit == Init => Inv
  <1> SUFFICES ASSUME Init
               PROVE  Inv
    OBVIOUS
  <1>1. TypeOK
    BY DEF Init, TypeOK, NotFound, NoAnswer
  <1>. QED
    BY <1>1 DEF Init, Inv, StatusTellsResult, OnlyPartnersResolved, LabelInv,
                LabelLeadsBack, NotFound, NoAnswer

\* Every request, the one with the last label and the reset of the application
\* keep the invariant.
LEMMA InvStep == Inv /\ [Next]_vars => Inv'
  <1> SUFFICES ASSUME Inv, [Next]_vars
               PROVE  Inv'
    OBVIOUS
  <1>0. TypeOK /\ LabelInv
    BY DEF Inv
  <1>1. ASSUME NEW q \in Queries, Ask(q)
        PROVE  Inv'
    <2>1. /\ q.fqdn = None \/ q.fqdn \in Fqdns(Nat, Nat)
          /\ q.label = None \/ q.label \in Labels(Nat)
      BY QueriesAssumption
    <2>2. Handle(q) /\ query' = q /\ origin' = q.fqdn
      BY <1>1 DEF Ask, Handle
    <2>3. TypeOK' /\ StatusTellsResult' /\ OnlyPartnersResolved'
      BY <1>0, <2>1, <2>2, HandleStep
    <2>4. q.fqdn # None /\ mapping'.found =>
            mapping' = FqdnToMapping(q.fqdn) /\ mapping' # NotFound
      BY <2>2 DEF Handle, AppMapping, GetTelescopicMapping, NotFound
    <2>5. q.fqdn # None => mapping'.fqdn = None
      BY <2>2 DEF Handle, AppMapping, GetTelescopicMapping, NotFound,
                  FqdnToMapping
    <2>6. LabelInv'
      BY <2>1, <2>2, <2>4 DEF LabelInv, FqdnToMapping
    <2>7. LabelLeadsBack'
      BY <2>2, <2>5 DEF LabelLeadsBack
    <2>. QED
      BY <2>3, <2>6, <2>7 DEF Inv
  <1>2. CASE AskBack
    <2> DEFINE q == [method |-> "GET", fqdn |-> None, label |-> mapping.label]
    <2>1. /\ Handle(q) /\ query' = q /\ origin' = origin
          /\ mapping.found /\ query.fqdn # None
      BY <1>2 DEF AskBack, Handle
    <2>2. q.label = None \/ q.label \in Labels(Nat)
      BY <1>0 DEF TypeOK, Labels, Digits
    <2>3. TypeOK' /\ StatusTellsResult' /\ OnlyPartnersResolved'
      BY <1>0, <2>1, <2>2, HandleStep
    <2>4. LabelInv'
      BY <2>1 DEF LabelInv
    <2>5. LabelLeadsBack'
      <3> SUFFICES ASSUME mapping'.fqdn # None, Len(origin.mcc) = 3
                   PROVE  mapping'.fqdn =
                            Fqdn(origin.nf, origin.mcc, Padded(origin.mnc))
        BY <2>1 DEF LabelLeadsBack
      <3>1. /\ origin \in Fqdns(Nat, Nat)
            /\ mapping.label = Label(origin.nf, PlmnId(origin))
        BY <1>0, <2>1 DEF LabelInv
      <3>2. mapping' = MappingToFqdn(mapping.label) /\ mapping' # NotFound
        BY <2>1 DEF Handle, AppMapping, GetTelescopicMapping, NotFound
      <3>3. mapping'.fqdn = FqdnOf(origin.nf, origin.mcc \o origin.mnc)
        <4>1. mapping'.fqdn = FqdnOf(mapping.label.nf, mapping.label.plmn)
          BY <3>2 DEF MappingToFqdn
        <4>2. /\ mapping.label.nf = origin.nf
              /\ mapping.label.plmn = origin.mcc \o origin.mnc
          <5>1. mapping.label = Label(origin.nf, origin.mcc \o origin.mnc)
            BY <3>1, Zenon DEF PlmnId
          <5>. QED
            BY <5>1, LabelFields, Zenon
        <4>. QED
          BY <4>1, <4>2
      <3>4. /\ origin.mcc \in Seq(0 .. 9) /\ origin.mnc \in Seq(0 .. 9)
            /\ Len(origin.mcc) = 3
        BY <3>1 DEF Fqdns, Digits
      <3>5. \A nf : FqdnOf(nf, origin.mcc \o origin.mnc)
                      = Fqdn(nf, origin.mcc, Padded(origin.mnc))
        BY <3>4, FqdnOfParts, Zenon
      <3>. QED
        BY <3>3, <3>5
    <2>. QED
      BY <2>3, <2>4, <2>5 DEF Inv
  <1>3. CASE TakeDown \/ UNCHANGED vars
    <2>1. /\ UNCHANGED <<mapper, query, mapping, answer, origin>>
          /\ {mapper', app'} \subseteq BOOLEAN
      <3>1. \/ app' = FALSE /\ UNCHANGED mapper
            \/ UNCHANGED <<app, mapper>>
        BY <1>3 DEF TakeDown, vars
      <3>2. {mapper, app} \subseteq BOOLEAN
        BY <1>0 DEF TypeOK
      <3>. QED
        BY <1>3, <3>1, <3>2 DEF TakeDown, vars
    <2>2. TypeOK'
      BY <1>0, <2>1 DEF TypeOK
    <2>. QED
      BY <2>1, <2>2 DEF Inv, StatusTellsResult, OnlyPartnersResolved, LabelInv,
                        LabelLeadsBack
  <1>. QED
    BY <1>1, <1>2, <1>3 DEF Next

\* What the mapping and its route keep at all times.
THEOREM Invariance == Spec => []Inv
  BY InvInit, InvStep, PTL DEF Spec

\* Mappings, requests and answers stay well-formed.
THEOREM TypeCorrect == Spec => []TypeOK
  <1>1. Inv => TypeOK
    BY DEF Inv
  <1>. QED
    BY Invariance, <1>1, PTL

\* A label leads back to the NF it was made for, whoever the partners are.
THEOREM LabelLeadsBackHolds == Spec => []LabelLeadsBack
  <1>1. Inv => LabelLeadsBack
    BY DEF Inv
  <1>. QED
    BY Invariance, <1>1, PTL

\* Whatever digits are asked for, only a partner's network is resolved.
THEOREM OnlyPartnersResolvedHolds == Spec => []OnlyPartnersResolved
  <1>1. Inv => OnlyPartnersResolved
    BY DEF Inv
  <1>. QED
    BY Invariance, <1>1, PTL

\* The status of the route is 200 for exactly the mappings it has found.
THEOREM StatusTellsResultHolds == Spec => []StatusTellsResult
  <1>1. Inv => StatusTellsResult
    BY DEF Inv
  <1>. QED
    BY Invariance, <1>1, PTL
=============================================================================
