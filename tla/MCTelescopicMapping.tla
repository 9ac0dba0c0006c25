---- MODULE MCTelescopicMapping ----
EXTENDS TelescopicMapping

\* A partner with a two-digit MNC, one with three digits that looks like a
\* padded one, and one whose digits run together like another split of them.
MCPartners == {[mcc |-> <<2, 6, 2>>, mnc |-> <<1, 0>>],
               [mcc |-> <<0, 0, 1>>, mnc |-> <<0, 1, 0>>],
               [mcc |-> <<2, 6, 2>>, mnc |-> <<1, 0, 0>>]}

Mccs == {<<2, 6, 2>>, <<0, 0, 1>>}
Mncs == {<<1, 0>>, <<0, 1, 0>>, <<1, 0, 0>>, <<0, 1>>}
Nfs == {"udm", "upf"}

MCFqdns ==
  {Fqdn(nf, mcc, mnc) : nf \in Nfs, mcc \in Mccs, mnc \in Mncs}
  \cup {[Fqdn("udm", <<2, 6, 2>>, <<1, 0>>) EXCEPT !.lacks = {x}] :
          x \in FqdnParts}
  \cup {Fqdn("udm", <<>>, <<1, 0>>), Fqdn("udm", <<2>>, <<6, 2, 1, 0>>)}

MCLabels ==
  {Label(nf, mcc \o mnc) : nf \in Nfs, mcc \in Mccs, mnc \in Mncs}
  \cup {[Label("udm", <<2, 6, 2, 1, 0>>) EXCEPT !.keyword = FALSE]}

MCQueries ==
  [method : {"GET"}, fqdn : MCFqdns, label : {None}]
  \cup [method : {"GET"}, fqdn : {None}, label : MCLabels]
  \cup {[method |-> "POST", fqdn |-> None,
         label |-> Label("udm", <<2, 6, 2, 1, 0>>)],
        [method |-> "GET", fqdn |-> None, label |-> None],
        [method |-> "GET", fqdn |-> Fqdn("udm", <<2, 6, 2>>, <<1, 0>>),
         label |-> Label("udm", <<2, 6, 2, 1, 0>>)]}
====
