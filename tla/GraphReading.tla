---------------------------- MODULE GraphReading ----------------------------
(***************************************************************************)
(* How names become ids and what is read from the graphs of all companies  *)
(* together (the package business_ontology, its adapter, the read side of  *)
(* services/business_ontology): the dictionary and its lazy load, the      *)
(* resolution of a name by its type, the rows that overviews leave, their  *)
(* review, a company's graph, the neighbours of a node, peers.             *)
(***************************************************************************)
EXTENDS Integers, Sequences, FiniteSets

CONSTANTS
  Issuers,     \* codes of companies whose overviews are read
  Terms,       \* names as reports write them, with what the dictionary knows of them
  Industries,  \* ids of the sub-industries of the dictionary
  AlsoOf,      \* per id of a product: the id of the material it also is
  Readers,     \* threads of the API
  MaxMentions  \* a bound of the model on the names that are stored

VARIABLES
  rows,      \* business_ontology_node
  links,     \* business_ontology_edge
  globals,   \* what the adapter has loaded: the dictionary, the normalizer
  reader     \* per thread: how far its first call has come

graphVars == <<rows, links, globals, reader>>

Id(prefix, key) == <<prefix, key>>
NoId == Id("none", "none")
Types == {"company", "industry", "product", "raw_material", "segment"}
PrefixOf ==
  [company |-> {"CMP_KRX"}, industry |-> {"IND_GICS"}, product |-> {"PRD", "PRD_AUTO"},
   raw_material |-> {"MAT", "MAT_AUTO"}, segment |-> {"SEG", "SEG_AUTO"}]

\* Every id of the dictionary has one of its prefixes.
IdPrefixes == {"CMP_GLOBAL"} \union UNION {PrefixOf[type] : type \in Types}
IsId(id) == id[1] \in IdPrefixes

ASSUME GraphAssumption ==
  /\ \A id \in Industries : IsId(id)
  /\ \A id \in DOMAIN AlsoOf : IsId(AlsoOf[id])
  /\ \A t \in Terms : (t.keyword # NoId => IsId(t.keyword)) /\ \A type \in DOMAIN t.entries : IsId(t.entries[type])

(* What a name resolves to.                                                *)
Verdict(id, status) == [id |-> id, status |-> status]
Pending == Verdict(NoId, "pending_review")
Rejected == Verdict(NoId, "rejected")
Canonical(id) == Verdict(id, "canonical")
Entry(t, type) == IF type \in DOMAIN t.entries THEN t.entries[type] ELSE NoId

\* A new id is of the Latin letters of the name, of all of it when it has none.
Slug(t) == IF t.latin # "" THEN t.latin ELSE t.text
AutoPrefix == [company |-> "CMP_GLOBAL", product |-> "PRD_AUTO", raw_material |-> "MAT_AUTO", segment |-> "SEG_AUTO"]
AutoNew(t, type) == Canonical(Id(AutoPrefix[type], Slug(t)))
Known(t, type) == Entry(t, type) # NoId

ResolveCompany(t) ==
  IF t.noCompany THEN Rejected
  ELSE IF Known(t, "company") THEN Canonical(Entry(t, "company"))
  ELSE IF t.listed # "" THEN Canonical(Id("CMP_KRX", t.listed))
  ELSE AutoNew(t, "company")
ResolveMaterial(t) ==
  IF Known(t, "raw_material") THEN Canonical(Entry(t, "raw_material"))
  ELSE IF Known(t, "product") /\ Entry(t, "product") \in DOMAIN AlsoOf THEN Canonical(AlsoOf[Entry(t, "product")])
  ELSE AutoNew(t, "raw_material")
\* What the dictionary and the keywords do not know the model judges, or leaves.
ResolveIndustry(t) ==
  IF t.noIndustry THEN {Rejected}
  ELSE IF Known(t, "industry") THEN {Canonical(Entry(t, "industry"))}
  ELSE IF t.keyword # NoId THEN {Canonical(t.keyword)}
  ELSE {Canonical(i) : i \in Industries} \union {Pending}
Resolve(t, type) ==
  CASE type = "company" -> {ResolveCompany(t)}
    [] type = "raw_material" -> {ResolveMaterial(t)}
    [] type = "industry" -> ResolveIndustry(t)
    [] OTHER -> {IF Known(t, type) THEN Canonical(Entry(t, type)) ELSE AutoNew(t, type)}

(* Rows are of the overview of one company; its own is found by its code.  *)
Row(issuer, type, text, verdict) == [issuer |-> issuer, type |-> type, text |-> text, id |-> verdict.id, status |-> verdict.status]
OwnRow(i) == Row(i, "company", i, Canonical(Id("CMP_KRX", i)))
Link(i, to, kind) == [issuer |-> i, to |-> to, kind |-> kind]
KindOf ==
  [company |-> "supplies_to", industry |-> "operates_in", product |-> "manufactures", raw_material |-> "uses_material",
   segment |-> "has_segment"]
SameRow(r, q) == r.issuer = q.issuer /\ r.type = q.type /\ r.text = q.text
RowAt(key) == CHOOSE r \in rows : SameRow(r, [issuer |-> key[1], type |-> key[2], text |-> key[3]])
KeyOf(r) == <<r.issuer, r.type, r.text>>

Loads == {"nothing", "dictionary", "both"}
GraphInit ==
  /\ rows = {}
  /\ links = {}
  /\ globals = "nothing"
  /\ reader = [r \in Readers |-> "new"]

(* An overview mentions a name.                                            *)
Mention(i, type, t) ==
  /\ Cardinality(links) < MaxMentions
  /\ ~\E r \in rows : r.issuer = i /\ r.type = type /\ r.text = t.text
  /\ \E v \in Resolve(t, type) :
       LET row == Row(i, type, t.text, v) IN
       /\ rows' = rows \union {OwnRow(i), row}
       /\ links' = links \union {Link(i, KeyOf(row), KindOf[type])}
  /\ UNCHANGED <<globals, reader>>

(* A person joins a pending row to an id that some row has, or gives it a  *)
(* new one, or refuses it.                                                 *)
Taken(id) == \E r \in rows : r.id = id /\ r.status = "canonical"
Promote(r, id, action) ==
  /\ r \in rows /\ r.status = "pending_review"
  /\ id[1] \in PrefixOf[r.type]
  /\ IF action = "merge" THEN Taken(id) ELSE ~Taken(id)
  /\ rows' = (rows \ {r}) \union {[r EXCEPT !.id = id, !.status = "canonical"]}
  /\ UNCHANGED <<links, globals, reader>>
Reject(r) ==
  /\ r \in rows /\ r.status = "pending_review"
  /\ rows' = (rows \ {r}) \union {[r EXCEPT !.status = "rejected"]}
  /\ UNCHANGED <<links, globals, reader>>

(* The first calls of the adapter load the dictionary and then build the   *)
(* normalizer; who finds a dictionary takes both for there.                *)
FirstCall(r) ==
  /\ reader[r] = "new"
  /\ reader' = [reader EXCEPT ![r] = CASE globals = "nothing" -> "loading" [] globals = "both" -> "served" [] OTHER -> "failed"]
  /\ UNCHANGED <<rows, links, globals>>
SetDictionary(r) ==
  /\ reader[r] = "loading"
  /\ reader' = [reader EXCEPT ![r] = "building"]
  /\ globals' = IF globals = "nothing" THEN "dictionary" ELSE globals
  /\ UNCHANGED <<rows, links>>
SetNormalizer(r) ==
  /\ reader[r] = "building"
  /\ reader' = [reader EXCEPT ![r] = "served"]
  /\ globals' = "both"
  /\ UNCHANGED <<rows, links>>

\* Whoever reads the graph changes nothing.
Read == UNCHANGED graphVars

GraphNext ==
  \/ \E i \in Issuers, type \in Types, t \in Terms : type \in t.types /\ Mention(i, type, t)
  \/ \E r \in rows, id \in Industries, action \in {"merge", "new"} : Promote(r, id, action)
  \/ \E r \in rows : Reject(r)
  \/ \E r \in Readers : FirstCall(r) \/ SetDictionary(r) \/ SetNormalizer(r)
  \/ Read

GraphSpec == GraphInit /\ [][GraphNext]_graphVars

-----------------------------------------------------------------------------
(* What is read.                                                           *)
RefOf(r) == IF r.id # NoId THEN r.id ELSE <<r.type, r.text>>

CompanyGraph(i) ==
  [nodes |-> {RefOf(r) : r \in {x \in rows : x.issuer = i}},
   edges |-> {[from |-> RefOf(OwnRow(i)), to |-> RefOf(RowAt(l.to)), kind |-> l.kind] : l \in {x \in links : x.issuer = i}}]

\* All rows of a node, whichever overview they are from.
\* Faulty variant: the rows of one overview only.
InstancesOf_First(id) ==
  LET all == {r \in rows : r.id = id /\ r.status = "canonical"} IN
  IF all = {} THEN {} ELSE LET one == CHOOSE r \in all : TRUE IN {r \in all : r.issuer = one.issuer}
InstancesOf(id) == {r \in rows : r.id = id /\ r.status = "canonical"}
IsNode(id) == id \in Industries \/ id \in DOMAIN AlsoOf \/ \E r \in rows : r.id = id

Neighbour(id, type, kind, direction) == [id |-> id, type |-> type, kind |-> kind, direction |-> direction]
Stored(id) ==
  LET ours == InstancesOf(id) IN
  {Neighbour(RefOf(RowAt(l.to)), RowAt(l.to).type, l.kind, "out") :
     l \in {x \in links : OwnRow(x.issuer) \in ours /\ RowAt(x.to) \notin ours}}
  \union {Neighbour(RefOf(OwnRow(l.issuer)), "company", l.kind, "in") :
     l \in {x \in links : RowAt(x.to) \in ours /\ OwnRow(x.issuer) \notin ours}}
Siblings(id) == IF id \in Industries THEN {Neighbour(i, "industry", "sibling_industry", "out") : i \in Industries \ {id}} ELSE {}
Crossed(id) ==
  IF id \in DOMAIN AlsoOf /\ AlsoOf[id] # id THEN {Neighbour(AlsoOf[id], "raw_material", "is_also_material", "out")} ELSE {}
Explore(id) == IF IsNode(id) THEN Stored(id) \union Siblings(id) \union Crossed(id) ELSE {}

IndustryCompanies(id) == {i \in Issuers : \E r \in rows : r.issuer = i /\ r.type = "industry" /\ r.id = id}

\* Other companies with an edge to a row of this company's products.
ProductPeers(i) ==
  LET made == {l.to : l \in {x \in links : x.issuer = i /\ x.kind = "manufactures"}} IN
  {l.issuer : l \in {x \in links : x.to \in made /\ x.kind = "manufactures" /\ x.issuer # i}}

\* What a person is offered for a pending row: ids of its type that rows have.
CandidatesFor(r) == {q.id : q \in {x \in rows : x.type = r.type /\ x.status = "canonical"}}
PendingList == {[row |-> r, candidates |-> CandidatesFor(r)] : r \in {x \in rows : x.status = "pending_review"}}

-----------------------------------------------------------------------------
(* An edge is seen from both ends: what a company's graph shows leads from *)
(* the company to the node and back, although the node has a row for every *)
(* company that names it, also after a review joined it to another.        *)
(* (explore_node: "focal 의 모든 stock_code 인스턴스를 모아")                *)
NeighboursAreMutual ==
  \A i \in Issuers : \A e \in CompanyGraph(i).edges :
    /\ e.to # e.from => \E n \in Explore(e.from) : n.id = e.to /\ n.kind = e.kind
    /\ e.to # e.from /\ InstancesOf(e.to) # {} => \E n \in Explore(e.to) : n.id = e.from /\ n.kind = e.kind

(* Companies with a product of the same id find one another.               *)
(* (product_peer_companies: "canonical_id 가 다른 회사의 manufactures 와     *)
(* 겹치는 종목을 찾아")                                                      *)
PeersAreFound ==
  \A i, j \in Issuers : i # j /\ (\E r \in rows, q \in rows :
      r.issuer = i /\ q.issuer = j /\ r.type = "product" /\ q.type = "product" /\ r.id = q.id) => j \in ProductPeers(i)

(* Two names the dictionary does not know are two products.                *)
(* (normalizer: "잘못된 병합이 중복보다 나쁨", "같은 이름은 같은 slug")        *)
NamesKeepApart ==
  \A r, q \in rows : r.type = "product" /\ q.type = "product" /\ r.id[1] = "PRD_AUTO" /\ r.id = q.id => r.text = q.text

(* Every neighbour that is shown can be opened.                            *)
NeighboursOpen == \A i \in Issuers : \A n \in Explore(Id("CMP_KRX", i)) : IsNode(n.id)

(* A refused row is no neighbour any more.                                 *)
(* (reject_pending: "explore·pending 목록에서 모두 제외")                    *)
RejectedIsHidden ==
  \A r \in rows, i \in Issuers : r.status = "rejected" => \A n \in Explore(Id("CMP_KRX", i)) : n.id # RefOf(r)

(* The first calls of the adapter are all served.                          *)
FirstCallsAreServed == \A r \in Readers : reader[r] # "failed"
=============================================================================
