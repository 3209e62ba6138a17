----------------------------- MODULE MCOntology -----------------------------
(***************************************************************************)
(* The graph of one company as it is written and judged again, and the     *)
(* graphs of all companies as they are read.  The two have no name of a    *)
(* row in common, so a run works one bench and the other stays as it began.*)
(***************************************************************************)
EXTENDS BusinessOntology, GraphReading, TLC

CONSTANTS assembly, research, own, chips

McWriters == {assembly, research}
McNames == {own, chips}
McCompanies == {own}
McOwn == [w \in McWriters |-> own]
McResolution == (own :> "canonical" @@ chips :> "pending_review")

VARIABLE bench

benches == <<bench, vars, graphVars>>

OntologyInit == bench \in {"writing", "reading"} /\ Init /\ GraphInit

Writing == bench = "writing" /\ Next /\ UNCHANGED <<bench, graphVars>>
Reading == bench = "reading" /\ GraphNext /\ UNCHANGED <<bench, vars>>

OntologyNext == Writing \/ Reading

\* The fairness of BusinessOntology, of its bench.
OntologySpec ==
  /\ OntologyInit /\ [][OntologyNext]_benches
  /\ \A w \in Writers : /\ WF_vars(bench = "writing" /\ Goes(w))
                        /\ SF_vars(bench = "writing" /\ \E n \in Names : Upsert(w, n))
                        /\ WF_vars(bench = "writing" /\ Deadlocked(w) /\ StatementFails(w))
  /\ WF_vars(bench = "writing" /\ Reprocess)

Term(text, latin, types) ==
  [text |-> text, latin |-> latin, types |-> types, entries |-> [x \in {} |-> NoId], noCompany |-> FALSE,
   listed |-> "", keyword |-> NoId, noIndustry |-> FALSE]

IT == Id("IND_GICS", "4520")
Chips == Id("IND_GICS", "4530")
Wafer == Id("MAT", "wafer")
WaferToo == Id("PRD", "wafer")
Chain == (WaferToo :> Wafer)

\* Two products with the same Latin letters, a product that is a material too,
\* companies by their code and without one, industries known and unknown.
McTerms ==
  {Term("LED lights", "led", {"product"}), Term("LED chips", "led", {"product"}),
   [Term("wafer", "", {"product", "raw_material"}) EXCEPT !.entries = ("product" :> WaferToo)],
   [Term("rival", "", {"company"}) EXCEPT !.listed = "i2"],
   Term("abroad", "", {"company"}),
   [Term("others", "", {"company", "industry"}) EXCEPT !.noCompany = TRUE, !.noIndustry = TRUE],
   [Term("semiconductors", "", {"industry"}) EXCEPT !.keyword = Chips],
   Term("new materials", "", {"industry"}),
   Term("DS division", "ds", {"segment"})}
McIndustries == {IT, Chips}
=============================================================================
