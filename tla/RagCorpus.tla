------------------------------ MODULE RagCorpus ------------------------------
(***************************************************************************)
(* lib/ragCorpusGenerator.ts: the documents generated from a call chain.   *)
(* A document is its docType and its id: the tuple of the parts that the   *)
(* code joins with dashes, of which file ids and function names have none. *)
(* Title, content and metadata are left out.                               *)
(***************************************************************************)
EXTENDS Integers, SequencesExt

Doc(docType, id) == [docType |-> docType, id |-> id]

(* The elements of s that are in S, in their order.                        *)
Only(s, S) ==
  LET only[n \in 0..Len(s)] ==
        IF n = 0 THEN <<>>
        ELSE IF s[n] \in S THEN Append(only[n - 1], s[n]) ELSE only[n - 1]
  IN  only[Len(s)]

Ids(list) == [i \in DOMAIN list |-> list[i].id]

FileIds(chain) == ToSet(Ids(chain.sourceFiles))

getFilesForComponent(chain, component) ==
  {sf \in ToSet(chain.sourceFiles) : sf.component = component}

Mapped(s, docType, Id(_)) == [i \in DOMAIN s |-> Doc(docType, Id(s[i]))]

(* The components without a file are passed over.                          *)
PerComponent(chain, docType, prefix) ==
  Mapped(Only(chain.components,
              {comp \in ToSet(chain.components) : getFilesForComponent(chain, comp) # {}}),
         docType, LAMBDA comp : <<prefix, chain.id, comp>>)

FileOf(chain, id) == CHOOSE sf \in ToSet(chain.sourceFiles) : sf.id = id

getCrossComponentEdges(chain) ==
  Only(chain.edges,
       {e \in ToSet(chain.edges) :
          FileOf(chain, e.sourceFileId).component # FileOf(chain, e.targetFileId).component})

AllFunctions(chain) ==
  FlattenSeq([i \in DOMAIN chain.sourceFiles |->
    LET sf == chain.sourceFiles[i]
    IN  [j \in DOMAIN sf.keyFunctions |-> <<sf.id, sf.keyFunctions[j]>>]])

-----------------------------------------------------------------------------
(* Code analysis. *)

generateOverview(chain) == Doc("overview", <<"overview", chain.id>>)

generateSourceFileDocs(chain) ==
  Mapped(chain.sourceFiles, "source_file", LAMBDA sf : <<"file", chain.id, sf.id>>)

generateFunctionDocs(chain) ==
  Mapped(AllFunctions(chain), "function", LAMBDA fn : <<"func", chain.id, fn[1], fn[2]>>)

generateFlowDocs(chain) ==
  <<Doc("flow_complete", <<"flow-complete", chain.id>>)>>
    \o [i \in 1..chain.flowSteps |-> Doc("flow_step", <<"flow-step", chain.id, i - 1>>)]

generateCrossReferenceDocs(chain) ==
  Mapped(getCrossComponentEdges(chain), "cross_reference", LAMBDA e : <<"xref", chain.id, e.id>>)

(* Three questions about the chain, and one for each function.             *)
generateQAPairDocs(chain) ==
  [i \in 1..(3 + Len(AllFunctions(chain))) |-> Doc("qa_pair", <<"qa", chain.id, i - 1>>)]

-----------------------------------------------------------------------------
(* Operations. *)

generateDailyOpsDocs(chain) ==
  <<Doc("daily_ops", <<"ops-overview", chain.id>>)>>
    \o PerComponent(chain, "daily_ops", "ops-comp")
    \o <<Doc("daily_ops", <<"ops-monitoring", chain.id>>), Doc("daily_ops", <<"ops-config", chain.id>>)>>

generateDeepTroubleshootDocs(chain) ==
  <<Doc("deep_troubleshoot", <<"diag-path", chain.id>>)>>
    \o Mapped(Only(chain.sourceFiles, {sf \in ToSet(chain.sourceFiles) : sf.importance = "critical"}),
              "deep_troubleshoot", LAMBDA sf : <<"diag-critical", chain.id, sf.id>>)
    \o <<Doc("deep_troubleshoot", <<"diag-calltype", chain.id>>),
         Doc("deep_troubleshoot", <<"diag-rca", chain.id>>)>>

generateIncidentResponseDocs(chain) ==
  Mapped(<<"incident-plan", "incident-checklist", "incident-recovery", "incident-postmortem">>,
         "incident_response", LAMBDA prefix : <<prefix, chain.id>>)

generateTestingDocs(chain) ==
  Mapped(chain.sourceFiles, "testing", LAMBDA sf : <<"test-unit", chain.id, sf.id>>)
    \o Mapped(<<"test-integration", "test-perf", "test-regression">>, "testing",
              LAMBDA prefix : <<prefix, chain.id>>)

generateArchitectureDocs(chain) ==
  <<Doc("architecture", <<"arch-overview", chain.id>>)>>
    \o PerComponent(chain, "architecture", "arch-comp")
    \o <<Doc("architecture", <<"arch-patterns", chain.id>>), Doc("architecture", <<"arch-optim", chain.id>>)>>

generateFeatureConsultingDocs(chain) ==
  Mapped(chain.sourceFiles, "feature_consulting", LAMBDA sf : <<"consult-api", chain.id, sf.id>>)
    \o Mapped(<<"consult-config", "consult-bestpractice">>, "feature_consulting",
              LAMBDA prefix : <<prefix, chain.id>>)

generateProductLearningDocs(chain) ==
  Mapped(<<"learn-intro", "learn-tutorial", "learn-faq", "learn-glossary", "learn-path">>,
         "product_learning", LAMBDA prefix : <<prefix, chain.id>>)

FilterKeys == {
  "overview", "source_file", "function", "flow_complete", "cross_reference", "qa_pair",
  "daily_ops", "deep_troubleshoot", "incident_response", "testing", "architecture",
  "feature_consulting", "product_learning"}

(* The documents and, by the key of the panel's filter, their numbers.     *)
(* Flow documents have two types, and are counted together.                *)
generateRAGCorpus(chain) ==
  LET docs == [overview |-> <<generateOverview(chain)>>,
               source_file |-> generateSourceFileDocs(chain),
               function |-> generateFunctionDocs(chain),
               flow_complete |-> generateFlowDocs(chain),
               cross_reference |-> generateCrossReferenceDocs(chain),
               qa_pair |-> generateQAPairDocs(chain),
               daily_ops |-> generateDailyOpsDocs(chain),
               deep_troubleshoot |-> generateDeepTroubleshootDocs(chain),
               incident_response |-> generateIncidentResponseDocs(chain),
               testing |-> generateTestingDocs(chain),
               architecture |-> generateArchitectureDocs(chain),
               feature_consulting |-> generateFeatureConsultingDocs(chain),
               product_learning |-> generateProductLearningDocs(chain)]
      documents == FlattenSeq(<<
        docs.overview, docs.source_file, docs.function, docs.flow_complete, docs.cross_reference,
        docs.qa_pair, docs.daily_ops, docs.deep_troubleshoot, docs.incident_response, docs.testing,
        docs.architecture, docs.feature_consulting, docs.product_learning >>)
  IN  [documents |-> documents,
       stats |-> [type \in FilterKeys |-> Len(docs[type])],
       total |-> Len(documents)]
=============================================================================
