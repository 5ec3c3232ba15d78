----------------------------- MODULE LlmClients -----------------------------
(***************************************************************************)
(* The provider with both of its clients, as orchestrator/main.py builds   *)
(* them: one LLMProvider for the reports and for the translator.           *)
(***************************************************************************)
EXTENDS IncidentReports, Translator

ASSUME RequestsAreTheClients ==
  /\ Requests = Incidents \cup Tasks
  /\ Incidents \cap Tasks = {}

vars == <<providerVars, reportVars, translatorVars>>

Init == ProviderInit /\ ReportsInit /\ TranslatorInit

Next ==
  \/ ReportsNext /\ UNCHANGED translatorVars
  \/ TranslatorNext /\ UNCHANGED reportVars

\* The database answers or fails, and claude and gpt4o end by their timeouts at
\* the latest; nothing is assumed of a call of ollama.
FairSpec ==
  /\ Init /\ [][Next]_vars
  /\ \A i \in Incidents : WF_vars(ReportStep(i) /\ ~Hangs(i) /\ UNCHANGED translatorVars)
  /\ \A t \in Tasks : WF_vars(TranslateStep(t) /\ ~Hangs(t) /\ UNCHANGED reportVars)
  /\ WF_vars(Gather /\ UNCHANGED reportVars)

\* Every request, report and translation keeps its type.
TypeOK == ProviderTypeOK /\ ReportsTypeOK /\ TranslatorTypeOK

\* Every incident's task ends, and the batch returns, whatever the backends do,
\* unless a call of ollama never ends: then its own task hangs, or the whole batch.
RequestsSettle ==
  /\ \A i \in Incidents : []<>~Hangs(i) => (at[i] = "reading" ~> at[i] \in Over)
  /\ (\A t \in Tasks : []<>~Hangs(t)) => <>(results # Pending)
=============================================================================
