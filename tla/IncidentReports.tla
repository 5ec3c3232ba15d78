-------------------------- MODULE IncidentReports --------------------------
(***************************************************************************)
(* llm/incident_reporter.py and the task _generate_incident_report of      *)
(* orchestrator/server.py: an automatic quarantine starts a task that reads *)
(* the agent's recent metrics, asks for a report, and writes it to two     *)
(* files.  Tasks of several incidents run at once, and share the cache of  *)
(* answers and the directory.                                              *)
(***************************************************************************)
EXTENDS LlmProvider

CONSTANTS
  Incidents,  \* automatic quarantines
  Prompts,    \* prompts: an agent, a reason and the agent's recent metrics
  Names       \* values of report_id that answers give

\* What an answer is to _parse_response: no JSON; JSON it cannot use, such as a
\* list or a severity that is no number; a report without scores of its own; a
\* complete report.  A report may have a report_id; it is taken as it is, and one
\* with a "/" in it, or too long, names no file that could be opened.
Kinds == {"prose", "odd", "bare", "full"}
Unnamed == "unnamed"
Unusable == "unusable"
Answers == [kind : Kinds, name : Names \cup {Unnamed, Unusable}]

VARIABLES
  at,        \* where each incident's task is
  prompt,    \* the prompt it built
  cache,     \* _prompt_cache: answers by prompt
  json,      \* the incident each <report_id>.json is about
  markdown,  \* the same for each <report_id>.md
  via        \* history: what decided the outcome of each incident

reportVars == <<at, prompt, cache, json, markdown, via>>

\* A report without a report_id gets an id of its own, called by its incident.
Ids == Names \cup Incidents
None == "none"
Empty == "empty"
NoAnswer == [kind |-> None, name |-> Unnamed]

ReportsInit ==
  /\ at = [i \in Incidents |-> "no task"]
  /\ prompt = [i \in Incidents |-> None]
  /\ cache = [q \in Prompts |-> NoAnswer]
  /\ json = [d \in Ids |-> None]
  /\ markdown = [d \in Ids |-> None]
  /\ via = [i \in Incidents |-> None]

ASSUME ReportParameters ==
  /\ Incidents \cap Names = {}
  /\ {Unnamed, Unusable} \cap Names = {}
  /\ {None, Empty} \cap Incidents = {}
  /\ None \notin Prompts

-----------------------------------------------------------------------------
(* save *)

\* The report without an answer to go by.
Fallback == [kind |-> "fallback", name |-> Unnamed]

\* mutant: reports without an id are named after their prompt
IdOfPrompt(i, report) ==
  IF report.name = Unnamed THEN CHOOSE j \in Incidents : prompt[j] = prompt[i]
                           ELSE report.name

IdOf(i, report) == IF report.name = Unnamed THEN i ELSE report.name

\* The scores of the quarantine event have a "detector_name" where
\* _build_markdown looks for a "detector": it raises for a report that shows
\* them, when the .md file is open already.
Markdown(i, report) == IF report.kind = "full" THEN i ELSE Empty

\* mutant: the Markdown comes first
SaveMarkdownFirst(i, report) ==
  LET d == IdOf(i, report)
  IN /\ markdown' = [markdown EXCEPT ![d] = Markdown(i, report)]
     /\ IF Markdown(i, report) = Empty THEN UNCHANGED json ELSE json' = [json EXCEPT ![d] = i]
     /\ at' = [at EXCEPT ![i] = IF Markdown(i, report) = Empty THEN "half saved" ELSE "saved"]

WriteFiles(i, report) ==
  LET d == IdOf(i, report)
  IN /\ json' = [json EXCEPT ![d] = i]
     /\ markdown' = [markdown EXCEPT ![d] = Markdown(i, report)]
     /\ at' = [at EXCEPT ![i] = IF Markdown(i, report) = Empty THEN "half saved" ELSE "saved"]

Fails(i) ==
  /\ at' = [at EXCEPT ![i] = "failed"]
  /\ UNCHANGED <<json, markdown>>

\* The exceptions, of an unfinished Markdown and of a file that cannot be opened,
\* are logged.
Save(i, report) ==
  IF report.name = Unusable THEN Fails(i) ELSE WriteFiles(i, report)

-----------------------------------------------------------------------------
(* generate *)

Quarantined(i) ==
  /\ at[i] = "no task"
  /\ at' = [at EXCEPT ![i] = "reading"]
  /\ UNCHANGED <<prompt, cache, json, markdown, via, providerVars>>

\* get_recent_metrics raises: the task logs it, and there is no report.
ReadFails(i) ==
  /\ at[i] = "reading"
  /\ Fails(i)
  /\ via' = [via EXCEPT ![i] = "reading"]
  /\ UNCHANGED <<prompt, cache, providerVars>>

\* _parse_response of a report or of a text that is no JSON.
Parsed(answer) == IF answer.kind = "prose" THEN Fallback ELSE answer

\* A cached answer is parsed outside the try.
FromCache(i, answer) ==
  /\ via' = [via EXCEPT ![i] = "cache"]
  /\ IF answer.kind = "odd" THEN Fails(i) ELSE Save(i, Parsed(answer))
  /\ UNCHANGED providerVars

AskFirst(i) ==
  /\ StartRequest(i)
  /\ at' = [at EXCEPT ![i] = "asking"]
  /\ UNCHANGED <<json, markdown, via>>

ReadEntries(i) ==
  /\ at[i] = "reading"
  /\ \E q \in Prompts :
       /\ prompt' = [prompt EXCEPT ![i] = q]
       /\ IF cache[q] # NoAnswer THEN FromCache(i, cache[q]) ELSE AskFirst(i)
  /\ UNCHANGED cache

\* mutant: an answer is parsed outside the try, like a cached one
AnsweredBare(i) ==
  /\ left[i] # <<>>
  /\ \E answer \in Answers :
       /\ cache' = [cache EXCEPT ![prompt[i]] = answer]
       /\ IF answer.kind = "odd" THEN Fails(i) ELSE Save(i, Parsed(answer))
  /\ via' = [via EXCEPT ![i] = "answer"]
  /\ EndRequest(i)
  /\ UNCHANGED prompt

\* The answer is cached before it is parsed; what it cannot be used for, the
\* fallback report replaces.
Answered(i) ==
  /\ left[i] # <<>>
  /\ \E answer \in Answers :
       LET report == IF answer.kind = "odd" THEN Fallback ELSE Parsed(answer)
       IN /\ cache' = [cache EXCEPT ![prompt[i]] = answer]
          /\ Save(i, report)
          /\ via' = [via EXCEPT ![i] = IF report.name = Unusable THEN "id" ELSE "answer"]
  /\ EndRequest(i)
  /\ UNCHANGED prompt

\* mutant: the failure of the last backend is nobody's
LastFailureIgnored(i) ==
  /\ left[i] # <<>>
  /\ NextBackend(i)
  /\ UNCHANGED <<prompt, cache, at, json, markdown, via>>

BackendFails(i) ==
  /\ left[i] # <<>>
  /\ NextBackend(i)
  /\ IF Len(left[i]) = 1
     THEN Save(i, Fallback) /\ via' = [via EXCEPT ![i] = "backends"]
     ELSE UNCHANGED <<at, json, markdown, via>>
  /\ UNCHANGED <<prompt, cache>>

\* CACHE_TTL_SECONDS have passed.
Expires(q) ==
  /\ cache[q] # NoAnswer
  /\ cache' = [cache EXCEPT ![q] = NoAnswer]
  /\ UNCHANGED <<at, prompt, json, markdown, via, providerVars>>

\* The end of the event loop cancels the task at its await: CancelledError passes
\* every "except Exception" on its way.
Cancelled(i) ==
  /\ at[i] \in {"reading", "asking"}
  /\ at' = [at EXCEPT ![i] = "cancelled"]
  /\ EndRequest(i)
  /\ UNCHANGED <<prompt, cache, json, markdown, via>>

ReportStep(i) == ReadFails(i) \/ ReadEntries(i) \/ Answered(i) \/ BackendFails(i)

ReportsNext ==
  \/ \E i \in Incidents : Quarantined(i) \/ ReportStep(i) \/ Cancelled(i)
  \/ \E q \in Prompts : Expires(q)

-----------------------------------------------------------------------------
(* Properties *)

Over == {"saved", "half saved", "failed", "cancelled"}

\* Tasks, prompts, the cache and the files keep their types.
ReportsTypeOK ==
  /\ at \in [Incidents -> Over \cup {"no task", "reading", "asking"}]
  /\ prompt \in [Incidents -> Prompts \cup {None}]
  /\ cache \in [Prompts -> Answers \cup {NoAnswer}]
  /\ json \in [Ids -> Incidents \cup {None}]
  /\ markdown \in [Ids -> Incidents \cup {None, Empty}]
  /\ via \in [Incidents -> {None, "reading", "cache", "answer", "id", "backends"}]

\* When every backend failed the incident has its own JSON report, and an answer
\* that cannot be read costs none: a task fails only by metrics that it cannot
\* read, by a report_id that can name no file, and by an answer in the cache,
\* which is parsed without the fallback that replaced it the first time.
ReportedDespiteProviders ==
  \A i \in Incidents :
    /\ via[i] = "backends" => json[i] = i
    /\ at[i] = "failed" => via[i] \in {"reading", "cache", "id"}

\* The two files of one id are about one incident, whichever of several tasks wrote
\* there last, and the Markdown is complete if that task ended well: an earlier
\* report's text never stands beside a later one's JSON.
FilesAgree ==
  \A d \in Ids :
    markdown[d] = IF json[d] = None \/ at[json[d]] = "saved" THEN json[d] ELSE Empty

\* A report whose id was not the backend's choice is never overwritten, so each
\* such incident keeps its own, whoever else asked with the same prompt.
OwnReportsStay ==
  [][\A i \in Incidents : json[i] # None => UNCHANGED <<json[i], markdown[i]>>]_reportVars
=============================================================================
