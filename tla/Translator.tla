----------------------------- MODULE Translator -----------------------------
(***************************************************************************)
(* translator/slm_bridge.py: translate_batch asks for the translation of   *)
(* every task at once and collects what passes validation.                 *)
(***************************************************************************)
EXTENDS LlmProvider

CONSTANT Batch    \* the tasks of one call of translate_batch, in order

Tasks == ToSet(Batch)

ASSUME BatchIsAList == Batch \in Seq(Tasks)

VARIABLES
  translation,  \* what has become of each task
  finished,     \* history: tasks in the order their translations ended
  results       \* what translate_batch returned, or Pending

translatorVars == <<translation, finished, results>>

Pending == <<"pending">>

TranslatorInit ==
  /\ translation = [t \in Tasks |-> "new"]
  /\ finished = <<>>
  /\ results = Pending

Translate(t) ==
  /\ translation[t] = "new"
  /\ StartRequest(t)
  /\ translation' = [translation EXCEPT ![t] = "asking"]
  /\ UNCHANGED <<finished, results>>

\* What _extract_json, from_dict and _validate make of an answer: a task, or one
\* exception or another (ValueError, but KeyError without a task_type).
Outcomes == {"task", "exception"}

TranslationAnswered(t) ==
  /\ left[t] # <<>>
  /\ \E o \in Outcomes : translation' = [translation EXCEPT ![t] = o]
  /\ finished' = Append(finished, t)
  /\ EndRequest(t)
  /\ UNCHANGED results

Failed(t) ==
  /\ translation' = [translation EXCEPT ![t] = "exception"]
  /\ finished' = Append(finished, t)

TranslationFails(t) ==
  /\ left[t] # <<>>
  /\ NextBackend(t)
  /\ IF Len(left[t]) = 1 THEN Failed(t) ELSE UNCHANGED <<translation, finished>>
  /\ UNCHANGED results

\* What of the first n elements of s is in the set good, in their order.
Selected(s, good) ==
  LET kept[n \in 0..Len(s)] ==
        IF n = 0 THEN <<>>
        ELSE IF s[n] \in good THEN Append(kept[n - 1], s[n]) ELSE kept[n - 1]
  IN  kept

Translated(s) == Selected(s, {t \in Tasks : translation[t] = "task"})[Len(s)]

\* mutant: results are collected as they come
GatherAsCompleted ==
  /\ results = Pending
  /\ \A t \in Tasks : translation[t] \in Outcomes
  /\ results' = Translated(finished)
  /\ UNCHANGED <<translation, finished, providerVars>>

\* gather keeps the order of the tasks; exceptions are left out of it.
Gather ==
  /\ results = Pending
  /\ \A t \in Tasks : translation[t] \in Outcomes
  /\ results' = Translated(Batch)
  /\ UNCHANGED <<translation, finished, providerVars>>

TranslateStep(t) == Translate(t) \/ TranslationAnswered(t) \/ TranslationFails(t)

TranslatorNext == Gather \/ \E t \in Tasks : TranslateStep(t)

-----------------------------------------------------------------------------
(* Properties *)

\* Translations and the order they ended in keep their types; what the batch
\* returns is BatchKeepsOrder's matter.
TranslatorTypeOK ==
  /\ translation \in [Tasks -> {"new", "asking"} \cup Outcomes]
  /\ finished \in Seq(Tasks)

\* The batch returns the tasks that were translated in the order they were given,
\* each once, in whatever order the backends answered.
BatchKeepsOrder ==
  results # Pending =>
    /\ \A i, j \in DOMAIN results :
         i < j => \E k, l \in DOMAIN Batch :
                    k < l /\ Batch[k] = results[i] /\ Batch[l] = results[j]
    /\ ToSet(results) = {t \in Tasks : translation[t] = "task"}
=============================================================================
