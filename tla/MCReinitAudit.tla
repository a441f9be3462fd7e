--------------------------- MODULE MCReinitAudit ---------------------------
(* Small instances of the audited supervisor: a score is strong (1) or weak  *)
(* (0). The query service is prompt, answering every query before its        *)
(* timeout, or late, as the constants of the configuration say.              *)
EXTENDS ReinitAudit

VARIABLE service

Prompt == INSTANCE ReinitAudit WITH AnswersInTime <- TRUE, MaxInFlight <- 1

all == <<vars, audit, service>>

MCInit ==
  \/ service = "prompt" /\ Prompt!Init /\ AuditInit
  \/ service = "late" /\ Init /\ AuditInit

PromptCallbacks == service = "prompt" /\ Prompt!Callbacks /\ UNCHANGED <<audit, service>>
PromptTick == service = "prompt" /\ Prompt!AuditedTick /\ UNCHANGED service
LateCallbacks == service = "late" /\ Callbacks /\ UNCHANGED <<audit, service>>
LateTick == service = "late" /\ AuditedTick /\ UNCHANGED service

MCNext == PromptCallbacks \/ PromptTick \/ LateCallbacks \/ LateTick

(* A prompt service answers, or the call fails.                              *)
Answered == PromptCallbacks /\ inFlight' < inFlight

(* The timer fires for ever; the request and the localizer's reports need    *)
(* not, and a late service may never answer.                                 *)
MCSpec == MCInit /\ [][MCNext]_all
          /\ WF_all(PromptTick \/ LateTick) /\ WF_all(Answered)

StrongOrWeak == {0, 1}

ShortLists == {<<>>, <<0>>, <<1>>, <<1, 0>>, <<1, 1, 1>>}
=============================================================================
