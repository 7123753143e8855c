------------------------- MODULE MCControlPipeHosts -------------------------
(* Two manners of a host, each with the events and requests that show most:  *)
(* a polite one sees every transfer to its end, an impatient one gives up    *)
(* transfers at any point, because they are never answered or for no reason. *)
EXTENDS MCControlPipe, ControlAnswers

VARIABLE manner

Polite == {GetConfig, GetConfigExact, GetInterface, GetString, SetAddress5,
           WriteByte, WriteLong}
Impatient == {GetConfig, GetString, WriteByte, BadGetStatus}
AllRequests == Polite \cup Impatient

\* The bus may be suspended under a polite host, and reset by an impatient one.
PoliteStep ==
  /\ Len(sent') > Len(sent) => stage = "idle" /\ sent'[Len(sent')] \in Polite
  /\ UNCHANGED resets
ImpatientStep ==
  /\ Len(sent') > Len(sent) => sent'[Len(sent')] \in Impatient
  /\ UNCHANGED suspends

HostsInit == AnswersInit /\ manner \in {"polite", "impatient"}
HostsNext ==
  /\ AnswersNext
  /\ IF manner = "polite" THEN PoliteStep ELSE ImpatientStep
  /\ UNCHANGED manner
HostsSpec == HostsInit /\ [][HostsNext]_<<answersVars, manner>> /\ Fairness
=============================================================================
