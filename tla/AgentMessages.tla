--------------------------- MODULE AgentMessages ---------------------------
(***************************************************************************)
(* The messages between the scheduler, the agents and the monitor of the   *)
(* memory bandwidth: one of them is written, by emit() or by a program     *)
(* that follows the payloads documented in the headers, may lose something *)
(* on its way, and is loaded into an object that has held another one.     *)
(*                                                                         *)
(* A message is its kind and its members; a dot stands for nesting.  Only  *)
(* the tag "task", which no load() looks at, is left out.                  *)
(***************************************************************************)
EXTENDS TaskMessages, FiniteSetsExt

(* There is something to set a member to. *)
ASSUME SetAssumption == \E v \in Values : v # Empty

VARIABLES
    leg,        \* how far the message is
    sent,       \* the message
    wire,       \* the document under way
    writer,     \* who wrote it: emit(), "emit", or by the "headers"; or it is "spoilt"
    object      \* the receiver's object

agentVars == <<leg, sent, wire, writer, object>>

-----------------------------------------------------------------------------
(* The members of each kind, in the order in which they are loaded.        *)

InitMembers == <<"hostname">>
KpisMembers == <<"repeat", "categories">>
InitAgentMembers == <<"KPI.repeat", "KPI.categories">>
JobDescriptionMembers == <<"job-id", "process-id">>
StopMonitoringMembers == <<"job-description.job-id", "job-description.process-id">>
AckMembers == <<>>
RequestMembers == <<"cores">>
ReplyMembers == <<"cores", "result">>
RestartMembers == <<"cgroup">>
StopMembers == <<"cgroup">>
SystemInfoMembers == <<"threads", "smt", "numa", "bandwidth">>

AgentKinds == {"init", "kpis", "init agent", "job description", "stop monitoring", "ack",
               "request", "reply", "restart", "stop", "system info"}

Members(kind) ==
    CASE kind = "init" -> InitMembers
      [] kind = "kpis" -> KpisMembers
      [] kind = "init agent" -> InitAgentMembers
      [] kind = "job description" -> JobDescriptionMembers
      [] kind = "stop monitoring" -> StopMonitoringMembers
      [] kind = "ack" -> AckMembers
      [] kind = "request" -> RequestMembers
      [] kind = "reply" -> ReplyMembers
      [] kind = "restart" -> RestartMembers
      [] kind = "stop" -> StopMembers
      [] kind = "system info" -> SystemInfoMembers

(* A map without entries, the only kind of member that is written as null. *)
Maps == {"categories", "KPI.categories"}

Messages(kind, values) ==
    {[kind |-> kind, members |-> m] : m \in [Range(Members(kind)) -> values]}

IsMessage(message) ==
    /\ message.kind \in AgentKinds
    /\ message.members \in [Range(Members(message.kind)) -> Values]

AgentTypeOK ==
    /\ leg \in {"none", "under way", "read", "rejected"}
    /\ IsMessage(sent) /\ IsMessage(object)
    /\ wire \in [DOMAIN wire -> Values \cup {Bad}]
    /\ writer \in {"emit", "headers", "spoilt"}

-----------------------------------------------------------------------------
(* Fault: what is empty is not written. *)
EmitSet(message) ==
    Only(message.members, {t \in DOMAIN message.members : message.members[t] # Empty})

(* emit(): null cannot be read as a map. *)
EmitMessage(message) ==
    [t \in DOMAIN message.members |->
        IF t \in Maps /\ message.members[t] = Empty THEN Bad ELSE message.members[t]]

(* The payloads of the headers.  That of init names the host "source",     *)
(* that of reply the result "response", and the categories of the KPIs are *)
(* a list there.                                                           *)
DocumentedInit(m) == [t \in {"source"} |-> m["hostname"]]
DocumentedInitAgent(m) == [m EXCEPT !["KPI.categories"] = Bad]
DocumentedReply(m) ==
    [t \in {"cores", "response"} |-> m[IF t = "cores" THEN "cores" ELSE "result"]]

Documented(message) ==
    CASE message.kind = "init" -> DocumentedInit(message.members)
      [] message.kind = "init agent" -> DocumentedInitAgent(message.members)
      [] message.kind = "reply" -> DocumentedReply(message.members)
      [] OTHER -> EmitMessage(message)

WithPayload == AgentKinds \ {"kpis", "job description"}

Unreadable(kind, doc) ==
    {i \in DOMAIN Members(kind) : Members(kind)[i] \notin DOMAIN doc \/ doc[Members(kind)[i]] = Bad}

(* Fault: what is missing is left out, as with the other load() that takes *)
(* a fallback.                                                             *)
Lenient(kind, doc) == DOMAIN Members(kind) # {} /\ Unreadable(kind, doc) = DOMAIN Members(kind)

MessageThrows(kind, doc) == Unreadable(kind, doc) # {}

(* load() throws at the first member that cannot be read. *)
LoadedMembers(kind, doc) ==
    {i \in DOMAIN Members(kind) : \A j \in Unreadable(kind, doc) : i < j}

LoadMessage(message, doc) ==
    LET loaded == {Members(message.kind)[i] : i \in LoadedMembers(message.kind, doc)}
    IN  [message EXCEPT !.members = Over(Only(doc, loaded), @)]

-----------------------------------------------------------------------------
(* Members that are numbers hold anything in an object nobody has set, so  *)
(* that any message may be the receiver's.                                 *)
AgentInit ==
    /\ leg = "none"
    /\ sent = [kind |-> "ack", members |-> Nothing]
    /\ wire = Nothing
    /\ writer = "emit"
    /\ object \in UNION {Messages(kind, Values \ {Empty}) : kind \in AgentKinds}

Write(message) ==
    /\ leg = "none"
    /\ sent' = message
    /\ \/ wire' = EmitMessage(message) /\ writer' = "emit"
       \/ /\ message.kind \in WithPayload
          /\ wire' = Documented(message) /\ writer' = "headers"
    /\ leg' = "under way"
    /\ UNCHANGED object

Spoil(t) ==
    /\ leg = "under way" /\ writer = "emit"
    /\ wire' \in {Only(wire, DOMAIN wire \ {t}), [wire EXCEPT ![t] = Bad]}
    /\ writer' = "spoilt"
    /\ UNCHANGED <<leg, sent, object>>

(* from_string, into the object. *)
Load ==
    /\ leg = "under way"
    /\ object' = LoadMessage(object, wire)
    /\ leg' = IF MessageThrows(object.kind, wire) THEN "rejected" ELSE "read"
    /\ UNCHANGED <<sent, wire, writer>>

Written == {Empty, CHOOSE v \in Values : v # Empty}

AgentNext ==
    \/ \E kind \in AgentKinds : \E message \in Messages(kind, Written) : Write(message)
    \/ \E t \in DOMAIN wire : Spoil(t)
    \/ Load

AgentSpec == AgentInit /\ [][AgentNext]_agentVars

-----------------------------------------------------------------------------
(* What emit() has written, an object of the same kind reads, and it is    *)
(* the message then whatever the object held; the KPIs' categories must    *)
(* not be empty, as those of a default object are.                         *)
WrittenIsRead ==
    leg \in {"read", "rejected"} /\ writer = "emit" /\ sent.kind = object.kind =>
        IF \E t \in Maps \cap DOMAIN sent.members : sent.members[t] = Empty
        THEN leg = "rejected"
        ELSE leg = "read" /\ object = sent

(* A message is taken for one of another kind only where the documented    *)
(* topics have to tell them apart: whoever waits for an ack takes          *)
(* anything, a reply is read as a request, and to stop a group of          *)
(* processes is to restart it.  In particular no spoilt message becomes    *)
(* another one.                                                            *)
KindsAreTold ==
    leg = "read" =>
        \/ sent.kind = object.kind \/ object.kind = "ack"
        \/ <<sent.kind, object.kind>>
              \in {<<"reply", "request">>, <<"stop", "restart">>, <<"restart", "stop">>}
=============================================================================
