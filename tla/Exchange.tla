------------------------------ MODULE Exchange ------------------------------
(***************************************************************************)
(* One request and its answer: an application fills a Task_container and   *)
(* sends it, the migration framework loads it, executes the tasks and      *)
(* sends a Result_container, which the application loads.                  *)
(*                                                                         *)
(* One of the two documents may also be written by hand, with a tag        *)
(* missing or a value that cannot be read.  Both sides may load into a new *)
(* object or into the one they used before.                                *)
(***************************************************************************)
EXTENDS ResultMessages, FiniteSets

CONSTANTS
    Settable,       \* tags the application sets
    Outcomes,       \* what a task may result in
    MaxTasks,       \* bound: tasks of a request
    MaxFields,      \* bound: members set in a request
    UsedTasks,      \* the framework's Task_containers of earlier requests
    UsedResults     \* the application's Result_containers of earlier answers

IsResultContainer(c) ==
    /\ c = [title |-> c.title, results |-> c.results, id |-> c.id]
    /\ c.results \in Seq(Results) /\ c.id \in Values

(* What an earlier exchange may have left behind is what the objects hold. *)
ASSUME UsedAssumption ==
    /\ \A c \in UsedTasks : IsTaskContainer(c)
    /\ \A c \in UsedResults : IsResultContainer(c)
ASSUME OutcomesAssumption == Outcomes \subseteq Results
ASSUME BoundsAssumption == MaxTasks \in Nat /\ MaxFields \in Nat

VARIABLES
    phase,      \* how far the exchange is
    request,    \* the application's Task_container
    document,   \* the YAML document under way to the framework
    byHand,     \* whether one of the documents was written by hand
    task,       \* the framework's Task_container
    renewed,    \* whether it was new when the request was loaded
    answer,     \* the framework's Result_container
    reply,      \* the YAML document under way to the application
    result      \* the application's Result_container

vars == <<phase, request, document, byHand, task, renewed, answer, reply, result>>

Phases == {"compose", "sent", "loaded", "refused", "answered", "read", "unread"}

TypeOK ==
    /\ phase \in Phases
    /\ IsTaskContainer(request) /\ IsTaskContainer(task)
    /\ IsResultContainer(answer) /\ IsResultContainer(result)
    /\ byHand \in BOOLEAN /\ renewed \in BOOLEAN

Init ==
    /\ phase = "compose"
    /\ request = NewContainer
    /\ document = Nothing
    /\ byHand = FALSE
    /\ task \in UsedTasks \cup {NewContainer}
    /\ renewed = FALSE
    /\ answer = NewResults
    /\ reply = Nothing
    /\ result \in UsedResults \cup {NewResults}

-----------------------------------------------------------------------------
(* The application                                                         *)

SetTags(container) ==
    {<<0, t>> : t \in DOMAIN container.options} \cup
    UNION {{<<i, t>> : t \in {u \in DOMAIN container.tasks[i].fields :
                                 container.tasks[i].fields[u] # Empty}} :
              i \in DOMAIN container.tasks}

AddTask(kind) ==
    /\ phase = "compose" /\ Len(request.tasks) < MaxTasks
    /\ request' = [request EXCEPT !.tasks = Append(@, NewTask(kind))]
    /\ UNCHANGED <<phase, document, byHand, task, renewed, answer, reply, result>>

SetField(i, t, v) ==
    /\ phase = "compose" /\ Cardinality(SetTags(request)) < MaxFields
    /\ t \in Fields(request.tasks[i].kind) \cap Settable
    /\ t \in DOMAIN request.tasks[i].fields => request.tasks[i].fields[t] = Empty
    /\ request' = [request EXCEPT !.tasks[i].fields = Over([u \in {t} |-> v], @)]
    /\ UNCHANGED <<phase, document, byHand, task, renewed, answer, reply, result>>

SetOption(t, v) ==
    /\ phase = "compose" /\ Cardinality(SetTags(request)) < MaxFields
    /\ t \in ContainerOptionals \ DOMAIN request.options
    /\ request' = [request EXCEPT !.options = Over([u \in {t} |-> v], @)]
    /\ UNCHANGED <<phase, document, byHand, task, renewed, answer, reply, result>>

(* to_string: "No subtasks available to get type." is thrown otherwise. *)
SendRequest ==
    /\ phase = "compose" /\ request.tasks # <<>>
    /\ document' = EmitContainer(request)
    /\ phase' = "sent"
    /\ UNCHANGED <<request, byHand, task, renewed, answer, reply, result>>

(* What is left of a map when a value is missing or cannot be read. *)
Spoilt(f) == {Only(f, DOMAIN f \ {t}) : t \in DOMAIN f}
             \cup {[f EXCEPT ![t] = bad] : t \in DOMAIN f, bad \in BadNodes}

SpoiltNode(node) == {[node EXCEPT !.top = f] : f \in Spoilt(node.top)}
                    \cup {[node EXCEPT !.parameter = f] : f \in Spoilt(node.parameter)}

SpoiltList(doc) ==
    UNION {UNION {{[doc EXCEPT !.lists[key][i] = node] :
                      node \in SpoiltNode(doc.lists[key][i])} :
                     i \in DOMAIN doc.lists[key]} :
              key \in DOMAIN doc.lists}

WriteByHand ==
    /\ phase = "sent" /\ ~byHand
    /\ document' \in SpoiltNode(document) \cup SpoiltList(document)
                     \cup {[document EXCEPT !.lists = Nothing]}
    /\ byHand' = TRUE
    /\ UNCHANGED <<phase, request, task, renewed, answer, reply, result>>

(* from_string of the answer, into container. *)
ReadAnswer(container) ==
    /\ phase = "answered"
    /\ result' = LoadResults(container, reply)
    /\ phase' = IF LoadResultsThrows(reply) THEN "unread" ELSE "read"
    /\ reply' = Nothing
    /\ UNCHANGED <<request, document, byHand, task, renewed, answer>>

-----------------------------------------------------------------------------
(* The migration framework                                                 *)

(* from_string of the request, into container. *)
Receive(container) ==
    /\ phase = "sent"
    /\ task' = LoadContainer(container, document)
    /\ renewed' = (container = NewContainer)
    /\ phase' = IF LoadThrows(document) THEN "refused" ELSE "loaded"
    /\ document' = Nothing
    /\ UNCHANGED <<request, byHand, answer, reply, result>>

Id(container) ==
    IF "id" \in DOMAIN container.options THEN container.options["id"] ELSE Empty

(* One result for each task, under the id of the request. *)
Answer(results) ==
    /\ phase = "loaded"
    /\ Len(results) = Len(task.tasks)
    /\ answer' = [title |-> Title(Type(task)), results |-> results, id |-> Id(task)]
    /\ reply' = EmitResults(answer')
    /\ phase' = "answered"
    /\ UNCHANGED <<request, document, byHand, task, renewed, result>>

(* The answer is written by hand, without something it needs. *)
SpoilReply ==
    /\ phase = "answered" /\ ~byHand
    /\ \E i \in DOMAIN reply.nodes :
          reply' \in {[reply EXCEPT !.nodes[i] = f] : f \in Spoilt(reply.nodes[i])}
    /\ byHand' = TRUE
    /\ UNCHANGED <<phase, request, document, task, renewed, answer, result>>

Done == phase \in {"refused", "read", "unread"} /\ UNCHANGED vars

-----------------------------------------------------------------------------
Compose ==
    \/ \E kind \in Kinds : AddTask(kind)
    \/ \E v \in Values \ {Empty} :
          \/ \E i \in DOMAIN request.tasks : \E t \in Settable : SetField(i, t, v)
          \/ \E t \in ContainerOptionals : SetOption(t, v)

Next ==
    \/ Compose
    \/ SendRequest
    \/ WriteByHand
    \/ \E container \in {task, NewContainer} : Receive(container)
    \/ \E results \in [DOMAIN task.tasks -> Outcomes] : Answer(results)
    \/ SpoilReply
    \/ \E container \in {result, NewResults} : ReadAnswer(container)
    \/ Done

Spec == Init /\ [][Next]_vars

-----------------------------------------------------------------------------
(* What emit() has written, load() reads without an exception, unless      *)
(* tasks of several kinds are in one container.                            *)
OwnRequestsAreRead ==
    phase = "refused" =>
        byHand \/ \E i \in DOMAIN request.tasks : request.tasks[i].kind # Type(request)

(* What a document can represent arrives: the tasks whatever was in the    *)
(* container before, and in a new container the options too.               *)
RequestIsUnderstood ==
    phase = "loaded" /\ ~byHand /\ Representable(request) =>
        /\ task.tasks = request.tasks
        /\ renewed => task = request

(* A load() that throws leaves the container as it was.  Only when one of  *)
(* the container's own options cannot be read the tasks are new already -  *)
(* and for concurrent-execution not even then, if the task has to read it  *)
(* from the same node.                                                     *)
AllOrNothing ==
    [][phase' = "refused" /\ phase = "sent" =>
          \/ task' \in {task, NewContainer}
          \/ HasBad(document.top, {"id"})
          \/ InList(document.task) /\ HasBad(document.top, {"concurrent-execution"})]_vars

(* "The id may be used to track tasks/messages": the answer bears the id   *)
(* and the title of its request, provided the framework loaded the request *)
(* into a new container.                                                   *)
AnswerIsTracked ==
    phase = "read" /\ renewed /\ ~byHand =>
        /\ result.id = Id(request)
        /\ result.title = Title(Type(request))

(* The application finds the results of its request where it looks for     *)
(* them, also in a container that held others: a migration's in the first  *)
(* place, in all other cases nothing but these.  Time measurements do not  *)
(* arrive.                                                                 *)
ResultsAreCurrent ==
    LET Seen(r) == Only(r, DOMAIN r \ {"time-measurement"})
        seen == [i \in DOMAIN answer.results |-> Seen(answer.results[i])]
    IN  phase = "read" /\ ~byHand =>
            IF answer.title = "vm migrated"
            THEN Head(result.results) = Head(seen)
            ELSE result.results = seen
=============================================================================
