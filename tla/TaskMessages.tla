---------------------------- MODULE TaskMessages ----------------------------
(***************************************************************************)
(* The messages of the migration framework: tasks in a Task_container,     *)
(* what emit() writes into a YAML document and what load() reads from it.  *)
(*                                                                         *)
(* A task is its kind and its fields, a partial function from the names of *)
(* the members to values: an Optional that holds nothing and a vector that *)
(* is empty are not in the domain.  A YAML map is a partial function from  *)
(* tags to values; what is nested in it has a place of its own in the      *)
(* record that stands for the document.                                    *)
(***************************************************************************)
EXTENDS Sequences, Functions

CONSTANTS
    Values,     \* values of members, as they are read from a document
    Empty,      \* the value of a member nobody has set, such as ""
    Bad,        \* what a document may hold instead of a value
    BadItem     \* the same: a list, one of whose items cannot be read

BadNodes == {Bad, BadItem}

ASSUME ValuesAssumption ==
    Empty \in Values /\ Values \cap BadNodes = {} /\ Bad # BadItem

Nothing == <<>>

Only(f, tags) == Restrict(f, tags \cap DOMAIN f)

(* The values of f, and those of g that f does not have. *)
Over(f, g) == [t \in DOMAIN f \cup DOMAIN g |-> IF t \in DOMAIN f THEN f[t] ELSE g[t]]

(* Fault: only tags that are already there are merged. *)
MergeKnown(lhs, rhs) == lhs

(* merge_node: what the left node has stays. *)
MergeNode(lhs, rhs) == Over(lhs, rhs)

-----------------------------------------------------------------------------
(* The tags of each kind of task                                           *)

Kinds == {"start vm", "stop vm", "migrate vm", "evacuate node", "repin vm",
          "suspend vm", "resume vm", "quit"}

(* Optionals of Task itself. *)
TaskOptionals == {"concurrent-execution", "time-measurement", "driver"}

Optionals(kind) == TaskOptionals \cup
    CASE kind = "start vm" ->
            {"vm-name", "vcpus", "memory", "memnode-map", "xml", "ivshmem", "transient",
             "vcpu-map", "probe-with-ssh", "probe-hostname"}
      [] kind = "stop vm" -> {"vm-name", "regex", "force", "undefine"}
      [] kind = "evacuate node" -> {"vm-name"}
      [] OTHER -> {}

(* Members that are always written and that load() insists on. *)
Required(kind) ==
    CASE kind = "migrate vm" -> {"vm-name", "destination"}
      [] kind = "evacuate node" -> {"destinations"}
      [] kind = "repin vm" -> {"vm-name", "vcpu-map"}
      [] kind \in {"suspend vm", "resume vm"} -> {"vm-name"}
      [] OTHER -> {}

MigrationParameters ==
    {"retry_counter", "migration-type", "rdma-migration", "pscom-hook-procs", "transport"}

(* Optionals below the tag "parameter". *)
Parameters(kind) ==
    CASE kind = "migrate vm" -> MigrationParameters \cup {"swap-with", "vcpu-map"}
      [] kind = "evacuate node" -> MigrationParameters \cup {"mode", "overbooking"}
      [] OTHER -> {}

(* Vectors of a Start; load() takes nothing for what is no list at all.    *)
Vectors(kind) == IF kind = "start vm" THEN {"pci-ids", "pci-addrs"} ELSE {}

EmitTag(vector) == IF vector = "pci-addrs" THEN "dev" ELSE vector
LoadTag(vector) == IF vector = "pci-addrs" THEN "devs" ELSE vector

TopTags(kind) == Optionals(kind) \cup Required(kind)
Fields(kind) == TopTags(kind) \cup Parameters(kind) \cup Vectors(kind)

-----------------------------------------------------------------------------
(* A single task                                                           *)

NewTask(kind) == [kind |-> kind, fields |-> [t \in Required(kind) |-> Empty]]

EmitVectors(task) ==
    LET present == Vectors(task.kind) \cap DOMAIN task.fields
    IN  [t \in {EmitTag(v) : v \in present} |->
            task.fields[CHOOSE v \in present : EmitTag(v) = t]]

EmitTask(task) ==
    [top |-> MergeNode(Only(task.fields, TopTags(task.kind)), EmitVectors(task)),
     parameter |-> Only(task.fields, Parameters(task.kind))]

HasBad(f, tags) == \E t \in tags \cap DOMAIN f : f[t] \in BadNodes

(* A list is converted item by item, and there nothing is taken instead.   *)
HasBadItem(kind, top) ==
    \E v \in Vectors(kind) : LoadTag(v) \in DOMAIN top /\ top[LoadTag(v)] = BadItem

LoadTaskThrows(kind, node) ==
    \/ ~(Required(kind) \subseteq DOMAIN node.top)
    \/ HasBad(node.top, TopTags(kind))
    \/ HasBad(node.parameter, Parameters(kind))
    \/ HasBadItem(kind, node.top)

LoadVectors(kind, top) ==
    [v \in {w \in Vectors(kind) : LoadTag(w) \in DOMAIN top /\ top[LoadTag(w)] # Bad} |->
        top[LoadTag(v)]]

(* Fault: the parameters are looked up beside the other tags. *)
ParametersOnTop(kind, node) == Only(node.top, Parameters(kind))

LoadParameters(kind, node) == Only(node.parameter, Parameters(kind))

LoadTask(kind, node) ==
    [kind |-> kind,
     fields |-> Over(Only(node.top, TopTags(kind)),
                    Over(LoadParameters(kind, node), LoadVectors(kind, node.top)))]

-----------------------------------------------------------------------------
(* Task_container                                                          *)

ContainerOptionals == {"concurrent-execution", "id"}

NewContainer == [tasks |-> <<>>, options |-> Nothing]

(* type(): the kind of the first task; it throws if there is none. *)
Type(container) == Head(container.tasks).kind

(* The first task becomes part of the container's own node. *)
Merged == {"migrate vm", "evacuate node", "repin vm"}

EmitKey(kind) == IF kind = "start vm" THEN "vm-configurations" ELSE "list"

EmitContainer(container) ==
    LET kind == Type(container)
        front == EmitTask(Head(container.tasks))
        options == Only(container.options, ContainerOptionals)
    IN  IF kind \in Merged
        THEN [task |-> kind, top |-> MergeNode(front.top, options),
              parameter |-> front.parameter, lists |-> Nothing]
        ELSE [task |-> kind, top |-> options, parameter |-> Nothing,
              lists |-> [key \in {EmitKey(kind)} |->
                           [i \in DOMAIN container.tasks |-> EmitTask(container.tasks[i])]]]

(* Fault: every list is looked up under one key. *)
AlwaysList(kind) == "list"

LoadKey(kind) == IF kind = "start vm" THEN "vm-configurations" ELSE "list"

(* Quit, too, is read from the container's node. *)
InList(kind) == kind \notin Merged \cup {"quit"}

Nodes(doc) ==
    IF InList(doc.task)
    THEN doc.lists[LoadKey(doc.task)]
    ELSE <<[top |-> doc.top, parameter |-> doc.parameter]>>

(* Nothing is changed before all the tasks have been read. *)
LoadTasksThrows(doc) ==
    \/ doc.task \notin Kinds
    \/ InList(doc.task) /\ LoadKey(doc.task) \notin DOMAIN doc.lists
    \/ \E i \in DOMAIN Nodes(doc) : LoadTaskThrows(doc.task, Nodes(doc)[i])

LoadThrows(doc) == LoadTasksThrows(doc) \/ HasBad(doc.top, ContainerOptionals)

(* Fault: the container is emptied before the tasks are read. *)
Emptied(container) == [container EXCEPT !.tasks = <<>>]

(* The tasks have been read into a vector of their own. *)
Untouched(container) == container

LoadTasks(doc) == [i \in DOMAIN Nodes(doc) |-> LoadTask(doc.task, Nodes(doc)[i])]

(* load() into container: an Optional whose tag is missing keeps what it   *)
(* held.  concurrent_execution is read before id.                          *)
LoadContainer(container, doc) ==
    LET read == IF HasBad(doc.top, {"concurrent-execution"}) THEN {}
                ELSE IF HasBad(doc.top, {"id"}) THEN {"concurrent-execution"}
                ELSE ContainerOptionals
    IN  IF LoadTasksThrows(doc) THEN Untouched(container)
        ELSE [tasks |-> LoadTasks(doc),
              options |-> Over(Only(doc.top, read), container.options)]

-----------------------------------------------------------------------------
(* What the program's objects can hold.                                    *)

IsFields(f, tags) == DOMAIN f \subseteq tags /\ f \in [DOMAIN f -> Values]

IsTask(task) ==
    /\ task = [kind |-> task.kind, fields |-> task.fields]
    /\ task.kind \in Kinds
    /\ IsFields(task.fields, Fields(task.kind))
    /\ Required(task.kind) \subseteq DOMAIN task.fields

IsTaskContainer(container) ==
    /\ container = [tasks |-> container.tasks, options |-> container.options]
    /\ container.tasks \in Seq(Range(container.tasks))
    /\ \A task \in Range(container.tasks) : IsTask(task)
    /\ IsFields(container.options, ContainerOptionals)

(* The containers a document can represent.  The others lose something:    *)
(* addresses of PCI devices, written under one tag and read under another; *)
(* all but the first of tasks that are merged into the container's node,   *)
(* where the task's and the container's concurrent-execution are one; what *)
(* is set in a Quit, written to a list and not read from it; and a task    *)
(* whose kind is not that of the first.                                    *)
Representable(container) ==
    LET kind == Type(container)
        front == Head(container.tasks)
        concurrent == {"concurrent-execution"}
    IN  /\ container.tasks # <<>>
        /\ \A i \in DOMAIN container.tasks :
              /\ container.tasks[i].kind = kind
              /\ "pci-addrs" \notin DOMAIN container.tasks[i].fields
        /\ kind \in Merged \cup {"quit"} => Len(container.tasks) = 1
        /\ kind \in Merged =>
              Only(container.options, concurrent) = Only(front.fields, concurrent)
        /\ kind = "quit" =>
              front.fields = Nothing /\ Only(container.options, concurrent) = Nothing
=============================================================================
