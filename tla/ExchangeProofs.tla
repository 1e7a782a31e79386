--------------------------- MODULE ExchangeProofs ---------------------------
(***************************************************************************)
(* What emit() writes load() reads: first for a task, then for a           *)
(* Task_container, then for the exchange of a request and its answer, and  *)
(* last for the messages of the agents.                                    *)
(***************************************************************************)
EXTENDS Exchange, AgentMessages, TLAPS

(* A part of f that is written and read again. *)
Part(f, tags) == [t \in tags \cap DOMAIN f |-> f[t]]

LEMMA OnlyIsPart == \A f, tags : Only(f, tags) = Part(f, tags)
BY DEF Only, Restrict, Part

(* No tag stands for two members of a task. *)
LEMMA TagsAreApart ==
    ASSUME NEW kind \in Kinds
    PROVE  /\ TopTags(kind) \cap Parameters(kind) = {}
           /\ TopTags(kind) \cap Vectors(kind) = {}
           /\ Parameters(kind) \cap Vectors(kind) = {}
           /\ "dev" \notin TopTags(kind)
BY DEF Kinds, TopTags, Optionals, TaskOptionals, Required, Parameters, MigrationParameters,
       Vectors

(* The addresses of PCI devices aside, vectors are written and read under  *)
(* the same tag.                                                           *)
LEMMA VectorsWritten ==
    ASSUME NEW t, IsTask(t), "pci-addrs" \notin DOMAIN t.fields
    PROVE  EmitVectors(t) = Part(t.fields, Vectors(t.kind))
<1> DEFINE present == Vectors(t.kind) \cap DOMAIN t.fields
<1>1. \A v \in present : EmitTag(v) = v
  BY DEF Vectors, EmitTag
<1>2. {EmitTag(v) : v \in present} = present
  BY <1>1
<1>3. ASSUME NEW u \in present
      PROVE  (CHOOSE v \in present : EmitTag(v) = u) = u
  BY <1>1
<1>4. EmitVectors(t) = [u \in present |-> t.fields[CHOOSE v \in present : EmitTag(v) = u]]
  BY <1>2 DEF EmitVectors
<1> HIDE DEF present
<1>5. EmitVectors(t) = [u \in present |-> t.fields[u]]
  BY <1>3, <1>4
<1> QED
  BY <1>5 DEF Part, present

LEMMA TopWritten ==
    ASSUME NEW t, IsTask(t), "pci-addrs" \notin DOMAIN t.fields
    PROVE  EmitTask(t).top = Part(t.fields, TopTags(t.kind) \cup Vectors(t.kind))
<1>1. EmitTask(t).top = Over(Part(t.fields, TopTags(t.kind)), Part(t.fields, Vectors(t.kind)))
  BY VectorsWritten, OnlyIsPart DEF EmitTask, MergeNode
<1> QED
  BY <1>1 DEF Over, Part

LEMMA ValuesAreGood ==
    ASSUME NEW t, IsTask(t), NEW tag \in DOMAIN t.fields
    PROVE  t.fields[tag] \in Values /\ t.fields[tag] \notin BadNodes
BY ValuesAssumption DEF IsTask, IsFields

(* A task that is read from a node that begins as its own is itself; what  *)
(* else is on the node, from the container, does not matter.               *)
LEMMA TaskIsRead ==
    ASSUME NEW t, IsTask(t), "pci-addrs" \notin DOMAIN t.fields,
           NEW top, NEW node,
           node = [top |-> top, parameter |-> EmitTask(t).parameter],
           Part(top, TopTags(t.kind)) = Part(t.fields, TopTags(t.kind)),
           Part(top, Vectors(t.kind)) = Part(t.fields, Vectors(t.kind)),
           "devs" \notin DOMAIN top
    PROVE  /\ LoadTask(t.kind, node) = t
           /\ ~LoadTaskThrows(t.kind, node)
<1> DEFINE f == t.fields
           k == t.kind
<1>0. /\ t = [kind |-> k, fields |-> f]
      /\ k \in Kinds
      /\ f = [x \in DOMAIN f |-> f[x]]
      /\ DOMAIN f \subseteq TopTags(k) \cup Parameters(k) \cup Vectors(k)
      /\ Required(k) \subseteq DOMAIN f
  BY DEF IsTask, IsFields, Fields
<1>p. node.parameter = Part(f, Parameters(k))
  BY OnlyIsPart DEF EmitTask
<1>1. Only(node.top, TopTags(k)) = Part(f, TopTags(k))
  BY OnlyIsPart
<1>2. LoadParameters(k, node) = Part(f, Parameters(k))
  BY <1>p, OnlyIsPart DEF LoadParameters, Part
<1>3. LoadVectors(k, node.top) = Part(f, Vectors(k))
  <2>1. \A w \in Vectors(k) : LoadTag(w) \in DOMAIN top =>
            w \in Vectors(k) \cap DOMAIN top /\ LoadTag(w) = w
    BY DEF Vectors, LoadTag
  <2>2. Vectors(k) \cap DOMAIN top = Vectors(k) \cap DOMAIN f
    BY DEF Part
  <2>3. \A w \in Vectors(k) \cap DOMAIN top : LoadTag(w) = w
    BY <2>2 DEF Vectors, LoadTag
  <2>4. \A w \in Vectors(k) \cap DOMAIN top : top[w] = f[w] /\ top[w] \notin BadNodes
    BY <2>2, ValuesAreGood DEF Part
  <2> QED
    BY <2>1, <2>2, <2>3, <2>4 DEF LoadVectors, BadNodes, Part
<1>4. Over(Part(f, TopTags(k)), Over(Part(f, Parameters(k)), Part(f, Vectors(k)))) = f
  <2> HIDE DEF f, k
  <2> QED
    BY <1>0 DEF Over, Part
<1>5. LoadTask(k, node) = t
  BY <1>0, <1>1, <1>2, <1>3, <1>4 DEF LoadTask
<1>6. Required(k) \subseteq DOMAIN node.top
  BY <1>0 DEF Part, TopTags
<1>7. ~HasBad(node.top, TopTags(k))
  BY ValuesAreGood DEF Part, HasBad
<1>8. ~HasBad(node.parameter, Parameters(k))
  BY <1>p, ValuesAreGood DEF Part, HasBad
<1>9. ~HasBadItem(k, node.top)
  <2>1. \A w \in Vectors(k) : LoadTag(w) \in DOMAIN top =>
            /\ w \in DOMAIN Part(top, Vectors(k)) /\ LoadTag(w) = w
    BY DEF Vectors, LoadTag, Part
  <2>2. \A w \in DOMAIN Part(top, Vectors(k)) : top[w] = f[w] /\ w \in DOMAIN f
    BY DEF Part
  <2> QED
    BY <2>1, <2>2, ValuesAreGood DEF HasBadItem, BadNodes
<1> QED
  BY <1>5, <1>6, <1>7, <1>8, <1>9 DEF LoadTaskThrows
-----------------------------------------------------------------------------
(* Containers                                                              *)

LEMMA Front ==
    ASSUME NEW c, IsTaskContainer(c), c.tasks # <<>>
    PROVE  /\ c.tasks \in Seq(Range(c.tasks))
           /\ Len(c.tasks) > 0
           /\ DOMAIN c.tasks = 1..Len(c.tasks)
           /\ Head(c.tasks) = c.tasks[1]
           /\ \A i \in DOMAIN c.tasks : IsTask(c.tasks[i])
           /\ Type(c) = c.tasks[1].kind
           /\ Type(c) \in Kinds
<1>1. c.tasks \in Seq(Range(c.tasks)) /\ \A t \in Range(c.tasks) : IsTask(t)
  BY DEF IsTaskContainer
<1>2. \A i \in DOMAIN c.tasks : c.tasks[i] \in Range(c.tasks)
  BY DEF Range
<1>3. Len(c.tasks) > 0 /\ Head(c.tasks) = c.tasks[1] /\ DOMAIN c.tasks = 1..Len(c.tasks)
  BY <1>1
<1> QED
  BY <1>1, <1>2, <1>3 DEF Type, IsTask

LEMMA OptionsAreGood ==
    ASSUME NEW c, IsTaskContainer(c)
    PROVE  /\ Only(c.options, ContainerOptionals) = c.options
           /\ \A tag \in DOMAIN c.options : c.options[tag] \notin BadNodes
           /\ DOMAIN c.options \subseteq ContainerOptionals
BY OnlyIsPart, ValuesAssumption DEF IsTaskContainer, IsFields, Part

(* The tasks of the kinds that are written to a list.                      *)
LEMMA ListIsRead ==
    ASSUME NEW c, IsTaskContainer(c), Representable(c), InList(Type(c))
    PROVE  /\ ~LoadTasksThrows(EmitContainer(c))
           /\ LoadTasks(EmitContainer(c)) = c.tasks
           /\ EmitContainer(c).top = c.options
<1> DEFINE doc == EmitContainer(c)
           k == Type(c)
<1>0. c.tasks # <<>>
  BY DEF Representable
<1>1. /\ doc.task = k
      /\ doc.top = c.options
      /\ doc.lists = [key \in {EmitKey(k)} |-> [i \in DOMAIN c.tasks |-> EmitTask(c.tasks[i])]]
  BY OptionsAreGood DEF EmitContainer, InList
<1>2. LoadKey(k) = EmitKey(k)
  BY DEF LoadKey, EmitKey
<1>3. LoadKey(doc.task) \in DOMAIN doc.lists
  BY <1>1, <1>2
<1>4. Nodes(doc) = [i \in DOMAIN c.tasks |-> EmitTask(c.tasks[i])]
  BY <1>1, <1>2 DEF Nodes
<1>5. ASSUME NEW i \in DOMAIN c.tasks
      PROVE  /\ LoadTask(k, EmitTask(c.tasks[i])) = c.tasks[i]
             /\ ~LoadTaskThrows(k, EmitTask(c.tasks[i]))
  <2> DEFINE t == c.tasks[i]
  <2>1. IsTask(t) /\ "pci-addrs" \notin DOMAIN t.fields /\ t.kind = k
    BY <1>0, Front DEF Representable
  <2>2. EmitTask(t).top = Part(t.fields, TopTags(k) \cup Vectors(k))
    BY <2>1, TopWritten
  <2>3. EmitTask(t) = [top |-> EmitTask(t).top, parameter |-> EmitTask(t).parameter]
    BY DEF EmitTask
  <2>4. "devs" \notin TopTags(k) \cup Vectors(k)
    BY DEF TopTags, Optionals, TaskOptionals, Required, Vectors
  <2>5. /\ Part(EmitTask(t).top, TopTags(k)) = Part(t.fields, TopTags(k))
        /\ Part(EmitTask(t).top, Vectors(k)) = Part(t.fields, Vectors(k))
        /\ "devs" \notin DOMAIN EmitTask(t).top
    BY <2>2, <2>4 DEF Part
  <2> QED
    BY <2>1, <2>3, <2>5, TaskIsRead
<1>6. c.tasks = [i \in DOMAIN c.tasks |-> c.tasks[i]]
  BY <1>0, Front
<1>7. k \in Kinds
  BY <1>0, Front
<1> HIDE DEF doc, k
<1>8. ~LoadTasksThrows(doc)
  BY <1>1, <1>3, <1>4, <1>5, <1>7 DEF LoadTasksThrows
<1>9. LoadTasks(doc) = c.tasks
  BY <1>1, <1>4, <1>5, <1>6 DEF LoadTasks
<1> QED
  BY <1>1, <1>8, <1>9 DEF doc
(* The task that is merged into the container's node.                      *)
LEMMA MergedIsRead ==
    ASSUME NEW c, IsTaskContainer(c), Representable(c), Type(c) \in Merged
    PROVE  /\ ~LoadTasksThrows(EmitContainer(c))
           /\ LoadTasks(EmitContainer(c)) = c.tasks
           /\ Only(EmitContainer(c).top, ContainerOptionals) = c.options
<1> DEFINE doc == EmitContainer(c)
           k == Type(c)
           t == c.tasks[1]
           f == t.fields
           o == c.options
<1>0. /\ c.tasks # <<>> /\ Head(c.tasks) = t /\ k \in Kinds
      /\ IsTask(t) /\ t.kind = k /\ "pci-addrs" \notin DOMAIN f
      /\ Len(c.tasks) = 1 /\ c.tasks \in Seq(Range(c.tasks))
      /\ Only(o, {"concurrent-execution"}) = Only(f, {"concurrent-execution"})
  BY Front DEF Representable
<1>1. /\ doc.task = k
      /\ doc.top = Over(EmitTask(t).top, o)
      /\ doc.parameter = EmitTask(t).parameter
  BY <1>0, OptionsAreGood DEF EmitContainer, MergeNode
<1>2. Nodes(doc) = <<[top |-> doc.top, parameter |-> doc.parameter]>>
  BY <1>1 DEF Nodes, InList
<1>3. /\ Vectors(k) = {}
      /\ "id" \notin TopTags(k)
      /\ "devs" \notin TopTags(k)
      /\ ContainerOptionals = {"concurrent-execution", "id"}
      /\ "concurrent-execution" \in TopTags(k)
  BY DEF Vectors, Merged, TopTags, Optionals, TaskOptionals, Required, ContainerOptionals
<1>4. EmitTask(t).top = Part(f, TopTags(k))
  BY <1>0, <1>3, TopWritten
<1>5. /\ DOMAIN o \subseteq {"concurrent-execution", "id"}
      /\ o = [x \in DOMAIN o |-> o[x]]
  BY <1>3, OptionsAreGood DEF IsTaskContainer, IsFields
<1>6. /\ "concurrent-execution" \in DOMAIN o <=> "concurrent-execution" \in DOMAIN f
      /\ "concurrent-execution" \in DOMAIN o =>
            o["concurrent-execution"] = f["concurrent-execution"]
  <2>1. Part(o, {"concurrent-execution"}) = Part(f, {"concurrent-execution"})
    BY <1>0, OnlyIsPart
  <2> QED
    BY <2>1 DEF Part
<1> HIDE DEF k, t, f, o, doc
<1>7. /\ Part(doc.top, TopTags(k)) = Part(f, TopTags(k))
      /\ Part(doc.top, Vectors(k)) = Part(f, Vectors(k))
      /\ "devs" \notin DOMAIN doc.top
  BY <1>1, <1>3, <1>4, <1>5, <1>6 DEF Part, Over
<1>8. Part(doc.top, ContainerOptionals) = o
  BY <1>1, <1>3, <1>4, <1>5, <1>6 DEF Part, Over
<1>9. /\ LoadTask(k, [top |-> doc.top, parameter |-> doc.parameter]) = t
      /\ ~LoadTaskThrows(k, [top |-> doc.top, parameter |-> doc.parameter])
  BY <1>0, <1>1, <1>7, TaskIsRead DEF f
<1>10. c.tasks = <<t>>
  BY <1>0 DEF t
<1>11. ~LoadTasksThrows(doc)
  <2>1. ~InList(doc.task)
    BY <1>1 DEF InList, k
  <2> QED
    BY <1>0, <1>1, <1>2, <1>9, <2>1 DEF LoadTasksThrows
<1>12. LoadTasks(doc) = c.tasks
  BY <1>1, <1>2, <1>9, <1>10 DEF LoadTasks
<1> QED
  BY <1>8, <1>11, <1>12, OnlyIsPart DEF doc, o

(* A Quit in which nothing is set.                                         *)
LEMMA QuitIsRead ==
    ASSUME NEW c, IsTaskContainer(c), Representable(c), Type(c) = "quit"
    PROVE  /\ ~LoadTasksThrows(EmitContainer(c))
           /\ LoadTasks(EmitContainer(c)) = c.tasks
           /\ EmitContainer(c).top = c.options
<1> DEFINE doc == EmitContainer(c)
           t == c.tasks[1]
           o == c.options
           node == [top |-> o, parameter |-> Nothing]
<1>0. /\ c.tasks # <<>> /\ Head(c.tasks) = t
      /\ IsTask(t) /\ t.kind = "quit" /\ t.fields = Nothing
      /\ Len(c.tasks) = 1 /\ c.tasks \in Seq(Range(c.tasks))
      /\ Only(o, {"concurrent-execution"}) = Nothing
  BY Front DEF Representable
<1>1. doc.task = "quit" /\ doc.top = o /\ doc.parameter = Nothing
  BY OptionsAreGood DEF EmitContainer, Merged
<1>2. Nodes(doc) = <<node>>
  BY <1>1 DEF Nodes, InList
<1>3. /\ Vectors("quit") = {}
      /\ Parameters("quit") = {}
      /\ "id" \notin TopTags("quit")
      /\ "devs" \notin {"concurrent-execution", "id"}
  BY DEF Vectors, TopTags, Optionals, TaskOptionals, Required, Parameters
<1>4. DOMAIN Nothing = {}
  BY DEF Nothing
<1>5. DOMAIN o \subseteq {"id"}
  <2>1. DOMAIN Only(o, {"concurrent-execution"}) = {}
    BY <1>0, <1>4
  <2>2. "concurrent-execution" \notin DOMAIN o
    BY <2>1 DEF Only, Restrict
  <2> QED
    BY <2>2, OptionsAreGood DEF ContainerOptionals
<1>6. /\ Part(o, TopTags("quit")) = Part(Nothing, TopTags("quit"))
      /\ Part(o, Vectors("quit")) = Part(Nothing, Vectors("quit"))
  BY <1>3, <1>4, <1>5 DEF Part
<1>7. EmitTask(t).parameter = Nothing
  BY <1>0, <1>3, <1>4, OnlyIsPart DEF EmitTask, Part, Nothing
<1> HIDE DEF o, doc, t
<1>8. LoadTask("quit", node) = t /\ ~LoadTaskThrows("quit", node)
  BY <1>0, <1>3, <1>4, <1>5, <1>6, <1>7, TaskIsRead
<1>9. c.tasks = <<t>>
  BY <1>0 DEF t
<1> HIDE DEF node
<1>10. ~LoadTasksThrows(doc)
  BY <1>1, <1>2, <1>8 DEF LoadTasksThrows, InList, Kinds
<1>11. LoadTasks(doc) = c.tasks
  BY <1>1, <1>2, <1>8, <1>9 DEF LoadTasks
<1> QED
  BY <1>1, <1>10, <1>11 DEF doc, o

(* A container that a document can represent arrives as it was sent; its   *)
(* tasks arrive whatever the receiver's container held before.             *)
THEOREM ContainerArrives ==
    ASSUME NEW c, IsTaskContainer(c), Representable(c), NEW old
    PROVE  /\ ~LoadThrows(EmitContainer(c))
           /\ LoadContainer(old, EmitContainer(c)).tasks = c.tasks
           /\ LoadContainer(NewContainer, EmitContainer(c)) = c
<1> DEFINE doc == EmitContainer(c)
<1>1. /\ ~LoadTasksThrows(doc)
      /\ LoadTasks(doc) = c.tasks
      /\ Only(doc.top, ContainerOptionals) = c.options
  <2>1. CASE InList(Type(c))
    BY <2>1, ListIsRead, OptionsAreGood
  <2>2. CASE Type(c) \in Merged
    BY <2>2, MergedIsRead
  <2>3. CASE Type(c) = "quit"
    BY <2>3, QuitIsRead, OptionsAreGood
  <2> QED
    BY <2>1, <2>2, <2>3 DEF InList
<1>2. ~HasBad(doc.top, ContainerOptionals)
  <2>1. Part(doc.top, ContainerOptionals) = c.options
    BY <1>1, OnlyIsPart
  <2> QED
    BY <2>1, OptionsAreGood DEF HasBad, Part
<1>3. ~HasBad(doc.top, {"concurrent-execution"}) /\ ~HasBad(doc.top, {"id"})
  BY <1>2 DEF HasBad, ContainerOptionals
<1>4. \A p : LoadContainer(p, doc) = [tasks |-> c.tasks, options |-> Over(c.options, p.options)]
  BY <1>1, <1>3 DEF LoadContainer
<1>5. Over(c.options, Nothing) = c.options
  <2>1. c.options = [x \in DOMAIN c.options |-> c.options[x]]
    BY DEF IsTaskContainer, IsFields
  <2>2. DOMAIN Nothing = {}
    BY DEF Nothing
  <2> QED
    BY <2>1, <2>2 DEF Over
<1>6. LoadContainer(NewContainer, doc) = c
  BY <1>4, <1>5 DEF NewContainer, IsTaskContainer
<1> QED
  BY <1>1, <1>2, <1>4, <1>6 DEF LoadThrows
-----------------------------------------------------------------------------
(* The exchange                                                            *)

(* A container whose tasks are a sequence of tasks. *)
LEMMA ContainerOf ==
    ASSUME NEW tasks, NEW S, tasks \in Seq(S), \A t \in S : IsTask(t),
           NEW options, IsFields(options, ContainerOptionals)
    PROVE  IsTaskContainer([tasks |-> tasks, options |-> options])
<1>1. DOMAIN tasks = 1..Len(tasks) /\ \A i \in DOMAIN tasks : tasks[i] \in S
  OBVIOUS
<1>2. \A t \in Range(tasks) : IsTask(t)
  BY <1>1 DEF Range
<1>3. tasks \in Seq(Range(tasks))
  BY <1>1 DEF Range
<1> QED
  BY <1>2, <1>3 DEF IsTaskContainer

LEMMA AddTaskKeepsRequest ==
    ASSUME IsTaskContainer(request), NEW kind \in Kinds, AddTask(kind)
    PROVE  IsTaskContainer(request')
<1> DEFINE S == {t \in Range(request.tasks) \cup {NewTask(kind)} : IsTask(t)}
<1>1. IsTask(NewTask(kind))
  BY ValuesAssumption DEF IsTask, NewTask, IsFields, Fields, TopTags
<1>2. request.tasks \in Seq(S)
  BY DEF IsTaskContainer, Range
<1>3. Append(request.tasks, NewTask(kind)) \in Seq(S)
  BY <1>1, <1>2
<1>4. request' = [tasks |-> Append(request.tasks, NewTask(kind)), options |-> request.options]
  BY DEF AddTask, IsTaskContainer
<1>5. IsFields(request.options, ContainerOptionals)
  BY DEF IsTaskContainer
<1> HIDE DEF S
<1>6. \A t \in S : IsTask(t)
  BY DEF S
<1> QED
  BY <1>3, <1>4, <1>5, <1>6, ContainerOf

LEMMA OverKeepsFields ==
    ASSUME NEW f, NEW tags, IsFields(f, tags), NEW t \in tags, NEW v \in Values
    PROVE  /\ IsFields(Over([u \in {t} |-> v], f), tags)
           /\ DOMAIN f \subseteq DOMAIN Over([u \in {t} |-> v], f)
BY DEF IsFields, Over

LEMMA SetFieldKeepsRequest ==
    ASSUME IsTaskContainer(request), NEW i \in DOMAIN request.tasks, NEW t \in Settable,
           NEW v \in Values, SetField(i, t, v)
    PROVE  IsTaskContainer(request')
<1> DEFINE old == request.tasks[i]
           new == [old EXCEPT !.fields = Over([u \in {t} |-> v], old.fields)]
           S == {x \in Range(request.tasks) \cup {new} : IsTask(x)}
           tasks == [request.tasks EXCEPT ![i] = new]
<1>1. IsTask(old)
  BY DEF IsTaskContainer, Range
<1>2. t \in Fields(old.kind)
  BY DEF SetField
<1>3. new = [kind |-> old.kind, fields |-> Over([u \in {t} |-> v], old.fields)]
  BY <1>1 DEF IsTask
<1>4. IsTask(new)
  <2>1. /\ IsFields(Over([u \in {t} |-> v], old.fields), Fields(old.kind))
        /\ DOMAIN old.fields \subseteq DOMAIN Over([u \in {t} |-> v], old.fields)
    <3>1. IsFields(old.fields, Fields(old.kind))
      BY <1>1 DEF IsTask
    <3> HIDE DEF old
    <3> QED
      BY <1>2, <3>1 DEF IsFields, Over
  <2> HIDE DEF new
  <2> QED
    BY <1>1, <1>3, <2>1 DEF IsTask
<1>5. request' = [tasks |-> tasks, options |-> request.options]
  BY DEF SetField, IsTaskContainer
<1> HIDE DEF new
<1>6. request.tasks \in Seq(S)
  BY DEF IsTaskContainer, Range
<1>7. tasks \in Seq(S)
  BY <1>4, <1>6
<1>8. IsFields(request.options, ContainerOptionals)
  BY DEF IsTaskContainer
<1> HIDE DEF S, tasks
<1>9. \A x \in S : IsTask(x)
  BY DEF S
<1> QED
  BY <1>5, <1>7, <1>8, <1>9, ContainerOf

LEMMA SetOptionKeepsRequest ==
    ASSUME IsTaskContainer(request), NEW t \in ContainerOptionals, NEW v \in Values,
           SetOption(t, v)
    PROVE  IsTaskContainer(request')
<1>1. request' = [tasks |-> request.tasks,
                  options |-> Over([u \in {t} |-> v], request.options)]
  BY DEF SetOption, IsTaskContainer
<1>2. IsFields(Over([u \in {t} |-> v], request.options), ContainerOptionals)
  BY OverKeepsFields DEF IsTaskContainer
<1> QED
  BY <1>1, <1>2 DEF IsTaskContainer

(* The document under way is the request's, unless it was written by hand. *)
RequestUnderWay ==
    /\ IsTaskContainer(request)
    /\ phase = "sent" /\ ~byHand =>
          request.tasks # <<>> /\ document = EmitContainer(request)

IInv == RequestUnderWay /\ RequestIsUnderstood

LEMMA InitIInv == Init => IInv
<1> SUFFICES ASSUME Init PROVE IInv
  OBVIOUS
<1>1. IsTaskContainer(NewContainer)
  BY DEF IsTaskContainer, NewContainer, IsFields, Nothing, Range
<1> QED
  BY <1>1 DEF Init, IInv, RequestUnderWay, RequestIsUnderstood

LEMMA NextIInv == IInv /\ [Next]_vars => IInv'
<1> SUFFICES ASSUME IInv, [Next]_vars PROVE IInv'
  OBVIOUS
<1> USE DEF IInv
<1>1. CASE UNCHANGED vars
  BY <1>1 DEF vars, RequestUnderWay, RequestIsUnderstood
<1>2. ASSUME NEW kind \in Kinds, AddTask(kind) PROVE IInv'
  <2>1. phase' = "compose"
    BY <1>2 DEF AddTask
  <2> QED
    BY <1>2, <2>1, AddTaskKeepsRequest DEF RequestUnderWay, RequestIsUnderstood
<1>3. ASSUME NEW i \in DOMAIN request.tasks, NEW t \in Settable, NEW v \in Values,
             SetField(i, t, v)
      PROVE  IInv'
  <2>1. phase' = "compose"
    BY <1>3 DEF SetField
  <2> QED
    BY <1>3, <2>1, SetFieldKeepsRequest DEF RequestUnderWay, RequestIsUnderstood
<1>4. ASSUME NEW t \in ContainerOptionals, NEW v \in Values, SetOption(t, v) PROVE IInv'
  <2>1. phase' = "compose"
    BY <1>4 DEF SetOption
  <2> QED
    BY <1>4, <2>1, SetOptionKeepsRequest DEF RequestUnderWay, RequestIsUnderstood
<1>5. CASE SendRequest
  BY <1>5 DEF SendRequest, RequestUnderWay, RequestIsUnderstood
<1>6. CASE WriteByHand
  BY <1>6 DEF WriteByHand, RequestUnderWay, RequestIsUnderstood
<1>7. ASSUME NEW old \in {task, NewContainer}, Receive(old) PROVE IInv'
  <2>1. RequestUnderWay'
    BY <1>7 DEF Receive, RequestUnderWay
  <2>2. RequestIsUnderstood'
    <3> SUFFICES ASSUME ~byHand, Representable(request)
                 PROVE  task'.tasks = request.tasks /\ (renewed' => task' = request)
      BY <1>7 DEF Receive, RequestIsUnderstood
    <3>1. task' = LoadContainer(old, EmitContainer(request)) /\ IsTaskContainer(request)
      BY <1>7 DEF Receive, RequestUnderWay
    <3>2. renewed' => old = NewContainer
      BY <1>7 DEF Receive
    <3> QED
      BY <3>1, <3>2, ContainerArrives
  <2> QED
    BY <2>1, <2>2
<1>8. ASSUME NEW results, Answer(results) PROVE IInv'
  BY <1>8 DEF Answer, RequestUnderWay, RequestIsUnderstood
<1>9. CASE SpoilReply
  BY <1>9 DEF SpoilReply, RequestUnderWay, RequestIsUnderstood
<1>10. ASSUME NEW old, ReadAnswer(old) PROVE IInv'
  BY <1>10 DEF ReadAnswer, RequestUnderWay, RequestIsUnderstood
<1>11. CASE Done
  BY <1>1, <1>11 DEF Done
<1> QED
  BY <1>1, <1>2, <1>3, <1>4, <1>5, <1>6, <1>7, <1>8, <1>9, <1>10, <1>11 DEF Next, Compose

(* Whatever values there are, and however many tasks and members a request *)
(* has: what a document can represent, the framework gets.                 *)
THEOREM RequestUnderstood == Spec => []RequestIsUnderstood
<1>1. IInv => RequestIsUnderstood
  BY DEF IInv
<1> QED
  BY <1>1, InitIInv, NextIInv, PTL DEF Spec
-----------------------------------------------------------------------------
(* Requests that are refused                                               *)

(* Nothing emit() writes for a task is unreadable, and what load() insists *)
(* on is written.                                                          *)
LEMMA EmittedIsGood ==
    ASSUME NEW t, IsTask(t)
    PROVE  /\ Required(t.kind) \subseteq DOMAIN EmitTask(t).top
           /\ \A tag \in DOMAIN EmitTask(t).top : EmitTask(t).top[tag] \notin BadNodes
           /\ \A tag \in DOMAIN EmitTask(t).parameter : EmitTask(t).parameter[tag] \notin BadNodes
           /\ "id" \notin DOMAIN EmitTask(t).top
<1> DEFINE f == t.fields
           k == t.kind
           present == Vectors(k) \cap DOMAIN f
           own == Part(f, TopTags(k))
<1>1. EmitTask(t).top = Over(own, EmitVectors(t)) /\ EmitTask(t).parameter = Part(f, Parameters(k))
  BY OnlyIsPart DEF EmitTask, MergeNode
<1>2. Required(k) \subseteq DOMAIN own
  BY DEF IsTask, Part, TopTags
<1>3. \A tag \in DOMAIN own : own[tag] \notin BadNodes
  BY ValuesAreGood DEF Part
<1>4. \A tag \in DOMAIN EmitVectors(t) :
         EmitVectors(t)[tag] \notin BadNodes /\ tag \in {EmitTag(v) : v \in present}
  <2>1. EmitVectors(t) = [u \in {EmitTag(v) : v \in present} |->
                             f[CHOOSE v \in present : EmitTag(v) = u]]
    BY DEF EmitVectors
  <2>2. ASSUME NEW u \in {EmitTag(v) : v \in present}
        PROVE  (CHOOSE v \in present : EmitTag(v) = u) \in present
    <3>1. PICK v \in present : EmitTag(v) = u
      OBVIOUS
    <3> QED
      BY <3>1
  <2>3. \A v \in present : f[v] \notin BadNodes
    BY ValuesAreGood
  <2> HIDE DEF present, f
  <2> QED
    BY <2>1, <2>2, <2>3
<1>5. "id" \notin TopTags(k)
  BY DEF TopTags, Optionals, TaskOptionals, Required
<1>6. \A v \in present : EmitTag(v) # "id"
  BY DEF Vectors, EmitTag
<1>7. \A tag \in DOMAIN EmitTask(t).parameter : EmitTask(t).parameter[tag] \notin BadNodes
  BY <1>1, ValuesAreGood DEF Part
<1>8. "id" \notin DOMAIN own
  BY <1>5 DEF Part
<1>9. "id" \notin DOMAIN EmitVectors(t)
  BY <1>4, <1>6
<1> HIDE DEF own, present, f, k
<1>10. /\ Required(k) \subseteq DOMAIN EmitTask(t).top
       /\ \A tag \in DOMAIN EmitTask(t).top : EmitTask(t).top[tag] \notin BadNodes
       /\ "id" \notin DOMAIN EmitTask(t).top
  BY <1>1, <1>2, <1>3, <1>4, <1>8, <1>9 DEF Over
<1> QED
  BY <1>7, <1>10 DEF k

(* Nor is anything on the container's own node, whatever was merged into   *)
(* it, or among the parameters.                                            *)
LEMMA EmittedNodeIsGood ==
    ASSUME NEW c, IsTaskContainer(c), c.tasks # <<>>
    PROVE  /\ \A tag \in DOMAIN EmitContainer(c).top : EmitContainer(c).top[tag] \notin BadNodes
           /\ \A tag \in DOMAIN EmitContainer(c).parameter : EmitContainer(c).parameter[tag] \notin BadNodes
           /\ EmitContainer(c).task = Type(c)
           /\ Only(EmitContainer(c).top, {"id"}) = Only(c.options, {"id"})
<1> DEFINE t == c.tasks[1]
           doc == EmitContainer(c)
           o == c.options
<1>1. Head(c.tasks) = t /\ IsTask(t)
  BY Front
<1>2. Only(o, ContainerOptionals) = o /\ \A tag \in DOMAIN o : o[tag] \notin BadNodes
  BY OptionsAreGood
<1>3. CASE Type(c) \in Merged
  <2>1. /\ doc.top = Over(EmitTask(t).top, o)
        /\ doc.parameter = EmitTask(t).parameter
        /\ doc.task = Type(c)
    BY <1>1, <1>2, <1>3 DEF EmitContainer, MergeNode
  <2>2. /\ \A tag \in DOMAIN EmitTask(t).top : EmitTask(t).top[tag] \notin BadNodes
        /\ \A tag \in DOMAIN EmitTask(t).parameter : EmitTask(t).parameter[tag] \notin BadNodes
        /\ "id" \notin DOMAIN EmitTask(t).top
    BY <1>1, EmittedIsGood
  <2> HIDE DEF doc, t, o
  <2>3. Part(doc.top, {"id"}) = Part(o, {"id"})
    BY <2>1, <2>2 DEF Part, Over
  <2> QED
    BY <1>2, <2>1, <2>2, <2>3, OnlyIsPart DEF Over, doc, o
<1>4. CASE Type(c) \notin Merged
  <2>1. doc.top = o /\ doc.parameter = Nothing /\ doc.task = Type(c)
    BY <1>2, <1>4 DEF EmitContainer
  <2> QED
    BY <1>2, <2>1 DEF Nothing
<1> QED
  BY <1>3, <1>4

(* What a load() needs, a container all of whose tasks are of one kind     *)
(* writes - also those of which the document represents only a part.       *)
LEMMA OneKindIsRead ==
    ASSUME NEW c, IsTaskContainer(c), c.tasks # <<>>,
           \A i \in DOMAIN c.tasks : c.tasks[i].kind = Type(c)
    PROVE  ~LoadThrows(EmitContainer(c))
<1> DEFINE doc == EmitContainer(c)
           k == Type(c)
           t == c.tasks[1]
<1>1. k \in Kinds /\ Head(c.tasks) = t /\ IsTask(t) /\ t.kind = k
  BY Front
<1>2. /\ \A tag \in DOMAIN doc.top : doc.top[tag] \notin BadNodes
      /\ \A tag \in DOMAIN doc.parameter : doc.parameter[tag] \notin BadNodes
      /\ doc.task = k
  BY EmittedNodeIsGood
<1>3. ~HasBad(doc.top, ContainerOptionals)
  BY <1>2 DEF HasBad
<1>4. CASE InList(k)
  <2>1. doc.lists = [key \in {EmitKey(k)} |-> [i \in DOMAIN c.tasks |-> EmitTask(c.tasks[i])]]
    BY <1>4 DEF EmitContainer, InList
  <2>2. LoadKey(k) = EmitKey(k)
    BY DEF LoadKey, EmitKey
  <2>3. Nodes(doc) = [i \in DOMAIN c.tasks |-> EmitTask(c.tasks[i])]
    BY <1>2, <1>4, <2>1, <2>2 DEF Nodes
  <2>4. ASSUME NEW i \in DOMAIN c.tasks PROVE ~LoadTaskThrows(k, EmitTask(c.tasks[i]))
    <3>1. IsTask(c.tasks[i]) /\ c.tasks[i].kind = k
      BY Front
    <3> QED
      BY <3>1, EmittedIsGood DEF LoadTaskThrows, HasBad, HasBadItem, BadNodes
  <2> HIDE DEF doc, k
  <2>5. ~LoadTasksThrows(doc)
    BY <1>1, <1>2, <1>4, <2>1, <2>2, <2>3, <2>4 DEF LoadTasksThrows
  <2> QED
    BY <1>3, <2>5 DEF LoadThrows, doc
<1>5. CASE ~InList(k)
  <2> DEFINE node == [top |-> doc.top, parameter |-> doc.parameter]
  <2>1. Nodes(doc) = <<node>>
    BY <1>2, <1>5 DEF Nodes
  <2>2. Required(k) \subseteq DOMAIN doc.top
    <3>1. CASE k \in Merged
      <4>1. doc.top = Over(EmitTask(t).top, Only(c.options, ContainerOptionals))
        BY <1>1, <3>1 DEF EmitContainer, MergeNode
      <4> QED
        BY <1>1, <4>1, EmittedIsGood DEF Over
    <3>2. CASE k = "quit"
      BY <3>2 DEF Required
    <3> QED
      BY <1>5, <3>1, <3>2 DEF InList
  <2>3. ~LoadTaskThrows(k, node)
    BY <1>2, <2>2 DEF LoadTaskThrows, HasBad, HasBadItem, BadNodes
  <2> HIDE DEF doc, k, node
  <2>4. ~LoadTasksThrows(doc)
    BY <1>1, <1>2, <1>5, <2>1, <2>3 DEF LoadTasksThrows
  <2> QED
    BY <1>3, <2>4 DEF LoadThrows, doc
<1> QED
  BY <1>4, <1>5

(* Whatever an application has composed out of tasks of one kind, the      *)
(* framework's load() takes.                                               *)
THEOREM OwnRequestsRead == Spec => []OwnRequestsAreRead
<1>1. Init => OwnRequestsAreRead
  BY DEF Init, OwnRequestsAreRead
<1>2. RequestUnderWay /\ OwnRequestsAreRead /\ [Next]_vars => OwnRequestsAreRead'
  <2> SUFFICES ASSUME RequestUnderWay, OwnRequestsAreRead, [Next]_vars,
                      phase' = "refused", ~byHand',
                      \A i \in DOMAIN request'.tasks : request'.tasks[i].kind = Type(request')
               PROVE  FALSE
    BY DEF OwnRequestsAreRead
  <2>1. CASE UNCHANGED vars \/ Done
    BY <2>1 DEF vars, Done, OwnRequestsAreRead
  <2>2. ASSUME NEW old, Receive(old) PROVE FALSE
    <3>1. /\ document = EmitContainer(request)
          /\ LoadThrows(document)
          /\ IsTaskContainer(request) /\ request.tasks # <<>>
          /\ \A i \in DOMAIN request.tasks : request.tasks[i].kind = Type(request)
      BY <2>2 DEF Receive, RequestUnderWay, Type
    <3> QED
      BY <3>1, OneKindIsRead
  <2> QED
    BY <2>1, <2>2
    DEF Next, Compose, AddTask, SetField, SetOption, SendRequest, WriteByHand, Answer,
        SpoilReply, ReadAnswer
<1>3. IInv => RequestUnderWay
  BY DEF IInv
<1> QED
  BY <1>1, <1>2, <1>3, InitIInv, NextIInv, PTL DEF Spec

(* A load() that throws leaves the container as it was, except where one   *)
(* of the container's own options cannot be read.                          *)
THEOREM RefusedLeavesContainer == Spec => AllOrNothing
<1> DEFINE A == phase' = "refused" /\ phase = "sent" =>
                    \/ task' \in {task, NewContainer}
                    \/ HasBad(document.top, {"id"})
                    \/ InList(document.task) /\ HasBad(document.top, {"concurrent-execution"})
<1>1. [Next]_vars => [A]_vars
  <2> SUFFICES ASSUME Next, phase' = "refused", phase = "sent" PROVE A
    OBVIOUS
  <2>1. ASSUME NEW old \in {task, NewContainer}, Receive(old) PROVE A
    <3>1. CASE LoadTasksThrows(document)
      BY <2>1, <3>1 DEF Receive, LoadContainer, Untouched
    <3>2. CASE ~LoadTasksThrows(document)
      <4>1. HasBad(document.top, ContainerOptionals)
        BY <2>1, <3>2 DEF Receive, LoadThrows
      <4>2. HasBad(document.top, {"id"}) \/ HasBad(document.top, {"concurrent-execution"})
        BY <4>1 DEF HasBad, ContainerOptionals
      <4>3. ASSUME HasBad(document.top, {"concurrent-execution"}), ~InList(document.task)
            PROVE  FALSE
        <5>1. Nodes(document)[1] = [top |-> document.top, parameter |-> document.parameter]
              /\ 1 \in DOMAIN Nodes(document)
          BY <4>3 DEF Nodes
        <5>2. "concurrent-execution" \in TopTags(document.task)
          BY DEF TopTags, Optionals, TaskOptionals
        <5>3. LoadTaskThrows(document.task, Nodes(document)[1])
          BY <4>3, <5>1, <5>2 DEF LoadTaskThrows, HasBad
        <5> QED
          BY <3>2, <5>1, <5>3 DEF LoadTasksThrows
      <4> QED
        BY <4>2, <4>3
    <3> QED
      BY <3>1, <3>2
  <2>2. CASE Done
    BY <2>2 DEF Done
  <2> QED
    BY <2>1, <2>2
    DEF Next, Compose, AddTask, SetField, SetOption, SendRequest, WriteByHand, Answer,
        SpoilReply, ReadAnswer
<1> QED
  BY <1>1, PTL DEF Spec, AllOrNothing

-----------------------------------------------------------------------------
(* The answer                                                              *)

(* The tasks of a request that was written by emit() are read: there is    *)
(* one at least, and the first is of the request's kind.                   *)
LEMMA SomeTasksAreRead ==
    ASSUME NEW c, IsTaskContainer(c), c.tasks # <<>>
    PROVE  LET tasks == LoadTasks(EmitContainer(c))
           IN  /\ tasks \in Seq(Range(tasks))
               /\ Len(tasks) > 0
               /\ Head(tasks).kind = Type(c)
<1> DEFINE doc == EmitContainer(c)
           k == Type(c)
           n == IF InList(k) THEN Len(c.tasks) ELSE 1
           tasks == LoadTasks(doc)
<1>1. doc.task = k
  BY EmittedNodeIsGood
<1>2. Len(c.tasks) \in Nat /\ Len(c.tasks) > 0 /\ DOMAIN c.tasks = 1..Len(c.tasks)
  BY Front
<1>3. DOMAIN Nodes(doc) = 1..n
  <2>1. CASE InList(k)
    <3>1. doc.lists = [key \in {EmitKey(k)} |-> [i \in DOMAIN c.tasks |-> EmitTask(c.tasks[i])]]
      BY <2>1 DEF EmitContainer, InList
    <3>2. LoadKey(k) = EmitKey(k)
      BY DEF LoadKey, EmitKey
    <3> HIDE DEF doc, k
    <3> QED
      BY <1>1, <1>2, <2>1, <3>1, <3>2 DEF Nodes
  <2>2. CASE ~InList(k)
    <3>1. Nodes(doc) = <<[top |-> doc.top, parameter |-> doc.parameter]>>
      BY <1>1, <2>2 DEF Nodes
    <3> QED
      BY <2>2, <3>1
  <2> QED
    BY <2>1, <2>2
<1>4. n \in Nat /\ n > 0
  BY <1>2
<1> HIDE DEF n, doc, k
<1>5. tasks = [i \in 1..n |-> LoadTask(k, Nodes(doc)[i])]
  BY <1>1, <1>3 DEF LoadTasks
<1>6. tasks \in Seq(Range(tasks)) /\ Len(tasks) = n
  BY <1>4, <1>5 DEF Range
<1>7. Head(tasks) = tasks[1]
  BY <1>4, <1>6
<1>8. tasks[1].kind = k
  BY <1>4, <1>5 DEF LoadTask
<1> QED
  BY <1>4, <1>6, <1>7, <1>8 DEF doc, k

(* A new container has the id of the request then, or none either.         *)
LEMMA IdIsRead ==
    ASSUME NEW c, IsTaskContainer(c), c.tasks # <<>>, ~LoadThrows(EmitContainer(c))
    PROVE  Id(LoadContainer(NewContainer, EmitContainer(c))) = Id(c)
<1> DEFINE doc == EmitContainer(c)
           o == LoadContainer(NewContainer, doc).options
<1>1. ~HasBad(doc.top, {"concurrent-execution"}) /\ ~HasBad(doc.top, {"id"})
      /\ ~LoadTasksThrows(doc)
  BY DEF LoadThrows, HasBad, ContainerOptionals
<1>2. o = Over(Only(doc.top, ContainerOptionals), Nothing)
  BY <1>1 DEF LoadContainer, NewContainer
<1>3. Part(doc.top, {"id"}) = Part(c.options, {"id"})
  BY EmittedNodeIsGood, OnlyIsPart
<1> HIDE DEF doc
<1>4. o = Over(Part(doc.top, ContainerOptionals), Nothing)
  BY <1>2, OnlyIsPart
<1> HIDE DEF o
<1>5. /\ "id" \in DOMAIN o <=> "id" \in DOMAIN doc.top
      /\ "id" \in DOMAIN o => o["id"] = doc.top["id"]
  BY <1>4 DEF Over, Part, Nothing, ContainerOptionals
<1>6. /\ "id" \in DOMAIN doc.top <=> "id" \in DOMAIN c.options
      /\ "id" \in DOMAIN doc.top => doc.top["id"] = c.options["id"]
  BY <1>3 DEF Part
<1> QED
  BY <1>5, <1>6 DEF Id, o, doc

(* Between the framework's load() and the application's, unless one of the *)
(* documents was written by hand.                                          *)
RequestIsLoaded ==
    phase = "loaded" =>
        /\ task.tasks \in Seq(Range(task.tasks))
        /\ Len(task.tasks) > 0
        /\ Type(task) = Type(request)
        /\ renewed => Id(task) = Id(request)

AnswerUnderWay ==
    phase = "answered" =>
        /\ reply = EmitResults(answer)
        /\ answer.results \in Seq(Results)
        /\ Len(answer.results) > 0
        /\ answer.title = Title(Type(request))
        /\ renewed => answer.id = Id(request)

ResultIsUsed == phase \notin {"read", "unread"} => result \in UsedResults \cup {NewResults}

AnswerInv ==
    /\ ~byHand => RequestIsLoaded /\ AnswerUnderWay
    /\ ResultIsUsed
    /\ AnswerIsTracked
    /\ ResultsAreCurrent

(* What is left of a result when it is read: all but the measured times.   *)
LEMMA ResultIsRead ==
    ASSUME NEW r \in Results
    PROVE  /\ LoadResult(r) = Only(r, DOMAIN r \ {"time-measurement"})
           /\ ~LoadResultThrows(r)
<1>1. /\ RequiredOfResult \subseteq DOMAIN r
      /\ DOMAIN r \subseteq FieldsOfResult
      /\ \A t \in DOMAIN r : r[t] \notin BadNodes
  BY ValuesAssumption DEF Results
<1>2. {t \in RequiredOfResult \cup {"details"} : t \in DOMAIN r => r[t] \notin BadNodes} \cap DOMAIN r
      = (DOMAIN r \ {"time-measurement"}) \cap DOMAIN r
  BY <1>1 DEF FieldsOfResult, RequiredOfResult
<1>3. LoadResult(r) = Only(r, DOMAIN r \ {"time-measurement"})
  BY <1>2 DEF LoadResult, Only
<1> QED
  BY <1>1, <1>3 DEF LoadResultThrows, HasBad

(* The first element is the one that was loaded, whatever was in the       *)
(* vector before.                                                          *)
LEMMA FirstIsLoaded ==
    ASSUME NEW S, NEW results \in Seq(S), NEW node
    PROVE  Head(LoadFirst(results, node)) = LoadResult(node)
<1> DEFINE T == S \cup {NewResult, LoadResult(node)}
<1>1. CASE results = <<>>
  BY <1>1 DEF LoadFirst
<1>2. CASE results # <<>>
  <2>1. Tail(results) \in Seq(T)
    BY <1>2
  <2>2. Append(Tail(results), NewResult) \in Seq(T)
    BY <2>1
  <2>3. <<LoadResult(node)>> \in Seq(T)
    OBVIOUS
  <2> HIDE DEF T
  <2>4. Head(<<LoadResult(node)>> \o Append(Tail(results), NewResult)) = LoadResult(node)
    BY <2>2, <2>3
  <2> QED
    BY <1>2, <2>4 DEF LoadFirst, IntoFirst
<1> QED
  BY <1>1, <1>2

LEMMA FunctionIsSequence ==
    ASSUME NEW n \in Nat, n > 0, NEW f, f = [i \in 1..n |-> f[i]]
    PROVE  f \in Seq(Range(f)) /\ Len(f) = n /\ Head(f) = f[1]
<1>1. f \in Seq(Range(f)) /\ Len(f) = n
  BY DEF Range
<1> QED
  BY <1>1

(* What an application can see of the results of an answer.                *)
Seen(results) == [i \in DOMAIN results |->
                     Only(results[i], DOMAIN results[i] \ {"time-measurement"})]

(* The answer is read into any container of results.                       *)
LEMMA AnswerIsRead ==
    ASSUME NEW a, a.results \in Seq(Results), Len(a.results) > 0,
           NEW container, container.results \in Seq(Results)
    PROVE  /\ ~LoadResultsThrows(EmitResults(a))
           /\ LoadResults(container, EmitResults(a)).title = a.title
           /\ LoadResults(container, EmitResults(a)).id = a.id
           /\ IF a.title = "vm migrated"
              THEN Head(LoadResults(container, EmitResults(a)).results) = Head(Seen(a.results))
              ELSE LoadResults(container, EmitResults(a)).results = Seen(a.results)
<1> DEFINE doc == EmitResults(a)
           read == LoadResults(container, doc)
           seen == Seen(a.results)
           all == [i \in DOMAIN doc.nodes |-> LoadResult(doc.nodes[i])]
           first == Head(a.results)
<1>1. DOMAIN a.results = 1..Len(a.results) /\ first = a.results[1] /\ first \in Results
      /\ \A i \in DOMAIN a.results : a.results[i] \in Results
  OBVIOUS
<1>2. /\ doc.result = a.title
      /\ doc.id = a.id
      /\ a.title = "vm migrated" => doc.nodes = <<first>>
      /\ a.title # "vm migrated" => doc.nodes = a.results
  BY DEF EmitResults
<1>3. ~LoadResultsThrows(doc)
  <2> HIDE DEF doc, first
  <2>1. \A i \in DOMAIN doc.nodes : doc.nodes[i] \in Results
    <3>1. CASE a.title = "vm migrated"
      <4>1. DOMAIN <<first>> = {1} /\ <<first>>[1] = first
        OBVIOUS
      <4> QED
        BY <1>1, <1>2, <3>1, <4>1
    <3>2. CASE a.title # "vm migrated"
      BY <1>1, <1>2, <3>2
    <3> QED
      BY <3>1, <3>2
  <2> QED
    BY <2>1, ResultIsRead DEF LoadResultsThrows
<1> HIDE DEF doc
<1>4. /\ read.title = a.title
      /\ read.id = a.id
      /\ read.results = IF a.title = "vm migrated"
                        THEN LoadFirst(container.results, Head(doc.nodes)) ELSE all
  BY <1>2, <1>3 DEF LoadResults, doc
<1>5. Head(seen) = LoadResult(first)
  <2>1. /\ Len(a.results) \in Nat
        /\ seen = [i \in 1..Len(a.results) |->
                     Only(a.results[i], DOMAIN a.results[i] \ {"time-measurement"})]
    BY <1>1 DEF Seen
  <2> DEFINE n == Len(a.results)
  <2>2. n \in Nat /\ n > 0 /\ seen = [i \in 1..n |-> seen[i]]
    BY <2>1
  <2> HIDE DEF n
  <2>3. Head(seen) = seen[1]
    BY <2>2, FunctionIsSequence
  <2>4. seen[1] = Only(first, DOMAIN first \ {"time-measurement"})
    BY <1>1, <2>1
  <2> QED
    BY <1>1, <2>3, <2>4, ResultIsRead
<1>6. CASE a.title = "vm migrated"
  <2>1. Head(doc.nodes) = first
    <3> HIDE DEF first
    <3>1. Head(<<first>>) = first
      OBVIOUS
    <3> QED
      BY <1>2, <1>6, <3>1
  <2>2. Head(LoadFirst(container.results, first)) = LoadResult(first)
    BY FirstIsLoaded
  <2> HIDE DEF all, first, read, seen
  <2> QED
    BY <1>3, <1>4, <1>5, <1>6, <2>1, <2>2 DEF doc, read, seen
<1>7. CASE a.title # "vm migrated"
  <2>1. all = seen
    BY <1>1, <1>2, <1>7, ResultIsRead DEF Seen
  <2> HIDE DEF all, first, read, seen
  <2> QED
    BY <1>3, <1>4, <1>7, <2>1 DEF doc, read, seen
<1> QED
  BY <1>6, <1>7

LEMMA InitAnswerInv == Init => AnswerInv
BY DEF Init, AnswerInv, RequestIsLoaded, AnswerUnderWay, ResultIsUsed, AnswerIsTracked,
       ResultsAreCurrent

LEMMA ReceiveKeepsAnswer ==
    ASSUME RequestUnderWay, AnswerInv, NEW old \in {task, NewContainer}, Receive(old)
    PROVE  AnswerInv'
<1>1. ResultIsUsed' /\ AnswerIsTracked' /\ ResultsAreCurrent' /\ AnswerUnderWay'
  BY DEF Receive, AnswerInv, ResultIsUsed, AnswerIsTracked, ResultsAreCurrent, AnswerUnderWay
<1>2. ASSUME ~byHand', phase' = "loaded" PROVE RequestIsLoaded'
  <2>1. /\ document = EmitContainer(request)
        /\ IsTaskContainer(request) /\ request.tasks # <<>>
        /\ ~LoadThrows(document)
        /\ task' = LoadContainer(old, document)
        /\ request' = request
        /\ renewed' => old = NewContainer
    BY <1>2 DEF Receive, RequestUnderWay
  <2>2. task'.tasks = LoadTasks(document)
    BY <2>1 DEF LoadThrows, LoadContainer
  <2>3. /\ task'.tasks \in Seq(Range(task'.tasks))
        /\ Len(task'.tasks) > 0
        /\ Type(task') = Type(request)
    BY <2>1, <2>2, SomeTasksAreRead DEF Type
  <2>4. renewed' => Id(task') = Id(request)
    BY <2>1, IdIsRead
  <2> QED
    BY <2>1, <2>3, <2>4 DEF RequestIsLoaded, Type, Id
<1> QED
  BY <1>1, <1>2 DEF AnswerInv, RequestIsLoaded

LEMMA AnswerKeepsAnswer ==
    ASSUME AnswerInv, NEW results \in [DOMAIN task.tasks -> Outcomes], Answer(results)
    PROVE  AnswerInv'
<1>1. ResultIsUsed' /\ AnswerIsTracked' /\ ResultsAreCurrent' /\ RequestIsLoaded'
  BY DEF Answer, AnswerInv, ResultIsUsed, AnswerIsTracked, ResultsAreCurrent, RequestIsLoaded
<1>2. ASSUME ~byHand' PROVE AnswerUnderWay'
  <2>1. /\ task.tasks \in Seq(Range(task.tasks))
        /\ Len(task.tasks) > 0
        /\ Type(task) = Type(request)
        /\ renewed => Id(task) = Id(request)
        /\ request' = request /\ renewed' = renewed
    BY <1>2 DEF Answer, AnswerInv, RequestIsLoaded
  <2>2. DOMAIN task.tasks = 1..Len(task.tasks) /\ Len(task.tasks) \in Nat
    BY <2>1
  <2>3. results \in Seq(Results) /\ Len(results) > 0
    BY <2>1, <2>2, OutcomesAssumption
  <2>4. /\ answer' = [title |-> Title(Type(task)), results |-> results, id |-> Id(task)]
        /\ reply' = EmitResults(answer')
    BY DEF Answer
  <2> QED
    BY <2>1, <2>3, <2>4 DEF AnswerUnderWay, Type, Id
<1> QED
  BY <1>1, <1>2 DEF AnswerInv

LEMMA ReadAnswerKeepsAnswer ==
    ASSUME AnswerInv, NEW container \in {result, NewResults}, ReadAnswer(container)
    PROVE  AnswerInv'
<1>1. RequestIsLoaded' /\ AnswerUnderWay' /\ ResultIsUsed'
  BY DEF ReadAnswer, RequestIsLoaded, AnswerUnderWay, ResultIsUsed
<1>2. ASSUME ~byHand' PROVE AnswerIsTracked' /\ ResultsAreCurrent'
  <2>1. /\ AnswerUnderWay /\ phase = "answered"
        /\ result' = LoadResults(container, reply)
        /\ answer' = answer /\ request' = request /\ renewed' = renewed
    BY <1>2 DEF ReadAnswer, AnswerInv
  <2>2. container.results \in Seq(Results)
    <3>1. container \in UsedResults \cup {NewResults}
      BY <2>1 DEF AnswerInv, ResultIsUsed
    <3>2. NewResults.results \in Seq(Results)
      <4>1. NewResults.results = <<>>
        BY DEF NewResults
      <4> QED
        BY <4>1
    <3> QED
      BY <3>1, <3>2, UsedAssumption DEF IsResultContainer
  <2>3. /\ answer.results \in Seq(Results) /\ Len(answer.results) > 0
        /\ reply = EmitResults(answer)
        /\ answer.title = Title(Type(request))
        /\ renewed => answer.id = Id(request)
    BY <2>1 DEF AnswerUnderWay
  <2>4. /\ result'.title = answer.title
        /\ result'.id = answer.id
        /\ IF answer.title = "vm migrated" THEN Head(result'.results) = Head(Seen(answer.results))
                                           ELSE result'.results = Seen(answer.results)
    BY <2>1, <2>2, <2>3, AnswerIsRead
  <2>5. AnswerIsTracked'
    BY <2>1, <2>3, <2>4 DEF AnswerIsTracked, Type, Id
  <2>6. ResultsAreCurrent'
    BY <2>1, <2>4 DEF ResultsAreCurrent, Seen
  <2> QED
    BY <2>5, <2>6
<1>3. byHand' => AnswerIsTracked' /\ ResultsAreCurrent'
  BY DEF AnswerIsTracked, ResultsAreCurrent
<1> QED
  BY <1>1, <1>2, <1>3 DEF AnswerInv

LEMMA NextAnswerInv == RequestUnderWay /\ AnswerInv /\ [Next]_vars => AnswerInv'
<1> SUFFICES ASSUME RequestUnderWay, AnswerInv, [Next]_vars PROVE AnswerInv'
  OBVIOUS
<1> USE DEF AnswerInv, RequestIsLoaded, AnswerUnderWay, ResultIsUsed, AnswerIsTracked,
            ResultsAreCurrent
<1>1. CASE UNCHANGED vars
  BY <1>1 DEF vars, Type, Id
<1>2. CASE Compose
  BY <1>2 DEF Compose, AddTask, SetField, SetOption
<1>3. CASE SendRequest
  BY <1>3 DEF SendRequest
<1>4. CASE WriteByHand
  BY <1>4 DEF WriteByHand
<1>5. ASSUME NEW old \in {task, NewContainer}, Receive(old) PROVE AnswerInv'
  BY <1>5, ReceiveKeepsAnswer
<1>6. ASSUME NEW results \in [DOMAIN task.tasks -> Outcomes], Answer(results) PROVE AnswerInv'
  BY <1>6, AnswerKeepsAnswer
<1>7. CASE SpoilReply
  BY <1>7 DEF SpoilReply
<1>8. ASSUME NEW container \in {result, NewResults}, ReadAnswer(container) PROVE AnswerInv'
  BY <1>8, ReadAnswerKeepsAnswer
<1>9. CASE Done
  BY <1>1, <1>9 DEF Done
<1> QED
  BY <1>1, <1>2, <1>3, <1>4, <1>5, <1>6, <1>7, <1>8, <1>9 DEF Next

LEMMA AnswerInvariant == Spec => []AnswerInv
<1>1. IInv => RequestUnderWay
  BY DEF IInv
<1> QED
  BY <1>1, InitIInv, NextIInv, InitAnswerInv, NextAnswerInv, PTL DEF Spec

(* The answer bears the id and the title of its request, whatever ids and  *)
(* however many tasks there are, for a framework that loads into a new     *)
(* container.                                                              *)
THEOREM AnswersAreTracked == Spec => []AnswerIsTracked
<1>1. AnswerInv => AnswerIsTracked
  BY DEF AnswerInv
<1> QED
  BY <1>1, AnswerInvariant, PTL

(* The application finds the results of its request in the places where it *)
(* looks for them, also in a container that held any number of others.     *)
THEOREM ResultsCurrent == Spec => []ResultsAreCurrent
<1>1. AnswerInv => ResultsAreCurrent
  BY DEF AnswerInv
<1> QED
  BY <1>1, AnswerInvariant, PTL

-----------------------------------------------------------------------------
(* The messages of the agents                                              *)

(* The tags a message of each kind may bring: its members, and what the    *)
(* headers call them.                                                      *)
TagsOf(kind) ==
    Range(Members(kind)) \cup
    CASE kind = "init" -> {"source"}
      [] kind = "reply" -> {"response"}
      [] OTHER -> {}

LEMMA TupleRanges ==
    /\ Range(<<>>) = {} /\ DOMAIN <<>> \subseteq Nat
    /\ \A a : Range(<<a>>) = {a} /\ DOMAIN <<a>> \subseteq Nat
    /\ \A a, b : Range(<<a, b>>) = {a, b} /\ DOMAIN <<a, b>> \subseteq Nat
    /\ \A a, b, c, d : Range(<<a, b, c, d>>) = {a, b, c, d} /\ DOMAIN <<a, b, c, d>> \subseteq Nat
<1>1. Range(<<>>) = {} /\ DOMAIN <<>> \subseteq Nat
  BY DEF Range
<1>2. ASSUME NEW a PROVE Range(<<a>>) = {a} /\ DOMAIN <<a>> \subseteq Nat
  BY DEF Range
<1>3. ASSUME NEW a, NEW b PROVE Range(<<a, b>>) = {a, b} /\ DOMAIN <<a, b>> \subseteq Nat
  <2>1. DOMAIN <<a, b>> = {1, 2}
    OBVIOUS
  <2> QED
    BY <2>1 DEF Range
<1>4. ASSUME NEW a, NEW b, NEW c, NEW d
      PROVE  Range(<<a, b, c, d>>) = {a, b, c, d} /\ DOMAIN <<a, b, c, d>> \subseteq Nat
  <2>1. DOMAIN <<a, b, c, d>> = {1, 2, 3, 4}
    OBVIOUS
  <2> QED
    BY <2>1 DEF Range
<1> QED
  BY <1>1, <1>2, <1>3, <1>4

LEMMA MembersOf ==
    /\ \A kind \in AgentKinds : DOMAIN Members(kind) \subseteq Nat
    /\ \A t :
          /\ t \in Range(Members("init")) <=> t \in {"hostname"}
          /\ t \in Range(Members("kpis")) <=> t \in {"repeat", "categories"}
          /\ t \in Range(Members("init agent")) <=> t \in {"KPI.repeat", "KPI.categories"}
          /\ t \in Range(Members("job description")) <=> t \in {"job-id", "process-id"}
          /\ t \in Range(Members("stop monitoring")) <=>
                t \in {"job-description.job-id", "job-description.process-id"}
          /\ t \in Range(Members("ack")) <=> t \in {}
          /\ t \in Range(Members("request")) <=> t \in {"cores"}
          /\ t \in Range(Members("reply")) <=> t \in {"cores", "result"}
          /\ t \in Range(Members("restart")) <=> t \in {"cgroup"}
          /\ t \in Range(Members("stop")) <=> t \in {"cgroup"}
          /\ t \in Range(Members("system info")) <=>
                t \in {"threads", "smt", "numa", "bandwidth"}
<1>1. Range(Members("init")) = {"hostname"} /\ DOMAIN Members("init") \subseteq Nat
  BY TupleRanges, Zenon DEF Members, InitMembers
<1>2. Range(Members("kpis")) = {"repeat", "categories"} /\ DOMAIN Members("kpis") \subseteq Nat
  BY TupleRanges, Zenon DEF Members, KpisMembers
<1>3. Range(Members("init agent")) = {"KPI.repeat", "KPI.categories"} /\ DOMAIN Members("init agent") \subseteq Nat
  BY TupleRanges, Zenon DEF Members, InitAgentMembers
<1>4. Range(Members("job description")) = {"job-id", "process-id"} /\ DOMAIN Members("job description") \subseteq Nat
  BY TupleRanges, Zenon DEF Members, JobDescriptionMembers
<1>5. Range(Members("stop monitoring")) =
         {"job-description.job-id", "job-description.process-id"} /\ DOMAIN Members("stop monitoring") \subseteq Nat
  BY TupleRanges, Zenon DEF Members, StopMonitoringMembers
<1>6. Range(Members("ack")) = {} /\ DOMAIN Members("ack") \subseteq Nat
  BY TupleRanges, Zenon DEF Members, AckMembers
<1>7. Range(Members("request")) = {"cores"} /\ DOMAIN Members("request") \subseteq Nat
  BY TupleRanges, Zenon DEF Members, RequestMembers
<1>8. Range(Members("reply")) = {"cores", "result"} /\ DOMAIN Members("reply") \subseteq Nat
  BY TupleRanges, Zenon DEF Members, ReplyMembers
<1>9. Range(Members("restart")) = {"cgroup"} /\ DOMAIN Members("restart") \subseteq Nat
  BY TupleRanges, Zenon DEF Members, RestartMembers
<1>10. Range(Members("stop")) = {"cgroup"} /\ DOMAIN Members("stop") \subseteq Nat
  BY TupleRanges, Zenon DEF Members, StopMembers
<1>11. Range(Members("system info")) = {"threads", "smt", "numa", "bandwidth"} /\ DOMAIN Members("system info") \subseteq Nat
  <2>1. Members("system info") = <<"threads", "smt", "numa", "bandwidth">>
    BY DEF Members, SystemInfoMembers
  <2>2. /\ Range(<<"threads", "smt", "numa", "bandwidth">>) = {"threads", "smt", "numa", "bandwidth"}
        /\ DOMAIN <<"threads", "smt", "numa", "bandwidth">> \subseteq Nat
    BY TupleRanges
  <2> QED
    BY <2>1, <2>2, Zenon
<1>12. \A kind \in AgentKinds : DOMAIN Members(kind) \subseteq Nat
  BY <1>1, <1>2, <1>3, <1>4, <1>5, <1>6, <1>7, <1>8, <1>9, <1>10, <1>11, Zenon DEF AgentKinds
<1> QED
  BY <1>1, <1>2, <1>3, <1>4, <1>5, <1>6, <1>7, <1>8, <1>9, <1>10, <1>11, <1>12, Zenon

(* One tag of each kind, and the kinds that have it. *)
LEMMA TagTells ==
    ASSUME NEW k \in AgentKinds
    PROVE  /\ "hostname" \in Range(Members(k)) => k = "init"
           /\ "repeat" \in Range(Members(k)) => k = "kpis"
           /\ "KPI.repeat" \in Range(Members(k)) => k = "init agent"
           /\ "job-id" \in Range(Members(k)) => k = "job description"
           /\ "job-description.job-id" \in Range(Members(k)) => k = "stop monitoring"
           /\ "cores" \in Range(Members(k)) => k \in {"request", "reply"}
           /\ "result" \in Range(Members(k)) => k = "reply"
           /\ "cgroup" \in Range(Members(k)) => k \in {"restart", "stop"}
           /\ "threads" \in Range(Members(k)) => k = "system info"
<1>1. CASE k = "init"
  BY <1>1, MembersOf
<1>2. CASE k = "kpis"
  BY <1>2, MembersOf
<1>3. CASE k = "init agent"
  BY <1>3, MembersOf
<1>4. CASE k = "job description"
  BY <1>4, MembersOf
<1>5. CASE k = "stop monitoring"
  BY <1>5, MembersOf
<1>6. CASE k = "ack"
  BY <1>6, MembersOf
<1>7. CASE k = "request"
  BY <1>7, MembersOf
<1>8. CASE k = "reply"
  BY <1>8, MembersOf
<1>9. CASE k = "restart"
  BY <1>9, MembersOf
<1>10. CASE k = "stop"
  BY <1>10, MembersOf
<1>11. CASE k = "system info"
  BY <1>11, MembersOf
<1> QED
  BY <1>1, <1>2, <1>3, <1>4, <1>5, <1>6, <1>7, <1>8, <1>9, <1>10, <1>11 DEF AgentKinds

(* A message whose members another one covers is that one, an ack, or one  *)
(* of the pairs whose topics differ.                                       *)
LEMMA MembersTell ==
    ASSUME NEW k \in AgentKinds, NEW l \in AgentKinds, Range(Members(l)) \subseteq TagsOf(k)
    PROVE  \/ k = l \/ l = "ack"
           \/ <<k, l>> \in {<<"reply", "request">>, <<"stop", "restart">>, <<"restart", "stop">>}
<1>1. \A t \in Range(Members(l)) : t \in Range(Members(k)) \/ t \in {"source", "response"}
  BY DEF TagsOf
<1>2. l = "init" => k = l
  <2>1. l = "init" => "hostname" \in Range(Members(l))
    BY MembersOf
  <2> QED
    BY <1>1, <2>1, TagTells
<1>3. l = "kpis" => k = l
  <2>1. l = "kpis" => "repeat" \in Range(Members(l))
    BY MembersOf
  <2> QED
    BY <1>1, <2>1, TagTells
<1>4. l = "init agent" => k = l
  <2>1. l = "init agent" => "KPI.repeat" \in Range(Members(l))
    BY MembersOf
  <2> QED
    BY <1>1, <2>1, TagTells
<1>5. l = "job description" => k = l
  <2>1. l = "job description" => "job-id" \in Range(Members(l))
    BY MembersOf
  <2> QED
    BY <1>1, <2>1, TagTells
<1>6. l = "stop monitoring" => k = l
  <2>1. l = "stop monitoring" => "job-description.job-id" \in Range(Members(l))
    BY MembersOf
  <2> QED
    BY <1>1, <2>1, TagTells
<1>7. l = "request" => k \in {"request", "reply"}
  <2>1. l = "request" => "cores" \in Range(Members(l))
    BY MembersOf
  <2> QED
    BY <1>1, <2>1, TagTells
<1>8. l = "reply" => k = l
  <2>1. l = "reply" => "result" \in Range(Members(l))
    BY MembersOf
  <2> QED
    BY <1>1, <2>1, TagTells
<1>9. l = "restart" => k \in {"restart", "stop"}
  <2>1. l = "restart" => "cgroup" \in Range(Members(l))
    BY MembersOf
  <2> QED
    BY <1>1, <2>1, TagTells
<1>10. l = "stop" => k \in {"restart", "stop"}
  <2>1. l = "stop" => "cgroup" \in Range(Members(l))
    BY MembersOf
  <2> QED
    BY <1>1, <2>1, TagTells
<1>11. l = "system info" => k = l
  <2>1. l = "system info" => "threads" \in Range(Members(l))
    BY MembersOf
  <2> QED
    BY <1>1, <2>1, TagTells
<1>12. CASE l \in {"ack", "request", "stop", "restart"}
  BY <1>7, <1>9, <1>10, <1>12
<1>13. CASE l \notin {"ack", "request", "stop", "restart"}
  <2>1. \/ l = "init" \/ l = "kpis" \/ l = "init agent" \/ l = "job description"
        \/ l = "stop monitoring" \/ l = "reply" \/ l = "system info"
    BY <1>13, Zenon DEF AgentKinds
  <2>2. k = l
    BY <2>1, <1>2, <1>3, <1>4, <1>5, <1>6, <1>8, <1>11
  <2> QED
    BY <2>2
<1> QED
  BY <1>12, <1>13

Shaped(message) == message = [kind |-> message.kind, members |-> message.members]

(* The document under way is that of the message, less what was lost.      *)
WireIsSent ==
    leg = "under way" =>
        /\ writer = "emit" => wire = EmitMessage(sent)
        /\ DOMAIN wire \subseteq TagsOf(sent.kind)

AgentInv ==
    /\ AgentTypeOK
    /\ Shaped(sent) /\ Shaped(object)
    /\ WireIsSent
    /\ WrittenIsRead
    /\ KindsAreTold

LEMMA EmittedMessage ==
    ASSUME NEW m, IsMessage(m)
    PROVE  /\ EmitMessage(m) \in [Range(Members(m.kind)) -> Values \cup {Bad}]
           /\ Documented(m) \in [DOMAIN Documented(m) -> Values \cup {Bad}]
           /\ DOMAIN Documented(m) \subseteq TagsOf(m.kind)
<1>1. DOMAIN m.members = Range(Members(m.kind)) /\ m.members \in [DOMAIN m.members -> Values]
  BY DEF IsMessage
<1>2. EmitMessage(m) \in [Range(Members(m.kind)) -> Values \cup {Bad}]
  BY <1>1 DEF EmitMessage
<1>3. CASE m.kind = "init"
  <2>1. Documented(m) = [t \in {"source"} |-> m.members["hostname"]]
    BY <1>3 DEF Documented, DocumentedInit
  <2>2. "hostname" \in Range(Members("init"))
    BY DEF Range, Members, InitMembers
  <2> QED
    BY <1>1, <1>2, <1>3, <2>1, <2>2 DEF TagsOf
<1>4. CASE m.kind = "reply"
  <2>1. Documented(m) = [t \in {"cores", "response"} |->
                            m.members[IF t = "cores" THEN "cores" ELSE "result"]]
    BY <1>4 DEF Documented, DocumentedReply
  <2>2. "cores" \in Range(Members("reply")) /\ "result" \in Range(Members("reply"))
    BY DEF Range, Members, ReplyMembers
  <2> QED
    BY <1>1, <1>2, <1>4, <2>1, <2>2 DEF TagsOf
<1>5. CASE m.kind = "init agent"
  <2>1. Documented(m) = [m.members EXCEPT !["KPI.categories"] = Bad]
    BY <1>5 DEF Documented, DocumentedInitAgent
  <2> QED
    BY <1>1, <1>2, <2>1 DEF TagsOf
<1>6. CASE m.kind \notin {"init", "reply", "init agent"}
  <2>1. Documented(m) = EmitMessage(m)
    BY <1>6 DEF Documented
  <2> QED
    BY <1>2, <2>1 DEF TagsOf
<1> QED
  BY <1>3, <1>4, <1>5, <1>6, <1>2

(* load() takes members from the document only where it can read them.     *)
LEMMA LoadKeepsMessage ==
    ASSUME NEW m, IsMessage(m), Shaped(m), NEW doc, doc \in [DOMAIN doc -> Values \cup {Bad}]
    PROVE  /\ IsMessage(LoadMessage(m, doc))
           /\ Shaped(LoadMessage(m, doc))
           /\ LoadMessage(m, doc).kind = m.kind
<1> DEFINE loaded == {Members(m.kind)[i] : i \in LoadedMembers(m.kind, doc)}
<1>1. LoadMessage(m, doc) = [kind |-> m.kind, members |-> Over(Part(doc, loaded), m.members)]
  BY OnlyIsPart DEF LoadMessage, Shaped
<1>2. loaded \subseteq Range(Members(m.kind))
  BY DEF LoadedMembers, Range
<1>3. \A t \in loaded : t \in DOMAIN doc /\ doc[t] # Bad
  <2>1. ASSUME NEW i \in LoadedMembers(m.kind, doc)
        PROVE  Members(m.kind)[i] \in DOMAIN doc /\ doc[Members(m.kind)[i]] # Bad
    <3>1. i \in DOMAIN Members(m.kind) /\ \A j \in Unreadable(m.kind, doc) : i < j
      BY DEF LoadedMembers
    <3>2. DOMAIN Members(m.kind) \subseteq Nat
      BY MembersOf DEF IsMessage
    <3>3. i \notin Unreadable(m.kind, doc)
      BY <3>1, <3>2
    <3> QED
      BY <3>1, <3>3 DEF Unreadable
  <2> QED
    BY <2>1
<1> HIDE DEF loaded
<1>4. Over(Part(doc, loaded), m.members) \in [Range(Members(m.kind)) -> Values]
  BY <1>2, <1>3 DEF IsMessage, Over, Part
<1> QED
  BY <1>1, <1>4 DEF IsMessage, Shaped

(* Of what emit() has written, nothing is unreadable but an empty map.     *)
LEMMA EmittedIsRead ==
    ASSUME NEW s, IsMessage(s), Shaped(s), NEW m, IsMessage(m), Shaped(m), m.kind = s.kind
    PROVE  IF \E t \in Maps \cap DOMAIN s.members : s.members[t] = Empty
           THEN MessageThrows(m.kind, EmitMessage(s))
           ELSE ~MessageThrows(m.kind, EmitMessage(s)) /\ LoadMessage(m, EmitMessage(s)) = s
<1> DEFINE k == m.kind
           doc == EmitMessage(s)
           members == Range(Members(k))
<1>1. /\ DOMAIN s.members = members /\ s.members \in [members -> Values]
      /\ DOMAIN m.members = members
      /\ DOMAIN doc = members
  BY DEF IsMessage, EmitMessage
<1>2. \A i \in DOMAIN Members(k) : Members(k)[i] \in members
  BY DEF Range
<1>3. \A t \in members : \E i \in DOMAIN Members(k) : Members(k)[i] = t
  BY DEF Range
<1>4. ASSUME NEW t \in Maps \cap DOMAIN s.members, s.members[t] = Empty
      PROVE  MessageThrows(k, doc)
  <2>1. doc[t] = Bad
    BY <1>4 DEF EmitMessage
  <2>2. PICK i \in DOMAIN Members(k) : Members(k)[i] = t
    BY <1>1, <1>3
  <2>3. i \in Unreadable(k, doc)
    BY <2>1, <2>2 DEF Unreadable
  <2> QED
    BY <2>3 DEF MessageThrows
<1>5. ASSUME \A t \in Maps \cap DOMAIN s.members : s.members[t] # Empty
      PROVE  ~MessageThrows(k, doc) /\ LoadMessage(m, doc) = s
  <2>1. doc = s.members
    BY <1>1, <1>5 DEF EmitMessage
  <2>2. \A t \in members : doc[t] # Bad
    BY <1>1, <2>1, ValuesAssumption DEF BadNodes
  <2> HIDE DEF doc, members
  <2>3. Unreadable(k, doc) = {}
    BY <1>1, <1>2, <2>2 DEF Unreadable
  <2>4. LoadedMembers(k, doc) = DOMAIN Members(k)
    BY <2>3 DEF LoadedMembers
  <2>5. {Members(k)[i] : i \in LoadedMembers(k, doc)} = members
    BY <2>4 DEF members, Range
  <2>6. Over(Part(doc, members), m.members) = s.members
    <3>1. Part(doc, members) = s.members
      BY <1>1, <2>1 DEF Part
    <3> QED
      BY <1>1, <3>1 DEF Over
  <2>7. LoadMessage(m, doc) = [kind |-> k, members |-> Over(Part(doc, members), m.members)]
    BY <2>5, OnlyIsPart DEF LoadMessage, Shaped
  <2> QED
    BY <2>3, <2>6, <2>7 DEF MessageThrows, Shaped
<1> QED
  BY <1>4, <1>5

LEMMA InitAgentInv == AgentInit => AgentInv
<1> SUFFICES ASSUME AgentInit PROVE AgentInv
  OBVIOUS
<1>1. IsMessage(sent) /\ Shaped(sent)
  <2>1. Range(Members("ack")) = {}
    BY MembersOf
  <2>2. Nothing \in [{} -> Values]
    BY DEF Nothing
  <2> QED
    BY <2>1, <2>2 DEF AgentInit, IsMessage, Shaped, AgentKinds
<1>2. IsMessage(object) /\ Shaped(object)
  BY DEF AgentInit, Messages, IsMessage, Shaped
<1>3. wire \in [DOMAIN wire -> Values \cup {Bad}]
  BY DEF AgentInit, Nothing
<1> QED
  BY <1>1, <1>2, <1>3 DEF AgentInit, AgentInv, AgentTypeOK, WireIsSent, WrittenIsRead, KindsAreTold

LEMMA WriteKeepsAgent ==
    ASSUME AgentInv, NEW kind \in AgentKinds, NEW message \in Messages(kind, Written),
           Write(message)
    PROVE  AgentInv'
<1>1. Written \subseteq Values
  BY SetAssumption, ValuesAssumption DEF Written
<1>2. IsMessage(message) /\ Shaped(message)
  BY <1>1 DEF Messages, IsMessage, Shaped
<1>3. /\ sent' = message /\ object' = object /\ leg' = "under way"
      /\ \/ wire' = EmitMessage(message) /\ writer' = "emit"
         \/ wire' = Documented(message) /\ writer' = "headers"
  BY DEF Write
<1>4. wire' \in [DOMAIN wire' -> Values \cup {Bad}] /\ DOMAIN wire' \subseteq TagsOf(message.kind)
  BY <1>2, <1>3, EmittedMessage DEF TagsOf
<1>5. IsMessage(sent') /\ Shaped(sent') /\ IsMessage(object') /\ Shaped(object')
  BY <1>2, <1>3 DEF AgentInv, AgentTypeOK
<1> QED
  BY <1>3, <1>4, <1>5
     DEF AgentInv, AgentTypeOK, WireIsSent, WrittenIsRead, KindsAreTold, IsMessage, Shaped

LEMMA SpoilKeepsAgent ==
    ASSUME AgentInv, NEW t \in DOMAIN wire, Spoil(t)
    PROVE  AgentInv'
<1>1. /\ leg = "under way" /\ leg' = leg /\ sent' = sent /\ object' = object
      /\ writer' = "spoilt"
      /\ wire' = Part(wire, DOMAIN wire \ {t}) \/ wire' = [wire EXCEPT ![t] = Bad]
  BY OnlyIsPart DEF Spoil
<1>2. wire \in [DOMAIN wire -> Values \cup {Bad}] /\ DOMAIN wire \subseteq TagsOf(sent.kind)
  BY <1>1 DEF AgentInv, AgentTypeOK, WireIsSent
<1>3. wire' \in [DOMAIN wire' -> Values \cup {Bad}] /\ DOMAIN wire' \subseteq DOMAIN wire
  BY <1>1, <1>2 DEF Part
<1>4. IsMessage(sent') /\ Shaped(sent') /\ IsMessage(object') /\ Shaped(object')
  BY <1>1 DEF AgentInv, AgentTypeOK
<1> QED
  BY <1>1, <1>2, <1>3, <1>4
     DEF AgentInv, AgentTypeOK, WireIsSent, WrittenIsRead, KindsAreTold, IsMessage, Shaped

LEMMA LoadKeepsAgent == ASSUME AgentInv, Load PROVE AgentInv'
<1>1. /\ leg = "under way" /\ sent' = sent /\ wire' = wire /\ writer' = writer
      /\ object' = LoadMessage(object, wire)
      /\ leg' = IF MessageThrows(object.kind, wire) THEN "rejected" ELSE "read"
  BY DEF Load
<1>2. /\ IsMessage(sent) /\ Shaped(sent) /\ IsMessage(object) /\ Shaped(object)
      /\ wire \in [DOMAIN wire -> Values \cup {Bad}]
      /\ writer = "emit" => wire = EmitMessage(sent)
      /\ DOMAIN wire \subseteq TagsOf(sent.kind)
      /\ writer \in {"emit", "headers", "spoilt"}
  BY <1>1 DEF AgentInv, AgentTypeOK, WireIsSent
<1>3. IsMessage(object') /\ Shaped(object') /\ object'.kind = object.kind
  BY <1>1, <1>2, LoadKeepsMessage
<1>4. AgentTypeOK' /\ Shaped(sent)' /\ Shaped(object)' /\ WireIsSent'
  BY <1>1, <1>2, <1>3 DEF AgentTypeOK, WireIsSent, IsMessage, Shaped
<1>5. WrittenIsRead'
  <2> SUFFICES ASSUME writer = "emit", sent.kind = object.kind
               PROVE  IF \E t \in Maps \cap DOMAIN sent.members : sent.members[t] = Empty
                      THEN leg' = "rejected"
                      ELSE leg' = "read" /\ object' = sent
    BY <1>1, <1>3 DEF WrittenIsRead
  <2> QED
    BY <1>1, <1>2, EmittedIsRead
<1>6. KindsAreTold'
  <2> SUFFICES ASSUME leg' = "read"
               PROVE  \/ sent.kind = object.kind \/ object.kind = "ack"
                      \/ <<sent.kind, object.kind>>
                            \in {<<"reply", "request">>, <<"stop", "restart">>,
                                 <<"restart", "stop">>}
    BY <1>1, <1>3 DEF KindsAreTold
  <2>1. Unreadable(object.kind, wire) = {}
    BY <1>1 DEF MessageThrows
  <2>2. Range(Members(object.kind)) \subseteq DOMAIN wire
    BY <2>1 DEF Unreadable, Range
  <2> QED
    BY <1>2, <2>2, MembersTell DEF IsMessage
<1> QED
  BY <1>4, <1>5, <1>6 DEF AgentInv

LEMMA AgentInvariant == AgentSpec => []AgentInv
<1>1. AgentInv /\ [AgentNext]_agentVars => AgentInv'
  <2> SUFFICES ASSUME AgentInv, [AgentNext]_agentVars PROVE AgentInv'
    OBVIOUS
  <2>1. CASE UNCHANGED agentVars
    BY <2>1 DEF agentVars, AgentInv, AgentTypeOK, WireIsSent, WrittenIsRead, KindsAreTold,
                IsMessage, Shaped
  <2> QED
    BY <2>1, WriteKeepsAgent, SpoilKeepsAgent, LoadKeepsAgent DEF AgentNext
<1> QED
  BY <1>1, InitAgentInv, PTL DEF AgentSpec

(* No load() leaves a message with a member that cannot be one, also where *)
(* it throws half-way.                                                     *)
THEOREM AgentTypeCorrect == AgentSpec => []AgentTypeOK
<1>1. AgentInv => AgentTypeOK
  BY DEF AgentInv
<1> QED
  BY <1>1, AgentInvariant, PTL

(* What emit() has written of any message, an object of its kind reads,    *)
(* whatever values there are.                                              *)
THEOREM WrittenMessagesAreRead == AgentSpec => []WrittenIsRead
<1>1. AgentInv => WrittenIsRead
  BY DEF AgentInv
<1> QED
  BY <1>1, AgentInvariant, PTL

(* No document, spoilt or written after the headers, is taken for a        *)
(* message of another kind, but for those the topics tell apart.           *)
THEOREM KindsTold == AgentSpec => []KindsAreTold
<1>1. AgentInv => KindsAreTold
  BY DEF AgentInv
<1> QED
  BY <1>1, AgentInvariant, PTL



-----------------------------------------------------------------------------
(* Types: whatever was written by hand, a container holds nothing but      *)
(* tasks, results and values.                                              *)

YamlTags ==
    ContainerOptionals \cup
    UNION {TopTags(kind) \cup Parameters(kind) \cup {EmitTag(v) : v \in Vectors(kind)} :
              kind \in Kinds}

YamlKeys == {EmitKey(kind) : kind \in Kinds}

YamlMaps == UNION {[D -> Values \cup BadNodes] : D \in SUBSET YamlTags}

YamlNodes == [top : YamlMaps, parameter : YamlMaps]

(* A list has an element at least. *)
YamlLists == UNION {[D -> Seq(YamlNodes) \ {<<>>}] : D \in SUBSET YamlKeys}

Documents == [task : Kinds, top : YamlMaps, parameter : YamlMaps, lists : YamlLists]

LEMMA AMap ==
    ASSUME NEW f
    PROVE  f \in YamlMaps <=> /\ DOMAIN f \subseteq YamlTags
                              /\ f \in [DOMAIN f -> Values \cup BadNodes]
<1>1. ASSUME f \in YamlMaps
      PROVE  DOMAIN f \subseteq YamlTags /\ f \in [DOMAIN f -> Values \cup BadNodes]
  <2>1. PICK D \in SUBSET YamlTags : f \in [D -> Values \cup BadNodes]
    BY <1>1 DEF YamlMaps
  <2> QED
    BY <2>1
<1>2. ASSUME DOMAIN f \subseteq YamlTags, f \in [DOMAIN f -> Values \cup BadNodes]
      PROVE  f \in YamlMaps
  BY <1>2 DEF YamlMaps
<1> QED
  BY <1>1, <1>2

LEMMA TagsAreKnown ==
    ASSUME NEW kind \in Kinds
    PROVE  /\ TopTags(kind) \subseteq YamlTags
           /\ Parameters(kind) \subseteq YamlTags
           /\ \A v \in Vectors(kind) : EmitTag(v) \in YamlTags
           /\ ContainerOptionals \subseteq YamlTags
           /\ EmitKey(kind) \in YamlKeys
<1> DEFINE tags(k) == TopTags(k) \cup Parameters(k) \cup {EmitTag(v) : v \in Vectors(k)}
<1>1. tags(kind) \subseteq UNION {tags(k) : k \in Kinds}
  <2> HIDE DEF tags
  <2> QED
    OBVIOUS
<1>2. tags(kind) \subseteq YamlTags
  BY <1>1 DEF YamlTags
<1>3. ContainerOptionals \subseteq YamlTags
  BY DEF YamlTags
<1>4. EmitKey(kind) \in YamlKeys
  BY DEF YamlKeys
<1> QED
  BY <1>2, <1>3, <1>4

LEMMA EmittedTaskIsNode ==
    ASSUME NEW t, IsTask(t)
    PROVE  EmitTask(t) \in YamlNodes
<1> DEFINE f == t.fields
           present == Vectors(t.kind) \cap DOMAIN f
           top == Over(Part(f, TopTags(t.kind)), EmitVectors(t))
<1>1. EmitTask(t) = [top |-> top, parameter |-> Part(f, Parameters(t.kind))]
  BY OnlyIsPart DEF EmitTask, MergeNode
<1>2. f \in [DOMAIN f -> Values] /\ t.kind \in Kinds
  BY DEF IsTask, IsFields
<1>3. /\ EmitVectors(t) \in [DOMAIN EmitVectors(t) -> Values]
      /\ DOMAIN EmitVectors(t) \subseteq YamlTags
  <2>1. EmitVectors(t) = [u \in {EmitTag(v) : v \in present} |->
                             f[CHOOSE v \in present : EmitTag(v) = u]]
    BY DEF EmitVectors
  <2>2. ASSUME NEW u \in {EmitTag(v) : v \in present}
        PROVE  (CHOOSE v \in present : EmitTag(v) = u) \in present
    <3>1. PICK v \in present : EmitTag(v) = u
      OBVIOUS
    <3> QED
      BY <3>1
  <2>3. \A v \in present : f[v] \in Values /\ EmitTag(v) \in YamlTags
    BY <1>2, TagsAreKnown
  <2> HIDE DEF present, f
  <2> QED
    BY <2>1, <2>2, <2>3
<1>4. TopTags(t.kind) \subseteq YamlTags /\ Parameters(t.kind) \subseteq YamlTags
  BY <1>2, TagsAreKnown
<1> HIDE DEF f
<1>5. top \in YamlMaps
  <2>1. DOMAIN top \subseteq YamlTags /\ top \in [DOMAIN top -> Values \cup BadNodes]
    BY <1>2, <1>3, <1>4 DEF Over, Part
  <2> QED
    BY <2>1, AMap
<1>6. Part(f, Parameters(t.kind)) \in YamlMaps
  <2>1. /\ DOMAIN Part(f, Parameters(t.kind)) \subseteq YamlTags
        /\ Part(f, Parameters(t.kind)) \in
              [DOMAIN Part(f, Parameters(t.kind)) -> Values \cup BadNodes]
    BY <1>2, <1>4 DEF Part
  <2> QED
    BY <2>1, AMap
<1> QED
  BY <1>1, <1>5, <1>6 DEF YamlNodes

LEMMA EmittedIsDocument ==
    ASSUME NEW c, IsTaskContainer(c), c.tasks # <<>>
    PROVE  EmitContainer(c) \in Documents
<1> DEFINE doc == EmitContainer(c)
           k == Type(c)
           front == EmitTask(c.tasks[1])
           list == [i \in DOMAIN c.tasks |-> EmitTask(c.tasks[i])]
<1>1. /\ DOMAIN c.tasks = 1..Len(c.tasks) /\ Len(c.tasks) \in Nat /\ Len(c.tasks) > 0
      /\ Head(c.tasks) = c.tasks[1] /\ \A i \in DOMAIN c.tasks : IsTask(c.tasks[i])
      /\ k \in Kinds
  BY Front
<1>2. /\ Only(c.options, ContainerOptionals) = c.options
      /\ c.options \in [DOMAIN c.options -> Values]
      /\ DOMAIN c.options \subseteq YamlTags
  BY <1>1, OptionsAreGood, TagsAreKnown DEF IsTaskContainer, IsFields
<1>3. front \in YamlNodes
  BY <1>1, EmittedTaskIsNode
<1>4. Nothing \in YamlMaps /\ Nothing \in YamlLists
  <2>1. Nothing \in [{} -> Values \cup BadNodes] /\ Nothing \in [{} -> Seq(YamlNodes) \ {<<>>}]
    BY DEF Nothing
  <2> QED
    BY <2>1 DEF YamlMaps, YamlLists
<1>5. c.options \in YamlMaps
  BY <1>2, AMap
<1>6. CASE k \in Merged
  <2>1. doc = [task |-> k, top |-> Over(front.top, c.options),
               parameter |-> front.parameter, lists |-> Nothing]
    BY <1>1, <1>2, <1>6 DEF EmitContainer, MergeNode
  <2>2. front.top \in YamlMaps /\ front.parameter \in YamlMaps
    BY <1>3 DEF YamlNodes
  <2> HIDE DEF doc, front, k
  <2>3. Over(front.top, c.options) \in YamlMaps
    <3> DEFINE g == front.top
               o == c.options
    <3>1. DOMAIN g \subseteq YamlTags /\ g \in [DOMAIN g -> Values \cup BadNodes]
      BY <2>2, AMap
    <3>2. DOMAIN o \subseteq YamlTags /\ o \in [DOMAIN o -> Values]
      BY <1>2
    <3> HIDE DEF g, o
    <3>3. /\ DOMAIN Over(g, o) \subseteq YamlTags
          /\ Over(g, o) \in [DOMAIN Over(g, o) -> Values \cup BadNodes]
      BY <3>1, <3>2 DEF Over
    <3>4. Over(g, o) \in YamlMaps
      BY <3>3, AMap
    <3> QED
      BY <3>4 DEF g, o
  <2> QED
    BY <1>1, <1>4, <2>1, <2>2, <2>3 DEF Documents, doc
<1>7. CASE k \notin Merged
  <2>1. doc = [task |-> k, top |-> c.options, parameter |-> Nothing,
               lists |-> [key \in {EmitKey(k)} |-> list]]
    BY <1>2, <1>7 DEF EmitContainer
  <2>2. \A i \in 1..Len(c.tasks) : EmitTask(c.tasks[i]) \in YamlNodes
    BY <1>1, EmittedTaskIsNode
  <2>3. list \in Seq(YamlNodes) \ {<<>>}
    BY <1>1, <2>2
  <2>4. {EmitKey(k)} \in SUBSET YamlKeys
    BY <1>1, TagsAreKnown
  <2> HIDE DEF doc, list, k
  <2>5. [key \in {EmitKey(k)} |-> list] \in YamlLists
    <3>1. [key \in {EmitKey(k)} |-> list] \in [{EmitKey(k)} -> Seq(YamlNodes) \ {<<>>}]
      BY <2>3
    <3> QED
      BY <2>4, <3>1 DEF YamlLists
  <2> QED
    BY <1>1, <1>4, <1>5, <2>1, <2>5 DEF Documents, doc
<1> QED
  BY <1>6, <1>7

LEMMA SpoiltIsMap ==
    ASSUME NEW f \in YamlMaps, NEW g \in Spoilt(f)
    PROVE  g \in YamlMaps
<1>0. DOMAIN f \subseteq YamlTags /\ f \in [DOMAIN f -> Values \cup BadNodes]
  BY AMap
<1>1. ASSUME NEW t \in DOMAIN f, g = Part(f, DOMAIN f \ {t}) PROVE g \in YamlMaps
  <2>1. DOMAIN g \subseteq YamlTags /\ g \in [DOMAIN g -> Values \cup BadNodes]
    BY <1>0, <1>1 DEF Part
  <2> QED
    BY <2>1, AMap
<1>2. ASSUME NEW t \in DOMAIN f, NEW bad \in BadNodes, g = [f EXCEPT ![t] = bad] PROVE g \in YamlMaps
  <2>1. DOMAIN g \subseteq YamlTags /\ g \in [DOMAIN g -> Values \cup BadNodes]
    BY <1>0, <1>2
  <2> QED
    BY <2>1, AMap
<1>3. \/ \E t \in DOMAIN f : g = Only(f, DOMAIN f \ {t})
      \/ \E t \in DOMAIN f, bad \in BadNodes : g = [f EXCEPT ![t] = bad]
  BY DEF Spoilt
<1> QED
  BY <1>1, <1>2, <1>3, OnlyIsPart

(* What is spoilt keeps its form. *)
LEMMA SpoiltIsDocument ==
    ASSUME NEW doc \in Documents,
           NEW new \in SpoiltNode(doc) \cup SpoiltList(doc) \cup {[doc EXCEPT !.lists = Nothing]}
    PROVE  new \in Documents
<1>1. CASE new \in SpoiltNode(doc)
  <2>1. ASSUME NEW f \in Spoilt(doc.top), new = [doc EXCEPT !.top = f] PROVE new \in Documents
    BY <2>1, SpoiltIsMap DEF Documents
  <2>2. ASSUME NEW f \in Spoilt(doc.parameter), new = [doc EXCEPT !.parameter = f]
        PROVE  new \in Documents
    BY <2>2, SpoiltIsMap DEF Documents
  <2> QED
    BY <1>1, <2>1, <2>2 DEF SpoiltNode
<1>2. CASE new \in SpoiltList(doc)
  <2>1. PICK key \in DOMAIN doc.lists : \E i \in DOMAIN doc.lists[key] :
           \E node \in SpoiltNode(doc.lists[key][i]) :
              new = [doc EXCEPT !.lists[key][i] = node]
    BY <1>2 DEF SpoiltList
  <2>2. PICK i \in DOMAIN doc.lists[key] : \E node \in SpoiltNode(doc.lists[key][i]) :
           new = [doc EXCEPT !.lists[key][i] = node]
    BY <2>1
  <2>3. PICK node \in SpoiltNode(doc.lists[key][i]) : new = [doc EXCEPT !.lists[key][i] = node]
    BY <2>2
  <2>4. PICK D \in SUBSET YamlKeys : doc.lists \in [D -> Seq(YamlNodes) \ {<<>>}]
    BY DEF Documents, YamlLists
  <2> DEFINE list == doc.lists[key]
             old == list[i]
             changed == [list EXCEPT ![i] = node]
  <2>5. list \in Seq(YamlNodes) /\ list # <<>> /\ old \in YamlNodes
    BY <2>4
  <2>6. node \in YamlNodes
    <3>1. ASSUME NEW f \in Spoilt(old.top), node = [old EXCEPT !.top = f]
          PROVE  node \in YamlNodes
      <4>1. f \in YamlMaps
        BY <2>5, SpoiltIsMap DEF YamlNodes
      <4> HIDE DEF old
      <4> QED
        BY <2>5, <3>1, <4>1 DEF YamlNodes
    <3>2. ASSUME NEW f \in Spoilt(old.parameter), node = [old EXCEPT !.parameter = f]
          PROVE  node \in YamlNodes
      <4>1. f \in YamlMaps
        BY <2>5, SpoiltIsMap DEF YamlNodes
      <4> HIDE DEF old
      <4> QED
        BY <2>5, <3>2, <4>1 DEF YamlNodes
    <3> QED
      BY <2>3, <3>1, <3>2 DEF SpoiltNode
  <2>7. changed \in Seq(YamlNodes) \ {<<>>}
    <3>1. DOMAIN list = 1..Len(list) /\ Len(list) \in Nat /\ Len(list) > 0 /\ i \in 1..Len(list)
          /\ \A j \in 1..Len(list) : list[j] \in YamlNodes
      BY <2>5
    <3> HIDE DEF list
    <3>2. changed = [j \in 1..Len(list) |-> IF j = i THEN node ELSE list[j]]
      BY <3>1
    <3> HIDE DEF changed
    <3>3. changed \in Seq(YamlNodes) /\ DOMAIN changed = 1..Len(list)
      BY <2>6, <3>1, <3>2
    <3>4. changed # <<>>
      BY <3>1, <3>3
    <3> QED
      BY <3>3, <3>4
  <2>8. new = [doc EXCEPT !.lists = [doc.lists EXCEPT ![key] = changed]]
    BY <2>3
  <2> HIDE DEF changed, list, old
  <2>9. [doc.lists EXCEPT ![key] = changed] \in YamlLists
    BY <2>4, <2>7 DEF YamlLists
  <2> QED
    BY <2>8, <2>9 DEF Documents
<1>3. CASE new = [doc EXCEPT !.lists = Nothing]
  <2>1. Nothing \in [{} -> Seq(YamlNodes) \ {<<>>}]
    BY DEF Nothing
  <2>2. Nothing \in YamlLists
    BY <2>1 DEF YamlLists
  <2> QED
    BY <1>3, <2>2 DEF Documents
<1> QED
  BY <1>1, <1>2, <1>3

(* What load() makes of a node it can read is a task. *)
LEMMA LoadedIsTask ==
    ASSUME NEW kind \in Kinds, NEW node \in YamlNodes, ~LoadTaskThrows(kind, node)
    PROVE  IsTask(LoadTask(kind, node))
<1> DEFINE top == Part(node.top, TopTags(kind))
           parameters == Part(node.parameter, Parameters(kind))
           vectors == LoadVectors(kind, node.top)
           fields == Over(top, Over(parameters, vectors))
<1>1. /\ node.top \in [DOMAIN node.top -> Values \cup BadNodes]
      /\ node.parameter \in [DOMAIN node.parameter -> Values \cup BadNodes]
  BY AMap DEF YamlNodes
<1>2. /\ Required(kind) \subseteq DOMAIN node.top
      /\ ~HasBad(node.top, TopTags(kind))
      /\ ~HasBad(node.parameter, Parameters(kind))
      /\ ~HasBadItem(kind, node.top)
  BY DEF LoadTaskThrows
<1>3. LoadTask(kind, node) = [kind |-> kind, fields |-> fields]
  BY OnlyIsPart DEF LoadTask, LoadParameters
<1>4. top \in [DOMAIN top -> Values] /\ DOMAIN top \subseteq TopTags(kind)
      /\ Required(kind) \subseteq DOMAIN top
  BY <1>1, <1>2 DEF Part, HasBad, TopTags
<1>5. parameters \in [DOMAIN parameters -> Values] /\ DOMAIN parameters \subseteq Parameters(kind)
  BY <1>1, <1>2 DEF Part, HasBad
<1>6. vectors \in [DOMAIN vectors -> Values] /\ DOMAIN vectors \subseteq Vectors(kind)
  BY <1>1, <1>2 DEF LoadVectors, HasBadItem, BadNodes
<1> HIDE DEF top, parameters, vectors
<1>7. /\ fields \in [DOMAIN fields -> Values]
      /\ DOMAIN fields \subseteq TopTags(kind) \cup Parameters(kind) \cup Vectors(kind)
      /\ Required(kind) \subseteq DOMAIN fields
  BY <1>4, <1>5, <1>6 DEF Over
<1> HIDE DEF fields
<1> QED
  BY <1>3, <1>7 DEF IsTask, IsFields, Fields

(* A container stays one whatever it loads; when nothing is thrown, there  *)
(* is a task in it.                                                        *)
LEMMA LoadKeepsContainer ==
    ASSUME NEW c, IsTaskContainer(c), NEW doc \in Documents
    PROVE  /\ IsTaskContainer(LoadContainer(c, doc))
           /\ ~LoadTasksThrows(doc) => Len(LoadContainer(c, doc).tasks) > 0
                                       /\ Len(LoadContainer(c, doc).tasks) \in Nat
                                       /\ LoadContainer(c, doc).tasks
                                             \in Seq(Range(LoadContainer(c, doc).tasks))
<1>1. CASE LoadTasksThrows(doc)
  BY <1>1 DEF LoadContainer, Untouched
<1>2. CASE ~LoadTasksThrows(doc)
  <2> DEFINE kind == doc.task
             nodes == Nodes(doc)
             tasks == LoadTasks(doc)
             n == Len(nodes)
             read == IF HasBad(doc.top, {"concurrent-execution"}) THEN {}
                     ELSE IF HasBad(doc.top, {"id"}) THEN {"concurrent-execution"}
                     ELSE ContainerOptionals
             options == Over(Part(doc.top, read), c.options)
  <2>1. kind \in Kinds /\ doc.top \in YamlMaps
    BY DEF Documents
  <2>2. nodes \in Seq(YamlNodes) /\ nodes # <<>>
    <3>1. CASE InList(kind)
      <4>1. PICK D \in SUBSET YamlKeys : doc.lists \in [D -> Seq(YamlNodes) \ {<<>>}]
        BY DEF Documents, YamlLists
      <4>2. LoadKey(kind) \in DOMAIN doc.lists
        BY <1>2, <3>1 DEF LoadTasksThrows
      <4>3. nodes = doc.lists[LoadKey(kind)]
        BY <3>1 DEF Nodes
      <4> QED
        BY <4>1, <4>2, <4>3
    <3>2. CASE ~InList(kind)
      <4>1. nodes = <<[top |-> doc.top, parameter |-> doc.parameter]>>
        BY <3>2 DEF Nodes
      <4>2. [top |-> doc.top, parameter |-> doc.parameter] \in YamlNodes
        BY DEF Documents, YamlNodes
      <4> QED
        BY <4>1, <4>2
    <3> QED
      BY <3>1, <3>2
  <2>3. \A i \in DOMAIN nodes : nodes[i] \in YamlNodes /\ ~LoadTaskThrows(kind, nodes[i])
    BY <1>2, <2>2 DEF LoadTasksThrows
  <2>4. \A i \in DOMAIN nodes : IsTask(LoadTask(kind, nodes[i]))
    BY <2>1, <2>3, LoadedIsTask
  <2>5. n \in Nat /\ n > 0 /\ DOMAIN nodes = 1..n
    BY <2>2
  <2>6. tasks = [i \in 1..n |-> LoadTask(kind, nodes[i])]
    BY <2>5 DEF LoadTasks
  <2>7. /\ tasks = [i \in 1..n |-> tasks[i]]
        /\ \A i \in 1..n : IsTask(tasks[i])
    BY <2>4, <2>5, <2>6
  <2>8. LoadContainer(c, doc) = [tasks |-> tasks, options |-> options]
    BY <1>2, OnlyIsPart DEF LoadContainer
  <2>9. IsFields(options, ContainerOptionals)
    <3> DEFINE own == Part(doc.top, read)
    <3>1. doc.top \in [DOMAIN doc.top -> Values \cup BadNodes]
      BY <2>1, AMap
    <3>2. ~HasBad(doc.top, read) /\ read \subseteq ContainerOptionals
      BY DEF HasBad, ContainerOptionals
    <3>3. IsFields(c.options, ContainerOptionals)
      BY DEF IsTaskContainer
    <3> HIDE DEF read
    <3>4. own \in [DOMAIN own -> Values] /\ DOMAIN own \subseteq ContainerOptionals
      BY <3>1, <3>2 DEF Part, HasBad
    <3> HIDE DEF own
    <3>5. IsFields(Over(own, c.options), ContainerOptionals)
      BY <3>3, <3>4 DEF IsFields, Over
    <3> QED
      BY <3>5 DEF own
  <2> HIDE DEF tasks, options, n
  <2>10. tasks \in Seq(Range(tasks)) /\ Len(tasks) = n
    BY <2>5, <2>7, FunctionIsSequence
  <2>11. \A t \in Range(tasks) : IsTask(t)
    BY <2>7 DEF Range
  <2>12. IsTaskContainer([tasks |-> tasks, options |-> options])
    BY <2>9, <2>10, <2>11, ContainerOf
  <2> QED
    BY <2>5, <2>8, <2>10, <2>12
<1> QED
  BY <1>1, <1>2

(* The nodes of the answer, also of one that was written by hand. *)
ResultMaps == UNION {[D -> Values \cup BadNodes] : D \in SUBSET FieldsOfResult}

IsReply(doc) ==
    /\ doc = [result |-> doc.result, id |-> doc.id, nodes |-> doc.nodes]
    /\ doc.id \in Values
    /\ doc.nodes \in Seq(ResultMaps)
    /\ doc.result = "vm migrated" => Len(doc.nodes) > 0

LEMMA AResult ==
    ASSUME NEW r
    PROVE  r \in Results <=> /\ r \in [DOMAIN r -> Values]
                             /\ RequiredOfResult \subseteq DOMAIN r
                             /\ DOMAIN r \subseteq FieldsOfResult
<1>1. ASSUME r \in Results
      PROVE  /\ r \in [DOMAIN r -> Values]
             /\ RequiredOfResult \subseteq DOMAIN r
             /\ DOMAIN r \subseteq FieldsOfResult
  <2>1. PICK D \in SUBSET FieldsOfResult : RequiredOfResult \subseteq D /\ r \in [D -> Values]
    BY <1>1 DEF Results
  <2> QED
    BY <2>1
<1>2. ASSUME r \in [DOMAIN r -> Values], RequiredOfResult \subseteq DOMAIN r,
             DOMAIN r \subseteq FieldsOfResult
      PROVE  r \in Results
  BY <1>2 DEF Results
<1> QED
  BY <1>1, <1>2

LEMMA AResultMap ==
    ASSUME NEW r
    PROVE  r \in ResultMaps <=> /\ r \in [DOMAIN r -> Values \cup BadNodes]
                                /\ DOMAIN r \subseteq FieldsOfResult
<1>1. ASSUME r \in ResultMaps
      PROVE  r \in [DOMAIN r -> Values \cup BadNodes] /\ DOMAIN r \subseteq FieldsOfResult
  <2>1. PICK D \in SUBSET FieldsOfResult : r \in [D -> Values \cup BadNodes]
    BY <1>1 DEF ResultMaps
  <2> QED
    BY <2>1
<1>2. ASSUME r \in [DOMAIN r -> Values \cup BadNodes], DOMAIN r \subseteq FieldsOfResult
      PROVE  r \in ResultMaps
  BY <1>2 DEF ResultMaps
<1> QED
  BY <1>1, <1>2

LEMMA LoadedIsResult ==
    ASSUME NEW node \in ResultMaps, ~LoadResultThrows(node)
    PROVE  LoadResult(node) \in Results
<1> DEFINE tags == {t \in RequiredOfResult \cup {"details"} : t \in DOMAIN node => node[t] \notin BadNodes}
           r == Part(node, tags)
<1>1. node \in [DOMAIN node -> Values \cup BadNodes]
  BY AResultMap
<1>2. RequiredOfResult \subseteq DOMAIN node /\ \A t \in RequiredOfResult : node[t] \notin BadNodes
  BY DEF LoadResultThrows, HasBad
<1>3. LoadResult(node) = r
  BY OnlyIsPart DEF LoadResult
<1>4. RequiredOfResult \subseteq tags /\ tags \subseteq FieldsOfResult
      /\ \A t \in tags \cap DOMAIN node : node[t] \notin BadNodes
  BY <1>2 DEF FieldsOfResult
<1> HIDE DEF tags
<1>5. /\ r \in [DOMAIN r -> Values]
      /\ RequiredOfResult \subseteq DOMAIN r
      /\ DOMAIN r \subseteq FieldsOfResult
  BY <1>1, <1>2, <1>4 DEF Part
<1> QED
  BY <1>3, <1>5, AResult

LEMMA NewResultIsResult == NewResult \in Results
<1>1. /\ NewResult \in [DOMAIN NewResult -> Values]
      /\ RequiredOfResult \subseteq DOMAIN NewResult
      /\ DOMAIN NewResult \subseteq FieldsOfResult
  BY ValuesAssumption DEF NewResult, FieldsOfResult
<1> QED
  BY <1>1, AResult

LEMMA NodesAreRead ==
    ASSUME NEW nodes \in Seq(ResultMaps), \A i \in DOMAIN nodes : ~LoadResultThrows(nodes[i])
    PROVE  [i \in DOMAIN nodes |-> LoadResult(nodes[i])] \in Seq(Results)
<1>1. \A i \in DOMAIN nodes : nodes[i] \in ResultMaps
  OBVIOUS
<1>2. \A i \in DOMAIN nodes : LoadResult(nodes[i]) \in Results
  BY <1>1, LoadedIsResult
<1>3. DOMAIN nodes = 1..Len(nodes) /\ Len(nodes) \in Nat
  OBVIOUS
<1> QED
  BY <1>2, <1>3

LEMMA FirstKeepsResults ==
    ASSUME NEW results \in Seq(Results), NEW node \in ResultMaps, ~LoadResultThrows(node)
    PROVE  LoadFirst(results, node) \in Seq(Results)
<1> DEFINE first == LoadResult(node)
<1>1. first \in Results /\ NewResult \in Results
  BY LoadedIsResult, NewResultIsResult
<1> HIDE DEF first
<1>2. <<first>> \in Seq(Results)
  BY <1>1
<1>3. CASE results = <<>>
  BY <1>2, <1>3 DEF LoadFirst, first
<1>4. CASE results # <<>>
  <2>1. Tail(results) \in Seq(Results)
    BY <1>4
  <2>2. Append(Tail(results), NewResult) \in Seq(Results)
    BY <1>1, <2>1
  <2>3. <<first>> \o Append(Tail(results), NewResult) \in Seq(Results)
    BY <1>2, <2>2
  <2> QED
    BY <1>4, <2>3 DEF LoadFirst, IntoFirst, first
<1> QED
  BY <1>3, <1>4

LEMMA AContainer ==
    ASSUME NEW title, NEW results \in Seq(Results), NEW id \in Values
    PROVE  IsResultContainer([title |-> title, results |-> results, id |-> id])
BY DEF IsResultContainer

(* A Result_container stays one whatever it loads, also where that throws. *)
LEMMA LoadKeepsResults ==
    ASSUME NEW c, IsResultContainer(c), NEW doc, IsReply(doc)
    PROVE  IsResultContainer(LoadResults(c, doc))
<1> DEFINE before == c.results
           nodes == doc.nodes
           title == doc.result
<1>1. c = [title |-> c.title, results |-> before, id |-> c.id]
  BY DEF IsResultContainer
<1>2. before \in Seq(Results) /\ c.id \in Values
  BY DEF IsResultContainer
<1>3. nodes \in Seq(ResultMaps) /\ doc.id \in Values
  BY DEF IsReply
<1>4. title = "vm migrated" => Len(nodes) > 0
  BY DEF IsReply
<1>5. CASE LoadResultsThrows(doc)
  <2> DEFINE results == IF title = "vm migrated" THEN Append(before, NewResult) ELSE before
  <2>1. LoadResults(c, doc) = [title |-> title, results |-> results, id |-> c.id]
    BY <1>1, <1>5 DEF LoadResults
  <2> HIDE DEF before, nodes, title
  <2>2. Append(before, NewResult) \in Seq(Results)
    BY <1>2, NewResultIsResult
  <2>3. results \in Seq(Results)
    BY <1>2, <2>2
  <2> HIDE DEF results
  <2> QED
    BY <1>2, <2>1, <2>3, AContainer
<1>6. CASE ~LoadResultsThrows(doc)
  <2> DEFINE all == [i \in DOMAIN nodes |-> LoadResult(nodes[i])]
             results == IF title = "vm migrated" THEN LoadFirst(before, Head(nodes)) ELSE all
  <2>1. LoadResults(c, doc) = [title |-> title, results |-> results, id |-> doc.id]
    BY <1>6 DEF LoadResults
  <2>2. \A i \in DOMAIN nodes : ~LoadResultThrows(nodes[i])
    BY <1>6 DEF LoadResultsThrows
  <2> HIDE DEF before, nodes, title
  <2>3. all \in Seq(Results)
    BY <1>3, <2>2, NodesAreRead
  <2>4. ASSUME title = "vm migrated" PROVE LoadFirst(before, Head(nodes)) \in Seq(Results)
    <3>1. Head(nodes) \in ResultMaps /\ Head(nodes) = nodes[1] /\ 1 \in DOMAIN nodes
      <4>1. Len(nodes) > 0
        BY <1>4, <2>4
      <4>2. nodes \in Seq(ResultMaps)
        BY <1>3
      <4> QED
        BY <4>1, <4>2
    <3> QED
      BY <1>2, <2>2, <3>1, FirstKeepsResults
  <2>5. results \in Seq(Results)
    BY <2>3, <2>4
  <2> HIDE DEF results
  <2> QED
    BY <1>3, <2>1, <2>5, AContainer
<1> QED
  BY <1>5, <1>6

LEMMA SpoiltIsReply ==
    ASSUME NEW nodes \in Seq(ResultMaps), NEW i \in DOMAIN nodes, NEW f \in Spoilt(nodes[i])
    PROVE  [nodes EXCEPT ![i] = f] \in Seq(ResultMaps) /\ Len([nodes EXCEPT ![i] = f]) = Len(nodes)
<1> DEFINE node == nodes[i]
<1>1. node \in ResultMaps
  OBVIOUS
<1>2. node \in [DOMAIN node -> Values \cup BadNodes] /\ DOMAIN node \subseteq FieldsOfResult
  BY <1>1, AResultMap
<1>3. f \in ResultMaps
  <2> HIDE DEF node
  <2>1. ASSUME NEW t \in DOMAIN node, f = Part(node, DOMAIN node \ {t}) PROVE f \in ResultMaps
    <3>1. f \in [DOMAIN f -> Values \cup BadNodes] /\ DOMAIN f \subseteq FieldsOfResult
      BY <1>2, <2>1 DEF Part
    <3> QED
      BY <3>1, AResultMap
  <2>2. ASSUME NEW t \in DOMAIN node, NEW bad \in BadNodes, f = [node EXCEPT ![t] = bad] PROVE f \in ResultMaps
    <3>1. f \in [DOMAIN f -> Values \cup BadNodes] /\ DOMAIN f \subseteq FieldsOfResult
      BY <1>2, <2>2
    <3> QED
      BY <3>1, AResultMap
  <2>3. \/ \E t \in DOMAIN node : f = Only(node, DOMAIN node \ {t})
        \/ \E t \in DOMAIN node, bad \in BadNodes : f = [node EXCEPT ![t] = bad]
    BY DEF Spoilt, node
  <2> QED
    BY <2>1, <2>2, <2>3, OnlyIsPart
<1> QED
  BY <1>3

(* The types of the documents under way, and that no container of the      *)
(* framework that has something to answer is empty.                        *)
ExchangeTypes ==
    /\ TypeOK
    /\ phase = "sent" => document \in Documents
    /\ phase = "loaded" => task.tasks \in Seq(Range(task.tasks)) /\ Len(task.tasks) > 0
    /\ phase = "answered" => IsReply(reply)

LEMMA NewIsContainer == IsResultContainer(NewResults)
<1>1. <<>> \in Seq(Results)
  OBVIOUS
<1> QED
  BY <1>1, ValuesAssumption, AContainer DEF NewResults

LEMMA InitExchangeTypes == Init => ExchangeTypes
<1> SUFFICES ASSUME Init PROVE ExchangeTypes
  OBVIOUS
<1>1. IsTaskContainer(NewContainer)
  BY DEF IsTaskContainer, NewContainer, IsFields, Nothing, Range
<1> QED
  BY <1>1, NewIsContainer, UsedAssumption DEF Init, ExchangeTypes, TypeOK, Phases

LEMMA NextExchangeTypes == RequestUnderWay' /\ ExchangeTypes /\ [Next]_vars => ExchangeTypes'
<1> SUFFICES ASSUME RequestUnderWay', ExchangeTypes, [Next]_vars PROVE ExchangeTypes'
  OBVIOUS
<1>0. /\ IsTaskContainer(request) /\ IsTaskContainer(request') /\ IsTaskContainer(task)
      /\ IsResultContainer(answer) /\ IsResultContainer(result)
      /\ byHand \in BOOLEAN /\ renewed \in BOOLEAN /\ phase \in Phases
      /\ phase = "sent" => document \in Documents
      /\ phase = "loaded" => task.tasks \in Seq(Range(task.tasks)) /\ Len(task.tasks) > 0
      /\ phase = "answered" => IsReply(reply)
  BY DEF ExchangeTypes, TypeOK, RequestUnderWay
<1>1. CASE UNCHANGED vars \/ Done
  BY <1>0, <1>1 DEF vars, Done, ExchangeTypes, TypeOK
<1>2. CASE Compose
  BY <1>0, <1>2 DEF Compose, AddTask, SetField, SetOption, ExchangeTypes, TypeOK
<1>3. CASE SendRequest
  <2>1. document' \in Documents
    BY <1>0, <1>3, EmittedIsDocument DEF SendRequest
  <2> QED
    BY <1>0, <1>3, <2>1 DEF SendRequest, ExchangeTypes, TypeOK, Phases
<1>4. CASE WriteByHand
  <2>1. document' \in Documents
    BY <1>0, <1>4, SpoiltIsDocument DEF WriteByHand
  <2> QED
    BY <1>0, <1>4, <2>1 DEF WriteByHand, ExchangeTypes, TypeOK
<1>5. ASSUME NEW old \in {task, NewContainer}, Receive(old) PROVE ExchangeTypes'
  <2>1. /\ phase = "sent" /\ task' = LoadContainer(old, document)
        /\ phase' = "loaded" => ~LoadTasksThrows(document)
        /\ phase' \in {"refused", "loaded"}
        /\ renewed' \in BOOLEAN
        /\ UNCHANGED <<request, byHand, answer, reply, result>>
    BY <1>5 DEF Receive, LoadThrows
  <2>2. IsTaskContainer(old)
    <3>1. IsTaskContainer(NewContainer)
      BY DEF IsTaskContainer, NewContainer, IsFields, Nothing, Range
    <3> QED
      BY <1>0, <3>1
  <2>3. /\ IsTaskContainer(task')
        /\ phase' = "loaded" => task'.tasks \in Seq(Range(task'.tasks)) /\ Len(task'.tasks) > 0
    BY <1>0, <2>1, <2>2, LoadKeepsContainer
  <2> QED
    BY <1>0, <2>1, <2>3 DEF ExchangeTypes, TypeOK, Phases
<1>6. ASSUME NEW results \in [DOMAIN task.tasks -> Outcomes], Answer(results)
      PROVE  ExchangeTypes'
  <2>1. /\ phase = "loaded" /\ phase' = "answered"
        /\ answer' = [title |-> Title(Type(task)), results |-> results, id |-> Id(task)]
        /\ reply' = EmitResults(answer')
        /\ UNCHANGED <<request, document, byHand, task, renewed, result>>
    BY <1>6 DEF Answer
  <2>2. DOMAIN task.tasks = 1..Len(task.tasks) /\ Len(task.tasks) \in Nat /\ Len(task.tasks) > 0
    BY <1>0, <2>1
  <2>3. results \in Seq(Results) /\ Len(results) > 0
    BY <2>2, OutcomesAssumption
  <2>4. Id(task) \in Values
    BY <1>0, ValuesAssumption DEF Id, IsTaskContainer, IsFields
  <2>5. IsResultContainer(answer')
    BY <2>1, <2>3, <2>4 DEF IsResultContainer
  <2>6. IsReply(reply')
    <3> DEFINE nodes == IF answer'.title = "vm migrated" THEN <<Head(results)>> ELSE results
    <3>1. reply' = [result |-> answer'.title, id |-> Id(task), nodes |-> nodes]
      BY <2>1 DEF EmitResults
    <3>2. \A r \in Results : r \in ResultMaps
      BY AResult, AResultMap
    <3>3. results \in Seq(ResultMaps) /\ Head(results) \in ResultMaps
      BY <2>3, <3>2
    <3>4. nodes \in Seq(ResultMaps) /\ Len(nodes) > 0
      <4> DEFINE first == Head(results)
      <4>1. first \in ResultMaps
        BY <3>3
      <4> HIDE DEF first
      <4>2. <<first>> \in Seq(ResultMaps) /\ Len(<<first>>) > 0
        BY <4>1
      <4> QED
        BY <2>3, <3>3, <4>2 DEF first
    <3> HIDE DEF nodes
    <3> QED
      BY <2>4, <3>1, <3>4 DEF IsReply
  <2> QED
    BY <1>0, <2>1, <2>5, <2>6 DEF ExchangeTypes, TypeOK, Phases
<1>7. CASE SpoilReply
  <2>1. IsReply(reply')
    <3> DEFINE nodes == reply.nodes
    <3>1. /\ reply = [result |-> reply.result, id |-> reply.id, nodes |-> nodes]
          /\ IsReply(reply)
      BY <1>0, <1>7 DEF SpoilReply, IsReply
    <3>2. PICK i \in DOMAIN nodes : \E f \in Spoilt(nodes[i]) : reply' = [reply EXCEPT !.nodes[i] = f]
      BY <1>7 DEF SpoilReply
    <3>3. PICK f \in Spoilt(nodes[i]) : reply' = [reply EXCEPT !.nodes[i] = f]
      BY <3>2
    <3>4. reply' = [result |-> reply.result, id |-> reply.id, nodes |-> [nodes EXCEPT ![i] = f]]
      BY <3>1, <3>3
    <3>5. nodes \in Seq(ResultMaps)
      BY <3>1 DEF IsReply
    <3>6. [nodes EXCEPT ![i] = f] \in Seq(ResultMaps) /\ Len([nodes EXCEPT ![i] = f]) = Len(nodes)
      BY <3>5, SpoiltIsReply
    <3> HIDE DEF nodes
    <3>7. reply.id \in Values /\ (reply.result = "vm migrated" => Len(nodes) > 0)
      BY <3>1 DEF IsReply, nodes
    <3> QED
      BY <3>4, <3>6, <3>7 DEF IsReply
  <2> QED
    BY <1>0, <1>7, <2>1 DEF SpoilReply, ExchangeTypes, TypeOK
<1>8. ASSUME NEW container \in {result, NewResults}, ReadAnswer(container) PROVE ExchangeTypes'
  <2>1. IsResultContainer(container)
    <3>1. IsResultContainer(NewResults)
      BY NewIsContainer
    <3> QED
      BY <1>0, <3>1
  <2>2. IsResultContainer(result')
    BY <1>0, <1>8, <2>1, LoadKeepsResults DEF ReadAnswer
  <2> QED
    BY <1>0, <1>8, <2>2 DEF ReadAnswer, ExchangeTypes, TypeOK, Phases
<1> QED
  BY <1>1, <1>2, <1>3, <1>4, <1>5, <1>6, <1>7, <1>8 DEF Next

(* No exchange, also one with a document that was written by hand, leaves  *)
(* in a container what is no task, no result or no value.                  *)
THEOREM ExchangeTypeCorrect == Spec => []TypeOK
<1>1. IInv => RequestUnderWay
  BY DEF IInv
<1>2. ExchangeTypes => TypeOK
  BY DEF ExchangeTypes
<1> QED
  BY <1>1, <1>2, InitIInv, NextIInv, InitExchangeTypes, NextExchangeTypes, PTL DEF Spec

=============================================================================
