--------------------------- MODULE ResultMessages ---------------------------
(***************************************************************************)
(* The answers of the migration framework: results in a Result_container,  *)
(* as emit() writes and load() reads them.                                 *)
(*                                                                         *)
(* A result is a partial function from the names of its members to values. *)
(* The string details is not in the domain when it is empty, nor is a      *)
(* Time_measurement without timers.                                        *)
(***************************************************************************)
EXTENDS TaskMessages

RequiredOfResult == {"vm-name", "status"}
FieldsOfResult == RequiredOfResult \cup {"details", "time-measurement"}

(* Result(): the strings are empty. *)
NewResult == [t \in RequiredOfResult |-> Empty]

Results == UNION {[fields -> Values] :
                     fields \in {f \in SUBSET FieldsOfResult : RequiredOfResult \subseteq f}}

LoadResultThrows(node) ==
    \/ ~(RequiredOfResult \subseteq DOMAIN node)
    \/ HasBad(node, RequiredOfResult)

(* details falls back to the empty string, also when it cannot be read.    *)
(* time-measurement is written and never read.                             *)
LoadResult(node) ==
    Only(node, {t \in RequiredOfResult \cup {"details"} :
                   t \in DOMAIN node => node[t] \notin BadNodes})

-----------------------------------------------------------------------------
(* Result_container                                                        *)

(* type(true), the title of the results of a kind of tasks. *)
Title(kind) ==
    CASE kind = "start vm" -> "vm started"
      [] kind = "stop vm" -> "vm stopped"
      [] kind = "migrate vm" -> "vm migrated"
      [] kind = "evacuate node" -> "node evacuated"
      [] kind = "repin vm" -> "vm repinned"
      [] kind = "suspend vm" -> "vm suspended"
      [] kind = "resume vm" -> "vm resumed"
      [] OTHER -> "quit"

NewResults == [title |-> "", results |-> <<>>, id |-> Empty]

(* Only the first result of a migration is written, into the container's   *)
(* own node; results.at(0) throws if there is none.                        *)
EmitResults(container) ==
    [result |-> container.title,
     id |-> container.id,
     nodes |-> IF container.title = "vm migrated"
               THEN <<Head(container.results)>>
               ELSE container.results]

LoadResultsThrows(doc) == \E i \in DOMAIN doc.nodes : LoadResultThrows(doc.nodes[i])

(* Fault: the result is loaded into the element that has been added. *)
IntoLast(results, node) == Append(results, LoadResult(node))

(* emplace_back, then the first element is loaded. *)
IntoFirst(results, node) == <<LoadResult(node)>> \o Append(Tail(results), NewResult)

LoadFirst(results, node) ==
    IF results = <<>> THEN <<LoadResult(node)>> ELSE IntoFirst(results, node)

(* load() into container: the title is read first and stays, and so does   *)
(* the element that was added, when the rest cannot be read.               *)
LoadResults(container, doc) ==
    LET migrated == doc.result = "vm migrated"
        all == [i \in DOMAIN doc.nodes |-> LoadResult(doc.nodes[i])]
    IN  IF LoadResultsThrows(doc)
        THEN [container EXCEPT
                !.title = doc.result,
                !.results = IF migrated THEN Append(@, NewResult) ELSE @]
        ELSE [title |-> doc.result,
              id |-> doc.id,
              results |-> IF migrated THEN LoadFirst(container.results, Head(doc.nodes)) ELSE all]
=============================================================================
