---------------------------- MODULE MCExchange ----------------------------
(* Exchange with the constants TLC needs: see the .cfg file. *)
EXTENDS Exchange

SomeValues == {"", "x", "y"}

(* Each kind of task has some of these tags. *)
SomeTags == {"concurrent-execution", "vcpu-map", "pci-ids", "pci-addrs"}

Succeeded == [t \in RequiredOfResult |-> "x"]
Failed == [t \in FieldsOfResult |-> "y"]
Two == {Succeeded, Failed}

(* The framework has stopped a domain before, the application has seen two. *)
Stopped == {[tasks |-> <<NewTask("stop vm")>>,
             options |-> [t \in ContainerOptionals |-> "y"]]}

TwoStopped == {[title |-> "vm stopped", results |-> <<Succeeded, Succeeded>>, id |-> "y"]}
=============================================================================
