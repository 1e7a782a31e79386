------------------------------ MODULE MCParts ------------------------------
(***************************************************************************)
(* The parts of the library that share no state with one another, each     *)
(* with the constants TLC needs: see the .cfg file.  A behaviour is one of *)
(* a single part, and the others stay where they begin.                    *)
(***************************************************************************)
EXTENDS MCExchange, AgentMessages, LibraryUsers, Timers, OptionalValues, PciDevices

CONSTANTS process, c1, c2, c3

OneProcess == {process}
Three == {c1, c2, c3}
SameProcess == [c \in Three |-> process]

Sample16 == {0, 1, 9, 10, 256, 4100, 5555, 32902, 65535}

(* "", 0x8086, 08, f1, 0x10003, 10 and 0x1000000, which is out of range. *)
Typed == {[hex |-> FALSE, digits |-> <<>>], [hex |-> TRUE, digits |-> <<8, 0, 8, 6>>],
          [hex |-> FALSE, digits |-> <<0, 8>>], [hex |-> FALSE, digits |-> <<15, 1>>],
          [hex |-> TRUE, digits |-> <<1, 0, 0, 0, 3>>], [hex |-> FALSE, digits |-> <<1, 0>>],
          [hex |-> TRUE, digits |-> <<1, 0, 0, 0, 0, 0, 0>>]}

VARIABLE part

PartNames == {"exchange", "agent", "users", "timers", "optionals", "pci"}

PartsInit ==
    /\ part \in PartNames
    /\ Init /\ AgentInit /\ UsersInit /\ TimersInit /\ OptInit /\ PciInit
    /\ part # "exchange" => task = NewContainer /\ result = NewResults
    /\ part # "agent" => object.kind = "ack"
    /\ part # "timers" => enabled

PartsNext ==
    \/ part = "exchange" /\ Next
       /\ UNCHANGED <<part, agentVars, userVars, timerVars, optVars, pciVars>>
    \/ part = "agent" /\ AgentNext
       /\ UNCHANGED <<part, vars, userVars, timerVars, optVars, pciVars>>
    \/ part = "users" /\ UsersNext
       /\ UNCHANGED <<part, vars, agentVars, timerVars, optVars, pciVars>>
    \/ part = "timers" /\ TimersNext
       /\ UNCHANGED <<part, vars, agentVars, userVars, optVars, pciVars>>
    \/ part = "optionals" /\ OptNext
       /\ UNCHANGED <<part, vars, agentVars, userVars, timerVars, pciVars>>
    \/ part = "pci" /\ PciNext
       /\ UNCHANGED <<part, vars, agentVars, userVars, timerVars, optVars>>

partsVars == <<part, vars, agentVars, userVars, timerVars, optVars, pciVars>>

(* The parts other than the exchange end somewhere. *)
Rest == part # "exchange" /\ UNCHANGED partsVars

PartsSpec == PartsInit /\ [][PartsNext \/ Rest]_partsVars

(* The type invariants of the parts: no operation takes a value that the   *)
(* member it goes into cannot have, a valid Optional has a value, a        *)
(* number fits its width and a measured time is not negative.              *)
PartsTypeOK ==
    /\ TypeOK
    /\ AgentTypeOK
    /\ UsersTypeOK
    /\ TimersTypeOK
    /\ OptTypeOK
    /\ PciTypeOK
=============================================================================
