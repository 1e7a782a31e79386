--------------------------- MODULE OptionalValues ---------------------------
(***************************************************************************)
(* Optionals as objects: the tag, the pointer to a value on the heap and   *)
(* the flag of each, when they are constructed, take a value, are copied   *)
(* and moved, loaded, and changed through the reference get() returns.     *)
(*                                                                         *)
(* operator=(Optional) takes its argument by value: the right side is      *)
(* copied or moved into the parameter, whose tag, flag and pointer become  *)
(* the left side's.  An object constructed from another is in the end as   *)
(* one that was assigned.                                                  *)
(***************************************************************************)
CONSTANTS
    Opts,      \* Optionals of one type
    Cells,     \* places on the heap; one more than there are Optionals
    Tags,
    NoTag,     \* the empty string, the tag of an Optional that was moved from
    Contents,  \* values of that type
    Null       \* no cell, and no value in a cell that is free

ASSUME OptionalsAssumption == NoTag \notin Tags /\ Null \notin Cells /\ Null \notin Contents

VARIABLES
    opt,    \* opt[o]: the members of o
    heap    \* heap[c]: the value in cell c

optVars == <<opt, heap>>

Fresh(t) == [tag |-> t, ptr |-> Null, valid |-> FALSE]

(* In particular whoever tests for validity can use the pointer. *)
OptTypeOK ==
    /\ opt \in [Opts -> [tag : Tags \cup {NoTag}, ptr : Cells \cup {Null}, valid : BOOLEAN]]
    /\ heap \in [Cells -> Contents \cup {Null}]
    /\ \A o \in Opts : opt[o].valid <=> opt[o].ptr # Null

OptInit ==
    /\ opt \in [Opts -> {Fresh(t) : t \in Tags}]
    /\ heap = [c \in Cells |-> Null]

(* Fault: a plain pointer is overwritten. *)
NeverFreed(o, h) == h

(* unique_ptr: the cell that o has had is freed. *)
Freed(o, h) == [c \in Cells |-> IF c = opt[o].ptr THEN Null ELSE h[c]]

(* o becomes members, which has a value of its own. *)
Become(o, members, h) ==
    /\ opt' = [opt EXCEPT ![o] = members]
    /\ heap' = Freed(o, h)

Construct(o, t) == Become(o, Fresh(t), heap)

(* new T(v) in the cell c, with a tag of its own or under the old one.     *)
Hold(o, t, v, c) ==
    /\ heap[c] = Null
    /\ Become(o, [tag |-> t, ptr |-> c, valid |-> TRUE], [heap EXCEPT ![c] = v])

(* From a value, or from a pointer to one; that pointer is not null. *)
ConstructWith(o, t, v, c) == Hold(o, t, v, c)

SetValue(o, v, c) == Hold(o, opt[o].tag, v, c)

(* The document has v under the tag t; otherwise, or if v cannot be read,  *)
(* nothing is changed.                                                     *)
LoadValue(o, t, v, c) == opt[o].tag = t /\ t # NoTag /\ Hold(o, t, v, c)

(* Fault: the pointer is copied. *)
SharedCopy(r, c) == opt[r]

(* The copy of r, with its value in the cell c. *)
CopyOf(r, c) == [opt[r] EXCEPT !.ptr = IF opt[r].valid THEN c ELSE Null]

Assign(o, r, c) ==
    /\ heap[c] = Null
    /\ LET value == IF opt[r].valid THEN heap[opt[r].ptr] ELSE Null
       IN  Become(o, CopyOf(r, c), [heap EXCEPT ![c] = value])

(* Fault: the flag of an Optional that was moved from stays. *)
StillValid(r) == [tag |-> NoTag, ptr |-> Null, valid |-> opt[r].valid]

MovedFrom(r) == Fresh(NoTag)

Move(o, r) ==
    /\ opt' = [opt EXCEPT ![r] = MovedFrom(r), ![o] = opt[r]]
    /\ heap' = IF o = r THEN heap ELSE Freed(o, heap)

(* *o = v; get() throws if there is no value. *)
Modify(o, v) ==
    /\ opt[o].valid
    /\ heap' = [heap EXCEPT ![opt[o].ptr] = v]
    /\ UNCHANGED opt

OptNext ==
    \E o \in Opts :
        \/ \E t \in Tags : Construct(o, t)
        \/ \E v \in Contents : Modify(o, v)
        \/ \E r \in Opts : Move(o, r)
        \/ \E c \in Cells :
              \/ \E r \in Opts : Assign(o, r, c)
              \/ \E v \in Contents :
                    \/ SetValue(o, v, c)
                    \/ \E t \in Tags : ConstructWith(o, t, v, c) \/ LoadValue(o, t, v, c)

OptSpec == OptInit /\ [][OptNext]_optVars

-----------------------------------------------------------------------------
(* Whatever is assigned, copied, moved and loaded, every value on the heap *)
(* belongs to one Optional, and the value of an Optional is there: nothing *)
(* leaks, and nothing is freed twice or used after it was freed.           *)
OneOwner ==
    /\ \A c \in Cells : heap[c] # Null <=> \E o \in Opts : opt[o].ptr = c
    /\ \A o, r \in Opts : opt[o].ptr = opt[r].ptr /\ opt[o].ptr # Null => o = r

Value(o) == IF opt[o].valid THEN heap[opt[o].ptr] ELSE Null

(* Optionals are values: no operation changes two of them, but a move, and *)
(* that leaves one without a value.                                        *)
CopiesAreIndependent ==
    [][\A o, r \in Opts :
          o # r /\ Value(o)' # Value(o) /\ Value(r)' # Value(r) =>
              Null \in {Value(o)', Value(r)'}]_optVars
=============================================================================
