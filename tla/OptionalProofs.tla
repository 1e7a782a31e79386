--------------------------- MODULE OptionalProofs ---------------------------
(***************************************************************************)
(* Proofs about OptionalValues, for any number of Optionals: whoever tests *)
(* for validity has a value, and every value has one owner.                *)
(***************************************************************************)
EXTENDS OptionalValues, TLAPS

OptInv == OptTypeOK /\ OneOwner

LEMMA InitOptInv == OptInit => OptInv
<1> SUFFICES ASSUME OptInit PROVE OptInv
  OBVIOUS
<1>1. \A t \in Tags : Fresh(t) \in [tag : Tags \cup {NoTag}, ptr : Cells \cup {Null}, valid : BOOLEAN]
  BY DEF Fresh
<1>2. opt \in [Opts -> [tag : Tags \cup {NoTag}, ptr : Cells \cup {Null}, valid : BOOLEAN]]
  BY <1>1 DEF OptInit
<1>3. \A o \in Opts : opt[o].ptr = Null /\ opt[o].valid = FALSE
  BY DEF OptInit, Fresh
<1>4. heap \in [Cells -> Contents \cup {Null}] /\ \A c \in Cells : heap[c] = Null
  BY DEF OptInit
<1> QED
  BY <1>2, <1>3, <1>4, OptionalsAssumption DEF OptInv, OptTypeOK, OneOwner

(* An Optional that lets go of what it had and becomes one without a value *)
(* or the owner of a cell that was free.                                   *)
LEMMA BecomeKeeps ==
  ASSUME OptInv, NEW o \in Opts, NEW c \in Cells, heap[c] = Null,
         NEW t \in Tags \cup {NoTag}, NEW p \in {Null, c}, NEW v \in Contents \cup {Null},
         v = Null <=> p = Null,
         Become(o, [tag |-> t, ptr |-> p, valid |-> p # Null], [heap EXCEPT ![c] = v])
  PROVE  OptInv'
<1> DEFINE members == [tag |-> t, ptr |-> p, valid |-> p # Null]
<1>0. /\ opt \in [Opts -> [tag : Tags \cup {NoTag}, ptr : Cells \cup {Null}, valid : BOOLEAN]]
      /\ heap \in [Cells -> Contents \cup {Null}]
  BY DEF OptInv, OptTypeOK
<1>1. members \in [tag : Tags \cup {NoTag}, ptr : Cells \cup {Null}, valid : BOOLEAN]
  OBVIOUS
<1>2. /\ opt' = [opt EXCEPT ![o] = members]
      /\ opt'[o] = members /\ opt'[o].ptr = p /\ opt'[o].valid = (p # Null)
      /\ \A r \in Opts : r # o => opt'[r] = opt[r]
  BY <1>0 DEF Become
<1>3. \A d \in Cells : heap'[d] = IF d = opt[o].ptr THEN Null ELSE IF d = c THEN v ELSE heap[d]
  BY <1>0 DEF Become, Freed
<1>4. OptTypeOK'
  <2>1. heap' \in [Cells -> Contents \cup {Null}]
    BY <1>0 DEF Become, Freed
  <2>2. opt' \in [Opts -> [tag : Tags \cup {NoTag}, ptr : Cells \cup {Null}, valid : BOOLEAN]]
    BY <1>0, <1>1, <1>2
  <2>3. \A r \in Opts : opt'[r].valid <=> opt'[r].ptr # Null
    BY <1>2 DEF OptInv, OptTypeOK
  <2> QED
    BY <2>1, <2>2, <2>3 DEF OptTypeOK
<1>5. \A r \in Opts : opt[r].ptr # c
  BY <1>0, OptionalsAssumption DEF OptInv, OneOwner
<1>6. \A r, s \in Opts : opt'[r].ptr = opt'[s].ptr /\ opt'[r].ptr # Null => r = s
  BY <1>2, <1>5 DEF OptInv, OneOwner
<1>7. ASSUME NEW d \in Cells PROVE heap'[d] # Null <=> \E r \in Opts : opt'[r].ptr = d
  <2>1. CASE d = c
    BY <2>1, <1>2, <1>3, <1>5, OptionalsAssumption
  <2>2. CASE d # c /\ d = opt[o].ptr
    <3>1. heap'[d] = Null
      BY <2>2, <1>3
    <3>2. opt'[o].ptr # d
      BY <2>2, <1>2, OptionalsAssumption
    <3>3. \A r \in Opts : r # o => opt'[r].ptr # d
      BY <2>2, <1>2, OptionalsAssumption DEF OptInv, OneOwner
    <3> QED
      BY <3>1, <3>2, <3>3
  <2>3. CASE d # c /\ d # opt[o].ptr
    <3>1. heap'[d] = heap[d]
      BY <2>3, <1>3
    <3>2. opt'[o].ptr # d
      BY <2>3, <1>2, OptionalsAssumption
    <3>3. (\E r \in Opts : opt'[r].ptr = d) <=> (\E r \in Opts : opt[r].ptr = d)
      BY <2>3, <1>2, <3>2
    <3> QED
      BY <3>1, <3>3 DEF OptInv, OneOwner
  <2> QED
    BY <2>1, <2>2, <2>3
<1> QED
  BY <1>4, <1>6, <1>7 DEF OptInv, OneOwner

LEMMA HoldKeeps ==
  ASSUME OptInv, NEW o \in Opts, NEW t \in Tags \cup {NoTag}, NEW v \in Contents, NEW c \in Cells,
         Hold(o, t, v, c)
  PROVE  OptInv'
<1>1. c # Null /\ v # Null /\ heap[c] = Null
  BY OptionalsAssumption DEF Hold
<1>2. Become(o, [tag |-> t, ptr |-> c, valid |-> c # Null], [heap EXCEPT ![c] = v])
  BY <1>1 DEF Hold
<1> QED
  BY <1>1, <1>2, BecomeKeeps

LEMMA AssignKeeps ==
  ASSUME OptInv, NEW o \in Opts, NEW r \in Opts, NEW c \in Cells, Assign(o, r, c)
  PROVE  OptInv'
<1> DEFINE p == IF opt[r].valid THEN c ELSE Null
           v == IF opt[r].valid THEN heap[opt[r].ptr] ELSE Null
           t == opt[r].tag
<1>0. /\ opt[r] \in [tag : Tags \cup {NoTag}, ptr : Cells \cup {Null}, valid : BOOLEAN]
      /\ heap \in [Cells -> Contents \cup {Null}]
      /\ opt[r].valid <=> opt[r].ptr # Null
  BY DEF OptInv, OptTypeOK
<1>1. t \in Tags \cup {NoTag} /\ p \in {Null, c} /\ heap[c] = Null /\ c # Null
  BY <1>0, OptionalsAssumption DEF Assign
<1>2. v \in Contents \cup {Null} /\ (v = Null <=> p = Null)
  BY <1>0, <1>1, OptionalsAssumption DEF OptInv, OneOwner
<1>3. CopyOf(r, c) = [tag |-> t, ptr |-> p, valid |-> p # Null]
  BY <1>0, <1>1 DEF CopyOf
<1>4. Become(o, [tag |-> t, ptr |-> p, valid |-> p # Null], [heap EXCEPT ![c] = v])
  BY <1>3 DEF Assign
<1> HIDE DEF p, v, t
<1> QED
  BY <1>1, <1>2, <1>4, BecomeKeeps

LEMMA MoveKeeps ==
  ASSUME OptInv, NEW o \in Opts, NEW r \in Opts, Move(o, r)
  PROVE  OptInv'
<1>0. /\ opt \in [Opts -> [tag : Tags \cup {NoTag}, ptr : Cells \cup {Null}, valid : BOOLEAN]]
      /\ heap \in [Cells -> Contents \cup {Null}]
      /\ \A s \in Opts : opt[s].valid <=> opt[s].ptr # Null
  BY DEF OptInv, OptTypeOK
<1>1. CASE o = r
  <2>1. opt' = opt /\ heap' = heap
    BY <1>0, <1>1 DEF Move
  <2> QED
    BY <2>1 DEF OptInv, OptTypeOK, OneOwner
<1>2. CASE o # r
  <2>1. /\ opt'[o] = opt[r] /\ opt'[r] = Fresh(NoTag)
        /\ \A s \in Opts : s # o /\ s # r => opt'[s] = opt[s]
        /\ DOMAIN opt' = Opts
    BY <1>0, <1>2 DEF Move, MovedFrom
  <2>2. /\ heap' \in [Cells -> Contents \cup {Null}]
        /\ \A c \in Cells : heap'[c] = IF c = opt[o].ptr THEN Null ELSE heap[c]
    BY <1>0, <1>2 DEF Move, Freed
  <2>3. OptTypeOK'
    <3>1. Fresh(NoTag) \in [tag : Tags \cup {NoTag}, ptr : Cells \cup {Null}, valid : BOOLEAN]
      BY DEF Fresh
    <3>2. opt' \in [Opts -> [tag : Tags \cup {NoTag}, ptr : Cells \cup {Null}, valid : BOOLEAN]]
      BY <1>0, <1>2, <3>1 DEF Move, MovedFrom
    <3>3. \A s \in Opts : opt'[s].valid <=> opt'[s].ptr # Null
      BY <1>0, <2>1 DEF Fresh
    <3> QED
      BY <3>2, <3>3, <2>2 DEF OptTypeOK
  <2>4. opt'[r].ptr = Null
    BY <2>1 DEF Fresh
  <2>5. \A s, u \in Opts : opt'[s].ptr = opt'[u].ptr /\ opt'[s].ptr # Null => s = u
    BY <2>1, <2>4 DEF OptInv, OneOwner
  <2>6. ASSUME NEW c \in Cells PROVE heap'[c] # Null <=> \E s \in Opts : opt'[s].ptr = c
    <3>0. c # Null
      BY OptionalsAssumption
    <3>1. CASE c = opt[o].ptr
      BY <3>0, <3>1, <1>2, <2>1, <2>2, <2>4 DEF OptInv, OneOwner
    <3>2. CASE c # opt[o].ptr
      BY <3>0, <3>2, <1>2, <2>1, <2>2, <2>4 DEF OptInv, OneOwner
    <3> QED
      BY <3>1, <3>2
  <2> QED
    BY <2>3, <2>5, <2>6 DEF OptInv, OneOwner
<1> QED
  BY <1>1, <1>2

LEMMA ModifyKeeps ==
  ASSUME OptInv, NEW o \in Opts, NEW v \in Contents, Modify(o, v)
  PROVE  OptInv'
<1>1. opt' = opt /\ opt[o].ptr \in Cells /\ heap \in [Cells -> Contents \cup {Null}]
  BY DEF Modify, OptInv, OptTypeOK
<1>2. \A c \in Cells : heap'[c] # Null <=> heap[c] # Null
  BY <1>1, OptionalsAssumption DEF Modify, OptInv, OneOwner
<1>3. heap' \in [Cells -> Contents \cup {Null}]
  BY <1>1 DEF Modify
<1> QED
  BY <1>1, <1>2, <1>3 DEF OptInv, OptTypeOK, OneOwner

LEMMA ConstructKeeps ==
  ASSUME OptInv, NEW o \in Opts, NEW t \in Tags, Construct(o, t)
  PROVE  OptInv'
<1>1. /\ opt \in [Opts -> [tag : Tags \cup {NoTag}, ptr : Cells \cup {Null}, valid : BOOLEAN]]
      /\ heap \in [Cells -> Contents \cup {Null}]
  BY DEF OptInv, OptTypeOK
<1>2. /\ opt'[o] = Fresh(t) /\ \A s \in Opts : s # o => opt'[s] = opt[s]
      /\ opt' \in [Opts -> [tag : Tags \cup {NoTag}, ptr : Cells \cup {Null}, valid : BOOLEAN]]
      /\ opt'[o].ptr = Null /\ opt'[o].valid = FALSE
  BY <1>1 DEF Construct, Become, Fresh
<1>3. /\ heap' \in [Cells -> Contents \cup {Null}]
      /\ \A c \in Cells : heap'[c] = IF c = opt[o].ptr THEN Null ELSE heap[c]
  BY <1>1 DEF Construct, Become, Freed
<1>4. OptTypeOK'
  BY <1>2, <1>3 DEF OptInv, OptTypeOK
<1>5. OneOwner'
  BY <1>2, <1>3, OptionalsAssumption DEF OptInv, OneOwner
<1> QED
  BY <1>4, <1>5 DEF OptInv

LEMMA NextOptInv == OptInv /\ [OptNext]_optVars => OptInv'
<1> SUFFICES ASSUME OptInv, [OptNext]_optVars PROVE OptInv'
  OBVIOUS
<1>0. \A o \in Opts : opt[o].tag \in Tags \cup {NoTag}
  BY DEF OptInv, OptTypeOK
<1>1. ASSUME NEW o \in Opts, NEW t \in Tags, Construct(o, t) PROVE OptInv'
  BY <1>1, ConstructKeeps
<1>2. ASSUME NEW o \in Opts, NEW v \in Contents, Modify(o, v) PROVE OptInv'
  BY <1>2, ModifyKeeps
<1>3. ASSUME NEW o \in Opts, NEW r \in Opts, Move(o, r) PROVE OptInv'
  BY <1>3, MoveKeeps
<1>4. ASSUME NEW o \in Opts, NEW r \in Opts, NEW c \in Cells, Assign(o, r, c) PROVE OptInv'
  BY <1>4, AssignKeeps
<1>5. ASSUME NEW o \in Opts, NEW v \in Contents, NEW c \in Cells, SetValue(o, v, c) PROVE OptInv'
  BY <1>0, <1>5, HoldKeeps DEF SetValue
<1>6. ASSUME NEW o \in Opts, NEW t \in Tags, NEW v \in Contents, NEW c \in Cells,
             ConstructWith(o, t, v, c) \/ LoadValue(o, t, v, c)
      PROVE  OptInv'
  BY <1>6, HoldKeeps DEF ConstructWith, LoadValue
<1>7. CASE UNCHANGED optVars
  BY <1>7 DEF optVars, OptInv, OptTypeOK, OneOwner
<1> QED
  BY <1>1, <1>2, <1>3, <1>4, <1>5, <1>6, <1>7 DEF OptNext

(* An Optional that is valid has a value (is_valid, get).                  *)
THEOREM ValidHasValue == OptSpec => []OptTypeOK
<1>1. OptInv => OptTypeOK
  BY DEF OptInv
<1> QED
  BY InitOptInv, NextOptInv, <1>1, PTL DEF OptSpec

(* Every value on the heap has one owner (Optional's constructors,         *)
(* assignments and load).                                                  *)
THEOREM ValuesAreOwned == OptSpec => []OneOwner
<1>1. OptInv => OneOwner
  BY DEF OptInv
<1> QED
  BY InitOptInv, NextOptInv, <1>1, PTL DEF OptSpec

(* Values of Optionals other than o stay when o becomes another. *)
LEMMA BecomeAlone ==
  ASSUME OptInv, NEW o \in Opts, NEW members, NEW h, Become(o, members, h),
         \A c \in Cells : heap[c] # Null => h[c] = heap[c],
         NEW r \in Opts, r # o
  PROVE  Value(r)' = Value(r)
<1>1. opt'[r] = opt[r]
  BY DEF Become, OptInv, OptTypeOK
<1>2. CASE opt[r].valid
  <2>1. opt[r].ptr \in Cells /\ heap[opt[r].ptr] # Null /\ opt[r].ptr # opt[o].ptr
    BY <1>2 DEF OptInv, OptTypeOK, OneOwner
  <2>2. heap'[opt[r].ptr] = heap[opt[r].ptr]
    BY <2>1 DEF Become, Freed
  <2> QED
    BY <1>1, <1>2, <2>2 DEF Value
<1> QED
  BY <1>1, <1>2 DEF Value

LEMMA OneAtATime ==
  ASSUME OptInv, OptNext, NEW o \in Opts, NEW r \in Opts, o # r,
         Value(o)' # Value(o), Value(r)' # Value(r)
  PROVE  Null \in {Value(o)', Value(r)'}
<1>0. heap \in [Cells -> Contents \cup {Null}]
  BY DEF OptInv, OptTypeOK
<1>1. ASSUME NEW q \in Opts, NEW c \in Cells, heap[c] = Null, NEW members, NEW v,
             Become(q, members, [heap EXCEPT ![c] = v])
      PROVE  FALSE
  <2>1. \A d \in Cells : heap[d] # Null => [heap EXCEPT ![c] = v][d] = heap[d]
    BY <1>0, <1>1
  <2> QED
    BY <1>1, <2>1, BecomeAlone
<1>2. ASSUME NEW q \in Opts, NEW t \in Tags, Construct(q, t) PROVE FALSE
  BY <1>2, BecomeAlone DEF Construct
<1>3. ASSUME NEW q \in Opts, NEW v \in Contents, Modify(q, v) PROVE FALSE
  <2>1. \A s \in Opts : s # q => Value(s)' = Value(s)
    BY <1>0, <1>3 DEF Modify, Value, OptInv, OptTypeOK, OneOwner
  <2> QED
    BY <2>1
<1>4. ASSUME NEW q \in Opts, NEW s \in Opts, Move(q, s) PROVE Null \in {Value(o)', Value(r)'}
  <2>1. CASE q = s
    <3>1. opt' = opt /\ heap' = heap
      BY <1>4, <2>1 DEF Move, OptInv, OptTypeOK
    <3> QED
      BY <3>1 DEF Value
  <2>2. CASE q # s
    <3>1. Value(s)' = Null
      BY <1>4, <2>2 DEF Move, MovedFrom, Fresh, Value, OptInv, OptTypeOK
    <3>2. \A u \in Opts : u # q /\ u # s => opt'[u] = opt[u]
      BY <1>4, <2>2 DEF Move, OptInv, OptTypeOK
    <3>3. \A u \in Opts : u # q /\ u # s => Value(u)' = Value(u)
      BY <1>0, <1>4, <2>2, <3>2 DEF Move, Freed, Value, OptInv, OptTypeOK, OneOwner
    <3> QED
      BY <3>1, <3>3
  <2> QED
    BY <2>1, <2>2
<1>5. ASSUME NEW q \in Opts, NEW s \in Opts, NEW c \in Cells, Assign(q, s, c) PROVE FALSE
  BY <1>1, <1>5 DEF Assign
<1>6. ASSUME NEW q \in Opts, NEW t, NEW v \in Contents, NEW c \in Cells, Hold(q, t, v, c)
      PROVE  FALSE
  BY <1>1, <1>6 DEF Hold
<1> QED
  BY <1>2, <1>3, <1>4, <1>5, <1>6 DEF OptNext, SetValue, ConstructWith, LoadValue

(* Copies are values of their own (Optional(const Optional &), operator=). *)
THEOREM CopiesAreCopies == OptSpec => CopiesAreIndependent
<1> DEFINE Alone == \A o, r \in Opts :
                       o # r /\ Value(o)' # Value(o) /\ Value(r)' # Value(r) =>
                           Null \in {Value(o)', Value(r)'}
<1>1. OptInv /\ [OptNext]_optVars => [Alone]_optVars
  BY OneAtATime
<1>2. CopiesAreIndependent <=> [][Alone]_optVars
  BY DEF CopiesAreIndependent
<1> QED
  BY InitOptInv, NextOptInv, <1>1, <1>2, PTL DEF OptSpec
=============================================================================
