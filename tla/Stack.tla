-------------------------------- MODULE Stack --------------------------------
(***************************************************************************)
(* st_stack: a bounded stack in an array.  Sizes and depths are unsigned   *)
(* integers of the machine, taken modulo Word.                             *)
(***************************************************************************)
EXTENDS Integers, Sequences

CONSTANTS
  StackItems,    \* the objects the caller stacks
  StackCapacity, \* the capacity given to st_stack_create
  StackWord,     \* 2^32 in the program, a smaller power of two for TLC
  NoStackItem

StackAssumption ==
  /\ StackCapacity \in Nat \ {0} /\ StackWord \in Nat /\ StackCapacity < StackWord /\ NoStackItem \notin StackItems

VARIABLES
  top, stack_arr,
  stack_out    \* what the last call returned

stackVars == <<top, stack_arr, stack_out>>

Depths == 0 .. (StackWord - 1)
StackResult(code, item) == [code |-> code, item |-> item]

StackInit ==
  /\ top = 0
  /\ stack_arr = [i \in 0 .. (StackCapacity - 1) |-> NoStackItem]
  /\ stack_out = StackResult("none", NoStackItem)

StackFull == top = StackCapacity

st_stack_push(x) ==
  \/ /\ StackFull
     /\ stack_out' = StackResult("full", NoStackItem) /\ UNCHANGED <<top, stack_arr>>
  \/ /\ ~StackFull
     /\ stack_arr' = [stack_arr EXCEPT ![top] = x]
     /\ top' = top + 1
     /\ stack_out' = StackResult("ok", NoStackItem)

\* The slot that was given keeps its pointer.
st_stack_pop ==
  \/ /\ top = 0
     /\ stack_out' = StackResult("empty", NoStackItem) /\ UNCHANGED <<top, stack_arr>>
  \/ /\ top # 0
     /\ top' = top - 1
     /\ stack_out' = StackResult("ok", stack_arr[top'])
     /\ UNCHANGED stack_arr

TooDeepSigned(n) == top <= n - 1

\* st_stack->top <= n - 1, unsigned: a depth of zero becomes the largest one.
TooDeep(n) == top <= (n - 1) % StackWord

\* st_stack_topn; st_stack_top is the case of depth one.
st_stack_topn(n) ==
  /\ stack_out' = IF TooDeep(n) THEN StackResult("empty", NoStackItem)
            ELSE StackResult("ok", IF top - n \in DOMAIN stack_arr THEN stack_arr[top - n] ELSE NoStackItem)
  /\ UNCHANGED <<top, stack_arr>>

st_stack_clear == top' = 0 /\ stack_out' = StackResult("ok", NoStackItem) /\ UNCHANGED stack_arr

StackNext ==
  \/ \E x \in StackItems : st_stack_push(x)
  \/ \E n \in Depths : st_stack_topn(n)
  \/ st_stack_pop \/ st_stack_clear

StackSpec == StackInit /\ [][StackNext]_stackVars

-----------------------------------------------------------------------------
(* Properties.                                                              *)

\* The types; top never passes the capacity.
StackTypeOK ==
  /\ top \in 0 .. StackCapacity
  /\ stack_arr \in [0 .. (StackCapacity - 1) -> StackItems \cup {NoStackItem}]
  /\ stack_out \in [code : {"none", "ok", "full", "empty"}, item : StackItems \cup {NoStackItem}]

\* The array behaves as a stack; for the look at a depth this holds of every
\* unsigned number, zero and those past the capacity included.
StackContent == [i \in 1 .. top |-> stack_arr[i - 1]]
Lifo == INSTANCE BoundedLifo
          WITH content <- StackContent, out <- stack_out, Size <- StackCapacity,
               Items <- StackItems, NoItem <- NoStackItem
ImplementsLifo == Lifo!Spec
=============================================================================
