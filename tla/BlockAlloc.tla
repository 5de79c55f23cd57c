----------------------------- MODULE BlockAlloc -----------------------------
(***************************************************************************)
(* What a reference-counted block cache promises its callers, with none of *)
(* its tables: every handle of the program names a block or names none.    *)
(* A new block is one nobody holds; sharing adds a holder to the block it  *)
(* was asked for, which has one; dropping a handle takes exactly that      *)
(* handle away.                                                            *)
(***************************************************************************)
EXTENDS Integers

CONSTANTS
  Handles,   \* the variables of the program that can hold a block id
  Blocks     \* the ids a block can ever have

VARIABLES
  handle,    \* handle[h]: the block h names, or NoBlock
  wanted     \* wanted[h]: the blocks that h is asked to share, the callers' to change

NoBlock == -1

Init == handle = [h \in Handles |-> NoBlock]

\* A fetch with a negative id: some block that no handle names.
New(h) ==
  /\ handle[h] = NoBlock /\ wanted[h] = {}
  /\ \E id \in Blocks :
       /\ \A g \in Handles : handle[g] # id
       /\ handle' = [handle EXCEPT ![h] = id]

\* A fetch with the id of a block in use: one more handle on that block.
Share(h) ==
  /\ handle[h] = NoBlock
  /\ \E g \in Handles :
       /\ handle[g] # NoBlock /\ handle[g] \in wanted[h]
       /\ handle' = [handle EXCEPT ![h] = handle[g]]

Drop(h) ==
  /\ handle[h] # NoBlock
  /\ handle' = [handle EXCEPT ![h] = NoBlock]

\* Clearing or destroying the cache takes every block back at once.
DropAll == handle' = [h \in Handles |-> NoBlock]

Next ==
  \/ \E h \in Handles : New(h) \/ Share(h) \/ Drop(h)
  \/ DropAll

Spec == Init /\ [][Next]_handle
=============================================================================
