------------------------------ MODULE MemUsage ------------------------------
(***************************************************************************)
(* st_mem: the allocation functions, and the statistics they keep of the   *)
(* memory in use, under a mutex, from st_mem_usage_init to                 *)
(* st_mem_usage_destroy.  The program switches the collection while it has *)
(* no block: the blocks of either mode have headers the other cannot read. *)
(*                                                                         *)
(* A call first does its allocation or release with the C library, which   *)
(* is safe for threads, then takes the mutex and adds its change to the    *)
(* statistics: one step to read the size in use and one to write it.  The  *)
(* pthread calls are taken to succeed.  A handle is a variable of the      *)
(* program that may point to a block.                                      *)
(***************************************************************************)
EXTENDS Integers, FiniteSets

CONSTANTS
  Callers,       \* the threads of the program that allocate
  Handles,
  Sizes,         \* sizes the program asks for
  ReallocFails,  \* whether the realloc of st_aligned_realloc may fail
  NullRealloc,   \* whether st_aligned_realloc is called with a null pointer
  SizeWord,      \* the range of size_t: 2^64 in the program, small for TLC
  MaxDrift,      \* bound on the drift, when it can grow
  NoCaller, NoHandle

\* The sum of f over a finite set S: the units above zero less those below.
Units(S, f) == UNION {{x} \X (1 .. f[x]) : x \in S}
Total(S, f) == Cardinality(Units(S, f)) - Cardinality(Units(S, [x \in S |-> -f[x]]))

\* The blocks a program can have at a time fit the range of size_t.
MemUsageAssumption ==
  /\ NoCaller \notin Callers /\ NoHandle \notin Handles
  /\ IsFiniteSet(Callers) /\ IsFiniteSet(Handles)
  /\ Sizes \subseteq Nat \ {0} /\ MaxDrift \in Nat /\ SizeWord \in Nat \ {0}
  /\ ReallocFails \in BOOLEAN /\ NullRealloc \in BOOLEAN
  /\ \A f \in [Handles -> Sizes \cup {0}] : Total(Handles, f) < SizeWord

VARIABLES
  g_collect_usage,
  size, peak,   \* of g_usage, unsigned: taken modulo Word
  balance,      \* num_allocs - num_frees
  usageLock,    \* owner of g_usage.lock
  usagePc,      \* per thread: "idle", "lock", "read", "write" or "unlock"
  op,           \* per thread: what its call has still to add, and to what it read
  block,        \* block[h]: the size in the header of the block at h, 0 for no block
  drift,        \* history: what the calls have counted beyond what they allocated
  exact         \* history: no call has counted beyond that

usage == <<size, peak, balance>>
history == <<drift, exact>>
usageVars == <<g_collect_usage, usage, usageLock, usagePc, op, block, history>>

NoOp == [h |-> NoHandle, delta |-> 0, count |-> 0, again |-> 0, seen |-> 0]

Busy(h) == \E t \in Callers : op[t].h = h
NoneUnderWay == \A t \in Callers : usagePc[t] = "idle"

UsageInit ==
  /\ g_collect_usage = FALSE
  /\ size = 0 /\ peak = 0 /\ balance = 0
  /\ usageLock = NoCaller
  /\ usagePc = [t \in Callers |-> "idle"]
  /\ op = [t \in Callers |-> NoOp]
  /\ block = [h \in Handles |-> 0]
  /\ drift = 0 /\ exact = TRUE

-----------------------------------------------------------------------------
(* The part of a call before the mutex.                                     *)

\* The call has changed the block at h to size s; it adds delta to the size in use
\* and count to the balance, and then, for a second call it is in, again.
Begin(t, h, s, delta, count, again) ==
  /\ g_collect_usage /\ usagePc[t] = "idle" /\ ~Busy(h)
  /\ block' = [block EXCEPT ![h] = s]
  /\ op' = [op EXCEPT ![t] = [NoOp EXCEPT !.h = h, !.delta = delta, !.count = count,
                                          !.again = again]]
  /\ usagePc' = [usagePc EXCEPT ![t] = "lock"]
  /\ UNCHANGED <<g_collect_usage, usage, usageLock>>

\* st_malloc_impl, st_aligned_malloc_impl, and st_realloc_impl of a null pointer.
Malloc(t, h, s) == block[h] = 0 /\ Begin(t, h, s, s, 1, 0) /\ UNCHANGED history

\* st_realloc_impl, and st_aligned_realloc_impl when its realloc succeeds.
Realloc(t, h, s) ==
  block[h] # 0 /\ Begin(t, h, s, s - block[h], 0, 0) /\ UNCHANGED history

\* The realloc of st_aligned_realloc_impl fails: the block stays as it is, and the
\* size asked for is counted.
AlignedReallocFails(t, h, s) ==
  /\ ReallocFails /\ block[h] # 0
  /\ drift' = drift + s - block[h] /\ drift' \in -MaxDrift .. MaxDrift
  /\ exact' = FALSE
  /\ Begin(t, h, block[h], s - block[h], 0, 0)

\* st_aligned_realloc_impl of a null pointer counts the block in the allocation it
\* calls, and again on its own way out.
AlignedReallocNull(t, h, s) ==
  /\ NullRealloc /\ block[h] = 0
  /\ drift' = drift + s /\ drift' \in -MaxDrift .. MaxDrift
  /\ exact' = FALSE
  /\ Begin(t, h, s, s, 1, s)

FreeBlock(t, h) == block[h] # 0 /\ Begin(t, h, 0, -block[h], -1, 0) /\ UNCHANGED history

-----------------------------------------------------------------------------
(* The part under the mutex.                                                *)

MayLockAlways == TRUE

MayLock == usageLock = NoCaller

TakeLock(t) ==
  /\ usagePc[t] = "lock" /\ MayLock
  /\ usageLock' = t
  /\ usagePc' = [usagePc EXCEPT ![t] = "read"]
  /\ UNCHANGED <<g_collect_usage, usage, op, block, history>>

ReadSize(t) ==
  /\ usagePc[t] = "read"
  /\ op' = [op EXCEPT ![t].seen = size]
  /\ usagePc' = [usagePc EXCEPT ![t] = "write"]
  /\ UNCHANGED <<g_collect_usage, usage, usageLock, block, history>>

\* Arithmetic of size_t.
Wrap(n) == n % SizeWord

PeakWith(n) == IF n > peak THEN n ELSE peak

WriteSize(t) ==
  LET new == Wrap(op[t].seen + op[t].delta) IN
  /\ usagePc[t] = "write"
  /\ size' = new /\ peak' = PeakWith(new)
  /\ balance' = balance + op[t].count
  /\ op' = [op EXCEPT ![t].delta = 0, ![t].count = 0, ![t].seen = 0]
  /\ usagePc' = [usagePc EXCEPT ![t] = "unlock"]
  /\ UNCHANGED <<g_collect_usage, usageLock, block, history>>

\* The call returns, or goes on to count a second time.
GiveLock(t) ==
  /\ usagePc[t] = "unlock"
  /\ usageLock' = NoCaller
  /\ IF op[t].again = 0
     THEN op' = [op EXCEPT ![t] = NoOp] /\ usagePc' = [usagePc EXCEPT ![t] = "idle"]
     ELSE /\ op' = [op EXCEPT ![t].delta = op[t].again, ![t].again = 0]
          /\ usagePc' = [usagePc EXCEPT ![t] = "lock"]
  /\ UNCHANGED <<g_collect_usage, usage, block, history>>

st_mem_usage_init ==
  /\ ~g_collect_usage /\ g_collect_usage' = TRUE
  /\ UNCHANGED <<usage, usageLock, usagePc, op, block, history>>

st_mem_usage_destroy ==
  /\ g_collect_usage /\ NoneUnderWay /\ \A h \in Handles : block[h] = 0
  /\ g_collect_usage' = FALSE
  /\ size' = 0 /\ peak' = 0 /\ balance' = 0
  /\ drift' = 0 /\ exact' = TRUE
  /\ UNCHANGED <<usageLock, usagePc, op, block>>

UsageNext ==
  \/ \E t \in Callers :
       \/ \E h \in Handles :
            \/ FreeBlock(t, h)
            \/ \E s \in Sizes :
                 \/ Malloc(t, h, s) \/ Realloc(t, h, s)
                 \/ AlignedReallocFails(t, h, s) \/ AlignedReallocNull(t, h, s)
       \/ TakeLock(t) \/ ReadSize(t) \/ WriteSize(t) \/ GiveLock(t)
  \/ st_mem_usage_init \/ st_mem_usage_destroy

UsageSpec == UsageInit /\ [][UsageNext]_usageVars

-----------------------------------------------------------------------------
(* Properties.                                                              *)

\* The call that works on the block at h, when one does, and what it has still to add
\* to the size in use.
Worker(h) == CHOOSE t \in Callers : op[t].h = h
Owed(h) == IF Busy(h) THEN op[Worker(h)].delta + op[Worker(h)].again ELSE 0

\* What has been counted of each block.
Counted == [h \in Handles |-> block[h] - Owed(h)]

\* At every step of every interleaving the size in use is, modulo the range of
\* size_t, that of the blocks of the program, but for what the calls under way have
\* still to add and for the drift of the two calls that miscount: no update is lost.
SizeAccounted ==
  g_collect_usage => size = (Total(Handles, Counted) + drift) % SizeWord

\* Unless a call has miscounted, the peak covers what the callers hold of the blocks
\* whose calls have returned.
Returned == [h \in Handles |-> IF Busy(h) THEN 0 ELSE block[h]]
PeakCoversHeld == exact => Total(Handles, Returned) <= peak

\* When no call is under way num_allocs and num_frees differ by the blocks there are,
\* the calls that miscount sizes included.
BalanceExact ==
  g_collect_usage /\ NoneUnderWay => balance = Cardinality({h \in Handles : block[h] # 0})

\* The size in use is at every step that of the blocks of the program and of what the
\* calls under way have still to add, so that no update of a thread is lost, and unless
\* a call has miscounted the peak covers what the callers hold; between calls the numbers
\* of allocations and of frees differ by the blocks there are.
UsageAccounted == SizeAccounted /\ PeakCoversHeld /\ BalanceExact
=============================================================================
