----------------------------- MODULE DurableMap -----------------------------
(***************************************************************************)
(* What a crash-safe store promises: the durable value of a key changes    *)
(* only when a write of that key takes effect, a write takes effect at     *)
(* most once and before it is acknowledged, and nothing else - no flush,   *)
(* no crash, no restart - changes any durable value.                       *)
(***************************************************************************)
CONSTANTS Client, Key, Stored, Absent, NoWrite

VARIABLES
    store,  \* store[k]: the value of k that survives a crash now
    op      \* op[c]: client c's write in progress, or NoWrite

DurableInit ==
    /\ store = [k \in Key |-> Absent]
    /\ op = [c \in Client |-> NoWrite]

Begin(c, k, v) ==
    /\ op[c] = NoWrite
    /\ op' = [op EXCEPT ![c] = [key |-> k, value |-> v, done |-> FALSE]]
    /\ UNCHANGED store

TakeEffect(c) ==
    /\ op[c] # NoWrite /\ ~op[c].done
    /\ store' = [store EXCEPT ![op[c].key] = op[c].value]
    /\ op' = [op EXCEPT ![c].done = TRUE]

Acknowledge(c) ==
    /\ op[c] # NoWrite /\ op[c].done
    /\ op' = [op EXCEPT ![c] = NoWrite]
    /\ UNCHANGED store

Crash ==
    /\ op' = [c \in Client |-> NoWrite]
    /\ UNCHANGED store

DurableNext ==
    \/ \E c \in Client :
          \/ \E k \in Key, v \in Stored : Begin(c, k, v)
          \/ TakeEffect(c)
          \/ Acknowledge(c)
    \/ Crash

DurableSpec == DurableInit /\ [][DurableNext]_<<store, op>>
=============================================================================
