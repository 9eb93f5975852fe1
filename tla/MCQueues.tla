------------------------------ MODULE MCQueues ------------------------------
(* The two queues that are worked through under fairness, on small instances, *)
(* for TLC: the lead queue of a dialer session and the in-memory retry queue. *)
(* They share no state, so one run explores them side by side: the first      *)
(* state chooses which of the two is worked on.                               *)
EXTENDS MCPowerDialer, RetryMemory

VARIABLE queue   \* the queue that is worked on

queueVars == <<queue, vars, memoryVars>>

QueuesInit == queue \in {"leads", "retries"} /\ Init /\ MemoryInit

LeadsRun == queue = "leads" /\ Next /\ UNCHANGED <<queue, memoryVars>>

RetriesRun == queue = "retries" /\ MemoryNext /\ UNCHANGED <<queue, vars>>

QueuesNext == LeadsRun \/ RetriesRun

\* No fair action of the queue that is not worked on is ever enabled: its session is
\* not open, its deque is empty.
QueuesSpec == QueuesInit /\ [][QueuesNext]_queueVars /\ Fairness /\ MemoryFairness

(* The row of the session and the deque keep to their types. *)
QueuesTypeOK == TypeOK /\ MemoryTypeOK
=============================================================================
