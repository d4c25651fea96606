----------------------------- MODULE SchedLatency -----------------------------
(***************************************************************************)
(* How long a READY task waits: Sched with a history variable that counts, *)
(* for every linked READY task, the ticks since it last ran.               *)
(***************************************************************************)
EXTENDS Sched

VARIABLE wait

Waiting(t) == state[t] = "READY" /\ t \in Range(ring)

Count(ticks) ==
  wait' = [t \in Tasks |->
             IF Waiting(t) /\ Waiting(t)' THEN wait[t] + ticks ELSE 0]

LatencyInit == Init /\ wait = [t \in Tasks |-> 0]

LatencyNext ==
  \/ schedule /\ Count(IF scheduler_on THEN 1 ELSE 0)
  \/ BetweenTicks /\ Count(0)

LatencySpec == LatencyInit /\ [][LatencyNext]_<<vars, wait>> /\ Fairness

\* With the scheduler on, a READY task gets the processor before every other
\* task, newcomers at the tail of the queue included, has used one time slice:
\* round robin with slices bounds the latency, whoever yields, exits, is
\* created or is reaped meanwhile.
LatencyBounded ==
  \A t \in Tasks : wait[t] <= TASK_MAX_TASKS * SCHED_TIME_SLICE - 1
===============================================================================
