------------------------------ MODULE TaskProofs ------------------------------
(***************************************************************************)
(* What tasks share: the scheduler's ring and the log's, for every number  *)
(* of task slots, every length of the time slice and every size of the     *)
(* log and of the buffer that saves it.                                    *)
(***************************************************************************)
EXTENDS Sched, Klog, WellFoundedInduction, TLAPS

\* One sequence behind the other.
LEMMA ConcatIs ==
  ASSUME NEW S, NEW s \in Seq(S), NEW t \in Seq(S)
  PROVE  /\ s \o t \in Seq(S) /\ Len(s \o t) = Len(s) + Len(t)
         /\ \A i \in 1..Len(s) : (s \o t)[i] = s[i]
         /\ \A i \in 1..Len(t) : (s \o t)[Len(s) + i] = t[i]
OBVIOUS

\* The last elements of a sequence.
LEMMA SuffixIs ==
  ASSUME NEW S, NEW s \in Seq(S), NEW k \in Nat, k <= Len(s)
  PROVE  LET n == Len(s)
         IN  /\ SubSeq(s, k + 1, n) \in Seq(S) /\ Len(SubSeq(s, k + 1, n)) = n - k
             /\ \A i \in 1 .. n - k : SubSeq(s, k + 1, n)[i] = s[k + i]
OBVIOUS

\* A sequence without repetitions.
Distinct(r) == \A i, j \in DOMAIN r : r[i] = r[j] => i = j

\* Appending a task that is not in the queue.
LEMMA AppendRing ==
  ASSUME NEW T, NEW r \in Seq(T), Distinct(r), NEW t \in T, t \notin Range(r)
  PROVE  /\ Append(r, t) \in Seq(T)
         /\ Range(Append(r, t)) = Range(r) \union {t}
         /\ Distinct(Append(r, t))
<1> DEFINE n == Len(r)
<1>1. n \in Nat /\ DOMAIN r = 1..n
  OBVIOUS
<1>2. /\ Append(r, t) \in Seq(T)
      /\ DOMAIN Append(r, t) = 1 .. n + 1
      /\ \A i \in 1..n : Append(r, t)[i] = r[i]
      /\ Append(r, t)[n + 1] = t
  OBVIOUS
<1> DEFINE q == Append(r, t)
<1> HIDE DEF n, q
<1>3. 1 .. n + 1 = (1..n) \union {n + 1} /\ n + 1 \notin 1..n
  BY <1>1
<1>4. Range(q) = Range(r) \union {t}
  BY <1>1, <1>2, <1>3 DEF Range, q
<1>5. Distinct(q)
  BY <1>1, <1>2, <1>3 DEF Distinct, Range, q
<1> QED BY <1>2, <1>4, <1>5 DEF q

\* Unlinking a task that is in the queue.
LEMMA UnlinkRing ==
  ASSUME NEW T, NEW r \in Seq(T), Distinct(r), NEW t \in Range(r)
  PROVE  /\ Unlink(r, t) \in Seq(T)
         /\ Range(Unlink(r, t)) = Range(r) \ {t}
         /\ Distinct(Unlink(r, t))
<1> DEFINE n == Len(r)
           i == CHOOSE k \in 1..Len(r) : r[k] = t
           q == Unlink(r, t)
<1>1. n \in Nat /\ DOMAIN r = 1..n
  OBVIOUS
<1>2. i \in 1..n /\ r[i] = t
  BY <1>1 DEF Range
<1>3. q = SubSeq(r, 1, i - 1) \o SubSeq(r, i + 1, n)
  BY DEF Unlink
<1> HIDE DEF n, i, q
<1>4. /\ q \in Seq(T)
      /\ DOMAIN q = 1 .. n - 1
      /\ \A k \in 1 .. n - 1 : q[k] = IF k < i THEN r[k] ELSE r[k + 1]
  <2> DEFINE a == SubSeq(r, 1, i - 1)
             b == SubSeq(r, i + 1, n)
  <2>1. /\ a \in Seq(T)
        /\ Len(a) = i - 1
        /\ \A k \in 1 .. i - 1 : a[k] = r[k]
    BY <1>1, <1>2 DEF n
  <2>2. /\ b \in Seq(T)
        /\ Len(b) = n - i
        /\ \A k \in 1 .. n - i : b[k] = r[i + k]
    <3>1. i \in Nat /\ i <= Len(r)
      BY <1>1, <1>2 DEF n
    <3> QED BY <3>1, SuffixIs DEF n
  <2>3. q = a \o b
    BY <1>3
  <2> HIDE DEF a, b
  <2>4. /\ q \in Seq(T) /\ Len(q) = Len(a) + Len(b)
        /\ \A k \in 1..Len(a) : q[k] = a[k]
        /\ \A k \in 1..Len(b) : q[Len(a) + k] = b[k]
    <3>1. a \o b \in Seq(T) /\ Len(a \o b) = Len(a) + Len(b)
      BY Zenon, <2>1, <2>2, ConcatIs
    <3>2. /\ \A k \in 1..Len(a) : (a \o b)[k] = a[k]
          /\ \A k \in 1..Len(b) : (a \o b)[Len(a) + k] = b[k]
      BY <2>1, <2>2, ConcatIs
    <3> QED BY <2>3, <3>1, <3>2, Zenon
  <2>5. Len(q) = n - 1 /\ DOMAIN q = 1 .. n - 1
    BY <1>1, <1>2, <2>1, <2>2, <2>4
  <2>6. ASSUME NEW k \in 1 .. n - 1 PROVE q[k] = IF k < i THEN r[k] ELSE r[k + 1]
    <3>1. CASE k < i
      <4>1. k \in 1 .. i - 1
        BY <1>1, <1>2, <3>1
      <4> QED BY <2>1, <2>4, <3>1, <4>1
    <3>2. CASE ~(k < i)
      <4> DEFINE j == k - (i - 1)
      <4>1. j \in 1 .. n - i /\ i + j = k + 1 /\ (i - 1) + j = k
        BY <1>1, <1>2, <3>2
      <4> HIDE DEF j
      <4>2. q[Len(a) + j] = b[j] /\ b[j] = r[i + j]
        BY Zenon, <2>2, <2>4, <4>1
      <4> QED BY Zenon, <2>1, <3>2, <4>1, <4>2
    <3> QED BY <3>1, <3>2
  <2> QED BY <2>4, <2>5, <2>6
<1>5. \A j, k \in 1..n : r[j] = r[k] => j = k
  BY <1>1 DEF Distinct
<1>6. ASSUME NEW k \in 1 .. n - 1 PROVE q[k] \in Range(r) /\ q[k] # t
  <2>1. CASE k < i
    BY <1>1, <1>2, <1>4, <1>5, <2>1 DEF Range
  <2>2. CASE ~(k < i)
    <3>1. k + 1 \in 1..n /\ k + 1 # i /\ q[k] = r[k + 1]
      BY <1>1, <1>2, <1>4, <2>2
    <3> QED BY <1>1, <1>2, <1>5, <3>1 DEF Range
  <2> QED BY <2>1, <2>2
<1>7. ASSUME NEW k \in 1..n, r[k] # t PROVE \E j \in 1 .. n - 1 : q[j] = r[k]
  <2>1. CASE k < i
    <3>1. k \in 1 .. n - 1 /\ q[k] = r[k]
      BY <1>1, <1>2, <1>4, <2>1
    <3> QED BY <3>1
  <2>2. CASE k > i
    <3>1. k - 1 \in 1 .. n - 1 /\ ~(k - 1 < i) /\ (k - 1) + 1 = k
      BY <1>1, <1>2, <2>2
    <3>2. q[k - 1] = r[k]
      BY <1>4, <3>1
    <3> QED BY <3>1, <3>2
  <2> QED BY <1>1, <1>2, <1>7, <2>1, <2>2
<1>8. Range(q) = Range(r) \ {t}
  <2>1. Range(q) = {q[k] : k \in 1 .. n - 1} /\ Range(r) = {r[k] : k \in 1..n}
    BY <1>1, <1>4 DEF Range
  <2> QED BY <1>6, <1>7, <2>1
<1>9. Distinct(q)
  <2> SUFFICES ASSUME NEW j \in 1 .. n - 1, NEW k \in 1 .. n - 1, q[j] = q[k]
               PROVE  j = k
    BY <1>4 DEF Distinct
  <2> DEFINE pos(m) == IF m < i THEN m ELSE m + 1
  <2>1. pos(j) \in 1..n /\ pos(k) \in 1..n
    BY <1>1, <1>2
  <2>2. r[pos(j)] = r[pos(k)]
    BY <1>4
  <2>3. pos(j) = pos(k)
    BY <1>5, <2>1, <2>2
  <2> QED BY <1>1, <1>2, <2>3
<1> QED BY <1>4, <1>8, <1>9 DEF q
\* What the listed properties rest on besides each other: the current task is
\* in the queue (so pick_next_ready's walk from it is the walk of the queue),
\* the bootstrap task never dies, and a free slot is not DEAD.
Linked ==
  /\ current_task \in Range(ring)
  /\ state[Boot] # "DEAD"
  /\ \A s \in Slots \ used : state[s] = "READY"
  /\ reap_pc # "hlt" => reap_i \in Slots

\* The inductive invariant.
SInv ==
  /\ TypeOK /\ RingExact /\ OneRunning /\ CpuMatchesCurrent /\ ReapOnlyDead
  /\ Linked

LEMMA SlotFacts == Boot \in Tasks /\ Boot \notin Slots /\ Slots \subseteq Tasks
BY DEF Tasks, Boot, Slots

LEMMA InitSInv == Init => SInv
<1> SUFFICES ASSUME Init PROVE SInv
  OBVIOUS
<1> USE DEF Init
<1>0. ring = <<Boot>> /\ Range(ring) = {Boot} /\ Distinct(ring) /\ ring \in Seq(Tasks)
  BY SlotFacts DEF Range, Distinct
<1>1. TypeOK
  <2>1. state \in [Tasks -> {"READY", "RUNNING", "DEAD"}]
    OBVIOUS
  <2>2. 0 \in Tasks /\ current_task \in Tasks
    BY SlotFacts DEF Boot
  <2>3. cr3 \in [Tasks -> Tasks]
    BY <2>2
  <2>4. slice_remaining \in 0..SCHED_TIME_SLICE
    BY SchedConstants
  <2> QED BY Zenon, <1>0, <2>1, <2>2, <2>3, <2>4 DEF TypeOK
<1>2. RingExact
  BY <1>0 DEF RingExact, Releasing, Distinct
<1>3. OneRunning /\ CpuMatchesCurrent /\ ReapOnlyDead
  BY SlotFacts DEF OneRunning, CpuMatchesCurrent, ReapOnlyDead, Releasing
<1>4. Linked
  BY <1>0, SlotFacts DEF Linked
<1> QED BY <1>1, <1>2, <1>3, <1>4 DEF SInv

\* pick_next_ready returns the current task or a linked runnable one.
LEMMA PickLinked ==
  ASSUME NEW r \in Seq(Tasks), NEW i \in DOMAIN r, NEW R, NEW t, Picks(r, i, R, t)
  PROVE  t = r[i] \/ (t \in Range(r) /\ t \in R)
<1>1. Len(r) \in Nat /\ DOMAIN r = 1..Len(r) /\ Len(r) > 0 /\ i \in Nat
  OBVIOUS
<1>2. ASSUME NEW k \in 1..Len(r) PROVE Following(r, i, k) \in Range(r)
  <2>1. i - 1 + k \in Nat
    BY <1>1
  <2>2. (i - 1 + k) % Len(r) \in 0 .. Len(r) - 1
    BY <1>1, <2>1
  <2>3. ((i - 1 + k) % Len(r)) + 1 \in DOMAIN r
    BY <1>1, <2>2
  <2> QED BY <2>3 DEF Following, Range
<1> QED BY <1>2 DEF Picks

\* So a switch goes to a READY task, or nothing is switched.
LEMMA SwitchFacts ==
  ASSUME SInv, NEW slice \in 0..SCHED_TIME_SLICE, SwitchToPicked(slice)
  PROVE  \E next \in Tasks :
           /\ switch_to(next, slice)
           /\ next # current_task => next \in Range(ring) /\ state[next] = "READY"
           /\ UNCHANGED <<used, cr3, ring, scheduler_on, reap>>
<1>1. PICK i \in DOMAIN ring, next \in Tasks :
        /\ ring[i] = current_task
        /\ Picks(ring, i, Runnable, next)
        /\ switch_to(next, slice)
        /\ UNCHANGED <<used, cr3, ring, scheduler_on, reap>>
  BY DEF SwitchToPicked
<1>2. next # current_task => next \in Range(ring) /\ next \in Runnable
  BY <1>1, PickLinked DEF SInv, TypeOK
<1>3. next # current_task => state[next] = "READY"
  BY <1>2 DEF SInv, OneRunning, Runnable
<1> QED BY <1>1, <1>2, <1>3

LEMMA SwitchSInv ==
  ASSUME SInv, NEW slice \in 0..SCHED_TIME_SLICE, SwitchToPicked(slice)
  PROVE  SInv'
<1>1. PICK next \in Tasks :
        /\ switch_to(next, slice)
        /\ next # current_task => next \in Range(ring) /\ state[next] = "READY"
        /\ UNCHANGED <<used, cr3, ring, scheduler_on, reap>>
  BY SwitchFacts
<1>2. used' = used /\ cr3' = cr3 /\ ring' = ring /\ scheduler_on' = scheduler_on
      /\ reap_pc' = reap_pc /\ reap_i' = reap_i
  BY <1>1 DEF reap
<1>3. CASE next = current_task
  <2>1. /\ slice_remaining' = slice
        /\ UNCHANGED <<state, current_task, tss_esp0, cpu_cr3>>
    BY <1>1, <1>3 DEF switch_to
  <2> QED BY <1>2, <2>1 DEF SInv, TypeOK, RingExact, OneRunning, CpuMatchesCurrent,
             ReapOnlyDead, Linked, Releasing, esp0
<1>4. CASE next # current_task
  <2>1. /\ state' = [state EXCEPT
                    ![current_task] = IF @ = "RUNNING" THEN "READY" ELSE @,
                    ![next] = "RUNNING"]
        /\ current_task' = next
        /\ slice_remaining' = SCHED_TIME_SLICE
        /\ tss_esp0' = esp0(next)
        /\ cpu_cr3' = IF cr3[next] # cr3[current_task] THEN cr3[next] ELSE cpu_cr3
    BY <1>1, <1>4 DEF switch_to
  <2>2. TypeOK'
    BY <1>2, <2>1, SchedConstants DEF SInv, TypeOK, esp0
  <2>3. RingExact'
    BY <1>2 DEF SInv, RingExact, Releasing
  <2>4. OneRunning'
    BY <1>4, <2>1 DEF SInv, OneRunning, TypeOK
  <2>5. CpuMatchesCurrent'
    BY <1>2, <2>1 DEF SInv, CpuMatchesCurrent, esp0
  <2>6. ReapOnlyDead'
    <3> SUFFICES ASSUME NEW s \in Releasing
                 PROVE  /\ s \in used /\ state'[s] = "DEAD"
                        /\ s # next /\ s # Boot /\ s \notin Range(ring)
      BY Zenon, <1>2, <2>1 DEF ReapOnlyDead, Releasing
    <3>1. /\ s \in used /\ state[s] = "DEAD" /\ s # current_task /\ s # Boot
          /\ s \notin Range(ring)
      BY DEF SInv, ReapOnlyDead
    <3>2. s # next
      BY <1>1, <1>4, <3>1
    <3> QED BY <2>1, <3>1, <3>2, SlotFacts DEF SInv, TypeOK
  <2>7. Linked'
    <3>1. next \in Range(ring)
      BY <1>1, <1>4
    <3>2. next = Boot \/ next \in used
      BY <3>1 DEF SInv, RingExact
    <3>3. current_task = Boot \/ current_task \in used
      BY DEF SInv, RingExact, Linked
    <3>4. state'[Boot] # "DEAD"
      BY <2>1, SlotFacts DEF SInv, Linked, TypeOK
    <3>5. \A s \in Slots \ used : state'[s] = "READY"
      BY <2>1, <3>2, <3>3, SlotFacts DEF SInv, Linked, TypeOK
    <3> QED BY Zenon, <1>2, <2>1, <3>1, <3>4, <3>5 DEF SInv, Linked
  <2> QED BY <2>2, <2>3, <2>4, <2>5, <2>6, <2>7 DEF SInv
<1> QED BY <1>3, <1>4
LEMMA scheduleSInv == SInv /\ schedule => SInv'
<1> SUFFICES ASSUME SInv, schedule PROVE SInv'
  OBVIOUS
<1>1. CASE UNCHANGED vars
  BY <1>1 DEF vars, tasks, cpu, reap, SInv, TypeOK, RingExact, OneRunning,
     CpuMatchesCurrent, ReapOnlyDead, Linked, Releasing, esp0
<1>2. CASE /\ slice_remaining > 1
           /\ slice_remaining' = slice_remaining - 1
           /\ UNCHANGED <<tasks, ring, current_task, tss_esp0, cpu_cr3, scheduler_on, reap>>
  <2>1. slice_remaining' \in 0..SCHED_TIME_SLICE
    BY <1>2, SchedConstants DEF SInv, TypeOK
  <2> QED BY <1>2, <2>1 DEF tasks, reap, SInv, TypeOK, RingExact, OneRunning,
             CpuMatchesCurrent, ReapOnlyDead, Linked, Releasing, esp0
<1>3. CASE SwitchToPicked(0)
  BY <1>3, SwitchSInv, SchedConstants
<1> QED BY <1>1, <1>2, <1>3 DEF schedule

LEMMA yieldSInv == SInv /\ (sched_yield \/ task_exit_yield) => SInv'
BY SwitchSInv DEF sched_yield, task_exit_yield, SInv, TypeOK

LEMMA task_exitSInv == SInv /\ task_exit => SInv'
<1> SUFFICES ASSUME SInv, task_exit PROVE SInv'
  OBVIOUS
<1>1. /\ current_task # Boot /\ state[current_task] = "RUNNING"
      /\ state' = [state EXCEPT ![current_task] = "DEAD"]
      /\ used' = used /\ cr3' = cr3 /\ ring' = ring /\ scheduler_on' = scheduler_on
      /\ current_task' = current_task /\ slice_remaining' = slice_remaining
      /\ tss_esp0' = tss_esp0 /\ cpu_cr3' = cpu_cr3
      /\ reap_pc' = reap_pc /\ reap_i' = reap_i
  BY DEF task_exit, cpu, reap
<1>2. TypeOK' /\ RingExact'
  BY <1>1 DEF SInv, TypeOK, RingExact, Releasing
<1>3. OneRunning' /\ CpuMatchesCurrent'
  BY <1>1 DEF SInv, TypeOK, OneRunning, CpuMatchesCurrent, esp0
<1>4. ReapOnlyDead'
  BY <1>1 DEF SInv, TypeOK, ReapOnlyDead, Releasing
<1>5. Linked'
  <2>1. current_task \in used
    BY <1>1 DEF SInv, RingExact, Linked
  <2> QED BY <1>1, <2>1, SlotFacts DEF SInv, TypeOK, Linked
<1> QED BY <1>2, <1>3, <1>4, <1>5 DEF SInv

LEMMA CreateSInv ==
  ASSUME SInv, NEW dir \in Tasks, NEW s \in Slots, IsFreeTcb(s),
         used' = used \union {s},
         state' = [state EXCEPT ![s] = "READY"],
         cr3' = [cr3 EXCEPT ![s] = dir],
         ring' = Append(ring, s),
         UNCHANGED <<cpu, scheduler_on, reap>>
  PROVE  SInv'
<1>1. s \notin used /\ s # Boot
  BY SlotFacts DEF IsFreeTcb
<1>2. s \notin Range(ring) /\ s # current_task
  BY <1>1 DEF SInv, RingExact, Linked
<1>3. /\ ring' \in Seq(Tasks)
      /\ Range(ring') = Range(ring) \union {s}
      /\ Distinct(ring')
  BY <1>2, AppendRing, SlotFacts DEF SInv, TypeOK, RingExact, Distinct
<1>4. s \notin Releasing
  BY <1>1 DEF SInv, ReapOnlyDead
<1>5. /\ scheduler_on' = scheduler_on
      /\ current_task' = current_task /\ slice_remaining' = slice_remaining
      /\ tss_esp0' = tss_esp0 /\ cpu_cr3' = cpu_cr3
      /\ reap_pc' = reap_pc /\ reap_i' = reap_i /\ Releasing' = Releasing
  BY DEF cpu, reap, Releasing
<1>6. TypeOK'
  BY <1>3, <1>5 DEF SInv, TypeOK
<1>7. RingExact'
  BY <1>3, <1>4, <1>5 DEF SInv, RingExact, Distinct
<1>8. OneRunning' /\ CpuMatchesCurrent'
  BY <1>2, <1>5 DEF SInv, TypeOK, OneRunning, CpuMatchesCurrent, esp0
<1>9. ReapOnlyDead'
  BY <1>1, <1>3, <1>4, <1>5 DEF SInv, TypeOK, ReapOnlyDead
<1>10. Linked'
  BY <1>1, <1>3, <1>5, SlotFacts DEF SInv, TypeOK, Linked
<1> QED BY <1>6, <1>7, <1>8, <1>9, <1>10 DEF SInv

LEMMA creationSInv == SInv /\ (task_create \/ task_create_user) => SInv'
<1> SUFFICES ASSUME SInv, task_create \/ task_create_user PROVE SInv'
  OBVIOUS
<1>1. CASE UNCHANGED vars
  BY <1>1 DEF vars, tasks, cpu, reap, SInv, TypeOK, RingExact, OneRunning,
     CpuMatchesCurrent, ReapOnlyDead, Linked, Releasing, esp0
<1>2. CASE task_create /\ ~UNCHANGED vars
  <2>1. 0 \in Tasks
    BY SlotFacts DEF Boot
  <2> QED BY <1>2, <2>1, CreateSInv DEF task_create, Create, KernelDir
<1>3. CASE task_create_user /\ ~UNCHANGED vars
  BY <1>3, CreateSInv, SlotFacts DEF task_create_user, Create, OwnDir
<1> QED BY <1>1, <1>2, <1>3

LEMMA toggleSInv == SInv /\ (sched_enable \/ sched_disable) => SInv'
BY Zenon DEF sched_enable, sched_disable, tasks, cpu, reap, SInv, TypeOK, RingExact,
   OneRunning, CpuMatchesCurrent, ReapOnlyDead, Linked, Releasing, esp0

\* Unlinking a dead task while the bootstrap task runs and no other slot is
\* being released.
LEMMA RemoveSInv ==
  ASSUME SInv, current_task = Boot, reap_pc # "release",
         NEW s \in Slots, Reapable(s), sched_remove_task(s)
  PROVE  SInv'
<1>1. /\ ring' = Unlink(ring, s) /\ reap_pc' = "release" /\ reap_i' = s
      /\ used' = used /\ state' = state /\ cr3' = cr3
      /\ scheduler_on' = scheduler_on
      /\ current_task' = current_task /\ slice_remaining' = slice_remaining
      /\ tss_esp0' = tss_esp0 /\ cpu_cr3' = cpu_cr3
  BY DEF sched_remove_task, tasks, cpu
<1>2. Releasing = {} /\ Releasing' = {s}
  BY <1>1 DEF Releasing
<1>3. s \in used /\ state[s] = "DEAD" /\ s # Boot
  BY SlotFacts DEF Reapable
<1>4. s \in Range(ring)
  BY <1>2, <1>3 DEF SInv, RingExact
<1>5. /\ ring' \in Seq(Tasks)
      /\ Range(ring') = Range(ring) \ {s}
      /\ Distinct(ring')
  BY <1>1, <1>4, UnlinkRing DEF SInv, TypeOK, RingExact, Distinct
<1>6. TypeOK'
  BY <1>1, <1>5 DEF SInv, TypeOK
<1>7. RingExact'
  BY <1>1, <1>2, <1>3, <1>5 DEF SInv, RingExact, Distinct
<1>8. OneRunning' /\ CpuMatchesCurrent'
  BY <1>1 DEF SInv, OneRunning, CpuMatchesCurrent, esp0
<1>9. ReapOnlyDead'
  BY <1>1, <1>2, <1>3, <1>5 DEF ReapOnlyDead
<1>10. Linked'
  BY <1>1, <1>3, <1>5 DEF SInv, Linked
<1> QED BY <1>6, <1>7, <1>8, <1>9, <1>10 DEF SInv

LEMMA task_reapSInv == SInv /\ task_reap => SInv'
BY RemoveSInv DEF task_reap

LEMMA reap_releaseSInv == SInv /\ reap_release => SInv'
<1> SUFFICES ASSUME SInv, reap_release PROVE SInv'
  OBVIOUS
<1>1. /\ used' = used \ {reap_i}
      /\ state' = [state EXCEPT ![reap_i] = "READY"]
      /\ cr3' = [cr3 EXCEPT ![reap_i] = 0]
      /\ reap_pc' = "scan" /\ reap_i' = reap_i
      /\ ring' = ring /\ scheduler_on' = scheduler_on
      /\ current_task' = current_task /\ slice_remaining' = slice_remaining
      /\ tss_esp0' = tss_esp0 /\ cpu_cr3' = cpu_cr3
  BY DEF reap_release, cpu
<1>2. Releasing = {reap_i} /\ Releasing' = {}
  BY <1>1 DEF reap_release, Releasing
<1>3. /\ reap_i \in used /\ reap_i # current_task /\ reap_i # Boot
      /\ reap_i \notin Range(ring) /\ reap_i \in Slots /\ reap_i \in Tasks
  BY <1>2, SlotFacts DEF SInv, ReapOnlyDead, TypeOK
<1>4. TypeOK'
  <2>1. 0 \in Tasks
    BY SlotFacts DEF Boot
  <2> QED BY Zenon, <1>1, <2>1 DEF SInv, TypeOK
<1>5. RingExact'
  BY <1>1, <1>2, <1>3 DEF SInv, RingExact
<1>6. OneRunning' /\ CpuMatchesCurrent'
  BY <1>1, <1>3 DEF SInv, TypeOK, OneRunning, CpuMatchesCurrent, esp0
<1>7. ReapOnlyDead'
  BY <1>2 DEF ReapOnlyDead
<1>8. Linked'
  BY <1>1, <1>3, SlotFacts DEF SInv, TypeOK, Linked
<1> QED BY <1>4, <1>5, <1>6, <1>7, <1>8 DEF SInv

LEMMA reap_scanSInv == SInv /\ reap_scan => SInv'
<1> SUFFICES ASSUME SInv, reap_scan PROVE SInv'
  OBVIOUS
<1>1. CASE reap_i + 1 \in Slots /\ Reapable(reap_i + 1) /\ sched_remove_task(reap_i + 1)
  BY Zenon, <1>1, RemoveSInv DEF reap_scan
<1>2. CASE /\ reap_i + 1 \in Slots
           /\ reap_i' = reap_i + 1
           /\ UNCHANGED <<tasks, ring, cpu, scheduler_on, reap_pc>>
  <2>1. Releasing = {} /\ Releasing' = {}
    BY Zenon, <1>2 DEF reap_scan, Releasing
  <2> QED BY <1>2, <2>1 DEF tasks, cpu, SInv, TypeOK, RingExact, OneRunning,
             CpuMatchesCurrent, ReapOnlyDead, Linked, esp0
<1>3. CASE /\ reap_pc' = "hlt" /\ reap_i' = 0
           /\ UNCHANGED <<tasks, ring, cpu, scheduler_on>>
  <2>1. Releasing = {} /\ Releasing' = {}
    BY <1>3 DEF reap_scan, Releasing
  <2> QED BY <1>3, <2>1 DEF tasks, cpu, SInv, TypeOK, RingExact, OneRunning,
             CpuMatchesCurrent, ReapOnlyDead, Linked, esp0
<1> QED BY <1>1, <1>2, <1>3 DEF reap_scan
\* SInv holds in every reachable state.
THEOREM Invariance == Spec => []SInv
<1>1. SInv /\ [Next]_vars => SInv'
  <2> SUFFICES ASSUME SInv, [Next]_vars PROVE SInv'
    OBVIOUS
  <2>1. CASE UNCHANGED vars
    BY <2>1 DEF vars, tasks, cpu, reap, SInv, TypeOK, RingExact, OneRunning,
       CpuMatchesCurrent, ReapOnlyDead, Linked, Releasing, esp0
  <2> QED BY <2>1, scheduleSInv, yieldSInv, task_exitSInv, creationSInv, toggleSInv,
             task_reapSInv, reap_releaseSInv, reap_scanSInv DEF Next, BetweenTicks
<1> QED BY <1>1, InitSInv, PTL DEF Spec

\* The ready queue is exact for every pool size: each living or dead task is in
\* it once, each free or half-released slot is not.
THEOREM RingCorrect == Spec => [](TypeOK /\ RingExact)
<1>1. SInv => TypeOK /\ RingExact
  BY DEF SInv
<1> QED BY <1>1, Invariance, PTL

\* At most one task is RUNNING, and the current task is RUNNING or exiting.
THEOREM OneRunningCorrect == Spec => []OneRunning
<1>1. SInv => OneRunning
  BY DEF SInv
<1> QED BY <1>1, Invariance, PTL

\* CR3 and the TSS always belong to the task that runs.
THEOREM CpuCorrect == Spec => []CpuMatchesCurrent
<1>1. SInv => CpuMatchesCurrent
  BY DEF SInv
<1> QED BY <1>1, Invariance, PTL

\* task_reap only ever releases a dead, unlinked task that is not running,
\* although interrupts are on between its steps.
THEOREM ReapCorrect == Spec => []ReapOnlyDead
<1>1. SInv => ReapOnlyDead
  BY DEF SInv
<1> QED BY <1>1, Invariance, PTL

\* The step condition of NoResurrection.
GoodStep ==
  /\ current_task' # current_task =>
       state[current_task'] = "READY" /\ current_task' \in Range(ring)
  /\ \A s \in Slots : state[s] = "DEAD" /\ state'[s] # "DEAD" => s \notin used'

LEMMA SwitchGood ==
  ASSUME SInv, NEW slice \in 0..SCHED_TIME_SLICE, SwitchToPicked(slice)
  PROVE  GoodStep
<1>1. PICK next \in Tasks :
        /\ switch_to(next, slice)
        /\ next # current_task => next \in Range(ring) /\ state[next] = "READY"
        /\ UNCHANGED <<used, cr3, ring, scheduler_on, reap>>
  BY SwitchFacts
<1>2. CASE next = current_task
  BY <1>1, <1>2 DEF switch_to, GoodStep
<1>3. CASE next # current_task
  <2>1. current_task' = next
    BY <1>1, <1>3 DEF switch_to
  <2>2. ASSUME NEW s \in Slots, state[s] = "DEAD" PROVE state'[s] = "DEAD"
    BY <1>1, <1>3, <2>2, SlotFacts DEF switch_to, SInv, TypeOK
  <2> QED BY Zenon, <1>1, <1>3, <2>1, <2>2 DEF GoodStep
<1> QED BY Zenon, <1>2, <1>3

\* Every switch goes to a linked READY task and only a reaped slot leaves the
\* state DEAD: a task that has called task_exit never runs again.
THEOREM DeadNeverResume == Spec => NoResurrection
<1>1. SInv /\ [Next]_vars => [GoodStep]_vars
  <2> SUFFICES ASSUME SInv, Next PROVE GoodStep
    OBVIOUS
  <2>1. CASE schedule
    <3>1. CASE SwitchToPicked(0)
      BY <3>1, SwitchGood, SchedConstants
    <3> QED BY <2>1, <3>1 DEF schedule, GoodStep, vars, tasks, cpu
  <2>2. CASE sched_yield \/ task_exit_yield
    BY <2>2, SwitchGood DEF sched_yield, task_exit_yield, SInv, TypeOK
  <2>3. CASE task_exit
    BY Zenon, <2>3, SlotFacts DEF task_exit, GoodStep, cpu, SInv, TypeOK
  <2>4. CASE task_create \/ task_create_user
    <3>1. CASE UNCHANGED vars
      BY <3>1 DEF GoodStep, vars, tasks, cpu
    <3>2. ASSUME NEW s \in Slots, IsFreeTcb(s),
                 state' = [state EXCEPT ![s] = "READY"], UNCHANGED cpu
          PROVE  GoodStep
      <4>1. state[s] = "READY"
        BY <3>2 DEF IsFreeTcb, SInv, Linked
      <4> QED BY <3>2, <4>1, SlotFacts DEF GoodStep, cpu, SInv, TypeOK
    <3> QED BY <2>4, <3>1, <3>2 DEF task_create, task_create_user, Create
  <2>5. CASE sched_enable \/ sched_disable
    BY Zenon, <2>5 DEF sched_enable, sched_disable, GoodStep, tasks, cpu
  <2>6. CASE task_reap \/ reap_scan
    BY <2>6 DEF task_reap, reap_scan, sched_remove_task, GoodStep, tasks, cpu
  <2>7. CASE reap_release
    BY <2>7, SlotFacts DEF reap_release, GoodStep, cpu, SInv, TypeOK
  <2> QED BY <2>1, <2>2, <2>3, <2>4, <2>5, <2>6, <2>7 DEF Next, BetweenTicks
<1>2. NoResurrection <=> [][GoodStep]_vars
  BY PTL DEF NoResurrection, GoodStep
<1> QED BY <1>1, <1>2, Invariance, PTL DEF Spec
------------------------------------------------------------------------------
\* One element more.
LEMMA AppendIs ==
  ASSUME NEW S, NEW s \in Seq(S), NEW e \in S
  PROVE  /\ Append(s, e) \in Seq(S) /\ Len(Append(s, e)) = Len(s) + 1
         /\ \A i \in 1..Len(s) : Append(s, e)[i] = s[i]
         /\ Append(s, e)[Len(s) + 1] = e
OBVIOUS

\* The first elements of a sequence, or all of them.
LEMMA PrefixIs ==
  ASSUME NEW S, NEW s \in Seq(S), NEW n \in Nat, n <= Len(s)
  PROVE  /\ SubSeq(s, 1, n) \in Seq(S) /\ Len(SubSeq(s, 1, n)) = n
         /\ \A i \in 1..n : SubSeq(s, 1, n)[i] = s[i]
         /\ SubSeq(s, 1, Len(s)) = s
OBVIOUS

\* A product does not decrease.
LEMMA TimesMonotone ==
  ASSUME NEW p \in Nat, NEW a \in Int, NEW b \in Int, a <= b
  PROVE  p * a \in Int /\ p * b \in Int /\ p * a <= p * b
<1>1. p * (b - a) >= 0 /\ p * (b - a) = p * b - p * a
  OBVIOUS
<1> QED BY <1>1

\* Division with remainder, and that there is only one.
LEMMA DivMod ==
  ASSUME NEW m \in Nat, m >= 1, NEW x \in Int
  PROVE  /\ x \div m \in Int /\ x % m \in 0 .. m - 1 /\ x = m * (x \div m) + (x % m)
         /\ \A q \in Int, r \in 0 .. m - 1 : x = m * q + r => x \div m = q /\ x % m = r
<1> DEFINE d == x \div m
           y == x % m
<1>1. d \in Int /\ y \in 0 .. m - 1 /\ x = m * d + y
  OBVIOUS
<1> HIDE DEF d, y
<1>2. ASSUME NEW q \in Int, NEW r \in 0 .. m - 1, x = m * q + r
      PROVE  d = q /\ y = r
  <2>1. m * (d - q) = r - y /\ m * (q - d) = y - r
    BY <1>1, <1>2
  <2>2. ~(d - q >= 1)
    <3>1. SUFFICES ASSUME d - q >= 1 PROVE FALSE
      OBVIOUS
    <3>2. m * 1 <= m * (d - q) /\ m * 1 = m
      BY <1>1, <3>1, TimesMonotone
    <3> QED BY <1>1, <2>1, <3>2
  <2>3. ~(q - d >= 1)
    <3>1. SUFFICES ASSUME q - d >= 1 PROVE FALSE
      OBVIOUS
    <3>2. m * 1 <= m * (q - d) /\ m * 1 = m
      BY <1>1, <3>1, TimesMonotone
    <3> QED BY <1>1, <2>1, <3>2
  <2>4. d = q
    BY <1>1, <2>2, <2>3
  <2>5. m * q \in Int
    OBVIOUS
  <2> QED BY <1>1, <1>2, <2>4, <2>5
<1> QED BY <1>1, <1>2 DEF d, y

\* The least element of a set of numbers.
LEMMA Least ==
  ASSUME NEW S \in SUBSET Nat, S # {}
  PROVE  \E m \in S : \A y \in S : m <= y
<1>1. PICK m \in S : \A y \in S : ~(<<y, m>> \in OpToRel(<, Nat))
  BY NatLessThanWellFounded, WFMin
<1>2. \A y \in S : ~(y < m)
  BY <1>1, Zenon DEF OpToRel
<1> QED BY <1>2

\* A remainder below m is the number.
LEMMA ModSmall ==
  ASSUME NEW m \in Nat, m >= 1, NEW x \in 0 .. m - 1
  PROVE  x % m = x
<1>1. x \in Int /\ x = m * 0 + x
  OBVIOUS
<1> QED BY <1>1, DivMod

\* Multiples of m do not change the remainder.
LEMMA ModShift ==
  ASSUME NEW m \in Nat, m >= 1, NEW a \in Int, NEW z \in Int
  PROVE  (a + m * z) % m = a % m
<1> DEFINE d == a \div m
           y == a % m
           b == a + m * z
           w == d + z
<1>1. d \in Int /\ y \in 0 .. m - 1 /\ a = m * d + y
  BY DivMod
<1> HIDE DEF d, y
<1>2. b \in Int /\ w \in Int /\ b = m * w + y
  BY <1>1
<1> HIDE DEF b, w
<1>3. b % m = y
  BY <1>1, <1>2, DivMod
<1> QED BY <1>3 DEF b, y

\* Only the remainder of a summand counts.
LEMMA ModAdd ==
  ASSUME NEW m \in Nat, m >= 1, NEW x \in Int, NEW d \in Int
  PROVE  ((x % m) + d) % m = (x + d) % m
<1> DEFINE q == x \div m
           r == x % m
           a == r + d
<1>1. q \in Int /\ r \in 0 .. m - 1 /\ x = m * q + r
  BY DivMod
<1> HIDE DEF q, r
<1>2. a \in Int /\ a + m * q = x + d
  BY <1>1
<1> HIDE DEF a
<1>3. (a + m * q) % m = a % m
  BY Zenon, <1>1, <1>2, ModShift
<1>4. a % m = (x + d) % m
  BY <1>2, <1>3
<1> QED BY <1>4 DEF a, r

\* Numbers less than m apart have different remainders.
LEMMA ModApart ==
  ASSUME NEW m \in Nat, m >= 1, NEW x \in Int, NEW y \in Int, 0 < x - y, x - y < m
  PROVE  x % m # y % m
<1> DEFINE q == x \div m
           r == x % m
           d == y \div m
<1> SUFFICES ASSUME r = y % m PROVE FALSE
  OBVIOUS
<1>1. q \in Int /\ r \in 0 .. m - 1 /\ x = m * q + r
  BY DivMod
<1>2. d \in Int /\ y = m * d + r
  BY DivMod
<1> HIDE DEF q, r, d
<1>3. m * (q - d) = x - y
  BY <1>1, <1>2
<1>4. q - d >= 1
  <2>1. SUFFICES ASSUME q - d <= 0 PROVE FALSE
    BY <1>1, <1>2
  <2>2. m * (q - d) <= m * 0 /\ m * 0 = 0
    BY <1>1, <1>2, <2>1, TimesMonotone
  <2> QED BY <1>3, <2>2
<1>5. m * 1 <= m * (q - d) /\ m * 1 = m
  BY <1>1, <1>2, <1>4, TimesMonotone
<1> QED BY <1>3, <1>5

\* Each message of the last ones is in its slot: as many as the ring holds, or one
\* less while a call has begun to write over the oldest.
LogInv ==
  /\ LogTypeOK
  /\ logged \in Seq(Nat) /\ overlapped \in BOOLEAN
  /\ log_count = Len(logged) /\ log_head = log_count % KLOG_BUFFER_SIZE
  /\ call # NoCall => /\ Len(logged) + 1 <= MAX_LOGS
                      /\ ~overlapped => call.slot = log_head /\ log_buffer[log_head].level = call.msg
  /\ ~overlapped =>
       \A j \in 1..Len(logged) :
         Len(logged) - j < KLOG_BUFFER_SIZE - (IF call = NoCall THEN 0 ELSE 1) =>
           log_buffer[(j - 1) % KLOG_BUFFER_SIZE] = Whole(logged[j])

\* The slot of the next message is not that of one of the last.
LEMMA NextSlot ==
  ASSUME LogInv
  PROVE  LET n == Len(logged)
         IN  /\ n \in Nat /\ KLOG_BUFFER_SIZE \in Nat /\ KLOG_BUFFER_SIZE >= 1
             /\ log_head \in Ring /\ log_head = n % KLOG_BUFFER_SIZE
             /\ (log_head + 1) % KLOG_BUFFER_SIZE = (n + 1) % KLOG_BUFFER_SIZE
             /\ (log_head + 1) % KLOG_BUFFER_SIZE \in Ring
             /\ \A j \in 1..n : n - j < KLOG_BUFFER_SIZE - 1 =>
                  (j - 1) % KLOG_BUFFER_SIZE # log_head /\ (j - 1) % KLOG_BUFFER_SIZE \in Ring
             /\ n % KLOG_BUFFER_SIZE = ((n + 1) - 1) % KLOG_BUFFER_SIZE
<1> DEFINE n == Len(logged)
           K == KLOG_BUFFER_SIZE
<1>1. n \in Nat /\ K \in Nat /\ K >= 1 /\ log_head = n % K /\ log_head \in Ring
  BY KlogConstants DEF LogInv, LogTypeOK
<1> HIDE DEF n, K
<1>2. (log_head + 1) % K = (n + 1) % K
  <2>1. n \in Int /\ 1 \in Int
    BY <1>1
  <2>2. ((n % K) + 1) % K = (n + 1) % K
    BY <1>1, <2>1, ModAdd, Zenon
  <2> QED BY <1>1, <2>2
<1>3. \A x \in Int : x % K \in 0 .. K - 1
  BY <1>1, DivMod
<1>4. Ring = 0 .. K - 1
  BY DEF Ring, K
<1>5. ASSUME NEW j \in 1..n, n - j < K - 1
      PROVE  (j - 1) % K # log_head /\ (j - 1) % K \in Ring
  <2> DEFINE y == j - 1
  <2>1. y \in Int /\ 0 < n - y /\ n - y < K
    BY <1>1, <1>5
  <2> HIDE DEF y
  <2>2. n % K # y % K
    <3>1. n \in Int
      BY <1>1
    <3> QED BY <1>1, <2>1, <3>1, ModApart, Zenon
  <2> QED BY Zenon, <1>1, <1>3, <1>4, <2>1, <2>2 DEF y
<1>6. n + 1 \in Int /\ (n + 1) - 1 = n
  BY <1>1
<1>7. (n + 1) % K \in Ring
  BY <1>3, <1>4, <1>6
<1> QED BY <1>1, <1>2, <1>4, <1>5, <1>6, <1>7 DEF n, K

\* A message is added: to the ring at the head, and to the history.
LEMMA LogAdds ==
  ASSUME LogInv, NEW m \in 0..MAX_LOGS, Advance, logged' = Append(logged, m),
         Len(logged) + 1 <= MAX_LOGS,
         log_buffer' \in [Ring -> [level : 0..MAX_LOGS, text : 0..MAX_LOGS]],
         call' \in [slot : Ring, msg : 0..MAX_LOGS], overlapped' \in BOOLEAN,
         call' # NoCall => overlapped' /\ Len(logged) + 2 <= MAX_LOGS,
         ~overlapped' => /\ ~overlapped
                         /\ log_buffer'[log_head] = Whole(m)
                         /\ \A i \in Ring : i # log_head => log_buffer'[i] = log_buffer[i]
  PROVE  LogInv'
<1> DEFINE n == Len(logged)
           K == KLOG_BUFFER_SIZE
<1>1. /\ n \in Nat /\ K \in Nat /\ K >= 1 /\ log_head \in Ring /\ log_head = n % K
      /\ (log_head + 1) % K = (n + 1) % K /\ (log_head + 1) % K \in Ring
      /\ \A j \in 1..n : n - j < K - 1 => (j - 1) % K # log_head /\ (j - 1) % K \in Ring
      /\ n % K = ((n + 1) - 1) % K
  BY NextSlot
<1>2. log_count = n /\ logged \in Seq(Nat) /\ MAX_LOGS \in Nat
  BY KlogConstants DEF LogInv
<1>3. log_head' = (n + 1) % K /\ log_count' = n + 1
  BY <1>1, <1>2 DEF Advance
<1>4. logged' \in Seq(Nat) /\ Len(logged') = n + 1 /\ logged'[n + 1] = m /\ \A j \in 1..n : logged'[j] = logged[j]
  BY <1>2
<1>5. LogTypeOK'
  BY SMTT(20), <1>1, <1>2, <1>3 DEF LogTypeOK
<1>6. ~overlapped => \A j \in 1..n : n - j < K - 1 => log_buffer[(j - 1) % K] = Whole(logged[j])
  <2>1. SUFFICES ASSUME ~overlapped, NEW j \in 1..n, n - j < K - 1
                 PROVE  log_buffer[(j - 1) % K] = Whole(logged[j])
    OBVIOUS
  <2>2. n - j < K - 0 /\ n - j < K - 1
    BY <1>1, <2>1
  <2> QED BY Zenon, <2>1, <2>2 DEF LogInv
<1> HIDE DEF n, K
<1>7. ASSUME ~overlapped', NEW j \in 1 .. n + 1, n + 1 - j < K
      PROVE  log_buffer'[(j - 1) % K] = Whole(logged'[j])
  <2>1. CASE j = n + 1
    BY <1>1, <1>4, <1>7, <2>1
  <2>2. CASE j # n + 1
    <3>1. j \in 1..n /\ n - j < K - 1
      BY <1>1, <1>7, <2>2
    <3> QED BY Zenon, <1>1, <1>4, <1>6, <1>7, <3>1
  <2> QED BY Zenon, <2>1, <2>2
<1>8. ~overlapped' => call' = NoCall
  OBVIOUS
<1>9. call' # NoCall => Len(logged') + 1 <= MAX_LOGS
  BY <1>1, <1>2, <1>4 DEF n
<1>10. log_count' = Len(logged') /\ log_head' = log_count' % KLOG_BUFFER_SIZE
  BY <1>3, <1>4 DEF K
<1>11. ~overlapped' =>
         \A j \in 1 .. Len(logged') : Len(logged') - j < KLOG_BUFFER_SIZE - (IF call' = NoCall THEN 0 ELSE 1) =>
           log_buffer'[(j - 1) % KLOG_BUFFER_SIZE] = Whole(logged'[j])
  <2>1. SUFFICES ASSUME ~overlapped', NEW j \in 1 .. Len(logged'), Len(logged') - j < KLOG_BUFFER_SIZE - 0
                 PROVE  log_buffer'[(j - 1) % KLOG_BUFFER_SIZE] = Whole(logged'[j])
    BY Zenon, <1>8
  <2>2. j \in 1 .. n + 1 /\ n + 1 - j < K
    BY <1>1, <1>4, <2>1 DEF K
  <2> QED BY <1>7, <2>1, <2>2 DEF K
<1> QED BY Zenon, <1>4, <1>5, <1>8, <1>9, <1>10, <1>11 DEF LogInv

\* Every step keeps the invariant.
LEMMA LogStep == LogInv /\ [LogNext]_log => LogInv'
<1> SUFFICES ASSUME LogInv, [LogNext]_log PROVE LogInv'
  OBVIOUS
<1> DEFINE n == Len(logged)
           K == KLOG_BUFFER_SIZE
           Entries == [level : 0..MAX_LOGS, text : 0..MAX_LOGS]
<1>1. /\ n \in Nat /\ K \in Nat /\ K >= 1 /\ log_head \in Ring /\ log_head = n % K
      /\ \A j \in 1..n : n - j < K - 1 => (j - 1) % K # log_head /\ (j - 1) % K \in Ring
  BY NextSlot
<1>2. /\ log_buffer \in [Ring -> Entries] /\ call \in [slot : Ring, msg : 0..MAX_LOGS]
      /\ overlapped \in BOOLEAN /\ logged \in Seq(Nat) /\ MAX_LOGS \in Nat /\ log_count = n
      /\ log_count \in 0..MAX_LOGS
  BY Zenon, KlogConstants DEF LogInv, LogTypeOK
<1>3. CASE klog
  <2>1. NextMsg \in 1..MAX_LOGS /\ n + 1 <= NextMsg /\ (call # NoCall => NextMsg = n + 2)
    BY <1>1, <1>2, <1>3 DEF klog, NextMsg
  <2>2. /\ log_buffer' = [log_buffer EXCEPT ![log_head] = Whole(NextMsg)] /\ Advance
        /\ logged' = Append(logged, NextMsg) /\ overlapped' = (overlapped \/ call # NoCall) /\ call' = call
    BY <1>3 DEF klog
  <2>3. Whole(NextMsg) \in Entries
    BY <2>1 DEF Whole
  <2>4. log_buffer' \in [Ring -> Entries] /\ log_buffer'[log_head] = Whole(NextMsg)
        /\ \A i \in Ring : i # log_head => log_buffer'[i] = log_buffer[i]
    BY <1>1, <1>2, <2>2, <2>3
  <2>5. NextMsg \in 0..MAX_LOGS /\ n + 1 <= MAX_LOGS /\ (call' # NoCall => overlapped' /\ n + 2 <= MAX_LOGS)
    <3>1. NextMsg \in 0..MAX_LOGS /\ n + 1 <= MAX_LOGS
      <4> HIDE DEF n
      <4> QED BY <1>1, <1>2, <2>1
    <3>2. call # NoCall => n + 2 <= MAX_LOGS
      BY <2>1
    <3> QED BY Zenon, <2>2, <3>1, <3>2
  <2> HIDE DEF Entries
  <2> QED BY Zenon, <1>2, <2>2, <2>4, <2>5, LogAdds DEF Entries
<1>4. CASE klog_begin
  <2>1. call = NoCall /\ NextMsg = n + 1 /\ NextMsg \in 1..MAX_LOGS
    BY <1>1, <1>2, <1>4 DEF klog_begin, NextMsg
  <2>2. /\ call' = [slot |-> log_head, msg |-> NextMsg]
        /\ log_buffer' = [log_buffer EXCEPT ![log_head].level = NextMsg]
        /\ UNCHANGED <<log_head, log_count, logged, overlapped>>
    BY <1>4 DEF klog_begin
  <2>3. call' # NoCall /\ call' \in [slot : Ring, msg : 0..MAX_LOGS] /\ call'.slot = log_head /\ call'.msg = NextMsg
    BY <1>1, <2>1, <2>2 DEF NoCall
  <2>4. /\ log_buffer' \in [Ring -> Entries] /\ log_buffer'[log_head].level = NextMsg
        /\ \A i \in Ring : i # log_head => log_buffer'[i] = log_buffer[i]
    <3>1. NextMsg \in 0..MAX_LOGS
      BY <2>1
    <3> QED BY Zenon, <1>1, <1>2, <2>2, <3>1
  <2>5. LogTypeOK'
    BY <2>2, <2>3, <2>4 DEF LogInv, LogTypeOK
  <2>6. n + 1 <= MAX_LOGS
    BY <2>1
  <2>7. ~overlapped => \A j \in 1..n : n - j < K - 1 => log_buffer'[(j - 1) % K] = Whole(logged[j])
    <3>1. SUFFICES ASSUME ~overlapped, NEW j \in 1..n, n - j < K - 1
                   PROVE  log_buffer'[(j - 1) % K] = Whole(logged[j])
      OBVIOUS
    <3>2. n - j < K - 0
      BY <1>1, <3>1
    <3>3. log_buffer[(j - 1) % K] = Whole(logged[j])
      BY <2>1, <3>1, <3>2 DEF LogInv
    <3> QED BY <1>1, <2>4, <3>1, <3>3
  <2> QED BY Zenon, <2>2, <2>3, <2>4, <2>5, <2>6, <2>7 DEF LogInv
<1>5. CASE klog_end
  <2>1. call # NoCall /\ n + 1 <= MAX_LOGS
        /\ (~overlapped => call.slot = log_head /\ log_buffer[log_head].level = call.msg)
    BY <1>5 DEF klog_end, LogInv
  <2>2. /\ log_buffer' = [log_buffer EXCEPT ![call.slot].text = call.msg] /\ Advance
        /\ logged' = Append(logged, call.msg) /\ call' = NoCall /\ overlapped' = overlapped
    BY <1>5 DEF klog_end
  <2>3. call.slot \in Ring /\ call.msg \in 0..MAX_LOGS
    BY <1>2
  <2>4. /\ log_buffer' \in [Ring -> Entries]
        /\ ~overlapped => log_buffer'[log_head] = Whole(call.msg)
        /\ ~overlapped => \A i \in Ring : i # log_head => log_buffer'[i] = log_buffer[i]
    <3>1. log_buffer' = [log_buffer EXCEPT ![call.slot] = [@ EXCEPT !.text = call.msg]]
      BY <2>2
    <3>2. \A e \in Entries : [e EXCEPT !.text = call.msg] \in Entries
                             /\ [e EXCEPT !.text = call.msg] = [level |-> e.level, text |-> call.msg]
      BY <2>3
    <3>3. log_buffer' \in [Ring -> Entries]
      BY <1>2, <2>3, <3>1, <3>2
    <3>4. log_buffer'[call.slot] = [level |-> log_buffer[call.slot].level, text |-> call.msg]
      BY <1>2, <2>3, <3>1, <3>2
    <3>5. \A i \in Ring : i # call.slot => log_buffer'[i] = log_buffer[i]
      BY <1>2, <2>2
    <3> QED BY <2>1, <3>3, <3>4, <3>5 DEF Whole
  <2>5. call' \in [slot : Ring, msg : 0..MAX_LOGS] /\ call' = NoCall
    BY <1>1, <1>2, <2>2 DEF NoCall, Ring
  <2> HIDE DEF Entries
  <2> QED BY Zenon, <1>2, <2>1, <2>2, <2>3, <2>4, <2>5, LogAdds DEF Entries
<1>6. CASE klog_clear
  <2>1. /\ log_buffer' = [i \in Ring |-> Blank] /\ log_head' = 0 /\ log_count' = 0 /\ logged' = <<>>
        /\ overlapped' = (call # NoCall) /\ call' = call
    BY <1>6 DEF klog_clear
  <2>2. 0 \in 0..MAX_LOGS /\ 0 \in Ring /\ 0 % K = 0 /\ Blank \in Entries
    <3>1. 0 \in 0 .. K - 1 /\ 0 \in 0..MAX_LOGS
      BY <1>1, <1>2
    <3>2. 0 % K = 0
      BY <1>1, <3>1, ModSmall
    <3> QED BY <3>1, <3>2 DEF Ring, Blank
  <2>3. LogTypeOK'
    BY <1>2, <2>1, <2>2 DEF LogTypeOK
  <2>4. Len(<<>>) = 0 /\ <<>> \in Seq(Nat) /\ 1..0 = {}
    OBVIOUS
  <2>5. call # NoCall => 0 + 1 <= MAX_LOGS
    BY <1>1, <1>2 DEF LogInv
  <2> QED BY Zenon, <2>1, <2>2, <2>3, <2>4, <2>5 DEF LogInv
<1>7. CASE UNCHANGED log
  BY <1>7 DEF log, LogInv, LogTypeOK
<1> QED BY <1>3, <1>4, <1>5, <1>6, <1>7 DEF LogNext

\* What klog_dump shows.
LEMMA DumpIs == LogInv => DumpExact
<1> SUFFICES ASSUME LogInv, call = NoCall, ~overlapped PROVE klog_dump = LastLogged
  BY Zenon DEF DumpExact
<1> DEFINE n == Len(logged)
           K == KLOG_BUFFER_SIZE
           k == current_size
<1>1. n \in Nat /\ K \in Nat /\ K >= 1 /\ log_head = n % K /\ log_count = n
  BY NextSlot DEF LogInv
<1>2. k = (IF n < K THEN n ELSE K) /\ start_pos = (IF n <= K THEN 0 ELSE n % K)
  BY Zenon, <1>1 DEF current_size, start_pos
<1>3. ASSUME NEW j \in 1..n, n - j < K PROVE log_buffer[(j - 1) % K] = Whole(logged[j])
  <2>1. n - j < K - 0
    BY <1>1, <1>3
  <2> QED BY <2>1 DEF LogInv
<1>4. klog_dump = [i \in 1..k |-> log_buffer[(start_pos + (i - 1)) % K]]
  BY DEF klog_dump, klog_get_entry
<1>5. LastLogged = [i \in 1..k |-> Whole(logged[n - k + i])]
  BY <1>2 DEF LastLogged
<1> HIDE DEF n, K, k
<1>6. k \in Nat /\ k <= n /\ k <= K
  BY <1>1, <1>2
<1>7. ASSUME NEW i \in 1..k
      PROVE  log_buffer[(start_pos + (i - 1)) % K] = Whole(logged[n - k + i])
  <2> DEFINE j == n - k + i
  <2>1. j \in 1..n /\ n - j < K
    BY <1>1, <1>6
  <2>2. (start_pos + (i - 1)) % K = (j - 1) % K
    <3>1. CASE n <= K
      <4>1. start_pos + (i - 1) = j - 1
        BY <1>1, <1>2, <3>1
      <4> QED BY <4>1
    <3>2. CASE n > K
      <4> DEFINE d == i - 1
                 a == j - 1
      <4>1. d \in Int /\ a \in Int /\ n \in Int /\ 1 \in Int /\ n + d = a + K * 1
        BY <1>1, <1>2, <3>2
      <4>2. start_pos = n % K
        BY <1>1, <1>2, <3>2
      <4> HIDE DEF a, d, j
      <4>3. ((n % K) + d) % K = (n + d) % K
        BY <1>1, <4>1, ModAdd, Zenon
      <4>4. (a + K * 1) % K = a % K
        BY <1>1, <4>1, ModShift, Zenon
      <4> QED BY <4>1, <4>2, <4>3, <4>4 DEF a, d
    <3> QED BY <1>1, <3>1, <3>2
  <2> HIDE DEF j
  <2>3. log_buffer[(start_pos + (i - 1)) % K] = Whole(logged[j])
    BY <1>3, <2>1, <2>2
  <2> QED BY <2>3 DEF j
<1> QED BY <1>4, <1>5, <1>7

\* flush_buf after each entry of d.
Flush(f, n, d) == f = [i \in 0..n |-> IF i = 0 THEN <<>> ELSE PutEntry(f[i - 1], d[i])]

\* There is such a function.
LEMMA FlushExists ==
  ASSUME NEW d, NEW n \in Nat
  PROVE  \E f : Flush(f, n, d)
<1> DEFINE Bad == {k \in Nat : ~\E f : Flush(f, k, d)}
<1> SUFFICES ASSUME Bad # {} PROVE FALSE
  OBVIOUS
<1>1. PICK k \in Bad : \A y \in Bad : k <= y
  <2>1. Bad \in SUBSET Nat
    OBVIOUS
  <2> HIDE DEF Bad
  <2> QED BY <2>1, Least
<1>2. k # 0
  <2> DEFINE f == [i \in 0..0 |-> <<>>]
  <2>1. Flush(f, 0, d)
    BY DEF Flush
  <2> QED BY <2>1
<1>3. k - 1 \in Nat /\ k - 1 \notin Bad /\ k \in Nat
  BY <1>1, <1>2
<1>4. PICK f : Flush(f, k - 1, d)
  BY Zenon, <1>3
<1> DEFINE g == [i \in 0..k |-> IF i = k THEN PutEntry(f[k - 1], d[k]) ELSE f[i]]
<1>5. ASSUME NEW i \in 0..k
      PROVE  g[i] = IF i = 0 THEN <<>> ELSE PutEntry(g[i - 1], d[i])
  <2>1. CASE i = k
    <3>1. k - 1 \in 0..k /\ k - 1 # k
      BY <1>3
    <3> QED BY <1>2, <2>1, <3>1
  <2>2. CASE i # k
    <3>1. i \in 0 .. k - 1 /\ (i # 0 => i - 1 \in 0..k /\ i - 1 # k)
      BY <1>3, <2>2
    <3>2. f[i] = IF i = 0 THEN <<>> ELSE PutEntry(f[i - 1], d[i])
      BY <1>4, <3>1 DEF Flush
    <3> QED BY <2>2, <3>1, <3>2
  <2> QED BY Zenon, <2>1, <2>2
<1>6. g = [i \in 0..k |-> g[i]]
  OBVIOUS
<1> HIDE DEF g
<1>7. Flush(g, k, d)
  BY Zenon, <1>5, <1>6 DEF Flush
<1> QED BY <1>1, <1>7

\* klog_flush_to_file writes what the last entry leaves.
LEMMA FlushedIs ==
  ASSUME current_size \in Nat
  PROVE  \E f : Flush(f, current_size, klog_dump) /\ klog_flush_to_file = f[current_size]
<1> DEFINE f == CHOOSE g : g = [i \in 0..current_size |->
                                  IF i = 0 THEN <<>> ELSE PutEntry(g[i - 1], klog_dump[i])]
<1>1. Flush(f, current_size, klog_dump)
  BY Zenon, FlushExists DEF Flush
<1>2. klog_flush_to_file = f[current_size]
  BY DEF klog_flush_to_file
<1> QED BY Zenon, <1>1, <1>2

\* An entry is put in the buffer: never beyond it, and whole if there is room.
LEMMA EntryPut ==
  ASSUME NEW b \in Seq(Nat \X Nat), NEW e, e.text \in Nat, Len(b) <= FLUSH_BUF_SIZE - 1
  PROVE  /\ PutEntry(b, e) \in Seq(Nat \X Nat) /\ Len(PutEntry(b, e)) <= FLUSH_BUF_SIZE - 1
         /\ Len(b) + LINE + 1 <= FLUSH_BUF_SIZE - 1 =>
              PutEntry(b, e) = Append(b \o EntryLine(e), NEWLINE)
<1> DEFINE F == FLUSH_BUF_SIZE
           l == EntryLine(e)
           room == F - 2 - Len(b)
           m == IF Len(l) < room THEN Len(l) ELSE room
           c == SubSeq(l, 1, m)
           p == b \o c
<1>1. F \in Nat /\ F > 2 /\ LINE \in Nat /\ LINE >= 1 /\ Len(b) \in Nat
  BY KlogConstants
<1>2. l \in Seq(Nat \X Nat) /\ Len(l) = LINE
  BY <1>1 DEF EntryLine
<1>3. NEWLINE \in Nat \X Nat
  BY DEF NEWLINE
<1>4. CASE ~(Len(b) < F - 2)
  BY <1>1, <1>4 DEF PutEntry
<1>5. CASE Len(b) < F - 2
  <2>1. m \in Nat /\ m <= LINE /\ m <= room /\ (LINE <= room => m = LINE)
    <3> HIDE DEF l
    <3>1. room \in Int /\ room >= 1
      BY <1>1, <1>5
    <3> HIDE DEF room
    <3> QED BY <1>1, <1>2, <3>1
  <2>2. PutEntry(b, e) = IF Len(p) < F - 1 THEN Append(p, NEWLINE) ELSE p
    BY Zenon, <1>5 DEF PutEntry, PutChars, PutNewline
  <2> HIDE DEF m, l
  <2>3. c \in Seq(Nat \X Nat) /\ Len(c) = m
    <3>1. m <= Len(l)
      BY <1>2, <2>1
    <3> QED BY <1>2, <2>1, <3>1, PrefixIs
  <2>4. m = LINE => c = l
    BY <1>2, PrefixIs
  <2> HIDE DEF c
  <2>5. p \in Seq(Nat \X Nat) /\ Len(p) = Len(b) + m
    BY <2>3, ConcatIs, Zenon
  <2>6. Len(p) <= F - 2
    BY <1>1, <2>1, <2>5
  <2>7. Append(p, NEWLINE) \in Seq(Nat \X Nat) /\ Len(Append(p, NEWLINE)) = Len(p) + 1
    BY <1>3, <2>5
  <2>8. PutEntry(b, e) = Append(p, NEWLINE)
    BY <1>1, <2>2, <2>5, <2>6
  <2>9. Len(b) + LINE + 1 <= F - 1 => m = LINE
    BY <1>1, <2>1
  <2> HIDE DEF p
  <2>10. PutEntry(b, e) \in Seq(Nat \X Nat) /\ Len(PutEntry(b, e)) <= F - 1
    BY <1>1, <2>1, <2>5, <2>6, <2>7, <2>8
  <2> QED BY <2>4, <2>8, <2>9, <2>10 DEF p, l
<1>6. ~(Len(b) < F - 2) => ~(Len(b) + LINE + 1 <= F - 1)
  BY <1>1
<1> QED BY Zenon, <1>1, <1>4, <1>5, <1>6

\* The text of one entry more.
LEMMA TextGrows ==
  ASSUME NEW i \in Nat, i >= 1, \A j \in 1..i : klog_dump[j].text \in Nat
  PROVE  /\ i * (LINE + 1) = (i - 1) * (LINE + 1) + LINE + 1
         /\ LogText(i - 1) \in Seq(Nat \X Nat) /\ Len(LogText(i - 1)) = (i - 1) * (LINE + 1)
         /\ LogText(i) = Append(LogText(i - 1) \o EntryLine(klog_dump[i]), NEWLINE)
<1> DEFINE L == LINE + 1
           w == (i - 1) * L
           At(p) == LET e == klog_dump[((p - 1) \div L) + 1]
                        k == ((p - 1) % L) + 1
                    IN IF k <= LINE THEN EntryLine(e)[k] ELSE NEWLINE
           t == LogText(i - 1)
           l == EntryLine(klog_dump[i])
<1>1. LINE \in Nat /\ LINE >= 1 /\ L \in Nat /\ L >= 1 /\ L = LINE + 1
  BY KlogConstants
<1>2. w \in Nat /\ i * L = w + L
  <2> HIDE DEF L
  <2>1. i * L = w + L /\ w \in Int
    BY <1>1
  <2>2. L * 0 <= L * (i - 1) /\ L * 0 = 0 /\ L * (i - 1) = w
    BY <1>1, TimesMonotone
  <2> QED BY <2>1, <2>2
<1>3. LogText(i) = [p \in 1 .. w + L |-> At(p)] /\ t = [p \in 1..w |-> At(p)]
  BY Zenon, <1>2 DEF LogText
<1> HIDE DEF L, w
<1>4. ASSUME NEW q \in 0 .. i - 1, NEW r \in 1..L
      PROVE  At(q * L + r) = IF r <= LINE THEN <<klog_dump[q + 1].text, r>> ELSE NEWLINE
  <2> DEFINE x == (q * L + r) - 1
             y == r - 1
  <2>1. x \in Int /\ y \in 0 .. L - 1 /\ q \in Int /\ x = L * q + y
    BY <1>1
  <2> HIDE DEF x, y
  <2>2. x \div L = q /\ x % L = y
    BY <1>1, <2>1, DivMod
  <2>3. y + 1 = r
    BY <1>1 DEF y
  <2>4. r <= LINE => r \in 1..LINE
    BY <1>1
  <2>5. At(q * L + r) = IF r <= LINE THEN EntryLine(klog_dump[q + 1])[r] ELSE NEWLINE
    <3> DEFINE z == q * L + r
    <3>1. z - 1 = x
      BY Zenon DEF x
    <3> HIDE DEF z
    <3>2. At(z) = IF r <= LINE THEN EntryLine(klog_dump[q + 1])[r] ELSE NEWLINE
      BY <2>2, <2>3, <3>1
    <3> QED BY <3>2 DEF z
  <2> QED BY <2>4, <2>5 DEF EntryLine
<1>5. ASSUME NEW p \in 1 .. w + L
      PROVE  \E q \in 0 .. i - 1, r \in 1..L : p = q * L + r
  <2> DEFINE x == p - 1
             q == x \div L
             y == x % L
  <2>1. x \in Int /\ 0 <= x /\ x < w + L
    BY <1>1, <1>2
  <2>2. q \in Int /\ y \in 0 .. L - 1 /\ x = L * q + y
    BY Zenon, <1>1, <2>1, DivMod
  <2> HIDE DEF x, q, y
  <2>3. q >= 0
    <3>1. SUFFICES ASSUME q <= -1 PROVE FALSE
      BY <2>2
    <3>2. L * q <= L * (-1) /\ L * (-1) = -L /\ L * q \in Int
      BY <1>1, <2>2, <3>1, TimesMonotone
    <3> QED BY <1>1, <2>1, <2>2, <3>2
  <2>4. q <= i - 1
    <3>1. SUFFICES ASSUME i <= q PROVE FALSE
      BY <2>2
    <3>2. L * i <= L * q /\ L * i = i * L /\ L * q \in Int
      BY <1>1, <2>2, <3>1, TimesMonotone
    <3> QED BY <1>1, <1>2, <2>1, <2>2, <3>2
  <2>5. p = q * L + (y + 1) /\ y + 1 \in 1..L
    <3>1. L * q = q * L /\ q * L \in Int
      BY <1>1, <2>2
    <3> QED BY <1>1, <2>1, <2>2, <3>1 DEF x
  <2> QED BY <2>2, <2>3, <2>4, <2>5
<1>6. ASSUME NEW p \in 1 .. w + L PROVE At(p) \in Nat \X Nat
  <2>1. PICK q \in 0 .. i - 1, r \in 1..L : p = q * L + r
    BY <1>5
  <2>2. klog_dump[q + 1].text \in Nat /\ r \in Nat
    BY <1>1
  <2>3. At(p) = IF r <= LINE THEN <<klog_dump[q + 1].text, r>> ELSE NEWLINE
    BY <1>4, <2>1
  <2> HIDE DEF At
  <2> QED BY <2>2, <2>3 DEF NEWLINE
<1> HIDE DEF At
<1>7. t \in Seq(Nat \X Nat) /\ Len(t) = w
  <2>1. \A p \in 1..w : At(p) \in Nat \X Nat
    BY <1>1, <1>2, <1>6
  <2> QED BY <1>2, <1>3, <2>1
<1>8. l \in Seq(Nat \X Nat) /\ Len(l) = LINE /\ \A r \in 1..LINE : l[r] = <<klog_dump[i].text, r>>
  BY <1>1 DEF EntryLine
<1>9. NEWLINE \in Nat \X Nat
  BY Zenon DEF NEWLINE
<1> DEFINE u == Append(t \o l, NEWLINE)
<1> HIDE DEF t, l
<1>10. /\ u \in Seq(Nat \X Nat) /\ Len(u) = w + L
       /\ \A p \in 1..w : u[p] = t[p]
       /\ \A r \in 1..LINE : u[w + r] = l[r]
       /\ u[w + L] = NEWLINE
  <2> DEFINE v == t \o l
  <2>1. /\ v \in Seq(Nat \X Nat) /\ Len(v) = w + LINE
        /\ (\A j \in 1..w : v[j] = t[j]) /\ (\A j \in 1..LINE : v[w + j] = l[j])
    <3>1. v \in Seq(Nat \X Nat) /\ Len(v) = Len(t) + Len(l)
      BY <1>7, <1>8, ConcatIs, Zenon
    <3>2. \A j \in 1..Len(t) : v[j] = t[j]
      BY <1>7, <1>8, ConcatIs, Zenon
    <3>3. \A j \in 1..Len(l) : v[Len(t) + j] = l[j]
      BY <1>7, <1>8, ConcatIs
    <3> QED BY Zenon, <1>7, <1>8, <3>1, <3>2, <3>3
  <2> HIDE DEF v
  <2>2. /\ u \in Seq(Nat \X Nat) /\ Len(u) = w + LINE + 1
        /\ \A j \in 1 .. w + LINE : u[j] = v[j]
        /\ u[w + LINE + 1] = NEWLINE
    <3>1. u = Append(v, NEWLINE)
      BY Zenon DEF v
    <3> HIDE DEF u
    <3>2. /\ u \in Seq(Nat \X Nat) /\ Len(u) = Len(v) + 1
          /\ \A j \in 1 .. Len(v) : u[j] = v[j]
          /\ u[Len(v) + 1] = NEWLINE
      BY <1>9, <2>1, <3>1, AppendIs
    <3> QED BY <2>1, <3>2
  <2> HIDE DEF u
  <2>3. ASSUME NEW j \in 1..w PROVE u[j] = t[j]
    <3>1. j \in 1 .. w + LINE
      BY <1>1, <1>2
    <3> QED BY <2>1, <2>2, <3>1
  <2>4. ASSUME NEW r \in 1..LINE PROVE u[w + r] = l[r]
    <3>1. w + r \in 1 .. w + LINE
      BY <1>1, <1>2
    <3> QED BY <2>1, <2>2, <3>1
  <2>5. w + L = w + LINE + 1
    BY <1>1, <1>2
  <2> QED BY Zenon, <2>2, <2>3, <2>4, <2>5
<1> HIDE DEF u
<1>11. ASSUME NEW p \in 1 .. w + L PROVE u[p] = At(p)
  <2>1. CASE p <= w
    <3>1. p \in 1..w
      BY <1>1, <1>2, <2>1
    <3> QED BY <1>3, <1>10, <3>1
  <2>2. CASE ~(p <= w)
    <3> DEFINE r == p - w
    <3>1. r \in 1..L /\ p = w + r /\ i - 1 \in 0 .. i - 1 /\ (i - 1) + 1 = i
      BY <1>1, <1>2, <2>2
    <3> HIDE DEF r
    <3>2. At(p) = IF r <= LINE THEN <<klog_dump[i].text, r>> ELSE NEWLINE
      BY Zenon, <1>4, <3>1 DEF w
    <3>3. CASE r <= LINE
      <4>1. r \in 1..LINE
        BY <1>1, <3>1, <3>3
      <4> QED BY Zenon, <1>8, <1>10, <3>1, <3>2, <3>3, <4>1
    <3>4. CASE ~(r <= LINE)
      <4>1. r = L
        BY <1>1, <3>1, <3>4
      <4> QED BY <1>10, <3>1, <3>2, <3>4, <4>1
    <3> QED BY <3>3, <3>4
  <2> QED BY Zenon, <2>1, <2>2
<1>12. u = LogText(i)
  <2>1. u = [p \in 1 .. w + L |-> u[p]]
    BY <1>10
  <2>2. [p \in 1 .. w + L |-> u[p]] = [p \in 1 .. w + L |-> At(p)]
    BY <1>11, Zenon
  <2> QED BY <1>3, <2>1, <2>2, Zenon
<1>13. i * L = w + LINE + 1
  BY <1>1, <1>2
<1> QED BY <1>7, <1>12, <1>13, Zenon DEF u, t, l, w, L

\* The log fits the buffer and is saved complete, or is cut off inside it.
LEMMA FlushIs == LogInv => FlushFits
<1> SUFFICES ASSUME LogInv PROVE FlushFits
  OBVIOUS
<1> DEFINE n == current_size
           d == klog_dump
<1>1. n \in Nat /\ KLOG_BUFFER_SIZE \in Nat /\ LINE \in Nat /\ FLUSH_BUF_SIZE \in Nat /\ FLUSH_BUF_SIZE > 2
  BY KlogConstants DEF LogInv, LogTypeOK, current_size
<1>2. \A j \in 1..n : d[j].text \in Nat
  <2> SUFFICES ASSUME NEW j \in 1..n PROVE d[j].text \in Nat
    OBVIOUS
  <2> DEFINE s == (start_pos + (j - 1)) % KLOG_BUFFER_SIZE
  <2>1. start_pos + (j - 1) \in Int
    BY SMTT(20), <1>1, KlogConstants DEF LogInv, LogTypeOK, start_pos, Ring
  <2>2. s \in Ring
    <3>1. KLOG_BUFFER_SIZE \in Nat /\ KLOG_BUFFER_SIZE >= 1
      BY KlogConstants
    <3>2. s \in 0 .. KLOG_BUFFER_SIZE - 1
      BY <2>1, <3>1, DivMod, Zenon
    <3> QED BY <3>2 DEF Ring
  <2>3. d[j] = log_buffer[s]
    BY DEF klog_dump, klog_get_entry
  <2> HIDE DEF s
  <2>4. log_buffer[s].text \in 0..MAX_LOGS
    BY <2>2 DEF LogInv, LogTypeOK
  <2> QED BY <2>3, <2>4, KlogConstants
<1>3. PICK f : Flush(f, n, d) /\ klog_flush_to_file = f[n]
  BY <1>1, FlushedIs
<1> HIDE DEF n, d
<1> DEFINE Fits(i) == /\ f[i] \in Seq(Nat \X Nat) /\ Len(f[i]) <= FLUSH_BUF_SIZE - 1
                      /\ i * (LINE + 1) <= FLUSH_BUF_SIZE - 1 => f[i] = LogText(i)
           Bad == {i \in Nat : i <= n /\ ~Fits(i)}
<1>4. Bad = {}
  <2> SUFFICES ASSUME Bad # {} PROVE FALSE
    OBVIOUS
  <2>1. PICK i \in Bad : \A j \in Bad : i <= j
    BY Zenon, Least
  <2>2. i \in Nat /\ i <= n /\ ~Fits(i)
    OBVIOUS
  <2>3. i # 0
    <3> SUFFICES ASSUME i = 0 PROVE FALSE
      OBVIOUS
    <3>1. f[0] = <<>>
      BY <1>1, <1>3 DEF Flush
    <3>2. LogText(0) = <<>>
      <4>1. 0 * (LINE + 1) = 0
        BY <1>1
      <4> QED BY <4>1 DEF LogText
    <3>3. Fits(0)
      BY <1>1, <3>1, <3>2
    <3> QED BY <2>2, <3>3
  <2> DEFINE k == i - 1
             b == f[k]
             e == d[i]
  <2>4. k \in Nat /\ k <= n /\ k < i /\ i \in 1..n /\ i \in 0..n /\ i >= 1
    BY <1>1, <2>2, <2>3
  <2> HIDE DEF Fits
  <2>5. Fits(k)
    <3> SUFFICES ASSUME ~Fits(k) PROVE FALSE
      OBVIOUS
    <3>1. k \in Bad
      BY <2>4
    <3> HIDE DEF k, Bad
    <3> QED BY <2>1, <2>2, <2>4, <3>1
  <2>6. f[i] = PutEntry(b, e)
    BY Zenon, <1>3, <2>3, <2>4 DEF Flush
  <2>7. /\ i * (LINE + 1) = k * (LINE + 1) + LINE + 1
        /\ LogText(k) \in Seq(Nat \X Nat) /\ Len(LogText(k)) = k * (LINE + 1)
        /\ LogText(i) = Append(LogText(k) \o EntryLine(e), NEWLINE)
    <3>1. \A j \in 1..i : klog_dump[j].text \in Nat
      BY <1>1, <1>2, <2>4 DEF d
    <3> QED BY <2>4, <3>1, TextGrows DEF d
  <2>8. b \in Seq(Nat \X Nat) /\ Len(b) <= FLUSH_BUF_SIZE - 1 /\ e.text \in Nat
    BY Zenon, <1>2, <2>4, <2>5 DEF Fits
  <2> DEFINE q == PutEntry(b, e)
  <2>9. /\ q \in Seq(Nat \X Nat) /\ Len(q) <= FLUSH_BUF_SIZE - 1
        /\ Len(b) + LINE + 1 <= FLUSH_BUF_SIZE - 1 => q = Append(b \o EntryLine(e), NEWLINE)
    BY Zenon, <2>8, EntryPut
  <2>10. k * (LINE + 1) <= FLUSH_BUF_SIZE - 1 => b = LogText(k)
    BY <2>5 DEF Fits
  <2> DEFINE w == k * (LINE + 1)
             v == i * (LINE + 1)
  <2>11. w \in Nat /\ v = w + LINE + 1
    BY <2>7
  <2> HIDE DEF w, v, q, b, e, k
  <2>12. ASSUME v <= FLUSH_BUF_SIZE - 1 PROVE q = LogText(i)
    <3>1. w <= FLUSH_BUF_SIZE - 1
      BY <1>1, <2>11, <2>12
    <3>2. b = LogText(k)
      BY <2>10, <3>1 DEF w
    <3>3. Len(b) = w
      BY <2>7, <3>2 DEF w
    <3>4. Len(b) + LINE + 1 <= FLUSH_BUF_SIZE - 1
      BY Zenon, <2>11, <2>12, <3>3
    <3> QED BY Zenon, <2>7, <2>9, <3>2, <3>4
  <2>13. Fits(i)
    BY <2>6, <2>9, <2>12 DEF Fits, q, v
  <2> QED BY <2>2, <2>13
<1> HIDE DEF Fits
<1>5. n \in Nat /\ n <= n
  BY <1>1
<1>6. Fits(n)
  BY <1>4, <1>5
<1> QED BY <1>3, <1>6 DEF FlushFits, Fits, n

\* An empty log is in order.
LEMMA LogStart == klog_init => LogInv
<1> SUFFICES ASSUME klog_init PROVE LogInv
  OBVIOUS
<1>1. KLOG_BUFFER_SIZE \in Nat /\ KLOG_BUFFER_SIZE >= 1 /\ MAX_LOGS \in Nat
  BY KlogConstants
<1>2. 0 \in 0 .. KLOG_BUFFER_SIZE - 1 /\ 0 \in 0..MAX_LOGS
  BY <1>1
<1>3. LogTypeOK
  BY <1>2 DEF klog_init, LogTypeOK, Ring, Blank, NoCall
<1>4. 0 % KLOG_BUFFER_SIZE = 0
  BY <1>1, <1>2, ModSmall
<1>5. logged = <<>> /\ Len(logged) = 0 /\ log_count = 0 /\ log_head = 0 /\ call = NoCall /\ overlapped = FALSE
  BY DEF klog_init
<1>6. logged \in Seq(Nat) /\ \A j \in 1..Len(logged) : FALSE
  BY <1>5
<1> QED BY Zenon, <1>3, <1>4, <1>5, <1>6 DEF LogInv

\* However klog is called, klog_dump shows the last messages whole and in order
\* unless two calls overlapped, and klog_flush_to_file saves what fits.
THEOREM LogStaysExact == LogSpec => []LogExact
<1>1. LogInv => LogExact
  BY DumpIs, FlushIs DEF LogInv, LogExact
<1> QED BY <1>1, LogStart, LogStep, PTL DEF LogSpec
===============================================================================
