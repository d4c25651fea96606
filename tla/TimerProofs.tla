----------------------------- MODULE TimerProofs ------------------------------
(***************************************************************************)
(* Nested interrupt handlers that switch tasks, for any tasks and lines.   *)
(*                                                                         *)
(* What the code keeps true at every step, not only with interrupts on:    *)
(* the flag is on exactly where the current task runs outside a handler or *)
(* in one that enabled it, and a line is in service only between its       *)
(* delivery and the EOI at the top of the same stack.                      *)
(*                                                                         *)
(* SYS_SLEEP, for any number of tasks, slice, tick and counter that wraps. *)
(* The time slept is tied to the ticks read, up to the phase at which the  *)
(* sleep began; once the ticks are over, it is tied to the switches that   *)
(* are left until the ring comes to the task.                              *)
(***************************************************************************)
EXTENDS Interrupts, Sleep, TLAPS

Frames == [irq : 0..15, pc : {"eoi", "handler", "open", "switched", "yield"}]

InService(q) ==
  master_isr = {MasterLine(q)} /\ slave_isr = IF q >= 8 THEN {q} ELSE {}

HandlersInv ==
  /\ TypeOK
  /\ stk \in [Tasks -> Seq(Frames)]
  /\ IF_ => /\ master_isr = {} /\ slave_isr = {}
            /\ stk[current] # <<>> => Top.pc = "open"
  /\ ~IF_ => /\ stk[current] # <<>> /\ Top.pc # "open"
             /\ Top.pc = "eoi" => InService(Top.irq)
             /\ Top.pc # "eoi" => master_isr = {} /\ slave_isr = {}

\* The frames of a stack after the operations on its top.
LEMMA Push ==
  ASSUME NEW s \in Seq(Frames), NEW f \in Frames
  PROVE  /\ Append(s, f) \in Seq(Frames) /\ Append(s, f) # <<>>
         /\ Len(Append(s, f)) = Len(s) + 1
         /\ \A k \in 1..Len(s) : Append(s, f)[k] = s[k]
         /\ TopFrame(Append(s, f)) = f
BY DEF TopFrame

\* The stack without its top.
LEMMA PopTop ==
  ASSUME NEW s \in Seq(Frames), s # <<>>
  PROVE  /\ Below(s) \in Seq(Frames)
         /\ Len(Below(s)) = Len(s) - 1
         /\ \A k \in 1 .. Len(s) - 1 : Below(s)[k] = s[k]
         /\ Below(s) # <<>> => Len(s) - 1 \in 1 .. Len(s) - 1 /\ TopFrame(Below(s)) = s[Len(s) - 1]
<1> DEFINE m == Len(s) - 1
           q == SubSeq(s, 1, m)
<1>1. m \in Nat /\ m <= Len(s)
  OBVIOUS
<1>2. Below(s) = q
  BY DEF Below
<1> HIDE DEF m
<1>3. q \in Seq(Frames) /\ Len(q) = m /\ \A i \in 1..m : q[i] = s[i]
  BY <1>1
<1> HIDE DEF q
<1>4. q # <<>> => m \in 1..m /\ TopFrame(q) = s[m]
  BY <1>1, <1>3 DEF TopFrame
<1> QED BY <1>2, <1>3, <1>4 DEF m

WithTop(s, p) == [s EXCEPT ![Len(s)].pc = p]

\* The stack with its top moved on.
LEMMA MoveTop ==
  ASSUME NEW s \in Seq(Frames), s # <<>>,
         NEW p \in {"eoi", "handler", "open", "switched", "yield"}
  PROVE  /\ WithTop(s, p) \in Seq(Frames) /\ WithTop(s, p) # <<>>
         /\ Len(WithTop(s, p)) = Len(s)
         /\ \A k \in 1 .. Len(s) - 1 : WithTop(s, p)[k] = s[k]
         /\ TopFrame(WithTop(s, p)).pc = p
<1>1. Len(s) \in 1..Len(s) /\ s[Len(s)] \in Frames
  OBVIOUS
<1>2. [s[Len(s)] EXCEPT !.pc = p] \in Frames
  BY Zenon, <1>1 DEF Frames
<1> QED BY <1>1, <1>2 DEF TopFrame, Frames, WithTop

\* The EOI takes the only line in service out of service.
LEMMA EndsTheOnlyLine ==
  ASSUME NEW x \in Int
  PROVE  Eoi({x}) = {} /\ Eoi({}) = {}
<1>1. Min({x}) = x
  BY DEF Min
<1> QED BY <1>1 DEF Eoi

\* The facts of the invariant about a stack, with the current one.
LEMMA Stacks ==
  ASSUME HandlersInv
  PROVE  /\ current \in Tasks /\ \A t \in Tasks : stk[t] \in Seq(Frames)
         /\ stk[current] # <<>> => Top \in Frames
BY DEF HandlersInv, TypeOK, Top, TopFrame

\* At first no handler runs and no line is in service.
LEMMA HandlersInit == Init => HandlersInv
<1> SUFFICES ASSUME Init PROVE HandlersInv
  OBVIOUS
<1>1. \A t \in Tasks : stk[t] = IF t = Boot THEN <<>> ELSE <<Frame(0, "yield")>>
  BY DEF Init
<1>2. Frame(0, "yield") \in Frames
  BY DEF Frame, Frames
<1>3. stk \in [Tasks -> Seq(Frames)]
  BY <1>1, <1>2 DEF Init
<1>4. TypeOK
  BY <1>1, InterruptsConstants DEF Init, TypeOK, TopFrame, Frame, Suspended
<1> QED BY <1>1, <1>3, <1>4, InterruptsConstants DEF Init, HandlersInv, Top

\* A step after which the current stack has a top at p, over frames that were open.
TopNow(p) ==
  /\ stk' \in [Tasks -> Seq(Frames)] /\ stk'[current] # <<>>
  /\ \A k \in 1 .. Len(stk'[current]) - 1 : stk'[current][k].pc = "open"
  /\ TopFrame(stk'[current]).pc = p
  /\ \A t \in Tasks \ {current} : stk'[t] = stk[t]

\* Every delivery, handler step and task switch keeps HandlersInv.
LEMMA HandlersStep == HandlersInv /\ [Next]_vars => HandlersInv'
<1> SUFFICES ASSUME HandlersInv, [Next]_vars PROVE HandlersInv'
  OBVIOUS
<1> DEFINE n == Len(stk[current])
<1>0. /\ current \in Tasks /\ \A t \in Tasks : stk[t] \in Seq(Frames)
      /\ stk[current] # <<>> => Top \in Frames /\ Top = stk[current][n]
  BY Stacks DEF Top, TopFrame
<1>1. ASSUME NEW q \in Irqs, raise(q) PROVE HandlersInv'
  BY <1>1 DEF raise, HandlersInv, TypeOK, Top, InService, Suspended
<1>2. ASSUME NEW q \in Irqs, deliver(q) PROVE HandlersInv'
  <2>1. q \in 0..15 /\ Frame(q, "eoi") \in Frames /\ MasterLine(q) \in 0..7
    BY InterruptsConstants DEF Frame, Frames, MasterLine, CASCADE
  <2>2. /\ stk'[current] = Append(stk[current], Frame(q, "eoi"))
        /\ \A t \in Tasks \ {current} : stk'[t] = stk[t]
        /\ stk' \in [Tasks -> Seq(Frames)] /\ current' = current
    BY <1>0, <1>2, <2>1, Push DEF deliver, HandlersInv
  <2>3. TopFrame(stk'[current]) = Frame(q, "eoi") /\ stk'[current] # <<>>
    BY <1>0, <2>1, <2>2, Push
  <2>4. \A k \in 1 .. Len(stk'[current]) - 1 : stk'[current][k].pc = "open"
    <3> SUFFICES ASSUME NEW k \in 1..n PROVE stk[current][k].pc = "open"
      BY <1>0, <2>1, <2>2, Push
    <3> QED BY <1>0, <1>2 DEF deliver, HandlersInv, TypeOK, Top
  <2>5. TypeOK'
    <3>1. ASSUME NEW t \in Tasks, t # current
          PROVE  /\ \A k \in 1 .. Len(stk'[t]) - 1 : stk'[t][k].pc = "open"
                 /\ stk'[t] # <<>> /\ TopFrame(stk'[t]).pc \in Suspended
      BY <2>2, <3>1 DEF HandlersInv, TypeOK
    <3>2. irr' \subseteq Irqs /\ master_isr' \subseteq 0..7
      BY Zenon, <1>2, <2>1 DEF deliver, HandlersInv, TypeOK
    <3>3. slave_isr' \subseteq 8..15
      <4>1. q >= 8 => q \in 8..15
        BY <2>1
      <4> QED BY Zenon, <1>2, <4>1 DEF deliver, HandlersInv, TypeOK
    <3> QED BY Zenon, <1>0, <1>2, <2>2, <2>4, <3>1, <3>2, <3>3 DEF deliver, TypeOK
  <2>6. InService(q)'
    BY Zenon, <1>2 DEF deliver, HandlersInv, InService
  <2> QED BY <1>2, <2>2, <2>3, <2>5, <2>6 DEF deliver, HandlersInv, Top, Frame
\* The top of the current stack moves on or goes away.
<1>3. ASSUME NEW p \in {"eoi", "handler", "open", "switched", "yield"},
             stk[current] # <<>>, stk' = SetTop(p)
      PROVE  TopNow(p)
  <2> DEFINE s == stk[current]
             r == WithTop(s, p)
  <2>1. s \in Seq(Frames) /\ s # <<>>
    BY <1>0, <1>3
  <2> HIDE DEF s
  <2>2. /\ r \in Seq(Frames) /\ r # <<>> /\ Len(r) = Len(s)
        /\ \A k \in 1 .. Len(s) - 1 : r[k] = s[k]
        /\ TopFrame(r).pc = p
    BY <2>1, MoveTop
  <2>3. stk' = [stk EXCEPT ![current] = r]
    BY <1>3 DEF SetTop, WithTop, s
  <2> HIDE DEF r
  <2>4. /\ stk' \in [Tasks -> Seq(Frames)] /\ stk'[current] = r
        /\ \A t \in Tasks \ {current} : stk'[t] = stk[t]
    BY <1>0, <2>2, <2>3 DEF HandlersInv
  <2>5. \A k \in 1 .. Len(s) - 1 : s[k].pc = "open"
    BY <1>0 DEF HandlersInv, TypeOK, s
  <2> QED BY <2>2, <2>4, <2>5 DEF TopNow
<1>4. ASSUME stk[current] # <<>>, stk' = Pop
      PROVE  /\ stk' \in [Tasks -> Seq(Frames)]
             /\ \A k \in 1 .. Len(stk'[current]) - 1 : stk'[current][k].pc = "open"
             /\ stk'[current] # <<>> => TopFrame(stk'[current]).pc = "open"
             /\ \A t \in Tasks \ {current} : stk'[t] = stk[t]
  <2> DEFINE s == stk[current]
             r == Below(s)
  <2>1. s \in Seq(Frames) /\ s # <<>> /\ \A k \in 1 .. Len(s) - 1 : s[k].pc = "open"
    BY <1>0, <1>4 DEF HandlersInv, TypeOK
  <2> HIDE DEF s
  <2>2. /\ r \in Seq(Frames) /\ Len(r) = Len(s) - 1
        /\ \A k \in 1 .. Len(s) - 1 : r[k] = s[k]
        /\ r # <<>> => Len(s) - 1 \in 1 .. Len(s) - 1 /\ TopFrame(r) = s[Len(s) - 1]
    BY <2>1, PopTop
  <2>3. stk' = [stk EXCEPT ![current] = r]
    BY <1>4 DEF Pop, s
  <2> HIDE DEF r
  <2>4. /\ stk' \in [Tasks -> Seq(Frames)] /\ stk'[current] = r
        /\ \A t \in Tasks \ {current} : stk'[t] = stk[t]
    BY <1>0, <2>2, <2>3 DEF HandlersInv
  <2>5. \A k \in 1 .. Len(r) - 1 : r[k].pc = "open"
    BY <2>1, <2>2
  <2> QED BY <2>1, <2>2, <2>4, <2>5
\* The current task goes on, with nothing in service.
<1>a. ASSUME current' = current, irr' = irr, IF_' \in BOOLEAN, master_isr' = {}, slave_isr' = {},
             \A k \in 1 .. Len(stk'[current]) - 1 : stk'[current][k].pc = "open",
             \A t \in Tasks \ {current} : stk'[t] = stk[t]
      PROVE  TypeOK'
  <2>1. ASSUME NEW t \in Tasks, t # current
        PROVE  /\ \A k \in 1 .. Len(stk'[t]) - 1 : stk'[t][k].pc = "open"
               /\ stk'[t] # <<>> /\ TopFrame(stk'[t]).pc \in Suspended
    <3>1. stk'[t] = stk[t]
      BY <1>a, <2>1
    <3> QED BY <2>1, <3>1 DEF HandlersInv, TypeOK
  <2>2. irr' \subseteq Irqs /\ current' \in Tasks
    BY <1>a DEF HandlersInv, TypeOK
  <2> QED BY <1>a, <2>1, <2>2 DEF TypeOK
<1>5. CASE irq_handler
  <2>1. TopNow("handler")
    BY <1>3, <1>5 DEF irq_handler, AtTop
  <2>2. ~IF_ /\ InService(Top.irq) /\ Top.irq \in 0..15
    BY <1>0, <1>5 DEF irq_handler, AtTop, HandlersInv, Frames
  <2>3. master_isr' = {} /\ slave_isr' = {}
    BY <1>5, <2>2, EndsTheOnlyLine DEF irq_handler, pic_send_eoi, InService, MasterLine, CASCADE
  <2>4. current' = current /\ irr' = irr /\ IF_' = FALSE
    BY <1>5, <2>2 DEF irq_handler, HandlersInv, TypeOK
  <2>5. TypeOK'
    BY Zenon, <1>a, <2>1, <2>3, <2>4 DEF TopNow
  <2> QED BY <2>1, <2>3, <2>4, <2>5 DEF TopNow, HandlersInv, Top
<1>6. CASE iret
  <2>1. master_isr = {} /\ slave_isr = {}
    BY <1>6 DEF iret, AtTop, HandlersInv, TypeOK
  <2>2. /\ current' = current /\ irr' = irr /\ IF_' = TRUE /\ master_isr' = {} /\ slave_isr' = {}
        /\ stk[current] # <<>> /\ stk' = Pop
    BY <1>6, <2>1 DEF iret, AtTop, pic
  <2>3. TypeOK'
    BY <1>4, <1>a, <2>2
  <2> QED BY <1>4, <2>2, <2>3 DEF HandlersInv, Top
<1>7. CASE resume
  <2>1. master_isr = {} /\ slave_isr = {}
    BY <1>7 DEF resume, AtTop, Suspended, HandlersInv, TypeOK
  <2>2. /\ current' = current /\ irr' = irr /\ IF_' = TRUE /\ master_isr' = {} /\ slave_isr' = {}
        /\ stk[current] # <<>> /\ stk' = Pop
    BY <1>7, <2>1 DEF resume, AtTop, pic
  <2>3. TypeOK'
    BY <1>4, <1>a, <2>2
  <2> QED BY <1>4, <2>2, <2>3 DEF HandlersInv, Top
<1>8. CASE keyboard_spawn
  <2>1. TopNow("open") /\ ~IF_ /\ Top.pc = "handler"
    BY <1>3, <1>8 DEF keyboard_spawn, AtTop, HandlersInv, TypeOK
  <2>2. /\ current' = current /\ irr' = irr /\ IF_' = TRUE
        /\ master_isr' = {} /\ slave_isr' = {}
    BY <1>8, <2>1 DEF keyboard_spawn, pic, HandlersInv
  <2>3. TypeOK'
    BY <1>a, <2>1, <2>2 DEF TopNow
  <2> QED BY <2>1, <2>2, <2>3 DEF TopNow, HandlersInv, Top
\* Another task gets the CPU, with interrupts off and nothing in service.
<1>9. ASSUME NEW t \in Tasks, t # current, current' = t, IF_' = FALSE,
              irr' = irr, master_isr' = {}, slave_isr' = {},
              NEW p \in Suspended, TopNow(p)
       PROVE  HandlersInv'
  <2>1. ASSUME NEW u \in Tasks
        PROVE  /\ \A k \in 1 .. Len(stk'[u]) - 1 : stk'[u][k].pc = "open"
               /\ stk'[u] # <<>> /\ TopFrame(stk'[u]).pc \in Suspended
    <3>1. CASE u = current
      BY <1>9, <3>1 DEF TopNow
    <3>2. CASE u # current
      <4>1. stk'[u] = stk[u]
        BY <1>9, <3>2 DEF TopNow
      <4> QED BY <3>2, <4>1 DEF HandlersInv, TypeOK
    <3> QED BY <3>1, <3>2
  <2>2. TypeOK'
    <3>1. irr' \subseteq Irqs
      BY <1>9 DEF HandlersInv, TypeOK
    <3> QED BY Zenon, <1>9, <2>1, <3>1 DEF TypeOK
  <2>3. stk'[t] # <<>> /\ TopFrame(stk'[t]).pc \in Suspended
    BY <2>1
  <2> QED BY <1>9, <2>2, <2>3 DEF TopNow, HandlersInv, Top, Suspended
<1>10. ASSUME NEW t \in Tasks, timer_switch(t) PROVE HandlersInv'
  <2>1. TopNow("switched") /\ ~IF_ /\ Top.pc = "handler"
    BY <1>3, <1>10 DEF timer_switch, AtTop, HandlersInv, TypeOK
  <2>2. master_isr = {} /\ slave_isr = {} /\ IF_ = FALSE
    BY <1>10, <2>1 DEF timer_switch, AtTop, HandlersInv, TypeOK
  <2> QED BY Zenon, <1>9, <1>10, <2>1, <2>2 DEF timer_switch, pic, Suspended
<1>11. ASSUME NEW t \in Tasks, sched_yield(t) PROVE HandlersInv'
  <2>1. Frame(0, "yield") \in Frames /\ Frame(0, "yield").pc = "yield"
    BY DEF Frame, Frames
  <2> DEFINE s == <<Frame(0, "yield")>>
  <2>2. s \in Seq(Frames) /\ s # <<>> /\ Len(s) = 1 /\ TopFrame(s).pc = "yield"
    BY <2>1 DEF TopFrame
  <2>3. stk' = [stk EXCEPT ![current] = s]
    BY <1>11 DEF sched_yield
  <2> HIDE DEF s
  <2>4. /\ stk' \in [Tasks -> Seq(Frames)] /\ stk'[current] = s
        /\ \A u \in Tasks \ {current} : stk'[u] = stk[u]
    BY <1>0, <2>2, <2>3 DEF HandlersInv
  <2>5. TopNow("yield") /\ master_isr = {} /\ slave_isr = {}
    BY <1>11, <2>2, <2>4 DEF sched_yield, HandlersInv, TopNow
  <2> QED BY Zenon, <1>9, <1>11, <2>5 DEF sched_yield, pic, Suspended
<1>12. CASE UNCHANGED vars
  BY <1>12 DEF vars, HandlersInv, TypeOK, Top, InService
<1> QED BY <1>1, <1>2, <1>5, <1>6, <1>7, <1>8, <1>10, <1>11, <1>12 DEF Next, Kernel
\* irq_handler's EOI before the handler: however handlers nest, enable interrupts and
\* switch tasks, for any tasks and lines, neither controller has a line in service while
\* interrupts are on.
THEOREM HandlersNeverBlockALine == Spec => []NoLineBlocked
<1>1. HandlersInv => NoLineBlocked
  BY DEF HandlersInv, NoLineBlocked, NothingInService
<1> QED BY <1>1, HandlersInit, HandlersStep, PTL DEF Spec
------------------------------------------------------------------------------
\* The remainder of a number less than one modulus away from the range.
LEMMA ModNear ==
  ASSUME NEW m \in Nat, m >= 1, NEW x \in Int, -m < x, x < 2 * m
  PROVE  x % m = IF x < 0 THEN x + m ELSE IF x < m THEN x ELSE x - m
<1> DEFINE q == x \div m
           y == x % m
<1>1. q \in Int /\ y \in Int /\ 0 <= y /\ y < m /\ x = m * q + y
  OBVIOUS
<1> HIDE DEF q, y
<1>2. q >= -1
  <2>1. SUFFICES ASSUME q <= -2 PROVE FALSE
    BY <1>1
  <2>2. m * (-2 - q) >= 0
    BY <1>1, <2>1
  <2>3. m * (-2 - q) = -2 * m - m * q
    BY <1>1
  <2> QED BY <1>1, <2>2, <2>3
<1>3. q <= 1
  <2>1. SUFFICES ASSUME q >= 2 PROVE FALSE
    BY <1>1
  <2>2. m * (q - 2) >= 0
    BY <1>1, <2>1
  <2>3. m * (q - 2) = m * q - 2 * m
    BY <1>1
  <2> QED BY <1>1, <2>2, <2>3
<1>4. q = -1 \/ q = 0 \/ q = 1
  BY <1>1, <1>2, <1>3
<1>5. y = IF x < 0 THEN x + m ELSE IF x < m THEN x ELSE x - m
  <2>1. m * (-1) = -m /\ m * 0 = 0 /\ m * 1 = m
    OBVIOUS
  <2> QED BY <1>1, <1>4, <2>1
<1> QED BY <1>5 DEF y

\* How many switches there are until the ring reaches a task.
Turns(t) == IF t >= current_task THEN t - current_task ELSE t - current_task + TASKS

Elapsed(t) == (timer_ticks - sleep[t].start) % TICK_MOD

Latest(w) == (w - 1 + (TASKS - 1) * SCHED_TIME_SLICE) * TICK_MS

\* After e ticks and s milliseconds, p of them since the last tick, of a sleep of w
\* ticks, k switches before its turn, r ticks before the next switch.
OnSchedule(e, s, p, k, r, w) ==
  /\ e * TICK_MS + p - (TICK_MS - 1) <= s /\ s <= e * TICK_MS + p
  /\ e >= w =>
       IF k = 0 THEN s <= Latest(w)
       ELSE s + ((k - 1) * SCHED_TIME_SLICE + r) * TICK_MS - p <= Latest(w)

SleepInv ==
  /\ ClockTypeOK
  /\ sleep \in [TaskIds -> [ms : Nat, start : Nat, slept : Nat]]
  /\ \A t \in TaskIds : Sleeping(t) =>
       /\ t # 0 /\ sleep[t].ms \in Durations \ {0}
       /\ OnSchedule(Elapsed(t), sleep[t].slept, phase, Turns(t), slice_remaining,
                     ticks_to_wait(sleep[t].ms))

\* What the constants say, with the products named.
LEMMA Constants ==
  /\ TASKS \in Nat /\ TASKS >= 1 /\ SCHED_TIME_SLICE \in Nat /\ SCHED_TIME_SLICE >= 1
  /\ TICK_MS \in Nat /\ TICK_MS >= 1 /\ TICK_MOD \in Nat /\ TICK_MOD >= 1
  /\ Durations \subseteq Nat
BY SleepConstants

\* The number of ticks to wait: at least one, and less than a tick short.
LEMMA Ticks ==
  ASSUME NEW ms \in Nat
  PROVE  /\ ticks_to_wait(ms) \in Nat /\ ticks_to_wait(ms) >= 1
         /\ ms - (TICK_MS - 1) <= ticks_to_wait(ms) * TICK_MS
<1> DEFINE q == ms \div TICK_MS
           y == ms % TICK_MS
<1>1. q \in Int /\ y \in Int /\ 0 <= y /\ y < TICK_MS /\ ms = TICK_MS * q + y
  BY Constants
<1>2. ticks_to_wait(ms) = IF q = 0 THEN 1 ELSE q
  BY DEF ticks_to_wait
<1> HIDE DEF q, y
<1>3. q >= 0
  <2>1. SUFFICES ASSUME q <= -1 PROVE FALSE
    BY <1>1
  <2>2. TICK_MS * (-1 - q) >= 0
    BY <1>1, <2>1, Constants
  <2>3. TICK_MS * (-1 - q) = -TICK_MS - TICK_MS * q
    BY <1>1, Constants
  <2> QED BY <1>1, <2>2, <2>3, Constants
<1>4. CASE q = 0
  BY <1>1, <1>2, <1>4, Constants
<1>5. CASE q # 0
  <2>1. q * TICK_MS = TICK_MS * q
    BY <1>1, Constants
  <2> QED BY <1>1, <1>2, <1>3, <1>5, <2>1, Constants
<1> QED BY <1>4, <1>5

\* The ring: the next task, without the remainder.
LEMMA Ring ==
  ASSUME NEW c \in TaskIds
  PROVE  /\ (c + 1) % TASKS = IF c + 1 = TASKS THEN 0 ELSE c + 1
         /\ (c + 1) % TASKS \in TaskIds
<1>1. c \in Int /\ 0 <= c /\ c < TASKS
  BY Constants DEF TaskIds
<1>2. CASE TASKS = 1
  BY <1>1, <1>2 DEF TaskIds
<1>3. CASE TASKS # 1
  <2> DEFINE x == c + 1
  <2>1. x \in Int /\ -TASKS < x /\ x < 2 * TASKS
    BY <1>1, <1>3, Constants
  <2>2. x % TASKS = IF x < 0 THEN x + TASKS ELSE IF x < TASKS THEN x ELSE x - TASKS
    <3> HIDE DEF x
    <3> QED BY Zenon, <2>1, ModNear, Constants
  <2> QED BY <1>1, <2>2, Constants DEF TaskIds
<1> QED BY <1>2, <1>3

\* The bound, with the products that the steps change.
LEMMA LatestIs ==
  ASSUME NEW w \in Nat
  PROVE  /\ Latest(w) \in Int
         /\ Latest(w) = w * TICK_MS - TICK_MS + (TASKS - 1) * (SCHED_TIME_SLICE * TICK_MS)
BY Constants DEF Latest

\* A sleep starts on schedule.
LEMMA Starts ==
  ASSUME NEW p \in 0 .. TICK_MS - 1, NEW r \in Nat, NEW w \in Nat, w >= 1
  PROVE  OnSchedule(0, 0, p, 0, r, w)
BY Constants DEF OnSchedule

\* A millisecond of another task.
LEMMA Millisecond ==
  ASSUME NEW e \in Nat, NEW s \in Nat, NEW p \in Nat, NEW k \in Nat, k # 0,
         NEW r \in Nat, NEW w \in Nat, OnSchedule(e, s, p, k, r, w)
  PROVE  OnSchedule(e, s + 1, p + 1, k, r, w)
<1> DEFINE x == e * TICK_MS
           y == ((k - 1) * SCHED_TIME_SLICE + r) * TICK_MS
           l == Latest(w)
<1>1. x \in Int /\ y \in Int /\ l \in Int
  BY Constants, LatestIs
<1>2. /\ x + p - (TICK_MS - 1) <= s /\ s <= x + p
      /\ e >= w => s + y - p <= l
  BY DEF OnSchedule
<1> HIDE DEF x, y, l
<1>3. /\ x + (p + 1) - (TICK_MS - 1) <= s + 1 /\ s + 1 <= x + (p + 1)
      /\ e >= w => s + 1 + y - (p + 1) <= l
  BY <1>1, <1>2, Constants
<1> QED BY <1>3 DEF OnSchedule, x, y, l

\* A switch, from the current task to the next one.
LEMMA Switch ==
  ASSUME NEW e \in Nat, NEW s \in Nat, NEW p \in 0 .. TICK_MS - 1, NEW k \in Nat, k # 0,
         NEW r \in Nat, r >= 1, NEW w \in Nat, OnSchedule(e, s, p, k, r, w)
  PROVE  OnSchedule(e, s, p, k - 1, SCHED_TIME_SLICE, w)
<1> DEFINE u == SCHED_TIME_SLICE * TICK_MS
           y == (k - 1) * u
           z == r * TICK_MS
           l == Latest(w)
<1>1. u \in Int /\ y \in Int /\ z \in Int /\ l \in Int
  BY Constants, LatestIs
<1>2. ((k - 1) * SCHED_TIME_SLICE + r) * TICK_MS = y + z
  BY Constants
<1>3. ((k - 1 - 1) * SCHED_TIME_SLICE + SCHED_TIME_SLICE) * TICK_MS = y
  BY Constants
<1>4. z >= TICK_MS
  <2>1. (r - 1) * TICK_MS >= 0 /\ (r - 1) * TICK_MS = z - TICK_MS
    BY Constants
  <2> QED BY <1>1, <2>1, Constants
<1>5. k = 1 => y = 0
  BY <1>1
<1>6. e >= w => s + (y + z) - p <= l
  BY <1>2 DEF OnSchedule
<1> HIDE DEF u, y, z, l
<1>7. e >= w => IF k - 1 = 0 THEN s <= l ELSE s + y - p <= l
  BY <1>1, <1>4, <1>5, <1>6, Constants
<1>8. e >= w => IF k - 1 = 0 THEN s <= Latest(w)
               ELSE s + ((k - 1 - 1) * SCHED_TIME_SLICE + SCHED_TIME_SLICE) * TICK_MS - p <= Latest(w)
  BY <1>3, <1>7 DEF l
<1> QED BY <1>8 DEF OnSchedule

\* The last millisecond of a tick that leaves the current task a part of its slice.
LEMMA TickInSlice ==
  ASSUME NEW e \in Nat, NEW s \in Nat, NEW k \in 1 .. TASKS - 1,
         NEW r \in 2 .. SCHED_TIME_SLICE, NEW w \in Nat,
         OnSchedule(e, s, TICK_MS - 1, k, r, w)
  PROVE  OnSchedule(e + 1, s + 1, 0, k, r - 1, w)
<1> DEFINE u == SCHED_TIME_SLICE * TICK_MS
           x == e * TICK_MS
           y == (k - 1) * u
           z == r * TICK_MS
           l == Latest(w)
<1>1. u \in Int /\ x \in Int /\ y \in Int /\ z \in Int /\ l \in Int
  BY Constants, LatestIs
<1>2. ((k - 1) * SCHED_TIME_SLICE + r) * TICK_MS = y + z
  BY Constants
<1>3. ((k - 1) * SCHED_TIME_SLICE + (r - 1)) * TICK_MS = y + z - TICK_MS
  BY Constants
<1>4. (e + 1) * TICK_MS = x + TICK_MS
  BY Constants
<1>5. /\ x + (TICK_MS - 1) - (TICK_MS - 1) <= s /\ s <= x + (TICK_MS - 1)
      /\ e >= w => s + (y + z) - (TICK_MS - 1) <= l
  BY <1>2, Constants DEF OnSchedule
<1>6. w = e + 1 => l = x + (TASKS - 1) * u
  BY <1>1, LatestIs, Constants
<1>7. y + z <= (TASKS - 1) * u
  <2>1. (TASKS - 1 - k) * u >= 0 /\ (TASKS - 1 - k) * u = (TASKS - 1) * u - (y + u)
    BY Constants
  <2>2. (SCHED_TIME_SLICE - r) * TICK_MS >= 0 /\ (SCHED_TIME_SLICE - r) * TICK_MS = u - z
    BY Constants
  <2> DEFINE v == (TASKS - 1) * u
  <2>3. v \in Int
    BY <1>1, Constants
  <2> HIDE DEF u, y, z, v
  <2>4. v - (y + u) >= 0 /\ u - z >= 0
    BY <2>1, <2>2 DEF v
  <2> QED BY <1>1, <2>3, <2>4 DEF v
<1> DEFINE v == (TASKS - 1) * u
<1>8. v \in Int
  BY <1>1, Constants
<1>9. (w = e + 1 => l = x + v) /\ y + z <= v
  BY <1>6, <1>7
<1> HIDE DEF u, x, y, z, l, v
<1>10. /\ x + TICK_MS + 0 - (TICK_MS - 1) <= s + 1 /\ s + 1 <= x + TICK_MS + 0
       /\ e + 1 >= w => s + 1 + (y + z - TICK_MS) - 0 <= l
  BY <1>1, <1>5, <1>8, <1>9, Constants
<1>11. k # 0
  OBVIOUS
<1> QED BY <1>3, <1>4, <1>10, <1>11 DEF OnSchedule, l

\* The last millisecond of a tick that ends the slice of the current task.
LEMMA TickAndSwitch ==
  ASSUME NEW e \in Nat, NEW s \in Nat, NEW k \in 1 .. TASKS - 1, NEW w \in Nat,
         OnSchedule(e, s, TICK_MS - 1, k, 1, w)
  PROVE  OnSchedule(e + 1, s + 1, 0, k - 1, SCHED_TIME_SLICE, w)
<1> DEFINE u == SCHED_TIME_SLICE * TICK_MS
           x == e * TICK_MS
           y == (k - 1) * u
           v == (TASKS - 1) * u
           l == Latest(w)
<1>1. u \in Int /\ x \in Int /\ y \in Int /\ v \in Int /\ l \in Int
  BY Constants, LatestIs
<1>2. ((k - 1) * SCHED_TIME_SLICE + 1) * TICK_MS = y + TICK_MS
  BY Constants
<1>3. ((k - 1 - 1) * SCHED_TIME_SLICE + SCHED_TIME_SLICE) * TICK_MS = y
  BY Constants
<1>4. (e + 1) * TICK_MS = x + TICK_MS
  BY Constants
<1>5. /\ x + (TICK_MS - 1) - (TICK_MS - 1) <= s /\ s <= x + (TICK_MS - 1)
      /\ e >= w => s + (y + TICK_MS) - (TICK_MS - 1) <= l
  BY <1>2, Constants DEF OnSchedule
<1>6. w = e + 1 => l = x + v
  BY <1>1, LatestIs, Constants
<1>7. y + TICK_MS <= v
  <2>1. (TASKS - 1 - k) * u >= 0 /\ (TASKS - 1 - k) * u = v - (y + u)
    BY Constants
  <2>2. (SCHED_TIME_SLICE - 1) * TICK_MS >= 0 /\ (SCHED_TIME_SLICE - 1) * TICK_MS = u - TICK_MS
    BY Constants
  <2> HIDE DEF u, y, v
  <2>3. v - (y + u) >= 0 /\ u - TICK_MS >= 0
    BY <2>1, <2>2
  <2> QED BY <1>1, <2>3, Constants
<1>8. k = 1 => y = 0
  BY <1>1
<1> HIDE DEF u, x, y, v, l
<1>9. /\ x + TICK_MS + 0 - (TICK_MS - 1) <= s + 1 /\ s + 1 <= x + TICK_MS + 0
      /\ e + 1 >= w => IF k - 1 = 0 THEN s + 1 <= l ELSE s + 1 + y - 0 <= l
  BY <1>1, <1>5, <1>6, <1>7, <1>8, Constants
<1> QED BY <1>3, <1>4, <1>9 DEF OnSchedule, l

\* The bounds that a sleep on schedule keeps: it is never too late, the counter
\* cannot come round, and when its ticks are over it is not far too early.
LEMMA Bounds ==
  ASSUME NEW ms \in Durations, TASKS >= 2,
         NEW e \in Nat, NEW s \in Nat, NEW p \in 0 .. TICK_MS - 1, NEW k \in Nat,
         NEW r \in Nat, r >= 1, OnSchedule(e, s, p, k, r, ticks_to_wait(ms))
  PROVE  /\ s <= Latest(ticks_to_wait(ms))
         /\ e + 1 < TICK_MOD
         /\ e >= ticks_to_wait(ms) => s > ms - 2 * TICK_MS + 1
<1> DEFINE w == ticks_to_wait(ms)
           b == w - 1 + (TASKS - 1) * SCHED_TIME_SLICE
           x == e * TICK_MS
           l == Latest(w)
           y == ((k - 1) * SCHED_TIME_SLICE + r) * TICK_MS
<1>1. w \in Nat /\ w >= 1 /\ ms - (TICK_MS - 1) <= w * TICK_MS /\ ms \in Nat
  BY Ticks, Constants
<1>2. w + (TASKS - 1) * SCHED_TIME_SLICE < TICK_MOD
  BY SleepConstants
<1>3. /\ x + p - (TICK_MS - 1) <= s /\ s <= x + p
      /\ e >= w => IF k = 0 THEN s <= l ELSE s + y - p <= l
  BY DEF OnSchedule
<1>4. l = b * TICK_MS
  BY DEF Latest
<1> HIDE DEF w
<1>5. b \in Int /\ x \in Int /\ y \in Int /\ l \in Int
  BY <1>1, <1>4, Constants
<1>6. (TASKS - 1) * SCHED_TIME_SLICE >= 1 /\ (TASKS - 1) * SCHED_TIME_SLICE \in Int
  <2>1. (TASKS - 2) * SCHED_TIME_SLICE >= 0
    BY Constants
  <2>2. (TASKS - 2) * SCHED_TIME_SLICE = (TASKS - 1) * SCHED_TIME_SLICE - SCHED_TIME_SLICE
    BY Constants
  <2> QED BY <2>1, <2>2, Constants
<1>7. b >= w /\ b + 1 < TICK_MOD
  BY <1>1, <1>2, <1>6, Constants
<1>8. k # 0 => y >= TICK_MS
  <2>1. SUFFICES ASSUME k # 0 PROVE y >= TICK_MS
    OBVIOUS
  <2> DEFINE a == (k - 1) * SCHED_TIME_SLICE
  <2>2. a \in Int /\ a >= 0
    BY <2>1, Constants
  <2>3. (a + r - 1) * TICK_MS >= 0 /\ (a + r - 1) * TICK_MS = y - TICK_MS
    <3> HIDE DEF a
    <3>1. a + r - 1 \in Nat
      BY <2>2
    <3>2. (a + r - 1) * TICK_MS >= 0
      BY <3>1, Constants
    <3>3. (a + r - 1) * TICK_MS = (a + r) * TICK_MS - TICK_MS
      BY <2>2, Constants
    <3> QED BY <3>2, <3>3 DEF a
  <2> HIDE DEF a, y
  <2>4. y - TICK_MS >= 0
    BY <2>3
  <2> QED BY <1>5, <2>4, Constants
<1>9. s <= l
  <2>1. CASE e >= w
    <3> HIDE DEF x, y, l
    <3> QED BY <1>3, <1>5, <1>8, <2>1, Constants
  <2>2. CASE ~(e >= w)
    <3>1. (b - 1 - e) * TICK_MS >= 0
      BY <1>1, <1>5, <1>7, <2>2, Constants
    <3>2. (b - 1 - e) * TICK_MS = b * TICK_MS - TICK_MS - x
      BY <1>5, Constants
    <3> HIDE DEF x, y, l, b
    <3>3. l - TICK_MS - x >= 0
      BY <1>4, <3>1, <3>2
    <3> QED BY <1>3, <1>5, <3>3, Constants
  <2> QED BY <2>1, <2>2
<1>10. e <= b
  <2>1. SUFFICES ASSUME e >= b + 1 PROVE FALSE
    BY <1>5
  <2>2. (e - b - 1) * TICK_MS >= 0
    BY <1>5, <2>1, Constants
  <2>3. (e - b - 1) * TICK_MS = x - b * TICK_MS - TICK_MS
    BY <1>5, Constants
  <2> HIDE DEF x, y, l, b
  <2>4. x - l - TICK_MS >= 0
    BY <1>4, <2>2, <2>3
  <2> QED BY <1>3, <1>5, <1>9, <2>4, Constants
<1>11. e >= w => s > ms - 2 * TICK_MS + 1
  <2>1. SUFFICES ASSUME e >= w PROVE s > ms - 2 * TICK_MS + 1
    OBVIOUS
  <2> DEFINE a == w * TICK_MS
  <2>2. a \in Int /\ ms - (TICK_MS - 1) <= a
    BY <1>1, Constants
  <2>3. (e - w) * TICK_MS >= 0 /\ (e - w) * TICK_MS = x - a
    BY <1>1, <2>1, Constants
  <2> HIDE DEF x, a
  <2>4. x - a >= 0
    BY <2>3
  <2> QED BY <1>1, <1>3, <1>5, <2>2, <2>4, Constants
<1> HIDE DEF b, l
<1> QED BY <1>5, <1>7, <1>9, <1>10, <1>11, Constants DEF w, l

\* The difference of two readings of the counter, and after a tick.
LEMMA Readings ==
  ASSUME NEW n \in 0 .. TICK_MOD - 1, NEW a \in 0 .. TICK_MOD - 1
  PROVE  /\ (n - a) % TICK_MOD \in Nat /\ (n - n) % TICK_MOD = 0
         /\ (n + 1) % TICK_MOD \in 0 .. TICK_MOD - 1
         /\ ((n - a) % TICK_MOD) + 1 < TICK_MOD =>
              (((n + 1) % TICK_MOD) - a) % TICK_MOD = ((n - a) % TICK_MOD) + 1
<1> DEFINE d == n - a
           e == d % TICK_MOD
           m == (n + 1) % TICK_MOD
<1>1. n \in Int /\ 0 <= n /\ n < TICK_MOD /\ a \in Int /\ 0 <= a /\ a < TICK_MOD
  BY Constants
<1>2. d \in Int /\ -TICK_MOD < d /\ d < TICK_MOD
  BY <1>1, Constants
<1>3. e = IF d < 0 THEN d + TICK_MOD ELSE d
  <2> HIDE DEF d
  <2>1. d < 2 * TICK_MOD
    BY <1>2, Constants
  <2> QED BY Zenon, <1>2, <2>1, ModNear, Constants
<1>4. 0 % TICK_MOD = 0 /\ n - n = 0
  <2>1. 0 \in Int /\ -TICK_MOD < 0 /\ 0 < 2 * TICK_MOD
    BY Constants
  <2> QED BY <1>1, <2>1, ModNear, Constants
<1>5. m = IF n + 1 = TICK_MOD THEN 0 ELSE n + 1
  <2>1. CASE TICK_MOD = 1
    BY <1>1, <2>1
  <2>2. CASE TICK_MOD # 1
    <3> DEFINE x == n + 1
    <3>1. x \in Int /\ -TICK_MOD < x /\ x < 2 * TICK_MOD
      BY <1>1, <2>2, Constants
    <3>2. x % TICK_MOD = IF x < 0 THEN x + TICK_MOD ELSE IF x < TICK_MOD THEN x ELSE x - TICK_MOD
      <4> HIDE DEF x
      <4> QED BY Zenon, <3>1, ModNear, Constants
    <3> QED BY <1>1, <3>2, Constants
  <2> QED BY <2>1, <2>2
<1>6. m \in 0 .. TICK_MOD - 1
  BY <1>1, <1>5, Constants
<1>7. e + 1 < TICK_MOD => (m - a) % TICK_MOD = e + 1
  <2> DEFINE x == m - a
  <2>1. x \in Int /\ -TICK_MOD < x /\ x < 2 * TICK_MOD
    BY <1>1, <1>6, Constants
  <2>2. x % TICK_MOD = IF x < 0 THEN x + TICK_MOD ELSE IF x < TICK_MOD THEN x ELSE x - TICK_MOD
    <3> HIDE DEF x
    <3> QED BY Zenon, <2>1, ModNear, Constants
  <2> HIDE DEF m, e
  <2> QED BY <1>1, <1>3, <1>5, <2>2, Constants
<1>8. e \in Nat
  BY <1>2, <1>3, Constants
<1> QED BY <1>4, <1>6, <1>7, <1>8

\* A switch in a ring of several tasks.
LEMMA SwitchTurns ==
  ASSUME NEW c \in TaskIds, NEW t \in TaskIds
  PROVE  LET d == (c + 1) % TASKS
             k == IF t >= c THEN t - c ELSE t - c + TASKS
             j == IF t >= d THEN t - d ELSE t - d + TASKS
         IN  k \in 0 .. TASKS - 1 /\ (k = 0 <=> t = c) /\ (k # 0 => j = k - 1)
BY Ring, Constants DEF TaskIds

\* What the invariant says of one sleeping task, for every value of its parts.
LEMMA Sleeper ==
  ASSUME SleepInv, NEW t \in TaskIds, Sleeping(t)
  PROVE  /\ TASKS >= 2 /\ t # 0
         /\ sleep[t].ms \in Durations \ {0} /\ sleep[t].start \in 0 .. TICK_MOD - 1
         /\ sleep[t].slept \in Nat /\ Elapsed(t) \in Nat
         /\ ticks_to_wait(sleep[t].ms) \in Nat /\ ticks_to_wait(sleep[t].ms) >= 1
         /\ Turns(t) \in 0 .. TASKS - 1 /\ (Turns(t) = 0 <=> t = current_task)
         /\ OnSchedule(Elapsed(t), sleep[t].slept, phase, Turns(t), slice_remaining,
                       ticks_to_wait(sleep[t].ms))
<1>1. /\ t # 0 /\ sleep[t].ms \in Durations \ {0} /\ sleep[t].start \in 0 .. TICK_MOD - 1
      /\ OnSchedule(Elapsed(t), sleep[t].slept, phase, Turns(t), slice_remaining,
                    ticks_to_wait(sleep[t].ms))
      /\ current_task \in TaskIds /\ timer_ticks \in 0 .. TICK_MOD - 1
  BY DEF SleepInv, ClockTypeOK
<1>2. sleep[t].slept \in Nat
  BY DEF SleepInv
<1>3. TASKS >= 2
  BY <1>1, Constants DEF TaskIds
<1>4. Elapsed(t) \in Nat
  BY Zenon, <1>1, Readings DEF Elapsed
<1>5. ticks_to_wait(sleep[t].ms) \in Nat /\ ticks_to_wait(sleep[t].ms) >= 1
  BY Zenon, <1>1, Ticks, Constants
<1>6. Turns(t) \in 0 .. TASKS - 1 /\ (Turns(t) = 0 <=> t = current_task)
  BY <1>1, SwitchTurns DEF Turns
<1> QED BY <1>1, <1>2, <1>3, <1>4, <1>5, <1>6

\* The invariant has the bounds as consequences.
LEMMA InvBounds == SleepInv => SleepBounded
<1> SUFFICES ASSUME SleepInv PROVE SleepBounded
  OBVIOUS
<1>1. phase \in 0 .. TICK_MS - 1 /\ slice_remaining \in Nat /\ slice_remaining >= 1
  BY Constants DEF SleepInv, ClockTypeOK
<1>2. ASSUME NEW t \in TaskIds, Sleeping(t)
      PROVE  /\ sleep[t].slept <= Latest(ticks_to_wait(sleep[t].ms))
             /\ Elapsed(t) >= ticks_to_wait(sleep[t].ms) =>
                  sleep[t].slept > sleep[t].ms - 2 * TICK_MS + 1
  <2> DEFINE e == Elapsed(t)
             s == sleep[t].slept
             ms == sleep[t].ms
             k == Turns(t)
  <2>1. /\ TASKS >= 2 /\ ms \in Durations /\ e \in Nat /\ s \in Nat /\ k \in Nat
        /\ OnSchedule(e, s, phase, k, slice_remaining, ticks_to_wait(ms))
    BY <1>2, Sleeper
  <2> HIDE DEF e, s, ms, k
  <2>2. s <= Latest(ticks_to_wait(ms)) /\ (e >= ticks_to_wait(ms) => s > ms - 2 * TICK_MS + 1)
    BY <1>1, <2>1, Bounds
  <2> QED BY <2>2 DEF e, s, ms
<1>3. NeverTooLate
  BY <1>2 DEF NeverTooLate, Latest
<1>4. NeverFarTooEarly
  <2>1. ASSUME NEW t \in TaskIds, Sleeping(t), ~StillWaiting(t)
        PROVE  Elapsed(t) >= ticks_to_wait(sleep[t].ms)
    <3> DEFINE e == Elapsed(t)
               w == ticks_to_wait(sleep[t].ms)
    <3>1. e \in Nat /\ w \in Nat
      BY <2>1, Sleeper
    <3>2. ~(e < w)
      BY <2>1 DEF StillWaiting, Elapsed
    <3> HIDE DEF e, w
    <3>3. e >= w
      BY <3>1, <3>2
    <3> QED BY <3>3 DEF e, w
  <2> QED BY <1>2, <2>1 DEF NeverFarTooEarly
<1> QED BY <1>3, <1>4 DEF SleepInv, SleepBounded

\* A switch keeps every sleeping task on schedule: the current one, which may only
\* yield while it waits, and the others, whose turn comes closer.
LEMMA SwitchKeeps ==
  ASSUME SleepInv, SwitchToNext, UNCHANGED <<phase, timer_ticks, sleep>>,
         Sleeping(current_task) => StillWaiting(current_task)
  PROVE  SleepInv'
<1>1. /\ current_task \in TaskIds /\ current_task' = (current_task + 1) % TASKS
      /\ current_task' \in TaskIds
      /\ phase \in 0 .. TICK_MS - 1 /\ slice_remaining \in Nat /\ slice_remaining >= 1
  BY Ring, Constants DEF SleepInv, ClockTypeOK, SwitchToNext
<1>2. slice_remaining' \in 1 .. SCHED_TIME_SLICE /\ (TASKS >= 2 => slice_remaining' = SCHED_TIME_SLICE)
  BY Constants DEF SleepInv, ClockTypeOK, SwitchToNext
<1>3. ClockTypeOK'
  BY <1>1, <1>2 DEF SleepInv, ClockTypeOK
<1>4. ASSUME NEW t \in TaskIds, Sleeping(t)
      PROVE  OnSchedule(Elapsed(t), sleep[t].slept, phase, Turns(t)', SCHED_TIME_SLICE,
                        ticks_to_wait(sleep[t].ms))
  <2> DEFINE e == Elapsed(t)
             s == sleep[t].slept
             w == ticks_to_wait(sleep[t].ms)
             k == Turns(t)
             j == Turns(t)'
  <2>1. /\ e \in Nat /\ s \in Nat /\ w \in Nat /\ k \in 0 .. TASKS - 1 /\ (k = 0 <=> t = current_task)
        /\ OnSchedule(e, s, phase, k, slice_remaining, w)
    BY <1>4, Sleeper
  <2>2. k # 0 => j = k - 1
    BY Zenon, <1>1, SwitchTurns DEF Turns
  <2>3. k = 0 => e < w
    BY <1>4, <2>1 DEF StillWaiting, Elapsed
  <2> HIDE DEF e, s, w, k, j
  <2>4. CASE k # 0
    BY <1>1, <2>1, <2>2, <2>4, Switch, Constants DEF e, s, w, j
  <2>5. CASE k = 0
    <3>1. ~(e >= w)
      BY <2>1, <2>3, <2>5
    <3>2. OnSchedule(e, s, phase, j, SCHED_TIME_SLICE, w)
      BY Zenon, <2>1, <3>1 DEF OnSchedule
    <3> QED BY <3>2 DEF e, s, w, j
  <2> QED BY <2>4, <2>5
<1>5. ASSUME NEW t \in TaskIds, Sleeping(t)'
      PROVE  /\ t # 0 /\ sleep'[t].ms \in Durations \ {0}
             /\ OnSchedule(Elapsed(t)', sleep'[t].slept, phase', Turns(t)', slice_remaining',
                           ticks_to_wait(sleep'[t].ms))
  <2>1. Sleeping(t) /\ Elapsed(t)' = Elapsed(t)
    BY <1>5 DEF Sleeping, Elapsed
  <2>2. TASKS >= 2 /\ t # 0 /\ sleep[t].ms \in Durations \ {0}
    BY <2>1, Sleeper
  <2> QED BY <1>2, <1>4, <2>1, <2>2
<1> QED BY <1>3, <1>5 DEF SleepInv

\* What a millisecond does to the sleeping tasks.
LEMMA SleptIs ==
  ASSUME SleepInv, sleep' = Slept
  PROVE  /\ sleep' \in [TaskIds -> [ms : Nat, start : Nat, slept : Nat]]
         /\ \A t \in TaskIds :
              /\ sleep'[t].ms = sleep[t].ms /\ sleep'[t].start = sleep[t].start
              /\ Sleeping(t)' => Sleeping(t) /\ sleep'[t].slept = sleep[t].slept + 1
BY DEF SleepInv, Slept, Sleeping, Awake

\* One call of SYS_SLEEP.
LEMMA SleepKeeps ==
  ASSUME SleepInv, NEW ms \in Durations, sys_sleep(ms)
  PROVE  SleepInv'
<1> DEFINE c == current_task
<1>1. /\ c \in TaskIds /\ c # 0 /\ ms # 0 /\ ms \in Nat
      /\ timer_ticks \in 0 .. TICK_MOD - 1 /\ timer_ticks \in Nat /\ phase \in 0 .. TICK_MS - 1
      /\ slice_remaining \in Nat
      /\ sleep' = [sleep EXCEPT ![c] = [ms |-> ms, start |-> timer_ticks, slept |-> 0]]
      /\ UNCHANGED <<phase, timer_ticks, current_task, slice_remaining>>
  BY Constants DEF SleepInv, ClockTypeOK, sys_sleep
<1>2. sleep' \in [TaskIds -> [ms : Nat, start : Nat, slept : Nat]]
  BY <1>1 DEF SleepInv
<1>3. ASSUME NEW t \in TaskIds
      PROVE  sleep'[t] = IF t = c THEN [ms |-> ms, start |-> timer_ticks, slept |-> 0] ELSE sleep[t]
  BY <1>1 DEF SleepInv
<1>4. ClockTypeOK'
  BY Zenon, <1>1, <1>3 DEF SleepInv, ClockTypeOK
<1>5. ASSUME NEW t \in TaskIds, Sleeping(t)'
      PROVE  /\ t # 0 /\ sleep'[t].ms \in Durations \ {0}
             /\ OnSchedule(Elapsed(t)', sleep'[t].slept, phase', Turns(t)', slice_remaining',
                           ticks_to_wait(sleep'[t].ms))
  <2>1. CASE t = c
    <3>1. sleep'[t].ms = ms /\ sleep'[t].start = timer_ticks /\ sleep'[t].slept = 0
      BY <1>3, <2>1
    <3>2. Elapsed(t)' = 0
      BY <1>1, <3>1, Readings DEF Elapsed
    <3>3. Turns(t)' = 0
      BY <1>1, <2>1, Constants DEF Turns, TaskIds
    <3>4. ticks_to_wait(ms) \in Nat /\ ticks_to_wait(ms) >= 1
      BY <1>1, Ticks
    <3>5. OnSchedule(0, 0, phase, 0, slice_remaining, ticks_to_wait(ms))
      BY Zenon, <1>1, <3>4, Starts
    <3> QED BY <1>1, <2>1, <3>1, <3>2, <3>3, <3>5
  <2>2. CASE t # c
    <3>1. sleep'[t] = sleep[t]
      BY Zenon, <1>3, <2>2
    <3>2. Sleeping(t) /\ Elapsed(t)' = Elapsed(t) /\ Turns(t)' = Turns(t)
      BY <1>1, <1>5, <3>1 DEF Sleeping, Elapsed, Turns
    <3> QED BY <1>1, <3>1, <3>2, Sleeper
  <2> QED BY <2>1, <2>2
<1> QED BY <1>2, <1>4, <1>5 DEF SleepInv

\* The end of a sleep.
LEMMA ReturnKeeps ==
  ASSUME SleepInv, sleep_return
  PROVE  SleepInv'
<1> DEFINE c == current_task
<1>1. /\ c \in TaskIds /\ sleep' = [sleep EXCEPT ![c] = Awake]
      /\ UNCHANGED <<phase, timer_ticks, current_task, slice_remaining>>
  BY DEF SleepInv, ClockTypeOK, sleep_return
<1>2. Awake \in [ms : Nat, start : Nat, slept : Nat] /\ Awake.ms = 0 /\ Awake.start = 0
  BY DEF Awake
<1>3. sleep' \in [TaskIds -> [ms : Nat, start : Nat, slept : Nat]]
  BY <1>1, <1>2 DEF SleepInv
<1>4. ASSUME NEW t \in TaskIds
      PROVE  sleep'[t] = IF t = c THEN Awake ELSE sleep[t]
  BY <1>1 DEF SleepInv
<1>5. ClockTypeOK'
  BY <1>1, <1>2, <1>4, Constants DEF SleepInv, ClockTypeOK
<1>6. ASSUME NEW t \in TaskIds, Sleeping(t)'
      PROVE  /\ t # 0 /\ sleep'[t].ms \in Durations \ {0}
             /\ OnSchedule(Elapsed(t)', sleep'[t].slept, phase', Turns(t)', slice_remaining',
                           ticks_to_wait(sleep'[t].ms))
  <2>1. sleep'[t] = sleep[t] /\ Sleeping(t)
    BY <1>4, <1>6 DEF Sleeping
  <2>2. Elapsed(t)' = Elapsed(t) /\ Turns(t)' = Turns(t)
    BY Zenon, <1>1, <2>1 DEF Elapsed, Turns
  <2> QED BY <1>1, <2>1, <2>2, Sleeper
<1> QED BY <1>3, <1>5, <1>6 DEF SleepInv

\* A millisecond inside a tick.
LEMMA ComputeKeeps ==
  ASSUME SleepInv, compute
  PROVE  SleepInv'
<1>1. /\ ~Sleeping(current_task) /\ phase' = phase + 1 /\ phase' \in 0 .. TICK_MS - 1
      /\ phase \in Nat /\ slice_remaining \in Nat /\ sleep' = Slept
      /\ UNCHANGED <<timer_ticks, current_task, slice_remaining>>
  BY Constants DEF SleepInv, ClockTypeOK, compute
<1>2. ClockTypeOK'
  BY Zenon, <1>1, SleptIs DEF SleepInv, ClockTypeOK
<1>3. ASSUME NEW t \in TaskIds, Sleeping(t)'
      PROVE  /\ t # 0 /\ sleep'[t].ms \in Durations \ {0}
             /\ OnSchedule(Elapsed(t)', sleep'[t].slept, phase', Turns(t)', slice_remaining',
                           ticks_to_wait(sleep'[t].ms))
  <2> DEFINE e == Elapsed(t)
             s == sleep[t].slept
             w == ticks_to_wait(sleep[t].ms)
             k == Turns(t)
  <2>1. /\ Sleeping(t) /\ sleep'[t].slept = s + 1 /\ sleep'[t].ms = sleep[t].ms
        /\ sleep'[t].start = sleep[t].start
    BY Zenon, <1>1, <1>3, SleptIs
  <2>2. Elapsed(t)' = e /\ Turns(t)' = k
    BY Zenon, <1>1, <2>1 DEF Elapsed, Turns
  <2>3. /\ t # 0 /\ sleep[t].ms \in Durations \ {0}
        /\ e \in Nat /\ s \in Nat /\ w \in Nat /\ k \in Nat /\ (k = 0 <=> t = current_task)
        /\ OnSchedule(e, s, phase, k, slice_remaining, w)
    BY <2>1, Sleeper
  <2>4. k # 0
    BY <1>1, <2>1, <2>3
  <2> HIDE DEF e, s, w, k
  <2>5. OnSchedule(e, s + 1, phase + 1, k, slice_remaining, w)
    BY Zenon, <1>1, <2>3, <2>4, Millisecond
  <2> QED BY Zenon, <1>1, <2>1, <2>2, <2>3, <2>5 DEF w
<1> QED BY Zenon, <1>1, <1>2, <1>3, SleptIs DEF SleepInv

\* The last millisecond of a tick, with the tick.
LEMMA TickKeeps ==
  ASSUME SleepInv, timer_handler
  PROVE  SleepInv'
<1> DEFINE r == slice_remaining
<1>1. /\ ~Sleeping(current_task) /\ phase = TICK_MS - 1 /\ phase' = 0 /\ sleep' = Slept
      /\ timer_ticks \in 0 .. TICK_MOD - 1 /\ timer_ticks' = (timer_ticks + 1) % TICK_MOD
      /\ current_task \in TaskIds /\ r \in 1 .. SCHED_TIME_SLICE
      /\ phase \in 0 .. TICK_MS - 1
      /\ IF r > 1 THEN slice_remaining' = r - 1 /\ UNCHANGED current_task ELSE SwitchToNext
  BY DEF SleepInv, ClockTypeOK, timer_handler
<1>2. current_task' \in TaskIds /\ slice_remaining' \in 1 .. SCHED_TIME_SLICE
  BY <1>1, Ring, Constants DEF SwitchToNext
<1>3. timer_ticks' \in 0 .. TICK_MOD - 1 /\ phase' \in 0 .. TICK_MS - 1
  BY <1>1, Readings, Constants
<1>4. ClockTypeOK'
  BY Zenon, <1>1, <1>2, <1>3, SleptIs DEF SleepInv, ClockTypeOK
<1>5. ASSUME NEW t \in TaskIds, Sleeping(t)'
      PROVE  /\ t # 0 /\ sleep'[t].ms \in Durations \ {0}
             /\ OnSchedule(Elapsed(t)', sleep'[t].slept, phase', Turns(t)', slice_remaining',
                           ticks_to_wait(sleep'[t].ms))
  <2> DEFINE e == Elapsed(t)
             s == sleep[t].slept
             w == ticks_to_wait(sleep[t].ms)
             k == Turns(t)
             j == Turns(t)'
  <2>1. /\ Sleeping(t) /\ sleep'[t].slept = s + 1 /\ sleep'[t].ms = sleep[t].ms
        /\ sleep'[t].start = sleep[t].start
    BY Zenon, <1>1, <1>5, SleptIs
  <2>2. /\ TASKS >= 2 /\ t # 0 /\ sleep[t].ms \in Durations \ {0}
        /\ sleep[t].start \in 0 .. TICK_MOD - 1
        /\ e \in Nat /\ s \in Nat /\ w \in Nat
        /\ k \in 0 .. TASKS - 1 /\ (k = 0 <=> t = current_task)
        /\ OnSchedule(e, s, phase, k, r, w)
    BY Zenon, <2>1, Sleeper
  <2>3. k \in 1 .. TASKS - 1
    BY <1>1, <2>1, <2>2, Constants
  <2>4. e + 1 < TICK_MOD
    <3> HIDE DEF e, s, k
    <3>1. k \in Nat /\ r \in Nat /\ r >= 1
      BY <1>1, <2>3, Constants
    <3> QED BY Zenon, <1>1, <2>2, <3>1, Bounds
  <2>5. Elapsed(t)' = e + 1
    BY Zenon, <1>1, <2>1, <2>2, <2>4, Readings DEF Elapsed
  <2>6. OnSchedule(e + 1, s + 1, 0, j, slice_remaining', w)
    <3>1. CASE r > 1
      <4>1. j = k /\ r \in 2 .. SCHED_TIME_SLICE /\ slice_remaining' = r - 1
        BY <1>1, <3>1, Constants DEF Turns
      <4> HIDE DEF e, s, w, k, j, r
      <4> QED BY <1>1, <2>2, <2>3, <4>1, TickInSlice
    <3>2. CASE ~(r > 1)
      <4>1. r = 1 /\ SwitchToNext
        BY <1>1, <3>2, Constants
      <4>2. slice_remaining' = SCHED_TIME_SLICE /\ current_task' = (current_task + 1) % TASKS
        BY <2>2, <4>1, Constants DEF SwitchToNext
      <4>3. j = k - 1
        BY <1>1, <2>3, <4>2, SwitchTurns DEF Turns
      <4> HIDE DEF e, s, w, k, j, r
      <4> QED BY <1>1, <2>2, <2>3, <4>1, <4>2, <4>3, TickAndSwitch
    <3> QED BY Zenon, <3>1, <3>2
  <2> QED BY Zenon, <1>1, <2>1, <2>2, <2>5, <2>6
<1> QED BY <1>1, <1>4, <1>5, SleptIs DEF SleepInv

\* SYS_SLEEP, which yields until enough ticks have passed, returns within its bounds
\* for every number of tasks, length of slice and tick, and every start of a counter
\* that wraps: less than two ticks early, and no later than a slice of each other task.
THEOREM SleepsEndOnTime == ClockSpec => []SleepBounded
<1>1. ClockInit => SleepInv
  <2> SUFFICES ASSUME ClockInit PROVE SleepInv
    OBVIOUS
  <2>1. Awake \in [ms : Nat, start : Nat, slept : Nat] /\ Awake.ms = 0 /\ Awake.start = 0
    BY DEF Awake
  <2>2. sleep \in [TaskIds -> [ms : Nat, start : Nat, slept : Nat]] /\ \A t \in TaskIds : sleep[t] = Awake
    BY <2>1 DEF ClockInit
  <2>3. ClockTypeOK
    BY <2>1, <2>2, Constants DEF ClockInit, ClockTypeOK, TaskIds
  <2> QED BY <2>2, <2>3 DEF SleepInv, Sleeping
<1>2. SleepInv /\ [ClockNext]_clock => SleepInv'
  <2> SUFFICES ASSUME SleepInv, [ClockNext]_clock PROVE SleepInv'
    OBVIOUS
  <2>1. ASSUME NEW ms \in Durations, sys_sleep(ms) PROVE SleepInv'
    BY <2>1, SleepKeeps
  <2>2. CASE sleep_yield
    BY <2>2, SwitchKeeps DEF sleep_yield
  <2>3. CASE sleep_return
    BY <2>3, ReturnKeeps
  <2>4. CASE sys_yield
    BY Zenon, <2>4, SwitchKeeps DEF sys_yield
  <2>5. CASE compute
    BY <2>5, ComputeKeeps
  <2>6. CASE timer_handler
    BY <2>6, TickKeeps
  <2>7. CASE UNCHANGED clock
    BY <2>7 DEF clock, SleepInv, ClockTypeOK, Sleeping, Elapsed, Turns
  <2> QED BY <2>1, <2>2, <2>3, <2>4, <2>5, <2>6, <2>7 DEF ClockNext
<1> QED BY <1>1, <1>2, InvBounds, PTL DEF ClockSpec
===============================================================================
