--------------------------- MODULE HalTimerProofs ---------------------------
(***************************************************************************)
(* Proofs about the HAL timers for any set of configurations and any       *)
(* number of starts and expirations: type correctness, that a one-shot     *)
(* timer calls back at most once per start, and that at most one callback  *)
(* begins after a stop or a destroy.                                       *)
(***************************************************************************)
EXTENDS HalTimer, TLAPS

-----------------------------------------------------------------------------
(* The inductive invariant.                                                *)

\* hal_timer_destroy sets t->stop before anything else, and there is no thread
\* before the first handle.
DestroyOrder ==
  /\ stop <=> owner \in {"clear", "close", "join", "freed"}
  /\ owner = "null" => tpc = "none"

\* 1 while an expiration has been read and its callback has not begun.
InHand == IF tpc = "got" THEN 1 ELSE 0

\* Expirations of a one-shot timer that can still reach the callback: armed,
\* to be read, read.
OneShotPending ==
  (IF it_value > 0 THEN 1 ELSE 0) + (IF ticks > 0 THEN 1 ELSE 0) + InHand

\* Each hal_timer_start of a one-shot timer pays for one expiration, and a
\* later start or stop forgets the one that was not read, never one in hand.
OneShotBudget ==
  ~cfg.periodic => it_interval = 0 /\ fires + OneShotPending <= starts

\* A stopped timer of a handle in use is disarmed and has nothing to read, so
\* only the expiration in hand can still call back; once destroy has begun, a
\* thread that made a late callback meets t->stop before it reads again, or
\* waits for a timer that nobody can arm any more.
LateCallbacks ==
  /\ owner = "null" => late = 0
  /\ owner # "idle" => quiet
  /\ owner = "idle" /\ quiet => it_value = 0 /\ it_interval = 0 /\ ticks = 0
  /\ ~quiet => late = 0
  /\ late + InHand <= 1
  /\ late = 1 /\ tpc \in {"load", "read", "blocked"} =>
        it_value = 0 /\ it_interval = 0 /\ ticks = 0

TimerInvariant == TypeOK /\ DestroyOrder /\ OneShotBudget /\ LateCallbacks

-----------------------------------------------------------------------------
(* Each conjunct is kept by every step.                                    *)

\* The types of TypeOK in two parts, since they ask for different provers.
BooleanTypes ==
  /\ cb \in BOOLEAN /\ fd \in BOOLEAN /\ stop \in BOOLEAN /\ rfd \in BOOLEAN
  /\ open \in BOOLEAN /\ quiet \in BOOLEAN

OtherTypes ==
  /\ owner \in {"null", "idle", "clear", "close", "join", "freed"}
  /\ cfg \in [initial_ms : Nat, interval_ms : Nat, periodic : BOOLEAN]
  /\ tpc \in {"none", "test", "load", "read", "blocked", "got", "callback", "exited"}
  /\ due \in {"no", "started", "read"}
  /\ it_value \in Nat /\ it_interval \in Nat
  /\ ticks \in 0..MaxTicks
  /\ starts \in 0..MaxStarts
  /\ fires \in 0..(MaxStarts + 1)
  /\ late \in 0..2

\* TypeOK says no more and no less than its two parts.
LEMMA TypeParts == TypeOK <=> BooleanTypes /\ OtherTypes
<1>1. {cb, fd, stop, rfd, open, quiet} \subseteq BOOLEAN <=> BooleanTypes
  BY DEF BooleanTypes
<1> QED BY <1>1 DEF TypeOK, OtherTypes

\* The initial state, before hal_timer_create, satisfies the invariant.
LEMMA InitInvariant == Init => TimerInvariant
<1> SUFFICES ASSUME Init PROVE TimerInvariant
  OBVIOUS
<1>1. BooleanTypes
  BY DEF Init, BooleanTypes
<1>2. OtherTypes
  BY TimerAssumption DEF Init, OtherTypes
<1>3. DestroyOrder
  BY DEF Init, DestroyOrder
<1>4. OneShotBudget
  BY DEF Init, OneShotBudget, OneShotPending, InHand
<1>5. LateCallbacks
  BY DEF Init, LateCallbacks, InHand
<1> QED BY <1>1, <1>2, <1>3, <1>4, <1>5, TypeParts DEF TimerInvariant

\* No step of the owner, the thread or the kernel leads out of the types.
LEMMA TypeStep == TypeOK /\ [Next]_vars => TypeOK'
<1> SUFFICES ASSUME TypeOK, [Next]_vars PROVE BooleanTypes' /\ OtherTypes'
  BY TypeParts, PTL
<1>0. BooleanTypes /\ OtherTypes
  BY TypeParts
<1> USE <1>0, TimerAssumption DEF handle, kernel, history
<1>1. ASSUME NEW c \in Configs, NEW w \in BOOLEAN, hal_timer_create(c, w)
      PROVE  BooleanTypes' /\ OtherTypes'
  <2>1. BooleanTypes'
    BY <1>1 DEF hal_timer_create, BooleanTypes
  <2>2. OtherTypes'
    BY <1>1 DEF hal_timer_create, OtherTypes
  <2> QED BY <2>1, <2>2
<1>2. CASE hal_timer_start
  <2>1. BooleanTypes'
    BY <1>2 DEF hal_timer_start, BooleanTypes
  <2>2. OtherTypes'
    BY <1>2 DEF hal_timer_start, timerfd_settime, StartValue, StartInterval, OtherTypes
  <2> QED BY <2>1, <2>2
<1>3. CASE hal_timer_stop
  <2>1. BooleanTypes'
    BY <1>3 DEF hal_timer_stop, BecomeQuiet, BooleanTypes
  <2>2. OtherTypes'
    BY <1>3 DEF hal_timer_stop, timerfd_settime, StopValue, BecomeQuiet, OtherTypes
  <2> QED BY <2>1, <2>2
<1>4. CASE DestroyStop
  <2>1. BooleanTypes'
    BY <1>4 DEF DestroyStop, BecomeQuiet, BooleanTypes
  <2>2. OtherTypes'
    BY <1>4 DEF DestroyStop, BecomeQuiet, OtherTypes
  <2> QED BY <2>1, <2>2
<1>5. CASE Destroy
  <2>1. BooleanTypes'
    BY <1>5 DEF Destroy, DestroyClear, DestroyClose, DestroyFree, BooleanTypes
  <2>2. OtherTypes'
    BY <1>5 DEF Destroy, DestroyClear, DestroyClose, DestroyFree, OtherTypes
  <2> QED BY <2>1, <2>2
<1>6. CASE ThreadReadReturns \/ ThreadCallback
  <2>1. BooleanTypes'
    BY <1>6 DEF ThreadReadReturns, ThreadCallback, BooleanTypes
  <2>2. OtherTypes'
    BY <1>6 DEF ThreadReadReturns, ThreadCallback, AtMost, OtherTypes
  <2> QED BY <2>1, <2>2
<1>7. CASE ThreadTest \/ ThreadLoad \/ ThreadRead \/ ThreadReturn \/ ThreadInterrupted
  <2> USE DEF ThreadTest, ThreadLoad, ThreadRead, ThreadReturn, ThreadInterrupted, AfterEintr
  <2>1. BooleanTypes'
    BY <1>7 DEF BooleanTypes
  <2>2. OtherTypes'
    BY <1>7 DEF OtherTypes
  <2> QED BY <2>1, <2>2
<1>8. CASE Expire
  <2>1. BooleanTypes'
    BY <1>8 DEF Expire, BooleanTypes
  <2>2. OtherTypes'
    BY <1>8 DEF Expire, AtMost, OtherTypes
  <2> QED BY <2>1, <2>2
<1>9. CASE UNCHANGED vars
  BY <1>9 DEF vars, BooleanTypes, OtherTypes
<1> QED BY <1>1, <1>2, <1>3, <1>4, <1>5, <1>6, <1>7, <1>8, <1>9 DEF Next, Thread

\* The owner sets t->stop first.
LEMMA DestroyOrderStep ==
  TypeOK /\ DestroyOrder /\ [Next]_vars => DestroyOrder'
<1> SUFFICES ASSUME TypeOK, DestroyOrder, [Next]_vars PROVE DestroyOrder'
  OBVIOUS
<1>0. BooleanTypes /\ OtherTypes
  BY TypeParts
<1> USE DEF DestroyOrder, handle, kernel, history
<1>1. ASSUME NEW c \in Configs, NEW w \in BOOLEAN, hal_timer_create(c, w)
      PROVE  DestroyOrder'
  BY <1>1 DEF hal_timer_create
<1>2. CASE hal_timer_start \/ hal_timer_stop
  BY <1>2 DEF hal_timer_start, hal_timer_stop
<1>3. CASE DestroyStop
  BY <1>3 DEF DestroyStop
<1>4. CASE Destroy
  BY <1>4 DEF Destroy, DestroyClear, DestroyClose, DestroyFree
<1>5. CASE Thread \/ ThreadInterrupted
  BY <1>5 DEF Thread, ThreadTest, ThreadLoad, ThreadRead, ThreadReadReturns,
              ThreadCallback, ThreadReturn, ThreadInterrupted
<1>6. CASE Expire
  BY <1>6 DEF Expire
<1>7. CASE UNCHANGED vars
  BY <1>7 DEF vars
<1> QED BY <1>1, <1>2, <1>3, <1>4, <1>5, <1>6, <1>7 DEF Next

\* A start pays for the one expiration it arms; read() passes it on to the
\* callback, and a stop or a second start takes back what was not read.
LEMMA OneShotBudgetStep ==
  TypeOK /\ OneShotBudget /\ [Next]_vars => OneShotBudget'
<1> SUFFICES ASSUME TypeOK, OneShotBudget, [Next]_vars PROVE OneShotBudget'
  OBVIOUS
<1>0. OtherTypes
  BY TypeParts
<1> USE <1>0, TimerAssumption DEF OneShotBudget, OneShotPending, InHand, OtherTypes, handle, kernel, history
<1>1. ASSUME NEW c \in Configs, NEW w \in BOOLEAN, hal_timer_create(c, w)
      PROVE  OneShotBudget'
  BY <1>1 DEF hal_timer_create
<1>2. CASE hal_timer_start
  BY <1>2 DEF hal_timer_start, timerfd_settime, StartValue, StartInterval
<1>3. CASE hal_timer_stop
  BY <1>3 DEF hal_timer_stop, timerfd_settime, StopValue
<1>4. CASE DestroyStop \/ Destroy
  BY <1>4 DEF DestroyStop, Destroy, DestroyClear, DestroyClose, DestroyFree
<1>5. CASE ThreadReadReturns \/ ThreadCallback
  BY <1>5 DEF ThreadReadReturns, ThreadCallback, AtMost
<1>6. CASE ThreadTest \/ ThreadLoad \/ ThreadRead \/ ThreadReturn \/ ThreadInterrupted
  BY <1>6 DEF ThreadTest, ThreadLoad, ThreadRead, ThreadReturn, ThreadInterrupted, AfterEintr
<1>7. CASE Expire
  BY <1>7 DEF Expire, AtMost
<1>8. CASE UNCHANGED vars
  BY <1>8 DEF vars
<1> QED BY <1>1, <1>2, <1>3, <1>4, <1>5, <1>6, <1>7, <1>8 DEF Next, Thread

\* A late callback needs an expiration in hand when the timer is stopped, or a
\* thread past its test of t->stop when hal_timer_destroy sets it, and neither
\* comes twice.
LEMMA LateCallbacksStep ==
  TypeOK /\ DestroyOrder /\ LateCallbacks /\ [Next]_vars => LateCallbacks'
<1> SUFFICES ASSUME TypeOK, DestroyOrder, LateCallbacks, [Next]_vars PROVE LateCallbacks'
  OBVIOUS
<1>0. OtherTypes
  BY TypeParts
<1> USE <1>0, TimerAssumption DEF LateCallbacks, InHand, OtherTypes, handle, kernel, history
<1>1. ASSUME NEW c \in Configs, NEW w \in BOOLEAN, hal_timer_create(c, w)
      PROVE  LateCallbacks'
  BY <1>1 DEF hal_timer_create
<1>2. CASE hal_timer_start
  <2>1. CASE owner = "idle"
    <3>1. ~quiet' /\ owner' = "idle" /\ late' = 0 /\ tpc' = tpc
      BY <1>2, <2>1 DEF hal_timer_start
    <3> QED BY <3>1
  <2>2. CASE owner # "idle"
    BY <1>2, <2>2 DEF hal_timer_start, MayCall, timerfd_settime
  <2> QED BY <2>1, <2>2
<1>3. CASE hal_timer_stop
  BY <1>3 DEF hal_timer_stop, timerfd_settime, StopValue, BecomeQuiet
<1>4. CASE DestroyStop
  BY <1>4 DEF DestroyStop, BecomeQuiet
<1>5. CASE Destroy
  BY <1>5 DEF Destroy, DestroyClear, DestroyClose, DestroyFree
<1>6. CASE ThreadTest
  BY <1>6 DEF ThreadTest, DestroyOrder
<1>7. CASE ThreadCallback
  BY <1>7 DEF ThreadCallback, AtMost, DestroyOrder
<1>8. CASE ThreadLoad \/ ThreadRead \/ ThreadReadReturns \/ ThreadReturn \/ ThreadInterrupted
  BY <1>8 DEF ThreadLoad, ThreadRead, ThreadReadReturns, ThreadReturn, ThreadInterrupted, AfterEintr
<1>9. CASE Expire
  BY <1>9 DEF Expire
<1>10. CASE UNCHANGED vars
  BY <1>10 DEF vars
<1> QED BY <1>1, <1>2, <1>3, <1>4, <1>5, <1>6, <1>7, <1>8, <1>9, <1>10 DEF Next, Thread

-----------------------------------------------------------------------------
(* The theorems.                                                           *)

\* The conjunction of the parts is inductive.
THEOREM TimerInvariance == Spec => []TimerInvariant
<1>1. TimerInvariant /\ [Next]_vars => TimerInvariant'
  BY TypeStep, DestroyOrderStep, OneShotBudgetStep, LateCallbacksStep DEF TimerInvariant
<1> QED BY InitInvariant, <1>1, PTL DEF Spec

\* Every variable of the timer keeps its type under any configuration.
THEOREM TimerTypeCorrect == Spec => []TypeOK
<1>1. TimerInvariant => TypeOK
  BY DEF TimerInvariant
<1> QED BY TimerInvariance, <1>1, PTL

\* A one-shot timer never calls back more often than it was started, however
\* starts, stops, expirations and the thread interleave.
THEOREM OneShotBounded == Spec => []OneShotFiresOnce
<1>1. TimerInvariant => OneShotFiresOnce
  BY DEF TimerInvariant, OneShotBudget, OneShotPending, InHand, OneShotFiresOnce, TypeOK
<1> QED BY TimerInvariance, <1>1, PTL

\* At most one callback begins after hal_timer_stop or once hal_timer_destroy
\* has begun, with the stop or destroy at any point between read() and t->cb,
\* and also when that callback starts a timer that is being destroyed.
THEOREM LateCallbackBounded == Spec => []AtMostOneLateCallback
<1>1. TimerInvariant => AtMostOneLateCallback
  BY DEF TimerInvariant, LateCallbacks, InHand, AtMostOneLateCallback, TypeOK
<1> QED BY TimerInvariance, <1>1, PTL

=============================================================================
