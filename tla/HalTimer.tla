------------------------------ MODULE HalTimer ------------------------------
(***************************************************************************)
(* The timers of platform/hal/src/hal_system.c: hal_timer_create, _start,  *)
(* _stop and _destroy called by the owner of the handle, the thread        *)
(* timer_thread_main that reads the timerfd and calls back, and the        *)
(* timerfd of the kernel (external, from how the code uses it).            *)
(*                                                                         *)
(* A callback may call hal_timer_start and hal_timer_stop on its own       *)
(* handle; hal_timer_destroy joins the thread and is called by the owner.  *)
(* Times are kept in milliseconds: the split into seconds and nanoseconds  *)
(* is exact for every uint32_t.  A failed hal_timer_create releases what   *)
(* it had acquired and changes nothing.                                    *)
(***************************************************************************)
EXTENDS Integers

CONSTANTS Configs,     \* the hal_timer_config_t a caller may pass
          MaxStarts,   \* bound on hal_timer_start calls per handle
          MaxTicks     \* expirations the kernel counter is followed up to

ASSUME TimerAssumption ==
  /\ Configs \subseteq [initial_ms : Nat, interval_ms : Nat, periodic : BOOLEAN]
  /\ MaxStarts \in Nat
  /\ MaxTicks \in Nat \ {0}

VARIABLES
  owner,        \* the owner's progress: no handle, using it, inside hal_timer_destroy
  cfg, cb,      \* t->cfg; whether t->cb is set
  fd,           \* t->fd >= 0
  stop,         \* t->stop
  tpc,          \* program counter of timer_thread_main
  rfd,          \* t->fd >= 0 when the thread loaded it for read()
  open,         \* the descriptor is open in the process
  it_value,     \* kernel: time to the next expiration, 0 when disarmed
  it_interval,  \* kernel: period, 0 for one expiration
  ticks,        \* kernel: expirations not read yet
  starts,       \* history: hal_timer_start calls on this handle
  fires,        \* history: callbacks begun on this handle
  due,          \* history: "started", "read" once an expiration of that start was
                \* read, "no" after its callback, a stop or a destroy
  quiet,        \* history: stopped or being destroyed, not started since
  late          \* history: callbacks begun since the timer became quiet

kernel == <<it_value, it_interval, ticks>>
history == <<starts, fires, due, quiet, late>>
handle == <<cfg, cb>>
vars == <<owner, handle, fd, stop, tpc, rfd, open, kernel, history>>

AtMost(n, bound) == IF n <= bound THEN n ELSE bound

Init ==
  /\ owner = "null"
  /\ cfg = [initial_ms |-> 0, interval_ms |-> 0, periodic |-> FALSE]
  /\ cb = FALSE
  /\ fd = FALSE
  /\ stop = FALSE
  /\ tpc = "none"
  /\ rfd = FALSE
  /\ open = FALSE
  /\ it_value = 0
  /\ it_interval = 0
  /\ ticks = 0
  /\ starts = 0
  /\ fires = 0
  /\ due = "no"
  /\ quiet = TRUE
  /\ late = 0

-----------------------------------------------------------------------------
(* The API.                                                                *)

\* A new handle: stopped, with a thread when there is a callback.
hal_timer_create(c, withCallback) ==
  /\ owner \in {"null", "freed"}
  /\ owner' = "idle"
  /\ cfg' = c
  /\ cb' = withCallback
  /\ fd' = TRUE
  /\ open' = TRUE
  /\ stop' = FALSE
  /\ tpc' = IF withCallback THEN "test" ELSE "none"
  /\ rfd' = FALSE
  /\ it_value' = 0 /\ it_interval' = 0 /\ ticks' = 0
  /\ starts' = 0 /\ fires' = 0 /\ due' = "no" /\ quiet' = TRUE /\ late' = 0

\* timerfd_settime replaces the setting and forgets unread expirations.
timerfd_settime(value, interval) ==
  /\ it_value' = value
  /\ it_interval' = interval
  /\ ticks' = 0

\* The owner or the running callback may call start and stop.
MayCall == owner = "idle" \/ (tpc = "callback" /\ fd)

\* Mutant: the delay is one millisecond short.
BugStartValue == cfg.initial_ms - 1

StartValue == cfg.initial_ms

\* Mutant: one-shot timers get the period too.
BugStartInterval == cfg.interval_ms

StartInterval == IF cfg.periodic THEN cfg.interval_ms ELSE 0

\* A start during hal_timer_destroy does not make the timer wanted again.
hal_timer_start ==
  /\ MayCall
  /\ starts < MaxStarts
  /\ timerfd_settime(StartValue, StartInterval)
  /\ starts' = starts + 1
  /\ due' = IF owner = "idle" THEN "started" ELSE "no"
  /\ quiet' = (owner # "idle")
  /\ late' = IF owner = "idle" THEN 0 ELSE late
  /\ UNCHANGED <<owner, handle, fd, stop, tpc, rfd, open, fires>>

\* From here on callbacks are late; a quiet timer stays so.
BecomeQuiet ==
  /\ due' = "no"
  /\ quiet' = TRUE
  /\ late' = IF quiet THEN late ELSE 0

\* Mutant: the next expiration is cancelled, the period is not.
BugStopValue == it_interval

StopValue == 0

hal_timer_stop ==
  /\ MayCall
  /\ timerfd_settime(StopValue, StopValue)
  /\ BecomeQuiet
  /\ UNCHANGED <<owner, handle, fd, stop, tpc, rfd, open, starts, fires>>

\* hal_timer_destroy, in order: t->stop = 1, t->fd = -1, close, join, free.
DestroyStop ==
  /\ owner = "idle"
  /\ stop' = TRUE
  /\ owner' = "clear"
  /\ BecomeQuiet
  /\ UNCHANGED <<handle, fd, tpc, rfd, open, kernel, starts, fires>>

DestroyClear ==
  /\ owner = "clear"
  /\ fd' = FALSE
  /\ owner' = "close"
  /\ UNCHANGED <<handle, stop, tpc, rfd, open, kernel, history>>

\* Mutant: the timer is disarmed before its descriptor is closed.
BugCloseDisarms ==
  /\ owner = "close"
  /\ open' = FALSE
  /\ owner' = "join"
  /\ timerfd_settime(0, 0)
  /\ UNCHANGED <<handle, fd, stop, tpc, rfd, history>>

\* A read() already blocked keeps the timerfd alive and is not woken.
DestroyClose ==
  /\ owner = "close"
  /\ open' = FALSE
  /\ owner' = "join"
  /\ UNCHANGED <<handle, fd, stop, tpc, rfd, kernel, history>>

Joined == tpc \in {"none", "exited"}

\* pthread_join, when there is a thread, and free.
DestroyFree ==
  /\ owner = "join"
  /\ Joined
  /\ owner' = "freed"
  /\ UNCHANGED <<handle, fd, stop, tpc, rfd, open, kernel, history>>

Destroy == DestroyClear \/ DestroyClose \/ DestroyFree

-----------------------------------------------------------------------------
(* timer_thread_main.                                                      *)

\* while (!t->stop), and the load of t->fd as read()'s argument.
ThreadTest ==
  /\ tpc = "test"
  /\ tpc' = IF stop THEN "exited" ELSE "load"
  /\ UNCHANGED <<owner, handle, fd, stop, rfd, open, kernel, history>>

ThreadLoad ==
  /\ tpc = "load"
  /\ rfd' = fd
  /\ tpc' = "read"
  /\ UNCHANGED <<owner, handle, fd, stop, open, kernel, history>>

\* read() of -1 or of a closed descriptor fails and ends the loop.
ThreadRead ==
  /\ tpc = "read"
  /\ tpc' = IF rfd /\ open THEN "blocked" ELSE "exited"
  /\ UNCHANGED <<owner, handle, fd, stop, rfd, open, kernel, history>>

\* read() returns the expirations: the kernel has none left, and neither a stop
\* nor a destroy takes this one back.
ThreadReadReturns ==
  /\ tpc = "blocked"
  /\ ticks > 0
  /\ ticks' = 0
  /\ tpc' = "got"
  /\ due' = IF due = "started" THEN "read" ELSE due
  /\ UNCHANGED <<owner, handle, fd, stop, rfd, open, it_value, it_interval, starts, fires, quiet, late>>

\* t->cb is called, whatever the owner did since read() returned.
ThreadCallback ==
  /\ tpc = "got"
  /\ tpc' = "callback"
  /\ fires' = AtMost(fires + 1, MaxStarts + 1)
  /\ due' = IF due = "read" THEN "no" ELSE due
  /\ late' = IF quiet THEN AtMost(late + 1, 2) ELSE late
  /\ UNCHANGED <<owner, handle, fd, stop, rfd, open, kernel, starts, quiet>>

ThreadReturn ==
  /\ tpc = "callback"
  /\ tpc' = "test"
  /\ UNCHANGED <<owner, handle, fd, stop, rfd, open, kernel, history>>

\* Mutant: every failed read ends the thread.
BugAfterEintr == "exited"

AfterEintr == "test"

\* A signal interrupts the blocked read() with EINTR: the loop continues.
ThreadInterrupted ==
  /\ tpc = "blocked"
  /\ ticks = 0
  /\ tpc' = AfterEintr
  /\ UNCHANGED <<owner, handle, fd, stop, rfd, open, kernel, history>>

Thread ==
  \/ ThreadTest \/ ThreadLoad \/ ThreadRead
  \/ ThreadReadReturns \/ ThreadCallback \/ ThreadReturn

\* The kernel: an armed timer of a live timerfd expires and is re-armed with
\* its period.
Expire ==
  /\ open \/ tpc = "blocked"
  /\ it_value > 0
  /\ ticks' = AtMost(ticks + 1, MaxTicks)
  /\ it_value' = it_interval
  /\ UNCHANGED <<owner, handle, fd, stop, tpc, rfd, open, it_interval, history>>

-----------------------------------------------------------------------------

Next ==
  \/ \E c \in Configs, withCallback \in BOOLEAN : hal_timer_create(c, withCallback)
  \/ hal_timer_start
  \/ hal_timer_stop
  \/ DestroyStop
  \/ Destroy
  \/ Thread
  \/ ThreadInterrupted
  \/ Expire

Spec == Init /\ [][Next]_vars

\* The thread and the kernel's timers run, callbacks return, and a call of
\* hal_timer_destroy goes on as far as it can; no API call or signal is owed.
Fairness == WF_vars(Thread) /\ WF_vars(Expire) /\ WF_vars(Destroy)

FairSpec == Spec /\ Fairness

-----------------------------------------------------------------------------

\* Every variable has a value of its type.
TypeOK ==
  /\ owner \in {"null", "idle", "clear", "close", "join", "freed"}
  /\ cfg \in [initial_ms : Nat, interval_ms : Nat, periodic : BOOLEAN]
  /\ {cb, fd, stop, rfd, open, quiet} \subseteq BOOLEAN
  /\ tpc \in {"none", "test", "load", "read", "blocked", "got", "callback", "exited"}
  /\ due \in {"no", "started", "read"}
  /\ it_value \in Nat /\ it_interval \in Nat
  /\ ticks \in 0..MaxTicks
  /\ starts \in 0..MaxStarts
  /\ fires \in 0..(MaxStarts + 1)
  /\ late \in 0..2

\* A one-shot timer calls back at most once for each hal_timer_start, also when
\* it is started again while an expiration already read waits for its callback.
OneShotFiresOnce == ~cfg.periodic => fires <= starts

\* After hal_timer_stop has returned, or once hal_timer_destroy has begun, at
\* most one callback still begins: the one whose expiration the thread had read
\* when the timer was stopped, or reads in its last turn before it sees t->stop.
AtMostOneLateCallback == late <= 1

\* A timer with a callback and a delay calls it for an expiration of its last
\* start, unless it is stopped or destroyed, whatever signals interrupt its
\* thread; a callback left over from before that start does not count.
StartedTimerFires == (due # "no" /\ cb /\ cfg.initial_ms > 0) ~> due = "no"

\* hal_timer_destroy of a timer that is armed or has no thread returns.
DestroyOfArmedReturns ==
  (owner = "close" /\ (it_value > 0 \/ ticks > 0 \/ ~cb)) ~> (owner = "freed")

\* hal_timer_destroy returns and releases everything (docs/hal.md, 7.2:
\* closing must release all resources, threads included).
DestroyReturns == (owner = "join") ~> (owner = "freed")

=============================================================================
