------------------------------ MODULE HalUart ------------------------------
(***************************************************************************)
(* platform/hal/src/hal_uart.c: one UART handle used by several threads.   *)
(* hal_uart_open makes it; hal_uart_read, _write, _flush, _set_baudrate    *)
(* and _close use it.  h->mu guards the handle's fields and the settings   *)
(* of the line; read, write and flush copy h->fd under it and do their     *)
(* I/O after releasing it.  The tty (its settings, its two queues, poll,   *)
(* read, write, tcflush) is external, from how the code uses it: the       *)
(* descriptor is opened without O_NONBLOCK, so read() waits for input and  *)
(* write() until the tty has taken the whole buffer.                       *)
(*                                                                         *)
(* Settings are abstracted to the rate of the line and whether it is raw;  *)
(* a config to its rate and whether the bits, stop, parity and flow fields *)
(* are in range.  hal_uart_get_fd changes nothing and is left out.         *)
(***************************************************************************)
EXTENDS Integers, Sequences

CONSTANTS
  Threads,
  None,        \* no thread: h->mu is free
  Ops,         \* Ops[t]: the calls thread t makes
  Rates,       \* rates a caller asks for; 0 is refused by the code
  MaxLen,      \* bound on the length of a buffer
  TxCap,       \* output queue of the tty
  RxCap,       \* input queue of the tty
  Quiesced     \* callers close the handle only when no other call is going on

OpNames == {"read", "write", "flush", "baud", "close"}

ASSUME UartAssumption ==
  /\ None \notin Threads
  /\ Ops \in [Threads -> SUBSET OpNames]
  /\ Rates \subseteq Nat
  /\ MaxLen \in Nat \ {0}
  /\ TxCap \in Nat \ {0}
  /\ RxCap \in Nat \ {0}
  /\ Quiesced \in BOOLEAN

VARIABLES
  opening,    \* progress of hal_uart_open
  alive,      \* the handle is allocated
  hfd,        \* h->fd >= 0
  cfg,        \* h->cfg.baudrate
  saved,      \* h->tio_saved
  mu,         \* holder of h->mu
  fdopen,     \* the descriptor is open
  tio,        \* settings of the line
  txq, rxq,   \* bytes in the tty's queues
  pc,         \* where each thread is
  req,        \* its call
  n,          \* written, or the bytes read
  w,          \* bytes the tty has taken from the write() going on
  waited,     \* poll() has waited all but the last of its timeout
  out,        \* *out_write_len, *out_read_len
  st,         \* the status returned
  sent,       \* history: positions of the buffer handed to the tty by this call
  before,     \* history: settings of the line when it was opened
  restored    \* history: the restoring tcsetattr of the last close worked

thread == <<pc, req, n, w, waited, out, st, sent>>
handle == <<alive, hfd, cfg, saved>>
line == <<fdopen, tio, txq, rxq>>
vars == <<opening, handle, mu, line, thread, before, restored>>

Settings == [raw : BOOLEAN, rate : Nat]
Cooked == [raw |-> FALSE, rate |-> 9600]
Status == {"HAL_OK", "HAL_ERR_TIMEOUT", "HAL_ERR_IO", "HAL_ERR_INVALID_PARAM", "errno"}
IdleReq == [op |-> "none", len |-> 0, finite |-> TRUE, rate |-> 0]

Init ==
  /\ opening = "none"
  /\ alive = FALSE
  /\ hfd = FALSE
  /\ cfg = 0
  /\ saved = Cooked
  /\ mu = None
  /\ fdopen = FALSE
  /\ tio = Cooked
  /\ txq = 0
  /\ rxq = 0
  /\ pc = [t \in Threads |-> "idle"]
  /\ req = [t \in Threads |-> IdleReq]
  /\ n = [t \in Threads |-> 0]
  /\ w = [t \in Threads |-> 0]
  /\ waited = [t \in Threads |-> FALSE]
  /\ out = [t \in Threads |-> 0]
  /\ st = [t \in Threads |-> "HAL_OK"]
  /\ sent = [t \in Threads |-> <<>>]
  /\ before = Cooked
  /\ restored = TRUE

-----------------------------------------------------------------------------
(* hal_uart_open.                                                          *)

\* open() of the device; on failure, or a bad argument, nothing has happened.
OpenDevice ==
  /\ opening = "none" /\ ~alive
  /\ \A t \in Threads : pc[t] = "idle"
  /\ opening' = "alloc"
  /\ fdopen' = TRUE
  /\ before' = tio
  /\ UNCHANGED <<handle, mu, tio, txq, rxq, thread, restored>>

OpenAlloc ==
  /\ opening = "alloc"
  /\ opening' = "config"
  /\ alive' = TRUE
  /\ hfd' = TRUE
  /\ UNCHANGED <<cfg, saved, mu, line, thread, before, restored>>

\* Whether the error path of a stage closes the descriptor.
OpenFailCloses(stage) == stage \in {"alloc", "config"}

\* calloc fails, or hal_uart_apply_config_locked does, before setting the line.
OpenFail ==
  /\ opening \in {"alloc", "config"}
  /\ fdopen' = (fdopen /\ ~OpenFailCloses(opening))
  /\ alive' = FALSE
  /\ hfd' = FALSE
  /\ opening' = "none"
  /\ UNCHANGED <<cfg, saved, mu, tio, txq, rxq, thread, before, restored>>

\* The settings hal_uart_apply_config_locked gives the line.
Applied(rate) == [raw |-> TRUE, rate |-> rate]

\* hal_uart_apply_config_locked with keep_saved = 0, and the handle returned.
OpenConfig(rate) ==
  /\ opening = "config"
  /\ rate # 0
  /\ saved' = tio
  /\ tio' = Applied(rate)
  /\ cfg' = rate
  /\ opening' = "none"
  /\ UNCHANGED <<alive, hfd, mu, fdopen, txq, rxq, thread, before, restored>>

-----------------------------------------------------------------------------
(* Calls on an open handle.                                                *)

Usable == alive /\ opening = "none"

Go(t, label) == pc' = [pc EXCEPT ![t] = label]

\* The call returns with status s and out bytes reported.
Finish(t, s, bytes) ==
  /\ Go(t, "done")
  /\ st' = [st EXCEPT ![t] = s]
  /\ out' = [out EXCEPT ![t] = bytes]

\* Arguments are checked before the lock is taken: a call with an empty
\* buffer or a zero rate returns at once.
Immediate(r) ==
  \/ r.op \in {"read", "write"} /\ r.len = 0
  \/ r.op = "baud" /\ r.rate = 0

Requests(op) ==
  CASE op \in {"read", "write"} ->
         {[op |-> op, len |-> l, finite |-> f, rate |-> 0] : l \in 0..MaxLen, f \in BOOLEAN}
    [] op = "baud" -> {[op |-> op, len |-> 0, finite |-> TRUE, rate |-> r] : r \in Rates}
    [] OTHER -> {[op |-> op, len |-> 0, finite |-> TRUE, rate |-> 0]}

Call(t, r) ==
  /\ Usable
  /\ pc[t] = "idle"
  /\ r.op = "close" => ~Quiesced \/ \A u \in Threads : pc[u] = "idle"
  /\ \A u \in Threads : pc[u] # "idle" => req[u].op # "close"
  /\ req' = [req EXCEPT ![t] = r]
  /\ n' = [n EXCEPT ![t] = 0]
  /\ sent' = [sent EXCEPT ![t] = <<>>]
  /\ out' = [out EXCEPT ![t] = 0]
  /\ IF Immediate(r)
     THEN /\ Go(t, "done")
          /\ st' = [st EXCEPT ![t] = IF r.op = "baud" THEN "HAL_ERR_INVALID_PARAM" ELSE "HAL_OK"]
     ELSE Go(t, "lock") /\ UNCHANGED st
  /\ UNCHANGED <<opening, handle, mu, line, w, waited, before, restored>>

Return(t) ==
  /\ pc[t] = "done"
  /\ Go(t, "idle")
  /\ req' = [req EXCEPT ![t] = IdleReq]
  /\ n' = [n EXCEPT ![t] = 0]
  /\ out' = [out EXCEPT ![t] = 0]
  /\ st' = [st EXCEPT ![t] = "HAL_OK"]
  /\ sent' = [sent EXCEPT ![t] = <<>>]
  /\ UNCHANGED <<opening, handle, mu, line, w, waited, before, restored>>

\* read, write and flush: h->fd copied under h->mu.
CopyFd(t) ==
  /\ pc[t] = "lock" /\ req[t].op \in {"read", "write", "flush"}
  /\ alive /\ mu = None
  /\ IF hfd
     THEN Go(t, IF req[t].op = "flush" THEN "io" ELSE "poll") /\ UNCHANGED <<out, st>>
     ELSE Finish(t, "HAL_ERR_IO", 0)
  /\ UNCHANGED <<opening, handle, mu, line, req, n, w, waited, sent, before, restored>>

-----------------------------------------------------------------------------
(* hal_uart_wait_fd.  The error paths of a write report what was written   *)
(* so far, of a read 0.                                                    *)

Ready(t) == IF req[t].op = "write" THEN txq < TxCap ELSE rxq > 0

\* Mutant: every poll() waits without limit.
BugTimesOut(r) == FALSE

\* A timeout_ms below 0 is unlimited.
TimesOut(r) == r.finite

\* poll() returns: its wait is over.
PollEnds(t) == waited' = [waited EXCEPT ![t] = FALSE]

PollReady(t) ==
  /\ pc[t] = "poll"
  /\ fdopen /\ Ready(t)
  /\ Go(t, "io") /\ PollEnds(t)
  /\ UNCHANGED <<opening, handle, mu, line, req, n, w, out, st, sent, before, restored>>

PollWaits(t) ==
  /\ pc[t] = "poll" /\ TimesOut(req[t]) /\ ~waited[t]
  /\ waited' = [waited EXCEPT ![t] = TRUE]
  /\ UNCHANGED <<opening, handle, mu, line, pc, req, n, w, out, st, sent, before, restored>>

\* EINTR: poll() is called again, with the whole timeout.
PollInterrupted(t) ==
  /\ pc[t] = "poll" /\ waited[t]
  /\ PollEnds(t)
  /\ UNCHANGED <<opening, handle, mu, line, pc, req, n, w, out, st, sent, before, restored>>

PollTimeout(t) ==
  /\ pc[t] = "poll" /\ waited[t]
  /\ ~Ready(t)
  /\ Finish(t, "HAL_ERR_TIMEOUT", n[t]) /\ PollEnds(t)
  /\ UNCHANGED <<opening, handle, mu, line, req, n, w, sent, before, restored>>

\* POLLERR, POLLHUP or POLLNVAL, or poll() itself fails.
PollError(t) ==
  /\ pc[t] = "poll"
  /\ \E s \in {"HAL_ERR_IO", "errno"} : Finish(t, s, n[t])
  /\ PollEnds(t)
  /\ UNCHANGED <<opening, handle, mu, line, req, n, w, sent, before, restored>>

-----------------------------------------------------------------------------
(* The I/O itself, on the copied descriptor.                               *)

\* read() waits for input and takes what there is, up to length.
TtyRead(t) ==
  /\ pc[t] = "io" /\ req[t].op = "read" /\ fdopen
  /\ \E k \in 1..RxCap :
       /\ k <= rxq /\ k <= req[t].len
       /\ rxq' = rxq - k
       /\ n' = [n EXCEPT ![t] = k]
       /\ Finish(t, "HAL_OK", k)
  /\ UNCHANGED <<opening, handle, mu, fdopen, tio, txq, req, w, waited, sent, before, restored>>

\* The line was hung up after the poll: read() returns 0.
TtyReadEnd(t) ==
  /\ pc[t] = "io" /\ req[t].op = "read" /\ fdopen
  /\ Finish(t, "HAL_OK", 0)
  /\ UNCHANGED <<opening, handle, mu, line, req, n, w, waited, sent, before, restored>>

\* Mutant: every write() starts at the beginning of the buffer.
BugFrom(t) == 0

\* write() is given buffer + written.
From(t) == n[t]

\* Mutant: the length is not reduced by what was written.
BugRest(t) == req[t].len

Rest(t) == req[t].len - n[t]

\* write() returns k: written += k.  A finite timeout only promises some
\* progress: one write() and no more.
WriteReturns(t, k) ==
  /\ n' = [n EXCEPT ![t] = @ + k]
  /\ w' = [w EXCEPT ![t] = 0]
  /\ IF n[t] + k >= req[t].len \/ req[t].finite
     THEN Finish(t, "HAL_OK", n[t] + k)
     ELSE Go(t, "poll") /\ UNCHANGED <<out, st>>

\* The tty takes bytes as it has room, of one write() at a time, and write()
\* returns when it has taken them all, however long that is.
TtyWrite(t) ==
  /\ pc[t] = "io" /\ req[t].op = "write" /\ fdopen
  /\ \A u \in Threads \ {t} : w[u] = 0
  /\ \E k \in 1..TxCap :
       /\ k <= TxCap - txq /\ k <= Rest(t) - w[t]
       /\ txq' = txq + k
       /\ sent' = [sent EXCEPT ![t] = @ \o [i \in 1..k |-> From(t) + w[t] + i]]
       /\ IF w[t] + k = Rest(t)
          THEN WriteReturns(t, w[t] + k)
          ELSE w' = [w EXCEPT ![t] = @ + k] /\ UNCHANGED <<pc, n, out, st>>
  /\ UNCHANGED <<opening, handle, mu, fdopen, tio, rxq, req, waited, before, restored>>

\* A signal, or the line hung up, ends a write() that has taken a part.
TtyWriteCut(t) ==
  /\ pc[t] = "io" /\ req[t].op = "write" /\ w[t] > 0
  /\ WriteReturns(t, w[t])
  /\ UNCHANGED <<opening, handle, mu, line, req, waited, sent, before, restored>>

tcflush(t) ==
  /\ pc[t] = "io" /\ req[t].op = "flush" /\ fdopen
  /\ txq' = 0
  /\ rxq' = 0
  /\ Finish(t, "HAL_OK", 0)
  /\ UNCHANGED <<opening, handle, mu, fdopen, tio, req, n, w, waited, sent, before, restored>>

\* read(), write() or tcflush() fails with anything but EINTR.
IoError(t) ==
  /\ pc[t] = "io" /\ w[t] = 0
  /\ Finish(t, "errno", n[t])
  /\ UNCHANGED <<opening, handle, mu, line, req, n, w, waited, sent, before, restored>>

-----------------------------------------------------------------------------
(* hal_uart_set_baudrate: the line is set, then h->cfg, all under h->mu.   *)

\* Mutant: the lock is not taken.
BugBaudHolder(t) == None

BaudHolder(t) == t

BaudLock(t) ==
  /\ pc[t] = "lock" /\ req[t].op = "baud"
  /\ alive /\ mu = None
  /\ IF hfd
     THEN mu' = BaudHolder(t) /\ Go(t, "set") /\ UNCHANGED <<out, st>>
     ELSE Finish(t, "HAL_ERR_IO", 0) /\ UNCHANGED mu
  /\ UNCHANGED <<opening, handle, line, req, n, w, waited, sent, before, restored>>

\* Mutant: the settings to restore are taken on every change.
BugResaved == tio

\* keep_saved = 1: the settings to restore are those found by hal_uart_open.
Resaved == saved

BaudSet(t) ==
  /\ pc[t] = "set"
  /\ saved' = Resaved
  /\ tio' = Applied(req[t].rate)
  /\ Go(t, "store")
  /\ UNCHANGED <<opening, alive, hfd, cfg, mu, fdopen, txq, rxq, req, n, w, waited, out, st,
                 sent, before, restored>>

\* h->cfg = *cfg and the unlock.
BaudStore(t) ==
  /\ pc[t] = "store"
  /\ cfg' = req[t].rate
  /\ mu' = None
  /\ Finish(t, "HAL_OK", 0)
  /\ UNCHANGED <<opening, alive, hfd, saved, line, req, n, w, waited, sent, before, restored>>

\* tcgetattr, tcsetattr or the ioctl fails: line and h->cfg keep their rate.
BaudFail(t) ==
  /\ pc[t] = "set"
  /\ mu' = None
  /\ Finish(t, "errno", 0)
  /\ UNCHANGED <<opening, handle, line, req, n, w, waited, sent, before, restored>>

-----------------------------------------------------------------------------
(* hal_uart_close: settings restored and h->fd = -1 under h->mu, then      *)
(* close(), then the mutex and the handle are destroyed.                   *)

CloseRestore(t) ==
  /\ pc[t] = "lock" /\ req[t].op = "close"
  /\ alive /\ mu = None
  /\ \/ tio' = saved /\ restored' = TRUE
     \/ tio' = tio /\ restored' = FALSE     \* (void)tcsetattr(...)
  /\ hfd' = FALSE
  /\ Go(t, "close")
  /\ UNCHANGED <<opening, alive, cfg, saved, mu, fdopen, txq, rxq, req, n, w, waited, out, st,
                 sent, before>>

\* close() releases the descriptor whatever it returns.
CloseFd(t) ==
  /\ pc[t] = "close"
  /\ fdopen' = FALSE
  /\ txq' = 0
  /\ rxq' = 0
  /\ Go(t, "free")
  /\ UNCHANGED <<opening, handle, mu, tio, req, n, w, waited, out, st, sent, before, restored>>

CloseFree(t) ==
  /\ pc[t] = "free"
  /\ alive' = FALSE
  /\ \E s \in {"HAL_OK", "errno"} : Finish(t, s, 0)
  /\ UNCHANGED <<opening, hfd, cfg, saved, mu, line, req, n, w, waited, sent, before, restored>>

-----------------------------------------------------------------------------
(* The line (external).                                                    *)

Transmit ==
  /\ fdopen /\ txq > 0
  /\ txq' = txq - 1
  /\ UNCHANGED <<opening, handle, mu, fdopen, tio, rxq, thread, before, restored>>

Receive ==
  /\ fdopen /\ rxq < RxCap
  /\ rxq' = rxq + 1
  /\ UNCHANGED <<opening, handle, mu, fdopen, tio, txq, thread, before, restored>>

-----------------------------------------------------------------------------
Open == OpenDevice \/ OpenAlloc \/ OpenFail \/ \E r \in Rates : OpenConfig(r)

\* What a thread does in a call whatever the environment brings.
Proceed(t) ==
  \/ Return(t) \/ CopyFd(t)
  \/ PollReady(t) \/ PollWaits(t) \/ PollTimeout(t)
  \/ TtyRead(t) \/ TtyWrite(t) \/ tcflush(t)
  \/ BaudLock(t) \/ BaudSet(t) \/ BaudStore(t)
  \/ CloseRestore(t) \/ CloseFd(t) \/ CloseFree(t)

\* Signals, failures, and the line hung up.
Fault(t) ==
  \/ PollInterrupted(t) \/ PollError(t)
  \/ TtyReadEnd(t) \/ TtyWriteCut(t) \/ IoError(t)
  \/ BaudFail(t)

Next ==
  \/ Open
  \/ \E t \in Threads :
       \/ \E op \in Ops[t] : \E r \in Requests(op) : Call(t, r)
       \/ Proceed(t)
       \/ Fault(t)
  \/ Transmit
  \/ Receive

Spec == Init /\ [][Next]_vars

\* Threads that can go on do, and a mutex held for a few system calls is had
\* in the end.  Nothing is assumed of input, output (the peer may stop it by
\* flow control) or errors.
Fairness == \A t \in Threads : SF_vars(Proceed(t))

FairSpec == Spec /\ Fairness

-----------------------------------------------------------------------------
(* Properties.                                                             *)

Labels == {"idle", "lock", "poll", "io", "set", "store", "close", "free", "done"}

\* State is well formed; the queues stay within their capacity and no call
\* counts more bytes than its buffer holds.
TypeOK ==
  /\ opening \in {"none", "alloc", "config"}
  /\ alive \in BOOLEAN /\ hfd \in BOOLEAN /\ fdopen \in BOOLEAN /\ restored \in BOOLEAN
  /\ cfg \in Rates \union {0}
  /\ saved \in Settings /\ tio \in Settings /\ before \in Settings
  /\ mu \in Threads \union {None}
  /\ txq \in 0..TxCap /\ rxq \in 0..RxCap
  /\ pc \in [Threads -> Labels]
  /\ req \in [Threads -> (UNION {Requests(op) : op \in OpNames}) \union {IdleReq}]
  /\ st \in [Threads -> Status]
  /\ \A t \in Threads : n[t] + w[t] \in 0..req[t].len /\ out[t] \in 0..req[t].len
  /\ waited \in [Threads -> BOOLEAN]
  /\ sent \in [Threads -> Seq(1..MaxLen)]

\* However a write is cut up by partial writes, timeouts and errors, the tty
\* has been given the first *out_write_len bytes of the buffer, each once and
\* in order, and an unlimited write that returns HAL_OK has sent all of it.
WriteReportsPrefix ==
  \A t \in Threads :
    pc[t] = "done" /\ req[t].op = "write" =>
      /\ sent[t] = [i \in 1..out[t] |-> i]
      /\ st[t] = "HAL_OK" /\ ~req[t].finite => out[t] = req[t].len

\* Whenever h->mu is free and the handle open, h->cfg is what the line runs
\* with, whoever changed the rate and whether or not the change failed.
ConfigMatchesLine ==
  Usable /\ hfd /\ mu = None => tio = Applied(cfg)

\* After hal_uart_close, and after a failed open, the descriptor is closed and
\* the line has the settings hal_uart_open found, however often the rate was
\* changed, unless the restoring call itself failed.
CloseUndoesOpen ==
  (opening = "none" /\ ~alive) => ~fdopen /\ (restored => tio = before)

\* Claim of the design: writes exclude each other, so that packets are not
\* torn.  While a call has sent a part of its packet and goes on with the
\* rest, the tty accepts no bytes of another call.
PacketsNotTorn ==
  [][\A t, u \in Threads :
       (t # u /\ sent[t] # <<>> /\ pc[t] \in {"poll", "io"})
         => Len(sent'[u]) <= Len(sent[u])]_vars

\* Claim of the design: every call is safe whatever the other threads call.
\* A call about to lock h->mu, or holding it, finds the handle allocated.
HandleOutlivesCalls ==
  \A t \in Threads : pc[t] \in {"lock", "set", "store"} => alive

\* The same of the descriptor, for a call that has copied h->fd.
DescriptorOutlivesCalls ==
  \A t \in Threads : pc[t] \in {"poll", "io"} => fdopen

\* Signals stop interrupting poll().
SignalsEnd == <>[][\A t \in Threads : ~PollInterrupted(t)]_vars

\* The line is not stopped for ever: its output queue keeps running empty.
LineDrains == []<>(txq = 0)

TimedCall(t, op) == pc[t] = "lock" /\ req[t].op = op /\ req[t].finite

\* When signals end, a read with a timeout returns, and a write with one too
\* if the line drains: on a stopped line it waits in write() whatever its
\* timeout.  True with one reader, who alone flushes, and one writer: what
\* poll() found is still there for read().
TimedCallsReturn ==
  SignalsEnd =>
    /\ \A t \in Threads : TimedCall(t, "read") ~> pc[t] = "done"
    /\ LineDrains => \A t \in Threads : TimedCall(t, "write") ~> pc[t] = "done"

=============================================================================
