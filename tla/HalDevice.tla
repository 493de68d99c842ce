----------------------------- MODULE HalDevice ------------------------------
(***************************************************************************)
(* The HAL devices of platform/hal/src other than UART and timer: what     *)
(* each hal_*_open acquires and gives back when a later step fails, what   *)
(* hal_*_close gives back, and the calls of several threads on the handles *)
(* of one device.                                                          *)
(*                                                                         *)
(* An open is its list of steps, a call its list of accesses to the        *)
(* device.  Each step or access may fail, which ends the open or the call. *)
(* A call copies the descriptor under h->mu and uses it afterwards.  As    *)
(* handles are closed only when no call is going on, nothing can happen to *)
(* the descriptor in between, and the copy is part of the access after it. *)
(***************************************************************************)
EXTENDS Integers, Sequences

CONSTANTS Kinds,       \* the kinds of device considered
          Threads,
          Handles,     \* handles on the same device
          Sharings,    \* who uses which handle: functions from Threads to Handles
          MaxQueued,   \* frames or events a socket or an event device queues
          MaxXruns     \* overruns or underruns a PCM stream goes through

ASSUME DeviceAssumption ==
  /\ Sharings \subseteq [Threads -> Handles]
  /\ MaxQueued \in Nat \ {0}
  /\ MaxXruns \in Nat

VARIABLES
  kind,      \* the kind of device, fixed
  user,      \* the handle each thread uses, fixed
  handle,    \* progress of open and the fields of the handle
  kernel,    \* what sysfs and the USB core remember of the device
  leaked,    \* history: what a failed open or a close did not give back
  refused,   \* history: the driver refused the character that disarms it
  dev,       \* the device
  th,        \* the call each thread is in
  limit      \* the timeout_ms it was given

vars == <<kind, user, handle, kernel, leaked, refused, dev, th, limit>>

-----------------------------------------------------------------------------
(* Opening and closing.  A step names what it acquires or sets, and what   *)
(* its error path releases.                                                *)

Need(gets, undo) == [gets |-> gets, undo |-> undo, ignores |-> "nothing"]

\* An error which says that it has been done already is ignored.
NeedOnce(gets, undo) == [gets |-> gets, undo |-> undo, ignores |-> "done"]

\* Every error is ignored.
Try(gets) == [gets |-> gets, undo |-> {}, ignores |-> "all"]

hal_i2c_open == <<Need("fd", {}), Need("slave", {"fd"}), Need("mem", {"fd"})>>
hal_i2c_close == {"fd", "mem"}

\* Mutant: the last failure frees the handle and forgets its descriptor.
Bug_spi_open == <<Need("fd", {}), Need("mem", {"fd"}), Need("speed", {"mem"})>>

hal_spi_close == {"fd", "mem"}

hal_spi_open ==
  <<Need("fd", {}), Need("mem", {"fd"}), Need("mode", hal_spi_close),
    Need("bits", hal_spi_close), Need("speed", hal_spi_close)>>

hal_can_open ==
  <<Need("fd", {}), Need("ifindex", {"fd"}), Need("bind", {"fd"}),
    Need("filter", {"fd"}), Need("mem", {"fd"})>>

hal_can_close == {"fd", "mem"}

hal_input_open == <<Need("fd", {}), Need("mem", {"fd"})>>
hal_input_close == {"fd", "mem"}

gpio_export == NeedOnce("export", {})
gpio_set_direction == Need("direction", {})
hal_gpio_open == <<gpio_export, gpio_set_direction, Need("fd", {}), Need("mem", {"fd"}), Try("level")>>

\* Mutant: close takes the line back from user space.
Bug_gpio_close == {"fd", "mem", "export"}

hal_gpio_close == {"fd", "mem"}

pwm_export == NeedOnce("export", {})
pwm_try_unexport == {"export"}
hal_pwm_open == <<pwm_export, Need("mem", {})>>
hal_pwm_close == {"mem"} \union pwm_try_unexport

\* Mutant: the device is opened first and closed again when memory is short.
Bug_watchdog_open == <<Need("fd", {}), Need("mem", {"fd"})>>

hal_watchdog_open == <<Need("mem", {}), Need("fd", {"mem"})>>
hal_watchdog_close == {"fd", "mem"}

hal_usb_open ==
  <<Need("mem", {}), Need("ctx", {"mem"}), Need("dev", {"ctx", "mem"}),
    NeedOnce("driver", {"dev", "ctx", "mem"}), Need("interface", {"dev", "ctx", "mem"})>>

hal_usb_close == {"interface", "dev", "ctx", "mem"}

hal_i2s_open == <<Need("mem", {}), Need("pcm", {"mem"}), Need("params", {"pcm", "mem"})>>
hal_i2s_close == {"pcm", "mem"}

hal_adc_open == <<Need("mem", {}), Try("scale")>>
hal_adc_close == {"mem"}

hal_onewire_open == <<Need("mem", {})>>
hal_onewire_close == {"mem"}

Open ==
  [i2c |-> hal_i2c_open, spi |-> hal_spi_open, can |-> hal_can_open,
   input |-> hal_input_open, gpio |-> hal_gpio_open, pwm |-> hal_pwm_open,
   watchdog |-> hal_watchdog_open, usb |-> hal_usb_open, i2s |-> hal_i2s_open,
   adc |-> hal_adc_open, onewire |-> hal_onewire_open]

ASSUME KindsAssumption == Kinds \subseteq DOMAIN Open

Close ==
  [i2c |-> hal_i2c_close, spi |-> hal_spi_close, can |-> hal_can_close,
   input |-> hal_input_close, gpio |-> hal_gpio_close, pwm |-> hal_pwm_close,
   watchdog |-> hal_watchdog_close, usb |-> hal_usb_close, i2s |-> hal_i2s_close,
   adc |-> hal_adc_close, onewire |-> hal_onewire_close]

Owned == {"fd", "mem", "pcm", "ctx", "dev", "interface"}   \* belongs to one handle
Remembered == {"export", "driver"}                         \* state of the device

-----------------------------------------------------------------------------
(* The calls, as accesses to the device.                                   *)

\* Mutant: the file position is not set back.
Bug_gpio_read == <<"read">>

hal_gpio_read == <<"lseek", "read">>
hal_gpio_write == <<"lseek", "write">>
hal_gpio_toggle == hal_gpio_read \o <<"invert">> \o hal_gpio_write

hal_i2c_write == <<"select">>
hal_i2c_read == <<"fetch">>
hal_i2c_write_reg == <<"store">>
hal_i2c_read_reg == <<"select", "fetch">>

hal_spi_transfer == <<"exchange">>

hal_can_send == <<"send">>
hal_can_receive == <<"poll", "receive">>

\* Mutant: the event device is read without O_NONBLOCK.
Bug_input_read_event == <<"poll", "receive">>

hal_input_read_event == <<"poll", "try">>

hal_watchdog_feed == <<"feed">>
hal_watchdog_set_timeout == <<"limit">>

hal_usb_control_transfer == <<"control">>
hal_usb_bulk_write == <<"bulk_out">>
hal_usb_bulk_read == <<"bulk_in">>

hal_pwm_set_frequency == <<"period">>
hal_pwm_set_duty_cycle == <<"load", "clamp", "duty">>
hal_pwm_enable == <<"enable">>
hal_pwm_disable == <<"disable">>

hal_i2s_write == <<"wait", "writei">>
hal_i2s_read == <<"wait", "readi">>
hal_i2s_start == <<"start">>
hal_i2s_stop == <<"drop">>

Calls ==
  [gpio |-> {hal_gpio_read, hal_gpio_write, hal_gpio_toggle},
   i2c |-> {hal_i2c_write, hal_i2c_read, hal_i2c_write_reg, hal_i2c_read_reg},
   spi |-> {hal_spi_transfer},
   can |-> {hal_can_send, hal_can_receive},
   input |-> {hal_input_read_event, Tail(hal_input_read_event)},   \* no wait with timeout 0
   watchdog |-> {hal_watchdog_feed, hal_watchdog_set_timeout},
   usb |-> {hal_usb_control_transfer, hal_usb_bulk_write, hal_usb_bulk_read},
   pwm |-> {hal_pwm_set_frequency, hal_pwm_set_duty_cycle, hal_pwm_enable, hal_pwm_disable},
   i2s |-> {hal_i2s_write, hal_i2s_read, hal_i2s_start, hal_i2s_stop},
   adc |-> {}, onewire |-> {}]

-----------------------------------------------------------------------------
(* State.                                                                  *)

DefaultPeriod == 4       \* the period_ns a new PWM handle assumes, 1 ms
Periods == {2, 4}        \* periods asked for, in the same unit
Percents == {50, 100}
Bits == {0, 1}           \* levels, register numbers and register contents
Frames == 2              \* frames a call is asked to transfer
Channels == 2
SampleBits == {16, 24, 32}

\* Progress of open (0: closed), resources, file position, cached period,
\* frames or events waiting.
Closed == [at |-> 0, has |-> {}, off |-> 0, period |-> DefaultPeriod, queued |-> 0]

IsOpen(h) == handle[h].at = Len(Open[kind]) + 1

\* A thread outside the HAL; call and the accesses left of it, argument, the
\* value it works on (of a PCM call, the buffer offset p), the level when it
\* began (of a PCM call, frames transferred), and whether nobody interfered.
Idle == [call |-> <<>>, todo |-> <<>>, arg |-> 0, val |-> 0, seen |-> 0, clean |-> TRUE]

Device ==
  [gpio |-> [level : Bits],
   i2c |-> [ptr : Bits, reg : [Bits -> Bits]],
   spi |-> [speed : Handles],
   pwm |-> [period : {0} \union Periods, duty : 0 .. 4],
   watchdog |-> [armed : BOOLEAN],
   i2s |-> [bits : SampleBits, capture : BOOLEAN, xrun : BOOLEAN, xruns : 0 .. MaxXruns]]

DeviceStates(k) == IF k \in DOMAIN Device THEN Device[k] ELSE [ready : {TRUE}]

\* Another program may have exported the line or unbound the driver.
Init ==
  /\ kind \in Kinds
  /\ user \in Sharings
  /\ handle = [h \in Handles |-> Closed]
  /\ kernel \in SUBSET ({s.gets : s \in {Open[kind][i] : i \in DOMAIN Open[kind]}} \intersect Remembered)
  /\ leaked = {}
  /\ refused = FALSE
  /\ dev \in DeviceStates(kind)
  /\ kind = "pwm" => dev = [period |-> 0, duty |-> 0]
  /\ kind = "watchdog" => ~dev.armed
  /\ kind = "i2s" => dev = [bits |-> 16, capture |-> FALSE, xrun |-> FALSE, xruns |-> 0]
  /\ th = [t \in Threads |-> Idle]
  /\ limit = [t \in Threads |-> "some"]

\* Thread u's call is no longer alone when another one has touched the
\* device, or has used the handle that u uses.
Disturb(u, h, touched) ==
  IF th[u].call = <<>> THEN th[u]
  ELSE [th[u] EXCEPT !.clean = @ /\ ~touched /\ user[u] # h]

-----------------------------------------------------------------------------
(* Open and close.                                                         *)

Step(h) == Open[kind][handle[h].at]

Opening(h) == handle[h].at \in DOMAIN Open[kind]

Exclusive(r) == r \in {"pcm", "interface"} \/ (kind = "watchdog" /\ r = "fd")

\* The kernel grants it to no one else, or it is there already.
Taken(h, r) ==
  \/ r \in kernel
  \/ Exclusive(r) /\ (r \in leaked \/ \E g \in Handles \ {h} : r \in handle[g].has)

\* The device after a step: a line made an output is low, then gets its
\* initial level; an open watchdog is armed; a PCM has its sample format.
Configured(r, h) ==
  IF kind = "gpio" /\ r = "direction" THEN {[level |-> 0]}
  ELSE IF kind = "gpio" /\ r = "level" THEN Device.gpio
  ELSE IF kind = "spi" /\ r = "speed" THEN {[speed |-> h]}
  ELSE IF kind = "watchdog" /\ r = "fd" THEN {[armed |-> TRUE]}
  ELSE IF kind = "i2s" /\ r = "params" THEN
    [bits : SampleBits, capture : BOOLEAN, xrun : {FALSE}, xruns : {dev.xruns}]
  ELSE {dev}

BeginOpen(h) ==
  /\ handle[h] = Closed
  /\ handle' = [handle EXCEPT ![h].at = 1]
  /\ UNCHANGED <<kind, user, kernel, leaked, refused, dev, th, limit>>

OpenStep(h) ==
  /\ Opening(h)
  /\ LET r == Step(h).gets IN
     /\ ~Taken(h, r)
     /\ handle' = [handle EXCEPT ![h].at = @ + 1, ![h].has = @ \union ({r} \intersect Owned)]
     /\ kernel' = kernel \union ({r} \intersect Remembered)
     /\ dev' \in Configured(r, h)
     /\ refused' = (refused /\ r # "fd")
     /\ th' = [t \in Threads |-> Disturb(t, h, dev' # dev)]
  /\ UNCHANGED <<kind, user, leaked, limit>>

\* Whether open goes on when its step fails.
Ignored(s) == s.ignores = "all" \/ (s.ignores = "done" /\ s.gets \in kernel)

OpenIgnore(h) ==
  /\ Opening(h)
  /\ Ignored(Step(h))
  /\ handle' = [handle EXCEPT ![h].at = @ + 1]
  /\ UNCHANGED <<kind, user, kernel, leaked, refused, dev, th, limit>>

OpenFail(h) ==
  /\ Opening(h)
  /\ Step(h).ignores # "all"
  /\ handle' = [handle EXCEPT ![h] = Closed]
  /\ leaked' = leaked \union (handle[h].has \ Step(h).undo)
  /\ UNCHANGED <<kind, user, kernel, refused, dev, th, limit>>

\* Taking the line back, and disarming the watchdog, may fail unnoticed.
CloseHandle(h) ==
  /\ IsOpen(h)
  /\ \A t \in Threads : user[t] = h => th[t] = Idle
  /\ handle' = [handle EXCEPT ![h] = Closed]
  /\ leaked' = leaked \union (handle[h].has \ Close[kind])
  /\ kernel' \in {kernel, kernel \ Close[kind]}
  /\ IF kind = "watchdog"
     THEN \E ok \in BOOLEAN : dev' = [armed |-> ~ok] /\ refused' = ~ok
     ELSE UNCHANGED <<dev, refused>>
  /\ UNCHANGED <<kind, user, th, limit>>

-----------------------------------------------------------------------------
(* Calls.                                                                  *)

Args(call) ==
  IF call = hal_pwm_set_frequency THEN Periods
  ELSE IF call = hal_pwm_set_duty_cycle THEN Percents
  ELSE IF call \in {hal_i2c_write, hal_i2c_write_reg, hal_i2c_read_reg} THEN Bits
  ELSE IF call \in {hal_i2s_write, hal_i2s_read} THEN {Frames}
  ELSE {0}

Data(call) == IF call \in {hal_gpio_write, hal_i2c_write_reg} THEN Bits ELSE {0}

\* The timeout_ms of a call: "zero", "some" above it, or "none", which is below.
\* hal_input_read_event does not wait with 0; to the waits of the other calls 0
\* is as good as some.  The calls left have no timeout to give.
Timeouts(call) ==
  IF call = Tail(hal_input_read_event) THEN {"zero"}
  ELSE IF call \in {hal_input_read_event, hal_can_receive, hal_i2s_write, hal_i2s_read}
       THEN {"some", "none"}
  ELSE IF call \in {hal_usb_control_transfer, hal_usb_bulk_write, hal_usb_bulk_read}
       THEN {"zero", "some", "none"}
  ELSE {"some"}

BeginCall(t) ==
  /\ IsOpen(user[t])
  /\ th[t] = Idle
  /\ \E call \in Calls[kind] :
     /\ \E a \in Args(call), v \in Data(call) :
         th' = [th EXCEPT ![t] = [call |-> call, todo |-> call, arg |-> a, val |-> v,
                                  seen |-> IF call = hal_gpio_toggle THEN dev.level ELSE 0,
                                  clean |-> TRUE]]
       /\ \E l \in Timeouts(call) : limit' = [limit EXCEPT ![t] = l]
  /\ UNCHANGED <<kind, user, handle, kernel, leaked, refused, dev>>

Access(t, op) == th[t].todo # <<>> /\ Head(th[t].todo) = op

\* The access succeeds and leaves v with the caller.
Proceed(t, v, touched) ==
  th' = [u \in Threads |->
           IF u = t THEN [th[t] EXCEPT !.todo = Tail(@), !.val = v]
           ELSE Disturb(u, user[t], touched)]

\* A read behind the first character of the value file finds no '1'.
LevelRead(h) == IF handle[h].off = 0 THEN dev.level ELSE 0

Inverted(v) == 1 - v

\* The line is an output: of an input, write and toggle are rejected unwritten.
GpioAccess(t) ==
  /\ \/ /\ Access(t, "lseek")
        /\ Proceed(t, th[t].val, FALSE)
        /\ handle' = [handle EXCEPT ![user[t]].off = 0]
        /\ UNCHANGED dev
     \/ /\ Access(t, "read")
        /\ Proceed(t, LevelRead(user[t]), FALSE)
        /\ handle' = [handle EXCEPT ![user[t]].off = 1]
        /\ UNCHANGED dev
     \/ /\ Access(t, "invert")
        /\ Proceed(t, Inverted(th[t].val), FALSE)
        /\ UNCHANGED <<handle, dev>>
     \/ /\ Access(t, "write")
        /\ Proceed(t, th[t].val, TRUE)
        /\ handle' = [handle EXCEPT ![user[t]].off = 1]
        /\ dev' = [level |-> th[t].val]
  /\ UNCHANGED <<kind, user, kernel, leaked, refused, limit>>

\* After data have been read or written the device may have moved on to
\* another register.
I2cAccess(t) ==
  /\ \/ /\ Access(t, "select")
        /\ Proceed(t, th[t].val, TRUE)
        /\ dev' = [dev EXCEPT !.ptr = th[t].arg]
     \/ /\ Access(t, "fetch")
        /\ Proceed(t, dev.reg[dev.ptr], TRUE)
        /\ \E p \in Bits : dev' = [dev EXCEPT !.ptr = p]
     \/ /\ Access(t, "store")
        /\ Proceed(t, th[t].val, TRUE)
        /\ \E p \in Bits : dev' = [dev EXCEPT !.ptr = p, !.reg[th[t].arg] = th[t].val]
  /\ UNCHANGED <<kind, user, handle, kernel, leaked, refused, limit>>

\* The speed passed with each transfer, named by the handle it was set for.
TransferSpeed(h) == h

SpiAccess(t) ==
  /\ Access(t, "exchange")
  /\ Proceed(t, TransferSpeed(user[t]), FALSE)
  /\ UNCHANGED <<kind, user, handle, kernel, leaked, refused, dev, limit>>

\* wait_fd and the read after it: blocking on a CAN socket, not on evdev.
QueueAccess(t) ==
  /\ handle[user[t]].queued > 0
  /\ \/ /\ Access(t, "poll")
        /\ UNCHANGED handle
     \/ /\ Access(t, "receive") \/ Access(t, "try")
        /\ handle' = [handle EXCEPT ![user[t]].queued = @ - 1]
  /\ Proceed(t, 0, FALSE)
  /\ UNCHANGED <<kind, user, kernel, leaked, refused, dev, limit>>

\* Accesses with no effect that a later call could see.
PlainAccess(t) ==
  /\ \E op \in {"send", "feed", "limit", "control", "bulk_out", "bulk_in", "start", "drop"} :
       Access(t, op)
  /\ Proceed(t, 0, FALSE)
  /\ UNCHANGED <<kind, user, handle, kernel, leaked, refused, dev, limit>>

Smaller(a, b) == IF a < b THEN a ELSE b

\* The cached period is read twice before the lock is taken.
Duty(h, percent) == (handle[h].period * percent) \div 100

\* The PWM core takes a setting, and switches the channel on or off, only if
\* the duty fits the period; no later call sees whether it is on.
PwmAccepts(d) == "export" \in kernel /\ d.period > 0 /\ d.duty <= d.period

PwmAccess(t) ==
  /\ LET h == user[t] IN
     \/ /\ Access(t, "load")
        /\ Proceed(t, Duty(h, th[t].arg), FALSE)
        /\ UNCHANGED <<handle, dev>>
     \/ /\ Access(t, "clamp")
        /\ Proceed(t, Smaller(th[t].val, handle[h].period), FALSE)
        /\ UNCHANGED <<handle, dev>>
     \/ /\ \/ /\ Access(t, "period")
              /\ dev' = [dev EXCEPT !.period = th[t].arg]
              /\ handle' = [handle EXCEPT ![h].period = th[t].arg]
           \/ /\ Access(t, "duty")
              /\ dev' = [dev EXCEPT !.duty = th[t].val]
              /\ UNCHANGED handle
           \/ /\ Access(t, "enable") \/ Access(t, "disable")
              /\ UNCHANGED <<handle, dev>>
        /\ PwmAccepts(dev')
        /\ Proceed(t, th[t].val, TRUE)
  /\ UNCHANGED <<kind, user, kernel, leaked, refused, limit>>

\* Bytes of a sample in the format chosen for the stream: ALSA keeps the 24
\* bits of S24_LE in 4 bytes.
bits_to_format(bits) == IF bits = 16 THEN 2 ELSE 4

\* Mutant: the bytes of one channel.
Bug_calc_frame_bytes(bits) == bits \div 8

calc_frame_bytes(bits) == Channels * (bits \div 8)

\* Reads are for capture streams, writes for the others.  pcm_wait_ready
\* finds the stream ready (in an xrun it reports an error).
\* The transfer takes some of the frames left and the loop goes on with the
\* others; when an xrun comes after the wait, it prepares the stream and
\* waits again.
PcmAccess(t) ==
  /\ \/ /\ Access(t, "wait")
        /\ dev.capture = (th[t].call = hal_i2s_read)
        /\ ~dev.xrun
        /\ Proceed(t, th[t].val, FALSE)
        /\ UNCHANGED dev
     \/ /\ Access(t, "writei") \/ Access(t, "readi")
        /\ dev.xrun
        /\ dev' = [dev EXCEPT !.xrun = FALSE]
        /\ th' = [th EXCEPT ![t].todo = th[t].call]
     \/ /\ Access(t, "writei") \/ Access(t, "readi")
        /\ ~dev.xrun
        /\ \E w \in 1 .. (th[t].arg - th[t].seen) :
             th' = [th EXCEPT
                      ![t].val = @ + w * calc_frame_bytes(dev.bits),
                      ![t].seen = @ + w,
                      ![t].todo = IF th[t].seen + w = th[t].arg THEN <<>> ELSE th[t].call]
        /\ UNCHANGED dev
  /\ UNCHANGED <<kind, user, handle, kernel, leaked, refused, limit>>

\* An access fails, or a wait times out, and the call returns the error.
\* set_frequency has stored the new period by then.
Fail(t) ==
  /\ th[t].todo # <<>>
  /\ th' = [u \in Threads |-> IF u = t THEN Idle ELSE Disturb(u, user[t], FALSE)]
  /\ handle' = IF Access(t, "period")
               THEN [handle EXCEPT ![user[t]].period = th[t].arg] ELSE handle
  /\ limit' = [limit EXCEPT ![t] = "some"]
  /\ UNCHANGED <<kind, user, kernel, leaked, refused, dev>>

Return(t) ==
  /\ th[t].call # <<>>
  /\ th[t].todo = <<>>
  /\ th' = [th EXCEPT ![t] = Idle]
  /\ limit' = [limit EXCEPT ![t] = "some"]
  /\ UNCHANGED <<kind, user, handle, kernel, leaked, refused, dev>>

\* Accesses that may never come to an end: read() and write() on a CAN socket,
\* which is blocking; a wait without a limit; and a USB transfer with timeout
\* 0, which libusb takes for unlimited (one below 0 has become 1 s or 60 s).
MayBlock(t) ==
  \/ Access(t, "receive") \/ Access(t, "send")
  \/ limit[t] = "none" /\ (Access(t, "poll") \/ Access(t, "wait"))
  \/ limit[t] = "zero" /\ (Access(t, "control") \/ Access(t, "bulk_out") \/ Access(t, "bulk_in"))

\* What the device, or the lack of one, makes of an access.
External(t) == PlainAccess(t) \/ PcmAccess(t) \/ Fail(t)

\* What a thread inside a call is bound to do: every other system call returns
\* with a result or an error, and a read returns what is there.
Running(t) ==
  \/ GpioAccess(t) \/ I2cAccess(t) \/ SpiAccess(t) \/ QueueAccess(t)
  \/ PwmAccess(t) \/ Return(t)
  \/ ~MayBlock(t) /\ External(t)

\* A frame or an event reaches the queue of an open handle.
Arrive(h) ==
  /\ kind \in {"can", "input"}
  /\ IsOpen(h)
  /\ handle[h].queued < MaxQueued
  /\ handle' = [handle EXCEPT ![h].queued = @ + 1]
  /\ UNCHANGED <<kind, user, kernel, leaked, refused, dev, th, limit>>

\* A buffer of the sound card runs empty or full.
Xrun(h) ==
  /\ kind = "i2s"
  /\ IsOpen(h)
  /\ ~dev.xrun
  /\ dev.xruns < MaxXruns
  /\ dev' = [dev EXCEPT !.xrun = TRUE, !.xruns = @ + 1]
  /\ UNCHANGED <<kind, user, handle, kernel, leaked, refused, th, limit>>

Next ==
  \/ \E h \in Handles : \/ BeginOpen(h) \/ OpenStep(h) \/ OpenIgnore(h)
                        \/ OpenFail(h) \/ CloseHandle(h)
                        \/ Arrive(h) \/ Xrun(h)
  \/ \E t \in Threads : \/ BeginCall(t) \/ Running(t)
                        \/ MayBlock(t) /\ External(t)

Spec == Init /\ [][Next]_vars

\* Signals, after which wait_fd polls anew with the whole timeout, come to an
\* end, and the driver ends a PCM transfer, with an error if the stream stalls.
FairSpec == Spec /\ \A t \in Threads : WF_vars(Running(t))

-----------------------------------------------------------------------------
(* Properties.                                                             *)

\* A failed open gives back every descriptor, buffer and library object it
\* had acquired, whichever step failed, and close gives back all of them.
NothingLeaks == leaked = {}

\* No history of opens, failures and closes, by this program or another one,
\* leaves a device that cannot be opened: a line that is still exported and
\* a driver that is still detached are taken as they are.  And a GPIO handle
\* keeps working whatever happens to other handles on its line.
DeviceStaysUsable ==
  /\ (\A h \in Handles : handle[h] = Closed) =>
       \A i \in DOMAIN Open[kind] : \A h \in Handles :
         Taken(h, Open[kind][i].gets) => Ignored(Open[kind][i])
  /\ kind = "gpio" => \A h \in Handles : IsOpen(h) => "export" \in kernel

\* A watchdog is never left armed without a handle to feed it, unless its
\* driver refused to be disarmed: no error path opens it and gives up.
WatchdogNotOrphaned ==
  (kind = "watchdog" /\ dev.armed /\ refused = FALSE) =>
    \E h \in Handles : "fd" \in handle[h].has

Done(t, call) == th[t].call = call /\ th[t].todo = <<>> /\ th[t].clean

\* A call nobody interfered with has done its work when it returns HAL_OK:
\* a read gives the line's level whatever was read or written through the
\* handle before, a toggle inverts it, a register call acts on its own
\* register wherever earlier calls left the device's pointer, and a duty is
\* the percentage of the period if that is the period the handle knows.  A SPI
\* transfer runs at its handle's speed whatever other handles were opened.
UndisturbedCallsAreRight ==
  \A t \in Threads :
    /\ Done(t, hal_gpio_read) => th[t].val = dev.level
    /\ Done(t, hal_gpio_write) => dev.level = th[t].val
    /\ Done(t, hal_gpio_toggle) => dev.level = 1 - th[t].seen
    /\ Done(t, hal_i2c_read_reg) => th[t].val = dev.reg[th[t].arg]
    /\ Done(t, hal_i2c_write_reg) => dev.reg[th[t].arg] = th[t].val
    /\ (Done(t, hal_pwm_set_duty_cycle) /\ handle[user[t]].period = dev.period) =>
          100 * dev.duty = th[t].arg * dev.period
    /\ (th[t].call = hal_spi_transfer /\ th[t].todo = <<>>) => th[t].val = user[t]

\* The code gives the call a limit: hal_can_send has none, a CAN socket is
\* read without O_NONBLOCK and must not be shared, a call told to wait for ever
\* does, save on USB; there it is 0, for the caller "return at once", that has
\* no limit (hal_usb.c:124, 151 and 186, against docs/hal.md:71).
Limited(t) ==
  /\ th[t].call \notin {<<>>, hal_can_send}
  /\ kind = "can" => \A u \in Threads \ {t} : user[u] # user[t]
  /\ limit[t] # (IF kind = "usb" THEN "zero" ELSE "none")

\* A call with a limit returns, also when several threads wait for events on
\* one handle and one of them takes the event that woke the others, and
\* through the xruns of a PCM stream.
CallsReturn == \A t \in Threads : Limited(t) ~> th[t].call = <<>>

\* Every part of a PCM transfer starts in the buffer where the frames moved
\* before it end, through partial transfers and recovered xruns, if samples
\* have 16 or 32 bits.  (With 24, frame_bytes counts 3 bytes a sample.)
FramesInPlace ==
  \A t \in Threads :
    (th[t].call \in {hal_i2s_write, hal_i2s_read} /\ dev.bits # 24) =>
      th[t].val = th[t].seen * Channels * bits_to_format(dev.bits)

=============================================================================
