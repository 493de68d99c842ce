--------------------------- MODULE HalDeviceProofs ---------------------------
(***************************************************************************)
(* Proofs about the HAL devices, for any number of threads, any handles,   *)
(* any way of sharing them, any queue length and any number of xruns.      *)
(***************************************************************************)
EXTENDS HalDevice, TLAPS

-----------------------------------------------------------------------------
(* The inductive invariant.                                                *)

AccessNames ==
  {"lseek", "read", "invert", "write", "select", "fetch", "store", "exchange", "send", "poll",
   "receive", "try", "feed", "limit", "control", "bulk_out", "bulk_in", "period", "load",
   "clamp", "duty", "enable", "disable", "wait", "writei", "readi", "start", "drop"}

HandleRecords == [at : Nat, has : SUBSET Owned, off : Bits, period : Periods, queued : Nat]

CallRecords ==
  [call : Seq(AccessNames), todo : Seq(AccessNames), arg : Int, val : Int \union Handles,
   seen : Int, clean : BOOLEAN]

\* The accesses left are the last ones of the call.
Suffix(c) ==
  /\ Len(c.todo) <= Len(c.call)
  /\ \A i \in 1 .. Len(c.todo) : c.todo[i] = c.call[Len(c.call) - Len(c.todo) + i]

DeviceTypes ==
  /\ kind \in DOMAIN Open
  /\ user \in [Threads -> Handles]
  /\ handle \in [Handles -> HandleRecords]
  /\ kernel \subseteq Remembered
  /\ refused \in BOOLEAN
  /\ th \in [Threads -> CallRecords]

\* A thread is in a call of the device's kind, through an open handle.
CallsInProgress ==
  \A t \in Threads :
    /\ Suffix(th[t])
    /\ th[t].call = <<>> \/ (th[t].call \in Calls[kind] /\ IsOpen(user[t]))
    /\ th[t].call = hal_pwm_set_frequency => th[t].arg \in Periods

\* What an open may have acquired before its step i.
Gained(k, i) ==
  {r \in Owned : \E j \in DOMAIN Open[k] : j < i /\ Open[k][j].gets = r}

\* A handle holds nothing its open has not come to.  Past the first step a
\* line is exported, and past the second a PCM stream belongs to the handle.
OpenProgress ==
  /\ leaked = {}
  /\ \A h \in Handles :
       /\ handle[h].at <= Len(Open[kind]) + 1
       /\ handle[h].has \subseteq Gained(kind, handle[h].at)
       /\ (kind = "gpio" /\ handle[h].at > 1) => "export" \in kernel
       /\ (kind = "i2s" /\ handle[h].at > 2) => "pcm" \in handle[h].has
  /\ \A g, h \in Handles :
       ("pcm" \in handle[g].has /\ "pcm" \in handle[h].has) => g = h

WatchdogHeld ==
  kind = "watchdog" => dev \in Device.watchdog /\ WatchdogNotOrphaned

Left(t) == Len(th[t].todo)

\* How far an undisturbed call on a line has come.
GpioStage(t) ==
  /\ th[t].val \in Bits /\ th[t].seen \in Bits
  /\ (th[t].call = hal_gpio_read /\ th[t].clean) =>
       /\ Left(t) = 1 => handle[user[t]].off = 0
       /\ Left(t) = 0 => th[t].val = dev.level
  /\ (th[t].call = hal_gpio_write /\ th[t].clean /\ Left(t) = 0) => dev.level = th[t].val
  /\ (th[t].call = hal_gpio_toggle /\ th[t].clean) =>
       /\ Left(t) > 0 => dev.level = th[t].seen
       /\ Left(t) = 4 => handle[user[t]].off = 0
       /\ Left(t) = 3 => th[t].val = th[t].seen
       /\ Left(t) \in {1, 2} => th[t].val = 1 - th[t].seen
       /\ Left(t) = 0 => dev.level = 1 - th[t].seen

GpioStages == kind = "gpio" => dev \in Device.gpio /\ \A t \in Threads : GpioStage(t)

\* The same for register accesses: between the two parts of a read the
\* device points to the register asked for.
I2cStage(t) ==
  /\ th[t].val \in Bits /\ th[t].arg \in Bits
  /\ (th[t].call = hal_i2c_read_reg /\ th[t].clean) =>
       /\ Left(t) = 1 => dev.ptr = th[t].arg
       /\ Left(t) = 0 => th[t].val = dev.reg[th[t].arg]
  /\ (th[t].call = hal_i2c_write_reg /\ th[t].clean /\ Left(t) = 0) =>
       dev.reg[th[t].arg] = th[t].val

I2cStages == kind = "i2c" => dev \in Device.i2c /\ \A t \in Threads : I2cStage(t)

\* The same for PWM: the duty computed is that of the period cached now.
PwmStage(t) ==
  /\ th[t].val \in Nat
  /\ th[t].call = hal_pwm_set_duty_cycle => th[t].arg \in Percents
  /\ (th[t].call = hal_pwm_set_duty_cycle /\ th[t].clean) =>
       /\ Left(t) \in {1, 2} => th[t].val = Duty(user[t], th[t].arg)
       /\ Left(t) = 0 => dev.duty = Duty(user[t], th[t].arg)

PwmStages == kind = "pwm" => dev \in Device.pwm /\ \A t \in Threads : PwmStage(t)

SpiStage(t) == (th[t].call = hal_spi_transfer /\ Left(t) = 0) => th[t].val = user[t]

SpiStages == kind = "spi" => \A t \in Threads : SpiStage(t)

\* The same for PCM streams, whoever else is at work.
PcmStages ==
  kind = "i2s" =>
    /\ dev \in Device.i2s
    /\ \A t \in Threads :
         th[t].call \in {hal_i2s_write, hal_i2s_read} => th[t].val \in Int
    /\ FramesInPlace

DeviceInvariant ==
  /\ DeviceTypes
  /\ CallsInProgress
  /\ OpenProgress
  /\ WatchdogHeld
  /\ GpioStages
  /\ I2cStages
  /\ PwmStages
  /\ SpiStages
  /\ PcmStages

-----------------------------------------------------------------------------
(* The tables of the model.                                                *)

\* The kinds with a table.
LEMMA KindNames ==
  /\ DOMAIN Open = {"i2c", "spi", "can", "input", "gpio", "pwm", "watchdog", "usb", "i2s", "adc", "onewire"}
  /\ DOMAIN Close = DOMAIN Open
BY DEF Open, Close

\* Every error path releases what the steps before it have acquired, and
\* close releases what a completed open has.
LEMMA GivesBack ==
  \A k \in DOMAIN Open :
    /\ Gained(k, Len(Open[k]) + 1) \subseteq Close[k]
    /\ \A i \in DOMAIN Open[k] :
         Open[k][i].ignores # "all" => Gained(k, i) \subseteq Open[k][i].undo
<1> SUFFICES ASSUME NEW k \in DOMAIN Open
             PROVE  /\ Gained(k, Len(Open[k]) + 1) \subseteq Close[k]
                    /\ \A i \in DOMAIN Open[k] :
                         Open[k][i].ignores # "all" => Gained(k, i) \subseteq Open[k][i].undo
  OBVIOUS
<1> USE DEF Gained, Owned, Open, Close, Need, NeedOnce, Try
<1>1. CASE k = "i2c"
  BY <1>1 DEF hal_i2c_open, hal_i2c_close
<1>2. CASE k = "spi"
  BY <1>2 DEF hal_spi_open, hal_spi_close
<1>3. CASE k = "can"
  BY <1>3 DEF hal_can_open, hal_can_close
<1>4. CASE k = "input"
  BY <1>4 DEF hal_input_open, hal_input_close
<1>5. CASE k = "gpio"
  BY <1>5 DEF hal_gpio_open, hal_gpio_close, gpio_export, gpio_set_direction
<1>6. CASE k = "pwm"
  BY <1>6 DEF hal_pwm_open, hal_pwm_close, pwm_export, pwm_try_unexport
<1>7. CASE k = "watchdog"
  BY <1>7 DEF hal_watchdog_open, hal_watchdog_close
<1>8. CASE k = "usb"
  BY <1>8 DEF hal_usb_open, hal_usb_close
<1>9. CASE k = "i2s"
  BY <1>9 DEF hal_i2s_open, hal_i2s_close
<1>10. CASE k = "adc"
  BY <1>10 DEF hal_adc_open, hal_adc_close
<1>11. CASE k = "onewire"
  BY <1>11 DEF hal_onewire_open, hal_onewire_close
<1> QED
  BY KindNames, <1>1, <1>2, <1>3, <1>4, <1>5, <1>6, <1>7, <1>8, <1>9, <1>10, <1>11

\* The steps that get what the device remembers are those that may find it done.
LEMMA OpenSteps ==
  \A k \in DOMAIN Open :
    /\ Len(Open[k]) \in Nat /\ DOMAIN Open[k] = 1 .. Len(Open[k])
    /\ \A i \in DOMAIN Open[k] :
         Open[k][i].gets \in Remembered => Open[k][i].ignores = "done"
<1> SUFFICES ASSUME NEW k \in DOMAIN Open
             PROVE  /\ Len(Open[k]) \in Nat /\ DOMAIN Open[k] = 1 .. Len(Open[k])
                    /\ \A i \in DOMAIN Open[k] :
                         Open[k][i].gets \in Remembered => Open[k][i].ignores = "done"
  OBVIOUS
<1> USE DEF Remembered, Open, Need, NeedOnce, Try
<1>1. CASE k = "i2c"
  BY <1>1 DEF hal_i2c_open
<1>2. CASE k = "spi"
  BY <1>2 DEF hal_spi_open, hal_spi_close
<1>3. CASE k = "can"
  BY <1>3 DEF hal_can_open
<1>4. CASE k = "input"
  BY <1>4 DEF hal_input_open
<1>5. CASE k = "gpio"
  BY <1>5 DEF hal_gpio_open, gpio_export, gpio_set_direction
<1>6. CASE k = "pwm"
  BY <1>6 DEF hal_pwm_open, pwm_export
<1>7. CASE k = "watchdog"
  BY <1>7 DEF hal_watchdog_open
<1>8. CASE k = "usb"
  BY <1>8 DEF hal_usb_open
<1>9. CASE k = "i2s"
  BY <1>9 DEF hal_i2s_open
<1>10. CASE k = "adc"
  BY <1>10 DEF hal_adc_open
<1>11. CASE k = "onewire"
  BY <1>11 DEF hal_onewire_open
<1> QED
  BY KindNames, <1>1, <1>2, <1>3, <1>4, <1>5, <1>6, <1>7, <1>8, <1>9, <1>10, <1>11

\* Where the exclusive descriptors are acquired, and who has them.
LEMMA ExclusiveSteps ==
  /\ Len(Open["watchdog"]) = 2
  /\ Open["watchdog"][1].gets = "mem" /\ Open["watchdog"][2].gets = "fd"
  /\ Open["watchdog"][1].ignores = "nothing" /\ Open["watchdog"][2].ignores = "nothing"
  /\ Len(Open["i2s"]) = 3
  /\ Open["i2s"][1].gets = "mem" /\ Open["i2s"][2].gets = "pcm" /\ Open["i2s"][3].gets = "params"
  /\ \A i \in 1 .. 3 : Open["i2s"][i].ignores = "nothing"
  /\ Open["gpio"][1].gets = "export" /\ Open["gpio"][1].ignores = "done"
  /\ "export" \notin Close["gpio"]
BY DEF Open, Close, hal_watchdog_open, hal_i2s_open, hal_gpio_open, hal_gpio_close, gpio_export,
     Need, NeedOnce

\* The accesses of each call.
LEMMA I2cCalls ==
  /\ hal_i2c_write \in Seq(AccessNames) /\ Len(hal_i2c_write) = 1
     /\ hal_i2c_write[1] = "select"
  /\ hal_i2c_read \in Seq(AccessNames) /\ Len(hal_i2c_read) = 1
     /\ hal_i2c_read[1] = "fetch"
  /\ hal_i2c_write_reg \in Seq(AccessNames) /\ Len(hal_i2c_write_reg) = 1
     /\ hal_i2c_write_reg[1] = "store"
  /\ hal_i2c_read_reg \in Seq(AccessNames) /\ Len(hal_i2c_read_reg) = 2
     /\ hal_i2c_read_reg[1] = "select" /\ hal_i2c_read_reg[2] = "fetch"
BY DEF AccessNames, hal_i2c_write, hal_i2c_read, hal_i2c_write_reg, hal_i2c_read_reg

\* The accesses of each call, kind by kind: SPI.
LEMMA SpiCalls ==
  /\ hal_spi_transfer \in Seq(AccessNames) /\ Len(hal_spi_transfer) = 1
     /\ hal_spi_transfer[1] = "exchange"
BY DEF AccessNames, hal_spi_transfer

\* CAN.
LEMMA CanCalls ==
  /\ hal_can_send \in Seq(AccessNames) /\ Len(hal_can_send) = 1
     /\ hal_can_send[1] = "send"
  /\ hal_can_receive \in Seq(AccessNames) /\ Len(hal_can_receive) = 2
     /\ hal_can_receive[1] = "poll" /\ hal_can_receive[2] = "receive"
BY DEF AccessNames, hal_can_send, hal_can_receive

\* Input.
LEMMA InputCalls ==
  /\ hal_input_read_event \in Seq(AccessNames) /\ Len(hal_input_read_event) = 2
     /\ hal_input_read_event[1] = "poll" /\ hal_input_read_event[2] = "try"
  /\ Tail(hal_input_read_event) \in Seq(AccessNames) /\ Len(Tail(hal_input_read_event)) = 1
     /\ Tail(hal_input_read_event)[1] = "try"
BY DEF AccessNames, hal_input_read_event

\* GPIO.
LEMMA GpioCalls ==
  /\ hal_gpio_read \in Seq(AccessNames) /\ Len(hal_gpio_read) = 2
     /\ hal_gpio_read[1] = "lseek" /\ hal_gpio_read[2] = "read"
  /\ hal_gpio_write \in Seq(AccessNames) /\ Len(hal_gpio_write) = 2
     /\ hal_gpio_write[1] = "lseek" /\ hal_gpio_write[2] = "write"
  /\ hal_gpio_toggle \in Seq(AccessNames) /\ Len(hal_gpio_toggle) = 5
     /\ hal_gpio_toggle[1] = "lseek" /\ hal_gpio_toggle[2] = "read" /\ hal_gpio_toggle[3] = "invert" /\ hal_gpio_toggle[4] = "lseek" /\ hal_gpio_toggle[5] = "write"
BY DEF AccessNames, hal_gpio_read, hal_gpio_write, hal_gpio_toggle

\* PWM.
LEMMA PwmCalls ==
  /\ hal_pwm_set_frequency \in Seq(AccessNames) /\ Len(hal_pwm_set_frequency) = 1
     /\ hal_pwm_set_frequency[1] = "period"
  /\ hal_pwm_set_duty_cycle \in Seq(AccessNames) /\ Len(hal_pwm_set_duty_cycle) = 3
     /\ hal_pwm_set_duty_cycle[1] = "load" /\ hal_pwm_set_duty_cycle[2] = "clamp" /\ hal_pwm_set_duty_cycle[3] = "duty"
  /\ hal_pwm_enable \in Seq(AccessNames) /\ Len(hal_pwm_enable) = 1
     /\ hal_pwm_enable[1] = "enable"
  /\ hal_pwm_disable \in Seq(AccessNames) /\ Len(hal_pwm_disable) = 1
     /\ hal_pwm_disable[1] = "disable"
BY DEF AccessNames, hal_pwm_set_frequency, hal_pwm_set_duty_cycle, hal_pwm_enable, hal_pwm_disable

\* Watchdog.
LEMMA WatchdogCalls ==
  /\ hal_watchdog_feed \in Seq(AccessNames) /\ Len(hal_watchdog_feed) = 1
     /\ hal_watchdog_feed[1] = "feed"
  /\ hal_watchdog_set_timeout \in Seq(AccessNames) /\ Len(hal_watchdog_set_timeout) = 1
     /\ hal_watchdog_set_timeout[1] = "limit"
BY DEF AccessNames, hal_watchdog_feed, hal_watchdog_set_timeout

\* USB.
LEMMA UsbCalls ==
  /\ hal_usb_control_transfer \in Seq(AccessNames) /\ Len(hal_usb_control_transfer) = 1
     /\ hal_usb_control_transfer[1] = "control"
  /\ hal_usb_bulk_write \in Seq(AccessNames) /\ Len(hal_usb_bulk_write) = 1
     /\ hal_usb_bulk_write[1] = "bulk_out"
  /\ hal_usb_bulk_read \in Seq(AccessNames) /\ Len(hal_usb_bulk_read) = 1
     /\ hal_usb_bulk_read[1] = "bulk_in"
BY DEF AccessNames, hal_usb_control_transfer, hal_usb_bulk_write, hal_usb_bulk_read

\* I2S.
LEMMA I2sCalls ==
  /\ hal_i2s_write \in Seq(AccessNames) /\ Len(hal_i2s_write) = 2
     /\ hal_i2s_write[1] = "wait" /\ hal_i2s_write[2] = "writei"
  /\ hal_i2s_read \in Seq(AccessNames) /\ Len(hal_i2s_read) = 2
     /\ hal_i2s_read[1] = "wait" /\ hal_i2s_read[2] = "readi"
  /\ hal_i2s_start \in Seq(AccessNames) /\ Len(hal_i2s_start) = 1
     /\ hal_i2s_start[1] = "start"
  /\ hal_i2s_stop \in Seq(AccessNames) /\ Len(hal_i2s_stop) = 1
     /\ hal_i2s_stop[1] = "drop"
BY DEF AccessNames, hal_i2s_write, hal_i2s_read, hal_i2s_start, hal_i2s_stop

-----------------------------------------------------------------------------
(* Where a thread is.                                                      *)

\* The last elements of a sequence, less the first of them, are again its last.
LEMMA SuffixTail ==
  ASSUME NEW S, NEW call \in Seq(S), NEW todo \in Seq(S), todo # <<>>,
         Len(todo) <= Len(call),
         \A i \in 1 .. Len(todo) : todo[i] = call[Len(call) - Len(todo) + i]
  PROVE  /\ call # <<>>
         /\ Len(todo) \in 1 .. Len(call)
         /\ Head(todo) = call[Len(call) - Len(todo) + 1]
         /\ Tail(todo) \in Seq(S)
         /\ Len(Tail(todo)) = Len(todo) - 1
         /\ Len(Tail(todo)) <= Len(call)
         /\ \A i \in 1 .. Len(Tail(todo)) :
              Tail(todo)[i] = call[Len(call) - Len(Tail(todo)) + i]
<1>1. Len(todo) \in Nat \ {0} /\ Len(call) \in Nat
  OBVIOUS
<1>2. call # <<>>
  BY <1>1
<1>3. Head(todo) = call[Len(call) - Len(todo) + 1]
  BY <1>1
<1>4. Tail(todo) \in Seq(S) /\ Len(Tail(todo)) = Len(todo) - 1
  BY <1>1
<1>5. ASSUME NEW i \in 1 .. Len(Tail(todo))
      PROVE  Tail(todo)[i] = call[Len(call) - Len(Tail(todo)) + i]
  <2>1. i \in Nat /\ i + 1 \in 1 .. Len(todo)
    BY <1>1, <1>4
  <2>2. Tail(todo)[i] = todo[i + 1]
    BY <1>1, <1>4
  <2>3. todo[i + 1] = call[Len(call) - Len(todo) + (i + 1)]
    BY <2>1
  <2>4. Len(call) - Len(todo) + (i + 1) = Len(call) - Len(Tail(todo)) + i
    BY <1>1, <1>4, <2>1
  <2> QED
    BY <2>2, <2>3, <2>4
<1> QED
  BY <1>1, <1>2, <1>3, <1>4, <1>5

\* The next access of a call is the one that the number of those left tells.
LEMMA NextAccess ==
  ASSUME NEW c \in CallRecords, Suffix(c), c.todo # <<>>
  PROVE  /\ c.call # <<>>
         /\ Len(c.todo) \in 1 .. Len(c.call)
         /\ Head(c.todo) = c.call[Len(c.call) - Len(c.todo) + 1]
         /\ Tail(c.todo) \in Seq(AccessNames)
         /\ Len(Tail(c.todo)) = Len(c.todo) - 1
         /\ \A d \in CallRecords : (d.call = c.call /\ d.todo = Tail(c.todo)) => Suffix(d)
<1> DEFINE call == c.call
           todo == c.todo
<1>1. call \in Seq(AccessNames) /\ todo \in Seq(AccessNames) /\ todo # <<>>
  BY DEF CallRecords
<1>2. /\ Len(todo) <= Len(call)
      /\ \A i \in 1 .. Len(todo) : todo[i] = call[Len(call) - Len(todo) + i]
  BY DEF Suffix
<1> HIDE DEF call, todo
<1>3. /\ call # <<>>
      /\ Len(todo) \in 1 .. Len(call)
      /\ Head(todo) = call[Len(call) - Len(todo) + 1]
      /\ Tail(todo) \in Seq(AccessNames)
      /\ Len(Tail(todo)) = Len(todo) - 1
      /\ Len(Tail(todo)) <= Len(call)
      /\ \A i \in 1 .. Len(Tail(todo)) :
           Tail(todo)[i] = call[Len(call) - Len(Tail(todo)) + i]
  BY <1>1, <1>2, SuffixTail
<1>4. ASSUME NEW d \in CallRecords, d.call = call, d.todo = Tail(todo)
      PROVE  Suffix(d)
  BY <1>3, <1>4 DEF Suffix
<1> QED
  BY <1>3, <1>4 DEF call, todo

\* A call's next access is told by the number of accesses left.
LEMMA AccessPosition ==
  ASSUME DeviceTypes, CallsInProgress, NEW t \in Threads, th[t].todo # <<>>
  PROVE  /\ th[t].call \in Calls[kind] /\ IsOpen(user[t])
         /\ Left(t) \in 1 .. Len(th[t].call)
         /\ Head(th[t].todo) = th[t].call[Len(th[t].call) - Left(t) + 1]
         /\ Tail(th[t].todo) \in Seq(AccessNames)
         /\ Len(Tail(th[t].todo)) = Left(t) - 1
         /\ \A d \in CallRecords : (d.call = th[t].call /\ d.todo = Tail(th[t].todo)) => Suffix(d)
<1>1. th[t] \in CallRecords /\ Suffix(th[t])
  BY DEF DeviceTypes, CallsInProgress
<1> QED
  BY <1>1, NextAccess DEF CallsInProgress, Left

\* An access by its number from the end.
LEMMA OneAccess ==
  ASSUME NEW c, NEW n \in 1 .. Len(c), Len(c) = 1
  PROVE  n = 1 /\ c[Len(c) - n + 1] = c[1]
OBVIOUS

\* Which one it is, for a call of two accesses.
LEMMA TwoAccesses ==
  ASSUME NEW c, NEW n \in 1 .. Len(c), Len(c) = 2
  PROVE  \/ n = 2 /\ c[Len(c) - n + 1] = c[1]
         \/ n = 1 /\ c[Len(c) - n + 1] = c[2]
OBVIOUS

\* For a call of three.
LEMMA ThreeAccesses ==
  ASSUME NEW c, NEW n \in 1 .. Len(c), Len(c) = 3
  PROVE  \/ n = 3 /\ c[Len(c) - n + 1] = c[1]
         \/ n = 2 /\ c[Len(c) - n + 1] = c[2]
         \/ n = 1 /\ c[Len(c) - n + 1] = c[3]
OBVIOUS

\* For a call of five.
LEMMA FiveAccesses ==
  ASSUME NEW c, NEW n \in 1 .. Len(c), Len(c) = 5
  PROVE  \/ n = 5 /\ c[Len(c) - n + 1] = c[1]
         \/ n = 4 /\ c[Len(c) - n + 1] = c[2]
         \/ n = 3 /\ c[Len(c) - n + 1] = c[3]
         \/ n = 2 /\ c[Len(c) - n + 1] = c[4]
         \/ n = 1 /\ c[Len(c) - n + 1] = c[5]
OBVIOUS

At(t, call, n) == th[t].call = call /\ Left(t) = n

\* The calls that make an access, and how much of them is left.
LEMMA AccessSites ==
  ASSUME DeviceTypes, CallsInProgress, NEW t \in Threads, th[t].todo # <<>>
  PROVE  /\ Access(t, "lseek") => /\ kind = "gpio"
                                  /\ \/ At(t, hal_gpio_read, 2) \/ At(t, hal_gpio_write, 2)
                                     \/ At(t, hal_gpio_toggle, 5) \/ At(t, hal_gpio_toggle, 2)
         /\ Access(t, "read") => kind = "gpio" /\ (At(t, hal_gpio_read, 1) \/ At(t, hal_gpio_toggle, 4))
         /\ Access(t, "invert") => kind = "gpio" /\ At(t, hal_gpio_toggle, 3)
         /\ Access(t, "write") => kind = "gpio" /\ (At(t, hal_gpio_write, 1) \/ At(t, hal_gpio_toggle, 1))
         /\ Access(t, "select") => kind = "i2c" /\ (At(t, hal_i2c_write, 1) \/ At(t, hal_i2c_read_reg, 2))
         /\ Access(t, "fetch") => kind = "i2c" /\ (At(t, hal_i2c_read, 1) \/ At(t, hal_i2c_read_reg, 1))
         /\ Access(t, "store") => kind = "i2c" /\ At(t, hal_i2c_write_reg, 1)
         /\ Access(t, "exchange") => kind = "spi" /\ At(t, hal_spi_transfer, 1)
         /\ (Access(t, "poll") \/ Access(t, "receive") \/ Access(t, "try")) => kind \in {"can", "input"}
         /\ Access(t, "load") => kind = "pwm" /\ At(t, hal_pwm_set_duty_cycle, 3)
         /\ Access(t, "clamp") => kind = "pwm" /\ At(t, hal_pwm_set_duty_cycle, 2)
         /\ Access(t, "duty") => kind = "pwm" /\ At(t, hal_pwm_set_duty_cycle, 1)
         /\ Access(t, "period") => kind = "pwm" /\ At(t, hal_pwm_set_frequency, 1)
         /\ Access(t, "enable") => kind = "pwm" /\ At(t, hal_pwm_enable, 1)
         /\ Access(t, "disable") => kind = "pwm" /\ At(t, hal_pwm_disable, 1)
         /\ Access(t, "wait") => kind = "i2s" /\ (At(t, hal_i2s_write, 2) \/ At(t, hal_i2s_read, 2))
         /\ Access(t, "writei") => kind = "i2s" /\ At(t, hal_i2s_write, 1)
         /\ Access(t, "readi") => kind = "i2s" /\ At(t, hal_i2s_read, 1)
         /\ (\E op \in {"send", "feed", "limit", "control", "bulk_out", "bulk_in"} : Access(t, op)) =>
              kind \in {"can", "watchdog", "usb"}
         /\ (Access(t, "start") \/ Access(t, "drop")) =>
              kind = "i2s" /\ (At(t, hal_i2s_start, 1) \/ At(t, hal_i2s_stop, 1))
<1> DEFINE op == Head(th[t].todo)
<1>1. /\ th[t].call \in Calls[kind]
      /\ Left(t) \in 1 .. Len(th[t].call)
      /\ op = th[t].call[Len(th[t].call) - Left(t) + 1]
  BY AccessPosition
<1> HIDE DEF op
<1>2. kind \in DOMAIN Open
  BY DEF DeviceTypes
<1>3. CASE kind = "i2c"
  <2>1. th[t].call \in {hal_i2c_write, hal_i2c_read, hal_i2c_write_reg, hal_i2c_read_reg}
    BY <1>1, <1>3 DEF Calls
  <2>2. th[t].call = hal_i2c_write => Left(t) = 1 /\ op = "select"
    BY <1>1, OneAccess, I2cCalls, Zenon
  <2>3. th[t].call = hal_i2c_read => Left(t) = 1 /\ op = "fetch"
    BY <1>1, OneAccess, I2cCalls, Zenon
  <2>4. th[t].call = hal_i2c_write_reg => Left(t) = 1 /\ op = "store"
    BY <1>1, OneAccess, I2cCalls, Zenon
  <2>5. ASSUME th[t].call = hal_i2c_read_reg
       PROVE  \/ Left(t) = 2 /\ op = "select"
              \/ Left(t) = 1 /\ op = "fetch"
    <3>1. /\ Len(th[t].call) = 2
          /\ th[t].call[1] = "select" /\ th[t].call[2] = "fetch"
      BY <2>5, I2cCalls, Zenon
    <3> QED
      BY <1>1, <3>1, TwoAccesses, Zenon
  <2> QED
    BY <1>3, <2>1, <2>2, <2>3, <2>4, <2>5 DEF Access, At, op
<1>4. CASE kind = "spi"
  <2>1. th[t].call \in {hal_spi_transfer}
    BY <1>1, <1>4 DEF Calls
  <2>2. th[t].call = hal_spi_transfer => Left(t) = 1 /\ op = "exchange"
    BY <1>1, OneAccess, SpiCalls, Zenon
  <2> QED
    BY <1>4, <2>1, <2>2 DEF Access, At, op
<1>5. CASE kind = "can"
  <2>1. th[t].call \in {hal_can_send, hal_can_receive}
    BY <1>1, <1>5 DEF Calls
  <2>2. th[t].call = hal_can_send => Left(t) = 1 /\ op = "send"
    BY <1>1, OneAccess, CanCalls, Zenon
  <2>3. ASSUME th[t].call = hal_can_receive
       PROVE  \/ Left(t) = 2 /\ op = "poll"
              \/ Left(t) = 1 /\ op = "receive"
    <3>1. /\ Len(th[t].call) = 2
          /\ th[t].call[1] = "poll" /\ th[t].call[2] = "receive"
      BY <2>3, CanCalls, Zenon
    <3> QED
      BY <1>1, <3>1, TwoAccesses, Zenon
  <2> QED
    BY <1>5, <2>1, <2>2, <2>3 DEF Access, At, op
<1>6. CASE kind = "input"
  <2>1. th[t].call \in {hal_input_read_event, Tail(hal_input_read_event)}
    BY <1>1, <1>6 DEF Calls
  <2>2. ASSUME th[t].call = hal_input_read_event
       PROVE  \/ Left(t) = 2 /\ op = "poll"
              \/ Left(t) = 1 /\ op = "try"
    <3>1. /\ Len(th[t].call) = 2
          /\ th[t].call[1] = "poll" /\ th[t].call[2] = "try"
      BY <2>2, InputCalls, Zenon
    <3> QED
      BY <1>1, <3>1, TwoAccesses, Zenon
  <2>3. th[t].call = Tail(hal_input_read_event) => Left(t) = 1 /\ op = "try"
    BY <1>1, OneAccess, InputCalls, Zenon
  <2> QED
    BY <1>6, <2>1, <2>2, <2>3 DEF Access, At, op
<1>7. CASE kind = "gpio"
  <2>1. th[t].call \in {hal_gpio_read, hal_gpio_write, hal_gpio_toggle}
    BY <1>1, <1>7 DEF Calls
  <2>2. ASSUME th[t].call = hal_gpio_read
       PROVE  \/ Left(t) = 2 /\ op = "lseek"
              \/ Left(t) = 1 /\ op = "read"
    <3>1. /\ Len(th[t].call) = 2
          /\ th[t].call[1] = "lseek" /\ th[t].call[2] = "read"
      BY <2>2, GpioCalls, Zenon
    <3> QED
      BY <1>1, <3>1, TwoAccesses, Zenon
  <2>3. ASSUME th[t].call = hal_gpio_write
       PROVE  \/ Left(t) = 2 /\ op = "lseek"
              \/ Left(t) = 1 /\ op = "write"
    <3>1. /\ Len(th[t].call) = 2
          /\ th[t].call[1] = "lseek" /\ th[t].call[2] = "write"
      BY <2>3, GpioCalls, Zenon
    <3> QED
      BY <1>1, <3>1, TwoAccesses, Zenon
  <2>4. ASSUME th[t].call = hal_gpio_toggle
       PROVE  \/ Left(t) = 5 /\ op = "lseek"
              \/ Left(t) = 4 /\ op = "read"
              \/ Left(t) = 3 /\ op = "invert"
              \/ Left(t) = 2 /\ op = "lseek"
              \/ Left(t) = 1 /\ op = "write"
    <3>1. /\ Len(th[t].call) = 5
          /\ th[t].call[1] = "lseek" /\ th[t].call[2] = "read" /\ th[t].call[3] = "invert" /\ th[t].call[4] = "lseek" /\ th[t].call[5] = "write"
      BY <2>4, GpioCalls, Zenon
    <3> QED
      BY <1>1, <3>1, FiveAccesses, Zenon
  <2> QED
    BY <1>7, <2>1, <2>2, <2>3, <2>4 DEF Access, At, op
<1>8. CASE kind = "pwm"
  <2>1. th[t].call \in {hal_pwm_set_frequency, hal_pwm_set_duty_cycle, hal_pwm_enable, hal_pwm_disable}
    BY <1>1, <1>8 DEF Calls
  <2>2. th[t].call = hal_pwm_set_frequency => Left(t) = 1 /\ op = "period"
    BY <1>1, OneAccess, PwmCalls, Zenon
  <2>3. ASSUME th[t].call = hal_pwm_set_duty_cycle
       PROVE  \/ Left(t) = 3 /\ op = "load"
              \/ Left(t) = 2 /\ op = "clamp"
              \/ Left(t) = 1 /\ op = "duty"
    <3>1. /\ Len(th[t].call) = 3
          /\ th[t].call[1] = "load" /\ th[t].call[2] = "clamp" /\ th[t].call[3] = "duty"
      BY <2>3, PwmCalls, Zenon
    <3> QED
      BY <1>1, <3>1, ThreeAccesses, Zenon
  <2>4. th[t].call = hal_pwm_enable => Left(t) = 1 /\ op = "enable"
    BY <1>1, OneAccess, PwmCalls, Zenon
  <2>5. th[t].call = hal_pwm_disable => Left(t) = 1 /\ op = "disable"
    BY <1>1, OneAccess, PwmCalls, Zenon
  <2> QED
    BY <1>8, <2>1, <2>2, <2>3, <2>4, <2>5 DEF Access, At, op
<1>9. CASE kind = "watchdog"
  <2>1. th[t].call \in {hal_watchdog_feed, hal_watchdog_set_timeout}
    BY <1>1, <1>9 DEF Calls
  <2>2. th[t].call = hal_watchdog_feed => Left(t) = 1 /\ op = "feed"
    BY <1>1, OneAccess, WatchdogCalls, Zenon
  <2>3. th[t].call = hal_watchdog_set_timeout => Left(t) = 1 /\ op = "limit"
    BY <1>1, OneAccess, WatchdogCalls, Zenon
  <2> QED
    BY <1>9, <2>1, <2>2, <2>3 DEF Access, At, op
<1>10. CASE kind = "usb"
  <2>1. th[t].call \in {hal_usb_control_transfer, hal_usb_bulk_write, hal_usb_bulk_read}
    BY <1>1, <1>10 DEF Calls
  <2>2. th[t].call = hal_usb_control_transfer => Left(t) = 1 /\ op = "control"
    BY <1>1, OneAccess, UsbCalls, Zenon
  <2>3. th[t].call = hal_usb_bulk_write => Left(t) = 1 /\ op = "bulk_out"
    BY <1>1, OneAccess, UsbCalls, Zenon
  <2>4. th[t].call = hal_usb_bulk_read => Left(t) = 1 /\ op = "bulk_in"
    BY <1>1, OneAccess, UsbCalls, Zenon
  <2> QED
    BY <1>10, <2>1, <2>2, <2>3, <2>4 DEF Access, At, op
<1>11. CASE kind = "i2s"
  <2>1. th[t].call \in {hal_i2s_write, hal_i2s_read, hal_i2s_start, hal_i2s_stop}
    BY <1>1, <1>11 DEF Calls
  <2>2. ASSUME th[t].call = hal_i2s_write
       PROVE  \/ Left(t) = 2 /\ op = "wait"
              \/ Left(t) = 1 /\ op = "writei"
    <3>1. /\ Len(th[t].call) = 2
          /\ th[t].call[1] = "wait" /\ th[t].call[2] = "writei"
      BY <2>2, I2sCalls, Zenon
    <3> QED
      BY <1>1, <3>1, TwoAccesses, Zenon
  <2>3. ASSUME th[t].call = hal_i2s_read
       PROVE  \/ Left(t) = 2 /\ op = "wait"
              \/ Left(t) = 1 /\ op = "readi"
    <3>1. /\ Len(th[t].call) = 2
          /\ th[t].call[1] = "wait" /\ th[t].call[2] = "readi"
      BY <2>3, I2sCalls, Zenon
    <3> QED
      BY <1>1, <3>1, TwoAccesses, Zenon
  <2>4. th[t].call = hal_i2s_start => Left(t) = 1 /\ op = "start"
    BY <1>1, OneAccess, I2sCalls, Zenon
  <2>5. th[t].call = hal_i2s_stop => Left(t) = 1 /\ op = "drop"
    BY <1>1, OneAccess, I2sCalls, Zenon
  <2> QED
    BY <1>11, <2>1, <2>2, <2>3, <2>4, <2>5 DEF Access, At, op
<1>12. kind \notin {"adc", "onewire"}
  BY <1>1 DEF Calls
<1> QED
  BY <1>2, KindNames, <1>3, <1>4, <1>5, <1>6, <1>7, <1>8, <1>9, <1>10, <1>11, <1>12

\* The first access of a call tells the kind of its device.
LEMMA CallKinds ==
  ASSUME NEW k \in DOMAIN Open, NEW c \in Calls[k]
  PROVE  /\ c # <<>> /\ c \in Seq(AccessNames)
         /\ c \in {hal_gpio_read, hal_gpio_write, hal_gpio_toggle} => k = "gpio"
         /\ c \in {hal_i2c_read_reg, hal_i2c_write_reg} => k = "i2c"
         /\ c = hal_spi_transfer => k = "spi"
         /\ c \in {hal_pwm_set_frequency, hal_pwm_set_duty_cycle} => k = "pwm"
         /\ c \in {hal_i2s_write, hal_i2s_read} => k = "i2s"
<1>1. /\ hal_gpio_read[1] = "lseek" /\ hal_gpio_write[1] = "lseek" /\ hal_gpio_toggle[1] = "lseek"
      /\ hal_i2c_read_reg[1] = "select" /\ hal_i2c_write_reg[1] = "store"
      /\ hal_spi_transfer[1] = "exchange"
      /\ hal_pwm_set_frequency[1] = "period" /\ hal_pwm_set_duty_cycle[1] = "load"
      /\ hal_i2s_write[1] = "wait" /\ hal_i2s_read[1] = "wait"
  BY GpioCalls, I2cCalls, SpiCalls, PwmCalls, I2sCalls
<1>2. CASE k = "i2c"
  <2>1. c[1] \in {"select", "fetch", "store"} /\ c # <<>> /\ c \in Seq(AccessNames)
    BY <1>2, I2cCalls DEF Calls
  <2> QED
    BY <1>1, <1>2, <2>1
<1>3. CASE k = "spi"
  <2>1. c[1] \in {"exchange"} /\ c # <<>> /\ c \in Seq(AccessNames)
    BY <1>3, SpiCalls DEF Calls
  <2> QED
    BY <1>1, <1>3, <2>1
<1>4. CASE k = "can"
  <2>1. c[1] \in {"send", "poll"} /\ c # <<>> /\ c \in Seq(AccessNames)
    BY <1>4, CanCalls DEF Calls
  <2> QED
    BY <1>1, <1>4, <2>1
<1>5. CASE k = "input"
  <2>1. c[1] \in {"poll", "try"} /\ c # <<>> /\ c \in Seq(AccessNames)
    <3>1. c = hal_input_read_event \/ c = Tail(hal_input_read_event)
      BY <1>5 DEF Calls
    <3>2. /\ c[1] \in {"poll", "try"} /\ c \in Seq(AccessNames)
          /\ Len(c) = 2 \/ Len(c) = 1
      BY <3>1, InputCalls, Zenon
    <3> QED
      BY <3>2
  <2> QED
    BY <1>1, <1>5, <2>1
<1>6. CASE k = "gpio"
  <2>1. c[1] \in {"lseek"} /\ c # <<>> /\ c \in Seq(AccessNames)
    BY <1>6, GpioCalls DEF Calls
  <2> QED
    BY <1>1, <1>6, <2>1
<1>7. CASE k = "pwm"
  <2>1. c[1] \in {"period", "load", "enable", "disable"} /\ c # <<>> /\ c \in Seq(AccessNames)
    BY <1>7, PwmCalls DEF Calls
  <2> QED
    BY <1>1, <1>7, <2>1
<1>8. CASE k = "watchdog"
  <2>1. c[1] \in {"feed", "limit"} /\ c # <<>> /\ c \in Seq(AccessNames)
    BY <1>8, WatchdogCalls DEF Calls
  <2> QED
    BY <1>1, <1>8, <2>1
<1>9. CASE k = "usb"
  <2>1. c[1] \in {"control", "bulk_out", "bulk_in"} /\ c # <<>> /\ c \in Seq(AccessNames)
    BY <1>9, UsbCalls DEF Calls
  <2> QED
    BY <1>1, <1>9, <2>1
<1>10. CASE k = "i2s"
  <2>1. c[1] \in {"wait", "start", "drop"} /\ c # <<>> /\ c \in Seq(AccessNames)
    BY <1>10, I2sCalls DEF Calls
  <2> QED
    BY <1>1, <1>10, <2>1
<1>11. k \notin {"adc", "onewire"}
  BY DEF Calls
<1> QED
  BY KindNames, <1>2, <1>3, <1>4, <1>5, <1>6, <1>7, <1>8, <1>9, <1>10, <1>11

\* What another thread's step does to a call is to mark it, if it touches the call's
\* device or handle.
LEMMA Disturbed ==
  ASSUME DeviceTypes, NEW u \in Threads, NEW h, NEW touched \in BOOLEAN
  PROVE  LET d == Disturb(u, h, touched)
         IN  /\ d \in CallRecords
             /\ d.call = th[u].call /\ d.todo = th[u].todo /\ d.arg = th[u].arg
             /\ d.val = th[u].val /\ d.seen = th[u].seen
             /\ d.clean => th[u].clean
             /\ (d.clean /\ th[u].call # <<>>) => (~touched /\ user[u] # h)
<1>1. th[u] \in CallRecords
  BY DEF DeviceTypes
<1>2. CASE th[u].call = <<>>
  BY <1>1, <1>2 DEF Disturb
<1>3. CASE th[u].call # <<>>
  BY <1>1, <1>3 DEF Disturb, CallRecords
<1> QED
  BY <1>2, <1>3

-----------------------------------------------------------------------------
(* What a step leaves alone.                                               *)

SameCall(u) ==
  /\ th'[u] \in CallRecords
  /\ th'[u].call = th[u].call /\ th'[u].todo = th[u].todo /\ th'[u].arg = th[u].arg
  /\ th'[u].val = th[u].val /\ th'[u].seen = th[u].seen
  /\ th'[u].clean => th[u].clean

\* A call that is still clean after a step of another thread on handle h.
Bystander(u, h, touched) ==
  /\ SameCall(u)
  /\ (th'[u].clean /\ th[u].call # <<>>) => (~touched /\ user[u] # h)

\* An access of one thread takes it one access further and marks the others.
LEMMA Proceeded ==
  ASSUME DeviceTypes, CallsInProgress, NEW t \in Threads, th[t].todo # <<>>,
         NEW v \in Int \union Handles, NEW touched \in BOOLEAN, Proceed(t, v, touched)
  PROVE  /\ th' \in [Threads -> CallRecords]
         /\ th'[t].call = th[t].call /\ th'[t].todo = Tail(th[t].todo)
         /\ Len(th'[t].todo) = Left(t) - 1
         /\ th'[t].arg = th[t].arg /\ th'[t].val = v /\ th'[t].seen = th[t].seen
         /\ th'[t].clean = th[t].clean
         /\ Suffix(th'[t])
         /\ \A u \in Threads \ {t} : Bystander(u, user[t], touched)
<1>1. /\ Tail(th[t].todo) \in Seq(AccessNames)
      /\ Len(Tail(th[t].todo)) = Left(t) - 1
      /\ \A d \in CallRecords : (d.call = th[t].call /\ d.todo = Tail(th[t].todo)) => Suffix(d)
  BY AccessPosition
<1>2. th[t] \in CallRecords
  BY DEF DeviceTypes
<1> DEFINE own == [th[t] EXCEPT !.todo = Tail(@), !.val = v]
<1>3. /\ own \in CallRecords
      /\ own.call = th[t].call /\ own.todo = Tail(th[t].todo) /\ own.arg = th[t].arg
      /\ own.val = v /\ own.seen = th[t].seen /\ own.clean = th[t].clean
  BY <1>1, <1>2 DEF CallRecords
<1>4. /\ th' = [u \in Threads |-> IF u = t THEN own ELSE Disturb(u, user[t], touched)]
  BY DEF Proceed
<1> HIDE DEF own
<1>5. th'[t] = own
  BY <1>4
<1>6. ASSUME NEW u \in Threads \ {t}
      PROVE  Bystander(u, user[t], touched)
  <2>1. th'[u] = Disturb(u, user[t], touched)
    BY <1>4
  <2> QED
    BY <2>1, Disturbed DEF Bystander, SameCall
<1>7. th' \in [Threads -> CallRecords]
  BY <1>3, <1>4, <1>5, <1>6 DEF Bystander, SameCall
<1> QED
  BY <1>1, <1>3, <1>5, <1>6, <1>7

\* An open, a close or an arrival lets nobody's call go on, and a call that
\* sees it counts as disturbed.
OpenOrClose(h) ==
  BeginOpen(h) \/ OpenStep(h) \/ OpenIgnore(h) \/ OpenFail(h) \/ CloseHandle(h) \/ Arrive(h) \/ Xrun(h)

\* A step of an open or a close calls nothing, and marks the calls it disturbs.
LEMMA OpenFrame ==
  ASSUME DeviceTypes, NEW h \in Handles, OpenOrClose(h)
  PROVE  /\ kind' = kind /\ user' = user
         /\ th' \in [Threads -> CallRecords]
         /\ \A u \in Threads : SameCall(u) /\ (th'[u].clean /\ th[u].call # <<>> /\ kind \notin {"watchdog", "i2s"} => dev' = dev)
<1>1. kind' = kind /\ user' = user
  BY DEF OpenOrClose, BeginOpen, OpenStep, OpenIgnore, OpenFail, CloseHandle, Arrive, Xrun
<1>2. CASE OpenStep(h)
  <2> DEFINE touched == dev' # dev
  <2>1. /\ \A u \in Threads : th'[u] = Disturb(u, h, touched)
        /\ touched \in BOOLEAN
        /\ ~touched => dev' = dev
    BY <1>2 DEF OpenStep
  <2> HIDE DEF touched
  <2>2. ASSUME NEW u \in Threads
        PROVE  SameCall(u) /\ (th'[u].clean /\ th[u].call # <<>> => dev' = dev)
    BY <2>1, Disturbed DEF SameCall
  <2>3. th' \in [Threads -> CallRecords]
    BY <1>2, <2>2 DEF OpenStep, SameCall
  <2> QED
    BY <1>1, <2>2, <2>3
<1>3. CASE ~OpenStep(h)
  <2>1. th' = th
    BY <1>3 DEF OpenOrClose, BeginOpen, OpenIgnore, OpenFail, CloseHandle, Arrive, Xrun
  <2>2. kind \notin {"watchdog", "i2s"} => dev' = dev
    BY <1>3 DEF OpenOrClose, BeginOpen, OpenIgnore, OpenFail, CloseHandle, Arrive, Xrun
  <2> QED
    BY <1>1, <2>1, <2>2 DEF SameCall, DeviceTypes
<1> QED
  BY <1>2, <1>3

\* A handle after one more step of its open.
LEMMA Advanced ==
  ASSUME NEW c \in HandleRecords, NEW r
  PROVE  LET d == [c EXCEPT !.at = c.at + 1, !.has = c.has \union ({r} \intersect Owned)]
         IN  /\ d \in HandleRecords
             /\ d.at = c.at + 1 /\ d.has = c.has \union ({r} \intersect Owned)
             /\ d.off = c.off /\ d.period = c.period /\ d.queued = c.queued
<1> DEFINE at == c.at + 1
           has == c.has \union ({r} \intersect Owned)
<1>1. at \in Nat /\ has \in SUBSET Owned
  BY DEF HandleRecords
<1> HIDE DEF at, has
<1>2. /\ [c EXCEPT !.at = at, !.has = has] \in HandleRecords
      /\ [c EXCEPT !.at = at, !.has = has].at = at
      /\ [c EXCEPT !.at = at, !.has = has].has = has
      /\ [c EXCEPT !.at = at, !.has = has].off = c.off
      /\ [c EXCEPT !.at = at, !.has = has].period = c.period
      /\ [c EXCEPT !.at = at, !.has = has].queued = c.queued
  BY <1>1 DEF HandleRecords
<1> QED
  BY <1>2 DEF at, has

\* It changes its own handle only.
LEMMA OpenHandles ==
  ASSUME DeviceTypes, NEW h \in Handles, OpenOrClose(h)
  PROVE  /\ handle' \in [Handles -> HandleRecords]
         /\ \A g \in Handles \ {h} : handle'[g] = handle[g]
         /\ kernel' \subseteq Remembered
         /\ refused' \in BOOLEAN
<1>1. handle \in [Handles -> HandleRecords] /\ handle[h] \in HandleRecords /\ kernel \subseteq Remembered
  BY DEF DeviceTypes
<1>2. refused \in BOOLEAN
  BY DEF DeviceTypes
<1>3. CASE BeginOpen(h)
  BY <1>1, <1>2, <1>3 DEF BeginOpen, HandleRecords
<1>4. CASE OpenStep(h)
  <2>1. handle' \in [Handles -> HandleRecords] /\ \A g \in Handles \ {h} : handle'[g] = handle[g]
    <3>1. PICK r : handle' = [handle EXCEPT ![h].at = @ + 1, ![h].has = @ \union ({r} \intersect Owned)]
      BY <1>4 DEF OpenStep
    <3> DEFINE new == [handle[h] EXCEPT !.at = @ + 1, !.has = @ \union ({r} \intersect Owned)]
    <3>2. handle' = [handle EXCEPT ![h] = new]
      BY <1>1, <3>1
    <3>3. new \in HandleRecords
      BY <1>1, Advanced
    <3> HIDE DEF new
    <3> QED
      BY <1>1, <3>2, <3>3
  <2>2. kernel' \subseteq Remembered
    BY <1>1, <1>4 DEF OpenStep
  <2>3. refused' \in BOOLEAN
    BY <1>4 DEF OpenStep
  <2> QED
    BY <2>1, <2>2, <2>3
<1>5. CASE OpenIgnore(h)
  BY <1>1, <1>2, <1>5 DEF OpenIgnore, HandleRecords
<1>6. Closed \in HandleRecords
  BY DEF Closed, HandleRecords, Bits, Periods, DefaultPeriod
<1>7. CASE OpenFail(h)
  BY <1>1, <1>2, <1>6, <1>7 DEF OpenFail
<1>8. CASE CloseHandle(h)
  <2>1. handle' \in [Handles -> HandleRecords] /\ \A g \in Handles \ {h} : handle'[g] = handle[g]
    BY <1>1, <1>6, <1>8 DEF CloseHandle
  <2>2. kernel' \subseteq Remembered
    BY <1>1, <1>8 DEF CloseHandle
  <2>3. refused' \in BOOLEAN
    BY <1>2, <1>8 DEF CloseHandle
  <2> QED
    BY <2>1, <2>2, <2>3
<1>9. CASE Arrive(h)
  BY <1>1, <1>2, <1>9 DEF Arrive, HandleRecords
<1>10. CASE Xrun(h)
  BY <1>1, <1>2, <1>10 DEF Xrun
<1> QED
  BY <1>3, <1>4, <1>5, <1>7, <1>8, <1>9, <1>10 DEF OpenOrClose

\* A handle that is in use stays as the calls on it know it.
LEMMA OpenKeepsUsed ==
  ASSUME DeviceTypes, CallsInProgress, NEW h \in Handles, OpenOrClose(h),
         NEW u \in Threads, th[u].call # <<>>
  PROVE  /\ handle'[user[u]].at = handle[user[u]].at
         /\ handle'[user[u]].has = handle[user[u]].has
         /\ handle'[user[u]].off = handle[user[u]].off
         /\ handle'[user[u]].period = handle[user[u]].period
<1>1. user[u] \in Handles /\ handle \in [Handles -> HandleRecords] /\ kind \in DOMAIN Open
  BY DEF DeviceTypes
<1>2. CASE user[u] # h
  BY <1>1, <1>2, OpenHandles
<1>3. CASE user[u] = h
  <2>1. handle[h].at = Len(Open[kind]) + 1 /\ Len(Open[kind]) \in Nat /\ DOMAIN Open[kind] = 1 .. Len(Open[kind])
    BY <1>1, <1>3, OpenSteps DEF CallsInProgress, IsOpen
  <2>2. ~Opening(h)
    BY <2>1 DEF Opening
  <2>3. handle[h] # Closed
    BY <2>1 DEF Closed
  <2>4. th[u] # Idle
    BY DEF Idle
  <2>5. Arrive(h) \/ Xrun(h)
    BY <1>3, <2>2, <2>3, <2>4 DEF OpenOrClose, BeginOpen, OpenStep, OpenIgnore, OpenFail, CloseHandle
  <2>6. CASE Arrive(h)
    BY <1>1, <1>3, <2>6 DEF Arrive, HandleRecords
  <2>7. CASE Xrun(h)
    BY <1>3, <2>7 DEF Xrun
  <2> QED
    BY <2>5, <2>6, <2>7
<1> QED
  BY <1>2, <1>3

CallStep(t) ==
  \/ BeginCall(t) \/ GpioAccess(t) \/ I2cAccess(t) \/ SpiAccess(t) \/ QueueAccess(t)
  \/ PlainAccess(t) \/ PwmAccess(t) \/ PcmAccess(t) \/ Fail(t) \/ Return(t)

\* A step is one of an open or close, or one of a call.
LEMMA NextCases ==
  ASSUME Next
  PROVE  (\E h \in Handles : OpenOrClose(h)) \/ (\E t \in Threads : CallStep(t))
BY DEF Next, OpenOrClose, CallStep, Running, External

\* What a call may change of a handle.
CallHandle(t) ==
  /\ handle' \in [Handles -> HandleRecords]
  /\ handle'[user[t]].at = handle[user[t]].at /\ handle'[user[t]].has = handle[user[t]].has
  /\ \A h \in Handles \ {user[t]} : handle'[h] = handle[h]

\* A step of a call acquires and leaks nothing.
LEMMA CallFrame ==
  ASSUME DeviceTypes, CallsInProgress, NEW t \in Threads, CallStep(t)
  PROVE  /\ kind' = kind /\ user' = user /\ kernel' = kernel
         /\ leaked' = leaked /\ refused' = refused
         /\ CallHandle(t)
<1>1. /\ kind' = kind /\ user' = user /\ kernel' = kernel
      /\ leaked' = leaked /\ refused' = refused
  BY DEF CallStep, BeginCall, GpioAccess, I2cAccess, SpiAccess, QueueAccess, PlainAccess, PwmAccess,
         PcmAccess, Fail, Return
<1> SUFFICES CallHandle(t)
  BY <1>1
<1>2. user[t] \in Handles /\ handle \in [Handles -> HandleRecords] /\ handle[user[t]] \in HandleRecords
  BY DEF DeviceTypes
<1>3. CASE UNCHANGED handle
  BY <1>2, <1>3 DEF CallHandle
<1>4. ASSUME NEW v \in Bits, handle' = [handle EXCEPT ![user[t]].off = v]
      PROVE  CallHandle(t)
  BY <1>2, <1>4 DEF CallHandle, HandleRecords
<1>5. CASE GpioAccess(t)
  <2>1. 0 \in Bits /\ 1 \in Bits
    BY DEF Bits
  <2>2. \/ UNCHANGED handle
        \/ handle' = [handle EXCEPT ![user[t]].off = 0]
        \/ handle' = [handle EXCEPT ![user[t]].off = 1]
    BY <1>5 DEF GpioAccess
  <2> QED
    BY <1>3, <1>4, <2>1, <2>2
<1>6. CASE QueueAccess(t)
  <2>1. handle[user[t]].queued > 0 /\ handle[user[t]].queued \in Nat
    BY <1>2, <1>6 DEF QueueAccess, HandleRecords
  <2>2. CASE handle' = [handle EXCEPT ![user[t]].queued = @ - 1]
    BY <1>2, <2>1, <2>2 DEF CallHandle, HandleRecords
  <2> QED
    BY <1>3, <1>6, <2>2 DEF QueueAccess
<1>7. ASSUME handle' = [handle EXCEPT ![user[t]].period = th[t].arg], Access(t, "period")
      PROVE  CallHandle(t)
  <2>1. th[t].arg \in Periods
    <3>1. th[t].todo # <<>>
      BY <1>7 DEF Access
    <3>2. At(t, hal_pwm_set_frequency, 1)
      BY <1>7, <3>1, AccessSites
    <3> QED
      BY <3>2 DEF At, CallsInProgress
  <2> QED
    BY <1>2, <1>7, <2>1 DEF CallHandle, HandleRecords
<1>8. CASE PwmAccess(t)
  BY <1>3, <1>7, <1>8 DEF PwmAccess
<1>9. CASE Fail(t)
  BY <1>3, <1>7, <1>9 DEF Fail
<1> QED
  BY <1>3, <1>5, <1>6, <1>8, <1>9
     DEF CallStep, BeginCall, I2cAccess, SpiAccess, PlainAccess, PcmAccess, Return

-----------------------------------------------------------------------------
(* Open and close.                                                         *)

\* A closed handle has nothing.
LEMMA ClosedHandle == Closed.at = 0 /\ Closed.has = {}
BY DEF Closed

\* What a step of an open does to its handle.
LEMMA Opened ==
  ASSUME DeviceTypes, NEW h \in Handles, OpenStep(h)
  PROVE  /\ kind \in DOMAIN Open /\ handle[h].at \in DOMAIN Open[kind] /\ handle[h].at \in Nat
         /\ ~Taken(h, Step(h).gets)
         /\ handle'[h].at = handle[h].at + 1
         /\ handle'[h].has = handle[h].has \union ({Step(h).gets} \intersect Owned)
         /\ kernel' = kernel \union ({Step(h).gets} \intersect Remembered)
<1>1. kind \in DOMAIN Open /\ handle \in [Handles -> HandleRecords] /\ handle[h] \in HandleRecords
  BY DEF DeviceTypes
<1>2. handle[h].at \in DOMAIN Open[kind] /\ handle[h].at \in Nat
  BY <1>1 DEF OpenStep, Opening, HandleRecords
<1>3. /\ handle' = [handle EXCEPT ![h].at = @ + 1, ![h].has = @ \union ({Step(h).gets} \intersect Owned)]
      /\ ~Taken(h, Step(h).gets)
      /\ kernel' = kernel \union ({Step(h).gets} \intersect Remembered)
  BY DEF OpenStep
<1>4. handle'[h] = [handle[h] EXCEPT !.at = @ + 1, !.has = @ \union ({Step(h).gets} \intersect Owned)]
  BY <1>1, <1>3
<1> DEFINE at == handle[h].at + 1
           has == handle[h].has \union ({Step(h).gets} \intersect Owned)
<1>5. handle'[h] = [handle[h] EXCEPT !.at = at, !.has = has]
  BY <1>4
<1> HIDE DEF at, has
<1>6. handle'[h].at = at /\ handle'[h].has = has
  BY <1>1, <1>5 DEF HandleRecords
<1> QED
  BY <1>1, <1>2, <1>3, <1>6 DEF at, has

\* The part of OpenProgress that speaks of one handle.
HandleProgress(h) ==
  /\ handle[h].at <= Len(Open[kind]) + 1
  /\ handle[h].has \subseteq Gained(kind, handle[h].at)
  /\ (kind = "gpio" /\ handle[h].at > 1) => "export" \in kernel
  /\ (kind = "i2s" /\ handle[h].at > 2) => "pcm" \in handle[h].has

\* A step that succeeds adds what it gets.
LEMMA OpenStepProgress ==
  ASSUME DeviceTypes, OpenProgress, NEW h \in Handles, OpenStep(h)
  PROVE  OpenProgress'
<1> DEFINE r == Step(h).gets
<1>1. /\ kind' = kind /\ leaked' = leaked /\ leaked = {}
  BY DEF OpenStep, OpenProgress
<1>2. \A g \in Handles \ {h} : handle'[g] = handle[g]
  BY OpenHandles DEF OpenOrClose
<1>3. kernel \subseteq kernel'
  BY Opened
<1>4. /\ handle[h].at \in 1 .. Len(Open[kind]) /\ Len(Open[kind]) \in Nat /\ kind \in DOMAIN Open
      /\ DOMAIN Open[kind] = 1 .. Len(Open[kind])
  BY Opened, OpenSteps
<1>5. handle[h].has \subseteq Gained(kind, handle[h].at)
  BY DEF OpenProgress
<1>6. handle'[h].at <= Len(Open[kind]) + 1
  BY <1>4, Opened
<1>7. handle'[h].has \subseteq Gained(kind, handle'[h].at)
  <2>1. Gained(kind, handle[h].at) \subseteq Gained(kind, handle[h].at + 1)
    BY <1>4 DEF Gained
  <2>2. {r} \intersect Owned \subseteq Gained(kind, handle[h].at + 1)
    BY <1>4 DEF Gained, Step
  <2> QED
    BY <1>5, <2>1, <2>2, Opened
<1>8. (kind = "gpio" /\ handle'[h].at > 1) => "export" \in kernel'
  <2>1. ASSUME kind = "gpio", handle[h].at = 1
        PROVE  "export" \in kernel'
    BY <2>1, Opened, ExclusiveSteps DEF Step, Remembered
  <2>2. ASSUME kind = "gpio", handle[h].at > 1
        PROVE  "export" \in kernel'
    BY <1>3, <2>2 DEF OpenProgress
  <2> QED
    BY <1>4, <2>1, <2>2
<1>9. (kind = "i2s" /\ handle'[h].at > 2) => "pcm" \in handle'[h].has
  <2>1. ASSUME kind = "i2s", handle[h].at = 2
        PROVE  "pcm" \in handle'[h].has
    <3>1. Step(h).gets = "pcm"
      BY <2>1, ExclusiveSteps DEF Step
    <3> QED
      BY <3>1, Opened DEF Owned
  <2>2. ASSUME kind = "i2s", handle[h].at > 2
        PROVE  "pcm" \in handle'[h].has
    BY <2>2, Opened DEF OpenProgress
  <2> QED
    BY <1>4, <2>1, <2>2, Opened
<1>10. ASSUME NEW f \in Handles, NEW g \in Handles,
              "pcm" \in handle'[f].has, "pcm" \in handle'[g].has
       PROVE  f = g
  <2>1. CASE r = "pcm"
    <3>1. \A e \in Handles \ {h} : "pcm" \notin handle[e].has
      BY <2>1, Opened DEF Taken, Exclusive
    <3> QED
      BY <1>2, <1>10, <3>1
  <2>2. CASE r # "pcm"
    <3>1. \A e \in Handles : "pcm" \in handle'[e].has => "pcm" \in handle[e].has
      BY <1>2, <2>2, Opened
    <3> QED
      BY <1>10, <3>1 DEF OpenProgress
  <2> QED
    BY <2>1, <2>2
<1>11. \A g \in Handles : HandleProgress(g)'
  <2>1. HandleProgress(h)'
    BY <1>1, <1>6, <1>7, <1>8, <1>9 DEF HandleProgress
  <2>2. ASSUME NEW g \in Handles \ {h}
        PROVE  HandleProgress(g)'
    <3>1. HandleProgress(g)
      BY DEF OpenProgress, HandleProgress
    <3> QED
      BY <1>1, <1>2, <1>3, <3>1 DEF HandleProgress
  <2> QED
    BY <2>1, <2>2
<1> QED
  BY <1>1, <1>10, <1>11 DEF OpenProgress, HandleProgress

\* A failing open and a close leave nothing behind.
LEMMA GivenUp ==
  ASSUME DeviceTypes, OpenProgress, NEW h \in Handles, OpenFail(h) \/ CloseHandle(h)
  PROVE  OpenProgress'
<1>1. /\ kind' = kind /\ kind \in DOMAIN Open /\ leaked = {}
      /\ handle \in [Handles -> HandleRecords] /\ handle' = [handle EXCEPT ![h] = Closed]
      /\ handle[h].has \subseteq Gained(kind, handle[h].at)
  BY DEF DeviceTypes, OpenProgress, OpenFail, CloseHandle
<1>2. leaked' = {}
  <2>1. CASE OpenFail(h)
    <3>1. handle[h].at \in DOMAIN Open[kind] /\ Step(h).ignores # "all"
          /\ leaked' = leaked \union (handle[h].has \ Step(h).undo)
      BY <2>1 DEF OpenFail, Opening
    <3>2. Gained(kind, handle[h].at) \subseteq Step(h).undo
      BY <1>1, <3>1, GivesBack DEF Step
    <3> QED
      BY <1>1, <3>1, <3>2
  <2>2. CASE CloseHandle(h)
    <3>1. handle[h].at = Len(Open[kind]) + 1 /\ leaked' = leaked \union (handle[h].has \ Close[kind])
      BY <2>2 DEF CloseHandle, IsOpen
    <3>2. Gained(kind, handle[h].at) \subseteq Close[kind]
      BY <1>1, <3>1, GivesBack
    <3> QED
      BY <1>1, <3>1, <3>2
  <2> QED
    BY <2>1, <2>2
<1>3. (kind = "gpio" /\ "export" \in kernel) => "export" \in kernel'
  BY ExclusiveSteps DEF OpenFail, CloseHandle
<1>4. /\ handle'[h].at = 0 /\ handle'[h].has = {}
      /\ \A g \in Handles \ {h} : handle'[g] = handle[g]
  BY <1>1, ClosedHandle
<1>5. HandleProgress(h)'
  BY <1>1, <1>4, OpenSteps DEF HandleProgress
<1>6. ASSUME NEW g \in Handles \ {h}
      PROVE  HandleProgress(g)'
  <2>1. HandleProgress(g)
    BY DEF OpenProgress, HandleProgress
  <2> QED
    BY <1>1, <1>3, <1>4, <2>1 DEF HandleProgress
<1>7. \A e, g \in Handles : ("pcm" \in handle'[e].has /\ "pcm" \in handle'[g].has) => e = g
  BY <1>4 DEF OpenProgress
<1> QED
  BY <1>2, <1>5, <1>6, <1>7 DEF OpenProgress, HandleProgress

\* A step of an open that acquires nothing, or a call.
LEMMA KeptProgress ==
  ASSUME DeviceTypes, OpenProgress, kind' = kind, leaked' = leaked, kernel' = kernel,
         \A g \in Handles : handle'[g].has = handle[g].has,
         \A g \in Handles : \/ handle'[g].at = handle[g].at
                            \/ /\ handle[g].at \in Nat /\ handle'[g].at = handle[g].at + 1
                               /\ handle[g].at <= Len(Open[kind])
                               /\ (kind = "gpio" /\ handle[g].at = 1) => "export" \in kernel
                               /\ (kind = "i2s" /\ handle[g].at = 2) => "pcm" \in handle[g].has
  PROVE  OpenProgress'
<1>1. ASSUME NEW g \in Handles
      PROVE  HandleProgress(g)'
  <2>1. HandleProgress(g)
    BY DEF OpenProgress, HandleProgress
  <2>2. CASE handle'[g].at = handle[g].at
    BY <2>1, <2>2 DEF HandleProgress
  <2>3. CASE handle'[g].at # handle[g].at
    <3>1. /\ handle[g].at \in Nat /\ handle'[g].at = handle[g].at + 1
          /\ handle[g].at <= Len(Open[kind])
          /\ (kind = "gpio" /\ handle[g].at = 1) => "export" \in kernel
          /\ (kind = "i2s" /\ handle[g].at = 2) => "pcm" \in handle[g].has
      BY <2>3
    <3>2. /\ Len(Open[kind]) \in Nat /\ kind \in DOMAIN Open
          /\ DOMAIN Open[kind] = 1 .. Len(Open[kind])
      BY OpenSteps DEF DeviceTypes
    <3>3. Gained(kind, handle[g].at) \subseteq Gained(kind, handle[g].at + 1)
      BY <3>1, <3>2 DEF Gained
    <3>4. /\ handle'[g].at <= Len(Open[kind]) + 1
          /\ handle'[g].has \subseteq Gained(kind, handle'[g].at)
      BY <2>1, <3>1, <3>2, <3>3 DEF HandleProgress
    <3>5. (kind = "gpio" /\ handle'[g].at > 1) => "export" \in kernel
      <4>1. CASE handle[g].at = 0
        BY <3>1, <4>1
      <4>2. CASE handle[g].at = 1
        BY <3>1, <4>2
      <4>3. CASE handle[g].at > 1
        BY <2>1, <4>3 DEF HandleProgress
      <4> QED
        BY <3>1, <4>1, <4>2, <4>3
    <3>6. (kind = "i2s" /\ handle'[g].at > 2) => "pcm" \in handle'[g].has
      <4>1. CASE handle[g].at \in {0, 1}
        BY <3>1, <4>1
      <4>2. CASE handle[g].at = 2
        BY <3>1, <4>2
      <4>3. CASE handle[g].at > 2
        BY <2>1, <4>3 DEF HandleProgress
      <4> QED
        BY <3>1, <4>1, <4>2, <4>3
    <3> QED
      BY <3>4, <3>5, <3>6 DEF HandleProgress
  <2> QED
    BY <2>2, <2>3
<1> QED
  BY <1>1 DEF OpenProgress, HandleProgress

\* Every step keeps what handles have in line with where their opens are.
LEMMA ProgressStep ==
  ASSUME DeviceTypes, CallsInProgress, OpenProgress, [Next]_vars
  PROVE  OpenProgress'
<1>1. CASE UNCHANGED vars
  BY <1>1 DEF vars, OpenProgress, Gained
<1>2. ASSUME NEW t \in Threads, CallStep(t)
      PROVE  OpenProgress'
  <2>1. user[t] \in Handles
    BY DEF DeviceTypes
  <2>2. \A g \in Handles : handle'[g].at = handle[g].at /\ handle'[g].has = handle[g].has
    BY <1>2, <2>1, CallFrame DEF CallHandle
  <2> QED
    BY <1>2, <2>2, CallFrame, KeptProgress
<1>3. ASSUME NEW h \in Handles, OpenOrClose(h)
      PROVE  OpenProgress'
  <2>1. /\ kind \in DOMAIN Open /\ handle \in [Handles -> HandleRecords] /\ handle[h] \in HandleRecords
        /\ handle[h].at \in Nat
    BY DEF DeviceTypes, HandleRecords
  <2>2. Len(Open[kind]) \in Nat /\ DOMAIN Open[kind] = 1 .. Len(Open[kind])
    BY <2>1, OpenSteps
  <2>3. CASE BeginOpen(h)
    <3>1. /\ handle[h].at = 0 /\ handle'[h].at = 1 /\ handle'[h].has = handle[h].has
          /\ \A g \in Handles \ {h} : handle'[g] = handle[g]
          /\ kind' = kind /\ leaked' = leaked /\ kernel' = kernel
      BY <2>1, <2>3, ClosedHandle DEF BeginOpen, HandleRecords
    <3>2. handle'[h].at = handle[h].at + 1 /\ handle[h].at <= Len(Open[kind]) /\ handle[h].at \notin {1, 2}
      BY <2>2, <3>1
    <3> QED
      BY <2>1, <3>1, <3>2, KeptProgress
  <2>4. CASE OpenStep(h)
    BY <2>4, OpenStepProgress
  <2>5. CASE OpenIgnore(h)
    <3>1. /\ handle'[h].at = handle[h].at + 1 /\ handle'[h].has = handle[h].has
          /\ \A g \in Handles \ {h} : handle'[g] = handle[g]
          /\ kind' = kind /\ leaked' = leaked /\ kernel' = kernel
      BY <2>1, <2>5 DEF OpenIgnore, HandleRecords
    <3>2. handle[h].at \in 1 .. Len(Open[kind]) /\ Ignored(Open[kind][handle[h].at])
      BY <2>2, <2>5 DEF OpenIgnore, Opening, Step
    <3>3. (kind = "gpio" /\ handle[h].at = 1) => "export" \in kernel
      BY <3>2, ExclusiveSteps DEF Ignored
    <3>4. kind # "i2s"
      BY <3>2, ExclusiveSteps DEF Ignored
    <3>5. handle[h].at <= Len(Open[kind])
      BY <2>1, <2>2, <3>2
    <3> QED
      BY <2>1, <3>1, <3>3, <3>4, <3>5, KeptProgress
  <2>6. CASE OpenFail(h) \/ CloseHandle(h)
    BY <2>6, GivenUp
  <2>7. CASE Arrive(h) \/ Xrun(h)
    <3>1. /\ \A g \in Handles : handle'[g].at = handle[g].at /\ handle'[g].has = handle[g].has
          /\ kind' = kind /\ leaked' = leaked /\ kernel' = kernel
      BY <2>1, <2>7 DEF Arrive, Xrun, HandleRecords
    <3> QED
      BY <3>1, KeptProgress
  <2> QED
    BY <1>3, <2>3, <2>4, <2>5, <2>6, <2>7 DEF OpenOrClose
<1> QED
  BY <1>1, <1>2, <1>3, NextCases

\* Only calls on lines, registers, PWM channels and streams change a device.
LEMMA CallsOnPlainDevices ==
  ASSUME DeviceTypes, CallsInProgress, NEW t \in Threads, CallStep(t),
         kind \notin {"gpio", "i2c", "pwm", "i2s"}
  PROVE  dev' = dev
<1>1. \A op \in {"lseek", "read", "invert", "write", "select", "fetch", "store", "load", "clamp",
                 "period", "duty", "enable", "disable", "wait", "writei", "readi"} : ~Access(t, op)
  <2>1. CASE th[t].todo = <<>>
    BY <2>1 DEF Access
  <2>2. CASE th[t].todo # <<>>
    BY <2>2, AccessSites
  <2> QED
    BY <2>1, <2>2
<1>2. ~GpioAccess(t) /\ ~I2cAccess(t) /\ ~PwmAccess(t) /\ ~PcmAccess(t)
  BY <1>1 DEF GpioAccess, I2cAccess, PwmAccess, PcmAccess
<1> QED
  BY <1>2 DEF CallStep, BeginCall, SpiAccess, QueueAccess, PlainAccess, Fail, Return

\* Every step keeps the armed watchdog with its handle.
LEMMA WatchdogStep ==
  ASSUME DeviceTypes, CallsInProgress, OpenProgress, WatchdogHeld, [Next]_vars
  PROVE  WatchdogHeld'
<1>1. kind' = kind
  BY NextCases, CallFrame, OpenFrame DEF vars
<1> SUFFICES ASSUME kind = "watchdog"
             PROVE  WatchdogHeld'
  BY <1>1 DEF WatchdogHeld
<1>2. dev \in [armed : BOOLEAN] /\ WatchdogNotOrphaned
  BY DEF WatchdogHeld, Device
<1>3. ASSUME dev' = dev, refused' = refused,
             \A g \in Handles : "fd" \in handle[g].has => "fd" \in handle'[g].has
      PROVE  WatchdogHeld'
  BY <1>1, <1>2, <1>3 DEF WatchdogHeld, WatchdogNotOrphaned, Device
<1>4. CASE UNCHANGED vars
  BY <1>3, <1>4 DEF vars
<1>5. ASSUME NEW t \in Threads, CallStep(t)
      PROVE  WatchdogHeld'
  <2>1. user[t] \in Handles
    BY DEF DeviceTypes
  <2>2. \A g \in Handles : handle'[g].has = handle[g].has
    BY <1>5, <2>1, CallFrame DEF CallHandle
  <2> QED
    BY <1>3, <1>5, <2>2, CallFrame, CallsOnPlainDevices
<1>6. ASSUME NEW h \in Handles, OpenOrClose(h)
      PROVE  WatchdogHeld'
  <2>1. handle \in [Handles -> HandleRecords] /\ handle[h] \in HandleRecords /\ kind \in DOMAIN Open
    BY DEF DeviceTypes
  <2>2. DOMAIN Open[kind] = {1, 2}
    BY <2>1, OpenSteps, ExclusiveSteps
  <2>3. CASE BeginOpen(h) \/ OpenIgnore(h)
    BY <1>3, <2>1, <2>3 DEF BeginOpen, OpenIgnore, HandleRecords
  <2>4. CASE OpenStep(h)
    <3>1. Step(h).gets = "mem" \/ Step(h).gets = "fd"
      BY <2>2, <2>4, Opened, ExclusiveSteps DEF Step
    <3>2. CASE Step(h).gets = "mem"
      <4>1. dev' = dev
        BY <2>4, <3>2 DEF OpenStep, Configured
      <4>2. refused' = refused
        BY <2>4, <3>2 DEF OpenStep, DeviceTypes
      <4>3. \A g \in Handles : "fd" \in handle[g].has => "fd" \in handle'[g].has
        BY <2>4, Opened, OpenHandles DEF OpenOrClose
      <4> QED
        BY <1>3, <4>1, <4>2, <4>3
    <3>3. CASE Step(h).gets = "fd"
      <4>1. dev' \in [armed : BOOLEAN]
        <5>1. Configured("fd", h) = {[armed |-> TRUE]}
          BY DEF Configured
        <5>2. dev' = [armed |-> TRUE]
          BY <2>4, <3>3, <5>1 DEF OpenStep
        <5> QED
          BY <5>2
      <4>2. "fd" \in handle'[h].has
        BY <2>4, <3>3, Opened DEF Owned
      <4> QED
        BY <4>1, <4>2 DEF WatchdogHeld, WatchdogNotOrphaned, Device
    <3> QED
      BY <3>1, <3>2, <3>3
  <2>5. CASE OpenFail(h)
    <3>1. handle[h].at \in {1, 2} /\ dev' = dev /\ refused' = refused
      BY <2>2, <2>5 DEF OpenFail, Opening
    <3>2. "fd" \notin Gained(kind, handle[h].at)
      BY <2>2, <3>1, ExclusiveSteps DEF Gained
    <3>3. "fd" \notin handle[h].has
      BY <3>2 DEF OpenProgress
    <3>4. \A g \in Handles \ {h} : handle'[g] = handle[g]
      BY <1>6, OpenHandles
    <3> QED
      BY <1>3, <3>1, <3>3, <3>4
  <2>6. CASE CloseHandle(h)
    <3>1. PICK ok \in BOOLEAN : dev' = [armed |-> ~ok] /\ refused' = ~ok
      BY <2>6 DEF CloseHandle
    <3> QED
      BY <3>1 DEF WatchdogHeld, WatchdogNotOrphaned, Device
  <2> QED
    BY <1>6, <2>3, <2>4, <2>5, <2>6 DEF OpenOrClose, Arrive, Xrun
<1> QED
  BY <1>4, <1>5, <1>6, NextCases

-----------------------------------------------------------------------------
(* The records of the calls.                                               *)

OwnCall(t) ==
  /\ th'[t] \in CallRecords
  /\ Suffix(th'[t])
  /\ th'[t].call = <<>> \/ (th'[t].call \in Calls[kind] /\ IsOpen(user[t]))
  /\ th'[t].call = hal_pwm_set_frequency => th'[t].arg \in Periods

\* An access leaves the other calls where they are.
LEMMA ProceedKeeps ==
  ASSUME DeviceTypes, CallsInProgress, NEW t \in Threads, th[t].todo # <<>>,
         NEW v \in Int \union Handles, NEW touched \in BOOLEAN, Proceed(t, v, touched)
  PROVE  /\ th' \in [Threads -> CallRecords] /\ OwnCall(t)
         /\ \A u \in Threads \ {t} : SameCall(u)
<1>1. /\ th' \in [Threads -> CallRecords] /\ th'[t].call = th[t].call /\ th'[t].arg = th[t].arg
      /\ Suffix(th'[t])
      /\ \A u \in Threads \ {t} : Bystander(u, user[t], touched)
  BY Proceeded
<1>2. OwnCall(t)
  BY <1>1 DEF OwnCall, CallsInProgress
<1> QED
  BY <1>1, <1>2 DEF Bystander

\* A thread without a call.
LEMMA IdleThread ==
  Idle \in CallRecords /\ Suffix(Idle) /\ Idle.call = <<>> /\ Idle.todo = <<>> /\ Idle.val = 0
  /\ Idle.arg = 0 /\ Idle.seen = 0 /\ Len(Idle.todo) = 0
BY DEF Idle, CallRecords, Suffix

\* The arguments and data of the calls of each kind.
LEMMA Arguments ==
  ASSUME NEW k \in DOMAIN Open, NEW c \in Calls[k]
  PROVE  /\ Args(c) \subseteq Int /\ Data(c) \subseteq Bits
         /\ c = hal_pwm_set_frequency => Args(c) = Periods
         /\ c = hal_pwm_set_duty_cycle => Args(c) = Percents
         /\ k = "i2c" => Args(c) \subseteq Bits
         /\ k = "pwm" => Data(c) \subseteq {0}
         /\ k = "i2s" => Data(c) \subseteq {0}
<1>1. Args(c) \subseteq Int /\ Data(c) \subseteq Bits /\ (c = hal_pwm_set_frequency => Args(c) = Periods)
  BY DEF Args, Data, Periods, Percents, Bits, Frames
<1>2. hal_pwm_set_frequency # hal_pwm_set_duty_cycle
  BY PwmCalls
<1>3. c = hal_pwm_set_duty_cycle => Args(c) = Percents
  BY <1>2 DEF Args
<1>4. k = "i2c" => Args(c) \subseteq Bits
  BY CallKinds DEF Args, Bits
<1>5. (k = "pwm" \/ k = "i2s") => Data(c) \subseteq {0}
  BY CallKinds DEF Data
<1> QED
  BY <1>1, <1>3, <1>4, <1>5

\* The record of a new call.
LEMMA Begun ==
  ASSUME DeviceTypes, GpioStages, NEW t \in Threads, BeginCall(t)
  PROVE  \E call \in Calls[kind] : \E a \in Args(call), v \in Data(call) :
           /\ th' = [th EXCEPT ![t] = th'[t]] /\ th'[t] \in CallRecords
           /\ th'[t].call = call /\ th'[t].todo = call /\ th'[t].arg = a /\ th'[t].val = v
           /\ th'[t].seen = (IF call = hal_gpio_toggle THEN dev.level ELSE 0)
           /\ th'[t].clean = TRUE
<1>0. PICK call \in Calls[kind] : \E a \in Args(call), v \in Data(call) :
        th' = [th EXCEPT ![t] = [call |-> call, todo |-> call, arg |-> a, val |-> v,
                                 seen |-> IF call = hal_gpio_toggle THEN dev.level ELSE 0,
                                 clean |-> TRUE]]
  BY DEF BeginCall
<1>1. PICK a \in Args(call), v \in Data(call) :
        th' = [th EXCEPT ![t] = [call |-> call, todo |-> call, arg |-> a, val |-> v,
                                 seen |-> IF call = hal_gpio_toggle THEN dev.level ELSE 0,
                                 clean |-> TRUE]]
  BY <1>0
<1> DEFINE seen == IF call = hal_gpio_toggle THEN dev.level ELSE 0
           new == [call |-> call, todo |-> call, arg |-> a, val |-> v, seen |-> seen, clean |-> TRUE]
<1>2. kind \in DOMAIN Open /\ th \in [Threads -> CallRecords]
  BY DEF DeviceTypes
<1>3. seen \in Int
  <2>1. CASE call = hal_gpio_toggle
    <3>1. kind = "gpio"
      BY <1>2, <2>1, CallKinds
    <3> QED
      BY <2>1, <3>1 DEF GpioStages, Device, Bits
  <2>2. CASE call # hal_gpio_toggle
    BY <2>2
  <2> QED
    BY <2>1, <2>2
<1>4. th' = [th EXCEPT ![t] = new]
  BY <1>1
<1> HIDE DEF seen
<1>5. new \in CallRecords
  <2>1. call \in Seq(AccessNames) /\ a \in Int /\ v \in Bits
    BY <1>2, CallKinds, Arguments
  <2>2. v \in Int \union Handles
    BY <2>1 DEF Bits
  <2> QED
    BY <1>3, <2>1, <2>2 DEF CallRecords
<1>6. th'[t] = new
  BY <1>2, <1>4
<1>7. /\ new.call = call /\ new.todo = call /\ new.arg = a /\ new.val = v
      /\ new.seen = seen /\ new.clean = TRUE
  OBVIOUS
<1> HIDE DEF new
<1>8. /\ th' = [th EXCEPT ![t] = th'[t]] /\ th'[t] \in CallRecords
      /\ th'[t].call = call /\ th'[t].todo = call /\ th'[t].arg = a /\ th'[t].val = v
      /\ th'[t].seen = seen
      /\ th'[t].clean = TRUE
  BY <1>4, <1>5, <1>6, <1>7, Zenon
<1> QED
  BY <1>8 DEF seen

\* What an access to a PCM stream does to the call that makes it.
LEMMA Streamed ==
  ASSUME DeviceTypes, CallsInProgress, PcmStages, NEW t \in Threads, PcmAccess(t)
  PROVE  /\ kind = "i2s" /\ th[t].call \in {hal_i2s_write, hal_i2s_read}
         /\ dev' \in Device.i2s /\ dev'.bits = dev.bits
         /\ th' \in [Threads -> CallRecords] /\ OwnCall(t)
         /\ \A u \in Threads \ {t} : SameCall(u)
         /\ th'[t].call = th[t].call
         /\ \/ th'[t].val = th[t].val /\ th'[t].seen = th[t].seen
            \/ \E w \in Int : /\ th'[t].val = th[t].val + w * calc_frame_bytes(dev.bits)
                              /\ th'[t].seen = th[t].seen + w
<1>1. th[t].todo # <<>> /\ (Access(t, "wait") \/ Access(t, "writei") \/ Access(t, "readi"))
  BY DEF PcmAccess, Access
<1>2. kind = "i2s" /\ th[t].call \in {hal_i2s_write, hal_i2s_read}
  BY <1>1, AccessSites DEF At
<1>3. dev \in [bits : SampleBits, capture : BOOLEAN, xrun : BOOLEAN, xruns : 0 .. MaxXruns]
      /\ th[t].val \in Int
  BY <1>2 DEF PcmStages, Device
<1>4. th \in [Threads -> CallRecords] /\ th[t] \in CallRecords
  BY DEF DeviceTypes
<1>5. dev' = dev \/ dev' = [dev EXCEPT !.xrun = FALSE]
  BY DEF PcmAccess
<1>6. dev' \in [bits : SampleBits, capture : BOOLEAN, xrun : BOOLEAN, xruns : 0 .. MaxXruns] /\ dev'.bits = dev.bits
  BY <1>3, <1>5
<1>7. /\ th[t].call \in Calls[kind] /\ IsOpen(user[t]) /\ th[t].call \in Seq(AccessNames)
      /\ th[t].call # hal_pwm_set_frequency
  <2>1. th[t].call \in Calls[kind] /\ IsOpen(user[t])
    BY <1>1, AccessPosition
  <2> QED
    BY <1>2, <1>4, <2>1, CallKinds DEF CallRecords, DeviceTypes
<1>8. ASSUME NEW new \in CallRecords, th' = [th EXCEPT ![t] = new], new.call = th[t].call,
             new.todo = <<>> \/ new.todo = th[t].call
      PROVE  /\ th' \in [Threads -> CallRecords] /\ OwnCall(t)
             /\ \A u \in Threads \ {t} : SameCall(u)
  <2>1. th'[t] = new /\ th' \in [Threads -> CallRecords] /\ \A u \in Threads \ {t} : th'[u] = th[u] /\ th[u] \in CallRecords
    BY <1>4, <1>8
  <2>2. Suffix(new)
    <3>1. CASE new.todo = <<>>
      BY <1>7, <1>8, <3>1 DEF Suffix
    <3>2. CASE new.todo = new.call
      BY <1>7, <1>8, <3>2 DEF Suffix
    <3> QED
      BY <1>8, <3>1, <3>2
  <2> QED
    BY <1>7, <1>8, <2>1, <2>2 DEF OwnCall, SameCall
<1>9. CASE Access(t, "wait") /\ Proceed(t, th[t].val, FALSE)
  <2>1. /\ th' \in [Threads -> CallRecords] /\ OwnCall(t)
        /\ \A u \in Threads \ {t} : SameCall(u)
    BY <1>1, <1>3, <1>9, ProceedKeeps
  <2>2. th'[t].call = th[t].call /\ th'[t].val = th[t].val /\ th'[t].seen = th[t].seen
    BY <1>1, <1>3, <1>9, Proceeded
  <2> QED
    BY <1>2, <1>6, <2>1, <2>2 DEF Device
<1>10. CASE th' = [th EXCEPT ![t].todo = th[t].call]
  <2> DEFINE new == [th[t] EXCEPT !.todo = th[t].call]
  <2>1. /\ new \in CallRecords /\ new.call = th[t].call /\ new.todo = th[t].call
        /\ new.val = th[t].val /\ new.seen = th[t].seen
    BY <1>4, <1>7 DEF CallRecords
  <2>2. th' = [th EXCEPT ![t] = new]
    BY <1>4, <1>10
  <2> HIDE DEF new
  <2>3. th'[t] = new
    BY <1>4, <2>2
  <2> QED
    BY <1>2, <1>6, <1>8, <2>1, <2>2, <2>3 DEF Device
<1>11. CASE \E w \in 1 .. (th[t].arg - th[t].seen) :
              th' = [th EXCEPT
                       ![t].val = @ + w * calc_frame_bytes(dev.bits),
                       ![t].seen = @ + w,
                       ![t].todo = IF th[t].seen + w = th[t].arg THEN <<>> ELSE th[t].call]
  <2>1. PICK w \in 1 .. (th[t].arg - th[t].seen) :
              th' = [th EXCEPT
                       ![t].val = @ + w * calc_frame_bytes(dev.bits),
                       ![t].seen = @ + w,
                       ![t].todo = IF th[t].seen + w = th[t].arg THEN <<>> ELSE th[t].call]
    BY <1>11
  <2> DEFINE val == th[t].val + w * calc_frame_bytes(dev.bits)
             seen == th[t].seen + w
             todo == IF th[t].seen + w = th[t].arg THEN <<>> ELSE th[t].call
             new == [th[t] EXCEPT !.val = val, !.seen = seen, !.todo = todo]
  <2>2. w \in Int /\ val \in Int /\ seen \in Int
    <3>1. w \in Int /\ th[t].seen \in Int
      BY <1>4 DEF CallRecords
    <3>2. calc_frame_bytes(dev.bits) \in Int
      BY <1>3 DEF calc_frame_bytes, SampleBits, Channels
    <3> HIDE DEF calc_frame_bytes
    <3> QED
      BY <1>3, <3>1, <3>2
  <2>3. todo \in Seq(AccessNames) /\ (todo = <<>> \/ todo = th[t].call)
    BY <1>7
  <2>4. th' = [th EXCEPT ![t] = new]
    BY <1>4, <2>1
  <2> HIDE DEF val, seen, todo
  <2>5. /\ new \in CallRecords /\ new.call = th[t].call /\ new.todo = todo
        /\ new.val = val /\ new.seen = seen
    BY <1>4, <2>2, <2>3 DEF CallRecords
  <2> HIDE DEF new
  <2>6. th'[t] = new
    BY <1>4, <2>4
  <2>7. /\ th' \in [Threads -> CallRecords] /\ OwnCall(t)
        /\ \A u \in Threads \ {t} : SameCall(u)
    BY <1>8, <2>3, <2>4, <2>5
  <2>8. th'[t].val = th[t].val + w * calc_frame_bytes(dev.bits) /\ th'[t].seen = th[t].seen + w
    BY <2>5, <2>6 DEF val, seen
  <2> QED
    BY <1>2, <1>6, <2>2, <2>5, <2>6, <2>7, <2>8 DEF Device
<1> QED
  BY <1>9, <1>10, <1>11 DEF PcmAccess

\* Each step of a call keeps the types and the other calls.
LEMMA CallTypes ==
  ASSUME DeviceInvariant, NEW t \in Threads, CallStep(t)
  PROVE  /\ th' \in [Threads -> CallRecords] /\ OwnCall(t)
         /\ \A u \in Threads \ {t} : SameCall(u)
<1> USE DEF DeviceInvariant
<1>1. /\ th \in [Threads -> CallRecords] /\ th[t] \in CallRecords /\ kind \in DOMAIN Open
      /\ user[t] \in Handles /\ handle[user[t]] \in HandleRecords /\ th[t].val \in Int \union Handles
  BY DEF DeviceTypes, CallRecords
<1>2. ASSUME NEW v \in Int \union Handles, NEW touched \in BOOLEAN, th[t].todo # <<>>, Proceed(t, v, touched)
      PROVE  /\ th' \in [Threads -> CallRecords] /\ OwnCall(t)
             /\ \A u \in Threads \ {t} : SameCall(u)
  BY <1>2, ProceedKeeps
<1>3. CASE th' = [th EXCEPT ![t] = th'[t]] /\ OwnCall(t)
  BY <1>1, <1>3 DEF OwnCall, SameCall, DeviceTypes
<1>4. CASE BeginCall(t)
  <2>1. PICK call \in Calls[kind] : \E a \in Args(call) :
           /\ th' = [th EXCEPT ![t] = th'[t]] /\ th'[t] \in CallRecords
           /\ th'[t].call = call /\ th'[t].todo = call /\ th'[t].arg = a
    BY <1>4, Begun
  <2>2. call \in Seq(AccessNames) /\ (call = hal_pwm_set_frequency => Args(call) = Periods)
    BY <1>1, CallKinds, Arguments
  <2>3. Suffix(th'[t])
    BY <2>1, <2>2 DEF Suffix
  <2>4. OwnCall(t)
    BY <1>4, <2>1, <2>2, <2>3 DEF OwnCall, BeginCall
  <2> QED
    BY <1>3, <2>1, <2>4
<1>5. CASE GpioAccess(t)
  <2>1. th[t].todo # <<>> /\ kind = "gpio"
    <3>1. th[t].todo # <<>> /\ (Access(t, "lseek") \/ Access(t, "read") \/ Access(t, "invert") \/ Access(t, "write"))
      BY <1>5 DEF GpioAccess, Access
    <3> QED
      BY <3>1, AccessSites
  <2>2. LevelRead(user[t]) \in Int /\ Inverted(th[t].val) \in Int
    BY <2>1 DEF GpioStages, GpioStage, Device, Bits, LevelRead, Inverted
  <2> QED
    BY <1>1, <1>2, <1>5, <2>1, <2>2 DEF GpioAccess
<1>6. CASE I2cAccess(t)
  <2>1. th[t].todo # <<>> /\ kind = "i2c"
    <3>1. th[t].todo # <<>> /\ (Access(t, "select") \/ Access(t, "fetch") \/ Access(t, "store"))
      BY <1>6 DEF I2cAccess, Access
    <3> QED
      BY <3>1, AccessSites
  <2>2. dev.reg[dev.ptr] \in Int
    BY <2>1 DEF I2cStages, I2cStage, Device, Bits
  <2> QED
    BY <1>1, <1>2, <1>6, <2>1, <2>2 DEF I2cAccess
<1>7. CASE SpiAccess(t)
  BY <1>1, <1>2, <1>7 DEF SpiAccess, TransferSpeed, Access
<1>8. CASE QueueAccess(t) \/ PlainAccess(t)
  <2>1. th[t].todo # <<>> /\ Proceed(t, 0, FALSE)
    BY <1>8 DEF QueueAccess, PlainAccess, Access
  <2>2. 0 \in Int \union Handles /\ FALSE \in BOOLEAN
    OBVIOUS
  <2> QED
    BY <2>1, <2>2, ProceedKeeps, Zenon
<1>9. CASE PwmAccess(t)
  <2>1. th[t].todo # <<>> /\ kind = "pwm"
    <3>1. /\ th[t].todo # <<>>
          /\ \/ Access(t, "load") \/ Access(t, "clamp") \/ Access(t, "period") \/ Access(t, "duty")
             \/ Access(t, "enable") \/ Access(t, "disable")
      BY <1>9 DEF PwmAccess, Access
    <3> QED
      BY <3>1, AccessSites
  <2>2. Duty(user[t], th[t].arg) \in Int /\ Smaller(th[t].val, handle[user[t]].period) \in Int
    <3>1. th[t].val \in Int /\ th[t].arg \in Int /\ handle[user[t]].period \in Int
      BY <1>1, <2>1 DEF PwmStages, PwmStage, CallRecords, HandleRecords, Periods
    <3> QED
      BY <3>1 DEF Duty, Smaller
  <2>3. \/ Proceed(t, Duty(user[t], th[t].arg), FALSE)
        \/ Proceed(t, Smaller(th[t].val, handle[user[t]].period), FALSE)
        \/ Proceed(t, th[t].val, TRUE)
    BY <1>9 DEF PwmAccess
  <2> QED
    BY <1>1, <1>2, <2>1, <2>2, <2>3
<1>10. CASE PcmAccess(t)
  BY <1>10, Streamed
<1>11. CASE Fail(t)
  <2>1. /\ th'[t] = Idle
        /\ \A u \in Threads \ {t} : th'[u] = Disturb(u, user[t], FALSE)
        /\ th' = [u \in Threads |-> IF u = t THEN Idle ELSE Disturb(u, user[t], FALSE)]
    BY <1>11 DEF Fail
  <2>2. ASSUME NEW u \in Threads \ {t}
        PROVE  SameCall(u)
    <3> DEFINE touched == FALSE
    <3>1. th'[u] = Disturb(u, user[t], touched) /\ touched \in BOOLEAN
      BY <2>1
    <3> HIDE DEF touched
    <3> QED
      BY <3>1, Disturbed DEF SameCall
  <2>3. OwnCall(t)
    BY <2>1, IdleThread, PwmCalls DEF OwnCall
  <2>4. th' \in [Threads -> CallRecords]
    BY <2>1, <2>2, IdleThread DEF SameCall
  <2> QED
    BY <2>2, <2>3, <2>4
<1>12. CASE Return(t)
  <2>1. th'[t] = Idle /\ th' = [th EXCEPT ![t] = th'[t]]
    BY <1>1, <1>12 DEF Return
  <2>2. OwnCall(t)
    BY <2>1, IdleThread, PwmCalls DEF OwnCall
  <2> QED
    BY <1>3, <2>1, <2>2
<1> QED
  BY <1>4, <1>5, <1>6, <1>7, <1>8, <1>9, <1>10, <1>11, <1>12 DEF CallStep

\* Every step keeps the types and the calls' places.
LEMMA TypesStep ==
  ASSUME DeviceInvariant, [Next]_vars
  PROVE  DeviceTypes' /\ CallsInProgress'
<1> USE DEF DeviceInvariant
<1>1. CASE UNCHANGED vars
  BY <1>1 DEF vars, DeviceTypes, CallsInProgress, IsOpen
<1>2. ASSUME NEW t \in Threads, CallStep(t)
      PROVE  DeviceTypes' /\ CallsInProgress'
  <2>1. /\ th' \in [Threads -> CallRecords] /\ OwnCall(t)
        /\ \A u \in Threads \ {t} : SameCall(u)
    BY <1>2, CallTypes
  <2>2. /\ kind' = kind /\ user' = user /\ kernel' = kernel /\ refused' = refused /\ CallHandle(t)
    BY <1>2, CallFrame
  <2>3. \A h \in Handles : handle'[h].at = handle[h].at
    BY <2>2 DEF CallHandle, DeviceTypes
  <2>4. DeviceTypes'
    BY <2>1, <2>2 DEF DeviceTypes, CallHandle
  <2>5. \A u \in Threads : user[u] \in Handles /\ (IsOpen(user[u]) => IsOpen(user[u])')
    BY <2>2, <2>3 DEF IsOpen, DeviceTypes
  <2>6. ASSUME NEW u \in Threads \ {t}
        PROVE  /\ Suffix(th'[u])
               /\ th'[u].call = <<>> \/ (th'[u].call \in Calls[kind] /\ IsOpen(user[u]))
               /\ th'[u].call = hal_pwm_set_frequency => th'[u].arg \in Periods
    BY <2>1 DEF SameCall, CallsInProgress, Suffix
  <2> QED
    BY <2>1, <2>2, <2>4, <2>5, <2>6 DEF CallsInProgress, OwnCall
<1>3. ASSUME NEW h \in Handles, OpenOrClose(h)
      PROVE  DeviceTypes' /\ CallsInProgress'
  <2>1. /\ kind' = kind /\ user' = user /\ th' \in [Threads -> CallRecords]
        /\ \A u \in Threads : SameCall(u)
    BY <1>3, OpenFrame
  <2>2. DeviceTypes'
    BY <1>3, <2>1, OpenHandles DEF DeviceTypes
  <2>3. ASSUME NEW u \in Threads
        PROVE  /\ Suffix(th'[u])
               /\ th'[u].call = <<>> \/ (th'[u].call \in Calls[kind] /\ IsOpen(user[u])')
               /\ th'[u].call = hal_pwm_set_frequency => th'[u].arg \in Periods
    <3>1. /\ Suffix(th'[u])
          /\ th'[u].call = <<>> \/ (th'[u].call \in Calls[kind] /\ IsOpen(user[u]))
          /\ th'[u].call = hal_pwm_set_frequency => th'[u].arg \in Periods
      BY <2>1 DEF SameCall, CallsInProgress, Suffix
    <3>2. th[u].call # <<>> => handle'[user[u]].at = handle[user[u]].at
      BY <1>3, OpenKeepsUsed
    <3>3. th'[u].call # <<>> => (IsOpen(user[u]) => IsOpen(user[u])')
      BY <2>1, <3>2 DEF IsOpen, SameCall
    <3> QED
      BY <3>1, <3>3
  <2> QED
    BY <2>1, <2>2, <2>3 DEF CallsInProgress
<1> QED
  BY <1>1, <1>2, <1>3, NextCases

-----------------------------------------------------------------------------
(* GPIO lines.                                                             *)

\* The calls of GPIO differ.
LEMMA GpioDistinct ==
  /\ hal_gpio_read # hal_gpio_write /\ hal_gpio_read # hal_gpio_toggle
  /\ hal_gpio_write # hal_gpio_toggle
  /\ hal_gpio_read # <<>> /\ hal_gpio_write # <<>> /\ hal_gpio_toggle # <<>>
<1>1. /\ hal_gpio_read[2] # hal_gpio_write[2] /\ Len(hal_gpio_toggle) # Len(hal_gpio_read)
      /\ Len(hal_gpio_toggle) # Len(hal_gpio_write)
      /\ Len(hal_gpio_read) # 0 /\ Len(hal_gpio_write) # 0 /\ Len(hal_gpio_toggle) # 0
  BY GpioCalls
<1>2. Len(<<>>) = 0
  OBVIOUS
<1> QED
  BY <1>1, <1>2, Zenon

\* A step that does not disturb a call keeps its stage: GPIO.
LEMMA GpioBystander ==
  ASSUME NEW u \in Threads, GpioStage(u), SameCall(u), user' = user,
         (th'[u].clean /\ th[u].call # <<>>) =>
            (dev' = dev /\ handle'[user[u]].off = handle[user[u]].off)
  PROVE  GpioStage(u)'
<1>1. CASE th'[u].clean /\ th[u].call # <<>>
  <2>1. th'[u].clean /\ th[u].clean /\ dev' = dev /\ handle'[user[u]].off = handle[user[u]].off
    BY <1>1 DEF SameCall
  <2> QED
    BY <2>1 DEF GpioStage, SameCall, Left
<1>2. CASE ~th'[u].clean
  BY <1>2 DEF GpioStage, SameCall
<1>3. CASE th[u].call = <<>>
  BY <1>3, GpioDistinct DEF GpioStage, SameCall
<1> QED
  BY <1>1, <1>2, <1>3

\* The calls on a line are steps of GpioAccess.
LEMMA GpioCallSteps ==
  ASSUME DeviceTypes, CallsInProgress, kind = "gpio", NEW t \in Threads, CallStep(t)
  PROVE  BeginCall(t) \/ GpioAccess(t) \/ Fail(t) \/ Return(t)
<1>1. \A op \in AccessNames \ {"lseek", "read", "invert", "write"} : ~Access(t, op)
  <2>1. CASE th[t].todo = <<>>
    BY <2>1 DEF Access
  <2>2. CASE th[t].todo # <<>>
    BY <2>2, AccessSites DEF AccessNames
  <2> QED
    BY <2>1, <2>2
<1>2. ~I2cAccess(t) /\ ~SpiAccess(t) /\ ~QueueAccess(t) /\ ~PlainAccess(t) /\ ~PwmAccess(t) /\ ~PcmAccess(t)
  BY <1>1 DEF I2cAccess, SpiAccess, QueueAccess, PlainAccess, PwmAccess, PcmAccess, AccessNames
<1> QED
  BY <1>2 DEF CallStep

\* An access and the stage it leads to.
LEMMA GpioAccessStage ==
  ASSUME DeviceTypes, CallsInProgress, GpioStages, kind = "gpio", NEW t \in Threads, GpioAccess(t)
  PROVE  dev' \in Device.gpio /\ \A u \in Threads : GpioStage(u)'
<1>1. /\ dev \in [level : Bits] /\ dev.level \in Bits /\ user' = user /\ user[t] \in Handles
      /\ handle \in [Handles -> HandleRecords] /\ handle[user[t]].off \in Bits
      /\ GpioStage(t) /\ th[t].val \in Bits /\ th[t].seen \in Bits
  <2>1. dev \in [level : Bits] /\ GpioStage(t)
    BY DEF GpioStages, Device
  <2>2. user[t] \in Handles /\ handle \in [Handles -> HandleRecords] /\ handle[user[t]].off \in Bits
    BY DEF DeviceTypes, HandleRecords
  <2> QED
    BY <2>1, <2>2 DEF GpioStage, GpioAccess
<1>2. th[t].todo # <<>>
  BY DEF GpioAccess, Access
<1>3. CallHandle(t)
  BY CallFrame DEF CallStep
<1>4. ASSUME NEW v \in Bits, NEW touched \in BOOLEAN, Proceed(t, v, touched), ~touched => dev' = dev
      PROVE  /\ th'[t].call = th[t].call /\ Left(t)' = Left(t) - 1 /\ th'[t].val = v
             /\ th'[t].seen = th[t].seen /\ th'[t].clean = th[t].clean
             /\ \A u \in Threads \ {t} : GpioStage(u)'
  <2>1. v \in Int \union Handles
    BY DEF Bits
  <2>2. /\ th'[t].call = th[t].call /\ Len(th'[t].todo) = Left(t) - 1 /\ th'[t].val = v
        /\ th'[t].seen = th[t].seen /\ th'[t].clean = th[t].clean
        /\ \A u \in Threads \ {t} : Bystander(u, user[t], touched)
    BY <1>2, <1>4, <2>1, Proceeded
  <2>3. ASSUME NEW u \in Threads \ {t}
        PROVE  GpioStage(u)'
    <3>1. /\ SameCall(u) /\ GpioStage(u) /\ user[u] \in Handles
          /\ (th'[u].clean /\ th[u].call # <<>>) => (~touched /\ user[u] # user[t])
      BY <2>2 DEF Bystander, GpioStages, DeviceTypes
    <3>2. (th'[u].clean /\ th[u].call # <<>>) => handle'[user[u]].off = handle[user[u]].off
      BY <1>3, <3>1 DEF CallHandle
    <3> QED
      BY <1>1, <1>4, <3>1, <3>2, GpioBystander
  <2> QED
    BY <2>2, <2>3 DEF Left
<1>5. CASE Access(t, "lseek") /\ Proceed(t, th[t].val, FALSE) /\ UNCHANGED dev
           /\ handle' = [handle EXCEPT ![user[t]].off = 0]
  <2>1. \/ At(t, hal_gpio_read, 2) \/ At(t, hal_gpio_write, 2)
        \/ At(t, hal_gpio_toggle, 5) \/ At(t, hal_gpio_toggle, 2)
    BY <1>2, <1>5, AccessSites
  <2>2. /\ th'[t].call = th[t].call /\ Left(t)' = Left(t) - 1 /\ th'[t].val = th[t].val
        /\ th'[t].seen = th[t].seen /\ th'[t].clean = th[t].clean
        /\ \A u \in Threads \ {t} : GpioStage(u)'
    BY <1>1, <1>4, <1>5
  <2>3. handle'[user[t]].off = 0
    BY <1>1, <1>5 DEF HandleRecords
  <2>4. GpioStage(t)'
    BY <1>1, <1>5, <2>1, <2>2, <2>3, GpioDistinct DEF GpioStage, At
  <2> QED
    BY <1>1, <1>5, <2>2, <2>4 DEF Device
<1>6. CASE Access(t, "read") /\ Proceed(t, LevelRead(user[t]), FALSE) /\ UNCHANGED dev
           /\ handle' = [handle EXCEPT ![user[t]].off = 1]
  <2>1. At(t, hal_gpio_read, 1) \/ At(t, hal_gpio_toggle, 4)
    BY <1>2, <1>6, AccessSites
  <2>2. LevelRead(user[t]) \in Bits
    BY <1>1 DEF LevelRead, Bits
  <2>3. /\ th'[t].call = th[t].call /\ Left(t)' = Left(t) - 1 /\ th'[t].val = LevelRead(user[t])
        /\ th'[t].seen = th[t].seen /\ th'[t].clean = th[t].clean
        /\ \A u \in Threads \ {t} : GpioStage(u)'
    BY <1>1, <1>4, <1>6, <2>2
  <2>4. GpioStage(t)'
    <3>1. th[t].clean => handle[user[t]].off = 0
      BY <1>1, <2>1 DEF GpioStage, At
    <3>2. th[t].clean => LevelRead(user[t]) = dev.level
      BY <3>1 DEF LevelRead
    <3> QED
      BY <1>1, <1>6, <2>1, <2>2, <2>3, <3>2, GpioDistinct DEF GpioStage, At
  <2> QED
    BY <1>1, <1>6, <2>3, <2>4 DEF Device
<1>7. CASE Access(t, "invert") /\ Proceed(t, Inverted(th[t].val), FALSE) /\ UNCHANGED <<handle, dev>>
  <2>1. At(t, hal_gpio_toggle, 3)
    BY <1>2, <1>7, AccessSites
  <2>2. Inverted(th[t].val) = 1 - th[t].val /\ Inverted(th[t].val) \in Bits
    BY <1>1 DEF Inverted, Bits
  <2>3. /\ th'[t].call = th[t].call /\ Left(t)' = Left(t) - 1 /\ th'[t].val = 1 - th[t].val
        /\ th'[t].val \in Bits
        /\ th'[t].seen = th[t].seen /\ th'[t].clean = th[t].clean
        /\ \A u \in Threads \ {t} : GpioStage(u)'
    BY <1>1, <1>4, <1>7, <2>2
  <2>4. GpioStage(t)'
    BY <1>1, <1>7, <2>1, <2>3, GpioDistinct DEF GpioStage, At
  <2> QED
    BY <1>1, <1>7, <2>3, <2>4 DEF Device
<1>8. CASE Access(t, "write") /\ Proceed(t, th[t].val, TRUE) /\ dev' = [level |-> th[t].val]
  <2>1. At(t, hal_gpio_write, 1) \/ At(t, hal_gpio_toggle, 1)
    BY <1>2, <1>8, AccessSites
  <2>2. /\ th'[t].call = th[t].call /\ Left(t)' = Left(t) - 1 /\ th'[t].val = th[t].val
        /\ th'[t].seen = th[t].seen /\ th'[t].clean = th[t].clean
        /\ \A u \in Threads \ {t} : GpioStage(u)'
    BY <1>1, <1>4, <1>8
  <2>3. dev' \in [level : Bits] /\ dev'.level = th[t].val
    BY <1>1, <1>8
  <2>4. GpioStage(t)'
    BY <1>1, <2>1, <2>2, <2>3, GpioDistinct DEF GpioStage, At
  <2> QED
    BY <2>2, <2>3, <2>4 DEF Device
<1> QED
  BY <1>5, <1>6, <1>7, <1>8 DEF GpioAccess

\* The steps that begin and end a call, seen by the others.
LEMMA CallBoundary ==
  ASSUME DeviceTypes, GpioStages, NEW t \in Threads, BeginCall(t) \/ Fail(t) \/ Return(t)
  PROVE  /\ dev' = dev
         /\ \A u \in Threads \ {t} : Bystander(u, user[t], FALSE) \/ (th'[u] = th[u] /\ handle' = handle)
         /\ ~BeginCall(t) => th'[t] = Idle
<1>1. dev' = dev
  BY DEF BeginCall, Fail, Return
<1>2. th \in [Threads -> CallRecords]
  BY DEF DeviceTypes
<1>3. CASE BeginCall(t)
  <2>1. th' = [th EXCEPT ![t] = th'[t]]
    BY <1>3, Begun
  <2>2. handle' = handle
    BY <1>3 DEF BeginCall
  <2> QED
    BY <1>1, <1>2, <1>3, <2>1, <2>2
<1>4. CASE Fail(t)
  <2>1. th'[t] = Idle /\ \A u \in Threads \ {t} : th'[u] = Disturb(u, user[t], FALSE)
    BY <1>4 DEF Fail
  <2>2. ASSUME NEW u \in Threads \ {t}
        PROVE  Bystander(u, user[t], FALSE)
    <3> DEFINE touched == FALSE
    <3>1. th'[u] = Disturb(u, user[t], touched) /\ touched \in BOOLEAN
      BY <2>1
    <3> HIDE DEF touched
    <3>2. Bystander(u, user[t], touched)
      BY <3>1, Disturbed DEF Bystander, SameCall
    <3> QED
      BY <3>2 DEF touched
  <2> QED
    BY <1>1, <2>1, <2>2
<1>5. CASE Return(t)
  BY <1>1, <1>2, <1>5 DEF Return
<1> QED
  BY <1>3, <1>4, <1>5

\* Every step keeps how far undisturbed calls have come: GPIO.
LEMMA GpioStep ==
  ASSUME DeviceTypes, CallsInProgress, GpioStages, [Next]_vars
  PROVE  GpioStages'
<1>1. kind' = kind /\ user' = user
  BY NextCases, CallFrame, OpenFrame DEF vars
<1> SUFFICES ASSUME kind = "gpio"
             PROVE  dev' \in Device.gpio /\ \A u \in Threads : GpioStage(u)'
  BY <1>1 DEF GpioStages
<1>2. /\ dev \in Device.gpio /\ dev \in [level : Bits]
      /\ \A u \in Threads : GpioStage(u) /\ th[u] \in CallRecords /\ user[u] \in Handles
  BY DEF GpioStages, Device, DeviceTypes
<1>3. CASE UNCHANGED vars
  BY <1>2, <1>3 DEF vars, GpioStage, Left
<1>4. ASSUME NEW h \in Handles, OpenOrClose(h)
      PROVE  dev' \in Device.gpio /\ \A u \in Threads : GpioStage(u)'
  <2>1. dev' \in Device.gpio
    <3>1. CASE OpenStep(h)
      <4>1. dev' \in {[level |-> 0]} \/ dev' \in Device.gpio \/ dev' = dev
        BY <3>1 DEF OpenStep, Configured
      <4>2. [level |-> 0] \in Device.gpio
        BY DEF Device, Bits
      <4> QED
        BY <1>2, <4>1, <4>2
    <3>2. CASE ~OpenStep(h)
      BY <1>2, <1>4, <3>2 DEF OpenOrClose, BeginOpen, OpenIgnore, OpenFail, CloseHandle, Arrive, Xrun
    <3> QED
      BY <3>1, <3>2
  <2>2. ASSUME NEW u \in Threads
        PROVE  GpioStage(u)'
    <3>1. SameCall(u) /\ (th'[u].clean /\ th[u].call # <<>> => dev' = dev)
      BY <1>4, OpenFrame
    <3>2. th[u].call # <<>> => handle'[user[u]].off = handle[user[u]].off
      BY <1>4, OpenKeepsUsed
    <3> QED
      BY <1>1, <1>2, <3>1, <3>2, GpioBystander
  <2> QED
    BY <2>1, <2>2
<1>5. ASSUME NEW t \in Threads, CallStep(t)
      PROVE  dev' \in Device.gpio /\ \A u \in Threads : GpioStage(u)'
  <2>1. CASE GpioAccess(t)
    BY <2>1, GpioAccessStage
  <2>2. CASE BeginCall(t) \/ Fail(t) \/ Return(t)
    <3>1. dev' = dev
      BY <2>2, CallBoundary
    <3>2. ASSUME NEW u \in Threads \ {t}
          PROVE  GpioStage(u)'
      <4>1. CASE th'[u] = th[u] /\ handle' = handle
        BY <1>1, <1>2, <3>1, <4>1 DEF GpioStage, Left
      <4>2. CASE Bystander(u, user[t], FALSE)
        <5>1. SameCall(u) /\ ((th'[u].clean /\ th[u].call # <<>>) => user[u] # user[t])
          BY <4>2 DEF Bystander
        <5>2. (th'[u].clean /\ th[u].call # <<>>) => handle'[user[u]].off = handle[user[u]].off
          BY <1>2, <1>5, <5>1, CallFrame DEF CallHandle
        <5> QED
          BY <1>1, <1>2, <3>1, <5>1, <5>2, GpioBystander
      <4> QED
        BY <2>2, <4>1, <4>2, CallBoundary
    <3>3. GpioStage(t)'
      <4>1. CASE BeginCall(t)
        <5>1. PICK call \in Calls[kind] : \E a \in Args(call), v \in Data(call) :
                 /\ th'[t].call = call /\ th'[t].todo = call /\ th'[t].val = v
                 /\ th'[t].seen = (IF call = hal_gpio_toggle THEN dev.level ELSE 0)
          BY <4>1, Begun
        <5>2. call \in {hal_gpio_read, hal_gpio_write, hal_gpio_toggle}
          BY DEF Calls
        <5>3. th'[t].val \in Bits /\ th'[t].seen \in Bits
          BY <1>2, <5>1, Arguments, KindNames DEF Bits
        <5>4. /\ call = hal_gpio_read => Left(t)' = 2
              /\ call = hal_gpio_write => Left(t)' = 2
              /\ call = hal_gpio_toggle => Left(t)' = 5 /\ dev'.level = th'[t].seen
          BY <3>1, <5>1, GpioCalls DEF Left
        <5> QED
          BY <5>1, <5>2, <5>3, <5>4, GpioDistinct DEF GpioStage
      <4>2. CASE ~BeginCall(t)
        <5>1. th'[t] = Idle
          BY <2>2, <4>2, CallBoundary
        <5> QED
          BY <5>1, IdleThread, GpioDistinct DEF GpioStage, Bits
      <4> QED
        BY <4>1, <4>2
    <3> QED
      BY <1>2, <3>1, <3>2, <3>3
  <2> QED
    BY <1>5, <2>1, <2>2, GpioCallSteps
<1> QED
  BY <1>3, <1>4, <1>5, NextCases

-----------------------------------------------------------------------------
(* I2C devices.                                                            *)

\* The calls of I2C differ.
LEMMA I2cDistinct ==
  /\ hal_i2c_read_reg # hal_i2c_write_reg /\ hal_i2c_read_reg # hal_i2c_write
  /\ hal_i2c_read_reg # hal_i2c_read /\ hal_i2c_write_reg # hal_i2c_write
  /\ hal_i2c_write_reg # hal_i2c_read
  /\ hal_i2c_read_reg # <<>> /\ hal_i2c_write_reg # <<>>
<1>1. /\ Len(hal_i2c_read_reg) # Len(hal_i2c_write_reg) /\ Len(hal_i2c_read_reg) # Len(hal_i2c_write)
      /\ Len(hal_i2c_read_reg) # Len(hal_i2c_read) /\ hal_i2c_write_reg[1] # hal_i2c_write[1]
      /\ hal_i2c_write_reg[1] # hal_i2c_read[1]
      /\ Len(hal_i2c_read_reg) # 0 /\ Len(hal_i2c_write_reg) # 0
  BY I2cCalls
<1>2. Len(<<>>) = 0
  OBVIOUS
<1> QED
  BY <1>1, <1>2, Zenon

\* A step that does not disturb a call keeps its stage: I2C.
LEMMA I2cBystander ==
  ASSUME NEW u \in Threads, I2cStage(u), SameCall(u),
         (th'[u].clean /\ th[u].call # <<>>) => dev' = dev
  PROVE  I2cStage(u)'
<1>1. CASE th'[u].clean /\ th[u].call # <<>>
  <2>1. th'[u].clean /\ th[u].clean /\ dev' = dev
    BY <1>1 DEF SameCall
  <2> QED
    BY <2>1 DEF I2cStage, SameCall, Left
<1>2. CASE ~th'[u].clean
  BY <1>2 DEF I2cStage, SameCall
<1>3. CASE th[u].call = <<>>
  BY <1>3, I2cDistinct DEF I2cStage, SameCall
<1> QED
  BY <1>1, <1>2, <1>3

\* The steps of a call of I2C.
LEMMA I2cCallSteps ==
  ASSUME DeviceTypes, CallsInProgress, kind = "i2c", NEW t \in Threads, CallStep(t)
  PROVE  BeginCall(t) \/ I2cAccess(t) \/ Fail(t) \/ Return(t)
<1>1. \A op \in AccessNames \ {"select", "fetch", "store"} : ~Access(t, op)
  <2>1. CASE th[t].todo = <<>>
    BY <2>1 DEF Access
  <2>2. CASE th[t].todo # <<>>
    BY <2>2, AccessSites DEF AccessNames
  <2> QED
    BY <2>1, <2>2
<1>2. ~GpioAccess(t) /\ ~SpiAccess(t) /\ ~QueueAccess(t) /\ ~PlainAccess(t) /\ ~PwmAccess(t) /\ ~PcmAccess(t)
  BY <1>1 DEF GpioAccess, SpiAccess, QueueAccess, PlainAccess, PwmAccess, PcmAccess, AccessNames
<1> QED
  BY <1>2 DEF CallStep

\* An access of I2C takes its call to the next stage.
LEMMA I2cAccessStage ==
  ASSUME DeviceTypes, CallsInProgress, I2cStages, kind = "i2c", NEW t \in Threads, I2cAccess(t)
  PROVE  dev' \in Device.i2c /\ \A u \in Threads : I2cStage(u)'
<1>1. /\ dev \in [ptr : Bits, reg : [Bits -> Bits]] /\ dev.ptr \in Bits /\ dev.reg \in [Bits -> Bits]
      /\ I2cStage(t) /\ th[t].val \in Bits /\ th[t].arg \in Bits
  <2>1. dev \in [ptr : Bits, reg : [Bits -> Bits]] /\ I2cStage(t)
    BY DEF I2cStages, Device
  <2> QED
    BY <2>1 DEF I2cStage
<1>2. th[t].todo # <<>>
  BY DEF I2cAccess, Access
<1>3. ASSUME NEW v \in Bits, Proceed(t, v, TRUE)
      PROVE  /\ th'[t].call = th[t].call /\ Left(t)' = Left(t) - 1 /\ th'[t].val = v
             /\ th'[t].arg = th[t].arg /\ th'[t].clean = th[t].clean
             /\ \A u \in Threads \ {t} : I2cStage(u)'
  <2>1. v \in Int \union Handles /\ TRUE \in BOOLEAN
    BY DEF Bits
  <2>2. /\ th'[t].call = th[t].call /\ Len(th'[t].todo) = Left(t) - 1 /\ th'[t].val = v
        /\ th'[t].arg = th[t].arg /\ th'[t].clean = th[t].clean
        /\ \A u \in Threads \ {t} : Bystander(u, user[t], TRUE)
    BY <1>2, <1>3, <2>1, Proceeded, Zenon
  <2>3. ASSUME NEW u \in Threads \ {t}
        PROVE  I2cStage(u)'
    <3>1. /\ SameCall(u) /\ I2cStage(u)
          /\ ~(th'[u].clean /\ th[u].call # <<>>)
      BY <2>2 DEF Bystander, I2cStages
    <3> QED
      BY <3>1, I2cBystander
  <2> QED
    BY <2>2, <2>3 DEF Left
<1>4. CASE Access(t, "select") /\ Proceed(t, th[t].val, TRUE) /\ dev' = [dev EXCEPT !.ptr = th[t].arg]
  <2>1. At(t, hal_i2c_write, 1) \/ At(t, hal_i2c_read_reg, 2)
    BY <1>2, <1>4, AccessSites
  <2>2. /\ th'[t].call = th[t].call /\ Left(t)' = Left(t) - 1 /\ th'[t].val = th[t].val
        /\ th'[t].arg = th[t].arg /\ th'[t].clean = th[t].clean
        /\ \A u \in Threads \ {t} : I2cStage(u)'
    BY <1>1, <1>3, <1>4
  <2>3. dev' \in [ptr : Bits, reg : [Bits -> Bits]] /\ dev'.ptr = th[t].arg
    BY <1>1, <1>4
  <2>4. I2cStage(t)'
    BY <1>1, <2>1, <2>2, <2>3, I2cDistinct DEF I2cStage, At
  <2> QED
    BY <2>2, <2>3, <2>4 DEF Device
<1>5. CASE /\ Access(t, "fetch") /\ Proceed(t, dev.reg[dev.ptr], TRUE)
           /\ \E p \in Bits : dev' = [dev EXCEPT !.ptr = p]
  <2>1. At(t, hal_i2c_read, 1) \/ At(t, hal_i2c_read_reg, 1)
    BY <1>2, <1>5, AccessSites
  <2>2. dev.reg[dev.ptr] \in Bits
    BY <1>1
  <2>3. /\ th'[t].call = th[t].call /\ Left(t)' = Left(t) - 1 /\ th'[t].val = dev.reg[dev.ptr]
        /\ th'[t].arg = th[t].arg /\ th'[t].clean = th[t].clean
        /\ \A u \in Threads \ {t} : I2cStage(u)'
    BY <1>3, <1>5, <2>2
  <2>4. dev' \in [ptr : Bits, reg : [Bits -> Bits]] /\ dev'.reg = dev.reg
    BY <1>1, <1>5
  <2>5. (th[t].call = hal_i2c_read_reg /\ th[t].clean) => dev.ptr = th[t].arg
    BY <1>1, <2>1, I2cDistinct DEF I2cStage, At
  <2>6. I2cStage(t)'
    BY <1>1, <2>1, <2>2, <2>3, <2>4, <2>5, I2cDistinct DEF I2cStage, At
  <2> QED
    BY <2>3, <2>4, <2>6 DEF Device
<1>6. CASE /\ Access(t, "store") /\ Proceed(t, th[t].val, TRUE)
           /\ \E p \in Bits : dev' = [dev EXCEPT !.ptr = p, !.reg[th[t].arg] = th[t].val]
  <2>1. At(t, hal_i2c_write_reg, 1)
    BY <1>2, <1>6, AccessSites
  <2>2. /\ th'[t].call = th[t].call /\ Left(t)' = Left(t) - 1 /\ th'[t].val = th[t].val
        /\ th'[t].arg = th[t].arg /\ th'[t].clean = th[t].clean
        /\ \A u \in Threads \ {t} : I2cStage(u)'
    BY <1>1, <1>3, <1>6
  <2>3. dev' \in [ptr : Bits, reg : [Bits -> Bits]] /\ dev'.reg[th[t].arg] = th[t].val
    <3>1. PICK p \in Bits : dev' = [dev EXCEPT !.ptr = p, !.reg[th[t].arg] = th[t].val]
      BY <1>6
    <3> DEFINE reg == [dev.reg EXCEPT ![th[t].arg] = th[t].val]
    <3>2. reg \in [Bits -> Bits] /\ reg[th[t].arg] = th[t].val
      BY <1>1
    <3>3. dev' = [dev EXCEPT !.ptr = p, !.reg = reg]
      BY <1>1, <3>1
    <3> HIDE DEF reg
    <3>4. dev' \in [ptr : Bits, reg : [Bits -> Bits]] /\ dev'.reg = reg
      BY <1>1, <3>2, <3>3
    <3> QED
      BY <3>2, <3>4
  <2>4. I2cStage(t)'
    BY <1>1, <2>1, <2>2, <2>3, I2cDistinct DEF I2cStage, At
  <2> QED
    BY <2>2, <2>3, <2>4 DEF Device
<1> QED
  BY <1>4, <1>5, <1>6 DEF I2cAccess

\* Every step keeps how far undisturbed calls have come: I2C.
LEMMA I2cStep ==
  ASSUME DeviceTypes, CallsInProgress, GpioStages, I2cStages, [Next]_vars
  PROVE  I2cStages'
<1>1. kind' = kind
  BY NextCases, CallFrame, OpenFrame DEF vars
<1> SUFFICES ASSUME kind = "i2c"
             PROVE  dev' \in Device.i2c /\ \A u \in Threads : I2cStage(u)'
  BY <1>1 DEF I2cStages
<1>2. dev \in Device.i2c /\ \A u \in Threads : I2cStage(u)
  BY DEF I2cStages
<1>3. CASE UNCHANGED vars
  BY <1>2, <1>3 DEF vars, I2cStage, Left
<1>4. ASSUME NEW h \in Handles, OpenOrClose(h)
      PROVE  dev' \in Device.i2c /\ \A u \in Threads : I2cStage(u)'
  <2>1. dev' = dev
    BY <1>4 DEF OpenOrClose, BeginOpen, OpenStep, Configured, OpenIgnore, OpenFail, CloseHandle, Arrive, Xrun
  <2>2. \A u \in Threads : SameCall(u)
    BY <1>4, OpenFrame
  <2> QED
    BY <1>2, <2>1, <2>2, I2cBystander
<1>5. ASSUME NEW t \in Threads, CallStep(t)
      PROVE  dev' \in Device.i2c /\ \A u \in Threads : I2cStage(u)'
  <2>1. CASE I2cAccess(t)
    BY <2>1, I2cAccessStage
  <2>2. CASE BeginCall(t) \/ Fail(t) \/ Return(t)
    <3>1. dev' = dev
      BY <2>2, CallBoundary
    <3>2. ASSUME NEW u \in Threads \ {t}
          PROVE  I2cStage(u)'
      <4>1. CASE th'[u] = th[u]
        BY <1>2, <3>1, <4>1 DEF I2cStage, Left
      <4>2. CASE Bystander(u, user[t], FALSE)
        BY <1>2, <3>1, <4>2, I2cBystander DEF Bystander
      <4> QED
        BY <2>2, <4>1, <4>2, CallBoundary
    <3>3. I2cStage(t)'
      <4>1. CASE BeginCall(t)
        <5>1. PICK call \in Calls[kind] : \E a \in Args(call), v \in Data(call) :
                 /\ th'[t].call = call /\ th'[t].todo = call /\ th'[t].arg = a /\ th'[t].val = v
          BY <4>1, Begun
        <5>2. th'[t].val \in Bits /\ th'[t].arg \in Bits
          BY <5>1, Arguments, KindNames
        <5>3. /\ call = hal_i2c_read_reg => Left(t)' = 2
              /\ call = hal_i2c_write_reg => Left(t)' = 1
          BY <5>1, I2cCalls DEF Left
        <5> QED
          BY <5>1, <5>2, <5>3, I2cDistinct DEF I2cStage
      <4>2. CASE ~BeginCall(t)
        <5>1. th'[t] = Idle
          BY <2>2, <4>2, CallBoundary
        <5> QED
          BY <5>1, IdleThread, I2cDistinct DEF I2cStage, Bits
      <4> QED
        BY <4>1, <4>2
    <3> QED
      BY <1>2, <3>1, <3>2, <3>3
  <2> QED
    BY <1>5, <2>1, <2>2, I2cCallSteps
<1> QED
  BY <1>3, <1>4, <1>5, NextCases

-----------------------------------------------------------------------------
(* PWM channels.                                                           *)

\* The calls of PWM differ.
LEMMA PwmDistinct ==
  /\ hal_pwm_set_duty_cycle # hal_pwm_set_frequency /\ hal_pwm_set_duty_cycle # hal_pwm_enable
  /\ hal_pwm_set_duty_cycle # hal_pwm_disable /\ hal_pwm_set_duty_cycle # <<>>
<1>1. /\ Len(hal_pwm_set_duty_cycle) # Len(hal_pwm_set_frequency)
      /\ Len(hal_pwm_set_duty_cycle) # Len(hal_pwm_enable)
      /\ Len(hal_pwm_set_duty_cycle) # Len(hal_pwm_disable) /\ Len(hal_pwm_set_duty_cycle) # 0
  BY PwmCalls
<1>2. Len(<<>>) = 0
  OBVIOUS
<1> QED
  BY <1>1, <1>2, Zenon

\* A step that does not disturb a call keeps its stage: PWM.
LEMMA PwmBystander ==
  ASSUME NEW u \in Threads, PwmStage(u), SameCall(u), user' = user,
         (th'[u].clean /\ th[u].call # <<>>) =>
            (dev' = dev /\ handle'[user[u]].period = handle[user[u]].period)
  PROVE  PwmStage(u)'
<1>1. CASE th'[u].clean /\ th[u].call # <<>>
  <2>1. /\ th'[u].clean /\ th[u].clean /\ dev' = dev
        /\ handle'[user[u]].period = handle[user[u]].period
    BY <1>1 DEF SameCall
  <2> QED
    BY <2>1 DEF PwmStage, SameCall, Left, Duty
<1>2. CASE ~th'[u].clean
  BY <1>2 DEF PwmStage, SameCall
<1>3. CASE th[u].call = <<>>
  BY <1>3, PwmDistinct DEF PwmStage, SameCall
<1> QED
  BY <1>1, <1>2, <1>3

\* The steps of a call of PWM.
LEMMA PwmCallSteps ==
  ASSUME DeviceTypes, CallsInProgress, kind = "pwm", NEW t \in Threads, CallStep(t)
  PROVE  BeginCall(t) \/ PwmAccess(t) \/ Fail(t) \/ Return(t)
<1>1. \A op \in AccessNames \ {"load", "clamp", "period", "duty", "enable", "disable"} : ~Access(t, op)
  <2>1. CASE th[t].todo = <<>>
    BY <2>1 DEF Access
  <2>2. CASE th[t].todo # <<>>
    BY <2>2, AccessSites DEF AccessNames
  <2> QED
    BY <2>1, <2>2
<1>2. ~GpioAccess(t) /\ ~I2cAccess(t) /\ ~SpiAccess(t) /\ ~QueueAccess(t) /\ ~PlainAccess(t) /\ ~PcmAccess(t)
  BY <1>1 DEF GpioAccess, I2cAccess, SpiAccess, QueueAccess, PlainAccess, PcmAccess, AccessNames
<1> QED
  BY <1>2 DEF CallStep

\* A percentage of the period does not exceed it, and is exact.
LEMMA DutyFits ==
  ASSUME NEW p \in Periods, NEW a \in Percents
  PROVE  (p * a) \div 100 \in Nat /\ (p * a) \div 100 <= p /\ 100 * ((p * a) \div 100) = a * p
<1>1. CASE p = 2 /\ a = 50
  BY <1>1
<1>2. CASE p = 2 /\ a = 100
  BY <1>2
<1>3. CASE p = 4 /\ a = 50
  BY <1>3
<1>4. CASE p = 4 /\ a = 100
  BY <1>4
<1> QED
  BY <1>1, <1>2, <1>3, <1>4 DEF Periods, Percents

\* An access of PWM takes its call to the next stage.
LEMMA PwmAccessStage ==
  ASSUME DeviceTypes, CallsInProgress, PwmStages, kind = "pwm", NEW t \in Threads, PwmAccess(t)
  PROVE  dev' \in Device.pwm /\ \A u \in Threads : PwmStage(u)'
<1> DEFINE D == [period : {0} \union Periods, duty : 0 .. 4]
           h == user[t]
<1>1. /\ dev \in D /\ user' = user /\ h \in Handles
      /\ handle \in [Handles -> HandleRecords] /\ handle[h].period \in Periods
      /\ PwmStage(t) /\ th[t].val \in Nat
  <2>1. dev \in D /\ PwmStage(t)
    BY DEF PwmStages, Device
  <2>2. h \in Handles /\ handle \in [Handles -> HandleRecords] /\ handle[h].period \in Periods
    BY DEF DeviceTypes, HandleRecords
  <2> QED
    BY <2>1, <2>2 DEF PwmStage, PwmAccess
<1>2. th[t].todo # <<>>
  BY DEF PwmAccess, Access
<1>3. CallHandle(t)
  BY CallFrame DEF CallStep
<1>4. ASSUME NEW v \in Nat, NEW touched \in BOOLEAN, Proceed(t, v, touched), ~touched => dev' = dev
      PROVE  /\ th'[t].call = th[t].call /\ Left(t)' = Left(t) - 1 /\ th'[t].val = v
             /\ th'[t].arg = th[t].arg /\ th'[t].clean = th[t].clean
             /\ \A u \in Threads \ {t} : PwmStage(u)'
  <2>1. v \in Int \union Handles
    OBVIOUS
  <2>2. /\ th'[t].call = th[t].call /\ Len(th'[t].todo) = Left(t) - 1 /\ th'[t].val = v
        /\ th'[t].arg = th[t].arg /\ th'[t].clean = th[t].clean
        /\ \A u \in Threads \ {t} : Bystander(u, user[t], touched)
    BY <1>2, <1>4, <2>1, Proceeded
  <2>3. ASSUME NEW u \in Threads \ {t}
        PROVE  PwmStage(u)'
    <3>1. /\ SameCall(u) /\ PwmStage(u) /\ user[u] \in Handles
          /\ (th'[u].clean /\ th[u].call # <<>>) => (~touched /\ user[u] # user[t])
      BY <2>2 DEF Bystander, PwmStages, DeviceTypes
    <3>2. (th'[u].clean /\ th[u].call # <<>>) => handle'[user[u]].period = handle[user[u]].period
      BY <1>3, <3>1 DEF CallHandle
    <3> QED
      BY <1>1, <1>4, <3>1, <3>2, PwmBystander
  <2> QED
    BY <2>2, <2>3 DEF Left
<1>5. CASE Access(t, "load") /\ Proceed(t, Duty(h, th[t].arg), FALSE) /\ UNCHANGED <<handle, dev>>
  <2>1. At(t, hal_pwm_set_duty_cycle, 3)
    BY <1>2, <1>5, AccessSites
  <2>2. th[t].arg \in Percents
    BY <1>1, <2>1 DEF PwmStage, At
  <2>3. Duty(h, th[t].arg) \in Nat
    BY <1>1, <2>2, DutyFits DEF Duty
  <2>4. /\ th'[t].call = th[t].call /\ Left(t)' = Left(t) - 1 /\ th'[t].val = Duty(h, th[t].arg)
        /\ th'[t].arg = th[t].arg /\ th'[t].clean = th[t].clean
        /\ \A u \in Threads \ {t} : PwmStage(u)'
    BY <1>4, <1>5, <2>3
  <2>5. Duty(user[t], th[t].arg)' = Duty(h, th[t].arg)
    BY <1>1, <1>5, <2>4 DEF Duty
  <2>6. PwmStage(t)'
    BY <1>1, <2>1, <2>2, <2>3, <2>4, <2>5 DEF PwmStage, At
  <2> QED
    BY <1>1, <1>5, <2>4, <2>6 DEF Device
<1>6. CASE Access(t, "clamp") /\ Proceed(t, Smaller(th[t].val, handle[h].period), FALSE) /\ UNCHANGED <<handle, dev>>
  <2>1. At(t, hal_pwm_set_duty_cycle, 2)
    BY <1>2, <1>6, AccessSites
  <2>2. th[t].arg \in Percents
    BY <1>1, <2>1 DEF PwmStage, At
  <2>3. Smaller(th[t].val, handle[h].period) \in Nat
    BY <1>1 DEF Smaller, Periods
  <2>4. /\ th'[t].call = th[t].call /\ Left(t)' = Left(t) - 1
        /\ th'[t].val = Smaller(th[t].val, handle[h].period)
        /\ th'[t].arg = th[t].arg /\ th'[t].clean = th[t].clean
        /\ \A u \in Threads \ {t} : PwmStage(u)'
    BY <1>4, <1>6, <2>3
  <2>5. Duty(user[t], th[t].arg)' = Duty(h, th[t].arg)
    BY <1>1, <1>6, <2>4 DEF Duty
  <2>6. th[t].clean => Smaller(th[t].val, handle[h].period) = Duty(h, th[t].arg)
    <3>1. ASSUME th[t].clean
          PROVE  Smaller(th[t].val, handle[h].period) = Duty(h, th[t].arg)
      <4>1. th[t].val = Duty(h, th[t].arg)
        BY <1>1, <2>1, <3>1 DEF PwmStage, At
      <4>2. Duty(h, th[t].arg) \in Nat /\ Duty(h, th[t].arg) <= handle[h].period
        BY <1>1, <2>2, DutyFits DEF Duty
      <4> QED
        BY <1>1, <4>1, <4>2 DEF Smaller, Periods
    <3> QED
      BY <3>1
  <2>7. PwmStage(t)'
    BY <1>1, <2>1, <2>2, <2>3, <2>4, <2>5, <2>6 DEF PwmStage, At
  <2> QED
    BY <1>1, <1>6, <2>4, <2>7 DEF Device
<1>7. CASE /\ Access(t, "period") /\ dev' = [dev EXCEPT !.period = th[t].arg]
           /\ Proceed(t, th[t].val, TRUE)
  <2>1. At(t, hal_pwm_set_frequency, 1)
    BY <1>2, <1>7, AccessSites
  <2>2. th[t].arg \in Periods
    BY <2>1 DEF CallsInProgress, At
  <2>3. dev' \in D
    BY <1>1, <1>7, <2>2
  <2>4. th'[t].call = th[t].call /\ th'[t].val = th[t].val /\ \A u \in Threads \ {t} : PwmStage(u)'
    BY <1>1, <1>4, <1>7
  <2>5. PwmStage(t)'
    BY <1>1, <2>1, <2>4, PwmDistinct DEF PwmStage, At
  <2> QED
    BY <2>3, <2>4, <2>5 DEF Device
<1>8. CASE /\ Access(t, "duty") /\ dev' = [dev EXCEPT !.duty = th[t].val]
           /\ UNCHANGED handle /\ PwmAccepts(dev') /\ Proceed(t, th[t].val, TRUE)
  <2>1. At(t, hal_pwm_set_duty_cycle, 1)
    BY <1>2, <1>8, AccessSites
  <2>2. dev'.duty = th[t].val /\ dev'.period = dev.period
    BY <1>1, <1>8
  <2>3. th[t].val \in 0 .. 4
    <3>1. dev.period \in {0} \union Periods
      BY <1>1
    <3> QED
      BY <1>1, <1>8, <2>2, <3>1 DEF PwmAccepts, Periods
  <2>4. dev' \in D
    BY <1>1, <1>8, <2>3
  <2>5. /\ th'[t].call = th[t].call /\ Left(t)' = Left(t) - 1 /\ th'[t].val = th[t].val
        /\ th'[t].arg = th[t].arg /\ th'[t].clean = th[t].clean
        /\ \A u \in Threads \ {t} : PwmStage(u)'
    BY <1>1, <1>4, <1>8
  <2>6. Duty(user[t], th[t].arg)' = Duty(h, th[t].arg)
    BY <1>1, <1>8, <2>5 DEF Duty
  <2>7. PwmStage(t)'
    BY <1>1, <2>1, <2>2, <2>5, <2>6 DEF PwmStage, At
  <2> QED
    BY <2>4, <2>5, <2>7 DEF Device
<1>9. CASE /\ Access(t, "enable") \/ Access(t, "disable")
           /\ UNCHANGED <<handle, dev>> /\ Proceed(t, th[t].val, TRUE)
  <2>1. At(t, hal_pwm_enable, 1) \/ At(t, hal_pwm_disable, 1)
    BY <1>2, <1>9, AccessSites
  <2>2. th'[t].call = th[t].call /\ th'[t].val = th[t].val /\ \A u \in Threads \ {t} : PwmStage(u)'
    BY <1>1, <1>4, <1>9
  <2>3. PwmStage(t)'
    BY <1>1, <2>1, <2>2, PwmDistinct DEF PwmStage, At
  <2> QED
    BY <1>1, <1>9, <2>2, <2>3 DEF Device
<1> QED
  BY <1>5, <1>6, <1>7, <1>8, <1>9 DEF PwmAccess

\* Every step keeps how far undisturbed calls have come: PWM.
LEMMA PwmStep ==
  ASSUME DeviceTypes, CallsInProgress, GpioStages, PwmStages, [Next]_vars
  PROVE  PwmStages'
<1>1. kind' = kind /\ user' = user
  BY NextCases, CallFrame, OpenFrame DEF vars
<1> SUFFICES ASSUME kind = "pwm"
             PROVE  dev' \in Device.pwm /\ \A u \in Threads : PwmStage(u)'
  BY <1>1 DEF PwmStages
<1>2. dev \in Device.pwm /\ \A u \in Threads : PwmStage(u) /\ user[u] \in Handles
  BY DEF PwmStages, DeviceTypes
<1>3. CASE UNCHANGED vars
  BY <1>2, <1>3 DEF vars, PwmStage, Left, Duty
<1>4. ASSUME NEW h \in Handles, OpenOrClose(h)
      PROVE  dev' \in Device.pwm /\ \A u \in Threads : PwmStage(u)'
  <2>1. dev' = dev
    BY <1>4 DEF OpenOrClose, BeginOpen, OpenStep, Configured, OpenIgnore, OpenFail, CloseHandle, Arrive, Xrun
  <2>2. \A u \in Threads : SameCall(u)
    BY <1>4, OpenFrame
  <2>3. \A u \in Threads : th[u].call # <<>> => handle'[user[u]].period = handle[user[u]].period
    BY <1>4, OpenKeepsUsed
  <2> QED
    BY <1>1, <1>2, <2>1, <2>2, <2>3, PwmBystander
<1>5. ASSUME NEW t \in Threads, CallStep(t)
      PROVE  dev' \in Device.pwm /\ \A u \in Threads : PwmStage(u)'
  <2>1. CASE PwmAccess(t)
    BY <2>1, PwmAccessStage
  <2>2. CASE BeginCall(t) \/ Fail(t) \/ Return(t)
    <3>1. dev' = dev
      BY <2>2, CallBoundary
    <3>2. ASSUME NEW u \in Threads \ {t}
          PROVE  PwmStage(u)'
      <4>1. CASE th'[u] = th[u] /\ handle' = handle
        BY <1>1, <1>2, <3>1, <4>1 DEF PwmStage, Left, Duty
      <4>2. CASE Bystander(u, user[t], FALSE)
        <5>1. SameCall(u) /\ ((th'[u].clean /\ th[u].call # <<>>) => user[u] # user[t])
          BY <4>2 DEF Bystander
        <5>2. (th'[u].clean /\ th[u].call # <<>>) => handle'[user[u]].period = handle[user[u]].period
          BY <1>2, <1>5, <5>1, CallFrame DEF CallHandle
        <5> QED
          BY <1>1, <1>2, <3>1, <5>1, <5>2, PwmBystander
      <4> QED
        BY <2>2, <4>1, <4>2, CallBoundary
    <3>3. PwmStage(t)'
      <4>1. CASE BeginCall(t)
        <5>1. PICK call \in Calls[kind] : \E a \in Args(call), v \in Data(call) :
                 /\ th'[t].call = call /\ th'[t].todo = call /\ th'[t].arg = a /\ th'[t].val = v
          BY <4>1, Begun
        <5>2. /\ th'[t].val \in Nat
              /\ call = hal_pwm_set_duty_cycle => th'[t].arg \in Percents
          BY <5>1, Arguments, KindNames
        <5>3. call = hal_pwm_set_duty_cycle => Left(t)' = 3
          BY <5>1, PwmCalls DEF Left
        <5> QED
          BY <5>1, <5>2, <5>3 DEF PwmStage
      <4>2. CASE ~BeginCall(t)
        <5>1. th'[t] = Idle
          BY <2>2, <4>2, CallBoundary
        <5> QED
          BY <5>1, IdleThread, PwmDistinct DEF PwmStage
      <4> QED
        BY <4>1, <4>2
    <3> QED
      BY <1>2, <3>1, <3>2, <3>3
  <2> QED
    BY <1>5, <2>1, <2>2, PwmCallSteps
<1> QED
  BY <1>3, <1>4, <1>5, NextCases

-----------------------------------------------------------------------------
(* SPI transfers and PCM streams.                                          *)

\* SPI, whose transfer is one access.
LEMMA SpiStep ==
  ASSUME DeviceInvariant, [Next]_vars
  PROVE  SpiStages'
<1> USE DEF DeviceInvariant
<1>1. kind' = kind /\ user' = user
  BY NextCases, CallFrame, OpenFrame DEF vars
<1> SUFFICES ASSUME kind = "spi"
             PROVE  \A u \in Threads : SpiStage(u)'
  BY <1>1 DEF SpiStages
<1>2. \A u \in Threads : SpiStage(u) /\ user[u] \in Handles
  BY DEF SpiStages, DeviceTypes
<1>3. ASSUME NEW u \in Threads, SameCall(u)
      PROVE  SpiStage(u)'
  BY <1>1, <1>2, <1>3 DEF SpiStage, SameCall, Left
<1>4. CASE UNCHANGED vars
  BY <1>2, <1>4 DEF vars, SpiStage, Left
<1>5. ASSUME NEW h \in Handles, OpenOrClose(h)
      PROVE  \A u \in Threads : SpiStage(u)'
  BY <1>3, <1>5, OpenFrame
<1>6. ASSUME NEW t \in Threads, CallStep(t)
      PROVE  \A u \in Threads : SpiStage(u)'
  <2>1. \A u \in Threads \ {t} : SpiStage(u)'
    BY <1>3, <1>6, CallTypes
  <2>2. CASE SpiAccess(t)
    <3>1. th[t].todo # <<>> /\ Proceed(t, user[t], FALSE)
      BY <2>2 DEF SpiAccess, Access, TransferSpeed
    <3>2. user[t] \in Int \union Handles /\ FALSE \in BOOLEAN
      BY <1>2
    <3>3. th'[t].val = user[t]
      BY <3>1, <3>2, Proceeded, Zenon
    <3> QED
      BY <1>1, <2>1, <3>3 DEF SpiStage
  <2>3. CASE BeginCall(t)
    <3>1. \E call \in Calls[kind] : th'[t].call = call /\ th'[t].todo = call
      BY <2>3, Begun
    <3>2. th'[t].todo = hal_spi_transfer
      BY <3>1 DEF Calls
    <3>3. Left(t)' = 1
      BY <3>2, SpiCalls DEF Left
    <3> QED
      BY <2>1, <3>3 DEF SpiStage
  <2>4. CASE Fail(t) \/ Return(t)
    <3>1. th'[t] = Idle
      <4>1. CASE Fail(t)
        BY <4>1 DEF Fail
      <4>2. CASE Return(t)
        BY <4>2 DEF Return, DeviceTypes
      <4> QED
        BY <2>4, <4>1, <4>2
    <3>2. Len(hal_spi_transfer) = 1 /\ Len(<<>>) = 0 /\ 1 # 0
      BY SpiCalls
    <3>3. hal_spi_transfer # <<>>
      BY <3>2, Zenon
    <3> QED
      BY <2>1, <3>1, <3>3, IdleThread DEF SpiStage
  <2>5. ~GpioAccess(t) /\ ~I2cAccess(t) /\ ~QueueAccess(t) /\ ~PlainAccess(t) /\ ~PwmAccess(t) /\ ~PcmAccess(t)
    <3>1. \A op \in AccessNames \ {"exchange"} : ~Access(t, op)
      <4>1. CASE th[t].todo = <<>>
        BY <4>1 DEF Access
      <4>2. CASE th[t].todo # <<>>
        BY <4>2, AccessSites DEF AccessNames
      <4> QED
        BY <4>1, <4>2
    <3> QED
      BY <3>1 DEF GpioAccess, I2cAccess, QueueAccess, PlainAccess, PwmAccess, PcmAccess, AccessNames
  <2> QED
    BY <1>6, <2>2, <2>3, <2>4, <2>5 DEF CallStep
<1> QED
  BY <1>4, <1>5, <1>6, NextCases

\* The part of PcmStages that speaks of one thread.
PcmStage(t) ==
  th[t].call \in {hal_i2s_write, hal_i2s_read} =>
    /\ th[t].val \in Int
    /\ dev.bits # 24 => th[t].val = th[t].seen * Channels * bits_to_format(dev.bits)

\* The stages of PCM transfers, by thread.
LEMMA PcmStagesSplit ==
  PcmStages <=> (kind = "i2s" => dev \in Device.i2s /\ \A t \in Threads : PcmStage(t))
BY DEF PcmStages, PcmStage, FramesInPlace

\* The calls of I2S differ.
LEMMA I2sDistinct ==
  /\ hal_i2s_write # <<>> /\ hal_i2s_read # <<>>
  /\ \A c \in {hal_i2s_write, hal_i2s_read} : c # hal_i2s_start /\ c # hal_i2s_stop /\ c # hal_gpio_toggle
<1>1. /\ Len(hal_i2s_write) = 2 /\ Len(hal_i2s_read) = 2 /\ Len(<<>>) = 0
      /\ Len(hal_i2s_start) = 1 /\ Len(hal_i2s_stop) = 1 /\ Len(hal_gpio_toggle) = 5
  BY I2sCalls, GpioCalls
<1>2. 2 # 0 /\ 2 # 1 /\ 2 # 5
  OBVIOUS
<1> QED
  BY <1>1, <1>2, Zenon

\* A stream's format is set when nobody transfers.
LEMMA StreamIsExclusive ==
  ASSUME DeviceTypes, CallsInProgress, OpenProgress, kind = "i2s", NEW h \in Handles,
         OpenStep(h), Step(h).gets = "params", NEW u \in Threads
  PROVE  th[u].call = <<>>
<1>1. SUFFICES ASSUME th[u].call # <<>>
               PROVE  FALSE
  OBVIOUS
<1>2. user[u] \in Handles
  BY DEF DeviceTypes
<1>3. handle[user[u]].at = 4
  BY <1>1, ExclusiveSteps DEF CallsInProgress, IsOpen
<1>4. handle[h].at = 3
  <2>1. handle[h].at \in 1 .. 3
    BY Opened, OpenSteps, ExclusiveSteps
  <2> QED
    BY <2>1, ExclusiveSteps DEF Step
<1>5. "pcm" \in handle[user[u]].has /\ "pcm" \in handle[h].has
  BY <1>2, <1>3, <1>4 DEF OpenProgress
<1>6. user[u] = h
  BY <1>2, <1>5 DEF OpenProgress
<1> QED
  BY <1>3, <1>4, <1>6

\* w frames more are w frames of bytes further in the buffer.
LEMMA FramesAdd ==
  ASSUME NEW bits \in {16, 32}, NEW val \in Int, NEW seen \in Int, NEW w \in Int,
         val = seen * Channels * bits_to_format(bits)
  PROVE  val + w * calc_frame_bytes(bits) = (seen + w) * Channels * bits_to_format(bits)
<1>1. CASE bits = 16
  BY <1>1 DEF Channels, bits_to_format, calc_frame_bytes
<1>2. CASE bits = 32
  BY <1>2 DEF Channels, bits_to_format, calc_frame_bytes
<1> QED
  BY <1>1, <1>2

\* Every step keeps the frames of a transfer where they belong.
LEMMA PcmStep ==
  ASSUME DeviceInvariant, [Next]_vars
  PROVE  PcmStages'
<1> USE DEF DeviceInvariant
<1> DEFINE D == [bits : SampleBits, capture : BOOLEAN, xrun : BOOLEAN, xruns : 0 .. MaxXruns]
<1>1. kind' = kind /\ user' = user
  BY NextCases, CallFrame, OpenFrame DEF vars
<1>2. SUFFICES ASSUME kind = "i2s"
               PROVE  dev' \in D /\ \A u \in Threads : PcmStage(u)'
  <2>1. (dev' \in D /\ \A u \in Threads : PcmStage(u)') => (dev \in Device.i2s /\ \A u \in Threads : PcmStage(u))'
    BY DEF Device
  <2>2. PcmStages' <=> (kind' = "i2s" => (dev \in Device.i2s /\ \A u \in Threads : PcmStage(u))')
    BY DEF PcmStages, PcmStage, FramesInPlace
  <2> QED
    BY <1>1, <2>1, <2>2
<1>3. dev \in D /\ \A u \in Threads : PcmStage(u) /\ th[u] \in CallRecords
  <2>1. dev \in D
    BY <1>2, PcmStagesSplit DEF Device
  <2> QED
    BY <1>2, <2>1, PcmStagesSplit DEF DeviceTypes
<1>4. ASSUME NEW u \in Threads, SameCall(u), dev'.bits = dev.bits
      PROVE  PcmStage(u)'
  BY <1>3, <1>4 DEF PcmStage, SameCall
<1>5. CASE UNCHANGED vars
  <2>1. dev' = dev /\ \A u \in Threads : SameCall(u)
    BY <1>3, <1>5 DEF vars, SameCall
  <2> QED
    BY <1>3, <1>4, <2>1
<1>6. ASSUME NEW h \in Handles, OpenOrClose(h)
      PROVE  dev' \in D /\ \A u \in Threads : PcmStage(u)'
  <2>1. \A u \in Threads : SameCall(u)
    BY <1>6, OpenFrame
  <2>2. CASE OpenStep(h) /\ Step(h).gets = "params"
    <3>1. dev' \in [bits : SampleBits, capture : BOOLEAN, xrun : {FALSE}, xruns : {dev.xruns}]
      <4>1. dev' \in Configured("params", h)
        BY <2>2 DEF OpenStep
      <4> QED
        BY <1>2, <4>1 DEF Configured
    <3>2. dev' \in D
      BY <1>3, <3>1
    <3>3. \A u \in Threads : th'[u].call = <<>>
      BY <1>2, <2>1, <2>2, StreamIsExclusive DEF SameCall
    <3> QED
      BY <3>2, <3>3, I2sDistinct DEF PcmStage
  <2>3. CASE OpenStep(h) /\ Step(h).gets # "params"
    <3>1. dev' = dev
      BY <1>2, <2>3 DEF OpenStep, Configured
    <3> QED
      BY <1>3, <1>4, <2>1, <3>1
  <2>4. CASE Xrun(h)
    <3>1. dev' = [dev EXCEPT !.xrun = TRUE, !.xruns = @ + 1] /\ dev.xruns < MaxXruns
      BY <2>4 DEF Xrun
    <3>2. dev.xruns + 1 \in 0 .. MaxXruns
      BY <1>3, <3>1, DeviceAssumption
    <3>3. dev' \in D /\ dev'.bits = dev.bits
      BY <1>3, <3>1, <3>2
    <3> QED
      BY <1>4, <2>1, <3>3
  <2>5. CASE ~OpenStep(h) /\ ~Xrun(h)
    <3>1. dev' = dev
      BY <1>2, <1>6, <2>5 DEF OpenOrClose, BeginOpen, OpenIgnore, OpenFail, CloseHandle, Arrive
    <3> QED
      BY <1>3, <1>4, <2>1, <3>1
  <2> QED
    BY <2>2, <2>3, <2>4, <2>5
<1>7. ASSUME NEW t \in Threads, CallStep(t)
      PROVE  dev' \in D /\ \A u \in Threads : PcmStage(u)'
  <2>1. \A u \in Threads \ {t} : SameCall(u)
    BY <1>7, CallTypes
  <2>2. CASE PcmAccess(t)
    <3>1. /\ dev' \in D /\ dev'.bits = dev.bits
          /\ th[t].call \in {hal_i2s_write, hal_i2s_read} /\ th'[t].call = th[t].call
          /\ \/ th'[t].val = th[t].val /\ th'[t].seen = th[t].seen
             \/ \E w \in Int : /\ th'[t].val = th[t].val + w * calc_frame_bytes(dev.bits)
                               /\ th'[t].seen = th[t].seen + w
      BY <2>2, Streamed DEF Device
    <3>2. /\ th[t].val \in Int /\ th[t].seen \in Int
          /\ dev.bits # 24 => th[t].val = th[t].seen * Channels * bits_to_format(dev.bits)
      BY <1>3, <3>1 DEF PcmStage, CallRecords
    <3>3. dev.bits \in {16, 24, 32}
      BY <1>3 DEF SampleBits
    <3>4. PcmStage(t)'
      <4>1. CASE th'[t].val = th[t].val /\ th'[t].seen = th[t].seen
        BY <3>1, <3>2, <4>1 DEF PcmStage
      <4>2. ASSUME NEW w \in Int, th'[t].val = th[t].val + w * calc_frame_bytes(dev.bits),
                   th'[t].seen = th[t].seen + w
            PROVE  PcmStage(t)'
        <5>1. calc_frame_bytes(dev.bits) \in Int
          BY <3>3 DEF calc_frame_bytes, Channels
        <5>2. th'[t].val \in Int
          BY <3>2, <4>2, <5>1
        <5>3. dev.bits # 24 => th'[t].val = th'[t].seen * Channels * bits_to_format(dev.bits)
          <6>1. ASSUME dev.bits # 24
                PROVE  th[t].val + w * calc_frame_bytes(dev.bits)
                         = (th[t].seen + w) * Channels * bits_to_format(dev.bits)
            <7>1. dev.bits \in {16, 32} /\ th[t].val = th[t].seen * Channels * bits_to_format(dev.bits)
              BY <3>2, <3>3, <6>1
            <7> QED
              BY <3>2, <4>2, <7>1, FramesAdd
          <6> QED
            BY <4>2, <6>1
        <5> QED
          BY <3>1, <5>2, <5>3 DEF PcmStage
      <4> QED
        BY <3>1, <4>1, <4>2
    <3> QED
      BY <1>4, <2>1, <3>1, <3>4
  <2>3. CASE BeginCall(t)
    <3>1. dev' = dev
      BY <2>3 DEF BeginCall
    <3>2. PICK call \in Calls[kind] : \E v \in Data(call) :
             /\ th'[t].call = call /\ th'[t].val = v
             /\ th'[t].seen = (IF call = hal_gpio_toggle THEN dev.level ELSE 0)
      BY <2>3, Begun
    <3>3. th'[t].val = 0
      BY <1>2, <3>2, Arguments, KindNames
    <3>4. th'[t].call \in {hal_i2s_write, hal_i2s_read} => th'[t].seen = 0
      BY <3>2, I2sDistinct
    <3>5. dev.bits \in {16, 24, 32}
      BY <1>3 DEF SampleBits
    <3>6. 0 = 0 * Channels * bits_to_format(dev.bits)
      BY <3>5 DEF Channels, bits_to_format
    <3>7. PcmStage(t)'
      BY <3>1, <3>3, <3>4, <3>6 DEF PcmStage
    <3> QED
      BY <1>3, <1>4, <2>1, <3>1, <3>7
  <2>4. CASE Fail(t) \/ Return(t)
    <3>1. th'[t] = Idle /\ dev' = dev
      <4>1. CASE Fail(t)
        BY <4>1 DEF Fail
      <4>2. CASE Return(t)
        BY <4>2 DEF Return, DeviceTypes
      <4> QED
        BY <2>4, <4>1, <4>2
    <3>2. PcmStage(t)'
      BY <3>1, IdleThread, I2sDistinct DEF PcmStage
    <3> QED
      BY <1>3, <1>4, <2>1, <3>1, <3>2
  <2>5. CASE PlainAccess(t)
    <3>1. th[t].todo # <<>> /\ Proceed(t, 0, FALSE) /\ dev' = dev
      BY <2>5 DEF PlainAccess, Access
    <3>2. At(t, hal_i2s_start, 1) \/ At(t, hal_i2s_stop, 1)
      BY <1>2, <2>5, <3>1, AccessSites DEF PlainAccess
    <3>3. 0 \in Int \union Handles /\ FALSE \in BOOLEAN
      OBVIOUS
    <3>4. th'[t].call = th[t].call
      BY <3>1, <3>3, Proceeded, Zenon
    <3>5. PcmStage(t)'
      BY <3>2, <3>4, I2sDistinct DEF PcmStage, At
    <3> QED
      BY <1>3, <1>4, <2>1, <3>1, <3>5
  <2>6. ~GpioAccess(t) /\ ~I2cAccess(t) /\ ~SpiAccess(t) /\ ~QueueAccess(t) /\ ~PwmAccess(t)
    <3>1. \A op \in AccessNames \ {"wait", "writei", "readi", "start", "drop"} : ~Access(t, op)
      <4>1. CASE th[t].todo = <<>>
        BY <4>1 DEF Access
      <4>2. CASE th[t].todo # <<>>
        BY <1>2, <4>2, AccessSites DEF AccessNames
      <4> QED
        BY <4>1, <4>2
    <3> QED
      BY <3>1 DEF GpioAccess, I2cAccess, SpiAccess, QueueAccess, PwmAccess, AccessNames
  <2> QED
    BY <1>7, <2>2, <2>3, <2>4, <2>5, <2>6 DEF CallStep
<1> QED
  BY <1>5, <1>6, <1>7, NextCases

-----------------------------------------------------------------------------
(* The invariant, and what follows from it.                                *)

\* A thread without a call claims nothing.
LEMMA NobodyCalls ==
  /\ Idle.call # hal_pwm_set_frequency /\ Idle.call # hal_pwm_set_duty_cycle
  /\ Idle.call # hal_spi_transfer
  /\ Idle.call # hal_i2c_read_reg /\ Idle.call # hal_i2c_write_reg
<1>1. hal_spi_transfer # <<>>
  <2>1. Len(hal_spi_transfer) = 1 /\ Len(<<>>) = 0 /\ 1 # 0
    BY SpiCalls
  <2> QED
    BY <2>1, Zenon
<1>2. hal_pwm_set_frequency # <<>>
  <2>1. Len(hal_pwm_set_frequency) = 1 /\ Len(<<>>) = 0 /\ 1 # 0
    BY PwmCalls
  <2> QED
    BY <2>1, Zenon
<1> QED
  BY <1>1, <1>2, IdleThread, PwmDistinct, I2cDistinct

\* Before anything is opened.
LEMMA InitiallyDevice ==
  ASSUME Init
  PROVE  DeviceInvariant
<1> USE DEF Init
<1>1. kind \in DOMAIN Open
  BY KindsAssumption
<1>2. user \in [Threads -> Handles]
  BY DeviceAssumption
<1>3. handle \in [Handles -> HandleRecords] /\ \A h \in Handles : handle[h] = Closed
  <2>1. Closed \in HandleRecords
    BY DEF Closed, HandleRecords, Owned, Bits, Periods, DefaultPeriod
  <2> QED
    BY <2>1
<1>4. th \in [Threads -> CallRecords] /\ \A t \in Threads : th[t] = Idle
  BY IdleThread
<1>5. DeviceTypes
  <2>1. kernel \subseteq Remembered
    OBVIOUS
  <2>2. refused \in BOOLEAN
    OBVIOUS
  <2> QED
    BY <1>1, <1>2, <1>3, <1>4, <2>1, <2>2 DEF DeviceTypes
<1>6. CallsInProgress
  BY <1>4, IdleThread, NobodyCalls DEF CallsInProgress
<1>7. OpenProgress
  <2>1. Len(Open[kind]) \in Nat
    BY <1>1, OpenSteps
  <2>2. \A h \in Handles : handle[h].at = 0 /\ handle[h].has = {}
    BY <1>3, ClosedHandle
  <2> QED
    BY <2>1, <2>2 DEF OpenProgress
<1>8. WatchdogHeld
  BY DEF WatchdogHeld, WatchdogNotOrphaned, DeviceStates, Device
<1>9. GpioStages
  <2>1. kind = "gpio" => dev \in Device.gpio
    BY DEF DeviceStates, Device
  <2>2. \A t \in Threads : GpioStage(t)
    BY <1>4, IdleThread, GpioDistinct DEF GpioStage, Bits
  <2> QED
    BY <2>1, <2>2 DEF GpioStages
<1>10. I2cStages
  <2>1. kind = "i2c" => dev \in Device.i2c
    BY DEF DeviceStates, Device
  <2>2. \A t \in Threads : I2cStage(t)
    BY <1>4, IdleThread, NobodyCalls DEF I2cStage, Bits
  <2> QED
    BY <2>1, <2>2 DEF I2cStages
<1>11. PwmStages
  <2>1. kind = "pwm" => dev \in Device.pwm
    BY DEF DeviceStates, Device
  <2>2. \A t \in Threads : PwmStage(t)
    BY <1>4, IdleThread, NobodyCalls DEF PwmStage
  <2> QED
    BY <2>1, <2>2 DEF PwmStages
<1>12. SpiStages
  BY <1>4, NobodyCalls DEF SpiStages, SpiStage
<1>13. PcmStages
  <2>1. kind = "i2s" => dev \in Device.i2s
    BY DEF DeviceStates, Device
  <2>2. \A t \in Threads : PcmStage(t)
    BY <1>4, IdleThread, I2sDistinct DEF PcmStage
  <2> QED
    BY <2>1, <2>2, PcmStagesSplit
<1> QED
  BY <1>5, <1>6, <1>7, <1>8, <1>9, <1>10, <1>11, <1>12, <1>13 DEF DeviceInvariant

\* DeviceInvariant holds of every kind of device at every time.
THEOREM DeviceInvariance == Spec => []DeviceInvariant
<1>1. Init => DeviceInvariant
  BY InitiallyDevice
<1>2. DeviceInvariant /\ [Next]_vars => DeviceInvariant'
  <2> SUFFICES ASSUME DeviceInvariant, [Next]_vars
               PROVE  DeviceInvariant'
    OBVIOUS
  <2>1. DeviceTypes' /\ CallsInProgress' /\ SpiStages' /\ PcmStages'
    BY TypesStep, SpiStep, PcmStep
  <2>2. OpenProgress' /\ WatchdogHeld' /\ GpioStages' /\ I2cStages' /\ PwmStages'
    BY ProgressStep, WatchdogStep, GpioStep, I2cStep, PwmStep DEF DeviceInvariant
  <2> QED
    BY <2>1, <2>2 DEF DeviceInvariant
<1> QED
  BY <1>1, <1>2, PTL DEF Spec

\* Whichever step of a hal_*_open fails, its error path gives back everything
\* acquired before, and hal_*_close gives back the rest.
THEOREM OpensGiveBack == Spec => []NothingLeaks
<1>1. DeviceInvariant => NothingLeaks
  BY DEF DeviceInvariant, OpenProgress, NothingLeaks
<1> QED
  BY <1>1, DeviceInvariance, PTL

\* A device all of whose handles are closed can be opened again: what sysfs
\* or the USB core still remember is an error the open ignores, and a GPIO
\* handle has its line exported as long as it is open.
THEOREM DeviceRemainsUsable == Spec => []DeviceStaysUsable
<1>1. ASSUME DeviceInvariant
      PROVE  DeviceStaysUsable
  <2>1. kind \in DOMAIN Open /\ kernel \subseteq Remembered /\ leaked = {}
    BY <1>1 DEF DeviceInvariant, DeviceTypes, OpenProgress
  <2>2. ASSUME \A h \in Handles : handle[h] = Closed, NEW i \in DOMAIN Open[kind], NEW h \in Handles,
               Taken(h, Open[kind][i].gets)
        PROVE  Ignored(Open[kind][i])
    <3>1. \A g \in Handles : handle[g].has = {}
      BY <2>2, ClosedHandle
    <3>2. Open[kind][i].gets \in kernel
      BY <2>1, <2>2, <3>1 DEF Taken
    <3>3. Open[kind][i].ignores \in {"done", "all"}
      BY <2>1, <3>2, OpenSteps
    <3> QED
      BY <3>2, <3>3 DEF Ignored
  <2>3. ASSUME kind = "gpio", NEW h \in Handles, IsOpen(h)
        PROVE  "export" \in kernel
    <3>1. Len(Open[kind]) \in Nat /\ Len(Open[kind]) > 0
      BY <2>3 DEF Open, hal_gpio_open, gpio_export, gpio_set_direction
    <3>2. handle[h].at > 1
      BY <2>3, <3>1 DEF IsOpen
    <3> QED
      BY <1>1, <2>3, <3>2 DEF DeviceInvariant, OpenProgress
  <2> QED
    BY <2>2, <2>3 DEF DeviceStaysUsable
<1>2. DeviceInvariant => DeviceStaysUsable
  BY <1>1
<1> QED
  BY <1>2, DeviceInvariance, PTL

\* No failing path of hal_watchdog_open or hal_watchdog_close leaves the
\* watchdog armed with nobody to feed it, unless its driver refuses 'V'.
THEOREM WatchdogStaysHeld == Spec => []WatchdogNotOrphaned
<1>1. DeviceInvariant => WatchdogNotOrphaned
  BY DEF DeviceInvariant, WatchdogHeld, WatchdogNotOrphaned
<1> QED
  BY <1>1, DeviceInvariance, PTL

\* The frames a PCM transfer moves lie one after the other in the caller's
\* buffer, however often it is cut short and recovers from an xrun.
THEOREM FramesFollowEachOther == Spec => []FramesInPlace
<1>1. ASSUME DeviceInvariant
      PROVE  FramesInPlace
  <2>1. kind = "i2s" => FramesInPlace
    BY <1>1 DEF DeviceInvariant, PcmStages
  <2>2. ASSUME NEW t \in Threads, th[t].call \in {hal_i2s_write, hal_i2s_read}
        PROVE  kind = "i2s"
    <3>1. kind \in DOMAIN Open /\ th[t].call \in Calls[kind]
      BY <1>1, <2>2, I2sDistinct DEF DeviceInvariant, DeviceTypes, CallsInProgress
    <3> QED
      BY <2>2, <3>1, CallKinds
  <2> QED
    BY <2>1, <2>2 DEF FramesInPlace
<1>2. DeviceInvariant => FramesInPlace
  BY <1>1
<1> QED
  BY <1>2, DeviceInvariance, PTL

\* A call that no other call, open or close interferes with does what it is
\* for: a GPIO read gives the level, a toggle inverts it, register calls act
\* on their own register, a duty is the percentage asked for, a SPI transfer
\* runs at its handle's speed.
THEOREM CallsDoTheirWork == Spec => []UndisturbedCallsAreRight
<1>1. ASSUME DeviceInvariant, NEW t \in Threads
      PROVE  /\ Done(t, hal_gpio_read) => th[t].val = dev.level
             /\ Done(t, hal_gpio_write) => dev.level = th[t].val
             /\ Done(t, hal_gpio_toggle) => dev.level = 1 - th[t].seen
             /\ Done(t, hal_i2c_read_reg) => th[t].val = dev.reg[th[t].arg]
             /\ Done(t, hal_i2c_write_reg) => dev.reg[th[t].arg] = th[t].val
             /\ (Done(t, hal_pwm_set_duty_cycle) /\ handle[user[t]].period = dev.period) =>
                   100 * dev.duty = th[t].arg * dev.period
             /\ (th[t].call = hal_spi_transfer /\ th[t].todo = <<>>) => th[t].val = user[t]
  <2> USE <1>1 DEF DeviceInvariant
  <2>1. Len(<<>>) = 0
    OBVIOUS
  <2>2. th[t].todo = <<>> => Left(t) = 0
    BY <2>1, Zenon DEF Left
  <2>3. th[t].call # <<>> => kind \in DOMAIN Open /\ th[t].call \in Calls[kind]
    BY DEF DeviceTypes, CallsInProgress
  <2>4. /\ th[t].call \in {hal_gpio_read, hal_gpio_write, hal_gpio_toggle} => GpioStage(t)
        /\ th[t].call \in {hal_i2c_read_reg, hal_i2c_write_reg} => I2cStage(t)
        /\ th[t].call = hal_pwm_set_duty_cycle => PwmStage(t)
        /\ th[t].call = hal_spi_transfer => SpiStage(t)
    <3>1. CASE th[t].call = <<>>
      BY <3>1, IdleThread, NobodyCalls, GpioDistinct
    <3>2. CASE th[t].call # <<>>
      BY <2>3, <3>2, CallKinds DEF GpioStages, I2cStages, PwmStages, SpiStages
    <3> QED
      BY <3>1, <3>2
  <2>5. /\ Done(t, hal_gpio_read) => th[t].val = dev.level
        /\ Done(t, hal_gpio_write) => dev.level = th[t].val
        /\ Done(t, hal_gpio_toggle) => dev.level = 1 - th[t].seen
    BY <2>2, <2>4 DEF Done, GpioStage
  <2>6. /\ Done(t, hal_i2c_read_reg) => th[t].val = dev.reg[th[t].arg]
        /\ Done(t, hal_i2c_write_reg) => dev.reg[th[t].arg] = th[t].val
    BY <2>2, <2>4 DEF Done, I2cStage
  <2>7. ASSUME Done(t, hal_pwm_set_duty_cycle), handle[user[t]].period = dev.period
        PROVE  100 * dev.duty = th[t].arg * dev.period
    <3>1. dev.duty = Duty(user[t], th[t].arg) /\ th[t].arg \in Percents
      BY <2>2, <2>4, <2>7 DEF Done, PwmStage
    <3>2. handle[user[t]].period \in Periods
      BY DEF DeviceTypes, HandleRecords
    <3> QED
      BY <2>7, <3>1, <3>2, DutyFits DEF Duty
  <2>8. (th[t].call = hal_spi_transfer /\ th[t].todo = <<>>) => th[t].val = user[t]
    BY <2>2, <2>4 DEF SpiStage
  <2> QED
    BY <2>5, <2>6, <2>7, <2>8
<1>2. DeviceInvariant => UndisturbedCallsAreRight
  BY <1>1 DEF UndisturbedCallsAreRight
<1> QED
  BY <1>2, DeviceInvariance, PTL

=============================================================================
