--------------------------- MODULE HalUartProofs ----------------------------
(***************************************************************************)
(* Proofs about the UART handle for any number of threads, any calls they  *)
(* make, any rates and any sizes of buffers and queues: type correctness,  *)
(* that a write reports the prefix it sent, that h->cfg is what the line   *)
(* runs with, that close undoes open, and that calls find their handle     *)
(* when callers close it only after the other calls have returned.         *)
(***************************************************************************)
EXTENDS HalUart, SequenceTheorems, TLAPS

-----------------------------------------------------------------------------
(* The inductive invariant.                                                *)

\* Only a write() that is going on has bytes that written does not count yet.
WriteUnderWay == \A t \in Threads : w[t] = 0 \/ (pc[t] = "io" /\ req[t].op = "write")

\* TypeOK, and that the per-thread counts are functions on the threads.
UartTypes ==
  /\ TypeOK
  /\ n \in [Threads -> Nat] /\ w \in [Threads -> Nat] /\ out \in [Threads -> Nat]
  /\ WriteUnderWay

\* Each program point belongs to the calls that have it.
CallPoints ==
  \A t \in Threads :
    /\ pc[t] = "poll" => req[t].op \in {"read", "write"}
    /\ pc[t] = "io" => req[t].op \in {"read", "write", "flush"}
    /\ pc[t] \in {"set", "store"} => req[t].op = "baud"
    /\ pc[t] \in {"close", "free"} => req[t].op = "close"

\* A write has handed over its first n bytes and what the write() going on has
\* taken, and reports n when it is done.
WriteProgress ==
  \A t \in Threads :
    /\ pc[t] = "lock" => n[t] = 0
    /\ pc[t] # "idle" /\ req[t].op = "write" => sent[t] = [i \in 1..(n[t] + w[t]) |-> i]
    /\ pc[t] = "done" /\ req[t].op = "write" =>
         /\ out[t] = n[t]
         /\ st[t] = "HAL_OK" /\ ~req[t].finite => out[t] = req[t].len

\* h->mu is held over steps only by hal_uart_set_baudrate, on an open handle.
LockDiscipline ==
  /\ \A t \in Threads : pc[t] \in {"set", "store"} <=> mu = t
  /\ mu # None => hfd

\* What hal_uart_open has done by each stage, and hal_uart_close by each of its
\* program points.
HandleStages ==
  /\ opening # "none" => fdopen /\ tio = before /\ \A t \in Threads : pc[t] = "idle"
  /\ opening = "alloc" => ~alive
  /\ opening = "config" => alive /\ hfd
  /\ hfd => alive /\ fdopen
  /\ opening = "none" /\ ~alive => ~fdopen
  /\ \A t \in Threads : pc[t] \in {"close", "free"} => ~hfd
  /\ \A t \in Threads : pc[t] = "free" => ~fdopen

\* The settings kept for close are those found by open, and the line has the
\* rate of h->cfg but between the two assignments of hal_uart_set_baudrate.
LineSettings ==
  /\ opening = "none" /\ alive => saved = before
  /\ opening = "none" /\ ~hfd => (restored => tio = before)
  /\ opening = "none" /\ hfd =>
       \/ tio = Applied(cfg) /\ \A t \in Threads : pc[t] # "store"
       \/ \E t \in Threads : pc[t] = "store" /\ tio = Applied(req[t].rate)

UartInvariant ==
  /\ UartTypes
  /\ CallPoints
  /\ WriteProgress
  /\ LockDiscipline
  /\ HandleStages
  /\ LineSettings

\* What callers that respect Quiesced add: nothing else goes on during a close,
\* and a handle is without descriptor only while it is being closed.
CloseAlone ==
  /\ \A t, u \in Threads :
       pc[t] # "idle" /\ req[t].op = "close" /\ u # t => pc[u] = "idle"
  /\ opening = "none" /\ alive /\ ~hfd => \E t \in Threads : pc[t] \in {"close", "free"}
  /\ HandleOutlivesCalls /\ DescriptorOutlivesCalls

-----------------------------------------------------------------------------
(* Requests, and the steps that leave handle and line settings alone.      *)

Req == (UNION {Requests(op) : op \in OpNames}) \union {IdleReq}

\* What the calls' arguments can be.
LEMMA RequestFacts ==
  /\ \A r \in Req : /\ r.len \in 0..MaxLen
                    /\ r.rate \in Rates \union {0} /\ r.rate \in Nat
  /\ \A op \in OpNames : \A r \in Requests(op) : r \in Req /\ r.op = op
<1>1. ASSUME NEW op \in OpNames, NEW r \in Requests(op)
      PROVE  /\ r.op = op /\ r.len \in 0..MaxLen
             /\ r.rate \in Rates \union {0} /\ r.rate \in Nat
  <2>1. CASE op \in {"read", "write"}
    BY <2>1, UartAssumption DEF Requests
  <2>2. CASE op = "baud"
    <3>1. r \in {[op |-> op, len |-> 0, finite |-> TRUE, rate |-> x] : x \in Rates}
      BY <2>2 DEF Requests
    <3> QED BY <3>1, UartAssumption
  <2>3. CASE op \in {"flush", "close"}
    <3>1. r \in {[op |-> op, len |-> 0, finite |-> TRUE, rate |-> 0]}
      BY <2>3 DEF Requests
    <3> QED BY <3>1, UartAssumption
  <2> QED BY <2>1, <2>2, <2>3 DEF OpNames
<1>2. /\ IdleReq.len \in 0..MaxLen
      /\ IdleReq.rate \in Rates \union {0} /\ IdleReq.rate \in Nat
  BY UartAssumption DEF IdleReq
<1>3. ASSUME NEW r \in Req
      PROVE  /\ r.len \in 0..MaxLen
             /\ r.rate \in Rates \union {0} /\ r.rate \in Nat
  <2>1. r = IdleReq \/ \E op \in OpNames : r \in Requests(op)
    BY DEF Req
  <2> QED BY <2>1, <1>1, <1>2
<1>4. \A op \in OpNames : \A r \in Requests(op) : r \in Req
  BY DEF Req
<1> QED BY <1>1, <1>3, <1>4

\* The steps of read, write and flush behind their argument check.
Io(t) ==
  \/ CopyFd(t)
  \/ PollReady(t) \/ PollWaits(t) \/ PollInterrupted(t) \/ PollTimeout(t) \/ PollError(t)
  \/ TtyRead(t) \/ TtyReadEnd(t) \/ TtyWrite(t) \/ TtyWriteCut(t) \/ tcflush(t) \/ IoError(t)

\* Such a step moves one thread on and leaves the handle, h->mu and the
\* settings of the line as they are.
LEMMA IoFrame ==
  ASSUME NEW t \in Threads, Io(t)
  PROVE  /\ UNCHANGED <<opening, handle, mu, fdopen, tio, req, before, restored>>
         /\ pc[t] \in {"lock", "poll", "io"}
         /\ pc[t] = "lock" => req[t].op \in {"read", "write", "flush"} /\ alive /\ mu = None
         /\ \/ pc' = pc
            \/ \E l \in {"poll", "io", "done"} : pc' = [pc EXCEPT ![t] = l]
<1> USE DEF handle, line, Go, Finish, PollEnds, WriteReturns
<1>1. CASE CopyFd(t)
  BY <1>1 DEF CopyFd
<1>2. CASE PollReady(t) \/ PollWaits(t) \/ PollInterrupted(t) \/ PollTimeout(t)
  BY <1>2 DEF PollReady, PollWaits, PollInterrupted, PollTimeout
<1>3. CASE PollError(t)
  BY <1>3 DEF PollError
<1>4. CASE TtyRead(t)
  BY <1>4 DEF TtyRead
<1>5. CASE TtyReadEnd(t) \/ tcflush(t) \/ IoError(t)
  BY <1>5 DEF TtyReadEnd, tcflush, IoError
<1>6. CASE TtyWrite(t)
  BY <1>6 DEF TtyWrite
<1>7. CASE TtyWriteCut(t)
  BY <1>7 DEF TtyWriteCut
<1> QED BY <1>1, <1>2, <1>3, <1>4, <1>5, <1>6, <1>7 DEF Io

\* Next, with the steps of a thread sorted by what they may disturb.
LEMMA NextCases ==
  ASSUME Next
  PROVE  \/ Open
         \/ \E t \in Threads :
              \/ \E op \in OpNames : \E r \in Requests(op) : Call(t, r)
              \/ Return(t)
              \/ Io(t)
              \/ BaudLock(t) \/ BaudSet(t) \/ BaudStore(t) \/ BaudFail(t)
              \/ CloseRestore(t) \/ CloseFd(t) \/ CloseFree(t)
         \/ Transmit \/ Receive
<1>1. \A t \in Threads : Ops[t] \subseteq OpNames
  BY UartAssumption
<1> QED BY <1>1 DEF Next, Proceed, Fault, Io

-----------------------------------------------------------------------------
(* Types.                                                                  *)

\* The length of a request is a natural number.
LEMMA RequestLength == \A r \in Req : r.len \in Nat /\ r.len <= MaxLen
<1>1. MaxLen \in Nat /\ \A r \in Req : r.len \in 0..MaxLen
  BY RequestFacts, UartAssumption
<1> QED BY <1>1

\* TypeOK in two parts: the handle and the line, and the threads.
SharedTypes ==
  /\ opening \in {"none", "alloc", "config"}
  /\ alive \in BOOLEAN /\ hfd \in BOOLEAN /\ fdopen \in BOOLEAN /\ restored \in BOOLEAN
  /\ cfg \in Rates \union {0}
  /\ saved \in Settings /\ tio \in Settings /\ before \in Settings
  /\ mu \in Threads \union {None}
  /\ txq \in 0..TxCap /\ rxq \in 0..RxCap

ThreadTypes ==
  /\ pc \in [Threads -> Labels]
  /\ req \in [Threads -> Req]
  /\ st \in [Threads -> Status]
  /\ n \in [Threads -> Nat] /\ w \in [Threads -> Nat] /\ out \in [Threads -> Nat]
  /\ waited \in [Threads -> BOOLEAN]
  /\ \A t \in Threads : n[t] + w[t] <= req[t].len /\ out[t] <= req[t].len
  /\ WriteUnderWay
  /\ sent \in [Threads -> Seq(1..MaxLen)]

\* UartTypes says no more and no less than its two parts.
LEMMA TypeParts == UartTypes <=> SharedTypes /\ ThreadTypes
<1>1. ASSUME UartTypes PROVE SharedTypes /\ ThreadTypes
  <2>1. SharedTypes
    BY <1>1 DEF UartTypes, TypeOK, SharedTypes
  <2>2. \A t \in Threads : req[t] \in Req
    BY <1>1 DEF UartTypes, TypeOK, Req
  <2>3. ThreadTypes
    BY <1>1, <2>2 DEF UartTypes, TypeOK, ThreadTypes, Req
  <2> QED BY <2>1, <2>3
<1>2. ASSUME SharedTypes, ThreadTypes PROVE UartTypes
  <2>1. \A t \in Threads : req[t] \in Req /\ req[t].len \in Nat
    BY <1>2, RequestLength DEF ThreadTypes
  <2>2. ASSUME NEW t \in Threads PROVE n[t] + w[t] \in 0..req[t].len /\ out[t] \in 0..req[t].len
    <3>1. /\ n[t] \in Nat /\ w[t] \in Nat /\ out[t] \in Nat /\ req[t].len \in Nat
          /\ n[t] + w[t] <= req[t].len /\ out[t] <= req[t].len
      BY <1>2, <2>1 DEF ThreadTypes
    <3> QED BY <3>1
  <2> QED BY <1>2, <2>2 DEF UartTypes, TypeOK, SharedTypes, ThreadTypes, Req
<1> QED BY <1>1, <1>2

\* What a write hands to the tty continues what it sent before.
LEMMA SentGrows ==
  ASSUME NEW len \in 0..MaxLen, NEW m \in Nat, NEW k \in Nat, m + k <= len,
         NEW s \in Seq(1..MaxLen)
  PROVE  /\ s \o [i \in 1..k |-> m + i] \in Seq(1..MaxLen)
         /\ s = [i \in 1..m |-> i] =>
              s \o [i \in 1..k |-> m + i] = [i \in 1..(m + k) |-> i]
<1> DEFINE f == [i \in 1..k |-> m + i]
<1>0. len \in Nat /\ MaxLen \in Nat /\ len <= MaxLen
  BY UartAssumption
<1>1. f \in Seq(1..MaxLen) /\ Len(f) = k /\ DOMAIN f = 1..k
  <2>1. f \in [1..k -> 1..MaxLen]
    BY <1>0
  <2> QED BY <2>1
<1>2. s \o f \in Seq(1..MaxLen)
  BY <1>1, ConcatProperties
<1>3. ASSUME s = [i \in 1..m |-> i]
      PROVE  s \o f = [i \in 1..(m + k) |-> i]
  <2>1. Len(s) = m /\ DOMAIN s = 1..m
    BY <1>3
  <2>2. Len(s \o f) = m + k
    BY <1>1, <2>1, ConcatProperties
  <2>3. \A i \in 1..(m + k) : (s \o f)[i] = i
    <3> SUFFICES ASSUME NEW i \in 1..(m + k) PROVE (s \o f)[i] = i
      OBVIOUS
    <3>1. (s \o f)[i] = IF i <= Len(s) THEN s[i] ELSE f[i - Len(s)]
      BY <1>1, <2>1, ConcatProperties
    <3>2. CASE i <= m
      BY <3>1, <3>2, <2>1, <1>3
    <3>3. CASE i > m
      <4>1. i - m \in 1..k /\ m + (i - m) = i
        BY <3>3
      <4>2. f[i - m] = i
        BY <4>1
      <4> QED BY <3>1, <3>3, <4>2, <2>1
    <3>4. i <= m \/ i > m
      OBVIOUS
    <3> HIDE DEF f
    <3> QED BY <3>2, <3>3, <3>4
  <2> DEFINE q == s \o f
  <2>4. q \in Seq(1..MaxLen) /\ Len(q) = m + k /\ \A i \in 1..(m + k) : q[i] = i
    BY <1>2, <2>2, <2>3
  <2> HIDE DEF f, q
  <2>5. q = [i \in 1..Len(q) |-> q[i]]
    BY <2>4, LenProperties
  <2>6. q = [i \in 1..(m + k) |-> i]
    BY <2>4, <2>5
  <2> QED BY <2>6 DEF q, f
<1> QED BY <1>2, <1>3

\* The steps keep the types of the handle and the line.
LEMMA SharedTypeStep ==
  ASSUME SharedTypes, ThreadTypes, [Next]_vars
  PROVE  SharedTypes'
<1>0. \A t \in Threads : req[t].rate \in Rates \union {0} /\ req[t].rate \in Nat
  BY RequestFacts DEF ThreadTypes
<1>1. \A r \in Nat : Applied(r) \in Settings
  BY DEF Applied, Settings
<1> USE UartAssumption DEF SharedTypes, handle, line, thread, Finish, Go
<1>2. CASE OpenDevice \/ OpenAlloc \/ OpenFail
  BY <1>2 DEF OpenDevice, OpenAlloc, OpenFail
<1>3. ASSUME NEW r \in Rates, OpenConfig(r) PROVE SharedTypes'
  BY <1>1, <1>3 DEF OpenConfig
<1>4. ASSUME NEW t \in Threads, NEW op \in OpNames, NEW r \in Requests(op), Call(t, r)
      PROVE  SharedTypes'
  BY <1>4 DEF Call
<1>5. ASSUME NEW t \in Threads, Return(t) PROVE SharedTypes'
  BY <1>5 DEF Return
<1>6. ASSUME NEW t \in Threads, Io(t) PROVE SharedTypes'
  <2>1. UNCHANGED <<opening, handle, mu, fdopen, tio, before, restored>>
    BY <1>6, IoFrame
  <2>2. txq' \in 0..TxCap /\ rxq' \in 0..RxCap
    <3>1. CASE UNCHANGED <<txq, rxq>>
      BY <3>1
    <3>2. CASE TtyRead(t)
      BY <3>2 DEF TtyRead
    <3>3. CASE TtyWrite(t)
      BY <3>3 DEF TtyWrite
    <3>4. CASE tcflush(t)
      BY <3>4 DEF tcflush
    <3> QED BY <1>6, <3>1, <3>2, <3>3, <3>4 DEF Io, CopyFd, PollReady, PollWaits, PollInterrupted,
                                            PollTimeout, PollError, TtyReadEnd, TtyWriteCut, IoError
  <2> QED BY <2>1, <2>2
<1>7. ASSUME NEW t \in Threads, BaudLock(t) PROVE SharedTypes'
  BY <1>7 DEF BaudLock, BaudHolder
<1>8. ASSUME NEW t \in Threads, BaudSet(t) PROVE SharedTypes'
  BY <1>0, <1>1, <1>8 DEF BaudSet, Resaved
<1>9. ASSUME NEW t \in Threads, BaudStore(t) \/ BaudFail(t) PROVE SharedTypes'
  BY <1>0, <1>9 DEF BaudStore, BaudFail
<1>10. ASSUME NEW t \in Threads, CloseRestore(t) \/ CloseFd(t) \/ CloseFree(t)
       PROVE  SharedTypes'
  <2>1. CASE CloseRestore(t)
    <3>1. tio' \in Settings
      BY <2>1 DEF CloseRestore
    <3>2. restored' \in BOOLEAN /\ hfd' \in BOOLEAN
      BY <2>1 DEF CloseRestore
    <3>3. UNCHANGED <<opening, alive, cfg, saved, mu, fdopen, txq, rxq, before>>
      BY <2>1 DEF CloseRestore
    <3> QED BY <3>1, <3>2, <3>3
  <2>2. CASE CloseFd(t)
    <3>1. txq' \in 0..TxCap /\ rxq' \in 0..RxCap
      BY <2>2 DEF CloseFd
    <3>2. fdopen' \in BOOLEAN
      BY <2>2 DEF CloseFd
    <3>3. UNCHANGED <<opening, alive, hfd, cfg, saved, mu, tio, before, restored>>
      BY <2>2 DEF CloseFd
    <3> QED BY <3>1, <3>2, <3>3
  <2>3. CASE CloseFree(t)
    BY <2>3 DEF CloseFree
  <2> QED BY <1>10, <2>1, <2>2, <2>3
<1>11. CASE Transmit \/ Receive
  BY <1>11 DEF Transmit, Receive
<1>12. CASE UNCHANGED vars
  BY <1>12 DEF vars
<1> QED BY <1>2, <1>3, <1>4, <1>5, <1>6, <1>7, <1>8, <1>9, <1>10, <1>11, <1>12, NextCases DEF Open

\* A step that finishes a call, or moves it on, and reports what it may.
LEMMA ThreadTypesKept ==
  ASSUME ThreadTypes, NEW t \in Threads, NEW l \in Labels,
         pc' = [pc EXCEPT ![t] = l], req' = req, n' = n, w' = w, sent' = sent, w[t] = 0,
         waited' \in [Threads -> BOOLEAN],
         \/ UNCHANGED <<st, out>>
         \/ \E s \in Status : \E b \in {0, n[t]} :
              st' = [st EXCEPT ![t] = s] /\ out' = [out EXCEPT ![t] = b]
  PROVE  ThreadTypes'
<1>0. \A u \in Threads : req[u].len \in Nat
  BY RequestLength DEF ThreadTypes
<1>3. WriteUnderWay'
  BY DEF ThreadTypes, WriteUnderWay
<1>1. CASE UNCHANGED <<st, out>>
  BY <1>1, <1>3 DEF ThreadTypes
<1>2. ASSUME NEW s \in Status, NEW b \in {0, n[t]},
             st' = [st EXCEPT ![t] = s], out' = [out EXCEPT ![t] = b]
      PROVE  ThreadTypes'
  <2>1. b \in Nat /\ b <= req[t].len
    BY <1>0 DEF ThreadTypes
  <2> QED BY <1>2, <1>3, <2>1 DEF ThreadTypes
<1> QED BY <1>1, <1>2

\* A step of write() takes k more bytes and may return, with all it has taken.
LEMMA WriteSteps ==
  ASSUME ThreadTypes, NEW t \in Threads, TtyWrite(t) \/ TtyWriteCut(t)
  PROVE  \E k \in Nat :
          /\ n[t] + w[t] + k <= req[t].len
          /\ \/ sent' = [sent EXCEPT ![t] = @ \o [i \in 1..k |-> n[t] + w[t] + i]]
             \/ (k = 0 /\ sent' = sent)
          /\ \/ WriteReturns(t, w[t] + k)
             \/ (w' = [w EXCEPT ![t] = @ + k] /\ UNCHANGED <<pc, n, out, st>>)
          /\ req' = req /\ waited' = waited
          /\ pc[t] = "io" /\ req[t].op = "write"
<1>1. /\ n[t] \in Nat /\ w[t] \in Nat /\ req[t].len \in Nat /\ n[t] + w[t] <= req[t].len
  BY RequestLength DEF ThreadTypes
<1>2. CASE TtyWrite(t)
  <2>1. PICK k \in 1..TxCap :
          /\ k <= Rest(t) - w[t]
          /\ sent' = [sent EXCEPT ![t] = @ \o [i \in 1..k |-> From(t) + w[t] + i]]
          /\ IF w[t] + k = Rest(t)
             THEN WriteReturns(t, w[t] + k)
             ELSE w' = [w EXCEPT ![t] = @ + k] /\ UNCHANGED <<pc, n, out, st>>
    BY <1>2 DEF TtyWrite
  <2>2. k \in Nat /\ n[t] + w[t] + k <= req[t].len
    BY <1>1, <2>1, UartAssumption DEF Rest
  <2>3. req' = req /\ waited' = waited /\ pc[t] = "io" /\ req[t].op = "write"
    BY <1>2 DEF TtyWrite
  <2>4. sent' = [sent EXCEPT ![t] = @ \o [i \in 1..k |-> n[t] + w[t] + i]]
    BY <2>1 DEF From
  <2>5. \/ WriteReturns(t, w[t] + k)
        \/ (w' = [w EXCEPT ![t] = @ + k] /\ UNCHANGED <<pc, n, out, st>>)
    BY <2>1
  <2>6. k \in Nat
    BY <2>2
  <2> QED BY <2>2, <2>3, <2>4, <2>5, <2>6, Zenon
<1>3. CASE TtyWriteCut(t)
  <2>1. w[t] + 0 = w[t] /\ n[t] + w[t] + 0 <= req[t].len
    BY <1>1
  <2>2. WriteReturns(t, w[t] + 0) /\ sent' = sent
    BY <1>3, <2>1 DEF TtyWriteCut
  <2>3. req' = req /\ waited' = waited /\ pc[t] = "io" /\ req[t].op = "write"
    BY <1>3 DEF TtyWriteCut
  <2>4. 0 \in Nat
    OBVIOUS
  <2> QED BY <2>1, <2>2, <2>3, <2>4, Zenon
<1> QED BY <1>2, <1>3

\* The steps keep the types of the threads' state.
LEMMA ThreadTypeStep ==
  ASSUME SharedTypes, ThreadTypes, [Next]_vars
  PROVE  ThreadTypes'
<1>0. \A u \in Threads : req[u] \in Req /\ req[u].len \in Nat /\ req[u].len <= MaxLen
  BY RequestLength DEF ThreadTypes
<1>w. \A u \in Threads : pc[u] # "io" \/ req[u].op # "write" => w[u] = 0
  BY DEF ThreadTypes, WriteUnderWay
<1> USE DEF handle, line, thread, Finish, Go
<1>1. CASE Open \/ Transmit \/ Receive
  BY <1>1 DEF Open, OpenDevice, OpenAlloc, OpenFail, OpenConfig, Transmit, Receive, ThreadTypes,
              WriteUnderWay
<1>2. ASSUME NEW t \in Threads, NEW r \in Req,
             req' = [req EXCEPT ![t] = r],
             n' = [n EXCEPT ![t] = 0],
             sent' = [sent EXCEPT ![t] = <<>>],
             out' = [out EXCEPT ![t] = 0],
             w' = w, waited' = waited, w[t] = 0,
             \A u \in Threads : u # t => pc'[u] = pc[u],
             pc' \in [Threads -> Labels], st' \in [Threads -> Status]
      PROVE  ThreadTypes'
  <2>1. r \in Req /\ r.len \in Nat /\ <<>> \in Seq(1..MaxLen)
    BY RequestFacts, RequestLength
  <2>4. n' \in [Threads -> Nat] /\ w' \in [Threads -> Nat] /\ out' \in [Threads -> Nat]
    BY <1>2 DEF ThreadTypes
  <2>5. \A u \in Threads : n'[u] + w'[u] <= req'[u].len /\ out'[u] <= req'[u].len
    BY <2>1, <1>2 DEF ThreadTypes
  <2>6. req' \in [Threads -> Req] /\ sent' \in [Threads -> Seq(1..MaxLen)]
    BY <2>1, <1>2 DEF ThreadTypes
  <2>7. WriteUnderWay'
    BY <1>2 DEF ThreadTypes, WriteUnderWay
  <2>8. waited' \in [Threads -> BOOLEAN]
    BY <1>2 DEF ThreadTypes
  <2> QED BY <1>2, <2>4, <2>5, <2>6, <2>7, <2>8 DEF ThreadTypes
<1>3. ASSUME NEW t \in Threads, Return(t) PROVE ThreadTypes'
  <2>1. IdleReq \in Req
    BY DEF Req
  <2>2. /\ req' = [req EXCEPT ![t] = IdleReq]
        /\ n' = [n EXCEPT ![t] = 0]
        /\ out' = [out EXCEPT ![t] = 0]
        /\ sent' = [sent EXCEPT ![t] = <<>>]
        /\ w' = w /\ waited' = waited /\ w[t] = 0
    BY <1>3, <1>w DEF Return
  <2>3. /\ pc' \in [Threads -> Labels] /\ st' \in [Threads -> Status]
        /\ \A u \in Threads : u # t => pc'[u] = pc[u]
    BY <1>3 DEF Return, ThreadTypes, Labels, Status
  <2> QED BY <1>2, <2>1, <2>2, <2>3
<1>4. ASSUME NEW t \in Threads, NEW op \in OpNames, NEW r \in Requests(op), Call(t, r)
      PROVE  ThreadTypes'
  <2>1. r \in Req
    BY RequestFacts
  <2>2. /\ req' = [req EXCEPT ![t] = r]
        /\ n' = [n EXCEPT ![t] = 0]
        /\ sent' = [sent EXCEPT ![t] = <<>>]
        /\ out' = [out EXCEPT ![t] = 0]
        /\ w' = w /\ waited' = waited /\ w[t] = 0
    BY <1>4, <1>w DEF Call
  <2>3. \E l \in Labels : pc' = [pc EXCEPT ![t] = l]
    BY <1>4 DEF Call, Labels
  <2>4. st' = st \/ \E v \in Status : st' = [st EXCEPT ![t] = v]
    BY <1>4 DEF Call, Status
  <2>5. /\ pc' \in [Threads -> Labels] /\ st' \in [Threads -> Status]
        /\ \A u \in Threads : u # t => pc'[u] = pc[u]
    BY <2>3, <2>4 DEF ThreadTypes
  <2> QED BY <1>2, <2>1, <2>2, <2>5
<1>5. ASSUME NEW t \in Threads,
             \/ CopyFd(t) \/ PollReady(t) \/ PollTimeout(t)
             \/ TtyReadEnd(t) \/ tcflush(t) \/ IoError(t)
      PROVE  ThreadTypes'
  <2>1. w[t] = 0
    BY <1>5, <1>w DEF CopyFd, PollReady, PollTimeout, TtyReadEnd, tcflush, IoError
  <2>2. waited' \in [Threads -> BOOLEAN]
    BY <1>5 DEF CopyFd, PollReady, PollTimeout, PollEnds, TtyReadEnd, tcflush, IoError, ThreadTypes
  <2>3. CASE CopyFd(t)
    BY <2>1, <2>2, <2>3, ThreadTypesKept DEF CopyFd, Labels, Status
  <2>4. CASE PollReady(t) \/ PollTimeout(t)
    BY <2>1, <2>2, <2>4, ThreadTypesKept DEF PollReady, PollTimeout, Labels, Status
  <2>5. CASE TtyReadEnd(t) \/ tcflush(t) \/ IoError(t)
    BY <2>1, <2>2, <2>5, ThreadTypesKept DEF TtyReadEnd, tcflush, IoError, Labels, Status
  <2> QED BY <1>5, <2>3, <2>4, <2>5
<1>6. ASSUME NEW t \in Threads, PollWaits(t) \/ PollInterrupted(t) PROVE ThreadTypes'
  <2>1. waited' \in [Threads -> BOOLEAN]
    BY <1>6 DEF PollWaits, PollInterrupted, PollEnds, ThreadTypes
  <2>2. UNCHANGED <<pc, req, n, w, out, st, sent>>
    BY <1>6 DEF PollWaits, PollInterrupted
  <2> QED BY <2>1, <2>2 DEF ThreadTypes, WriteUnderWay
<1>7. ASSUME NEW t \in Threads, PollError(t) PROVE ThreadTypes'
  <2>1. PICK s \in {"HAL_ERR_IO", "errno"} : Finish(t, s, n[t])
    BY <1>7 DEF PollError
  <2>2. s \in Status /\ "done" \in Labels
    BY DEF Status, Labels
  <2>3. req' = req /\ n' = n /\ sent' = sent /\ w' = w /\ w[t] = 0
    BY <1>7, <1>w DEF PollError
  <2>4. waited' \in [Threads -> BOOLEAN]
    BY <1>7 DEF PollError, PollEnds, ThreadTypes
  <2> QED BY <2>1, <2>2, <2>3, <2>4, ThreadTypesKept
<1>8. ASSUME NEW t \in Threads, TtyRead(t) PROVE ThreadTypes'
  <2>1. PICK k \in 1..RxCap : /\ k <= req[t].len
                              /\ n' = [n EXCEPT ![t] = k]
                              /\ pc' = [pc EXCEPT ![t] = "done"]
                              /\ st' = [st EXCEPT ![t] = "HAL_OK"]
                              /\ out' = [out EXCEPT ![t] = k]
    BY <1>8 DEF TtyRead
  <2>2. req' = req /\ sent' = sent /\ w' = w /\ w[t] = 0 /\ waited' = waited /\ k \in Nat
    BY <1>8, <1>w, UartAssumption DEF TtyRead
  <2>3. WriteUnderWay'
    BY <2>1, <2>2 DEF ThreadTypes, WriteUnderWay
  <2> QED BY <2>1, <2>2, <2>3 DEF ThreadTypes, Labels, Status
<1>12. ASSUME NEW t \in Threads, TtyWrite(t) \/ TtyWriteCut(t) PROVE ThreadTypes'
  <2>1. PICK k \in Nat :
          /\ n[t] + w[t] + k <= req[t].len
          /\ \/ sent' = [sent EXCEPT ![t] = @ \o [i \in 1..k |-> n[t] + w[t] + i]]
             \/ (k = 0 /\ sent' = sent)
          /\ \/ WriteReturns(t, w[t] + k)
             \/ (w' = [w EXCEPT ![t] = @ + k] /\ UNCHANGED <<pc, n, out, st>>)
          /\ req' = req /\ waited' = waited
          /\ pc[t] = "io" /\ req[t].op = "write"
    BY <1>12, WriteSteps
  <2>2. /\ n[t] \in Nat /\ w[t] \in Nat /\ n[t] + w[t] \in Nat /\ sent[t] \in Seq(1..MaxLen)
        /\ req[t].len \in 0..MaxLen
    BY <1>0, UartAssumption DEF ThreadTypes
  <2>3. sent' \in [Threads -> Seq(1..MaxLen)]
    <3>1. sent[t] \o [i \in 1..k |-> n[t] + w[t] + i] \in Seq(1..MaxLen)
      <4> DEFINE m == n[t] + w[t]
      <4>1. m \in Nat /\ m + k <= req[t].len
        BY <2>1, <2>2
      <4> HIDE DEF m
      <4>2. sent[t] \o [i \in 1..k |-> m + i] \in Seq(1..MaxLen)
        BY <4>1, <2>1, <2>2, SentGrows
      <4> QED BY <4>2 DEF m
    <3> QED BY <2>1, <3>1 DEF ThreadTypes
  <2>4. CASE WriteReturns(t, w[t] + k)
    <3>1. n' \in [Threads -> Nat] /\ w' \in [Threads -> Nat] /\ w'[t] = 0
          /\ \A u \in Threads : n'[u] + w'[u] <= req'[u].len
      BY <2>1, <2>2, <2>4 DEF WriteReturns, ThreadTypes
    <3>2. out' \in [Threads -> Nat] /\ \A u \in Threads : out'[u] <= req'[u].len
      <4>1. \/ out' = [out EXCEPT ![t] = n[t] + (w[t] + k)]
            \/ out' = out
        BY <2>4 DEF WriteReturns
      <4>2. n[t] + (w[t] + k) \in Nat /\ n[t] + (w[t] + k) <= req[t].len
        BY <2>1, <2>2
      <4>3. /\ out \in [Threads -> Nat]
            /\ \A u \in Threads : out[u] <= req[u].len
        BY DEF ThreadTypes
      <4>4. req' = req
        BY <2>1
      <4> QED BY <4>1, <4>2, <4>3, <4>4
    <3>3. pc' \in [Threads -> Labels] /\ st' \in [Threads -> Status]
      BY <2>4 DEF WriteReturns, ThreadTypes, Labels, Status
    <3>4. WriteUnderWay'
      BY <2>1, <2>4, <3>1 DEF WriteReturns, ThreadTypes, WriteUnderWay
    <3> QED BY <2>1, <2>3, <3>1, <3>2, <3>3, <3>4 DEF ThreadTypes
  <2>5. CASE w' = [w EXCEPT ![t] = @ + k] /\ UNCHANGED <<pc, n, out, st>>
    <3>1. w' \in [Threads -> Nat] /\ \A u \in Threads : n'[u] + w'[u] <= req'[u].len
      BY <2>1, <2>2, <2>5, SMTT(30) DEF ThreadTypes
    <3>2. WriteUnderWay'
      BY <2>1, <2>5 DEF ThreadTypes, WriteUnderWay
    <3> QED BY <2>1, <2>3, <2>5, <3>1, <3>2 DEF ThreadTypes
  <2> QED BY <2>1, <2>4, <2>5
<1>9. ASSUME NEW t \in Threads,
             \/ BaudLock(t) \/ BaudSet(t) \/ BaudStore(t) \/ BaudFail(t)
             \/ CloseRestore(t) \/ CloseFd(t)
      PROVE  ThreadTypes'
  <2>1. w[t] = 0
    BY <1>9, <1>w DEF BaudLock, BaudSet, BaudStore, BaudFail, CloseRestore, CloseFd
  <2>2. waited' \in [Threads -> BOOLEAN]
    BY <1>9 DEF BaudLock, BaudSet, BaudStore, BaudFail, CloseRestore, CloseFd, ThreadTypes
  <2>3. CASE BaudLock(t)
    BY <2>1, <2>2, <2>3, ThreadTypesKept DEF BaudLock, Labels, Status
  <2>4. CASE BaudSet(t) \/ BaudStore(t) \/ BaudFail(t)
    BY <2>1, <2>2, <2>4, ThreadTypesKept DEF BaudSet, BaudStore, BaudFail, Labels, Status
  <2>5. CASE CloseRestore(t) \/ CloseFd(t)
    BY <2>1, <2>2, <2>5, ThreadTypesKept DEF CloseRestore, CloseFd, Labels, Status
  <2> QED BY <1>9, <2>3, <2>4, <2>5
<1>10. ASSUME NEW t \in Threads, CloseFree(t) PROVE ThreadTypes'
  <2>1. PICK s \in {"HAL_OK", "errno"} : Finish(t, s, 0)
    BY <1>10 DEF CloseFree
  <2>2. s \in Status /\ "done" \in Labels
    BY DEF Status, Labels
  <2>3. req' = req /\ n' = n /\ sent' = sent /\ w' = w /\ w[t] = 0
    BY <1>10, <1>w DEF CloseFree
  <2>4. waited' \in [Threads -> BOOLEAN]
    BY <1>10 DEF CloseFree, ThreadTypes
  <2> QED BY <2>1, <2>2, <2>3, <2>4, ThreadTypesKept
<1>11. CASE UNCHANGED vars
  BY <1>11 DEF vars, ThreadTypes, WriteUnderWay
<1> QED BY <1>1, <1>3, <1>4, <1>5, <1>6, <1>7, <1>8, <1>12, <1>9, <1>10, <1>11, NextCases DEF Io

-----------------------------------------------------------------------------
(* The calls.                                                              *)

\* The steps keep program points and calls together.
LEMMA CallPointsStep ==
  ASSUME ThreadTypes, CallPoints, [Next]_vars
  PROVE  CallPoints'
<1> USE DEF handle, line, thread, Finish, Go, ThreadTypes, CallPoints
<1>1. CASE Open \/ Transmit \/ Receive
  BY <1>1 DEF Open, OpenDevice, OpenAlloc, OpenFail, OpenConfig, Transmit, Receive
<1>2. ASSUME NEW t \in Threads, NEW op \in OpNames, NEW r \in Requests(op), Call(t, r)
      PROVE  CallPoints'
  <2>1. /\ req' = [req EXCEPT ![t] = r]
        /\ pc' = [pc EXCEPT ![t] = "done"] \/ pc' = [pc EXCEPT ![t] = "lock"]
    BY <1>2 DEF Call
  <2> QED BY <2>1
<1>3. ASSUME NEW t \in Threads, Return(t) PROVE CallPoints'
  BY <1>3 DEF Return
<1>4. ASSUME NEW t \in Threads, CopyFd(t) PROVE CallPoints'
  BY <1>4 DEF CopyFd
<1>5. ASSUME NEW t \in Threads, Io(t), ~CopyFd(t) PROVE CallPoints'
  <2>1. req' = req /\ (\/ pc' = pc
                       \/ pc' = [pc EXCEPT ![t] = "done"]
                       \/ pc[t] = "poll" /\ pc' = [pc EXCEPT ![t] = "io"]
                       \/ req[t].op = "write" /\ pc' = [pc EXCEPT ![t] = "poll"])
    BY <1>5 DEF Io, PollReady, PollWaits, PollInterrupted, PollTimeout, PollError, TtyRead,
                TtyReadEnd, TtyWrite, TtyWriteCut, WriteReturns, tcflush, IoError
  <2> QED BY <2>1
<1>6. ASSUME NEW t \in Threads,
             BaudLock(t) \/ BaudSet(t) \/ BaudStore(t) \/ BaudFail(t)
      PROVE  CallPoints'
  BY <1>6 DEF BaudLock, BaudSet, BaudStore, BaudFail
<1>7. ASSUME NEW t \in Threads, CloseRestore(t) \/ CloseFd(t) \/ CloseFree(t)
      PROVE  CallPoints'
  BY <1>7 DEF CloseRestore, CloseFd, CloseFree
<1>8. CASE UNCHANGED vars
  BY <1>8 DEF vars
<1> QED BY <1>1, <1>2, <1>3, <1>4, <1>5, <1>6, <1>7, <1>8, NextCases

\* WriteProgress for one thread.
WriteOf(t) ==
  /\ pc[t] = "lock" => n[t] = 0
  /\ pc[t] # "idle" /\ req[t].op = "write" => sent[t] = [i \in 1..(n[t] + w[t]) |-> i]
  /\ pc[t] = "done" /\ req[t].op = "write" =>
       /\ out[t] = n[t]
       /\ st[t] = "HAL_OK" /\ ~req[t].finite => out[t] = req[t].len

\* A thread whose state does not change keeps its progress.
LEMMA WriteOfOthers ==
  ASSUME NEW t \in Threads, WriteOf(t),
         pc'[t] = pc[t], req'[t] = req[t], n'[t] = n[t], w'[t] = w[t], out'[t] = out[t],
         st'[t] = st[t], sent'[t] = sent[t]
  PROVE  WriteOf(t)'
BY DEF WriteOf

\* The steps of a thread change nothing of another one.
LEMMA OtherThreads ==
  ASSUME ThreadTypes, Next, NEW u \in Threads
  PROVE  \/ /\ pc'[u] = pc[u] /\ req'[u] = req[u] /\ n'[u] = n[u] /\ w'[u] = w[u] /\ out'[u] = out[u]
            /\ st'[u] = st[u] /\ sent'[u] = sent[u]
         \/ \E op \in OpNames : \E r \in Requests(op) : Call(u, r)
         \/ Return(u)
         \/ Io(u)
         \/ BaudLock(u) \/ BaudSet(u) \/ BaudStore(u) \/ BaudFail(u)
         \/ CloseRestore(u) \/ CloseFd(u) \/ CloseFree(u)
<1> DEFINE Same == /\ pc'[u] = pc[u] /\ req'[u] = req[u] /\ n'[u] = n[u] /\ w'[u] = w[u] /\ out'[u] = out[u]
                   /\ st'[u] = st[u] /\ sent'[u] = sent[u]
<1> USE DEF handle, line, thread, Finish, Go, ThreadTypes
<1>1. CASE Open \/ Transmit \/ Receive
  BY <1>1 DEF Open, OpenDevice, OpenAlloc, OpenFail, OpenConfig, Transmit, Receive
<1>2. ASSUME NEW t \in Threads, t # u,
             \/ \E op \in OpNames : \E r \in Requests(op) : Call(t, r)
             \/ Return(t)
      PROVE  Same
  BY <1>2 DEF Call, Return
<1>3. ASSUME NEW t \in Threads, t # u, Io(t) PROVE Same
  BY <1>3, SMTT(30) DEF Io, CopyFd, PollReady, PollWaits, PollInterrupted, PollTimeout, PollError, TtyRead,
              TtyReadEnd, TtyWrite, TtyWriteCut, WriteReturns, tcflush, IoError
<1>4. ASSUME NEW t \in Threads, t # u,
             \/ BaudLock(t) \/ BaudSet(t) \/ BaudStore(t) \/ BaudFail(t)
             \/ CloseRestore(t) \/ CloseFd(t) \/ CloseFree(t)
      PROVE  Same
  BY <1>4 DEF BaudLock, BaudSet, BaudStore, BaudFail, CloseRestore, CloseFd, CloseFree
<1> QED BY <1>1, <1>2, <1>3, <1>4, NextCases

\* However a write is cut up, what was sent is the first n bytes of the buffer.
LEMMA WriteProgressStep ==
  ASSUME ThreadTypes, CallPoints, WriteProgress, [Next]_vars
  PROVE  WriteProgress'
<1> SUFFICES ASSUME NEW t \in Threads PROVE WriteOf(t)'
  BY DEF WriteProgress, WriteOf
<1>0. WriteOf(t)
  BY DEF WriteProgress, WriteOf
<1>t. /\ pc[t] \in Labels /\ n[t] \in Nat /\ out[t] \in Nat /\ req[t] \in Req
      /\ sent[t] \in Seq(1..MaxLen) /\ req[t].len \in Nat /\ req[t].len <= MaxLen
      /\ w[t] \in Nat /\ n[t] + w[t] <= req[t].len
      /\ pc[t] # "io" \/ req[t].op # "write" => w[t] = 0
  BY RequestLength DEF ThreadTypes, WriteUnderWay
<1> USE DEF handle, line, thread, Finish, Go
<1>1. CASE /\ pc'[t] = pc[t] /\ req'[t] = req[t] /\ n'[t] = n[t] /\ w'[t] = w[t] /\ out'[t] = out[t]
           /\ st'[t] = st[t] /\ sent'[t] = sent[t]
  BY <1>0, <1>1, WriteOfOthers
<1>2. ASSUME NEW op \in OpNames, NEW r \in Requests(op), Call(t, r) PROVE WriteOf(t)'
  <2>1. /\ req'[t] = r /\ n'[t] = 0 /\ w'[t] = 0 /\ sent'[t] = <<>> /\ out'[t] = 0
        /\ pc'[t] = "lock" \/ (pc'[t] = "done" /\ Immediate(r))
    BY <1>2, <1>t DEF Call, ThreadTypes
  <2>2. Immediate(r) /\ r.op = "write" => r.len = 0
    BY DEF Immediate
  <2>3. <<>> = [i \in 1..0 |-> i]
    OBVIOUS
  <2> QED BY <2>1, <2>2, <2>3 DEF WriteOf
<1>3. CASE Return(t)
  <2>1. pc'[t] = "idle"
    BY <1>3 DEF Return, ThreadTypes
  <2> QED BY <2>1 DEF WriteOf
<1>4. CASE TtyWrite(t) \/ TtyWriteCut(t)
  <2>0. PICK k \in Nat :
          /\ n[t] + w[t] + k <= req[t].len
          /\ \/ sent' = [sent EXCEPT ![t] = @ \o [i \in 1..k |-> n[t] + w[t] + i]]
             \/ (k = 0 /\ sent' = sent)
          /\ \/ WriteReturns(t, w[t] + k)
             \/ (w' = [w EXCEPT ![t] = @ + k] /\ UNCHANGED <<pc, n, out, st>>)
          /\ req' = req /\ waited' = waited
          /\ pc[t] = "io" /\ req[t].op = "write"
    BY <1>4, WriteSteps
  <2> DEFINE m == n[t] + w[t]
  <2>1. m \in Nat /\ m + k <= req[t].len /\ req[t].len \in 0..MaxLen /\ m + 0 = m
    BY <1>t, <2>0, UartAssumption
  <2>2. sent[t] = [i \in 1..m |-> i]
    BY <1>0, <2>0 DEF WriteOf
  <2>3. sent'[t] = [i \in 1..(m + k) |-> i]
    <3>1. CASE k = 0 /\ sent' = sent
      <4>1. m + k = m
        BY <3>1, <2>1
      <4> QED BY <2>2, <3>1, <4>1
    <3>2. CASE sent' = [sent EXCEPT ![t] = @ \o [i \in 1..k |-> n[t] + w[t] + i]]
      <4>1. sent'[t] = sent[t] \o [i \in 1..k |-> m + i]
        BY <3>2 DEF ThreadTypes
      <4> HIDE DEF m
      <4>2. sent[t] \o [i \in 1..k |-> m + i] = [i \in 1..(m + k) |-> i]
        BY <1>t, <2>1, <2>2, SentGrows
      <4> QED BY <4>1, <4>2
    <3> QED BY <2>0, <3>1, <3>2
  <2>4. CASE WriteReturns(t, w[t] + k)
    <3>1. n'[t] = m + k /\ w'[t] = 0 /\ n'[t] + w'[t] = m + k
      BY <1>t, <2>0, <2>4 DEF WriteReturns, ThreadTypes
    <3>2. \/ pc'[t] = "poll"
          \/ /\ pc'[t] = "done" /\ out'[t] = m + k
             /\ m + k >= req[t].len \/ req[t].finite
      BY <1>t, <2>0, <2>4 DEF WriteReturns, ThreadTypes
    <3>3. m + k >= req[t].len => m + k = req[t].len
      BY <2>1, <1>t, SMTT(30)
    <3>4. sent'[t] = [i \in 1..(n'[t] + w'[t]) |-> i]
      BY <2>3, <3>1
    <3> HIDE DEF m
    <3> QED BY <2>0, <3>1, <3>2, <3>3, <3>4 DEF WriteOf
  <2>5. CASE w' = [w EXCEPT ![t] = @ + k] /\ UNCHANGED <<pc, n, out, st>>
    <3>1. n'[t] + w'[t] = m + k /\ pc'[t] = "io"
      BY <1>t, <2>0, <2>5 DEF ThreadTypes
    <3>2. sent'[t] = [i \in 1..(n'[t] + w'[t]) |-> i]
      BY <2>3, <3>1
    <3> QED BY <3>1, <3>2 DEF WriteOf
  <2> QED BY <2>0, <2>4, <2>5
<1>5. CASE TtyRead(t) \/ TtyReadEnd(t) \/ tcflush(t)
  <2>1. req' = req /\ req[t].op # "write" /\ pc'[t] = "done"
    BY <1>5 DEF TtyRead, TtyReadEnd, tcflush, ThreadTypes
  <2> QED BY <2>1 DEF WriteOf
<1>6. CASE CopyFd(t)
  <2>1. /\ req' = req /\ n' = n /\ w' = w /\ sent' = sent /\ pc[t] = "lock" /\ n[t] = 0
        /\ \/ pc'[t] \in {"poll", "io"}
           \/ pc'[t] = "done" /\ out'[t] = 0 /\ st'[t] = "HAL_ERR_IO"
    BY <1>0, <1>6 DEF CopyFd, ThreadTypes, WriteOf
  <2> QED BY <2>1, <1>0 DEF WriteOf
<1>7. CASE PollReady(t) \/ PollWaits(t) \/ PollInterrupted(t)
  BY <1>0, <1>7 DEF PollReady, PollWaits, PollInterrupted, ThreadTypes, WriteOf
<1>8. CASE PollTimeout(t) \/ PollError(t) \/ IoError(t)
  <2>1. /\ req' = req /\ n' = n /\ w' = w /\ sent' = sent /\ pc[t] \in {"poll", "io"}
        /\ pc'[t] = "done" /\ w[t] = 0 /\ out'[t] = n[t] /\ st'[t] # "HAL_OK"
    BY <1>8, <1>t DEF PollTimeout, PollError, IoError, ThreadTypes
  <2>2. n[t] + 0 = n[t]
    BY <1>t
  <2> QED BY <2>1, <2>2, <1>0 DEF WriteOf
<1>9. CASE \/ BaudLock(t) \/ BaudSet(t) \/ BaudStore(t) \/ BaudFail(t)
           \/ CloseRestore(t) \/ CloseFd(t) \/ CloseFree(t)
  <2>1. req' = req /\ req[t].op # "write" /\ pc'[t] # "lock"
    BY <1>9 DEF BaudLock, BaudSet, BaudStore, BaudFail, CloseRestore, CloseFd, CloseFree,
                ThreadTypes, CallPoints
  <2> QED BY <2>1 DEF WriteOf
<1>10. CASE UNCHANGED vars
  BY <1>1, <1>10 DEF vars
<1> QED BY <1>1, <1>2, <1>3, <1>4, <1>5, <1>6, <1>7, <1>8, <1>9, <1>10, OtherThreads DEF Io

-----------------------------------------------------------------------------
(* The handle and the line.                                                *)

\* h->mu, and what may be done without it.
LEMMA LockDisciplineStep ==
  ASSUME UartTypes, CallPoints, LockDiscipline, HandleStages, [Next]_vars
  PROVE  LockDiscipline'
<1>0. SharedTypes /\ ThreadTypes
  BY TypeParts
<1>1. None \notin Threads
  BY UartAssumption
<1> USE <1>0, <1>1 DEF handle, line, thread, Finish, Go, ThreadTypes, LockDiscipline
<1>2. CASE Transmit \/ Receive
  BY <1>2 DEF Transmit, Receive
<1>3. CASE Open
  <2>1. UNCHANGED <<mu, pc>>
    BY <1>3 DEF Open, OpenDevice, OpenAlloc, OpenFail, OpenConfig
  <2>2. opening # "none" => mu = None
    BY DEF HandleStages, SharedTypes
  <2> QED BY <1>3, <2>1, <2>2 DEF Open, OpenDevice, OpenAlloc, OpenFail, OpenConfig, SharedTypes
<1>4. ASSUME NEW t \in Threads, NEW op \in OpNames, NEW r \in Requests(op), Call(t, r)
      PROVE  LockDiscipline'
  <2>1. UNCHANGED <<mu, hfd>> /\ pc[t] = "idle"
        /\ (pc' = [pc EXCEPT ![t] = "done"] \/ pc' = [pc EXCEPT ![t] = "lock"])
    BY <1>4 DEF Call
  <2> QED BY <2>1
<1>5. ASSUME NEW t \in Threads, Return(t) PROVE LockDiscipline'
  BY <1>5 DEF Return
<1>6. ASSUME NEW t \in Threads, Io(t) PROVE LockDiscipline'
  <2>1. UNCHANGED <<mu, hfd>> /\ pc[t] \in {"lock", "poll", "io"}
    BY <1>6, IoFrame
  <2>2. pc' = pc \/ \E l \in {"poll", "io", "done"} : pc' = [pc EXCEPT ![t] = l]
    BY <1>6, IoFrame
  <2> QED BY <2>1, <2>2
<1>7. ASSUME NEW t \in Threads, BaudLock(t) PROVE LockDiscipline'
  BY <1>7 DEF BaudLock, BaudHolder
<1>8. ASSUME NEW t \in Threads, BaudSet(t) PROVE LockDiscipline'
  BY <1>8 DEF BaudSet
<1>9. ASSUME NEW t \in Threads, BaudStore(t) \/ BaudFail(t) PROVE LockDiscipline'
  <2>1. /\ pc[t] \in {"set", "store"} /\ mu' = None
        /\ pc' = [pc EXCEPT ![t] = "done"]
    BY <1>9 DEF BaudStore, BaudFail
  <2>2. \A u \in Threads : pc[u] \in {"set", "store"} => u = t
    BY <2>1
  <2> QED BY <2>1, <2>2
<1>10. ASSUME NEW t \in Threads, CloseRestore(t) PROVE LockDiscipline'
  BY <1>10 DEF CloseRestore
<1>11. ASSUME NEW t \in Threads, CloseFd(t) \/ CloseFree(t) PROVE LockDiscipline'
  BY <1>11 DEF CloseFd, CloseFree
<1>12. CASE UNCHANGED vars
  BY <1>12 DEF vars
<1> QED BY <1>2, <1>3, <1>4, <1>5, <1>6, <1>7, <1>8, <1>9, <1>10, <1>11, <1>12, NextCases

\* The stages of hal_uart_open and hal_uart_close.
LEMMA HandleStagesStep ==
  ASSUME UartTypes, CallPoints, LockDiscipline, HandleStages, [Next]_vars
  PROVE  HandleStages'
<1>0. SharedTypes /\ ThreadTypes
  BY TypeParts
<1> USE <1>0 DEF handle, line, thread, Finish, Go, ThreadTypes, HandleStages
<1>1. CASE Transmit \/ Receive
  BY <1>1 DEF Transmit, Receive
<1>2. CASE Open
  <2>1. CASE OpenDevice
    BY <2>1 DEF OpenDevice
  <2>2. CASE OpenAlloc
    BY <2>2 DEF OpenAlloc
  <2>3. CASE OpenFail
    BY <2>3 DEF OpenFail, OpenFailCloses
  <2>4. ASSUME NEW r \in Rates, OpenConfig(r) PROVE HandleStages'
    BY <2>4 DEF OpenConfig
  <2> QED BY <1>2, <2>1, <2>2, <2>3, <2>4 DEF Open
<1>3. ASSUME NEW t \in Threads, NEW op \in OpNames, NEW r \in Requests(op), Call(t, r)
      PROVE  HandleStages'
  <2>1. /\ UNCHANGED <<opening, handle, line, before>> /\ opening = "none"
        /\ (pc' = [pc EXCEPT ![t] = "done"] \/ pc' = [pc EXCEPT ![t] = "lock"])
    BY <1>3 DEF Call, Usable
  <2> QED BY <2>1
<1>4. ASSUME NEW t \in Threads, Return(t) PROVE HandleStages'
  BY <1>4 DEF Return
<1>5. ASSUME NEW t \in Threads, Io(t) PROVE HandleStages'
  <2>1. /\ UNCHANGED <<opening, handle, fdopen, tio, before>>
        /\ pc[t] \in {"lock", "poll", "io"}
    BY <1>5, IoFrame
  <2>2. pc' = pc \/ \E l \in {"poll", "io", "done"} : pc' = [pc EXCEPT ![t] = l]
    BY <1>5, IoFrame
  <2> QED BY <2>1, <2>2
<1>6. ASSUME NEW t \in Threads, BaudLock(t) PROVE HandleStages'
  BY <1>6 DEF BaudLock
<1>7. ASSUME NEW t \in Threads, BaudSet(t) \/ BaudStore(t) \/ BaudFail(t) PROVE HandleStages'
  BY <1>7 DEF BaudSet, BaudStore, BaudFail
<1>8. ASSUME NEW t \in Threads, CloseRestore(t) PROVE HandleStages'
  BY <1>8 DEF CloseRestore
<1>9. ASSUME NEW t \in Threads, CloseFd(t) PROVE HandleStages'
  BY <1>9 DEF CloseFd
<1>10. ASSUME NEW t \in Threads, CloseFree(t) PROVE HandleStages'
  BY <1>10 DEF CloseFree
<1>11. CASE UNCHANGED vars
  BY <1>11 DEF vars
<1> QED BY <1>1, <1>2, <1>3, <1>4, <1>5, <1>6, <1>7, <1>8, <1>9, <1>10, <1>11, NextCases

\* The settings of the line, saved and applied.
LEMMA LineSettingsStep ==
  ASSUME UartTypes, CallPoints, LockDiscipline, HandleStages, LineSettings, [Next]_vars
  PROVE  LineSettings'
<1>0. SharedTypes /\ ThreadTypes
  BY TypeParts
<1> USE <1>0, UartAssumption DEF handle, line, thread, Finish, Go, ThreadTypes, LineSettings
<1>1. CASE Transmit \/ Receive
  BY <1>1 DEF Transmit, Receive
<1>2. CASE Open
  <2>1. CASE OpenDevice \/ OpenAlloc
    BY <2>1 DEF OpenDevice, OpenAlloc
  <2>2. CASE OpenFail
    BY <2>2 DEF OpenFail, HandleStages
  <2>3. ASSUME NEW r \in Rates, OpenConfig(r) PROVE LineSettings'
    BY <2>3 DEF OpenConfig, HandleStages
  <2> QED BY <1>2, <2>1, <2>2, <2>3 DEF Open
<1>3. ASSUME NEW t \in Threads, NEW op \in OpNames, NEW r \in Requests(op), Call(t, r)
      PROVE  LineSettings'
  <2>1. /\ UNCHANGED <<opening, handle, line, before, restored>> /\ pc[t] = "idle"
        /\ (pc' = [pc EXCEPT ![t] = "done"] \/ pc' = [pc EXCEPT ![t] = "lock"])
        /\ req' = [req EXCEPT ![t] = r]
    BY <1>3 DEF Call, Usable
  <2> QED BY <2>1
<1>4. ASSUME NEW t \in Threads, Return(t) PROVE LineSettings'
  BY <1>4 DEF Return
<1>5. ASSUME NEW t \in Threads, Io(t) PROVE LineSettings'
  <2>1. /\ UNCHANGED <<opening, handle, tio, before, req, restored>>
        /\ pc[t] \in {"lock", "poll", "io"}
    BY <1>5, IoFrame
  <2>2. pc' = pc \/ \E l \in {"poll", "io", "done"} : pc' = [pc EXCEPT ![t] = l]
    BY <1>5, IoFrame
  <2> QED BY <2>1, <2>2
<1>6. ASSUME NEW t \in Threads, BaudLock(t) PROVE LineSettings'
  <2>1. UNCHANGED <<opening, handle, tio, before, req, restored>> /\ pc[t] = "lock"
    BY <1>6 DEF BaudLock
  <2>2. PICK l \in {"set", "done"} : pc' = [pc EXCEPT ![t] = l]
    BY <1>6 DEF BaudLock
  <2> QED BY <2>1, <2>2
<1>7. ASSUME NEW t \in Threads, BaudSet(t) PROVE LineSettings'
  <2>1. mu = t /\ hfd
    BY <1>7 DEF BaudSet, LockDiscipline
  <2>2. /\ UNCHANGED <<opening, handle, before, req, restored>>
        /\ tio' = Applied(req[t].rate) /\ pc' = [pc EXCEPT ![t] = "store"]
    BY <1>7 DEF BaudSet, Resaved
  <2>3. pc'[t] = "store"
    BY <2>2
  <2> QED BY <2>1, <2>2, <2>3
<1>8. ASSUME NEW t \in Threads, BaudStore(t) PROVE LineSettings'
  <2>1. mu = t /\ hfd /\ \A u \in Threads : pc[u] = "store" => u = t
    BY <1>8 DEF BaudStore, LockDiscipline
  <2>2. /\ UNCHANGED <<opening, alive, hfd, saved, tio, before, req, restored>>
        /\ pc[t] = "store" /\ pc' = [pc EXCEPT ![t] = "done"]
        /\ cfg' = req[t].rate
    BY <1>8 DEF BaudStore
  <2>3. opening = "none" => tio = Applied(req[t].rate)
    BY <2>1, <2>2
  <2>4. \A u \in Threads : pc'[u] # "store"
    BY <2>1, <2>2
  <2> QED BY <2>1, <2>2, <2>3, <2>4
<1>9. ASSUME NEW t \in Threads, BaudFail(t) PROVE LineSettings'
  BY <1>9 DEF BaudFail
<1>10. ASSUME NEW t \in Threads, CloseRestore(t) PROVE LineSettings'
  <2>1. opening = "none" /\ alive
    BY <1>10 DEF CloseRestore, HandleStages
  <2> QED BY <1>10, <2>1 DEF CloseRestore
<1>11. ASSUME NEW t \in Threads, CloseFd(t) \/ CloseFree(t) PROVE LineSettings'
  <2>1. ~hfd
    BY <1>11 DEF CloseFd, CloseFree, HandleStages
  <2> QED BY <1>11, <2>1 DEF CloseFd, CloseFree
<1>12. CASE UNCHANGED vars
  BY <1>12 DEF vars
<1> QED BY <1>1, <1>2, <1>3, <1>4, <1>5, <1>6, <1>7, <1>8, <1>9, <1>10, <1>11, <1>12, NextCases

-----------------------------------------------------------------------------
(* Callers that close the handle when no other call is going on.           *)

\* Under Quiesced no other call is inside the handle while it is closed.
LEMMA CloseAloneStep ==
  ASSUME Quiesced, UartInvariant, CloseAlone, [Next]_vars
  PROVE  CloseAlone'
<1>0. SharedTypes /\ ThreadTypes /\ CallPoints /\ HandleStages
  BY TypeParts DEF UartInvariant
<1> USE <1>0 DEF handle, line, thread, Finish, Go, ThreadTypes, CloseAlone, HandleOutlivesCalls,
             DescriptorOutlivesCalls
<1>1. CASE Transmit \/ Receive
  BY <1>1, SMTT(30) DEF Transmit, Receive
<1>2. CASE Open
  <2>1. CASE OpenDevice
    BY <2>1 DEF OpenDevice
  <2>2. CASE OpenAlloc \/ OpenFail
    BY <2>2 DEF OpenAlloc, OpenFail, HandleStages
  <2>3. ASSUME NEW r \in Rates, OpenConfig(r) PROVE CloseAlone'
    BY <2>3 DEF OpenConfig, HandleStages
  <2> QED BY <1>2, <2>1, <2>2, <2>3 DEF Open
<1>3. ASSUME NEW t \in Threads, NEW op \in OpNames, NEW r \in Requests(op), Call(t, r)
      PROVE  CloseAlone'
  <2>1. /\ UNCHANGED <<opening, handle, line>> /\ opening = "none" /\ alive /\ pc[t] = "idle"
        /\ r.op = "close" => \A u \in Threads : pc[u] = "idle"
        /\ \A u \in Threads : pc[u] # "idle" => req[u].op # "close"
        /\ req' = [req EXCEPT ![t] = r]
        /\ pc' = [pc EXCEPT ![t] = "done"] \/ pc' = [pc EXCEPT ![t] = "lock"]
    BY <1>3 DEF Call, Usable
  <2>2. \A u \in Threads : pc[u] \notin {"close", "free"}
    BY <2>1 DEF CallPoints
  <2>3. hfd /\ fdopen
    BY <2>1, <2>2 DEF HandleStages
  <2> QED BY <2>1, <2>3, SMTT(30)
<1>4. ASSUME NEW t \in Threads, Return(t) PROVE CloseAlone'
  BY <1>4 DEF Return, IdleReq
<1>5. ASSUME NEW t \in Threads, Io(t) PROVE CloseAlone'
  <2>1. /\ UNCHANGED <<opening, handle, fdopen, req>>
        /\ pc[t] \in {"lock", "poll", "io"}
    BY <1>5, IoFrame
  <2>2. CASE pc' = pc
    BY <2>1, <2>2
  <2>3. ASSUME NEW l \in {"poll", "io", "done"}, pc' = [pc EXCEPT ![t] = l] PROVE CloseAlone'
    <3>1. CASE CopyFd(t)
      <4>1. l # "done" => hfd
        BY <2>3, <3>1 DEF CopyFd
      <4>2. l # "done" => fdopen
        BY <4>1 DEF HandleStages
      <4> QED BY <2>1, <2>3, <4>2
    <3>2. CASE ~CopyFd(t)
      <4>1. pc[t] \in {"poll", "io"}
        BY <1>5, <3>2 DEF Io, PollReady, PollWaits, PollInterrupted, PollTimeout, PollError,
                          TtyRead, TtyReadEnd, TtyWrite, TtyWriteCut, tcflush, IoError
      <4> QED BY <2>1, <2>3, <4>1
    <3> QED BY <3>1, <3>2
  <2> QED BY <1>5, <2>2, <2>3, IoFrame, SMTT(30)
<1>6. ASSUME NEW t \in Threads, BaudLock(t) PROVE CloseAlone'
  <2>1. UNCHANGED <<opening, handle, fdopen, req>> /\ pc[t] = "lock"
    BY <1>6 DEF BaudLock
  <2>2. PICK l \in {"set", "done"} : pc' = [pc EXCEPT ![t] = l]
    BY <1>6 DEF BaudLock
  <2> QED BY <2>1, <2>2
<1>7. ASSUME NEW t \in Threads, BaudSet(t) \/ BaudStore(t) \/ BaudFail(t) PROVE CloseAlone'
  <2>1. UNCHANGED <<opening, alive, hfd, fdopen, req>> /\ pc[t] \in {"set", "store"}
    BY <1>7 DEF BaudSet, BaudStore, BaudFail
  <2>2. PICK l \in {"store", "done"} : pc' = [pc EXCEPT ![t] = l]
    BY <1>7 DEF BaudSet, BaudStore, BaudFail
  <2> QED BY <2>1, <2>2
<1>8. ASSUME NEW t \in Threads, CloseRestore(t) \/ CloseFd(t) \/ CloseFree(t)
      PROVE  CloseAlone'
  <2>1. req' = req /\ req[t].op = "close" /\ pc[t] # "idle" /\ opening' = opening
    BY <1>8 DEF CloseRestore, CloseFd, CloseFree, CallPoints
  <2>2. \A u \in Threads : u # t => pc[u] = "idle"
    BY <2>1
  <2>3. \/ pc' = [pc EXCEPT ![t] = "close"] \/ pc' = [pc EXCEPT ![t] = "free"]
        \/ pc' = [pc EXCEPT ![t] = "done"] /\ alive' = FALSE
    BY <1>8 DEF CloseRestore, CloseFd, CloseFree
  <2>4. /\ pc'[t] \in {"close", "free"} \/ (pc'[t] = "done" /\ ~alive')
        /\ \A u \in Threads : u # t => pc'[u] = "idle"
    BY <2>2, <2>3
  <2>5. pc'[t] \in {"close", "free", "done"}
    BY <2>4
  <2> QED BY <2>1, <2>4, <2>5
<1>9. CASE UNCHANGED vars
  BY <1>9 DEF vars
<1> QED BY <1>1, <1>2, <1>3, <1>4, <1>5, <1>6, <1>7, <1>8, <1>9, NextCases

-----------------------------------------------------------------------------
(* The theorems.                                                           *)

\* The state before the first hal_uart_open satisfies the invariant.
LEMMA InitInvariant == Init => UartInvariant /\ CloseAlone
<1> SUFFICES ASSUME Init PROVE UartInvariant /\ CloseAlone
  OBVIOUS
<1> USE UartAssumption DEF Init
<1>1. SharedTypes
  <2>1. Cooked \in Settings
    BY DEF Cooked, Settings
  <2>2. alive \in BOOLEAN /\ hfd \in BOOLEAN /\ fdopen \in BOOLEAN /\ restored \in BOOLEAN
    OBVIOUS
  <2>3. txq \in 0..TxCap /\ rxq \in 0..RxCap
    OBVIOUS
  <2> QED BY <2>1, <2>2, <2>3 DEF SharedTypes
<1>2. ThreadTypes
  <2>1. IdleReq \in Req /\ IdleReq.len = 0 /\ <<>> \in Seq(1..MaxLen)
    BY DEF Req, IdleReq
  <2> QED BY <2>1 DEF ThreadTypes, WriteUnderWay, Labels, Status
<1>3. CallPoints /\ WriteProgress /\ LockDiscipline
  BY DEF CallPoints, WriteProgress, LockDiscipline
<1>4. HandleStages /\ LineSettings
  BY DEF HandleStages, LineSettings
<1>5. CloseAlone
  BY DEF CloseAlone, HandleOutlivesCalls, DescriptorOutlivesCalls
<1> QED BY <1>1, <1>2, <1>3, <1>4, <1>5, TypeParts DEF UartInvariant

\* The invariant is inductive, whether or not callers respect Quiesced.
THEOREM UartInvariance == Spec => []UartInvariant
<1>1. UartInvariant /\ [Next]_vars => UartInvariant'
  <2> SUFFICES ASSUME UartInvariant, [Next]_vars PROVE UartInvariant'
    OBVIOUS
  <2> USE DEF UartInvariant
  <2>1. SharedTypes /\ ThreadTypes
    BY TypeParts
  <2>2. SharedTypes' /\ ThreadTypes'
    BY <2>1, SharedTypeStep, ThreadTypeStep
  <2>3. UartTypes'
    BY <2>2, TypeParts, PTL
  <2>4. CallPoints' /\ WriteProgress'
    BY <2>1, CallPointsStep, WriteProgressStep
  <2>5. LockDiscipline' /\ HandleStages' /\ LineSettings'
    BY LockDisciplineStep, HandleStagesStep, LineSettingsStep
  <2> QED BY <2>3, <2>4, <2>5
<1> QED BY InitInvariant, <1>1, PTL DEF Spec

\* Every variable keeps its type; the queues keep within their capacity and the
\* counts within the buffers.
THEOREM UartTypeCorrect == Spec => []TypeOK
<1>1. UartInvariant => TypeOK
  BY DEF UartInvariant, UartTypes
<1> QED BY UartInvariance, <1>1, PTL

\* hal_uart_write reports exactly the prefix of the buffer that the tty got.
THEOREM WritesReportPrefix == Spec => []WriteReportsPrefix
<1>1. UartInvariant => WriteReportsPrefix
  <2> SUFFICES ASSUME UartInvariant, NEW t \in Threads, pc[t] = "done", req[t].op = "write"
               PROVE  /\ sent[t] = [i \in 1..out[t] |-> i]
                      /\ st[t] = "HAL_OK" /\ ~req[t].finite => out[t] = req[t].len
    BY DEF WriteReportsPrefix
  <2>1. w[t] = 0 /\ n[t] \in Nat /\ n[t] + w[t] = n[t]
    BY DEF UartInvariant, UartTypes, WriteUnderWay
  <2> QED BY <2>1, ZenonT(30) DEF UartInvariant, WriteProgress
<1> QED BY UartInvariance, <1>1, PTL

\* h->cfg is what the line runs with whenever h->mu is free.
THEOREM ConfigFollowsLine == Spec => []ConfigMatchesLine
<1>1. UartInvariant => ConfigMatchesLine
  <2> SUFFICES ASSUME UartInvariant, Usable, hfd, mu = None PROVE tio = Applied(cfg)
    BY DEF ConfigMatchesLine
  <2>1. \A t \in Threads : pc[t] # "store"
    BY UartAssumption DEF UartInvariant, LockDiscipline
  <2> QED BY <2>1 DEF UartInvariant, LineSettings, Usable
<1> QED BY UartInvariance, <1>1, PTL

\* hal_uart_close, and a failed hal_uart_open, leave the line as it was found.
THEOREM CloseRestoresLine == Spec => []CloseUndoesOpen
<1>1. UartInvariant => CloseUndoesOpen
  BY DEF UartInvariant, HandleStages, LineSettings, CloseUndoesOpen
<1> QED BY UartInvariance, <1>1, PTL

\* When callers close the handle only after the other calls have returned, no
\* call meets a freed handle or a closed descriptor.
THEOREM QuiescedCallsAreSafe ==
  ASSUME Quiesced
  PROVE  Spec => [](HandleOutlivesCalls /\ DescriptorOutlivesCalls)
<1>1. UartInvariant /\ CloseAlone /\ [Next]_vars => CloseAlone'
  BY CloseAloneStep
<1>2. CloseAlone => HandleOutlivesCalls /\ DescriptorOutlivesCalls
  BY DEF CloseAlone
<1> QED BY UartInvariance, InitInvariant, <1>1, <1>2, PTL DEF Spec

=============================================================================
