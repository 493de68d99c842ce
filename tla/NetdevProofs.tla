---------------------------- MODULE NetdevProofs ----------------------------
(***************************************************************************)
(* Proofs about the network helpers, for any number of callers, any        *)
(* interfaces and addresses: what they acquire is released on every path   *)
(* but the three that OnlyKnownLeaks names, and what an undisturbed call   *)
(* has set or read is there when it returns.                               *)
(***************************************************************************)
EXTENDS Netdev, SequenceTheorems, TLAPS

-----------------------------------------------------------------------------
(* The inductive invariant.                                                *)

Steps ==
  [op : {"acquire", "release", "check", "get", "set", "none", "record", "truncate", "append"},
   on : {"sd", "fp", "res", "uid", "mac", "ip", "mask", "gw", "dns", "flags", "link"},
   undo : SUBSET {"sd"}]

Scripts ==
  {get_local_mac, set_local_mac, get_local_ip, set_local_ip, get_local_netmask,
   set_local_netmask, get_local_gateway, set_local_gateway, get_local_dns, set_local_dns,
   get_netdev_status, set_netdev_status,
   OrNone(get_local_ip, "ip"), OrNone(get_local_netmask, "mask"),
   OrNone(get_local_gateway, "gw"), OrNone(get_local_dns, "dns")}

KnownLeaks == {<<"check", "mac", "sd">>, <<"get", "gw", "fp">>, <<"get", "dns", "res">>}

\* Before step n of script s something was acquired by step j and not released.
Open(s, j, n) ==
  /\ j \in 1 .. (n - 1)
  /\ s[j].op = "acquire"
  /\ \A k \in j .. (n - 1) : s[k].op # "release"

Acquired(s, n, r) == \E j \in 1 .. (n - 1) : Open(s, j, n) /\ s[j].on = r

\* What a script has acquired is released by its next release, and by the
\* error paths before that, but for the known leaks.
Careful(s) ==
  /\ \A n \in 1 .. Len(s) : \A j \in 1 .. Len(s) :
       Open(s, j, n) =>
         /\ s[n].op = "release" => s[n].on = s[j].on
         /\ s[n].op \in {"acquire", "check", "get", "set"} =>
              s[j].on \in s[n].undo \/ <<s[n].op, s[n].on, s[j].on>> \in KnownLeaks
  /\ \A j \in 1 .. Len(s) : ~Open(s, j, Len(s) + 1)

\* p is what is left of script s from its step n on.
Rest(p, s, n) ==
  /\ Len(p) = Len(s) - n + 1
  /\ \A i \in 1 .. Len(p) : p[i] = s[n + i - 1]

CallFields == {"fn", "todo", "arg", "out", "held", "lost", "done", "status", "alone"}

\* A call is at a step of a script, holds nothing the script has not acquired
\* by then, and has whole scripts left after that one.
CallHolds(c) ==
  /\ c.todo \in Seq(Seq(Steps))
  /\ \A i \in 2 .. Len(c.todo) : c.todo[i] \in Scripts
  /\ c.todo # <<>> =>
       \E s \in Scripts : \E n \in 1 .. Len(s) :
         Rest(c.todo[1], s, n) /\ \A r \in c.held : Acquired(s, n, r)
  /\ c.todo = <<>> => c.held = {}
  /\ c.lost \subseteq KnownLeaks

NetInvariant ==
  /\ topic \in DOMAIN Functions
  /\ DOMAIN netcall = Callers
  /\ \A t \in Callers : DOMAIN netcall[t] = CallFields /\ CallHolds(netcall[t])

-----------------------------------------------------------------------------
(* The scripts.                                                            *)

\* Its steps are steps, and it has some.
WellFormed(s) == s \in Seq(Steps) /\ Len(s) >= 1 /\ Careful(s)

\* Each script releases what it has acquired, but for the known leaks.
LEMMA ScriptsAreCareful == \A s \in Scripts : WellFormed(s)
<1> USE DEF WellFormed, Careful, Open, KnownLeaks, Steps, Socket, CloseSocket, Ioctl, Do
<1>1. WellFormed(get_local_mac)
  BY DEF get_local_mac
<1>2. WellFormed(set_local_mac)
  BY DEF set_local_mac
<1>3. WellFormed(get_local_ip)
  BY DEF get_local_ip
<1>4. WellFormed(set_local_ip)
  BY DEF set_local_ip
<1>5. WellFormed(get_local_netmask)
  BY DEF get_local_netmask
<1>6. WellFormed(set_local_netmask)
  BY DEF set_local_netmask
<1>7. WellFormed(get_local_gateway)
  BY DEF get_local_gateway
<1>8. WellFormed(set_local_gateway)
  BY DEF set_local_gateway
<1>9. WellFormed(get_local_dns)
  BY DEF get_local_dns
<1>10. WellFormed(set_local_dns)
  BY DEF set_local_dns
<1>11. WellFormed(get_netdev_status)
  BY DEF get_netdev_status
<1>12. WellFormed(set_netdev_status)
  BY DEF set_netdev_status
<1>13. WellFormed(OrNone(get_local_ip, "ip"))
  BY DEF OrNone, get_local_ip
<1>14. WellFormed(OrNone(get_local_netmask, "mask"))
  BY DEF OrNone, get_local_netmask
<1>15. WellFormed(OrNone(get_local_gateway, "gw"))
  BY DEF OrNone, get_local_gateway
<1>16. WellFormed(OrNone(get_local_dns, "dns"))
  BY DEF OrNone, get_local_dns
<1> HIDE DEF WellFormed
<1> QED
  BY <1>1, <1>2, <1>3, <1>4, <1>5, <1>6, <1>7, <1>8, <1>9, <1>10, <1>11, <1>12, <1>13, <1>14, <1>15, <1>16 DEF Scripts

\* Every function is a sequence of scripts.
LEMMA FunctionScripts ==
  \A k \in DOMAIN Functions : \A fn \in Functions[k] :
    /\ fn \in Seq(Seq(Steps)) /\ fn # <<>>
    /\ \A i \in 1 .. Len(fn) : fn[i] \in Scripts
<1>1. ASSUME NEW s \in Scripts
      PROVE  /\ <<s>> \in Seq(Seq(Steps)) /\ <<s>> # <<>>
             /\ \A i \in 1 .. Len(<<s>>) : <<s>>[i] \in Scripts
  <2>1. s \in Seq(Steps)
    BY ScriptsAreCareful DEF WellFormed
  <2> QED
    BY <2>1
<1>2. ASSUME NEW a \in Scripts, NEW b \in Scripts, NEW c \in Scripts, NEW d \in Scripts
      PROVE  /\ <<a, b, c, d>> \in Seq(Seq(Steps)) /\ <<a, b, c, d>> # <<>>
             /\ \A i \in 1 .. Len(<<a, b, c, d>>) : <<a, b, c, d>>[i] \in Scripts
  <2>1. a \in Seq(Steps) /\ b \in Seq(Steps) /\ c \in Seq(Steps) /\ d \in Seq(Steps)
    BY ScriptsAreCareful DEF WellFormed
  <2> QED
    BY <2>1
<1>3. /\ \A s \in {get_local_mac, set_local_mac, get_local_ip, set_local_ip, get_local_netmask,
                   set_local_netmask, get_local_gateway, set_local_gateway, get_local_dns,
                   set_local_dns, get_netdev_status, set_netdev_status} : s \in Scripts
      /\ \A s \in {OrNone(get_local_ip, "ip"), OrNone(get_local_netmask, "mask"),
                   OrNone(get_local_gateway, "gw"), OrNone(get_local_dns, "dns")} : s \in Scripts
  BY DEF Scripts
<1>4. ASSUME NEW k \in DOMAIN Functions, NEW fn \in Functions[k]
      PROVE  \/ \E s \in Scripts : fn = <<s>>
             \/ \E a, b, c, d \in Scripts : fn = <<a, b, c, d>>
  BY <1>3 DEF Functions, get_ip_attr, set_ip_attr
<1>5. ASSUME NEW k \in DOMAIN Functions, NEW fn \in Functions[k]
      PROVE  /\ fn \in Seq(Seq(Steps)) /\ fn # <<>>
             /\ \A i \in 1 .. Len(fn) : fn[i] \in Scripts
  <2>1. CASE \E s \in Scripts : fn = <<s>>
    BY <1>1, <2>1, Zenon
  <2>2. CASE \E a, b, c, d \in Scripts : fn = <<a, b, c, d>>
    BY <1>2, <2>2, Zenon
  <2> QED
    BY <1>4, <2>1, <2>2
<1> QED
  BY <1>5

-----------------------------------------------------------------------------
(* One step of a call.                                                     *)

\* Where a call is.
Position(c, s, n) ==
  /\ s \in Scripts /\ n \in 1 .. Len(s) /\ s \in Seq(Steps) /\ Careful(s)
  /\ c.todo # <<>> /\ Len(c.todo[1]) = Len(s) - n + 1
  /\ Head(Head(c.todo)) = s[n]
  /\ Rest(c.todo[1], s, n)
  /\ \A r \in c.held : Acquired(s, n, r)

\* A call that goes on is at some step of some script.
LEMMA Positioned ==
  ASSUME NEW c, CallHolds(c), c.todo # <<>>
  PROVE  \E s \in Scripts : \E n \in 1 .. Len(s) : Position(c, s, n)
<1>0. PICK s \in Scripts : \E n \in 1 .. Len(s) :
         Rest(c.todo[1], s, n) /\ \A r \in c.held : Acquired(s, n, r)
  BY DEF CallHolds
<1>1. PICK n \in 1 .. Len(s) : Rest(c.todo[1], s, n) /\ \A r \in c.held : Acquired(s, n, r)
  BY <1>0
<1>2. s \in Seq(Steps) /\ Careful(s) /\ Len(s) \in Nat
  BY ScriptsAreCareful DEF WellFormed
<1>3. Len(c.todo[1]) = Len(s) - n + 1 /\ c.todo[1][1] = s[n]
  BY <1>1, <1>2 DEF Rest
<1>4. Head(c.todo) = c.todo[1] /\ Head(c.todo) \in Seq(Steps)
  BY DEF CallHolds
<1>5. Head(Head(c.todo)) = s[n]
  BY <1>2, <1>3, <1>4
<1> QED
  BY <1>1, <1>2, <1>3, <1>5 DEF Position

\* A sequence with one more element in front.
LEMMA Pushed ==
  ASSUME NEW S, NEW p \in S, NEW rest \in Seq(S), NEW after, after = <<p>> \o rest
  PROVE  /\ after \in Seq(S) /\ Len(after) = Len(rest) + 1 /\ after[1] = p /\ after # <<>>
         /\ \A i \in 2 .. Len(after) : after[i] = rest[i - 1] /\ i - 1 \in 1 .. Len(rest)
<1>1. <<p>> \in Seq(S) /\ Len(<<p>>) = 1 /\ <<p>>[1] = p /\ Len(rest) \in Nat
  OBVIOUS
<1>2. after \in Seq(S) /\ Len(after) = Len(rest) + 1
  BY <1>1, ConcatProperties
<1>3. \A i \in 1 .. Len(after) : after[i] = IF i <= 1 THEN <<p>>[i] ELSE rest[i - 1]
  BY <1>1, <1>2
<1>4. after[1] = p /\ after # <<>>
  BY <1>1, <1>2, <1>3
<1>5. \A i \in 2 .. Len(after) : after[i] = rest[i - 1] /\ i - 1 \in 1 .. Len(rest)
  BY <1>1, <1>2, <1>3
<1> QED
  BY <1>2, <1>4, <1>5

\* The scripts left after a step.
LEMMA Advanced ==
  ASSUME NEW todo \in Seq(Seq(Steps)), todo # <<>>, NEW s \in Scripts, NEW n \in 1 .. Len(s),
         Rest(todo[1], s, n), \A i \in 2 .. Len(todo) : todo[i] \in Scripts,
         NEW after, after = IF Len(Head(todo)) = 1 THEN Tail(todo)
                            ELSE <<Tail(Head(todo))>> \o Tail(todo)
  PROVE  /\ after \in Seq(Seq(Steps))
         /\ \A i \in 2 .. Len(after) : after[i] \in Scripts
         /\ n = Len(s) => after = <<>> \/ after[1] \in Scripts
         /\ n < Len(s) => after # <<>> /\ Rest(after[1], s, n + 1)
<1>1. s \in Seq(Steps) /\ Len(s) \in Nat
  BY ScriptsAreCareful DEF WellFormed
<1>2. /\ Head(todo) = todo[1] /\ todo[1] \in Seq(Steps) /\ Len(todo[1]) = Len(s) - n + 1
      /\ Tail(todo) \in Seq(Seq(Steps)) /\ Len(Tail(todo)) = Len(todo) - 1
      /\ \A i \in 1 .. Len(Tail(todo)) : Tail(todo)[i] = todo[i + 1]
  BY DEF Rest
<1>3. \A i \in 1 .. Len(Tail(todo)) : Tail(todo)[i] \in Scripts
  BY <1>2
<1>4. CASE n = Len(s)
  <2>1. after = Tail(todo)
    <3>1. Len(Head(todo)) = 1
      BY <1>1, <1>2, <1>4
    <3> QED
      BY <3>1, Zenon
  <2> DEFINE rest == Tail(todo)
  <2>2. rest = <<>> \/ rest[1] \in Scripts
    <3>1. rest = <<>> \/ 1 \in 1 .. Len(rest)
      BY <1>2
    <3> QED
      BY <1>3, <3>1
  <2>3. rest \in Seq(Seq(Steps)) /\ \A i \in 2 .. Len(rest) : rest[i] \in Scripts
    BY <1>2, <1>3
  <2>4. ~(n < Len(s))
    BY <1>1, <1>4
  <2> HIDE DEF rest
  <2>5. after = rest
    BY <2>1 DEF rest
  <2> QED
    BY <2>2, <2>3, <2>4, <2>5, Zenon
<1>5. CASE n < Len(s)
  <2> DEFINE p == Tail(todo[1])
             rest == Tail(todo)
  <2>1. after = <<p>> \o rest
    <3>1. Len(Head(todo)) # 1
      BY <1>1, <1>2, <1>5
    <3> QED
      BY <1>2, <3>1, Zenon
  <2>2. p \in Seq(Steps) /\ Len(p) = Len(s) - (n + 1) + 1
    BY <1>1, <1>2, <1>5
  <2>3. \A i \in 1 .. Len(p) : p[i] = todo[1][i + 1]
    BY <1>1, <1>2, <1>5
  <2>4. \A i \in 1 .. Len(p) : p[i] = s[(n + 1) + i - 1]
    <3> SUFFICES ASSUME NEW i \in 1 .. Len(p)
                 PROVE  p[i] = s[(n + 1) + i - 1]
      OBVIOUS
    <3>1. i \in Nat /\ n \in Nat /\ i + 1 \in 1 .. Len(todo[1])
      BY <1>1, <1>2, <1>5, <2>2
    <3>2. todo[1][i + 1] = s[n + (i + 1) - 1]
      BY <3>1 DEF Rest
    <3>3. n + (i + 1) - 1 = (n + 1) + i - 1
      BY <3>1
    <3>4. p[i] = todo[1][i + 1]
      BY <2>3
    <3> QED
      BY <3>2, <3>3, <3>4, Zenon
  <2>5. Rest(p, s, n + 1)
    BY <2>2, <2>4 DEF Rest
  <2>6. rest \in Seq(Seq(Steps)) /\ \A i \in 1 .. Len(rest) : rest[i] \in Scripts
    BY <1>2, <1>3
  <2>8. n # Len(s)
    BY <1>1, <1>5
  <2> HIDE DEF p, rest
  <2>7. /\ after \in Seq(Seq(Steps)) /\ Len(after) = Len(rest) + 1 /\ after[1] = p /\ after # <<>>
        /\ \A i \in 2 .. Len(after) : after[i] = rest[i - 1] /\ i - 1 \in 1 .. Len(rest)
    BY <2>1, <2>2, <2>6, Pushed, ZenonT(30)
  <2> QED
    BY <1>5, <2>5, <2>6, <2>7, <2>8
<1> QED
  BY <1>1, <1>4, <1>5, SMTT(30)

\* What has been acquired after one more step.
LEMMA AcquiredNext ==
  ASSUME NEW s \in Scripts, NEW n \in 1 .. Len(s)
  PROVE  /\ s[n].op # "release" => \A r : Acquired(s, n, r) => Acquired(s, n + 1, r)
         /\ s[n].op = "acquire" => Acquired(s, n + 1, s[n].on)
         /\ s[n].op = "release" => \A r : Acquired(s, n, r) => r = s[n].on
<1>1. Len(s) \in Nat /\ n \in Nat /\ Careful(s)
  BY ScriptsAreCareful DEF WellFormed
<1>2. ASSUME s[n].op # "release", NEW r, Acquired(s, n, r)
      PROVE  Acquired(s, n + 1, r)
  <2>1. PICK j \in 1 .. (n - 1) : Open(s, j, n) /\ s[j].on = r
    BY <1>2 DEF Acquired
  <2>2. \A k \in j .. ((n + 1) - 1) : k \in j .. (n - 1) \/ k = n
    BY <1>1
  <2>3. j \in 1 .. ((n + 1) - 1)
    BY <1>1
  <2>4. Open(s, j, n + 1)
    BY <1>2, <2>1, <2>2, <2>3 DEF Open
  <2> QED
    BY <2>1, <2>3, <2>4 DEF Acquired
<1>3. ASSUME s[n].op = "acquire"
      PROVE  Acquired(s, n + 1, s[n].on)
  <2>1. n \in 1 .. ((n + 1) - 1) /\ \A k \in n .. ((n + 1) - 1) : k = n
    BY <1>1
  <2>2. Open(s, n, n + 1)
    BY <1>3, <2>1 DEF Open
  <2> QED
    BY <2>1, <2>2 DEF Acquired
<1>4. ASSUME s[n].op = "release", NEW r, Acquired(s, n, r)
      PROVE  r = s[n].on
  <2>1. PICK j \in 1 .. (n - 1) : Open(s, j, n) /\ s[j].on = r
    BY <1>4 DEF Acquired
  <2>2. j \in 1 .. Len(s)
    BY <1>1
  <2> QED
    BY <1>1, <1>4, <2>1, <2>2 DEF Careful
<1> QED
  BY <1>2, <1>3, <1>4

\* A whole script is left of a script that has not begun.
LEMMA WholeScript ==
  ASSUME NEW s \in Scripts
  PROVE  1 \in 1 .. Len(s) /\ Rest(s, s, 1)
<1>1. Len(s) \in Nat /\ Len(s) >= 1
  BY ScriptsAreCareful DEF WellFormed
<1> QED
  BY <1>1 DEF Rest

\* A step that succeeds keeps CallHolds, if what is held was acquired.
LEMMA StepHolds ==
  ASSUME NEW c, NEW d, NEW s, NEW n, CallHolds(c), Position(c, s, n),
         d.todo = IF Len(Head(c.todo)) = 1 THEN Tail(c.todo)
                  ELSE <<Tail(Head(c.todo))>> \o Tail(c.todo),
         \A r \in d.held : Acquired(s, n + 1, r),
         d.lost = c.lost
  PROVE  CallHolds(d)
<1>1. s \in Scripts /\ n \in 1 .. Len(s) /\ Careful(s) /\ Len(s) \in Nat /\ n \in Nat
  BY DEF Position
<1>2. /\ d.todo \in Seq(Seq(Steps))
      /\ \A i \in 2 .. Len(d.todo) : d.todo[i] \in Scripts
      /\ n = Len(s) => d.todo = <<>> \/ d.todo[1] \in Scripts
      /\ n < Len(s) => d.todo # <<>> /\ Rest(d.todo[1], s, n + 1)
  <2>1. /\ c.todo \in Seq(Seq(Steps)) /\ c.todo # <<>> /\ Rest(c.todo[1], s, n)
        /\ \A i \in 2 .. Len(c.todo) : c.todo[i] \in Scripts
    BY DEF Position, CallHolds
  <2> DEFINE todo == c.todo
             after == d.todo
  <2>2. after = IF Len(Head(todo)) = 1 THEN Tail(todo) ELSE <<Tail(Head(todo))>> \o Tail(todo)
    OBVIOUS
  <2> HIDE DEF todo, after
  <2>3. /\ after \in Seq(Seq(Steps))
        /\ \A i \in 2 .. Len(after) : after[i] \in Scripts
        /\ n = Len(s) => after = <<>> \/ after[1] \in Scripts
        /\ n < Len(s) => after # <<>> /\ Rest(after[1], s, n + 1)
    <3>1. /\ todo \in Seq(Seq(Steps)) /\ todo # <<>> /\ Rest(todo[1], s, n)
          /\ \A i \in 2 .. Len(todo) : todo[i] \in Scripts
      BY <2>1 DEF todo
    <3> QED
      BY <1>1, <2>2, <3>1, Advanced, Zenon
  <2> QED
    BY <2>3 DEF after
<1>3. d.lost \subseteq KnownLeaks
  BY DEF CallHolds
<1>4. CASE n = Len(s)
  <2>1. d.held = {}
    <3>1. ASSUME NEW r \in d.held
          PROVE  FALSE
      <4>1. PICK j \in 1 .. ((n + 1) - 1) : Open(s, j, n + 1)
        BY <3>1 DEF Acquired
      <4>2. j \in 1 .. Len(s)
        BY <1>1, <1>4
      <4> QED
        BY <1>1, <1>4, <4>1, <4>2 DEF Careful
    <3> QED
      BY <3>1
  <2>2. CASE d.todo = <<>>
    BY <1>2, <1>3, <2>1, <2>2, Zenon DEF CallHolds
  <2>3. CASE d.todo[1] \in Scripts
    <3>1. 1 \in 1 .. Len(d.todo[1]) /\ Rest(d.todo[1], d.todo[1], 1)
      BY <2>3, WholeScript
    <3>2. \A r \in d.held : Acquired(d.todo[1], 1, r)
      BY <2>1
    <3> QED
      BY <1>2, <1>3, <2>1, <2>3, <3>1, <3>2, Zenon DEF CallHolds
  <2> QED
    BY <1>2, <1>4, <2>2, <2>3
<1>5. CASE n < Len(s)
  <2>1. n + 1 \in 1 .. Len(s)
    BY <1>1, <1>5
  <2>2. d.todo # <<>> /\ Rest(d.todo[1], s, n + 1)
    BY <1>2, <1>5
  <2> QED
    BY <1>1, <1>2, <1>3, <2>1, <2>2, Zenon DEF CallHolds
<1> QED
  BY <1>1, <1>4, <1>5

\* A step that fails loses at most what is known, and its function ends.
LEMMA FailHolds ==
  ASSUME NEW c, NEW d, CallHolds(c), c.todo # <<>>,
         Head(Head(c.todo)).op \in {"acquire", "check", "get", "set"},
         d.todo = Tail(c.todo), d.held = {},
         d.lost = c.lost \union {<<Head(Head(c.todo)).op, Head(Head(c.todo)).on, r>> :
                                   r \in c.held \ Head(Head(c.todo)).undo}
  PROVE  CallHolds(d)
<1>0. PICK s \in Scripts : \E n \in 1 .. Len(s) : Position(c, s, n)
  BY Positioned
<1>1. PICK n \in 1 .. Len(s) : Position(c, s, n)
  BY <1>0
<1>2. Len(s) \in Nat /\ n \in Nat /\ Careful(s) /\ Head(Head(c.todo)) = s[n]
  BY <1>1 DEF Position
<1>3. ASSUME NEW r \in c.held \ s[n].undo
      PROVE  <<s[n].op, s[n].on, r>> \in KnownLeaks
  <2>1. PICK j \in 1 .. (n - 1) : Open(s, j, n) /\ s[j].on = r
    BY <1>1, <1>3 DEF Position, Acquired
  <2>2. j \in 1 .. Len(s) /\ s[n].op \in {"acquire", "check", "get", "set"}
    BY <1>2
  <2> QED
    BY <1>2, <1>3, <2>1, <2>2 DEF Careful
<1>4. d.lost \subseteq KnownLeaks
  BY <1>2, <1>3 DEF CallHolds
<1>5. /\ d.todo \in Seq(Seq(Steps))
      /\ \A i \in 1 .. Len(d.todo) : d.todo[i] \in Scripts
  <2>1. /\ c.todo \in Seq(Seq(Steps)) /\ c.todo # <<>>
        /\ \A i \in 2 .. Len(c.todo) : c.todo[i] \in Scripts
    BY DEF CallHolds
  <2> DEFINE todo == c.todo
  <2>2. d.todo = Tail(todo)
    OBVIOUS
  <2>3. /\ todo \in Seq(Seq(Steps)) /\ todo # <<>>
        /\ \A i \in 2 .. Len(todo) : todo[i] \in Scripts
    BY <2>1
  <2> HIDE DEF todo
  <2>4. /\ Tail(todo) \in Seq(Seq(Steps)) /\ Len(Tail(todo)) = Len(todo) - 1
        /\ \A i \in 1 .. Len(Tail(todo)) : Tail(todo)[i] = todo[i + 1] /\ i + 1 \in 2 .. Len(todo)
    BY <2>3
  <2> QED
    BY <2>2, <2>3, <2>4
<1>6. CASE d.todo = <<>>
  <2>1. \A i \in 2 .. Len(d.todo) : d.todo[i] \in Scripts
    <3>1. \A i \in 2 .. Len(d.todo) : i \in 1 .. Len(d.todo)
      BY <1>5
    <3> QED
      BY <1>5, <3>1
  <2> QED
    BY <1>4, <1>5, <1>6, <2>1, Zenon DEF CallHolds
<1>7. CASE d.todo # <<>>
  <2>1. d.todo[1] \in Scripts /\ \A i \in 2 .. Len(d.todo) : d.todo[i] \in Scripts
    <3>1. 1 \in 1 .. Len(d.todo) /\ \A i \in 2 .. Len(d.todo) : i \in 1 .. Len(d.todo)
      BY <1>5, <1>7
    <3> QED
      BY <1>5, <3>1
  <2>2. 1 \in 1 .. Len(d.todo[1]) /\ Rest(d.todo[1], d.todo[1], 1)
    BY <2>1, WholeScript
  <2>3. \A r \in d.held : Acquired(d.todo[1], 1, r)
    OBVIOUS
  <2> QED
    BY <1>4, <1>5, <1>7, <2>1, <2>2, <2>3, Zenon DEF CallHolds
<1> QED
  BY <1>6, <1>7

-----------------------------------------------------------------------------
(* The actions.                                                            *)

\* Fields of the records the actions build.
LEMMA AdvanceFields ==
  ASSUME NEW c, DOMAIN c = CallFields
  PROVE  /\ DOMAIN Advance(c) = CallFields
         /\ Advance(c).held = c.held /\ Advance(c).lost = c.lost
         /\ Advance(c).todo = IF Len(Head(c.todo)) = 1 THEN Tail(c.todo)
                              ELSE <<Tail(Head(c.todo))>> \o Tail(c.todo)
BY DEF Advance, CallFields

\* A call that is disturbed holds what it held.
LEMMA DisturbedFields ==
  ASSUME NEW c, DOMAIN c = CallFields, CallHolds(c)
  PROVE  DOMAIN Disturbed(c) = CallFields /\ CallHolds(Disturbed(c))
<1>1. /\ DOMAIN Disturbed(c) = CallFields /\ Disturbed(c).todo = c.todo
      /\ Disturbed(c).held = c.held /\ Disturbed(c).lost = c.lost
  BY DEF Disturbed, CallFields
<1> QED
  BY <1>1, Zenon DEF CallHolds

\* No call holds nothing.
LEMMA IdleHolds == DOMAIN NoCall = CallFields /\ CallHolds(NoCall)
<1>1. /\ DOMAIN NoCall = CallFields /\ NoCall.todo = <<>> /\ NoCall.held = {} /\ NoCall.lost = {}
  BY DEF NoCall, CallFields
<1>2. /\ <<>> \in Seq(Seq(Steps)) /\ \A i \in 2 .. Len(<<>>) : <<>>[i] \in Scripts
  OBVIOUS
<1>3. {} \subseteq KnownLeaks
  OBVIOUS
<1> QED
  BY <1>1, <1>2, <1>3, Zenon DEF CallHolds

\* A step of thread t from call c, which is netcall[t] but for what it holds
\* and for fields that do not matter here.
LEMMA StepKeeps ==
  ASSUME NEW t \in Callers, DOMAIN netcall[t] = CallFields, CallHolds(netcall[t]),
         netcall[t].todo # <<>>, NEW c, DOMAIN c = CallFields,
         c.todo = netcall[t].todo, c.lost = netcall[t].lost,
         \/ c.held = netcall[t].held /\ Head(Script(t)).op # "release"
         \/ c.held = netcall[t].held \union {On(t)} /\ Head(Script(t)).op = "acquire"
         \/ c.held = netcall[t].held \ {On(t)} /\ Head(Script(t)).op = "release"
  PROVE  DOMAIN Advance(c) = CallFields /\ CallHolds(Advance(c))
<1>0. PICK s \in Scripts : \E n \in 1 .. Len(s) : Position(netcall[t], s, n)
  BY Positioned
<1>1. PICK n \in 1 .. Len(s) : Position(netcall[t], s, n)
  BY <1>0
<1>2. Head(Script(t)) = s[n] /\ On(t) = s[n].on /\ \A r \in netcall[t].held : Acquired(s, n, r)
  BY <1>1 DEF Position, Script, On
<1>3. "acquire" # "release"
  OBVIOUS
<1>4. \A r \in c.held : Acquired(s, n + 1, r)
  <2>1. CASE c.held = netcall[t].held /\ s[n].op # "release"
    BY <1>2, <2>1, AcquiredNext
  <2>2. CASE c.held = netcall[t].held \union {On(t)} /\ s[n].op = "acquire"
    BY <1>2, <1>3, <2>2, AcquiredNext
  <2>3. CASE c.held = netcall[t].held \ {On(t)} /\ s[n].op = "release"
    <3>1. \A r \in netcall[t].held : r = On(t)
      BY <1>2, <2>3, AcquiredNext
    <3> QED
      BY <2>3, <3>1
  <2> QED
    BY <1>2, <2>1, <2>2, <2>3
<1>5. /\ DOMAIN Advance(c) = CallFields
      /\ Advance(c).held = c.held /\ Advance(c).lost = netcall[t].lost
      /\ Advance(c).todo = IF Len(Head(netcall[t].todo)) = 1 THEN Tail(netcall[t].todo)
                           ELSE <<Tail(Head(netcall[t].todo))>> \o Tail(netcall[t].todo)
  BY AdvanceFields
<1>6. \A r \in Advance(c).held : Acquired(s, n + 1, r)
  BY <1>4, <1>5
<1> HIDE DEF Advance
<1> DEFINE before == netcall[t]
           after == Advance(c)
<1>7. /\ CallHolds(before) /\ Position(before, s, n) /\ after.lost = before.lost
      /\ after.todo = IF Len(Head(before.todo)) = 1 THEN Tail(before.todo)
                      ELSE <<Tail(Head(before.todo))>> \o Tail(before.todo)
      /\ \A r \in after.held : Acquired(s, n + 1, r)
  BY <1>1, <1>5, <1>6
<1> HIDE DEF before, after
<1>8. CallHolds(after)
  BY <1>7, StepHolds, Zenon
<1> QED
  BY <1>5, <1>8 DEF after

\* What is left to prove of a step: that each caller's call is in order.
LEMMA CallsKept ==
  ASSUME NetInvariant, topic' = topic, DOMAIN netcall' = Callers,
         \A u \in Callers : DOMAIN netcall'[u] = CallFields /\ CallHolds(netcall'[u])
  PROVE  NetInvariant'
BY DEF NetInvariant, CallHolds

\* One caller's call goes on, the others are left alone or told of it.
LEMMA OneCallChanges ==
  ASSUME NetInvariant, topic' = topic, NEW t \in Callers, NEW d,
         DOMAIN d = CallFields, CallHolds(d),
         \/ netcall' = [netcall EXCEPT ![t] = d]
         \/ netcall' = [u \in Callers |-> IF u = t THEN d ELSE Disturbed(netcall[u])]
  PROVE  NetInvariant'
<1>1. /\ DOMAIN netcall = Callers
      /\ \A u \in Callers : DOMAIN netcall[u] = CallFields /\ CallHolds(netcall[u])
  BY DEF NetInvariant
<1>2. /\ DOMAIN netcall' = Callers /\ netcall'[t] = d
      /\ \A u \in Callers \ {t} : netcall'[u] = netcall[u] \/ netcall'[u] = Disturbed(netcall[u])
  BY <1>1
<1>3. ASSUME NEW u \in Callers
      PROVE  DOMAIN netcall'[u] = CallFields /\ CallHolds(netcall'[u])
  <2>1. CASE u = t
    BY <1>2, <2>1
  <2>2. CASE u # t
    <3>1. /\ DOMAIN netcall[u] = CallFields /\ CallHolds(netcall[u])
          /\ DOMAIN Disturbed(netcall[u]) = CallFields /\ CallHolds(Disturbed(netcall[u]))
      BY <1>1, DisturbedFields
    <3> QED
      BY <1>2, <2>2, <3>1
  <2> QED
    BY <2>1, <2>2
<1> QED
  BY <1>2, <1>3, CallsKept

\* A call that succeeds with its step.
LEMMA StepPreserves ==
  ASSUME NetInvariant, topic' = topic, NEW t \in Callers, Running(t), NEW c,
         DOMAIN c = CallFields, c.todo = netcall[t].todo, c.lost = netcall[t].lost,
         \/ c.held = netcall[t].held /\ Head(Script(t)).op # "release"
         \/ c.held = netcall[t].held \union {On(t)} /\ Head(Script(t)).op = "acquire"
         \/ c.held = netcall[t].held \ {On(t)} /\ Head(Script(t)).op = "release",
         Step(t, c) \/ Write(t, c)
  PROVE  NetInvariant'
<1>1. DOMAIN netcall[t] = CallFields /\ CallHolds(netcall[t]) /\ netcall[t].todo # <<>>
  BY DEF NetInvariant, Running
<1>2. DOMAIN Advance(c) = CallFields /\ CallHolds(Advance(c))
  BY <1>1, StepKeeps
<1>3. \/ netcall' = [netcall EXCEPT ![t] = Advance(c)]
      \/ netcall' = [u \in Callers |-> IF u = t THEN Advance(c) ELSE Disturbed(netcall[u])]
  BY DEF Step, Write
<1> DEFINE d == Advance(c)
<1>4. /\ DOMAIN d = CallFields /\ CallHolds(d)
      /\ \/ netcall' = [netcall EXCEPT ![t] = d]
         \/ netcall' = [u \in Callers |-> IF u = t THEN d ELSE Disturbed(netcall[u])]
  BY <1>2, <1>3
<1> HIDE DEF d
<1> QED
  BY <1>4, OneCallChanges, Zenon

\* Nobody calls at first.
LEMMA NetInitHolds == NetInit => NetInvariant
<1> SUFFICES ASSUME NetInit PROVE NetInvariant
  OBVIOUS
<1>1. DOMAIN netcall = Callers /\ \A t \in Callers : netcall[t] = NoCall
  BY DEF NetInit
<1> QED
  BY <1>1, IdleHolds DEF NetInit, NetInvariant

\* Every step of the helpers keeps the invariant.
LEMMA NetStep ==
  ASSUME NetInvariant, [NetNext]_netVars
  PROVE  NetInvariant'
<1>1. topic' = topic
  BY DEF NetNext, netVars, Outside, NetBegin, Acquire, Release, Check, Get, None, Set, RecordServer,
         Truncate, AppendServer, NetFail, NetReturn
<1>2. /\ DOMAIN netcall = Callers
      /\ \A u \in Callers : DOMAIN netcall[u] = CallFields /\ CallHolds(netcall[u])
  BY DEF NetInvariant
<1>3. CASE UNCHANGED netVars
  BY <1>1, <1>2, <1>3, CallsKept DEF netVars
<1>4. CASE Outside
  <2>1. DOMAIN netcall' = Callers /\ \A u \in Callers : netcall'[u] = Disturbed(netcall[u])
    BY <1>4 DEF Outside
  <2> QED
    BY <1>1, <1>2, <2>1, CallsKept, DisturbedFields
<1>5. ASSUME NEW t \in Callers, NetBegin(t)
      PROVE  NetInvariant'
  <2>1. PICK fn \in Functions[topic] : \E a \in NetArgs(fn) :
           netcall' = [netcall EXCEPT ![t] = [NoCall EXCEPT !.fn = fn, !.todo = fn, !.arg = a]]
    BY <1>5 DEF NetBegin
  <2>2. PICK a \in NetArgs(fn) :
           netcall' = [netcall EXCEPT ![t] = [NoCall EXCEPT !.fn = fn, !.todo = fn, !.arg = a]]
    BY <2>1
  <2> DEFINE d == [NoCall EXCEPT !.fn = fn, !.todo = fn, !.arg = a]
  <2>3. DOMAIN d = CallFields /\ d.todo = fn /\ d.held = {} /\ d.lost = {}
    BY DEF NoCall, CallFields
  <2>4. netcall' = [netcall EXCEPT ![t] = d]
    BY <2>2
  <2> HIDE DEF d
  <2>5. fn \in Seq(Seq(Steps)) /\ fn # <<>> /\ \A i \in 1 .. Len(fn) : fn[i] \in Scripts
    BY FunctionScripts DEF NetInvariant
  <2>6. fn[1] \in Scripts /\ \A i \in 2 .. Len(fn) : fn[i] \in Scripts
    <3>1. 1 \in 1 .. Len(fn) /\ \A i \in 2 .. Len(fn) : i \in 1 .. Len(fn)
      BY <2>5
    <3> QED
      BY <2>5, <3>1
  <2>7. 1 \in 1 .. Len(fn[1]) /\ Rest(fn[1], fn[1], 1)
    BY <2>6, WholeScript
  <2>8. \A r \in d.held : Acquired(fn[1], 1, r)
    BY <2>3
  <2>9. d.lost \subseteq KnownLeaks
    BY <2>3
  <2>10. CallHolds(d)
    BY <2>3, <2>5, <2>6, <2>7, <2>8, <2>9, Zenon DEF CallHolds
  <2> QED
    BY <1>1, <2>3, <2>4, <2>10, OneCallChanges, Zenon
<1>6. ASSUME NEW t \in Callers, Acquire(t)
      PROVE  NetInvariant'
  <2> DEFINE c == [netcall[t] EXCEPT !.held = @ \union {On(t)}]
  <2>1. Running(t) /\ Head(Script(t)).op = "acquire" /\ Step(t, c)
    BY <1>6 DEF Acquire, At
  <2>2. /\ DOMAIN c = CallFields /\ c.todo = netcall[t].todo /\ c.lost = netcall[t].lost
        /\ c.held = netcall[t].held \union {On(t)}
    BY <1>2 DEF CallFields
  <2> HIDE DEF c
  <2> QED
    BY <1>1, <2>1, <2>2, StepPreserves, Zenon
<1>7. ASSUME NEW t \in Callers, Release(t)
      PROVE  NetInvariant'
  <2> DEFINE c == [netcall[t] EXCEPT !.held = @ \ {On(t)}]
  <2>1. Running(t) /\ Head(Script(t)).op = "release" /\ Step(t, c)
    BY <1>7 DEF Release, At
  <2>2. /\ DOMAIN c = CallFields /\ c.todo = netcall[t].todo /\ c.lost = netcall[t].lost
        /\ c.held = netcall[t].held \ {On(t)}
    BY <1>2 DEF CallFields
  <2> HIDE DEF c
  <2> QED
    BY <1>1, <2>1, <2>2, StepPreserves, Zenon
<1>8. ASSUME NEW t \in Callers, Running(t), Head(Script(t)).op # "release", NEW c,
             DOMAIN c = CallFields, c.todo = netcall[t].todo, c.lost = netcall[t].lost,
             c.held = netcall[t].held, Step(t, c) \/ Write(t, c)
      PROVE  NetInvariant'
  BY <1>1, <1>8, StepPreserves, Zenon
<1>9. ASSUME NEW t \in Callers, Running(t), Head(Script(t)).op # "release",
             Step(t, netcall[t]) \/ Write(t, netcall[t])
      PROVE  NetInvariant'
  <2> DEFINE c == netcall[t]
  <2>1. /\ DOMAIN c = CallFields /\ c.todo = netcall[t].todo /\ c.lost = netcall[t].lost
        /\ c.held = netcall[t].held /\ (Step(t, c) \/ Write(t, c))
    BY <1>2, <1>9
  <2> HIDE DEF c
  <2> QED
    BY <1>8, <1>9, <2>1, Zenon
<1>10. ASSUME NEW t \in Callers, NEW f, Running(t), Head(Script(t)).op # "release",
              Write(t, WithDone(netcall[t], f))
       PROVE  NetInvariant'
  <2> DEFINE c == WithDone(netcall[t], f)
  <2>1. /\ DOMAIN c = CallFields /\ c.todo = netcall[t].todo /\ c.lost = netcall[t].lost
        /\ c.held = netcall[t].held
    BY <1>2 DEF WithDone, CallFields
  <2>2. Write(t, c)
    BY <1>10
  <2> HIDE DEF c
  <2> QED
    BY <1>8, <1>10, <2>1, <2>2, Zenon
<1>11. ASSUME NEW t \in Callers, Get(t) \/ None(t)
       PROVE  NetInvariant'
  <2>1. PICK v : /\ Running(t) /\ Head(Script(t)).op # "release"
                 /\ \/ Step(t, [netcall[t] EXCEPT !.out[On(t)] = v])
                    \/ Step(t, WithDone([netcall[t] EXCEPT !.out[On(t)] = v], On(t)))
    BY <1>11 DEF Get, None, At
  <2> DEFINE b == [netcall[t] EXCEPT !.out[On(t)] = v]
             c == WithDone(b, On(t))
  <2>2. /\ DOMAIN b = CallFields /\ b.todo = netcall[t].todo /\ b.lost = netcall[t].lost
        /\ b.held = netcall[t].held
    BY <1>2 DEF CallFields
  <2>3. Step(t, b) \/ Step(t, c)
    BY <2>1
  <2> HIDE DEF b
  <2>4. /\ DOMAIN c = CallFields /\ c.todo = netcall[t].todo /\ c.lost = netcall[t].lost
        /\ c.held = netcall[t].held
    BY <2>2 DEF WithDone, CallFields
  <2> HIDE DEF c
  <2> QED
    BY <1>8, <2>1, <2>2, <2>3, <2>4, Zenon
<1>12. ASSUME NEW t \in Callers,
              Check(t) \/ Set(t) \/ RecordServer(t) \/ Truncate(t) \/ AppendServer(t)
       PROVE  NetInvariant'
  <2>1. /\ Running(t) /\ Head(Script(t)).op # "release"
        /\ \/ Step(t, netcall[t]) \/ Write(t, netcall[t])
           \/ \E f : Write(t, WithDone(netcall[t], f))
    BY <1>12 DEF Check, Set, RecordServer, Truncate, AppendServer, At
  <2> QED
    BY <1>9, <1>10, <2>1
<1>13. ASSUME NEW t \in Callers, NetFail(t)
       PROVE  NetInvariant'
  <2> DEFINE s == Head(Script(t))
             st == StatusAfter(netcall[t])
             lost == netcall[t].lost \union {<<s.op, s.on, r>> : r \in netcall[t].held \ s.undo}
             d == [netcall[t] EXCEPT !.todo = Tail(@), !.held = {}, !.status = st, !.lost = lost]
  <2>1. /\ netcall[t].todo # <<>> /\ s.op \in {"acquire", "check", "get", "set"}
        /\ s = Head(Head(netcall[t].todo))
    BY <1>13 DEF NetFail, At, Running, Script
  <2>2. netcall' = [netcall EXCEPT ![t].todo = Tail(@), ![t].held = {}, ![t].status = st,
                                   ![t].lost = @ \union {<<s.op, s.on, r>> : r \in netcall[t].held \ s.undo}]
    BY <1>13 DEF NetFail
  <2> HIDE DEF s, st
  <2>3. netcall' = [netcall EXCEPT ![t] = d]
    BY <1>2, <2>2 DEF CallFields
  <2>4. DOMAIN d = CallFields /\ d.todo = Tail(netcall[t].todo) /\ d.held = {} /\ d.lost = lost
    BY <1>2 DEF CallFields
  <2> HIDE DEF d
  <2>5. CallHolds(d)
    BY <1>2, <2>1, <2>4, FailHolds
  <2> QED
    BY <1>1, <2>3, <2>4, <2>5, OneCallChanges, Zenon
<1>14. ASSUME NEW t \in Callers, NetReturn(t)
       PROVE  NetInvariant'
  <2>1. netcall' = [netcall EXCEPT ![t] = NoCall]
    BY <1>14 DEF NetReturn
  <2> QED
    BY <1>1, <2>1, IdleHolds, OneCallChanges, Zenon
<1> QED
  BY <1>3, <1>4, <1>5, <1>6, <1>7, <1>11, <1>12, <1>13, <1>14 DEF NetNext

\* Every call is at a step of its scripts and holds nothing beyond what they
\* have acquired by then.
THEOREM NetInvariance == NetSpec => []NetInvariant
<1>1. NetInit => NetInvariant
  BY NetInitHolds
<1>2. NetInvariant /\ [NetNext]_netVars => NetInvariant'
  BY NetStep
<1> QED
  BY <1>1, <1>2, PTL DEF NetSpec

\* The network helpers release sockets, pipes and resolver states on every
\* path, an error of any step included, but for the three named leaks.
THEOREM LeaksAreKnown == NetSpec => []OnlyKnownLeaks
<1>1. NetInvariant => OnlyKnownLeaks
  BY DEF NetInvariant, CallHolds, KnownLeaks, OnlyKnownLeaks, Running
<1> QED
  BY <1>1, NetInvariance, PTL

-----------------------------------------------------------------------------
(* What a call nobody interferes with has done.  The calls are followed    *)
(* through their scripts: script Cur of the function, step Pos of it.      *)

Cur(c) == Len(c.fn) - Len(c.todo) + 1

Pos(c) == Len(c.fn[Cur(c)]) - Len(c.todo[1]) + 1

\* What is left of a function from step n of its script k on.
Left(fn, todo, k, n) ==
  /\ Len(todo) <= Len(fn)
  /\ \A i \in 2 .. Len(todo) : todo[i] = fn[k + i - 1]
  /\ todo # <<>> => n \in 1 .. Len(fn[k]) /\ Rest(todo[1], fn[k], n)

NoEmptyScript(fn) == \A k \in 1 .. Len(fn) : Len(fn[k]) >= 1

\* What a call has left are the last steps of its function.
Placed(c) ==
  /\ c.fn \in Seq(Seq(Steps)) /\ c.todo \in Seq(Seq(Steps))
  /\ NoEmptyScript(c.fn)
  /\ Left(c.fn, c.todo, Cur(c), Pos(c))

\* Step n of script k comes before step n1 of script k1.
Before(k, n, k1, n1) == k1 > k \/ (k1 = k /\ n1 > n)

\* A call has taken step n of script k.
Past(c, k, n) == Before(k, n, Cur(c), Pos(c))

Alone(c, fn) == c.fn = fn /\ c.alone
Clean(c, fn) == Alone(c, fn) /\ c.status = "EMBER_EOK"

\* How far undisturbed calls have come, on interface i with resolv.conf r.
AttrStage(c, i, r) ==
  Alone(c, set_ip_attr) =>
    /\ c.done \subseteq {"ip", "mask", "gw", "dns"}
    /\ "ip" \in c.done => Past(c, 1, 2) /\ i["ip"] = Parsed("ip", c.arg["ip"])
    /\ "mask" \in c.done => Past(c, 2, 2) /\ i["mask"] = Parsed("mask", c.arg["mask"])
    /\ "gw" \in c.done => Past(c, 3, 2) /\ i["gw"] = Parsed("gw", c.arg["gw"])
    /\ "dns" \in c.done => Past(c, 4, 2) /\ r # <<>> /\ r[1] = c.arg["dns"]

DnsStage(c, r) ==
  (Alone(c, <<set_local_dns>>) /\ "dns" \in c.done) =>
    Past(c, 1, 2) /\ \A n \in 1 .. Len(r) : r[n] = c.arg["dns"]

StatusStage(c, i) ==
  (Clean(c, <<set_netdev_status>>) /\ Past(c, 1, 3)) => i.flags = NewFlags(c)

WriteStage(c, s, n, f, i) ==
  (Clean(c, <<s>>) /\ Past(c, 1, n)) => i[f] = Parsed(f, c.arg[f])

WriteStages(c, i) ==
  /\ WriteStage(c, set_local_mac, 4, "mac", i)
  /\ WriteStage(c, set_local_ip, 2, "ip", i)
  /\ WriteStage(c, set_local_netmask, 2, "mask", i)
  /\ WriteStage(c, set_local_gateway, 2, "gw", i)

Value(f, i, r) == IF f = "dns" THEN Server(r) ELSE i[f]

ReadStage(c, fn, f, i, r) == (Clean(c, <<fn>>) /\ Past(c, 1, 2)) => c.out[f] = Value(f, i, r)

ReadStages(c, i, r) ==
  /\ ReadStage(c, get_local_mac, "mac", i, r)
  /\ ReadStage(c, get_local_ip, "ip", i, r)
  /\ ReadStage(c, get_local_netmask, "mask", i, r)
  /\ ReadStage(c, get_local_gateway, "gw", i, r)
  /\ ReadStage(c, get_local_dns, "dns", i, r)
  /\ ReadStage(c, get_netdev_status, "link", i, r)

Stages(c, i, r) ==
  AttrStage(c, i, r) /\ DnsStage(c, r) /\ StatusStage(c, i) /\ WriteStages(c, i) /\ ReadStages(c, i, r)

Values == Addrs \union {BadAddr, "LINK_UP", "LINK_DOWN"}

InterfaceFields == {"mac", "ip", "mask", "gw", "flags", "link"}

\* A call on interface i with resolv.conf r.
Right(c, i, r) ==
  /\ c.arg \in [Fields -> Values] /\ DOMAIN c.out = Fields
  /\ Placed(c)
  /\ c.fn = <<>> => c.todo = <<>>
  /\ Stages(c, i, r)

RightInvariant ==
  /\ NetInvariant
  /\ DOMAIN net = InterfaceFields
  /\ resolv \in Seq(Values)
  /\ \A t \in Callers : Right(netcall[t], net, resolv)

\* The steps the stages are about.
LEMMA Sites ==
  /\ Len(set_ip_attr) = 4
  /\ set_ip_attr[1] = set_local_ip /\ set_ip_attr[2] = set_local_netmask
  /\ set_ip_attr[3] = set_local_gateway /\ set_ip_attr[4] = set_local_dns
  /\ \A s \in {set_local_ip, set_local_netmask, set_local_gateway} :
       /\ Len(s) = 3 /\ s[1].op = "acquire" /\ s[2].op = "set" /\ s[3].op = "release"
  /\ set_local_ip[2].on = "ip" /\ set_local_netmask[2].on = "mask" /\ set_local_gateway[2].on = "gw"
  /\ Len(set_local_dns) = 3 /\ set_local_dns[1].op = "record" /\ set_local_dns[2].op = "truncate"
  /\ set_local_dns[3].op = "append"
  /\ Len(set_netdev_status) = 4 /\ set_netdev_status[1].op = "acquire"
  /\ set_netdev_status[2].op = "get" /\ set_netdev_status[3].op = "set"
  /\ set_netdev_status[3].on = "flags" /\ set_netdev_status[4].op = "release"
  /\ Len(set_local_mac) = 5 /\ set_local_mac[1].op = "check" /\ set_local_mac[2].op = "acquire"
  /\ set_local_mac[3].op = "check" /\ set_local_mac[4].op = "set" /\ set_local_mac[4].on = "mac"
  /\ set_local_mac[5].op = "release"
<1> USE DEF Socket, CloseSocket, Ioctl, Do
<1>1. /\ Len(set_ip_attr) = 4
      /\ set_ip_attr[1] = set_local_ip /\ set_ip_attr[2] = set_local_netmask
      /\ set_ip_attr[3] = set_local_gateway /\ set_ip_attr[4] = set_local_dns
  BY DEF set_ip_attr
<1>2. /\ Len(set_local_ip) = 3 /\ set_local_ip[1].op = "acquire" /\ set_local_ip[2].op = "set"
      /\ set_local_ip[3].op = "release" /\ set_local_ip[2].on = "ip"
  BY DEF set_local_ip
<1>3. /\ Len(set_local_netmask) = 3 /\ set_local_netmask[1].op = "acquire"
      /\ set_local_netmask[2].op = "set" /\ set_local_netmask[3].op = "release"
      /\ set_local_netmask[2].on = "mask"
  BY DEF set_local_netmask
<1>4. /\ Len(set_local_gateway) = 3 /\ set_local_gateway[1].op = "acquire"
      /\ set_local_gateway[2].op = "set" /\ set_local_gateway[3].op = "release"
      /\ set_local_gateway[2].on = "gw"
  BY DEF set_local_gateway
<1>5. /\ Len(set_local_dns) = 3 /\ set_local_dns[1].op = "record"
      /\ set_local_dns[2].op = "truncate" /\ set_local_dns[3].op = "append"
  BY DEF set_local_dns
<1>6. /\ Len(set_netdev_status) = 4 /\ set_netdev_status[1].op = "acquire"
      /\ set_netdev_status[2].op = "get" /\ set_netdev_status[3].op = "set"
      /\ set_netdev_status[3].on = "flags" /\ set_netdev_status[4].op = "release"
  BY DEF set_netdev_status
<1>7. /\ Len(set_local_mac) = 5 /\ set_local_mac[1].op = "check" /\ set_local_mac[2].op = "acquire"
      /\ set_local_mac[3].op = "check" /\ set_local_mac[4].op = "set" /\ set_local_mac[4].on = "mac"
      /\ set_local_mac[5].op = "release"
  BY DEF set_local_mac
<1>8. \A s \in {set_local_ip, set_local_netmask, set_local_gateway} :
         /\ Len(s) = 3 /\ s[1].op = "acquire" /\ s[2].op = "set" /\ s[3].op = "release"
  BY <1>2, <1>3, <1>4
<1> QED
  BY <1>1, <1>2, <1>3, <1>4, <1>5, <1>6, <1>7, <1>8

\* The six get functions acquire, get one field and release.
LEMMA ReadSites ==
  /\ \A s \in {get_local_mac, get_local_ip, get_local_netmask, get_local_gateway, get_local_dns,
               get_netdev_status} :
       Len(s) = 3 /\ s[1].op = "acquire" /\ s[2].op = "get" /\ s[3].op = "release"
  /\ get_local_mac[2].on = "mac" /\ get_local_ip[2].on = "ip" /\ get_local_netmask[2].on = "mask"
  /\ get_local_gateway[2].on = "gw" /\ get_local_dns[2].on = "dns" /\ get_netdev_status[2].on = "link"
BY DEF get_local_mac, get_local_ip, get_local_netmask, get_local_gateway, get_local_dns,
       get_netdev_status, Socket, CloseSocket, Ioctl, Do

\* A call that has begun has taken no step, one that has ended all of them.
LEMMA BegunPlaced ==
  ASSUME NEW c, c.fn \in Seq(Seq(Steps)), c.fn # <<>>, c.todo = c.fn,
         \A k \in 1 .. Len(c.fn) : c.fn[k] \in Scripts
  PROVE  /\ Placed(c)
         /\ \A k, n \in Nat : k >= 1 /\ n >= 1 => ~Past(c, k, n)
<1> DEFINE fn == c.fn
<1>1. /\ fn \in Seq(Seq(Steps)) /\ fn # <<>> /\ c.todo = fn /\ Len(fn) \in Nat /\ Len(fn) >= 1
      /\ \A k \in 1 .. Len(fn) : fn[k] \in Scripts
  OBVIOUS
<1>2. \A k \in 1 .. Len(fn) : Len(fn[k]) \in Nat /\ Len(fn[k]) >= 1 /\ Rest(fn[k], fn[k], 1)
  BY ScriptsAreCareful, WholeScript DEF WellFormed
<1>3. Cur(c) = 1
  BY <1>1 DEF Cur
<1>4. Pos(c) = 1
  BY <1>1, <1>2, <1>3 DEF Pos
<1>5. \A i \in 2 .. Len(fn) : 1 + i - 1 = i
  BY <1>1
<1>6. 1 \in 1 .. Len(fn) /\ 1 \in 1 .. Len(fn[1])
  BY <1>1, <1>2
<1>7. Placed(c)
  BY <1>1, <1>2, <1>3, <1>4, <1>5, <1>6 DEF Placed, Left, NoEmptyScript
<1>8. \A k, n \in Nat : k >= 1 /\ n >= 1 => ~Past(c, k, n)
  BY <1>3, <1>4 DEF Past, Before
<1> QED
  BY <1>7, <1>8

\* Past a step, what is left is the rest from the next one on.
LEMMA RestTail ==
  ASSUME NEW p \in Seq(Steps), Len(p) > 1, NEW s \in Seq(Steps), NEW n \in 1 .. Len(s), Rest(p, s, n)
  PROVE  Tail(p) \in Seq(Steps) /\ Len(Tail(p)) = Len(p) - 1 /\ Rest(Tail(p), s, n + 1)
<1> DEFINE q == Tail(p)
<1>1. /\ q \in Seq(Steps) /\ Len(q) = Len(p) - 1 /\ Len(p) \in Nat /\ Len(s) \in Nat /\ n \in Nat
      /\ \A i \in 1 .. Len(q) : q[i] = p[i + 1]
  OBVIOUS
<1> HIDE DEF q
<1>2. ASSUME NEW i \in 1 .. Len(q)
      PROVE  q[i] = s[(n + 1) + i - 1]
  <2>1. i + 1 \in 1 .. Len(p) /\ n + (i + 1) - 1 = (n + 1) + i - 1
    BY <1>1
  <2>2. p[i + 1] = s[n + (i + 1) - 1]
    BY <2>1 DEF Rest
  <2>3. q[i] = p[i + 1]
    BY <1>1
  <2> QED
    BY <2>1, <2>2, <2>3, Zenon
<1>3. Len(q) = Len(s) - (n + 1) + 1
  BY <1>1 DEF Rest
<1>4. Rest(q, s, n + 1)
  BY <1>2, <1>3 DEF Rest
<1> QED
  BY <1>1, <1>4 DEF q

\* What is left tells the number of the step.
LEMMA RestLength ==
  ASSUME NEW p \in Seq(Steps), NEW s \in Seq(Steps), NEW n \in 1 .. Len(s), Rest(p, s, n)
  PROVE  /\ Len(s) \in Nat /\ Len(p) \in Nat /\ n \in Nat
         /\ Len(p) = Len(s) - n + 1 /\ n = Len(s) - Len(p) + 1
         /\ Len(p) = 1 => n = Len(s)
         /\ Len(p) # 1 => Len(p) > 1 /\ n + 1 \in 1 .. Len(s) /\ n + 1 = Len(s) - (Len(p) - 1) + 1
         /\ p # <<>> /\ Head(p) = s[n]
<1>1. Len(s) \in Nat /\ Len(p) \in Nat /\ n \in Nat /\ Len(p) = Len(s) - n + 1
  BY DEF Rest
<1>2. 1 \in 1 .. Len(p) /\ n + 1 - 1 = n
  BY <1>1
<1>3. p[1] = s[n]
  BY <1>2 DEF Rest
<1>4. p # <<>> /\ Head(p) = p[1]
  BY <1>2
<1> QED
  BY <1>1, <1>3, <1>4

\* All of a script is left at its first step.
LEMMA WholeRest ==
  ASSUME NEW s \in Seq(Steps), Len(s) >= 1
  PROVE  Len(s) - Len(s) + 1 = 1 /\ 1 \in 1 .. Len(s) /\ Rest(s, s, 1)
<1>1. Len(s) \in Nat
  OBVIOUS
<1>2. Len(s) = Len(s) - 1 + 1 /\ \A i \in 1 .. Len(s) : 1 + i - 1 = i
  BY <1>1
<1>3. Rest(s, s, 1)
  BY <1>2, Zenon DEF Rest
<1> QED
  BY <1>1, <1>3

\* The last step of a script.
LEMMA LastStep ==
  ASSUME NEW fn \in Seq(Seq(Steps)), NEW todo \in Seq(Seq(Steps)), NoEmptyScript(fn),
         todo # <<>>, NEW k0, NEW n0, Left(fn, todo, k0, n0), k0 = Len(fn) - Len(todo) + 1
  PROVE  \/ Tail(todo) = <<>> /\ \A n : Left(fn, Tail(todo), k0 + 1, n)
         \/ /\ Tail(todo) # <<>> /\ Left(fn, Tail(todo), k0 + 1, 1)
            /\ Len(fn[k0 + 1]) - Len(Tail(todo)[1]) + 1 = 1
<1> DEFINE rest == Tail(todo)
<1>1. /\ Len(fn) \in Nat /\ Len(todo) \in Nat /\ Len(todo) >= 1
      /\ rest \in Seq(Seq(Steps)) /\ Len(rest) = Len(todo) - 1
      /\ \A i \in 1 .. Len(rest) : rest[i] = todo[i + 1]
  OBVIOUS
<1>2. /\ Len(todo) <= Len(fn) /\ \A i \in 2 .. Len(todo) : todo[i] = fn[k0 + i - 1]
  BY Zenon DEF Left
<1>3. k0 \in 1 .. Len(fn) /\ k0 \in Nat
  BY <1>1, <1>2
<1> HIDE DEF rest
<1>7. ASSUME NEW i \in 1 .. Len(rest)
      PROVE  rest[i] = fn[(k0 + 1) + i - 1]
  <2>1. i + 1 \in 2 .. Len(todo) /\ k0 + (i + 1) - 1 = (k0 + 1) + i - 1
    BY <1>1, <1>3
  <2>2. rest[i] = todo[i + 1]
    BY <1>1
  <2>3. todo[i + 1] = fn[k0 + (i + 1) - 1]
    BY <1>2, <2>1, Zenon
  <2> QED
    BY <2>1, <2>2, <2>3, Zenon
<1>8. ASSUME rest # <<>>
      PROVE  /\ 1 \in 1 .. Len(fn[k0 + 1]) /\ Rest(rest[1], fn[k0 + 1], 1)
             /\ Len(fn[k0 + 1]) - Len(rest[1]) + 1 = 1
  <2>1. Len(rest) >= 1
    BY <1>1, <1>8
  <2>2. 1 \in 1 .. Len(rest) /\ (k0 + 1) + 1 - 1 = k0 + 1 /\ k0 + 1 \in 1 .. Len(fn)
    BY <1>1, <1>3, <2>1
  <2>3. rest[1] = fn[k0 + 1]
    BY <1>7, <2>2
  <2>4. fn[k0 + 1] \in Seq(Steps)
    BY <2>2
  <2>5. Len(fn[k0 + 1]) >= 1
    BY <2>2, Zenon DEF NoEmptyScript
  <2> QED
    BY <2>3, <2>4, <2>5, WholeRest, Zenon
<1>9. Len(rest) <= Len(fn) /\ \A i \in 2 .. Len(rest) : i \in 1 .. Len(rest)
  BY <1>1, <1>2
<1>10. CASE rest = <<>>
  <2>1. \A n : Left(fn, rest, k0 + 1, n)
    BY <1>7, <1>9, <1>10, Zenon DEF Left
  <2> QED
    BY <1>10, <2>1, Zenon DEF rest
<1>11. CASE rest # <<>>
  <2>1. Left(fn, rest, k0 + 1, 1)
    BY <1>7, <1>8, <1>9, <1>11, Zenon DEF Left
  <2> QED
    BY <1>8, <1>11, <2>1, Zenon DEF rest
<1> QED
  BY <1>10, <1>11

\* What is left after a step before the last one of a script.
Within(todo) == <<Tail(todo[1])>> \o Tail(todo)

\* A step that is not the last of its script.
LEMMA InnerStep ==
  ASSUME NEW fn \in Seq(Seq(Steps)), NEW todo \in Seq(Seq(Steps)),
         todo # <<>>, Len(todo[1]) # 1, NEW k0 \in 1 .. Len(fn), NEW n0, Left(fn, todo, k0, n0)
  PROVE  /\ Within(todo) \in Seq(Seq(Steps)) /\ Len(Within(todo)) = Len(todo)
         /\ Left(fn, Within(todo), k0, n0 + 1) /\ Len(Within(todo)[1]) = Len(todo[1]) - 1
<1> DEFINE after == Within(todo)
<1> DEFINE rest == Tail(todo)
           p == Tail(todo[1])
<1>1. /\ Len(fn) \in Nat /\ Len(todo) \in Nat /\ Len(todo) >= 1
      /\ rest \in Seq(Seq(Steps)) /\ Len(rest) = Len(todo) - 1
      /\ \A i \in 1 .. Len(rest) : rest[i] = todo[i + 1]
  OBVIOUS
<1>2. /\ Len(todo) <= Len(fn) /\ \A i \in 2 .. Len(todo) : todo[i] = fn[k0 + i - 1]
      /\ n0 \in 1 .. Len(fn[k0]) /\ Rest(todo[1], fn[k0], n0)
  BY Zenon DEF Left
<1>4. fn[k0] \in Seq(Steps) /\ todo[1] \in Seq(Steps)
  BY <1>1
<1>5. /\ Len(todo[1]) > 1 /\ n0 + 1 \in 1 .. Len(fn[k0])
      /\ n0 + 1 = Len(fn[k0]) - (Len(todo[1]) - 1) + 1
  BY <1>2, <1>4, RestLength, Zenon
<1>7. p \in Seq(Steps) /\ Len(p) = Len(todo[1]) - 1 /\ Rest(p, fn[k0], n0 + 1)
  BY <1>2, <1>4, <1>5, RestTail, Zenon
<1>8. after = <<p>> \o rest
  BY DEF Within
<1> HIDE DEF p, rest, after
<1>9. /\ after \in Seq(Seq(Steps)) /\ Len(after) = Len(rest) + 1 /\ after[1] = p /\ after # <<>>
      /\ \A i \in 2 .. Len(after) : after[i] = rest[i - 1] /\ i - 1 \in 1 .. Len(rest)
  <2> DEFINE a == <<p>> \o rest
  <2>1. a = <<p>> \o rest
    OBVIOUS
  <2> HIDE DEF a
  <2>2. /\ a \in Seq(Seq(Steps)) /\ Len(a) = Len(rest) + 1 /\ a[1] = p /\ a # <<>>
        /\ \A i \in 2 .. Len(a) : a[i] = rest[i - 1] /\ i - 1 \in 1 .. Len(rest)
    <3>1. p \in Seq(Steps) /\ rest \in Seq(Seq(Steps))
      BY <1>1, <1>7, Zenon
    <3> QED
      BY <2>1, <3>1, Pushed
  <2>3. a = after
    BY <1>8, <2>1
  <2> QED
    BY <2>2, <2>3
<1>10. Len(after) = Len(todo)
  BY <1>1, <1>9
<1>11. ASSUME NEW i \in 2 .. Len(after)
       PROVE  after[i] = fn[k0 + i - 1]
  <2>1. i \in 2 .. Len(todo) /\ (i - 1) + 1 = i
    BY <1>1, <1>10
  <2>2. after[i] = rest[i - 1] /\ i - 1 \in 1 .. Len(rest)
    BY <1>9, Zenon
  <2>3. rest[i - 1] = todo[(i - 1) + 1]
    BY <1>1, <2>2, Zenon
  <2> QED
    BY <1>2, <2>1, <2>2, <2>3, Zenon
<1>12. Left(fn, after, k0, n0 + 1)
  BY <1>2, <1>5, <1>7, <1>9, <1>10, <1>11, Zenon DEF Left
<1> QED
  BY <1>5, <1>7, <1>9, <1>10, <1>12, Zenon DEF after

\* What a step of a call makes of the step it is at.
LEMMA StepPast ==
  ASSUME NEW fn \in Seq(Seq(Steps)), NEW k0 \in 1 .. Len(fn), NEW n0 \in 1 .. Len(fn[k0]),
         NEW k1, NEW n1,
         \/ k1 = k0 /\ n1 = n0 + 1
         \/ k1 = k0 + 1 /\ n0 = Len(fn[k0]) /\ (k0 < Len(fn) => n1 = 1),
         NEW k \in 1 .. Len(fn), NEW n \in 1 .. Len(fn[k])
  PROVE  Before(k, n, k1, n1) <=> Before(k, n, k0, n0) \/ (k = k0 /\ n = n0)
<1>1. fn[k] \in Seq(Steps) /\ fn[k0] \in Seq(Steps)
  OBVIOUS
<1>2. Len(fn[k]) \in Nat /\ Len(fn[k0]) \in Nat
  BY <1>1
<1>3. /\ Len(fn) \in Nat /\ k \in Nat /\ k0 \in Nat /\ k <= Len(fn)
      /\ n \in Nat /\ n >= 1 /\ n <= Len(fn[k]) /\ n0 \in Nat
  BY <1>2
<1>4. CASE k1 = k0 /\ n1 = n0 + 1
  BY <1>3, <1>4 DEF Before
<1>5. CASE k1 = k0 + 1 /\ n0 = Len(fn[k0]) /\ (k0 < Len(fn) => n1 = 1)
  <2>1. CASE k1 > k
    <3>1. k0 > k \/ k0 = k
      BY <1>3, <1>5, <2>1
    <3>2. CASE k0 = k
      <4>1. n <= n0
        BY <1>3, <1>5, <3>2
      <4> QED
        BY <1>3, <2>1, <3>2, <4>1 DEF Before
    <3> QED
      BY <2>1, <3>1, <3>2 DEF Before
  <2>2. CASE ~(k1 > k)
    <3>1. k1 <= k /\ k0 < k
      BY <1>3, <1>5, <2>2
    <3>2. k0 < Len(fn)
      BY <1>3, <3>1
    <3> QED
      BY <1>3, <1>5, <3>1, <3>2 DEF Before
  <2> QED
    BY <2>1, <2>2
<1> QED
  BY <1>4, <1>5

\* The step a call takes next, and the steps it has taken after it.
LEMMA StepPlaced ==
  ASSUME NEW c, NEW d, Placed(c), c.todo # <<>>, d.fn = c.fn,
         d.todo = IF Len(Head(c.todo)) = 1 THEN Tail(c.todo)
                  ELSE <<Tail(Head(c.todo))>> \o Tail(c.todo)
  PROVE  /\ Placed(d)
         /\ Cur(c) \in 1 .. Len(c.fn) /\ Pos(c) \in 1 .. Len(c.fn[Cur(c)])
         /\ Head(Head(c.todo)) = c.fn[Cur(c)][Pos(c)]
         /\ \A k \in 1 .. Len(c.fn) : \A n \in 1 .. Len(c.fn[k]) :
              Past(d, k, n) <=> Past(c, k, n) \/ (k = Cur(c) /\ n = Pos(c))
<1> DEFINE fn == c.fn
           todo == c.todo
           after == d.todo
           k0 == Cur(c)
           n0 == Pos(c)
           k1 == Cur(d)
           n1 == Pos(d)
<1>1. /\ fn \in Seq(Seq(Steps)) /\ todo \in Seq(Seq(Steps)) /\ todo # <<>> /\ NoEmptyScript(fn)
      /\ Left(fn, todo, k0, n0)
  BY Zenon DEF Placed
<1>2. /\ k0 = Len(fn) - Len(todo) + 1 /\ k1 = Len(fn) - Len(after) + 1
      /\ n0 = Len(fn[k0]) - Len(todo[1]) + 1 /\ n1 = Len(fn[k1]) - Len(after[1]) + 1
  BY Zenon DEF Cur, Pos
<1>3. /\ Len(Head(todo)) = 1 => after = Tail(todo)
      /\ Len(Head(todo)) # 1 => after = <<Tail(Head(todo))>> \o Tail(todo)
  BY Zenon
<1>4. /\ \A k, n : Past(c, k, n) <=> Before(k, n, k0, n0)
      /\ \A k, n : Past(d, k, n) <=> Before(k, n, k1, n1)
  BY Zenon DEF Past
<1>5. after \in Seq(Seq(Steps)) /\ NoEmptyScript(fn) /\ Left(fn, after, k1, n1) => Placed(d)
  BY <1>1, Zenon DEF Placed
<1> HIDE DEF fn, todo, after, k0, n0, k1, n1
<1>6. /\ Len(fn) \in Nat /\ Len(todo) \in Nat /\ Len(todo) >= 1 /\ Len(todo) <= Len(fn)
      /\ Head(todo) = todo[1] /\ todo[1] \in Seq(Steps)
  <2>1. Len(todo) <= Len(fn)
    BY <1>1, Zenon DEF Left
  <2> QED
    BY <1>1, <2>1, SMTT(30)
<1>7. k0 \in 1 .. Len(fn) /\ k0 \in Nat
  BY <1>2, <1>6
<1>8. fn[k0] \in Seq(Steps) /\ n0 \in 1 .. Len(fn[k0]) /\ Rest(todo[1], fn[k0], n0)
  <2>1. n0 \in 1 .. Len(fn[k0]) /\ Rest(todo[1], fn[k0], n0)
    BY <1>1, Zenon DEF Left
  <2>2. fn[k0] \in Seq(Steps)
    BY <1>1, <1>7
  <2> QED
    BY <2>1, <2>2
<1>9. Head(todo[1]) = fn[k0][n0] /\ (Len(todo[1]) = 1 => n0 = Len(fn[k0]))
  BY <1>6, <1>8, RestLength, SMTT(30)
<1>10. ASSUME Len(todo[1]) = 1
       PROVE  /\ after \in Seq(Seq(Steps)) /\ Left(fn, after, k1, n1)
              /\ k0 \in 1 .. Len(fn) /\ n0 \in 1 .. Len(fn[k0])
              /\ Head(Head(todo)) = fn[k0][n0]
              /\ \/ k1 = k0 /\ n1 = n0 + 1
                 \/ k1 = k0 + 1 /\ n0 = Len(fn[k0]) /\ (k0 < Len(fn) => n1 = 1)
  <2>1. after = Tail(todo)
    BY <1>3, <1>6, <1>10, Zenon
  <2>2. after \in Seq(Seq(Steps)) /\ Len(after) = Len(todo) - 1
    BY <1>1, <2>1
  <2>3. k1 = k0 + 1
    BY <1>2, <1>6, <2>2
  <2>4. \/ after = <<>> /\ Left(fn, after, k1, n1)
        \/ after # <<>> /\ Left(fn, after, k1, 1) /\ n1 = 1
    <3>1. \/ Tail(todo) = <<>> /\ \A n : Left(fn, Tail(todo), k0 + 1, n)
          \/ /\ Tail(todo) # <<>> /\ Left(fn, Tail(todo), k0 + 1, 1)
             /\ Len(fn[k0 + 1]) - Len(Tail(todo)[1]) + 1 = 1
      <4>1. k0 = Len(fn) - Len(todo) + 1
        BY <1>2
      <4> QED
        BY <1>1, <4>1, LastStep
    <3> QED
      BY <1>2, <2>1, <2>3, <3>1, Zenon
  <2>5. k0 < Len(fn) => after # <<>>
    BY <1>2, <1>6, <2>2
  <2> QED
    BY <1>6, <1>7, <1>8, <1>9, <1>10, <2>2, <2>3, <2>4, <2>5, Zenon
<1>11. ASSUME Len(todo[1]) # 1
       PROVE  /\ after \in Seq(Seq(Steps)) /\ Left(fn, after, k1, n1)
              /\ k0 \in 1 .. Len(fn) /\ n0 \in 1 .. Len(fn[k0])
              /\ Head(Head(todo)) = fn[k0][n0]
              /\ \/ k1 = k0 /\ n1 = n0 + 1
                 \/ k1 = k0 + 1 /\ n0 = Len(fn[k0]) /\ (k0 < Len(fn) => n1 = 1)
  <2>1. after = <<Tail(todo[1])>> \o Tail(todo)
    BY <1>3, <1>6, <1>11, Zenon
  <2>2. /\ after \in Seq(Seq(Steps)) /\ Len(after) = Len(todo)
        /\ Left(fn, after, k0, n0 + 1) /\ Len(after[1]) = Len(todo[1]) - 1
    <3>2. after = Within(todo)
      BY <2>1 DEF Within
    <3>3. /\ Within(todo) \in Seq(Seq(Steps)) /\ Len(Within(todo)) = Len(todo)
          /\ Left(fn, Within(todo), k0, n0 + 1) /\ Len(Within(todo)[1]) = Len(todo[1]) - 1
      BY <1>1, <1>7, <1>11, InnerStep, Zenon
    <3> QED
      BY <3>2, <3>3
  <2>3. k1 = k0
    BY <1>2, <2>2, Zenon
  <2>4. n1 = n0 + 1
    <3>1. n0 + 1 = Len(fn[k0]) - (Len(todo[1]) - 1) + 1
      BY <1>6, <1>8, <1>11, RestLength
    <3> QED
      BY <1>2, <2>2, <2>3, <3>1, Zenon
  <2> QED
    BY <1>6, <1>7, <1>8, <1>9, <2>2, <2>3, <2>4, Zenon
<1>12. /\ after \in Seq(Seq(Steps)) /\ Left(fn, after, k1, n1)
       /\ k0 \in 1 .. Len(fn) /\ n0 \in 1 .. Len(fn[k0])
       /\ Head(Head(todo)) = fn[k0][n0]
       /\ \/ k1 = k0 /\ n1 = n0 + 1
          \/ k1 = k0 + 1 /\ n0 = Len(fn[k0]) /\ (k0 < Len(fn) => n1 = 1)
  BY <1>10, <1>11
<1>13. Placed(d)
  BY <1>1, <1>5, <1>12, Zenon
<1>14. ASSUME NEW k \in 1 .. Len(fn), NEW n \in 1 .. Len(fn[k])
       PROVE  Past(d, k, n) <=> Past(c, k, n) \/ (k = k0 /\ n = n0)
  <2>1. Before(k, n, k1, n1) <=> Before(k, n, k0, n0) \/ (k = k0 /\ n = n0)
    BY <1>1, <1>12, StepPast, SMTT(30)
  <2> QED
    BY <1>4, <2>1
<1> QED
  BY <1>12, <1>13, <1>14, Zenon DEF fn, todo, k0, n0

\* Call d is call c a step later.
Goes(c, d) ==
  /\ c.todo # <<>>
  /\ d.todo = IF Len(Head(c.todo)) = 1 THEN Tail(c.todo)
              ELSE <<Tail(Head(c.todo))>> \o Tail(c.todo)
  /\ d.fn = c.fn /\ d.arg = c.arg /\ d.status = c.status /\ d.alone = c.alone

\* What step s of call c does to it, the interface and resolv.conf.
Effect(s, c, d, i, i2, r, r2) ==
  /\ s.op = "set" =>
       LET v == IF s.on = "flags" THEN NewFlags(c) ELSE Parsed(s.on, c.arg[s.on])
       IN  v # BadAddr /\ i2 = Changed(i, s.on, v)
  /\ s.op # "set" => i2 = i
  /\ s.op = "truncate" =>
       \/ r2 = <<c.arg["dns"]>> /\ d.done = c.done \union {"dns"}
       \/ r2 = r /\ d.done = c.done
  /\ s.op = "append" => r2 = r \/ r2 = Append(r, c.arg["dns"])
  /\ s.op \notin {"truncate", "append"} => r2 = r
  /\ s.op \in {"set", "get"} => d.done = c.done \union {s.on}
  /\ s.op \notin {"set", "get", "truncate"} => d.done = c.done
  /\ s.op = "get" => d.out = [c.out EXCEPT ![s.on] = Value(s.on, i, r)]
  /\ s.op \notin {"get", "none"} => d.out = c.out

\* A step of a call of one script.
LEMMA SingleStep ==
  ASSUME NEW s, NEW c, NEW d, Placed(c), Goes(c, d), c.fn = <<s>>
  PROVE  /\ Cur(c) = 1 /\ Pos(c) \in 1 .. Len(s) /\ Head(Head(c.todo)) = s[Pos(c)]
         /\ \A n \in 1 .. Len(s) : Past(c, 1, n) <=> Pos(c) > n
         /\ \A n \in 1 .. Len(s) : Past(d, 1, n) <=> Pos(c) > n \/ n = Pos(c)
<1>1. /\ Cur(c) \in 1 .. Len(c.fn) /\ Pos(c) \in 1 .. Len(c.fn[Cur(c)])
      /\ Head(Head(c.todo)) = c.fn[Cur(c)][Pos(c)]
      /\ \A k \in 1 .. Len(c.fn) : \A n \in 1 .. Len(c.fn[k]) :
           Past(d, k, n) <=> Past(c, k, n) \/ (k = Cur(c) /\ n = Pos(c))
  BY StepPlaced, Zenon DEF Goes
<1>2. Len(c.fn) = 1 /\ c.fn[1] = s
  OBVIOUS
<1>3. Cur(c) = 1 /\ 1 \in 1 .. Len(c.fn)
  BY <1>1, <1>2
<1>4. \A n : Past(c, 1, n) <=> Pos(c) > n
  BY <1>3 DEF Past, Before
<1> QED
  BY <1>1, <1>2, <1>3, <1>4, Zenon

\* Past its third step set_netdev_status has the flags it is to set.
LEMMA StatusStep ==
  ASSUME NEW c, NEW d, NEW i, NEW i2, NEW r, NEW r2, Placed(c), Goes(c, d),
         DOMAIN i = InterfaceFields,
         Effect(Head(Head(c.todo)), c, d, i, i2, r, r2), StatusStage(c, i)
  PROVE  StatusStage(d, i2)
<1> DEFINE s == set_netdev_status
<1> SUFFICES ASSUME Clean(d, <<s>>), Past(d, 1, 3)
             PROVE  i2.flags = NewFlags(d)
  BY DEF StatusStage
<1>1. Clean(c, <<s>>) /\ c.fn = <<s>>
  BY DEF Clean, Alone, Goes
<1>2. /\ Pos(c) \in 1 .. Len(s) /\ Head(Head(c.todo)) = s[Pos(c)]
      /\ \A n \in 1 .. Len(s) : Past(c, 1, n) <=> Pos(c) > n
      /\ \A n \in 1 .. Len(s) : Past(d, 1, n) <=> Pos(c) > n \/ n = Pos(c)
  BY <1>1, SingleStep, Zenon
<1>3. Len(s) = 4 /\ s[3].op = "set" /\ s[3].on = "flags" /\ s[4].op = "release"
  BY Sites
<1> HIDE DEF s
<1>4. Pos(c) = 3 \/ (Pos(c) = 4 /\ Past(c, 1, 3))
  BY <1>2, <1>3
<1>5. d.out = c.out => NewFlags(d) = NewFlags(c)
  BY DEF NewFlags, Goes
<1>6. CASE Pos(c) = 3
  <2>1. i2 = Changed(i, "flags", NewFlags(c)) /\ d.out = c.out
    BY <1>2, <1>3, <1>6 DEF Effect
  <2>2. i2.flags = NewFlags(c)
    BY <2>1 DEF Changed, InterfaceFields
  <2> QED
    BY <1>5, <2>1, <2>2
<1>7. CASE Pos(c) = 4 /\ Past(c, 1, 3)
  <2>1. i2 = i /\ d.out = c.out
    BY <1>2, <1>3, <1>7 DEF Effect
  <2>2. i.flags = NewFlags(c)
    BY <1>1, <1>7, Zenon DEF StatusStage, s
  <2> QED
    BY <1>5, <2>1, <2>2
<1> QED
  BY <1>4, <1>6, <1>7

\* Script s sets field f in its step m, the last but one.
Writes(s, m, f) ==
  /\ m \in Nat /\ m >= 1 /\ f \in {"mac", "ip", "mask", "gw"}
  /\ Len(s) = m + 1 /\ s[m].op = "set" /\ s[m].on = f /\ s[m + 1].op = "release"

\* Past its setting step a set function of one field has the value in place.
LEMMA WriteStep ==
  ASSUME NEW c, NEW d, NEW i, NEW i2, NEW r, NEW r2, Placed(c), Goes(c, d),
         DOMAIN i = InterfaceFields, Effect(Head(Head(c.todo)), c, d, i, i2, r, r2),
         NEW s, NEW m, NEW f, Writes(s, m, f), WriteStage(c, s, m, f, i)
  PROVE  WriteStage(d, s, m, f, i2)
<1> USE DEF Writes
<1> SUFFICES ASSUME Clean(d, <<s>>), Past(d, 1, m)
             PROVE  i2[f] = Parsed(f, c.arg[f])
  BY DEF WriteStage, Goes
<1>1. Clean(c, <<s>>) /\ c.fn = <<s>>
  BY DEF Clean, Alone, Goes
<1>2. /\ Pos(c) \in 1 .. Len(s) /\ Head(Head(c.todo)) = s[Pos(c)]
      /\ \A n \in 1 .. Len(s) : Past(c, 1, n) <=> Pos(c) > n
      /\ \A n \in 1 .. Len(s) : Past(d, 1, n) <=> Pos(c) > n \/ n = Pos(c)
  BY <1>1, SingleStep, Zenon
<1>3. Pos(c) = m \/ (Pos(c) = m + 1 /\ Past(c, 1, m))
  BY <1>2
<1> DEFINE v == Parsed(f, c.arg[f])
<1>4. CASE Pos(c) = m
  <2>1. s[Pos(c)].op = "set" /\ s[Pos(c)].on = f /\ f # "flags"
    BY <1>4
  <2>2. i2 = Changed(i, f, v)
    BY <1>2, <2>1 DEF Effect
  <2> HIDE DEF v
  <2>3. i2[f] = v
    BY <2>2 DEF Changed, InterfaceFields
  <2> QED
    BY <2>3 DEF v
<1>5. CASE Pos(c) = m + 1 /\ Past(c, 1, m)
  <2>1. i2 = i
    BY <1>2, <1>5 DEF Effect
  <2>2. i[f] = v
    BY <1>1, <1>5, Zenon DEF WriteStage
  <2> QED
    BY <2>1, <2>2
<1> QED
  BY <1>3, <1>4, <1>5

\* Once set_local_dns has written resolv.conf, every line of it is its server.
LEMMA DnsStep ==
  ASSUME NEW c, NEW d, NEW i, NEW i2, NEW r \in Seq(Values), NEW r2, Placed(c), Goes(c, d),
         c.arg["dns"] \in Values,
         Effect(Head(Head(c.todo)), c, d, i, i2, r, r2), DnsStage(c, r)
  PROVE  DnsStage(d, r2)
<1> DEFINE s == set_local_dns
           a == c.arg["dns"]
<1> SUFFICES ASSUME Alone(d, <<s>>), "dns" \in d.done
             PROVE  Past(d, 1, 2) /\ \A n \in 1 .. Len(r2) : r2[n] = a
  BY DEF DnsStage, Goes
<1>1. Alone(c, <<s>>) /\ c.fn = <<s>> /\ a \in Values
  BY DEF Alone, Goes
<1>2. /\ Pos(c) \in 1 .. Len(s) /\ Head(Head(c.todo)) = s[Pos(c)]
      /\ \A n \in 1 .. Len(s) : Past(c, 1, n) <=> Pos(c) > n
      /\ \A n \in 1 .. Len(s) : Past(d, 1, n) <=> Pos(c) > n \/ n = Pos(c)
  BY <1>1, SingleStep, Zenon
<1>3. Len(s) = 3 /\ s[1].op = "record" /\ s[2].op = "truncate" /\ s[3].op = "append"
  BY Sites
<1>4. "dns" \in c.done => Past(c, 1, 2) /\ \A n \in 1 .. Len(r) : r[n] = a
  BY <1>1, Zenon DEF DnsStage
<1>5. Effect(s[Pos(c)], c, d, i, i2, r, r2)
  BY <1>2
<1> HIDE DEF s
<1>6. CASE Pos(c) = 1
  <2>1. d.done = c.done
    BY <1>3, <1>5, <1>6 DEF Effect
  <2>2. ~Past(c, 1, 2)
    BY <1>2, <1>3, <1>6
  <2> QED
    BY <1>4, <2>1, <2>2
<1>7. CASE Pos(c) = 2
  <2>1. ~Past(c, 1, 2) /\ Past(d, 1, 2)
    BY <1>2, <1>3, <1>7
  <2>2. \/ r2 = <<a>>
        \/ r2 = r /\ d.done = c.done
    BY <1>3, <1>5, <1>7 DEF Effect
  <2>3. r2 = <<a>>
    BY <1>4, <2>1, <2>2
  <2> HIDE DEF a
  <2> QED
    BY <2>1, <2>3
<1>8. CASE Pos(c) = 3
  <2>1. d.done = c.done /\ Past(d, 1, 2) /\ (r2 = r \/ r2 = Append(r, a))
    BY <1>2, <1>3, <1>5, <1>8 DEF Effect
  <2>2. \A n \in 1 .. Len(r) : r[n] = a
    BY <1>4, <2>1
  <2> HIDE DEF a
  <2>3. \A n \in 1 .. Len(r2) : r2[n] = a
    BY <1>1, <2>1, <2>2
  <2> QED
    BY <2>1, <2>3
<1>9. Pos(c) = 1 \/ Pos(c) = 2 \/ Pos(c) = 3
  BY <1>2, <1>3
<1> QED
  BY <1>6, <1>7, <1>8, <1>9

\* Past its second step a get function has what is there.
LEMMA ReadStep ==
  ASSUME NEW c, NEW d, NEW i, NEW i2, NEW r, NEW r2, Placed(c), Goes(c, d),
         DOMAIN c.out = Fields, NEW s, NEW f \in Fields,
         Len(s) = 3, s[1].op = "acquire", s[2].op = "get", s[3].op = "release", s[2].on = f,
         Effect(Head(Head(c.todo)), c, d, i, i2, r, r2), ReadStage(c, s, f, i, r)
  PROVE  ReadStage(d, s, f, i2, r2)
<1> SUFFICES ASSUME Clean(d, <<s>>), Past(d, 1, 2)
             PROVE  d.out[f] = Value(f, i2, r2)
  BY DEF ReadStage
<1>1. Clean(c, <<s>>) /\ c.fn = <<s>>
  BY DEF Clean, Alone, Goes
<1>2. /\ Pos(c) \in 1 .. Len(s) /\ Head(Head(c.todo)) = s[Pos(c)]
      /\ \A n \in 1 .. Len(s) : Past(c, 1, n) <=> Pos(c) > n
      /\ \A n \in 1 .. Len(s) : Past(d, 1, n) <=> Pos(c) > n \/ n = Pos(c)
  BY <1>1, SingleStep, Zenon
<1>3. Pos(c) = 2 \/ (Pos(c) = 3 /\ Past(c, 1, 2))
  BY <1>2
<1>4. i2 = i /\ r2 = r
  BY <1>2, <1>3 DEF Effect
<1>5. CASE Pos(c) = 2
  <2>1. d.out = [c.out EXCEPT ![f] = Value(f, i, r)]
    BY <1>2, <1>5 DEF Effect
  <2> QED
    BY <1>4, <2>1
<1>6. CASE Pos(c) = 3 /\ Past(c, 1, 2)
  <2>1. d.out = c.out
    BY <1>2, <1>6 DEF Effect
  <2>2. c.out[f] = Value(f, i, r)
    BY <1>1, <1>6, Zenon DEF ReadStage
  <2> QED
    BY <1>4, <2>1, <2>2
<1> QED
  BY <1>3, <1>5, <1>6

\* What a step of set_ip_attr does to the three fields of the interface: the
\* routes and the mask that a new address or mask undoes are set later.
LEMMA AttrSet ==
  ASSUME NEW i, DOMAIN i = InterfaceFields, NEW k0 \in 1 .. 3, NEW f, NEW v, NEW i2,
         f = IF k0 = 1 THEN "ip" ELSE IF k0 = 2 THEN "mask" ELSE "gw",
         i2 = Changed(i, f, v)
  PROVE  /\ i2[f] = v
         /\ k0 > 1 => i2["ip"] = i["ip"]
         /\ k0 > 2 => i2["mask"] = i["mask"]
<1>1. CASE i[f] = v
  BY <1>1 DEF Changed
<1>2. CASE i[f] # v /\ k0 = 1
  <2>1. i2 = [i EXCEPT !.ip = v, !.mask = ClassMask, !.gw = NONE_IP]
    BY <1>2 DEF Changed
  <2>2. i2["ip"] = v
    BY <2>1 DEF InterfaceFields
  <2> QED
    BY <1>2, <2>2
<1>3. CASE i[f] # v /\ k0 = 2
  <2>1. i2 = [i EXCEPT !.mask = v, !.gw = NONE_IP]
    BY <1>3 DEF Changed
  <2>2. i2["mask"] = v /\ i2["ip"] = i["ip"]
    BY <2>1 DEF InterfaceFields
  <2> QED
    BY <1>3, <2>2
<1>4. CASE i[f] # v /\ k0 = 3
  <2>1. i2 = [i EXCEPT !["gw"] = v]
    BY <1>4 DEF Changed
  <2> QED
    BY <1>4, <2>1 DEF InterfaceFields
<1> QED
  BY <1>1, <1>2, <1>3, <1>4

\* Whatever steps of set_ip_attr failed, what the others have set stays.
LEMMA AttrStep ==
  ASSUME NEW c, NEW d, NEW i, NEW i2, NEW r \in Seq(Values), NEW r2, Placed(c), Goes(c, d),
         DOMAIN i = InterfaceFields, c.arg["dns"] \in Values,
         Effect(Head(Head(c.todo)), c, d, i, i2, r, r2), AttrStage(c, i, r)
  PROVE  AttrStage(d, i2, r2)
<1> DEFINE k0 == Cur(c)
           n0 == Pos(c)
           s == Head(Head(c.todo))
           fn == set_ip_attr
           ip == Parsed("ip", c.arg["ip"])
           mask == Parsed("mask", c.arg["mask"])
           gw == Parsed("gw", c.arg["gw"])
           a == c.arg["dns"]
<1> SUFFICES ASSUME Alone(d, set_ip_attr)
             PROVE  /\ d.done \subseteq {"ip", "mask", "gw", "dns"}
                    /\ "ip" \in d.done => Past(d, 1, 2) /\ i2["ip"] = ip
                    /\ "mask" \in d.done => Past(d, 2, 2) /\ i2["mask"] = mask
                    /\ "gw" \in d.done => Past(d, 3, 2) /\ i2["gw"] = gw
                    /\ "dns" \in d.done => Past(d, 4, 2) /\ r2 # <<>> /\ r2[1] = a
  BY DEF AttrStage, Goes
<1>1. /\ c.fn = fn
      /\ c.done \subseteq {"ip", "mask", "gw", "dns"}
      /\ "ip" \in c.done => Past(c, 1, 2) /\ i["ip"] = ip
      /\ "mask" \in c.done => Past(c, 2, 2) /\ i["mask"] = mask
      /\ "gw" \in c.done => Past(c, 3, 2) /\ i["gw"] = gw
      /\ "dns" \in c.done => Past(c, 4, 2) /\ r # <<>> /\ r[1] = a
  BY DEF AttrStage, Alone, Goes
<1>2. /\ k0 \in 1 .. Len(fn) /\ n0 \in 1 .. Len(fn[k0]) /\ s = fn[k0][n0]
      /\ \A k \in 1 .. Len(fn) : \A n \in 1 .. Len(fn[k]) :
           Past(d, k, n) <=> Past(c, k, n) \/ (k = k0 /\ n = n0)
  <2>1. /\ k0 \in 1 .. Len(c.fn) /\ n0 \in 1 .. Len(c.fn[k0]) /\ s = c.fn[k0][n0]
        /\ \A k \in 1 .. Len(c.fn) : \A n \in 1 .. Len(c.fn[k]) :
             Past(d, k, n) <=> Past(c, k, n) \/ (k = k0 /\ n = n0)
    BY StepPlaced, Zenon DEF Goes
  <2> QED
    BY <1>1, <2>1, Zenon
<1>3. /\ Len(fn) = 4 /\ \A k \in 1 .. 4 : Len(fn[k]) = 3
      /\ \A k \in 1 .. 3 : fn[k][1].op = "acquire" /\ fn[k][2].op = "set" /\ fn[k][3].op = "release"
      /\ fn[1][2].on = "ip" /\ fn[2][2].on = "mask" /\ fn[3][2].on = "gw"
      /\ fn[4][1].op = "record" /\ fn[4][2].op = "truncate" /\ fn[4][3].op = "append"
  <2>1. \A k \in 1 .. 3 : k = 1 \/ k = 2 \/ k = 3
    OBVIOUS
  <2>2. \A k \in 1 .. 4 : k = 1 \/ k = 2 \/ k = 3 \/ k = 4
    OBVIOUS
  <2>3. /\ Len(fn[1]) = 3 /\ Len(fn[2]) = 3 /\ Len(fn[3]) = 3 /\ Len(fn[4]) = 3
        /\ fn[1][1].op = "acquire" /\ fn[1][2].op = "set" /\ fn[1][3].op = "release"
        /\ fn[2][1].op = "acquire" /\ fn[2][2].op = "set" /\ fn[2][3].op = "release"
        /\ fn[3][1].op = "acquire" /\ fn[3][2].op = "set" /\ fn[3][3].op = "release"
    BY Sites, ZenonT(30)
  <2>4. /\ Len(fn) = 4
        /\ fn[1][2].on = "ip" /\ fn[2][2].on = "mask" /\ fn[3][2].on = "gw"
        /\ fn[4][1].op = "record" /\ fn[4][2].op = "truncate" /\ fn[4][3].op = "append"
    BY Sites, ZenonT(30)
  <2> QED
    BY <2>1, <2>2, <2>3, <2>4, Zenon
<1> HIDE DEF fn, s, k0, n0
<1>4. /\ k0 \in 1 .. 4 /\ n0 \in 1 .. 3
      /\ \A k \in 1 .. 4 : Past(d, k, 2) <=> Past(c, k, 2) \/ (k = k0 /\ n0 = 2)
      /\ \A k \in 1 .. 4 : Past(c, k, 2) <=> (k0 > k \/ (k0 = k /\ n0 > 2))
  <2>1. k0 \in 1 .. 4 /\ n0 \in 1 .. 3
    BY <1>2, <1>3, Zenon
  <2>2. \A k \in 1 .. 4 : Past(d, k, 2) <=> Past(c, k, 2) \/ (k = k0 /\ n0 = 2)
    BY <1>2, <1>3
  <2>3. \A k \in 1 .. 4 : Past(c, k, 2) <=> (k0 > k \/ (k0 = k /\ n0 > 2))
    BY Zenon DEF Past, Before, k0, n0
  <2> QED
    BY <2>1, <2>2, <2>3
<1>5. Effect(s, c, d, i, i2, r, r2)
  BY DEF s
<1>6. CASE k0 \in 1 .. 3 /\ n0 = 2
  <2> DEFINE f == IF k0 = 1 THEN "ip" ELSE IF k0 = 2 THEN "mask" ELSE "gw"
             v == Parsed(f, c.arg[f])
  <2>1. s.op = "set" /\ s.on = f
    <3>1. k0 = 1 \/ k0 = 2 \/ k0 = 3
      BY <1>6
    <3> QED
      BY <1>2, <1>3, <1>6, <3>1
  <2>2. r2 = r /\ i2 = Changed(i, f, v) /\ d.done = c.done \union {f}
    BY <1>5, <2>1 DEF Effect
  <2>3. /\ i2[f] = v
        /\ k0 > 1 => i2["ip"] = i["ip"]
        /\ k0 > 2 => i2["mask"] = i["mask"]
    <3> HIDE DEF v
    <3>1. k0 \in 1 .. 3
      BY <1>6
    <3> QED
      BY <2>2, <3>1, AttrSet
  <2>4. CASE k0 = 1
    <3>1. "mask" \notin d.done /\ "gw" \notin d.done /\ "dns" \notin d.done
      BY <1>1, <1>4, <1>6, <2>2, <2>4
    <3>2. Past(d, 1, 2) /\ i2["ip"] = ip
      BY <1>4, <1>6, <2>3, <2>4
    <3> QED
      BY <1>1, <2>2, <2>4, <3>1, <3>2
  <2>5. CASE k0 = 2
    <3>1. "gw" \notin d.done /\ "dns" \notin d.done
      BY <1>1, <1>4, <1>6, <2>2, <2>5
    <3>2. Past(d, 1, 2) /\ Past(d, 2, 2) /\ i2["mask"] = mask /\ i2["ip"] = i["ip"]
      BY <1>4, <1>6, <2>3, <2>5
    <3> QED
      BY <1>1, <2>2, <2>5, <3>1, <3>2
  <2>6. CASE k0 = 3
    <3>1. "dns" \notin d.done
      BY <1>1, <1>4, <1>6, <2>2, <2>6
    <3>2. /\ Past(d, 1, 2) /\ Past(d, 2, 2) /\ Past(d, 3, 2)
          /\ i2["gw"] = gw /\ i2["mask"] = i["mask"] /\ i2["ip"] = i["ip"]
      BY <1>4, <1>6, <2>3, <2>6
    <3> QED
      BY <1>1, <2>2, <2>6, <3>1, <3>2
  <2> QED
    BY <1>6, <2>4, <2>5, <2>6
<1>7. CASE ~(k0 \in 1 .. 3 /\ n0 = 2)
  <2>1. s.op \notin {"set", "get"}
    BY <1>2, <1>3, <1>4, <1>7
  <2>2. i2 = i
    BY <1>5, <2>1 DEF Effect
  <2>3. \A k \in 1 .. 4 : Past(c, k, 2) => Past(d, k, 2)
    BY <1>4
  <2>4. CASE k0 = 4 /\ n0 = 2
    <3>1. s.op = "truncate" /\ Past(d, 4, 2) /\ ~Past(c, 4, 2)
      BY <1>2, <1>3, <1>4, <2>4
    <3>2. \/ r2 = <<a>> /\ d.done = c.done \union {"dns"}
          \/ r2 = r /\ d.done = c.done
      BY <1>5, <3>1 DEF Effect
    <3> HIDE DEF a, ip, mask, gw
    <3>3. "dns" \in d.done => r2 # <<>> /\ r2[1] = a
      BY <1>1, <3>1, <3>2
    <3> QED
      BY <1>1, <2>2, <2>3, <3>1, <3>2, <3>3
  <2>5. CASE ~(k0 = 4 /\ n0 = 2)
    <3>1. s.op # "truncate"
      BY <1>2, <1>3, <1>4, <2>5
    <3>2. d.done = c.done /\ (r2 = r \/ r2 = Append(r, a))
      BY <1>5, <2>1, <3>1 DEF Effect
    <3>3. a \in Values
      OBVIOUS
    <3> HIDE DEF a, ip, mask, gw
    <3>4. "dns" \in d.done => r2 # <<>> /\ r2[1] = a
      BY <1>1, <3>2, <3>3
    <3> QED
      BY <1>1, <2>2, <2>3, <3>2, <3>4
  <2> QED
    BY <2>4, <2>5
<1> QED
  BY <1>6, <1>7

\* A step of a call whose steps so far were undisturbed.
LEMMA RightStep ==
  ASSUME NEW c, NEW d, NEW i, NEW i2, NEW r \in Seq(Values), NEW r2,
         Right(c, i, r), Goes(c, d), DOMAIN i = InterfaceFields, DOMAIN d.out = Fields,
         Effect(Head(Head(c.todo)), c, d, i, i2, r, r2)
  PROVE  Right(d, i2, r2)
<1>1. /\ c.arg \in [Fields -> Values] /\ DOMAIN c.out = Fields /\ Placed(c) /\ c.fn # <<>>
      /\ AttrStage(c, i, r) /\ DnsStage(c, r) /\ StatusStage(c, i) /\ WriteStages(c, i)
      /\ ReadStages(c, i, r)
  BY Zenon DEF Right, Stages, Goes
<1>2. AttrStage(d, i2, r2) /\ DnsStage(d, r2) /\ StatusStage(d, i2)
  <2>1. c.arg["dns"] \in Values
    BY <1>1 DEF Fields
  <2> QED
    BY <1>1, <2>1, AttrStep, DnsStep, StatusStep
<1>3. WriteStages(d, i2)
  <2>1. /\ Writes(set_local_mac, 4, "mac") /\ Writes(set_local_ip, 2, "ip")
        /\ Writes(set_local_netmask, 2, "mask") /\ Writes(set_local_gateway, 2, "gw")
    BY Sites DEF Writes
  <2>2. \A s, m, f : Writes(s, m, f) /\ WriteStage(c, s, m, f, i) => WriteStage(d, s, m, f, i2)
    <3>1. Placed(c)
      BY <1>1
    <3> QED
      BY <3>1, WriteStep, Zenon
  <2> QED
    BY <1>1, <2>1, <2>2, Zenon DEF WriteStages
<1>4. /\ \A s \in {get_local_mac, get_local_ip, get_local_netmask, get_local_gateway, get_local_dns,
                   get_netdev_status} :
           Len(s) = 3 /\ s[1].op = "acquire" /\ s[2].op = "get" /\ s[3].op = "release"
      /\ {"mac", "ip", "mask", "gw", "dns", "link"} \subseteq Fields
  BY ReadSites DEF Fields
<1>5. \A s \in {get_local_mac, get_local_ip, get_local_netmask, get_local_gateway, get_local_dns,
                get_netdev_status} : \A f \in Fields :
        s[2].on = f /\ ReadStage(c, s, f, i, r) => ReadStage(d, s, f, i2, r2)
  BY <1>1, <1>4, ReadStep
<1>6. ReadStages(d, i2, r2)
  BY <1>1, <1>4, <1>5, ReadSites DEF ReadStages
<1>7. Placed(d)
  BY <1>1, StepPlaced, Zenon DEF Goes
<1> QED
  BY <1>1, <1>2, <1>3, <1>6, <1>7, Zenon DEF Right, Stages, Goes

\* Nothing is claimed of a call that another thread disturbs, or of a thread
\* that is in no call.
LEMMA NotClean ==
  ASSUME NEW c, c.fn = <<>> \/ ~c.alone, NEW i, NEW r
  PROVE  Stages(c, i, r)
<1>1. set_ip_attr # <<>>
  BY DEF set_ip_attr
<1>2. \A s : <<s>> # <<>>
  OBVIOUS
<1>3. ~Alone(c, set_ip_attr) /\ \A s : ~Alone(c, <<s>>)
  BY <1>1, <1>2, Zenon DEF Alone
<1> QED
  BY <1>3, Zenon DEF Stages, AttrStage, DnsStage, StatusStage, WriteStages, WriteStage, ReadStages,
                     ReadStage, Clean

\* The same call, but for what it has acquired and whether it is alone.
LEMMA SamePlace ==
  ASSUME NEW c, NEW d, Placed(c), d.fn = c.fn, d.todo = c.todo
  PROVE  Placed(d)
<1>1. Cur(d) = Cur(c) /\ Pos(d) = Pos(c)
  BY DEF Cur, Pos
<1> QED
  BY <1>1, Zenon DEF Placed

\* Nothing is claimed of a call that was disturbed.
LEMMA DisturbedRight ==
  ASSUME NEW c, DOMAIN c = CallFields, NEW i, NEW r, Right(c, i, r), NEW i2, NEW r2
  PROVE  Right(Disturbed(c), i2, r2)
<1> DEFINE d == Disturbed(c)
<1>1. /\ d.fn = c.fn /\ d.todo = c.todo /\ d.arg = c.arg /\ d.out = c.out
      /\ d.alone = (c.fn = <<>>)
  BY DEF Disturbed, CallFields
<1> HIDE DEF d
<1>2. Placed(d)
  BY <1>1, SamePlace, Zenon DEF Right
<1>3. Stages(d, i2, r2)
  BY <1>1, NotClean, Zenon
<1>4. Right(d, i2, r2)
  BY <1>1, <1>2, <1>3, Zenon DEF Right
<1> QED
  BY <1>4 DEF d

\* The script that fails is given up, the next one begins.
LEMMA FailPlaced ==
  ASSUME NEW c, NEW d, Placed(c), c.todo # <<>>, d.fn = c.fn, d.todo = Tail(c.todo)
  PROVE  /\ Placed(d)
         /\ \A k \in Nat : \A n : Past(c, k, n) => Past(d, k, n)
<1> DEFINE fn == c.fn
           todo == c.todo
           after == d.todo
           k0 == Cur(c)
           n0 == Pos(c)
           k1 == Cur(d)
           n1 == Pos(d)
<1>1. /\ fn \in Seq(Seq(Steps)) /\ todo \in Seq(Seq(Steps)) /\ todo # <<>> /\ NoEmptyScript(fn)
      /\ Left(fn, todo, k0, n0) /\ after = Tail(todo)
  BY Zenon DEF Placed
<1>2. /\ k0 = Len(fn) - Len(todo) + 1 /\ k1 = Len(fn) - Len(after) + 1
      /\ n1 = Len(fn[k1]) - Len(after[1]) + 1
  BY Zenon DEF Cur, Pos
<1>3. after \in Seq(Seq(Steps)) /\ NoEmptyScript(fn) /\ Left(fn, after, k1, n1) => Placed(d)
  BY Zenon DEF Placed
<1>4. /\ \A k, n : Past(c, k, n) <=> Before(k, n, k0, n0)
      /\ \A k, n : Past(d, k, n) <=> Before(k, n, k1, n1)
  BY Zenon DEF Past
<1> HIDE DEF fn, todo, after, k0, n0, k1, n1
<1>5. after \in Seq(Seq(Steps)) /\ Len(after) = Len(todo) - 1
  BY <1>1
<1>6. Len(fn) \in Nat /\ Len(todo) \in Nat
  BY <1>1
<1>7. k1 = k0 + 1 /\ k0 \in Int
  BY <1>2, <1>5, <1>6
<1>8. \/ Tail(todo) = <<>> /\ \A n : Left(fn, Tail(todo), k0 + 1, n)
      \/ /\ Tail(todo) # <<>> /\ Left(fn, Tail(todo), k0 + 1, 1)
         /\ Len(fn[k0 + 1]) - Len(Tail(todo)[1]) + 1 = 1
  <2>1. k0 = Len(fn) - Len(todo) + 1
    BY <1>2
  <2> QED
    BY <1>1, <2>1, LastStep
<1>9. Left(fn, after, k1, n1)
  BY <1>1, <1>2, <1>7, <1>8, Zenon
<1>10. Placed(d)
  BY <1>1, <1>3, <1>5, <1>9, Zenon
<1>11. \A k \in Nat : \A n : Past(c, k, n) => Past(d, k, n)
  BY <1>4, <1>7 DEF Before
<1> QED
  BY <1>10, <1>11

\* Of a call whose function has failed: one of a single function returns the
\* failure, set_ip_attr keeps what it has set.
LEMMA FailedRight ==
  ASSUME NEW c, NEW d, NEW i, NEW r, Right(c, i, r), c.todo # <<>>, d.todo = Tail(c.todo),
         d.fn = c.fn, d.arg = c.arg, d.out = c.out, d.done = c.done, d.alone = c.alone,
         d.status = StatusAfter(c)
  PROVE  Right(d, i, r)
<1>1. /\ c.arg \in [Fields -> Values] /\ DOMAIN c.out = Fields /\ Placed(c) /\ c.fn # <<>>
      /\ AttrStage(c, i, r) /\ DnsStage(c, r)
  BY Zenon DEF Right, Stages
<1>2. Placed(d) /\ \A k \in Nat : \A n : Past(c, k, n) => Past(d, k, n)
  BY <1>1, FailPlaced, Zenon
<1>3. \A n : /\ Past(c, 1, n) => Past(d, 1, n)
             /\ Past(c, 2, n) => Past(d, 2, n)
             /\ Past(c, 3, n) => Past(d, 3, n)
             /\ Past(c, 4, n) => Past(d, 4, n)
  <2>1. 1 \in Nat /\ 2 \in Nat /\ 3 \in Nat /\ 4 \in Nat
    OBVIOUS
  <2> QED
    BY <1>2, <2>1, Zenon
<1>4. AttrStage(d, i, r) /\ DnsStage(d, r)
  <2>1. \A fn : Alone(d, fn) => Alone(c, fn)
    BY DEF Alone
  <2> QED
    BY <1>1, <1>3, <2>1, Zenon DEF AttrStage, DnsStage
<1>5. \A s : ~Clean(d, <<s>>)
  <2> SUFFICES ASSUME NEW s, c.fn = <<s>>
               PROVE  d.status # "EMBER_EOK"
    BY DEF Clean, Alone
  <2>1. Len(c.fn) = 1
    OBVIOUS
  <2> QED
    BY <2>1 DEF StatusAfter
<1>6. StatusStage(d, i) /\ WriteStages(d, i) /\ ReadStages(d, i, r)
  BY <1>5, Zenon DEF StatusStage, WriteStages, WriteStage, ReadStages, ReadStage
<1> QED
  BY <1>1, <1>2, <1>4, <1>6, Zenon DEF Right, Stages

\* Nothing is claimed of no call.
LEMMA IdleRight == \A i, r : Right(NoCall, i, r)
<1>1. /\ NoCall.fn = <<>> /\ NoCall.todo = <<>> /\ NoCall.arg \in [Fields -> Values]
      /\ DOMAIN NoCall.out = Fields
  BY DEF NoCall, NoArg, Values
<1>2. Left(<<>>, <<>>, Cur(NoCall), Pos(NoCall)) /\ NoEmptyScript(<<>>) /\ <<>> \in Seq(Seq(Steps))
  BY DEF Left, NoEmptyScript
<1>3. Placed(NoCall)
  BY <1>1, <1>2, Zenon DEF Placed
<1> QED
  BY <1>1, <1>3, NotClean, Zenon DEF Right

\* A call that advances goes on to its next step.
LEMMA AdvanceGoes ==
  ASSUME NEW b, NEW c, DOMAIN c = CallFields, b.todo # <<>>, c.todo = b.todo, c.fn = b.fn,
         c.arg = b.arg, c.status = b.status, c.alone = b.alone
  PROVE  Goes(b, Advance(c)) /\ Advance(c).out = c.out /\ Advance(c).done = c.done
BY DEF Advance, CallFields, Goes

\* One caller's call goes on, the others see nothing of it or are told.
LEMMA OneRight ==
  ASSUME RightInvariant, NetInvariant', NEW t \in Callers, NEW d, Right(d, net', resolv'),
         DOMAIN net' = InterfaceFields, resolv' \in Seq(Values),
         \/ netcall' = [netcall EXCEPT ![t] = d] /\ net' = net /\ resolv' = resolv
         \/ netcall' = [u \in Callers |-> IF u = t THEN d ELSE Disturbed(netcall[u])]
  PROVE  RightInvariant'
<1>1. /\ DOMAIN netcall = Callers
      /\ \A u \in Callers : DOMAIN netcall[u] = CallFields /\ Right(netcall[u], net, resolv)
  BY DEF RightInvariant, NetInvariant
<1>2. ASSUME NEW u \in Callers
      PROVE  Right(netcall'[u], net', resolv')
  <2>1. CASE u = t
    <3>1. netcall'[u] = d
      BY <1>1, <2>1
    <3> QED
      BY <3>1
  <2>2. CASE u # t
    <3>1. \/ netcall'[u] = netcall[u] /\ net' = net /\ resolv' = resolv
          \/ netcall'[u] = Disturbed(netcall[u])
      BY <1>1, <2>2
    <3>2. Right(netcall[u], net, resolv) /\ Right(Disturbed(netcall[u]), net', resolv')
      BY <1>1, DisturbedRight
    <3>3. CASE netcall'[u] = netcall[u] /\ net' = net /\ resolv' = resolv
      BY <3>2, <3>3
    <3>4. CASE netcall'[u] = Disturbed(netcall[u])
      BY <3>2, <3>4
    <3> QED
      BY <3>1, <3>3, <3>4
  <2> QED
    BY <2>1, <2>2
<1> QED
  BY <1>2, Zenon DEF RightInvariant

\* A call that succeeds with its step: c is netcall[t] but for what it has
\* acquired and read.
LEMMA RightStepPreserves ==
  ASSUME RightInvariant, NetInvariant', NEW t \in Callers, Running(t), NEW c,
         DOMAIN c = CallFields, c.todo = netcall[t].todo, c.fn = netcall[t].fn,
         c.arg = netcall[t].arg, c.status = netcall[t].status, c.alone = netcall[t].alone,
         DOMAIN c.out = Fields, NEW d, d = Advance(c),
         Effect(Head(Script(t)), netcall[t], d, net, net', resolv, resolv'),
         DOMAIN net' = InterfaceFields, resolv' \in Seq(Values),
         \/ Step(t, c) /\ net' = net /\ resolv' = resolv
         \/ Write(t, c)
  PROVE  RightInvariant'
<1>1. Right(netcall[t], net, resolv) /\ netcall[t].todo # <<>>
  BY DEF RightInvariant, Running
<1>2. Goes(netcall[t], d) /\ d.out = c.out
  BY <1>1, AdvanceGoes
<1>3. DOMAIN net = InterfaceFields /\ resolv \in Seq(Values)
  BY DEF RightInvariant
<1>4. Effect(Head(Head(netcall[t].todo)), netcall[t], d, net, net', resolv, resolv')
  BY DEF Script
<1>5. Right(d, net', resolv')
  <2> DEFINE b == netcall[t]
             i2 == net'
             r2 == resolv'
  <2>1. /\ Right(b, net, resolv) /\ Goes(b, d) /\ DOMAIN d.out = Fields
        /\ Effect(Head(Head(b.todo)), b, d, net, i2, resolv, r2)
    BY <1>1, <1>2, <1>4
  <2> HIDE DEF b, i2, r2
  <2>2. Right(d, i2, r2)
    BY <1>3, <2>1, RightStep, Zenon
  <2> QED
    BY <2>2 DEF i2, r2
<1>6. \/ netcall' = [netcall EXCEPT ![t] = d] /\ net' = net /\ resolv' = resolv
      \/ netcall' = [u \in Callers |-> IF u = t THEN d ELSE Disturbed(netcall[u])]
  BY DEF Step, Write
<1> QED
  BY <1>5, <1>6, OneRight, Zenon

\* The kernel's changes keep the interface's fields.
LEMMA ChangedFields ==
  ASSUME NEW i, DOMAIN i = InterfaceFields, NEW f, NEW v
  PROVE  DOMAIN Changed(i, f, v) = InterfaceFields
BY DEF Changed, InterfaceFields

\* Nobody calls at first.
LEMMA RightInitHolds == NetInit => RightInvariant
<1> SUFFICES ASSUME NetInit PROVE RightInvariant
  OBVIOUS
<1>1. \A t \in Callers : netcall[t] = NoCall
  BY DEF NetInit
<1>2. DOMAIN net = InterfaceFields
  BY DEF NetInit, FreshInterface, InterfaceFields
<1>3. resolv \in Seq(Values)
  BY DEF NetInit
<1>4. \A t \in Callers : Right(netcall[t], net, resolv)
  BY <1>1, IdleRight
<1> QED
  BY <1>2, <1>3, <1>4, NetInitHolds, Zenon DEF RightInvariant

\* Another program's changes: every call is told.
LEMMA OutsideRight ==
  ASSUME RightInvariant, NetInvariant', Outside
  PROVE  RightInvariant'
<1>1. /\ DOMAIN net = InterfaceFields /\ resolv \in Seq(Values)
      /\ \A t \in Callers : DOMAIN netcall[t] = CallFields /\ Right(netcall[t], net, resolv)
  BY DEF RightInvariant, NetInvariant
<1>2. DOMAIN net' = InterfaceFields
  <2>1. \/ \E f \in SUBSET {"up", "promisc"}, l \in BOOLEAN :
             net' = [net EXCEPT !.flags = f, !.link = l]
        \/ \E a \in Addrs, f \in {"ip", "mask", "gw"} : net' = Changed(net, f, a)
        \/ net' = net
    BY DEF Outside
  <2> QED
    BY <1>1, <2>1, ChangedFields
<1>3. resolv' \in Seq(Values)
  <2>1. resolv' = resolv \/ \E a \in Addrs : resolv' = <<a>>
    BY DEF Outside
  <2>2. \A a \in Values : <<a>> \in Seq(Values)
    OBVIOUS
  <2>3. \A a \in Addrs : a \in Values
    BY DEF Values
  <2> QED
    BY <1>1, <2>1, <2>2, <2>3
<1>4. ASSUME NEW t \in Callers
      PROVE  Right(netcall'[t], net', resolv')
  <2>1. netcall'[t] = Disturbed(netcall[t])
    BY DEF Outside
  <2>2. \A i, r : Right(Disturbed(netcall[t]), i, r)
    <3> DEFINE c == netcall[t]
    <3>1. \E i, r : DOMAIN c = CallFields /\ Right(c, i, r)
      BY <1>1
    <3> HIDE DEF c
    <3>2. \A i, r : Right(Disturbed(c), i, r)
      BY <3>1, DisturbedRight
    <3> QED
      BY <3>2 DEF c
  <2> QED
    BY <2>1, <2>2
<1> QED
  BY <1>2, <1>3, <1>4, Zenon DEF RightInvariant

\* A call that begins has achieved nothing yet.
LEMMA BeginRight ==
  ASSUME RightInvariant, NetInvariant', NEW t \in Callers, NetBegin(t)
  PROVE  RightInvariant'
<1>1. PICK fn \in Functions[topic] : \E a \in NetArgs(fn) :
         netcall' = [netcall EXCEPT ![t] = [NoCall EXCEPT !.fn = fn, !.todo = fn, !.arg = a]]
  BY DEF NetBegin
<1>2. PICK a \in NetArgs(fn) :
         netcall' = [netcall EXCEPT ![t] = [NoCall EXCEPT !.fn = fn, !.todo = fn, !.arg = a]]
  BY <1>1
<1> DEFINE d == [NoCall EXCEPT !.fn = fn, !.todo = fn, !.arg = a]
<1>3. d.fn = fn /\ d.todo = fn /\ d.arg = a /\ DOMAIN d.out = Fields /\ d.done = {}
  BY DEF NoCall
<1>4. netcall' = [netcall EXCEPT ![t] = d]
  BY <1>2
<1> HIDE DEF d
<1>5. a \in [Fields -> Values]
  <2>1. CASE fn = <<set_netdev_status>>
    <3>1. PICK l \in {"LINK_UP", "LINK_DOWN"} : a = [NoArg EXCEPT !["flags"] = l]
      BY <2>1 DEF NetArgs
    <3> QED
      BY <3>1 DEF NoArg, Values
  <2>2. CASE fn # <<set_netdev_status>>
    <3>1. PICK b \in [Written(fn) -> Addrs \union {BadAddr}] :
             a = [f \in Fields |-> IF f \in Written(fn) THEN b[f] ELSE BadAddr]
      BY <2>2 DEF NetArgs
    <3>2. \A f \in Written(fn) : b[f] \in Values
      BY <3>1 DEF Values
    <3>3. BadAddr \in Values
      BY DEF Values
    <3> QED
      BY <3>1, <3>2, <3>3
  <2> QED
    BY <2>1, <2>2
<1>6. fn \in Seq(Seq(Steps)) /\ fn # <<>> /\ \A k \in 1 .. Len(fn) : fn[k] \in Scripts
  BY FunctionScripts DEF RightInvariant, NetInvariant
<1>7. Placed(d) /\ \A k, n \in Nat : k >= 1 /\ n >= 1 => ~Past(d, k, n)
  BY <1>3, <1>6, BegunPlaced
<1>8. /\ ~Past(d, 1, 2) /\ ~Past(d, 2, 2) /\ ~Past(d, 3, 2) /\ ~Past(d, 4, 2)
      /\ ~Past(d, 1, 3) /\ ~Past(d, 1, 4)
  BY <1>7
<1>9. \A i, r : Stages(d, i, r)
  <2>1. \A x : x \notin d.done
    BY <1>3
  <2>2. d.done \subseteq {"ip", "mask", "gw", "dns"}
    BY <2>1
  <2> QED
    BY <1>8, <2>1, <2>2, Zenon DEF Stages, AttrStage, DnsStage, StatusStage, WriteStages, WriteStage,
                                   ReadStages, ReadStage
<1>10. \A i, r : Right(d, i, r)
  BY <1>3, <1>5, <1>6, <1>7, <1>9, Zenon DEF Right
<1>11. net' = net /\ resolv' = resolv
  BY DEF NetBegin
<1>12. DOMAIN net' = InterfaceFields /\ resolv' \in Seq(Values) /\ Right(d, net', resolv')
  BY <1>10, <1>11 DEF RightInvariant
<1> QED
  BY <1>4, <1>11, <1>12, OneRight, Zenon

\* The steps that change no field a stage is about.
LEMMA QuietRight ==
  ASSUME RightInvariant, NetInvariant', NEW t \in Callers,
         Acquire(t) \/ Release(t) \/ Check(t) \/ RecordServer(t) \/ None(t)
  PROVE  RightInvariant'
<1>1. /\ DOMAIN net = InterfaceFields /\ resolv \in Seq(Values)
      /\ DOMAIN netcall[t] = CallFields /\ DOMAIN netcall[t].out = Fields
  BY DEF RightInvariant, NetInvariant, Right
<1>2. net' = net /\ resolv' = resolv /\ Running(t)
  BY DEF Acquire, Release, Check, RecordServer, None, At
<1>3. ASSUME NEW c, DOMAIN c = CallFields, c.todo = netcall[t].todo, c.fn = netcall[t].fn,
             c.arg = netcall[t].arg, c.status = netcall[t].status, c.alone = netcall[t].alone,
             DOMAIN c.out = Fields,
             Head(Script(t)).op \in {"acquire", "release", "check", "record", "none"},
             Head(Script(t)).op # "none" => c.out = netcall[t].out,
             c.done = netcall[t].done,
             Step(t, c) \/ Write(t, c)
      PROVE  RightInvariant'
  <2> DEFINE d == Advance(c)
  <2>1. d.out = c.out /\ d.done = c.done
    BY <1>3 DEF Advance, CallFields
  <2>2. d = Advance(c)
    OBVIOUS
  <2> HIDE DEF d
  <2>3. Effect(Head(Script(t)), netcall[t], d, net, net', resolv, resolv')
    BY <1>2, <1>3, <2>1 DEF Effect
  <2> QED
    BY <1>1, <1>2, <1>3, <2>2, <2>3, RightStepPreserves
<1>4. CASE Acquire(t) \/ Release(t)
  <2>1. PICK held : /\ Step(t, [netcall[t] EXCEPT !.held = held])
                    /\ Head(Script(t)).op \in {"acquire", "release"}
    BY <1>4 DEF Acquire, Release, At
  <2> DEFINE c == [netcall[t] EXCEPT !.held = held]
  <2>2. /\ DOMAIN c = CallFields /\ c.todo = netcall[t].todo /\ c.fn = netcall[t].fn
        /\ c.arg = netcall[t].arg /\ c.status = netcall[t].status /\ c.alone = netcall[t].alone
        /\ c.out = netcall[t].out /\ c.done = netcall[t].done
    BY <1>1 DEF CallFields
  <2>3. Step(t, c)
    BY <2>1
  <2> HIDE DEF c
  <2> QED
    BY <1>1, <1>3, <2>1, <2>2, <2>3
<1>5. CASE Check(t) \/ RecordServer(t)
  <2>1. /\ Head(Script(t)).op \in {"check", "record"}
        /\ Step(t, netcall[t]) \/ Write(t, netcall[t])
    BY <1>5 DEF Check, RecordServer, At
  <2> DEFINE c == netcall[t]
  <2>2. /\ DOMAIN c = CallFields /\ c.todo = netcall[t].todo /\ c.fn = netcall[t].fn
        /\ c.arg = netcall[t].arg /\ c.status = netcall[t].status /\ c.alone = netcall[t].alone
        /\ c.out = netcall[t].out /\ DOMAIN c.out = Fields /\ c.done = netcall[t].done
        /\ (Step(t, c) \/ Write(t, c))
    BY <1>1, <2>1
  <2> HIDE DEF c
  <2> QED
    BY <1>3, <2>1, <2>2
<1>6. CASE None(t)
  <2>1. /\ Head(Script(t)).op = "none"
        /\ Step(t, [netcall[t] EXCEPT !.out[On(t)] = NONE_IP])
    BY <1>6 DEF None, At
  <2> DEFINE c == [netcall[t] EXCEPT !.out[On(t)] = NONE_IP]
  <2>2. /\ DOMAIN c = CallFields /\ c.todo = netcall[t].todo /\ c.fn = netcall[t].fn
        /\ c.arg = netcall[t].arg /\ c.status = netcall[t].status /\ c.alone = netcall[t].alone
        /\ c.out = [netcall[t].out EXCEPT ![On(t)] = NONE_IP] /\ c.done = netcall[t].done
    BY <1>1 DEF CallFields
  <2>3. DOMAIN c.out = Fields
    BY <1>1, <2>2
  <2>4. Step(t, c)
    BY <2>1
  <2> HIDE DEF c
  <2> QED
    BY <1>3, <2>1, <2>2, <2>3, <2>4
<1> QED
  BY <1>4, <1>5, <1>6

\* A read: what the call returns is what is there.
LEMMA GetRight ==
  ASSUME RightInvariant, NetInvariant', NEW t \in Callers, Get(t)
  PROVE  RightInvariant'
<1>1. /\ DOMAIN net = InterfaceFields /\ resolv \in Seq(Values)
      /\ DOMAIN netcall[t] = CallFields /\ DOMAIN netcall[t].out = Fields
  BY DEF RightInvariant, NetInvariant, Right
<1> DEFINE b == [netcall[t] EXCEPT !.out[On(t)] = NetValue(On(t))]
           c == WithDone(b, On(t))
           d == Advance(c)
<1>2. /\ net' = net /\ resolv' = resolv /\ Running(t) /\ Head(Script(t)).op = "get"
      /\ Step(t, c)
  BY DEF Get, At
<1>3. /\ DOMAIN c = CallFields /\ c.todo = netcall[t].todo /\ c.fn = netcall[t].fn
      /\ c.arg = netcall[t].arg /\ c.status = netcall[t].status /\ c.alone = netcall[t].alone
      /\ c.out = [netcall[t].out EXCEPT ![On(t)] = NetValue(On(t))]
      /\ c.done = netcall[t].done \union {On(t)}
  <2>1. /\ DOMAIN b = CallFields /\ b.todo = netcall[t].todo /\ b.fn = netcall[t].fn
        /\ b.arg = netcall[t].arg /\ b.status = netcall[t].status /\ b.alone = netcall[t].alone
        /\ b.out = [netcall[t].out EXCEPT ![On(t)] = NetValue(On(t))]
        /\ b.done = netcall[t].done
    BY <1>1 DEF CallFields
  <2> HIDE DEF b
  <2> QED
    BY <2>1 DEF WithDone, CallFields
<1>4. Step(t, c) /\ d = Advance(c)
  BY <1>2
<1> HIDE DEF b, c, d
<1>5. d.out = c.out /\ d.done = c.done
  BY <1>3, <1>4 DEF Advance, CallFields
<1>6. DOMAIN c.out = Fields
  BY <1>1, <1>3
<1>7. NetValue(On(t)) = Value(On(t), net, resolv) /\ On(t) = Head(Script(t)).on
  BY DEF NetValue, Value, On
<1>8. Effect(Head(Script(t)), netcall[t], d, net, net', resolv, resolv')
  BY <1>2, <1>3, <1>5, <1>7 DEF Effect
<1> QED
  BY <1>1, <1>2, <1>3, <1>4, <1>6, <1>8, RightStepPreserves

\* A call with one more field done.
LEMMA DoneFields ==
  ASSUME NEW b, DOMAIN b = CallFields, NEW f, NEW c, c = WithDone(b, f)
  PROVE  /\ DOMAIN c = CallFields /\ c.todo = b.todo /\ c.fn = b.fn /\ c.arg = b.arg
         /\ c.status = b.status /\ c.alone = b.alone /\ c.out = b.out
         /\ c.done = b.done \union {f}
         /\ Advance(c).out = b.out /\ Advance(c).done = c.done
<1>1. /\ DOMAIN c = CallFields /\ c.todo = b.todo /\ c.fn = b.fn /\ c.arg = b.arg
      /\ c.status = b.status /\ c.alone = b.alone /\ c.out = b.out
      /\ c.done = b.done \union {f}
  BY DEF WithDone, CallFields
<1>2. Advance(c).out = c.out /\ Advance(c).done = c.done
  BY <1>1 DEF Advance, CallFields
<1> QED
  BY <1>1, <1>2

\* A write to the interface.
LEMMA SetRight ==
  ASSUME RightInvariant, NetInvariant', NEW t \in Callers, Set(t)
  PROVE  RightInvariant'
<1>1. /\ DOMAIN net = InterfaceFields /\ resolv \in Seq(Values)
      /\ DOMAIN netcall[t] = CallFields /\ DOMAIN netcall[t].out = Fields
  BY DEF RightInvariant, NetInvariant, Right
<1> DEFINE b == netcall[t]
           c == WithDone(b, On(t))
           d == Advance(c)
           v == IF On(t) = "flags" THEN NewFlags(b) ELSE Parsed(On(t), b.arg[On(t)])
<1>2. /\ Running(t) /\ Head(Script(t)).op = "set" /\ On(t) = Head(Script(t)).on
      /\ v # BadAddr /\ net' = Changed(net, On(t), v) /\ resolv' = resolv /\ Write(t, c)
  BY DEF Set, At, On
<1>3. /\ DOMAIN c = CallFields /\ c.todo = b.todo /\ c.fn = b.fn /\ c.arg = b.arg
      /\ c.status = b.status /\ c.alone = b.alone /\ c.out = b.out
      /\ c.done = b.done \union {On(t)}
      /\ d.out = b.out /\ d.done = c.done
  <2> HIDE DEF c
  <2>1. c = WithDone(b, On(t))
    BY DEF c
  <2> QED
    BY <1>1, <2>1, DoneFields
<1>4. DOMAIN net' = InterfaceFields
  BY <1>1, <1>2, ChangedFields
<1>5. d = Advance(c)
  OBVIOUS
<1> HIDE DEF c, d
<1>6. Effect(Head(Script(t)), b, d, net, net', resolv, resolv')
  BY <1>2, <1>3 DEF Effect
<1>7. Effect(Head(Script(t)), netcall[t], d, net, net', resolv, resolv')
  BY <1>6
<1> QED
  BY <1>1, <1>2, <1>3, <1>4, <1>5, <1>7, RightStepPreserves

\* The commands on resolv.conf, whose failures go unnoticed.
LEMMA ShellRight ==
  ASSUME RightInvariant, NetInvariant', NEW t \in Callers, Truncate(t) \/ AppendServer(t)
  PROVE  RightInvariant'
<1> DEFINE b == netcall[t]
           a == b.arg["dns"]
           op == Head(Script(t)).op
<1>1. /\ DOMAIN net = InterfaceFields /\ resolv \in Seq(Values)
      /\ DOMAIN b = CallFields /\ DOMAIN b.out = Fields
      /\ b.arg \in [Fields -> Values]
  BY DEF RightInvariant, NetInvariant, Right
<1>2. Running(t) /\ net' = net
  BY DEF Truncate, AppendServer, At
<1>3. PICK c \in {b, WithDone(b, "dns")} :
         \/ op = "truncate" /\ c = WithDone(b, "dns") /\ resolv' = <<a>> /\ Write(t, c)
         \/ op = "truncate" /\ c = b /\ resolv' = resolv /\ Step(t, c)
         \/ op = "append" /\ c = b /\ resolv' = Append(resolv, a) /\ Write(t, c)
         \/ op = "append" /\ c = b /\ resolv' = resolv /\ Step(t, c)
  BY DEF Truncate, AppendServer, At
<1> DEFINE d == Advance(c)
<1>4. /\ DOMAIN c = CallFields /\ c.todo = b.todo /\ c.fn = b.fn /\ c.arg = b.arg
      /\ c.status = b.status /\ c.alone = b.alone /\ c.out = b.out
      /\ d.out = b.out /\ d.done = c.done
      /\ c = WithDone(b, "dns") => c.done = b.done \union {"dns"}
  <2>1. CASE c = WithDone(b, "dns")
    <3> HIDE DEF b
    <3> QED
      BY <1>1, <2>1, DoneFields
  <2>2. CASE c = b /\ c # WithDone(b, "dns")
    <3> HIDE DEF b
    <3>1. Advance(b).out = b.out /\ Advance(b).done = b.done
      BY <1>1 DEF Advance, CallFields
    <3> QED
      BY <1>1, <2>2, <3>1
  <2> QED
    BY <2>1, <2>2
<1>5. d = Advance(c)
  OBVIOUS
<1> HIDE DEF d
<1>6. Effect(Head(Script(t)), b, d, net, net', resolv, resolv')
  BY <1>2, <1>3, <1>4 DEF Effect
<1>7. resolv' \in Seq(Values)
  <2>1. a \in Values /\ resolv \in Seq(Values)
    BY <1>1 DEF Fields
  <2>2. resolv' = resolv \/ resolv' = <<a>> \/ resolv' = Append(resolv, a)
    BY <1>3
  <2> HIDE DEF a
  <2>3. <<a>> \in Seq(Values) /\ Append(resolv, a) \in Seq(Values)
    BY <2>1
  <2> QED
    BY <2>1, <2>2, <2>3
<1>8. \/ Step(t, c) /\ net' = net /\ resolv' = resolv
      \/ Write(t, c)
  BY <1>2, <1>3
<1>9. Effect(Head(Script(t)), netcall[t], d, net, net', resolv, resolv')
  BY <1>6
<1>10. /\ DOMAIN c = CallFields /\ c.todo = netcall[t].todo /\ c.fn = netcall[t].fn
       /\ c.arg = netcall[t].arg /\ c.status = netcall[t].status /\ c.alone = netcall[t].alone
       /\ DOMAIN c.out = Fields /\ DOMAIN net' = InterfaceFields
  BY <1>1, <1>2, <1>4
<1> QED
  BY <1>2, <1>5, <1>7, <1>8, <1>9, <1>10, RightStepPreserves

\* A function that fails.
LEMMA FailRight ==
  ASSUME RightInvariant, NetInvariant', NEW t \in Callers, NetFail(t)
  PROVE  RightInvariant'
<1>1. /\ DOMAIN netcall = Callers /\ DOMAIN netcall[t] = CallFields
      /\ Right(netcall[t], net, resolv)
  BY DEF RightInvariant, NetInvariant
<1> DEFINE s == Head(Script(t))
           st == StatusAfter(netcall[t])
           lost == netcall[t].lost \union {<<s.op, s.on, r>> : r \in netcall[t].held \ s.undo}
           d == [netcall[t] EXCEPT !.todo = Tail(@), !.held = {}, !.status = st, !.lost = lost]
<1>2. /\ Running(t) /\ net' = net /\ resolv' = resolv
      /\ netcall' = [netcall EXCEPT ![t].todo = Tail(@), ![t].held = {}, ![t].status = st,
                                    ![t].lost = @ \union {<<s.op, s.on, r>> : r \in netcall[t].held \ s.undo}]
  BY DEF NetFail, At
<1>3. st = StatusAfter(netcall[t])
  OBVIOUS
<1> HIDE DEF s, st
<1>4. netcall' = [netcall EXCEPT ![t] = d]
  BY <1>1, <1>2 DEF CallFields
<1>5. /\ d.fn = netcall[t].fn /\ d.arg = netcall[t].arg /\ d.out = netcall[t].out
      /\ d.done = netcall[t].done /\ d.alone = netcall[t].alone /\ d.status = st
      /\ d.todo = Tail(netcall[t].todo)
  BY <1>1 DEF CallFields
<1> HIDE DEF d
<1>6. netcall[t].todo # <<>>
  BY <1>2 DEF Running
<1>7. Right(d, net, resolv)
  BY <1>1, <1>3, <1>5, <1>6, FailedRight
<1>8. DOMAIN net' = InterfaceFields /\ resolv' \in Seq(Values) /\ Right(d, net', resolv')
  BY <1>2, <1>7 DEF RightInvariant
<1> QED
  BY <1>2, <1>4, <1>8, OneRight, Zenon

\* A call that returns has achieved what its function does.
LEMMA ReturnRight ==
  ASSUME RightInvariant, NetInvariant', NEW t \in Callers, NetReturn(t)
  PROVE  RightInvariant'
<1>1. netcall' = [netcall EXCEPT ![t] = NoCall] /\ net' = net /\ resolv' = resolv
  BY DEF NetReturn
<1>2. DOMAIN net' = InterfaceFields /\ resolv' \in Seq(Values) /\ Right(NoCall, net', resolv')
  BY <1>1, IdleRight DEF RightInvariant
<1> QED
  BY <1>1, <1>2, OneRight, Zenon

\* Every step keeps what undisturbed calls have achieved.
LEMMA RightNext ==
  ASSUME RightInvariant, [NetNext]_netVars
  PROVE  RightInvariant'
<1>1. NetInvariant'
  BY NetStep DEF RightInvariant
<1>2. CASE UNCHANGED netVars
  <2>1. netcall' = netcall /\ net' = net /\ resolv' = resolv
    BY <1>2 DEF netVars
  <2> QED
    BY <1>1, <2>1 DEF RightInvariant
<1>3. CASE Outside
  BY <1>1, <1>3, OutsideRight
<1>4. ASSUME NEW t \in Callers,
             \/ NetBegin(t) \/ Acquire(t) \/ Release(t) \/ Check(t) \/ Get(t) \/ None(t)
             \/ Set(t) \/ RecordServer(t) \/ Truncate(t) \/ AppendServer(t) \/ NetFail(t) \/ NetReturn(t)
      PROVE  RightInvariant'
  BY <1>1, <1>4, BeginRight, QuietRight, GetRight, SetRight, ShellRight, FailRight, ReturnRight
<1> QED
  BY <1>2, <1>3, <1>4 DEF NetNext

\* The invariant at the end of a call.
LEMMA FinishedRight ==
  ASSUME RightInvariant
  PROVE  NetCallsAreRight
<1> SUFFICES ASSUME NEW t \in Callers
             PROVE
    LET c == netcall[t]
    IN  /\ Undisturbed(t, set_ip_attr) =>
             \A f \in c.done :
               IF f = "dns" THEN resolv # <<>> /\ Head(resolv) = c.arg[f]
               ELSE net[f] = Parsed(f, c.arg[f])
        /\ (Undisturbed(t, <<set_local_dns>>) /\ "dns" \in c.done) =>
             \A n \in DOMAIN resolv : resolv[n] = c.arg["dns"]
        /\ Succeeded(t, <<set_netdev_status>>) =>
             /\ ("up" \in net.flags) = (c.arg["flags"] = "LINK_UP")
             /\ net.flags \ {"up"} = c.out["flags"] \ {"up"}
        /\ \A g \in {<<set_local_mac, "mac">>, <<set_local_ip, "ip">>, <<set_local_netmask, "mask">>,
                    <<set_local_gateway, "gw">>} :
             Succeeded(t, <<g[1]>>) => net[g[2]] = Parsed(g[2], c.arg[g[2]])
        /\ \A g \in {<<get_local_mac, "mac">>, <<get_local_ip, "ip">>, <<get_local_netmask, "mask">>,
                    <<get_local_gateway, "gw">>, <<get_local_dns, "dns">>, <<get_netdev_status, "link">>} :
             Succeeded(t, <<g[1]>>) => c.out[g[2]] = NetValue(g[2])
  BY DEF NetCallsAreRight
<1> DEFINE c == netcall[t]
<1>1. /\ resolv \in Seq(Values) /\ Right(c, net, resolv)
  BY DEF RightInvariant
<1>2. /\ c.fn \in Seq(Seq(Steps))
      /\ AttrStage(c, net, resolv) /\ DnsStage(c, resolv) /\ StatusStage(c, net)
      /\ WriteStages(c, net) /\ ReadStages(c, net, resolv)
  BY <1>1, Zenon DEF Right, Stages, Placed
<1>3. ASSUME NEW fn, Succeeded(t, fn)
      PROVE  Clean(c, fn) /\ c.todo = <<>>
  BY <1>3 DEF Succeeded, Undisturbed, Clean, Alone, Running
<1>4. ASSUME NEW fn, Undisturbed(t, fn)
      PROVE  Alone(c, fn)
  BY <1>4 DEF Undisturbed, Alone
<1> HIDE DEF c
<1>5. ASSUME NEW s, Succeeded(t, <<s>>), NEW n
      PROVE  Clean(c, <<s>>) /\ Past(c, 1, n)
  <2>1. Clean(c, <<s>>) /\ c.todo = <<>>
    BY <1>3, <1>5
  <2>2. Len(c.fn) = 1
    BY <2>1 DEF Clean, Alone
  <2>3. Cur(c) = 2
    BY <2>1, <2>2 DEF Cur
  <2> QED
    BY <2>1, <2>3 DEF Past, Before
<1>6. \A f : NetValue(f) = Value(f, net, resolv)
  BY DEF NetValue, Value
<1>7. ASSUME Undisturbed(t, set_ip_attr)
      PROVE  \A f \in c.done :
               IF f = "dns" THEN resolv # <<>> /\ Head(resolv) = c.arg[f]
               ELSE net[f] = Parsed(f, c.arg[f])
  <2>1. Alone(c, set_ip_attr)
    BY <1>4, <1>7
  <2>2. /\ c.done \subseteq {"ip", "mask", "gw", "dns"}
        /\ "ip" \in c.done => net["ip"] = Parsed("ip", c.arg["ip"])
        /\ "mask" \in c.done => net["mask"] = Parsed("mask", c.arg["mask"])
        /\ "gw" \in c.done => net["gw"] = Parsed("gw", c.arg["gw"])
        /\ "dns" \in c.done => resolv # <<>> /\ resolv[1] = c.arg["dns"]
    BY <1>2, <2>1, Zenon DEF AttrStage
  <2>3. resolv # <<>> => Head(resolv) = resolv[1]
    BY <1>1
  <2>4. \A f \in c.done : f = "ip" \/ f = "mask" \/ f = "gw" \/ f = "dns"
    BY <2>2
  <2> QED
    BY <2>2, <2>3, <2>4
<1>8. ASSUME Undisturbed(t, <<set_local_dns>>), "dns" \in c.done
      PROVE  \A n \in DOMAIN resolv : resolv[n] = c.arg["dns"]
  <2>1. \A n \in 1 .. Len(resolv) : resolv[n] = c.arg["dns"]
    BY <1>2, <1>4, <1>8 DEF DnsStage
  <2> QED
    BY <1>1, <2>1
<1>9. ASSUME Succeeded(t, <<set_netdev_status>>)
      PROVE  /\ ("up" \in net.flags) = (c.arg["flags"] = "LINK_UP")
             /\ net.flags \ {"up"} = c.out["flags"] \ {"up"}
  <2>1. net.flags = NewFlags(c)
    BY <1>2, <1>5, <1>9 DEF StatusStage
  <2> QED
    BY <2>1 DEF NewFlags
<1>10. ASSUME NEW s, NEW n, NEW f, WriteStage(c, s, n, f, net), Succeeded(t, <<s>>)
       PROVE  net[f] = Parsed(f, c.arg[f])
  BY <1>5, <1>10 DEF WriteStage
<1>11. \A g \in {<<set_local_mac, "mac">>, <<set_local_ip, "ip">>, <<set_local_netmask, "mask">>,
                 <<set_local_gateway, "gw">>} :
         Succeeded(t, <<g[1]>>) => net[g[2]] = Parsed(g[2], c.arg[g[2]])
  BY <1>2, <1>10 DEF WriteStages
<1>12. ASSUME NEW s, NEW f, ReadStage(c, s, f, net, resolv), Succeeded(t, <<s>>)
       PROVE  c.out[f] = NetValue(f)
  BY <1>5, <1>6, <1>12 DEF ReadStage
<1>13. \A g \in {<<get_local_mac, "mac">>, <<get_local_ip, "ip">>,
                 <<get_local_netmask, "mask">>, <<get_local_gateway, "gw">>,
                 <<get_local_dns, "dns">>, <<get_netdev_status, "link">>} :
         Succeeded(t, <<g[1]>>) => c.out[g[2]] = NetValue(g[2])
  BY <1>2, <1>12 DEF ReadStages
<1> QED
  BY <1>7, <1>8, <1>9, <1>11, <1>13, Zenon DEF c

\* A call nobody interferes with does what its status says.  One of a single
\* function that returns EMBER_EOK has set its field, changed the one flag or
\* returned what is there.  The status of set_ip_attr and of set_local_dns says
\* nothing: of these it is what their successful steps have set that stands in
\* the end, whatever other steps of theirs failed.
THEOREM CallsAreRight == NetSpec => []NetCallsAreRight
<1>1. NetInit => RightInvariant
  BY RightInitHolds
<1>2. RightInvariant /\ [NetNext]_netVars => RightInvariant'
  BY RightNext
<1>3. RightInvariant => NetCallsAreRight
  BY FinishedRight
<1> QED
  BY <1>1, <1>2, <1>3, PTL DEF NetSpec

=============================================================================
