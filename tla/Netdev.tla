------------------------------- MODULE Netdev -------------------------------
(***************************************************************************)
(* The network helpers of components/netdev/src/netdev.c, called by        *)
(* several threads, and the kernel and resolver state they read and write  *)
(* (external, from how the code uses it).                                  *)
(*                                                                         *)
(* A function is its list of steps.  A step that fails ends the function,  *)
(* which returns -EMBER_ERROR after releasing what its error path          *)
(* releases.  get_ip_attr and set_ip_attr call four of the functions and   *)
(* return EMBER_EOK whatever those return, as does set_local_dns whatever  *)
(* its commands do.  Memory for the resolver state is always there;        *)
(* get_local_ip_by_socket only reads and is left out.                      *)
(***************************************************************************)
EXTENDS Integers, Sequences

CONSTANTS Callers,     \* threads
          Ifnames,     \* interfaces, among them "eth0"
          Addrs,       \* addresses a caller may pass
          BadAddr,     \* a string that is no address
          MaxLines     \* bound on the lines of resolv.conf

ASSUME NetdevAssumption ==
  /\ BadAddr \notin Addrs
  /\ MaxLines \in Nat \ {0}

VARIABLES
  topic,       \* the functions the program uses: they share no state with the others
  ifname,      \* the interface it configures, fixed
  net,         \* the kernel's view of that interface
  resolv,      \* the nameserver lines of /etc/resolv.conf
  dns_of,      \* netdev_attr[].dns
  netcall      \* the call each thread is in

netVars == <<topic, ifname, net, resolv, dns_of, netcall>>

NONE_IP == "0.0.0.0"
ClassMask == "mask of the address class"
Loopback == "127.0.0.1"
BurnedIn == "factory address"
Earlier == "address set earlier"
Unset == "unset"       \* what the caller's buffer held before

-----------------------------------------------------------------------------
(* The functions.                                                          *)

Do(op, on, undo) == [op |-> op, on |-> on, undo |-> undo]
Socket == Do("acquire", "sd", {})
CloseSocket == Do("release", "sd", {})
Ioctl(op, on) == Do(op, on, {"sd"})

get_local_mac == <<Socket, Ioctl("get", "mac"), CloseSocket>>

set_local_mac ==
  <<Do("check", "uid", {}), Socket, Do("check", "mac", {}), Ioctl("set", "mac"), CloseSocket>>

get_local_ip == <<Socket, Ioctl("get", "ip"), CloseSocket>>
set_local_ip == <<Socket, Ioctl("set", "ip"), CloseSocket>>

\* Mutant: the error path of the ioctl forgets the socket.
Bug_get_local_netmask == <<Socket, Do("get", "mask", {}), CloseSocket>>

get_local_netmask == <<Socket, Ioctl("get", "mask"), CloseSocket>>
set_local_netmask == <<Socket, Ioctl("set", "mask"), CloseSocket>>

get_local_gateway == <<Do("acquire", "fp", {}), Do("get", "gw", {}), Do("release", "fp", {})>>
set_local_gateway == <<Socket, Ioctl("set", "gw"), CloseSocket>>

get_local_dns == <<Do("acquire", "res", {}), Do("get", "dns", {}), Do("release", "res", {})>>
set_local_dns == <<Do("record", "dns", {}), Do("truncate", "dns", {}), Do("append", "dns", {})>>

\* A function that returned EMBER_EOK, which is 0, has its result replaced.
OrNone(script, on) == script \o <<Do("none", on, {})>>

get_ip_attr ==
  <<OrNone(get_local_ip, "ip"), OrNone(get_local_netmask, "mask"),
    OrNone(get_local_gateway, "gw"), OrNone(get_local_dns, "dns")>>

\* Mutant: the address is set after what depends on it.
Bug_set_ip_attr == <<set_local_netmask, set_local_gateway, set_local_ip, set_local_dns>>

set_ip_attr == <<set_local_ip, set_local_netmask, set_local_gateway, set_local_dns>>

get_netdev_status == <<Socket, Ioctl("get", "link"), CloseSocket>>

set_netdev_status == <<Socket, Ioctl("get", "flags"), Ioctl("set", "flags"), CloseSocket>>

Functions ==
  [mac |-> {<<get_local_mac>>, <<set_local_mac>>},
   attr |-> {get_ip_attr, set_ip_attr, <<get_local_ip>>, <<set_local_ip>>,
             <<get_local_netmask>>, <<set_local_netmask>>, <<get_local_gateway>>,
             <<set_local_gateway>>, <<get_local_dns>>, <<set_local_dns>>},
   status |-> {<<get_netdev_status>>, <<set_netdev_status>>}]

-----------------------------------------------------------------------------
(* State.                                                                  *)

FreshInterface ==
  [mac |-> BurnedIn, ip |-> NONE_IP, mask |-> NONE_IP, gw |-> NONE_IP,
   flags |-> {}, link |-> FALSE]

\* fn: the scripts of the call; todo: those left; arg: what it is to set, by
\* field; out: what it read last, by field; held: what it has acquired; status:
\* what it will return.  History: done, the fields read or set so far; alone,
\* nobody else has written meanwhile; lost, what a function of it did not
\* release, and the step that failed.
Fields == {"mac", "ip", "mask", "gw", "dns", "flags", "link"}
NoArg == [f \in Fields |-> BadAddr]
NoCall == [fn |-> <<>>, todo |-> <<>>, arg |-> NoArg,
           out |-> [f \in Fields |-> Unset], held |-> {}, lost |-> {}, done |-> {},
           status |-> "EMBER_EOK", alone |-> TRUE]

\* The interface may have an address, and the other one a name server.
NetInit ==
  /\ topic \in DOMAIN Functions
  /\ ifname \in Ifnames
  /\ net \in {FreshInterface, [FreshInterface EXCEPT !.ip = Earlier, !.mask = ClassMask]}
  /\ topic # "attr" => net = FreshInterface
  /\ resolv = <<>>
  /\ dns_of \in [{"eth0", "eth1"} -> {NONE_IP} \union Addrs]
  /\ dns_of["eth0"] = NONE_IP
  /\ topic # "attr" => dns_of["eth1"] = NONE_IP
  /\ netcall = [t \in Callers |-> NoCall]

Running(t) == netcall[t].todo # <<>>
Script(t) == Head(netcall[t].todo)
At(t, op) == Running(t) /\ Head(Script(t)).op = op
On(t) == Head(Script(t)).on

\* The thread's call after the step.
Advance(c) ==
  [c EXCEPT !.todo = IF Len(Head(@)) = 1 THEN Tail(@) ELSE <<Tail(Head(@))>> \o Tail(@)]

Step(t, c) == netcall' = [netcall EXCEPT ![t] = Advance(c)]

\* A call that somebody else has interfered with.
Disturbed(c) == [c EXCEPT !.alone = (c.fn = <<>>)]

\* The same for a step that others can see.
Write(t, c) ==
  netcall' = [u \in Callers |-> IF u = t THEN Advance(c) ELSE Disturbed(netcall[u])]

\* The call with field f read or set.
WithDone(c, f) == [c EXCEPT !.done = @ \union {f}]

-----------------------------------------------------------------------------
(* Steps.                                                                  *)

\* The fields a function sets.
Written(fn) ==
  UNION {{fn[i][j].on : j \in {k \in DOMAIN fn[i] : fn[i][k].op \in {"set", "record"}}} : i \in DOMAIN fn}

\* Each string a function is given may be an address or not, the four of
\* set_ip_attr independently of each other.
NetArgs(fn) ==
  IF fn = <<set_netdev_status>> THEN {[NoArg EXCEPT !["flags"] = l] : l \in {"LINK_UP", "LINK_DOWN"}}
  ELSE {[f \in Fields |-> IF f \in Written(fn) THEN a[f] ELSE BadAddr] :
          a \in [Written(fn) -> Addrs \union {BadAddr}]}

NetBegin(t) ==
  /\ netcall[t].fn = <<>>
  /\ \E fn \in Functions[topic] : \E a \in NetArgs(fn) :
       netcall' = [netcall EXCEPT ![t] = [NoCall EXCEPT !.fn = fn, !.todo = fn, !.arg = a]]
  /\ UNCHANGED <<topic, ifname, net, resolv, dns_of>>

Acquire(t) ==
  /\ At(t, "acquire")
  /\ Step(t, [netcall[t] EXCEPT !.held = @ \union {On(t)}])
  /\ UNCHANGED <<topic, ifname, net, resolv, dns_of>>

Release(t) ==
  /\ At(t, "release")
  /\ Step(t, [netcall[t] EXCEPT !.held = @ \ {On(t)}])
  /\ UNCHANGED <<topic, ifname, net, resolv, dns_of>>

\* Whether the caller is root, and whether sscanf finds six numbers.
Check(t) ==
  /\ At(t, "check")
  /\ On(t) = "mac" => netcall[t].arg["mac"] # BadAddr
  /\ Step(t, netcall[t])
  /\ UNCHANGED <<topic, ifname, net, resolv, dns_of>>

\* The resolver takes the first line that holds an address, the local host if
\* there is none.
Server(lines) ==
  LET known == SelectSeq(lines, LAMBDA a : a # BadAddr)
  IN  IF known = <<>> THEN Loopback ELSE Head(known)

NetValue(f) == IF f = "dns" THEN Server(resolv) ELSE net[f]

\* Without an address or a route there is nothing to read.
Get(t) ==
  /\ At(t, "get")
  /\ On(t) \in {"ip", "mask"} => net.ip # NONE_IP
  /\ On(t) = "gw" => net.gw # NONE_IP
  /\ Step(t, WithDone([netcall[t] EXCEPT !.out[On(t)] = NetValue(On(t))], On(t)))
  /\ UNCHANGED <<topic, ifname, net, resolv, dns_of>>

\* get_ip_attr: strncpy(attr->..., NONE_IP, IP_SIZE).
None(t) ==
  /\ At(t, "none")
  /\ Step(t, [netcall[t] EXCEPT !.out[On(t)] = NONE_IP])
  /\ UNCHANGED <<topic, ifname, net, resolv, dns_of>>

\* inet_pton leaves the address zero when it cannot parse it, and inet_aton,
\* whose failure is 0, passes the test for < 0; inet_addr returns INADDR_NONE.
\* The kernel accepts only the mask of these.
Parsed(f, a) == IF f = "mask" /\ a = BadAddr THEN NONE_IP ELSE a

\* The flags read before, with IFF_UP set or cleared.
NewFlags(c) ==
  IF c.arg["flags"] = "LINK_UP" THEN c.out["flags"] \union {"up"} ELSE c.out["flags"] \ {"up"}

\* A new address gets the mask of its class.  Replacing the address or the
\* mask drops the routes over the interface.
Changed(i, f, v) ==
  IF i[f] = v THEN i
  ELSE IF f = "ip" THEN [i EXCEPT !.ip = v, !.mask = ClassMask, !.gw = NONE_IP]
  ELSE IF f = "mask" THEN [i EXCEPT !.mask = v, !.gw = NONE_IP]
  ELSE [i EXCEPT ![f] = v]

Set(t) ==
  /\ At(t, "set")
  /\ LET c == netcall[t]
         v == IF On(t) = "flags" THEN NewFlags(c) ELSE Parsed(On(t), c.arg[On(t)])
     IN  /\ v # BadAddr
         /\ On(t) \in {"mask", "gw"} => net.ip # NONE_IP
         /\ net' = Changed(net, On(t), v)
         /\ Write(t, WithDone(c, On(t)))
  /\ UNCHANGED <<topic, ifname, resolv, dns_of>>

\* The tests for "eth0" and "eth1"; no other interface has a record.
RecordServer(t) ==
  /\ At(t, "record")
  /\ dns_of' = [i \in DOMAIN dns_of |->
                  IF i = ifname THEN netcall[t].arg["dns"] ELSE dns_of[i]]
  /\ Write(t, netcall[t])
  /\ UNCHANGED <<topic, ifname, net, resolv>>

\* system("echo 'nameserver ...' > /etc/resolv.conf"), result ignored.
Truncate(t) ==
  /\ At(t, "truncate")
  /\ \/ resolv' = <<netcall[t].arg["dns"]>> /\ Write(t, WithDone(netcall[t], "dns"))
     \/ UNCHANGED resolv /\ Step(t, netcall[t])
  /\ UNCHANGED <<topic, ifname, net, dns_of>>

\* Both branches append the address being set, not the recorded one.  The
\* command may fail here too.
AppendServer(t) ==
  /\ At(t, "append")
  /\ \/ /\ \E i \in DOMAIN dns_of : dns_of[i] # NONE_IP
        /\ Len(resolv) < MaxLines
        /\ resolv' = Append(resolv, netcall[t].arg["dns"])
        /\ Write(t, netcall[t])
     \/ UNCHANGED resolv /\ Step(t, netcall[t])
  /\ UNCHANGED <<topic, ifname, net, dns_of>>

\* What a call returns after a failure of one of its functions: set_ip_attr and
\* get_ip_attr, which call several, drop their results.
StatusAfter(c) == IF Len(c.fn) = 1 THEN "-EMBER_ERROR" ELSE c.status

\* A step fails: the function it belongs to returns -EMBER_ERROR.
NetFail(t) ==
  /\ At(t, "acquire") \/ At(t, "check") \/ At(t, "get") \/ At(t, "set")
  /\ LET s == Head(Script(t))
         kept == netcall[t].held \ s.undo
     IN  netcall' = [netcall EXCEPT ![t].todo = Tail(@), ![t].held = {},
                                    ![t].status = StatusAfter(netcall[t]),
                                    ![t].lost = @ \union {<<s.op, s.on, r>> : r \in kept}]
  /\ UNCHANGED <<topic, ifname, net, resolv, dns_of>>

NetReturn(t) ==
  /\ netcall[t].fn # <<>>
  /\ ~Running(t)
  /\ netcall' = [netcall EXCEPT ![t] = NoCall]
  /\ UNCHANGED <<topic, ifname, net, resolv, dns_of>>

\* Another program configures an interface or the resolver, or the cable is
\* plugged or pulled.
Outside ==
  /\ \/ /\ topic = "status"
        /\ \E f \in SUBSET {"up", "promisc"}, l \in BOOLEAN :
             net' = [net EXCEPT !.flags = f, !.link = l]
        /\ UNCHANGED resolv
     \/ /\ topic = "attr"
        /\ \E a \in Addrs, f \in {"ip", "mask", "gw"} :
             /\ f # "ip" => net.ip # NONE_IP
             /\ net' = Changed(net, f, a)
        /\ UNCHANGED resolv
     \/ /\ topic = "attr"
        /\ \E a \in Addrs : resolv' = <<a>>
        /\ UNCHANGED net
  /\ netcall' = [u \in Callers |-> Disturbed(netcall[u])]
  /\ UNCHANGED <<topic, ifname, dns_of>>

NetNext ==
  \/ Outside
  \/ \E t \in Callers :
       \/ NetBegin(t) \/ Acquire(t) \/ Release(t) \/ Check(t) \/ Get(t) \/ None(t)
       \/ Set(t) \/ RecordServer(t) \/ Truncate(t) \/ AppendServer(t) \/ NetFail(t) \/ NetReturn(t)

NetSpec == NetInit /\ [][NetNext]_netVars

-----------------------------------------------------------------------------
(* Properties.                                                             *)

\* Sockets, pipes and resolver states are released on every path but three:
\* an invalid string for set_local_mac, no output of the route command in
\* get_local_gateway, and no name server in get_local_dns.
OnlyKnownLeaks ==
  \A t \in Callers :
    /\ netcall[t].lost \subseteq
         {<<"check", "mac", "sd">>, <<"get", "gw", "fp">>, <<"get", "dns", "res">>}
    /\ ~Running(t) => netcall[t].held = {}

\* The call is about to return and nobody has interfered with it.
Undisturbed(t, fn) == netcall[t].fn = fn /\ ~Running(t) /\ netcall[t].alone

Succeeded(t, fn) == Undisturbed(t, fn) /\ netcall[t].status = "EMBER_EOK"

\* A call nobody interferes with that returns EMBER_EOK has done its work: a
\* set function has set what its string says (an unparsable mask sets 0.0.0.0),
\* set_netdev_status the one flag, and a get function returns what is there.
\* The EMBER_EOK of set_ip_attr and set_local_dns says nothing, and nothing is
\* concluded from it: whichever of their steps failed, what the others have
\* set is in place in the end, none of it lost by a later step.
NetCallsAreRight ==
  \A t \in Callers :
    LET c == netcall[t]
    IN  /\ Undisturbed(t, set_ip_attr) =>
             \A f \in c.done :
               IF f = "dns" THEN resolv # <<>> /\ Head(resolv) = c.arg[f]
               ELSE net[f] = Parsed(f, c.arg[f])
        /\ (Undisturbed(t, <<set_local_dns>>) /\ "dns" \in c.done) =>
             \A n \in DOMAIN resolv : resolv[n] = c.arg["dns"]
        /\ Succeeded(t, <<set_netdev_status>>) =>
             /\ ("up" \in net.flags) = (c.arg["flags"] = "LINK_UP")
             /\ net.flags \ {"up"} = c.out["flags"] \ {"up"}
        /\ \A g \in {<<set_local_mac, "mac">>, <<set_local_ip, "ip">>, <<set_local_netmask, "mask">>,
                    <<set_local_gateway, "gw">>} :
             Succeeded(t, <<g[1]>>) => net[g[2]] = Parsed(g[2], c.arg[g[2]])
        /\ \A g \in {<<get_local_mac, "mac">>, <<get_local_ip, "ip">>, <<get_local_netmask, "mask">>,
                    <<get_local_gateway, "gw">>, <<get_local_dns, "dns">>, <<get_netdev_status, "link">>} :
             Succeeded(t, <<g[1]>>) => c.out[g[2]] = NetValue(g[2])

\* Claim of the comment on set_ip_attr: it returns EMBER_EOK while success and
\* -EMBER_ERROR while failure.  If it returns EMBER_EOK, and nobody interferes,
\* the interface has the address, mask and gateway asked for, and the resolver
\* the name server.
SetStatusIsHonest ==
  \A t \in Callers :
    Succeeded(t, set_ip_attr) =>
      \A f \in {"ip", "mask", "gw", "dns"} : NetValue(f) = netcall[t].arg[f]

\* get_ip_attr gives the caller the address, mask, gateway and name server of
\* the interface, those of them that its calls have read.
AttributesReported ==
  \A t \in Callers :
    Undisturbed(t, get_ip_attr) =>
      \A f \in netcall[t].done : netcall[t].out[f] = NetValue(f)

=============================================================================
