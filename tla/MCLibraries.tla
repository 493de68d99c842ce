---------------------------- MODULE MCLibraries -----------------------------
(***************************************************************************)
(* Instances for TLC of the libraries that share nothing with each other:  *)
(* node registry, state machine, network helpers, digests and CRCs.  A     *)
(* behaviour is one of a single library; the others rest in an initial     *)
(* state.                                                                  *)
(***************************************************************************)
EXTENDS PPoolQueue, NodeRegistry, Fsm, Netdev, Digest, Crc

CONSTANTS Libraries,                 \* those considered
          boot, ready, run, lost,    \* states of the machine
          init, start                \* its events

VARIABLE library

allVars == <<library, queueVars, vars, fsmVars, netVars, digestVars, crcVars>>

\* Names, and the addresses of nodes of the queue, are compared only for
\* equality.
NameSymmetry == Permutations(Names)

\* Priorities that include a refused one and allow ties.
QueuePriorities == {-1, 0, 1, 2}

Tr(from, event, to, action) == [from |-> from, event |-> event, to |-> to, action |-> action]

\* Two transitions for one state and event, a cycle, and a state (lost) that
\* none of the others leads to.
Shadowed ==
  <<Tr(boot, init, ready, TRUE), Tr(boot, init, run, FALSE), Tr(boot, start, boot, TRUE),
    Tr(ready, start, run, TRUE), Tr(run, start, boot, FALSE), Tr(lost, init, lost, TRUE),
    Tr(run, init, ready, TRUE)>>

FsmTables == {Shadowed, <<>>}

\* Message bytes: 0x00, 0x31 and 0xFF.
CrcBytes == {Fill(0, 8), <<0, 0, 1, 1, 0, 0, 0, 1>>, Fill(1, 8)}

LibInit ==
  /\ library \in Libraries
  /\ QueueInit /\ Init /\ FsmInit /\ NetInit /\ DigestInit /\ CrcInit
  /\ library # "fsm" => transitions = Shadowed /\ initial_state = boot
  /\ library # "netdev" => topic = "mac" /\ ifname = "eth0"
  /\ (topic = "attr" /\ ifname = "eth0") => dns_of["eth1"] = NONE_IP
  /\ library # "crc" => width = 8 /\ ordered /\ ~table_ready

LibNext ==
  \/ library = "queue" /\ QueueNext /\ UNCHANGED <<library, vars, fsmVars, netVars, digestVars, crcVars>>
  \/ library = "registry" /\ Next /\ UNCHANGED <<library, queueVars, fsmVars, netVars, digestVars, crcVars>>
  \/ library = "fsm" /\ FsmNext /\ UNCHANGED <<library, queueVars, vars, netVars, digestVars, crcVars>>
  \/ library = "netdev" /\ NetNext /\ UNCHANGED <<library, queueVars, vars, fsmVars, digestVars, crcVars>>
  \/ library = "digest" /\ DigestNext /\ UNCHANGED <<library, queueVars, vars, fsmVars, netVars, crcVars>>
  \/ library = "crc" /\ CrcNext /\ UNCHANGED <<library, queueVars, vars, fsmVars, netVars, digestVars>>

LibSpec == LibInit /\ [][LibNext]_allVars

=============================================================================
