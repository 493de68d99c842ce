-------------------------------- MODULE Fsm ---------------------------------
(***************************************************************************)
(* The table-driven state machine of core/runtime/src/fsm.c.  A transition *)
(* may have an action, which is given the machine and may call             *)
(* ember_fsm_dispatch and ember_fsm_reset on it before it returns: the     *)
(* dispatches that wait for their action form a stack.  The machine has no *)
(* lock and is used by one thread.                                         *)
(***************************************************************************)
EXTENDS Naturals, Sequences

CONSTANTS FsmStates, Events,
          Tables,      \* transition tables: sequences of transitions
          MaxDepth     \* bound on nested dispatches

Transition == [from : FsmStates, event : Events, to : FsmStates, action : BOOLEAN]

ASSUME FsmAssumption ==
  /\ \A tab \in Tables : \A i \in DOMAIN tab : tab[i] \in Transition
  /\ MaxDepth \in Nat

VARIABLES
  transitions,     \* the table
  initial_state,
  current_state,
  frames,          \* transitions of the dispatches inside their action, outermost first
  returned         \* history: the last call that returned from the outermost level

fsmVars == <<transitions, initial_state, current_state, frames, returned>>

NoReturn == [code |-> "none", from |-> initial_state, to |-> initial_state]

\* ember_fsm_init, any initial state.
FsmInit ==
  /\ transitions \in Tables
  /\ initial_state \in FsmStates
  /\ current_state = initial_state
  /\ frames = <<>>
  /\ returned = NoReturn

\* Mutant: the event alone decides.
BugMatchingAnySource(s, e) == {i \in DOMAIN transitions : transitions[i].event = e}

\* The transition the loop stops at, if there is one.
Matching(s, e) ==
  {i \in DOMAIN transitions :
     /\ transitions[i].from = s /\ transitions[i].event = e
     /\ \A j \in 1 .. (i - 1) : transitions[j].from # s \/ transitions[j].event # e}

\* What a call leaves behind: only the outermost one returns to the program.
Outermost(code, from, to) ==
  returned' = IF frames = <<>> THEN [code |-> code, from |-> from, to |-> to] ELSE returned

ember_fsm_dispatch(e) ==
  /\ Len(frames) < MaxDepth
  /\ \/ /\ Matching(current_state, e) = {}
        /\ Outermost("ENOTFOUND", current_state, current_state)
        /\ UNCHANGED <<current_state, frames>>
     \/ \E i \in Matching(current_state, e) :
          IF transitions[i].action
          THEN /\ frames' = Append(frames, transitions[i])
               /\ UNCHANGED <<current_state, returned>>
          ELSE /\ current_state' = transitions[i].to
               /\ Outermost("OK", current_state, current_state')
               /\ UNCHANGED frames
  /\ UNCHANGED <<transitions, initial_state>>

Top == frames[Len(frames)]
Below == SubSeq(frames, 1, Len(frames) - 1)

\* Mutant: what the action did to the machine is left alone.
BugCommitted(tr) == IF current_state = tr.from THEN tr.to ELSE current_state

Committed(tr) == tr.to

\* The action returns, and with it the dispatch that called it.
ActionReturns(ok) ==
  /\ frames # <<>>
  /\ current_state' = IF ok THEN Committed(Top) ELSE current_state
  /\ frames' = Below
  /\ returned' = IF Below = <<>>
                 THEN [code |-> IF ok THEN "OK" ELSE "EACTION",
                       from |-> Top.from, to |-> Top.to]
                 ELSE returned
  /\ UNCHANGED <<transitions, initial_state>>

ember_fsm_reset ==
  /\ current_state' = initial_state
  /\ returned' = IF frames = <<>> THEN NoReturn ELSE returned
  /\ UNCHANGED <<transitions, initial_state, frames>>

FsmNext ==
  \/ \E e \in Events : ember_fsm_dispatch(e)
  \/ \E ok \in BOOLEAN : ActionReturns(ok)
  \/ ember_fsm_reset

FsmSpec == FsmInit /\ [][FsmNext]_fsmVars

-----------------------------------------------------------------------------

\* The smallest set that contains the initial state and every state that the
\* table leads to from one of its members.
Reachable ==
  LET closed == {S \in SUBSET FsmStates :
                   /\ initial_state \in S
                   /\ \A i \in DOMAIN transitions :
                        transitions[i].from \in S => transitions[i].to \in S}
  IN  {s \in FsmStates : \A S \in closed : s \in S}

\* However dispatches and resets nest, the machine is in a state the table
\* leads to from the initial state, and the source of every dispatch that
\* waits for its action is one too.
OnlyReachableStates ==
  /\ current_state \in Reachable
  /\ \A k \in DOMAIN frames : frames[k].from \in Reachable

\* When the outermost dispatch has returned OK the machine is in the target
\* of the transition that dispatch chose: whatever its action dispatched or
\* reset on the same machine is overwritten.
OuterTransitionWins ==
  frames = <<>> /\ returned.code = "OK" => current_state = returned.to

=============================================================================
