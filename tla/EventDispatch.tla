---------------------------- MODULE EventDispatch ----------------------------
(***************************************************************************)
(* What SignalEvent and SignalEventAfter promise their callers, without    *)
(* the loop: an event that was signalled runs at most once, on the node it *)
(* was sent to, one event at a time per node, and the events one caller    *)
(* sends to one node through the event channel begin in the order they     *)
(* were sent.  Events that went through the timed pool have no order.      *)
(***************************************************************************)
EXTENDS Integers

CONSTANTS None, Nodes, Work   \* Work: records with fields id, src, dst

VARIABLES
  signalled,  \* events whose call has returned
  loose,      \* those of them that went through the timed pool
  running,    \* the event each node is handling, or None
  finished    \* events whose action has ended

absVars == <<signalled, loose, running, finished>>

Begun(e) == e \in finished \/ running[e.dst] = e

AbsInit ==
  /\ signalled \in SUBSET Work /\ loose = signalled
  /\ running = [n \in Nodes |-> None]
  /\ finished = {}

Signal(e) ==
  /\ e \in Work \ signalled
  /\ signalled' = signalled \cup {e}
  /\ loose' \in {loose, loose \cup {e}}
  /\ UNCHANGED <<running, finished>>

Begin(e) ==
  /\ e \in signalled /\ ~Begun(e)
  /\ running[e.dst] = None
  /\ e \notin loose =>
       \A f \in signalled \ loose :
         f.src = e.src /\ f.dst = e.dst /\ f.id < e.id => Begun(f)
  /\ running' = [running EXCEPT ![e.dst] = e]
  /\ UNCHANGED <<signalled, loose, finished>>

Finish(n) ==
  /\ running[n] # None
  /\ finished' = finished \cup {running[n]}
  /\ running' = [running EXCEPT ![n] = None]
  /\ UNCHANGED <<signalled, loose>>

AbsNext ==
  \/ \E e \in Work : Signal(e) \/ Begin(e)
  \/ \E n \in Nodes : Finish(n)

AbsSpec == AbsInit /\ [][AbsNext]_absVars
=============================================================================
