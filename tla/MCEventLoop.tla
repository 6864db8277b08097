---------------------------- MODULE MCEventLoop ----------------------------
(* Model-checking instances of EventLoop: the calls each run allows.       *)
EXTENDS EventLoop

CONSTANTS n1, n2, n3, g1, g2, p1

Ev(i, src, dst, kind, secs) ==
  [id |-> i, src |-> src, dst |-> dst, kind |-> kind, secs |-> secs]

(* Two nodes, one not started, and two outside callers.                    *)
TwoNodeEvents ==
  {Ev(1, g1, n1, "work", 0), Ev(2, g1, n1, "work", 0),
   Ev(1, g2, n2, "work", 0)}

(* One node that suspends, and that signals timed events to itself, some   *)
(* from before the loop ran; channel traffic; quit from a goroutine and    *)
(* quitAfter with events in flight.                                        *)
BootEvents == {Ev(1, n1, n1, "work", 3), Ev(1, g1, None, "quitAfter", 2)}
LiveEvents ==
  BootEvents \cup
  {Ev(2, g1, n1, "work", 0), Ev(3, g1, None, "quit", 0), Ev(2, n1, n1, "work", 1)}

(* Two callers that start the handler of a node together.                  *)
StartEvents == {Ev(1, g1, n1, "work", 0), Ev(1, g2, n1, "work", 0)}

(* More events than the channel holds.                                     *)
OverflowEvents ==
  {Ev(1, g1, n1, "work", 0), Ev(2, g1, n1, "work", 0), Ev(3, g1, n1, "work", 0)}

(* Timed events of three nodes that expire together, one for n1, two for   *)
(* n2 and three for n3, and channel traffic.                               *)
BatchBoot ==
  {Ev(1, n1, n1, "work", 1), Ev(1, n2, n2, "work", 1), Ev(2, n2, n2, "work", 1),
   Ev(1, n3, n3, "work", 1), Ev(2, n3, n3, "work", 1), Ev(3, n3, n3, "work", 1)}
BatchEvents == BatchBoot \cup {Ev(1, g1, n1, "work", 0)}

NoEvents == {}
=============================================================================
