------------------------------ MODULE MCPoller ------------------------------
(* Instances of Poller: what the data pollers of the loop have to do.      *)
EXTENDS Poller

CONSTANTS a, b

Use(kind, packets, enabled) ==
  [kind |-> kind, packets |-> packets, enables |-> enabled]
Two(ua, ub) == [n \in {a, b} |-> IF n = a THEN ua ELSE ub]

(* One rx poller with enough packets to suspend twice.                     *)
Busy == [n \in {a} |-> Use("rx", 4, 0)]

(* The same beside a poller that gets nothing, and an rx poller beside one *)
(* driven by interrupts or beside the packet generator.                    *)
MixedLoads ==
  {Two(Use("rx", 4, 0), Use("irq", 0, 0)),
   Two(Use("rx", 2, 0), Use("irq", 1, 0)),
   Two(Use("rx", 1, 0), Use("pg", 1, 2))}
BusyLoad == {Busy}
=============================================================================
