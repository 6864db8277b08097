------------------------------- MODULE Poller -------------------------------
(***************************************************************************)
(* The polling half of the main loop, elib/loop/poller.go: the state word  *)
(* of each data poller, the count of active pollers that keeps the loop    *)
(* from sleeping, the pool of active pollers and doPollers.                *)
(*                                                                         *)
(* Threads: the loop; the goroutine of each data poller; the producer that *)
(* finds work for it; the thread that completes the packets it transmits.  *)
(* A call of addActivity is a compare and swap of the node's word, then    *)
(* perhaps one of the loop's word, an Interrupt and an addition to the     *)
(* pending vector: each is a step, and act[t] is what thread t has left.   *)
(*                                                                         *)
(* load[n].kind says how n uses the loop: "rx" is vnet/unix/rx.go          *)
(* (activity first, then the packets), "irq" is ixge (packets first, then  *)
(* one unit of activity per interrupt), "pg" is the packet generator       *)
(* (Activate and ActivateAfter).                                           *)
(***************************************************************************)
EXTENDS Integers, Sequences, FiniteSets

CONSTANTS
  None,          \* no node
  Nodes,         \* data pollers
  Loads,         \* what the pollers of a system may have to do: see load
  Crashing,      \* pollers whose input may panic
  SuspendLimit,  \* SuspendLimits.Suspend
  ResumeLimit,   \* SuspendLimits.Resume
  VectorLen,     \* MaxVectorLen: packets per vector
  LoopNodes      \* len(l.nodes), which also counts nodes that never poll

NoIndex == -1    \* ^uint(0)
Loop == <<"loop", None>>
Threads == ({"produce", "poll", "tx"} \X Nodes) \cup {Loop}

ASSUME PollerAssumption ==
  /\ IsFiniteSet(Nodes) /\ None \notin Nodes
  /\ Loads \subseteq [Nodes -> [kind : {"rx", "irq", "pg"}, packets : Nat,
                                enables : Nat]]
  /\ Crashing \subseteq Nodes
  /\ ResumeLimit \in Nat
  /\ VectorLen \in Nat \ {0}
  /\ SuspendLimit \in Nat /\ ResumeLimit <= SuspendLimit
  /\ VectorLen <= SuspendLimit
  /\ LoopNodes \in Nat

VARIABLES
  load,           \* kind of each node; bounds of its packets and Enable calls
  word,           \* nodePollerState of each node: active, suspend, state
  nActive, eventWait,                  \* activePollerState
  isPending, activePending, sequence,  \* nodeStateMain (sequence & 1)
  entries, free,  \* activePollerPool: node of each index; its free stack
  index,          \* activePollerIndex of each node
  isPolling, toNode, fromNode,
  lpc, li, pend,  \* the loop: program point and locals of doPollers
  act,            \* what is left of each thread's addActivity
  ppc, hold, vec, \* data pollers: program point, packets held, vector sent
  queued,         \* packets found and not yet taken by the poller
  making,         \* packets of a producer between its two steps
  txq, txIndex,   \* packets in transmission; the In.activeIndex they carry
  enable, armed, fire,   \* "pg": enable flag, timed activateEvents, expired
  interrupts,     \* Interrupt events in l.events
  arrivals, enables,     \* bounds
  panicErr,       \* l.panicErr: a recovered panic of a poller
  panicked        \* a panic of this code ended the program

pendVars == <<isPending, activePending, sequence>>
poolVars == <<entries, free, index>>
ftVars == <<isPolling, toNode, fromNode>>
loopVars == <<lpc, li, pend>>
pollerVars == <<ppc, hold, vec>>
workVars == <<queued, making, arrivals>>
txVars == <<txq, txIndex>>
pgVars == <<enable, armed, fire, enables>>

vars == <<load, word, nActive, eventWait, pendVars, poolVars, ftVars, loopVars, act,
          pollerVars, workVars, txVars, pgVars, interrupts, panicErr, panicked>>

Quiet == [node |-> None, delta |-> 0, wake |-> FALSE, alloc |-> FALSE]

Init ==
  /\ load \in Loads
  /\ word = [n \in Nodes |-> [active |-> 0, suspend |-> 0, state |-> "inactive"]]
  /\ nActive = 0 /\ eventWait = FALSE
  /\ isPending = [n \in Nodes |-> FALSE]
  /\ activePending = [i \in 0 .. 1 |-> <<>>] /\ sequence = 0
  /\ entries = <<>> /\ free = <<>>
  /\ index = [n \in Nodes |-> NoIndex]
  /\ isPolling = [n \in Nodes |-> FALSE]
  /\ toNode = [n \in Nodes |-> 0] /\ fromNode = [n \in Nodes |-> <<>>]
  /\ lpc = "top" /\ li = 1 /\ pend = <<>>
  /\ act = [t \in Threads |-> Quiet]
  /\ ppc = [n \in Nodes |-> "wait"]
  /\ hold = [n \in Nodes |-> 0] /\ vec = [n \in Nodes |-> 0]
  /\ queued = [n \in Nodes |-> 0] /\ making = [n \in Nodes |-> 0]
  /\ arrivals = [n \in Nodes |-> 0]
  /\ txq = [n \in Nodes |-> 0] /\ txIndex = [n \in Nodes |-> NoIndex]
  /\ enable = [n \in Nodes |-> FALSE] /\ armed = [n \in Nodes |-> 0]
  /\ fire = {} /\ enables = [n \in Nodes |-> 0]
  /\ interrupts = 0
  /\ panicErr = FALSE /\ panicked = "no"
-----------------------------------------------------------------------------
NeedsPoll(w) ==
  (w.active > 0 \/ w.state = "resumed") /\ w.state # "suspended"

(* An allocation is needed by a node that becomes active and was inactive. *)
NeedAllocAnyState(w, isActive) == isActive /\ w.active = 0

NeedAlloc(w, isActive) ==
  isActive /\ w.active = 0 /\ w.state = "inactive"

BackUpForgotten(w, ds) == w.suspend + ds

(* Back-up so suspend count is never above limit.                          *)
BackUp(w, ds) ==
  IF w.suspend + ds > SuspendLimit THEN w.suspend ELSE w.suspend + ds

(* addActivity up to its compare and swap.  lim: called with limits, that  *)
(* is, from AddSuspendActivity.                                            *)
Added(w, da, ds, lim) ==
  LET limit == IF w.state = "suspended" THEN ResumeLimit ELSE SuspendLimit
      isActive == w.active + da > 0 \/ (lim /\ w.suspend + ds <= limit)
      suspend == IF lim THEN BackUp(w, ds) ELSE w.suspend + ds
      didSuspend == /\ lim /\ w.state # "suspended"
                    /\ ds > 0 /\ w.suspend + ds > SuspendLimit
      didResume == lim /\ w.state = "suspended" /\ suspend <= limit
      needAlloc == NeedAlloc(w, isActive) /\ ~didSuspend
  IN [word |-> [active |-> w.active + da, suspend |-> suspend,
                state |-> IF needAlloc THEN "active"
                          ELSE IF didSuspend THEN "suspended"
                          ELSE IF didResume THEN "resumed" ELSE w.state],
      suspended |-> didSuspend,
      alloc |-> needAlloc]

(* needs_poll before and after decides whether the loop's count changes.   *)
ChangeByActive(old, new) ==
  IF (old.active > 0) = (new.active > 0) THEN 0 ELSE IF new.active > 0 THEN 1 ELSE -1

Change(old, new) ==
  IF NeedsPoll(old) = NeedsPoll(new) THEN 0 ELSE IF NeedsPoll(new) THEN 1 ELSE -1

(* The compare and swap of addActivity; what it leads to is left in act.   *)
AddActivity(t, n, da, ds, lim) ==
  LET r == Added(word[n], da, ds, lim) IN
  IF r.word.active < 0 \/ r.word.suspend < 0
  THEN panicked' = "negative" /\ UNCHANGED <<word, act>>
  ELSE /\ word' = [word EXCEPT ![n] = r.word]
       /\ act' = [act EXCEPT ![t] = [node |-> n, wake |-> FALSE,
                                     delta |-> Change(word[n], r.word),
                                     alloc |-> r.alloc]]
       /\ UNCHANGED panicked

(* Activate(on).  Two calls for one node never overlap, so a retry of the  *)
(* compare and swap meets the same active count.                           *)
Activate(t, n, on) ==
  AddActivity(t, n, IF (word[n].active > 0) = on THEN 0 ELSE IF on THEN 1 ELSE -1,
              0, FALSE)

Free(t) == act[t].delta = 0 /\ ~act[t].wake /\ ~act[t].alloc

(* The wait bit changeActive returns is the one before the change.         *)
OldWaitLost == FALSE

OldWait == eventWait

(* changeActive; a decrement of zero is ignored.                           *)
ChangeActive(t) ==
  LET n1 == IF act[t].delta = 1 THEN nActive + 1
            ELSE IF nActive > 0 THEN nActive - 1 ELSE 0 IN
  /\ act[t].delta # 0
  /\ IF n1 > LoopNodes
     THEN panicked' = "too many" /\ UNCHANGED <<nActive, eventWait, act>>
     ELSE /\ nActive' = n1
          /\ eventWait' = (eventWait /\ n1 = 0)
          /\ act' = [act EXCEPT ![t].delta = 0, ![t].wake = OldWait]
          /\ UNCHANGED panicked
  /\ UNCHANGED <<word, pendVars, poolVars, ftVars, loopVars, pollerVars,
                 workVars, txVars, pgVars, interrupts, panicErr>>

Interrupt(t) ==
  /\ act[t].delta = 0 /\ act[t].wake
  /\ interrupts' = interrupts + 1
  /\ act' = [act EXCEPT ![t].wake = FALSE]
  /\ UNCHANGED <<word, nActive, eventWait, pendVars, poolVars, ftVars, loopVars,
                 pollerVars, workVars, txVars, pgVars, panicErr, panicked>>

(* The pending vector, under its lock.                                     *)
AddPending(t) ==
  LET n == act[t].node IN
  /\ act[t].delta = 0 /\ ~act[t].wake /\ act[t].alloc
  /\ act' = [act EXCEPT ![t].alloc = FALSE]
  /\ IF isPending[n]
     THEN UNCHANGED <<isPending, activePending>>
     ELSE /\ isPending' = [isPending EXCEPT ![n] = TRUE]
          /\ activePending' = [activePending EXCEPT ![sequence] = Append(@, n)]
  /\ UNCHANGED <<word, nActive, eventWait, sequence, poolVars, ftVars, loopVars,
                 pollerVars, workVars, txVars, pgVars, interrupts, panicErr,
                 panicked>>

Finish(t) == ChangeActive(t) \/ Interrupt(t) \/ AddPending(t)
-----------------------------------------------------------------------------
(* ReadReady: activity is added before the packets go to rv_input.         *)
ReadReady(n) ==
  /\ load[n].kind = "rx" /\ making[n] = 0 /\ Free(<<"produce", n>>)
  /\ word[n].state # "suspended"
  /\ \E k \in 1 .. load[n].packets - arrivals[n] :
       /\ arrivals' = [arrivals EXCEPT ![n] = @ + k]
       /\ making' = [making EXCEPT ![n] = k]
       /\ AddActivity(<<"produce", n>>, n, k, 0, FALSE)
  /\ UNCHANGED <<nActive, eventWait, pendVars, poolVars, ftVars, loopVars,
                 pollerVars, queued, txVars, pgVars, interrupts, panicErr>>

SendInput(n) ==
  /\ load[n].kind = "rx" /\ making[n] > 0 /\ Free(<<"produce", n>>)
  /\ queued' = [queued EXCEPT ![n] = @ + making[n]]
  /\ making' = [making EXCEPT ![n] = 0]
  /\ UNCHANGED <<word, nActive, eventWait, pendVars, poolVars, ftVars, loopVars,
                 act, pollerVars, arrivals, txVars, pgVars, interrupts,
                 panicErr, panicked>>

(* dev.Interrupt: the packet is in the ring before the activity is added.  *)
PacketInRing(n) ==
  /\ load[n].kind = "irq" /\ making[n] = 0 /\ arrivals[n] < load[n].packets
  /\ arrivals' = [arrivals EXCEPT ![n] = @ + 1]
  /\ queued' = [queued EXCEPT ![n] = @ + 1]
  /\ making' = [making EXCEPT ![n] = 1]
  /\ UNCHANGED <<word, nActive, eventWait, pendVars, poolVars, ftVars, loopVars,
                 act, pollerVars, txVars, pgVars, interrupts, panicErr, panicked>>

DeviceInterrupt(n) ==
  /\ load[n].kind = "irq" /\ making[n] > 0 /\ Free(<<"produce", n>>)
  /\ making' = [making EXCEPT ![n] = 0]
  /\ AddActivity(<<"produce", n>>, n, 1, 0, FALSE)
  /\ UNCHANGED <<nActive, eventWait, pendVars, poolVars, ftVars, loopVars,
                 pollerVars, queued, arrivals, txVars, pgVars, interrupts,
                 panicErr>>

(* pg Enable, an event action: it runs inside doEvents.                    *)
Enable(n) ==
  /\ lpc = "events" /\ Free(Loop)
  /\ load[n].kind = "pg" /\ enables[n] < load[n].enables
  /\ enables' = [enables EXCEPT ![n] = @ + 1]
  /\ enable' = [enable EXCEPT ![n] = ~@]
  /\ Activate(Loop, n, ~enable[n])
  /\ UNCHANGED <<nActive, eventWait, pendVars, poolVars, ftVars, loopVars,
                 pollerVars, workVars, txVars, armed, fire, interrupts, panicErr>>

Produce(n) ==
  ReadReady(n) \/ SendInput(n) \/ PacketInRing(n) \/ DeviceInterrupt(n)
-----------------------------------------------------------------------------
(* dataPoll: wait for the loop, take the input, send the output.           *)
WaitLoop(n) ==
  /\ ppc[n] = "wait" /\ toNode[n] = 1
  /\ toNode' = [toNode EXCEPT ![n] = 0]
  /\ ppc' = [ppc EXCEPT ![n] = "input"]
  /\ UNCHANGED <<word, nActive, eventWait, pendVars, poolVars, isPolling,
                 fromNode, loopVars, act, hold, vec, workVars, txVars, pgVars,
                 interrupts, panicErr, panicked>>

(* k packets taken, j of them to be transmitted, the others dropped.       *)
Take(n, k, j) ==
  /\ queued' = [queued EXCEPT ![n] = @ - k]
  /\ hold' = [hold EXCEPT ![n] = j]
  /\ ppc' = [ppc EXCEPT ![n] = "output"]

(* rx NodeInput: AddDataActivity(-n_refs) once the packets are taken; what *)
(* a full output leaves behind stays counted as active.                    *)
RxInput(n) ==
  /\ load[n].kind = "rx" /\ ppc[n] = "input"
  /\ \E k \in 0 .. queued[n] :
       /\ k = 0 => queued[n] = 0
       /\ \E j \in 0 .. k : Take(n, k, j)
       /\ AddActivity(<<"poll", n>>, n, -k, 0, FALSE)
  /\ UNCHANGED <<nActive, eventWait, pendVars, poolVars, ftVars, loopVars, vec,
                 making, arrivals, txVars, pgVars, interrupts, panicErr>>

(* ixge InterfaceInput: less one unit when active and the ring is empty.   *)
IrqLess(n, left) == IF word[n].active > 0 /\ left = 0 THEN -1 ELSE 0

IrqInput(n) ==
  /\ load[n].kind = "irq" /\ ppc[n] = "input"
  /\ \E k \in 0 .. queued[n] :
       /\ k = 0 => queued[n] = 0
       /\ \E j \in 0 .. k : Take(n, k, j)
       /\ AddActivity(<<"poll", n>>, n, IrqLess(n, queued[n] - k), 0, FALSE)
  /\ UNCHANGED <<nActive, eventWait, pendVars, poolVars, ftVars, loopVars, vec,
                 making, arrivals, txVars, pgVars, interrupts, panicErr>>

(* pg InterfaceInput: disabled; or all streams done; or active again       *)
(* later (ActivateAfter); or still active.                                 *)
PgInput(n) ==
  /\ load[n].kind = "pg" /\ ppc[n] = "input"
  /\ \E j \in 0 .. 1 :
       /\ j = 1 => enable[n] /\ arrivals[n] < load[n].packets
       /\ arrivals' = [arrivals EXCEPT ![n] = @ + j]
       /\ Take(n, 0, j)
  /\ \/ /\ Activate(<<"poll", n>>, n, FALSE)
        /\ UNCHANGED armed
     \/ /\ enable[n] /\ arrivals'[n] < load[n].packets
        /\ Activate(<<"poll", n>>, n, FALSE)
        /\ armed' = IF word[n].active > 0 THEN [armed EXCEPT ![n] = @ + 1]
                    ELSE armed
     \/ /\ enable[n] /\ arrivals'[n] < load[n].packets
        /\ Activate(<<"poll", n>>, n, TRUE)
        /\ UNCHANGED armed
  /\ UNCHANGED <<nActive, eventWait, pendVars, poolVars, ftVars, loopVars, vec,
                 making, txVars, enable, fire, enables, interrupts, panicErr>>

(* getPoller: the packets' active poller is allocated, to their node.      *)
FreePositions == {free[k] : k \in 1 .. Len(free)}
Allocated(i) == i \in 0 .. Len(entries) - 1 /\ i \notin FreePositions
RefOK(n, i) == Allocated(i) /\ entries[i + 1] = n

(* AddSuspendActivity by the poller, for a vector of packets; repeated for *)
(* the same vector after a suspend.                                        *)
AddSuspendActivity(n) ==
  /\ ppc[n] = "output" /\ Free(<<"poll", n>>)
  /\ hold[n] > 0
  /\ \E v \in IF vec[n] > 0 THEN {vec[n]}
              ELSE {k \in 1 .. VectorLen : k <= hold[n]} :
       /\ vec' = [vec EXCEPT ![n] = v]
       /\ ppc' = [ppc EXCEPT ![n] = IF Added(word[n], 0, v, TRUE).suspended
                                    THEN "suspend" ELSE "send"]
       /\ IF RefOK(n, index[n])
          THEN AddActivity(<<"poll", n>>, n, 0, v, TRUE)
          ELSE panicked' = "freed" /\ UNCHANGED <<word, act>>
  /\ UNCHANGED <<nActive, eventWait, pendVars, poolVars, ftVars, loopVars, hold,
                 workVars, txVars, pgVars, interrupts, panicErr>>

Send(n) ==
  /\ ppc[n] = "send" /\ Free(<<"poll", n>>)
  /\ txq' = [txq EXCEPT ![n] = @ + vec[n]]
  /\ txIndex' = [txIndex EXCEPT ![n] = index[n]]
  /\ hold' = [hold EXCEPT ![n] = @ - vec[n]]
  /\ vec' = [vec EXCEPT ![n] = 0]
  /\ ppc' = [ppc EXCEPT ![n] = "output"]
  /\ UNCHANGED <<word, nActive, eventWait, pendVars, poolVars, ftVars, loopVars,
                 act, workVars, pgVars, interrupts, panicErr, panicked>>

SignalSuspended(n) ==
  /\ ppc[n] = "suspend" /\ Free(<<"poll", n>>)
  /\ fromNode[n] = <<>>
  /\ fromNode' = [fromNode EXCEPT ![n] = <<FALSE>>]
  /\ ppc' = [ppc EXCEPT ![n] = "suspended"]
  /\ UNCHANGED <<word, nActive, eventWait, pendVars, poolVars, isPolling, toNode,
                 loopVars, act, hold, vec, workVars, txVars, pgVars, interrupts,
                 panicErr, panicked>>

Continue(n) ==
  /\ ppc[n] = "suspended" /\ toNode[n] = 1
  /\ toNode' = [toNode EXCEPT ![n] = 0]
  /\ ppc' = [ppc EXCEPT ![n] = "output"]
  /\ UNCHANGED <<word, nActive, eventWait, pendVars, poolVars, isPolling,
                 fromNode, loopVars, act, hold, vec, workVars, txVars, pgVars,
                 interrupts, panicErr, panicked>>

SignalLoop(n) ==
  /\ ppc[n] = "output" /\ Free(<<"poll", n>>) /\ hold[n] = 0
  /\ fromNode[n] = <<>>
  /\ fromNode' = [fromNode EXCEPT ![n] = <<TRUE>>]
  /\ ppc' = [ppc EXCEPT ![n] = "wait"]
  /\ UNCHANGED <<word, nActive, eventWait, pendVars, poolVars, isPolling, toNode,
                 loopVars, act, hold, vec, workVars, txVars, pgVars, interrupts,
                 panicErr, panicked>>

(* The deferred recover of dataPoll: the panic is recorded, the loop told. *)
PanicPoller(n) ==
  /\ n \in Crashing
  /\ ppc[n] \in {"input", "output"} /\ Free(<<"poll", n>>)
  /\ fromNode[n] = <<>>
  /\ fromNode' = [fromNode EXCEPT ![n] = <<TRUE>>]
  /\ ppc' = [ppc EXCEPT ![n] = "dead"]
  /\ panicErr' = TRUE
  /\ UNCHANGED <<word, nActive, eventWait, pendVars, poolVars, isPolling, toNode,
                 loopVars, act, hold, vec, workVars, txVars, pgVars, interrupts,
                 panicked>>

DataPoll(n) ==
  \/ WaitLoop(n) \/ RxInput(n) \/ IrqInput(n) \/ PgInput(n)
  \/ AddSuspendActivity(n) \/ Send(n) \/ SignalSuspended(n) \/ Continue(n)
  \/ SignalLoop(n)

(* FreeTxRefIn and write_packet_vector: k packets have left.               *)
TxDone(n) ==
  /\ txq[n] > 0 /\ Free(<<"tx", n>>)
  /\ \E k \in 1 .. txq[n] :
       /\ txq' = [txq EXCEPT ![n] = @ - k]
       /\ IF RefOK(n, txIndex[n])
          THEN AddActivity(<<"tx", n>>, n, 0, -k, TRUE)
          ELSE panicked' = "freed" /\ UNCHANGED <<word, act>>
  /\ UNCHANGED <<nActive, eventWait, pendVars, poolVars, ftVars, loopVars,
                 pollerVars, workVars, txIndex, pgVars, interrupts, panicErr>>
-----------------------------------------------------------------------------
(* The loop: doEvents as far as it concerns pollers.  Each iteration takes *)
(* at most one event from l.events, with or without waiting.               *)
SetEventWait ==
  /\ lpc = "top"
  /\ eventWait' = (nActive = 0)
  /\ lpc' = IF nActive = 0 THEN "sleep" ELSE "events"
  /\ interrupts' = IF nActive > 0 /\ interrupts > 0 THEN interrupts - 1
                   ELSE interrupts
  /\ UNCHANGED <<word, nActive, pendVars, poolVars, ftVars, li, pend, act,
                 pollerVars, workVars, txVars, pgVars, panicErr, panicked>>

(* Woken by an Interrupt, by some other event (Enable comes as one), or by *)
(* the timer, which expires activateEvents.                                *)
Wake ==
  /\ lpc = "sleep"
  /\ \/ /\ interrupts > 0
        /\ interrupts' = interrupts - 1
        /\ UNCHANGED <<armed, fire>>
     \/ /\ \E n \in Nodes : load[n].kind = "pg" /\ enables[n] < load[n].enables
        /\ UNCHANGED <<armed, fire, interrupts>>
     \/ /\ fire' \in SUBSET {n \in Nodes : armed[n] > 0} \ {{}}
        /\ armed' = [n \in Nodes |-> IF n \in fire' THEN armed[n] - 1 ELSE armed[n]]
        /\ UNCHANGED interrupts
  /\ lpc' = "clear"
  /\ UNCHANGED <<word, nActive, eventWait, pendVars, poolVars, ftVars, li, pend,
                 act, pollerVars, workVars, txVars, enable, enables, panicErr,
                 panicked>>

ClearEventWait ==
  /\ lpc = "clear"
  /\ eventWait' = FALSE
  /\ lpc' = "events"
  /\ UNCHANGED <<word, nActive, pendVars, poolVars, ftVars, li, pend, act,
                 pollerVars, workVars, txVars, pgVars, interrupts, panicErr,
                 panicked>>

(* activateEvent.EventAction.                                              *)
ActivateEvent(n) ==
  /\ lpc = "events" /\ Free(Loop)
  /\ n \in fire
  /\ fire' = fire \ {n}
  /\ Activate(Loop, n, TRUE)
  /\ UNCHANGED <<nActive, eventWait, pendVars, poolVars, ftVars, loopVars,
                 pollerVars, workVars, txVars, enable, armed, enables,
                 interrupts, panicErr>>

EndDoEvents ==
  /\ lpc = "events" /\ Free(Loop) /\ fire = {}
  /\ lpc' = IF panicErr THEN "exit" ELSE "pending"
  /\ UNCHANGED <<word, nActive, eventWait, pendVars, poolVars, ftVars, li, pend,
                 act, pollerVars, workVars, txVars, pgVars, interrupts, panicErr,
                 panicked>>

(* The low bit of the sequence selects the vector for new nodes.           *)
NextSequence == 1 - sequence

StillPendingForgotten(n, taken) == isPending[n]

StillPending(n, taken) == isPending[n] /\ \A k \in 1 .. Len(taken) : taken[k] # n

GetAllocPending ==
  /\ lpc = "pending"
  /\ pend' = activePending[sequence]
  /\ activePending' = [activePending EXCEPT ![1 - sequence] = <<>>]
  /\ isPending' = [n \in Nodes |-> StillPending(n, pend')]
  /\ sequence' = NextSequence
  /\ lpc' = "alloc"
  /\ UNCHANGED <<word, nActive, eventWait, poolVars, ftVars, li, act, pollerVars,
                 workVars, txVars, pgVars, interrupts, panicErr, panicked>>

(* The pool pops its free stack, or grows by one.                          *)
AllocActivePoller ==
  /\ lpc = "alloc" /\ pend # <<>>
  /\ LET n == Head(pend)
         i == IF free # <<>> THEN free[Len(free)] ELSE Len(entries) IN
     IF Allocated(index[n])
     THEN panicked' = "allocated" /\ UNCHANGED <<entries, free, index>>
     ELSE /\ entries' = IF free # <<>> THEN [entries EXCEPT ![i + 1] = n]
                        ELSE Append(entries, n)
          /\ free' = IF free # <<>> THEN SubSeq(free, 1, Len(free) - 1) ELSE free
          /\ index' = [index EXCEPT ![n] = i]
          /\ UNCHANGED panicked
  /\ pend' = Tail(pend)
  /\ UNCHANGED <<word, nActive, eventWait, pendVars, ftVars, lpc, li, act,
                 pollerVars, workVars, txVars, pgVars, interrupts, panicErr>>

AllAllocated ==
  /\ lpc = "alloc" /\ pend = <<>>
  /\ lpc' = "poll"
  /\ UNCHANGED <<word, nActive, eventWait, pendVars, poolVars, ftVars, li, pend,
                 act, pollerVars, workVars, txVars, pgVars, interrupts, panicErr,
                 panicked>>

(* First pass: start the pollers that need it.                             *)
StartPoller ==
  /\ lpc = "poll" /\ li <= Len(entries)
  /\ li' = li + 1
  /\ IF Allocated(li - 1)
     THEN LET n == entries[li] IN
          /\ isPolling' = [isPolling EXCEPT ![n] = NeedsPoll(word[n])]
          /\ IF NeedsPoll(word[n])
             THEN toNode[n] = 0 /\ toNode' = [toNode EXCEPT ![n] = 1]
             ELSE UNCHANGED toNode
     ELSE UNCHANGED <<isPolling, toNode>>
  /\ UNCHANGED <<word, nActive, eventWait, pendVars, poolVars, fromNode, lpc,
                 pend, act, pollerVars, workVars, txVars, pgVars, interrupts,
                 panicErr, panicked>>

AllStarted ==
  /\ lpc = "poll" /\ li > Len(entries)
  /\ li' = 1 /\ lpc' = "wait"
  /\ UNCHANGED <<word, nActive, eventWait, pendVars, poolVars, ftVars, pend, act,
                 pollerVars, workVars, txVars, pgVars, interrupts, panicErr,
                 panicked>>

Started(i) == Allocated(i - 1) /\ isPolling[entries[i]]

AnsweredIgnored(n) == TRUE

Answered(n) == fromNode[n] # <<>>

(* Second pass: wait for each; then maybeClearResume; then, if it          *)
(* finished rather than suspended, maybeFreeActive.                        *)
WaitPoller ==
  /\ lpc = "wait" /\ li <= Len(entries) /\ Started(li)
  /\ LET n == entries[li] IN
     /\ Answered(n)
     /\ fromNode' = [fromNode EXCEPT ![n] = <<>>]
     /\ lpc' = IF fromNode[n] = <<TRUE>> THEN "clearDone" ELSE "clearResume"
  /\ UNCHANGED <<word, nActive, eventWait, pendVars, poolVars, isPolling, toNode,
                 li, pend, act, pollerVars, workVars, txVars, pgVars, interrupts,
                 panicErr, panicked>>

SkipPoller ==
  /\ lpc = "wait" /\ li <= Len(entries) /\ ~Started(li)
  /\ li' = li + 1
  /\ UNCHANGED <<word, nActive, eventWait, pendVars, poolVars, ftVars, lpc, pend,
                 act, pollerVars, workVars, txVars, pgVars, interrupts, panicErr,
                 panicked>>

ClearedChange(w) == IF w.active = 0 THEN -1 ELSE 0

MaybeClearResume ==
  /\ lpc \in {"clearDone", "clearResume"}
  /\ LET n == entries[li] IN
     IF word[n].state = "resumed"
     THEN /\ word' = [word EXCEPT ![n].state = "active"]
          /\ act' = [act EXCEPT ![Loop].delta = ClearedChange(word[n])]
     ELSE UNCHANGED <<word, act>>
  /\ lpc' = IF lpc = "clearDone" THEN "free" ELSE "next"
  /\ UNCHANGED <<nActive, eventWait, pendVars, poolVars, ftVars, li, pend,
                 pollerVars, workVars, txVars, pgVars, interrupts, panicErr,
                 panicked>>

MayFreeInFlight(w) == w.state # "suspended" /\ w.active = 0

MayFree(w) == w.state # "suspended" /\ w.active = 0 /\ w.suspend = 0

MaybeFreeActive ==
  /\ lpc = "free" /\ Free(Loop)
  /\ LET n == entries[li] IN
     IF MayFree(word[n])
     THEN /\ word' = [word EXCEPT ![n] = [active |-> 0, suspend |-> 0,
                                          state |-> "inactive"]]
          /\ entries' = [entries EXCEPT ![li] = None]
          /\ free' = Append(free, index[n])
          /\ index' = [index EXCEPT ![n] = NoIndex]
     ELSE UNCHANGED <<word, poolVars>>
  /\ lpc' = "next"
  /\ UNCHANGED <<nActive, eventWait, pendVars, ftVars, li, pend, act, pollerVars,
                 workVars, txVars, pgVars, interrupts, panicErr, panicked>>

NextPoller ==
  /\ lpc = "next" /\ Free(Loop)
  /\ li' = li + 1 /\ lpc' = "wait"
  /\ UNCHANGED <<word, nActive, eventWait, pendVars, poolVars, ftVars, pend, act,
                 pollerVars, workVars, txVars, pgVars, interrupts, panicErr,
                 panicked>>

AllWaited ==
  /\ lpc = "wait" /\ li > Len(entries)
  /\ li' = 1 /\ lpc' = "top"
  /\ UNCHANGED <<word, nActive, eventWait, pendVars, poolVars, ftVars, pend, act,
                 pollerVars, workVars, txVars, pgVars, interrupts, panicErr,
                 panicked>>

LoopStep ==
  \/ SetEventWait \/ Wake \/ ClearEventWait
  \/ (\E n \in Nodes : ActivateEvent(n)) \/ EndDoEvents
  \/ GetAllocPending \/ AllocActivePoller \/ AllAllocated
  \/ StartPoller \/ AllStarted \/ WaitPoller \/ SkipPoller
  \/ MaybeClearResume \/ MaybeFreeActive \/ NextPoller \/ AllWaited
-----------------------------------------------------------------------------
Step ==
  \/ \E t \in Threads : Finish(t)
  \/ \E n \in Nodes :
       Produce(n) \/ Enable(n) \/ DataPoll(n) \/ PanicPoller(n) \/ TxDone(n)
  \/ LoopStep

Running == lpc # "exit" /\ panicked = "no"

Go(A) == Running /\ A /\ UNCHANGED load

Asleep == Running /\ lpc = "sleep" /\ UNCHANGED vars
Exited == ~Running /\ UNCHANGED vars

Next == Go(Step) \/ Asleep \/ Exited

Spec == Init /\ [][Next]_vars

(* Goroutines are scheduled and finish the calls they began; packets in    *)
(* transmission leave.  Nothing need arrive.                               *)
Fairness ==
  /\ WF_vars(Go(LoopStep))
  /\ \A t \in Threads : WF_vars(Go(Finish(t)))
  /\ \A n \in Nodes :
       /\ WF_vars(Go(DataPoll(n)))
       /\ WF_vars(Go(TxDone(n)))
       /\ WF_vars(Go(SendInput(n) \/ DeviceInterrupt(n)))

FairSpec == Spec /\ Fairness
-----------------------------------------------------------------------------
TypeOK ==
  /\ word \in [Nodes -> [active : Nat, suspend : 0 .. SuspendLimit,
                         state : {"inactive", "active", "suspended", "resumed"}]]
  /\ nActive \in 0 .. LoopNodes /\ eventWait \in BOOLEAN
  /\ isPending \in [Nodes -> BOOLEAN]
  /\ activePending \in [0 .. 1 -> Seq(Nodes)] /\ sequence \in 0 .. 1
  /\ entries \in Seq(Nodes \cup {None}) /\ free \in Seq(Nat)
  /\ index \in [Nodes -> Nat \cup {NoIndex}]
  /\ isPolling \in [Nodes -> BOOLEAN]
  /\ toNode \in [Nodes -> {0, 1}]
  /\ fromNode \in [Nodes -> {<<>>, <<TRUE>>, <<FALSE>>}]
  /\ lpc \in {"top", "sleep", "clear", "events", "pending", "alloc", "poll",
              "wait", "clearDone", "clearResume", "free", "next", "exit"}
  /\ li \in Nat \ {0} /\ pend \in Seq(Nodes)
  /\ act \in [Threads -> [node : Nodes \cup {None}, delta : -1 .. 1,
                          wake : BOOLEAN, alloc : BOOLEAN]]
  /\ ppc \in [Nodes -> {"wait", "input", "output", "send", "suspend",
                        "suspended", "dead"}]
  /\ hold \in [Nodes -> Nat] /\ vec \in [Nodes -> 0 .. VectorLen]
  /\ queued \in [Nodes -> Nat] /\ making \in [Nodes -> Nat]
  /\ txq \in [Nodes -> Nat] /\ txIndex \in [Nodes -> Nat \cup {NoIndex}]
  /\ enable \in [Nodes -> BOOLEAN] /\ armed \in [Nodes -> Nat]
  /\ fire \in SUBSET Nodes /\ interrupts \in Nat
  /\ arrivals \in [Nodes -> Nat] /\ enables \in [Nodes -> Nat]
  /\ panicErr \in BOOLEAN
  /\ panicked \in {"no", "negative", "too many", "freed", "allocated"}

(* The suspend count of a node is the number of packets it has in          *)
(* transmission, and never above the limit, however suspends, retries and  *)
(* completions interleave: the retry after a suspend counts nothing twice. *)
SuspendCounts ==
  \A n \in Nodes :
    /\ word[n].suspend = txq[n] + (IF ppc[n] = "send" THEN vec[n] ELSE 0)
    /\ word[n].suspend <= SuspendLimit

(* "reference of freed active poller" and "active poller node mismatch"    *)
(* never happen: the active poller a packet in transmission refers to by   *)
(* index is still allocated, to the same node, when the packet leaves.     *)
RefsStayValid ==
  \A n \in Nodes : txq[n] > 0 \/ ppc[n] = "send" =>
    RefOK(n, IF txq[n] > 0 THEN txIndex[n] ELSE index[n])

(* "already allocated" never happens, and no activity count becomes        *)
(* negative: an activity racing with the loop's freeing of the node asks   *)
(* for exactly one allocation.                                             *)
AllocatedOnce == panicked \notin {"allocated", "negative", "freed"}

InInput(n) == ppc[n] \in {"input", "output", "send", "suspend"}

(* A data poller executes only while the loop is inside doPollers: tables  *)
(* that event handlers change are never read by a poller meanwhile.        *)
PollOnlyInDoPollers ==
  (\E n \in Nodes : InInput(n)) => lpc \in {"poll", "wait", "clearDone",
                                            "clearResume", "free", "next"}

Deltas(d) == Cardinality({t \in Threads : act[t].delta = d})
Needing == {n \in Nodes : NeedsPoll(word[n])}

(* The count of active pollers (changeActive), with the changes still on   *)
(* their way, is never below the number of nodes that need polling: the    *)
(* decrement it ignores at zero can only make it too large.                *)
NeverUndercounted == nActive + Deltas(1) - Deltas(-1) >= Cardinality(Needing)

(* The loop sleeps in doEvents while a node needs polling only when the    *)
(* Interrupt that ends the sleep is queued or on its way, whatever the     *)
(* order in which the threads change the node's word and the loop's word.  *)
NoLostWakeup ==
  lpc = "sleep" /\ Needing # {} =>
    interrupts > 0 \/ \E t \in Threads : act[t].delta = 1 \/ act[t].wake

(* A node that needs polling is allocated, or its allocation is pending or *)
(* about to be.                                                            *)
Listed(n) ==
  \/ RefOK(n, index[n])
  \/ \E t \in Threads : act[t].node = n /\ act[t].alloc
  \/ \E i \in 0 .. 1 : \E k \in 1 .. Len(activePending[i]) : activePending[i][k] = n
  \/ \E k \in 1 .. Len(pend) : pend[k] = n

NeedyIsListed == \A n \in Needing : Listed(n)

(* Every packet found for a poller is eventually taken by it.              *)
ArrivalTaken ==
  \A n \in Nodes : (making[n] > 0 \/ queued[n] > 0) ~>
                     (making[n] = 0 /\ queued[n] = 0) \/ ~Running

(* "Be active when suspend count is below resume limit." (poller.go:153):  *)
(* a poller waiting to continue does so once its packets have left.        *)
SuspendEnds ==
  \A n \in Nodes : (ppc[n] = "suspended") ~> (ppc[n] # "suspended" \/ ~Running)

(* "Try waiting if we have no active nodes." (event.go:498): when nothing  *)
(* more arrives the loop comes to wait.                                    *)
LoopWaits == (lpc # "sleep") ~> (lpc = "sleep" \/ ~Running)
=============================================================================
