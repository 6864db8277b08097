--------------------------- MODULE EventLoopProofs ---------------------------
(***************************************************************************)
(* Proofs about EventLoop for every set of nodes, callers, pollers and     *)
(* events and every channel depth.                                         *)
(***************************************************************************)
EXTENDS EventLoop, FiniteSetTheorems, WellFoundedInduction, TLAPS

(* What the kind of a message says about its node.                         *)
LEMMA MessageFacts ==
  ASSUME NEW m \in Message
  PROVE  /\ m.kind = "work" => m \in WorkEvents /\ m.dst \in Nodes
         /\ m.kind = "resume" => m.dst \in Nodes
         /\ m.kind = "quitAfter" => m \in Events
<1>1. CASE m \in Events
  BY <1>1, EventLoopAssumption DEF WorkEvents
<1>2. CASE \E n \in Nodes : m = ResumeOf(n)
  BY <1>2 DEF ResumeOf
<1>3. CASE m \in {Interrupt, QuitEvent}
  BY <1>3 DEF Interrupt, QuitEvent
<1>4. QED BY <1>1, <1>2, <1>3 DEF Message

(* A work event is a message for a node.                                   *)
LEMMA WorkFacts ==
  ASSUME NEW e \in WorkEvents
  PROVE  e \in Events /\ e \in Message /\ e.dst \in Nodes /\ e # None
BY EventLoopAssumption DEF WorkEvents, Message

(* Interrupt, quit and resume events are messages.                         *)
LEMMA OtherMessages ==
  Interrupt \in Message /\ QuitEvent \in Message
  /\ \A n \in Nodes : ResumeOf(n) \in Message
BY DEF Message

(* What each kind of goroutine leaves alone.                               *)
LEMMA CallFrame ==
  ASSUME NEW c, Call(c)
  PROVE  UNCHANGED <<loopVars, activeNodes, activeCount, chanVars, currentEvent,
                     suspends, timerCpuTime, timerDue, timerOn, timerC,
                     pollVars, endVars, done>>
BY DEF Call, BeginSignal, StartHandlerOnce, EndSignal, Resume, SendResume,
       loopVars, activeVars, chanVars, handlerVars, timerVars, pollVars, endVars,
       histVars, callVars, startVars

(* A data poller touches only its own word, the channel and the pool.      *)
LEMMA PollerFrame ==
  ASSUME NEW p, Poller(p)
  PROVE  UNCHANGED <<loopVars, activeVars, chanVars, handlerVars, startVars,
                     callVars, timerCpuTime, timerDue, timerOn, timerC, endVars,
                     done>>
BY DEF Poller, ChangeActive, InterruptLoop, timerVars, histVars

(* A handler leaves the loop, the vector, the callers and the timer alone. *)
LEMMA HandlerFrame ==
  ASSUME NEW n, Handler(n) \/ HandlerTimeout(n)
  PROVE  UNCHANGED <<loopVars, activeNodes, activeIndex, startVars, callVars,
                     events, timerVars, pollVars, deferred>>
BY DEF Handler, HandlerTimeout, WaitLoop, ReceiveEvent, FinishEvent,
       PanicHandler, EventDone, Suspend, SignalSuspended, WakeSuspended,
       activeVars, histVars, handlerVars, chanVars, endVars

(* The loop leaves the handlers, the callers and the pollers alone.        *)
LEMMA LoopFrame ==
  ASSUME LoopStep \/ WaitNodeTimeout
  PROVE  UNCHANGED <<hpc, currentEvent, suspends, startVars, callVars, polling,
                     waking, toggles, panicErr>>
BY DEF LoopStep, WaitNodeTimeout, SetEventWait, ArmTimer, DoEventWait,
       WaitTimeout, ClearEventWait, DoEventNoWait, ReceiveLoopEvent, AdvanceAdd,
       ExpireEvent, AllExpired, SendRxEvent, SignalNode, WaitNode,
       InactivateNode, EndDoEvents, DoPollers, handlerVars, pollVars, endVars

(* The runtime changes nothing but the clock and the timer.                *)
LEMMA RuntimeFrame ==
  ASSUME Tick \/ FireTimer
  PROVE  UNCHANGED <<loopVars, activeVars, chanVars, handlerVars, startVars,
                     callVars, events, timed, pollVars, endVars, histVars>>
BY DEF Tick, FireTimer

-----------------------------------------------------------------------------
(* Type correctness, part by part.                                         *)
LEMMA ReceiveFacts ==
  ASSUME IInv, ReceiveLoopEvent
  PROVE  /\ Head(events) \in Message /\ DoNodeEvent(Head(events))
         /\ events' = Tail(events) /\ events' \in Seq(Message)
         /\ Len(events') <= ChanDepth
<1>1. events \in Seq(Message) /\ Len(events) <= ChanDepth
  BY DEF IInv, TypeOK, TypeTimer
<1>2. events # <<>> /\ events' = Tail(events) /\ DoNodeEvent(Head(events))
  BY DEF ReceiveLoopEvent
<1>3. Head(events) \in Message /\ Tail(events) \in Seq(Message)
      /\ Len(Tail(events)) = Len(events) - 1
  BY <1>1, <1>2
<1>4. QED BY <1>1, <1>2, <1>3, EventLoopAssumption

(* Where doEvents goes on after an event.                                  *)
LEMMA AfterEventType ==
  AfterEvent \in {"expire", "clear", "start"}
BY DEF AfterEvent

(* The loop variables keep their types.                                    *)
LEMMA TypeLoopStep == ASSUME IInv, Step PROVE TypeLoop'
<1> USE DEF IInv, TypeOK, TypeLoop, TypeNode
<1>1. CASE UNCHANGED loopVars
  BY <1>1 DEF loopVars
<1>2. CASE ReceiveLoopEvent
  <2>1. PICK e \in Message : DoNodeEvent(e)
    BY <1>2, ReceiveFacts
  <2>2. UNCHANGED <<li, didWait, timeout, inactiveNodes, ev>>
    BY <1>2 DEF ReceiveLoopEvent
  <2>3. QED BY <2>1, <2>2, MessageFacts, AfterEventType DEF DoNodeEvent, QueueToNode
<1>3. ASSUME NEW x \in ev, ExpireEvent(x) PROVE TypeLoop'
  <2>1. x.e \in Message
    BY DEF TimedEvent
  <2>2. QED BY <1>3, <2>1, MessageFacts DEF ExpireEvent, QueueToNode
<1>4. CASE SetEventWait
  BY <1>4 DEF SetEventWait
<1>5. CASE ArmTimer
  BY <1>5 DEF ArmTimer
<1>6. CASE WaitTimeout
  BY <1>6 DEF WaitTimeout
<1>7. CASE ClearEventWait
  BY <1>7 DEF ClearEventWait
<1>8. CASE AdvanceAdd
  BY <1>8 DEF AdvanceAdd, Expired, TypeTimer
<1>9. CASE AllExpired
  BY <1>9 DEF AllExpired
<1>10. CASE SendRxEvent
  BY <1>10 DEF SendRxEvent, Queue, AfterEvent
<1>11. CASE SignalNode
  BY <1>11, SMTT(40) DEF SignalNode
<1>12. CASE WaitNode
  <2>1. CASE li <= Len(activeNodes)
    <3>1. activeNodes[li] \in Nodes
      BY <2>1
    <3>2. Append(inactiveNodes, activeNodes[li]) \in Seq(Nodes)
      BY <3>1
    <3>3. /\ inactiveNodes' \in {inactiveNodes,
                                 Append(inactiveNodes, activeNodes[li])}
          /\ li' = li + 1
          /\ UNCHANGED <<lpc, didWait, timeout, quit, ev, disp>>
      BY <1>12, <2>1 DEF WaitNode
    <3>4. inactiveNodes' \in Seq(Nodes)
      BY <3>2, <3>3
    <3>5. QED BY <3>3, <3>4
  <2>2. CASE ~(li <= Len(activeNodes))
    BY <1>12, <2>2 DEF WaitNode
  <2>3. QED BY <2>1, <2>2
<1>13. CASE InactivateNode
  BY <1>13 DEF InactivateNode
<1>14. CASE EndDoEvents
  BY <1>14 DEF EndDoEvents, QuitLoop
<1>15. CASE DoPollers
  BY <1>15 DEF DoPollers
<1>16. CASE DoEventNoWait
  BY <1>2, <1>16 DEF DoEventNoWait
<1>17. CASE WaitNodeTimeout
  BY <1>1, <1>17 DEF WaitNodeTimeout
<1>18. QED
  BY <1>1, <1>2, <1>3, <1>4, <1>5, <1>6, <1>7, <1>8, <1>9,
     <1>10, <1>11, <1>12, <1>13, <1>14, <1>15, <1>16, <1>17,
     CallFrame, PollerFrame, HandlerFrame, RuntimeFrame
     DEF Step, LoopStep, DoEventWait

(* addActive keeps the vector and the indices well typed.                  *)
LEMMA AddActiveType ==
  ASSUME IInv, NEW n \in Nodes, AddActive(n)
  PROVE  activeNodes' \in Seq(Nodes) /\ activeIndex' \in [Nodes -> Nat \cup {NoIndex}]
<1>1. /\ activeNodes \in Seq(Nodes)
      /\ activeIndex \in [Nodes -> Nat \cup {NoIndex}]
  BY DEF IInv, TypeOK, TypeNode
<1>2. Append(activeNodes, n) \in Seq(Nodes) /\ Len(activeNodes) \in Nat
  BY <1>1
<1>3. CASE activeIndex[n] # NoIndex
  BY <1>1, <1>3 DEF AddActive
<1>4. CASE activeIndex[n] = NoIndex
  <2>1. /\ activeIndex' = [activeIndex EXCEPT ![n] = Len(activeNodes)]
        /\ activeNodes' = Append(activeNodes, n)
    BY <1>4 DEF AddActive
  <2>2. QED BY <1>1, <1>2, <2>1
<1>5. QED BY <1>3, <1>4

(* Queueing an event to its node counts it and records the send.           *)
LEMMA QueueToNodeType ==
  ASSUME IInv, NEW e \in WorkEvents, QueueToNode(e)
  PROVE  /\ activeNodes' \in Seq(Nodes)
         /\ activeIndex' \in [Nodes -> Nat \cup {NoIndex}]
         /\ activeCount' \in [Nodes -> Nat]
         /\ activeCount' = [activeCount EXCEPT ![e.dst] = @ + 1]
         /\ disp' = e /\ lpc' = "sendRx"
<1>1. e.dst \in Nodes
  BY WorkFacts
<1>2. AddActive(e.dst) \/ UNCHANGED <<activeNodes, activeIndex>>
  BY DEF QueueToNode
<1>3. activeNodes' \in Seq(Nodes) /\ activeIndex' \in [Nodes -> Nat \cup {NoIndex}]
  BY <1>1, <1>2, AddActiveType DEF IInv, TypeOK, TypeNode
<1>4. activeCount \in [Nodes -> Nat]
  BY DEF IInv, TypeOK, TypeNode
<1>5. /\ activeCount' = [activeCount EXCEPT ![e.dst] = activeCount[e.dst] + 1]
      /\ disp' = e /\ lpc' = "sendRx"
  BY DEF QueueToNode
<1>6. activeCount[e.dst] + 1 \in Nat
  BY <1>1, <1>4
<1>7. activeCount' \in [Nodes -> Nat]
  BY <1>1, <1>4, <1>5, <1>6
<1>8. QED BY <1>3, <1>5, <1>7

(* delActive shortens the vector by one: it is never empty here.           *)
LEMMA DelActiveType ==
  ASSUME IInv, InactivateNode
  PROVE  /\ activeNodes' \in Seq(Nodes)
         /\ activeIndex' \in [Nodes -> Nat \cup {NoIndex}]
         /\ Len(activeNodes') = Len(activeNodes) - 1
         /\ Len(inactiveNodes') = Len(inactiveNodes) - 1
         /\ Len(inactiveNodes) \in Nat /\ Len(activeNodes) \in Nat
<1> DEFINE n == Head(inactiveNodes)
           ai == activeIndex[n]
           l == Len(activeNodes)
           moved == IF ai # NoIndex /\ ai < l - 1
                    THEN [activeNodes EXCEPT ![ai + 1] = activeNodes[l]]
                    ELSE activeNodes
<1>1. /\ inactiveNodes \in Seq(Nodes) /\ inactiveNodes # <<>>
      /\ activeNodes \in Seq(Nodes)
      /\ activeIndex \in [Nodes -> Nat \cup {NoIndex}]
      /\ Len(inactiveNodes) <= Len(activeNodes)
  BY DEF IInv, TypeOK, TypeLoop, TypeNode, InactiveInv, InactivateNode
<1>2. n \in Nodes /\ l \in Nat \ {0} /\ Len(Tail(inactiveNodes)) = Len(inactiveNodes) - 1
  BY <1>1
<1>3. moved \in Seq(Nodes) /\ Len(moved) = l
  BY <1>1, <1>2 DEF NoIndex
<1>4. /\ activeNodes' = SubSeq(moved, 1, l - 1)
      /\ activeIndex' = [activeIndex EXCEPT ![n] = NoIndex]
      /\ inactiveNodes' = Tail(inactiveNodes)
  BY DEF InactivateNode, DelActive
<1> HIDE DEF moved
<1>5. SubSeq(moved, 1, l - 1) \in Seq(Nodes) /\ Len(SubSeq(moved, 1, l - 1)) = l - 1
  BY <1>2, <1>3
<1>6. QED BY <1>1, <1>2, <1>4, <1>5

(* A finished event was counted.                                           *)
LEMMA CountPositive ==
  ASSUME IInv, NEW n \in Nodes, hpc[n] = "run"
  PROVE  activeCount[n] - 1 \in Nat /\ currentEvent[n] \in WorkEvents
<1>1. currentEvent[n] # None /\ currentEvent[n] \in WorkEvents
  BY DEF IInv, CountInv, TypeOK, TypeHandler
<1>2. Len(rxEvents[n]) \in Nat
  BY DEF IInv, TypeOK, TypeNode
<1> DEFINE held == IF currentEvent[n] # None THEN 1 ELSE 0
           sent == IF disp # None /\ disp.dst = n THEN 1 ELSE 0
<1>3. held = 1 /\ sent \in {0, 1}
  BY <1>1
<1>4. activeCount[n] = Len(rxEvents[n]) + held + sent
  BY DEF IInv, CountInv, CountsQueued
<1> HIDE DEF held, sent
<1>5. QED BY <1>1, <1>2, <1>3, <1>4

(* The active vector, the counts and the channels keep their types.        *)
LEMMA TypeNodeStep == ASSUME IInv, Step PROVE TypeNode'
<1> USE DEF IInv, TypeOK, TypeNode, startVars, activeVars, chanVars
<1>1. CASE UNCHANGED <<activeVars, chanVars, startVars>>
  BY <1>1
<1>2. ASSUME NEW c \in Callers, Call(c) PROVE TypeNode'
  <2>1. ASSUME NEW e \in Events, BeginSignal(c, e) PROVE TypeNode'
    BY <2>1 DEF BeginSignal
  <2>2. CASE StartHandlerOnce(c)
    BY <2>2 DEF StartHandlerOnce
  <2>3. QED BY <1>2, <2>1, <2>2, <1>1 DEF Call, EndSignal, Resume, SendResume
<1>3. ASSUME NEW n \in Nodes, Handler(n) PROVE TypeNode'
  <2>1. CASE WaitLoop(n)
    BY <2>1 DEF WaitLoop
  <2>2. CASE ReceiveEvent(n)
    <3>1. Tail(rxEvents[n]) \in Seq(WorkEvents)
      BY <2>2 DEF ReceiveEvent
    <3>2. QED BY <2>2, <3>1 DEF ReceiveEvent
  <2>3. ASSUME NEW next, EventDone(n, next) PROVE TypeNode'
    <3>1. activeCount[n] - 1 \in Nat
      BY <2>3, CountPositive DEF EventDone
    <3>2. QED BY <2>3, <3>1 DEF EventDone, LessOneEvent
  <2>4. CASE SignalSuspended(n)
    BY <2>4 DEF SignalSuspended
  <2>5. CASE WakeSuspended(n)
    BY <2>5 DEF WakeSuspended
  <2>6. CASE Suspend(n)
    BY <1>1, <2>6 DEF Suspend
  <2>7. QED BY <1>3, <2>1, <2>2, <2>3, <2>4, <2>5, <2>6
            DEF Handler, FinishEvent, PanicHandler
<1>4. CASE ReceiveLoopEvent
  <2>1. PICK e \in Message : DoNodeEvent(e)
    BY <1>4, ReceiveFacts
  <2>2. UNCHANGED <<chanVars, startVars>>
    BY <1>4 DEF ReceiveLoopEvent
  <2>3. CASE e.kind = "work" /\ QueueToNode(e)
    BY <2>2, <2>3, QueueToNodeType, MessageFacts
  <2>4. CASE e.kind = "resume" /\ AddActive(e.dst) /\ UNCHANGED activeCount
    BY <2>2, <2>4, AddActiveType, MessageFacts
  <2>5. CASE UNCHANGED activeVars
    BY <1>1, <2>2, <2>5
  <2>6. QED BY <2>1, <2>3, <2>4, <2>5 DEF DoNodeEvent
<1>5. ASSUME NEW x \in ev, ExpireEvent(x) PROVE TypeNode'
  <2>1. x.e \in Message
    BY DEF TimedEvent, TypeLoop
  <2>2. UNCHANGED <<chanVars, startVars>>
    BY <1>5 DEF ExpireEvent
  <2>3. CASE x.e.kind = "work" /\ QueueToNode(x.e)
    BY <2>1, <2>2, <2>3, QueueToNodeType, MessageFacts
  <2>4. QED BY <1>1, <1>5, <2>2, <2>3 DEF ExpireEvent
<1>6. CASE SendRxEvent
  <2>1. disp \in WorkEvents /\ disp.dst \in Nodes
    BY <1>6, WorkFacts DEF SendRxEvent, CountInv, TypeLoop
  <2>2. Append(rxEvents[disp.dst], disp) \in Seq(WorkEvents)
    BY <2>1
  <2>3. QED BY <1>6, <2>1, <2>2 DEF SendRxEvent, Queue
<1>7. CASE SignalNode
  BY <1>7 DEF SignalNode
<1>8. CASE WaitNode
  BY <1>8 DEF WaitNode
<1>9. CASE InactivateNode
  BY <1>9, DelActiveType DEF InactivateNode
<1>10. QED
  BY <1>1, <1>2, <1>3, <1>4, <1>5, <1>6, <1>7, <1>8, <1>9,
     PollerFrame, RuntimeFrame
     DEF Step, LoopStep, DoEventWait, SetEventWait, ArmTimer, WaitTimeout,
         ClearEventWait, AdvanceAdd, AllExpired, EndDoEvents, DoPollers,
         DoEventNoWait, WaitNodeTimeout, HandlerTimeout

(* The handler variables keep their types.                                 *)
LEMMA TypeHandlerStep == ASSUME IInv, Step PROVE TypeHandler'
<1> USE DEF IInv, TypeOK, TypeHandler, handlerVars
<1>1. CASE UNCHANGED handlerVars
  BY <1>1
<1>2. ASSUME NEW c \in Callers, Call(c) PROVE TypeHandler'
  <2>1. CASE StartHandlerOnce(c)
    BY <2>1 DEF StartHandlerOnce
  <2>2. ASSUME NEW n \in Nodes, Resume(c, n) PROVE TypeHandler'
    BY <2>2 DEF Resume
  <2>3. QED BY <1>1, <1>2, <2>1, <2>2 DEF Call, BeginSignal, EndSignal, SendResume
<1>3. ASSUME NEW n \in Nodes, Handler(n) PROVE TypeHandler'
  <2>1. CASE WaitLoop(n)
    BY <2>1 DEF WaitLoop
  <2>2. CASE ReceiveEvent(n)
    <3>1. Head(rxEvents[n]) \in WorkEvents
      BY <2>2 DEF ReceiveEvent, TypeNode
    <3>2. QED BY <2>2, <3>1 DEF ReceiveEvent
  <2>3. CASE EventDone(n, "wait")
    BY <2>3 DEF EventDone
  <2>4. CASE EventDone(n, "dead")
    BY <2>4 DEF EventDone
  <2>5. CASE Suspend(n)
    BY <2>5 DEF Suspend
  <2>6. CASE SignalSuspended(n)
    BY <2>6 DEF SignalSuspended
  <2>7. CASE WakeSuspended(n)
    BY <2>7 DEF WakeSuspended
  <2>8. QED BY <1>3, <2>1, <2>2, <2>3, <2>4, <2>5, <2>6, <2>7
            DEF Handler, FinishEvent, PanicHandler
<1>4. CASE ReceiveLoopEvent
  <2>1. PICK e \in Message : DoNodeEvent(e)
    BY <1>4, ReceiveFacts
  <2>2. UNCHANGED <<hpc, currentEvent, suspends>>
    BY <1>4 DEF ReceiveLoopEvent
  <2>3. UNCHANGED s \/ (e.kind = "resume" /\ s' = [s EXCEPT ![e.dst].resumed = FALSE])
    BY <2>1 DEF DoNodeEvent
  <2>4. CASE e.kind = "resume" /\ s' = [s EXCEPT ![e.dst].resumed = FALSE]
    <3>1. e.dst \in Nodes
      BY <2>4, MessageFacts
    <3>2. [s[e.dst] EXCEPT !.resumed = FALSE] \in [suspended : BOOLEAN, resumed : BOOLEAN]
      BY <3>1
    <3>3. s' = [s EXCEPT ![e.dst] = [s[e.dst] EXCEPT !.resumed = FALSE]]
      BY <2>4
    <3>4. s' \in [Nodes -> [suspended : BOOLEAN, resumed : BOOLEAN]]
      BY <3>1, <3>2, <3>3
    <3>5. QED BY <2>2, <3>4
  <2>5. QED BY <2>2, <2>3, <2>4
<1>5. QED
  BY <1>1, <1>2, <1>3, <1>4, PollerFrame, RuntimeFrame
     DEF Step, LoopStep, DoEventWait, SetEventWait, ArmTimer, WaitTimeout,
         ClearEventWait, AdvanceAdd, AllExpired, EndDoEvents, DoPollers,
         DoEventNoWait, WaitNodeTimeout, HandlerTimeout, ExpireEvent,
         SendRxEvent, SignalNode, WaitNode, InactivateNode

(* Every non-empty set of naturals has a least element.                    *)
LEMMA LeastOf ==
  ASSUME NEW T, T \subseteq Nat, T # {}
  PROVE  \E t \in T : \A u \in T : t <= u
<1> DEFINE R == {ss \in Nat \X Nat : ss[1] < ss[2]}
<1>1. IsWellFoundedOn(R, Nat)
  BY NatLessThanWellFounded, Zenon DEF OpToRel
<1>2. PICK t \in T : \A u \in T : ~(<<u, t>> \in R)
  BY <1>1, WFMin, Zenon
<1>3. ASSUME NEW u \in T PROVE t <= u
  <2>1. <<u, t>> \in Nat \X Nat /\ ~(<<u, t>> \in R)
    BY <1>2
  <2>2. ~(u < t)
    BY <2>1
  <2>3. QED BY <2>2
<1>4. QED BY <1>3

(* A call of signalEvent puts the event in the channel or, when that is    *)
(* full, in the timed pool; the channel never shrinks.                     *)
LEMMA SignalEventType ==
  ASSUME IInv, NEW e \in Message, SignalEvent(e)
  PROVE  /\ events' \in Seq(Message) /\ Len(events') <= ChanDepth
         /\ timed' \in SUBSET TimedEvent
         /\ now' \in 0 .. MaxTime
         /\ deferred' \in SUBSET Message
         /\ events' # <<>>
<1>1. /\ events \in Seq(Message) /\ Len(events) <= ChanDepth
      /\ timed \in SUBSET TimedEvent /\ now \in 0 .. MaxTime
      /\ deferred \in SUBSET Message
  BY DEF IInv, TypeOK, TypeTimer, TypeCall
<1>2. /\ Len(events) \in Nat /\ Append(events, e) \in Seq(Message)
      /\ Len(Append(events, e)) = Len(events) + 1 /\ Append(events, e) # <<>>
  BY <1>1
<1>3. CASE ~Full(events)
  <2>1. events' = Append(events, e) /\ UNCHANGED <<timed, now, deferred>>
    BY <1>3 DEF SignalEvent, Queue
  <2>2. Len(events) < ChanDepth
    BY <1>2, <1>3, EventLoopAssumption DEF Full
  <2>3. QED BY <1>1, <1>2, <2>1, <2>2, EventLoopAssumption
<1>4. CASE Full(events)
  <2>1. /\ now < MaxTime /\ now' = now + 1 /\ UNCHANGED events
        /\ timed' = timed \cup {[t |-> now + 1, e |-> e]}
        /\ deferred' = deferred \cup {e}
    BY <1>4 DEF SignalEvent, Defer
  <2>2. now + 1 \in 0 .. MaxTime
    BY <1>1, <2>1, EventLoopAssumption
  <2>3. [t |-> now + 1, e |-> e] \in TimedEvent
    BY <2>2 DEF TimedEvent
  <2>4. events # <<>>
    BY <1>1, <1>4, EventLoopAssumption DEF Full
  <2>5. QED BY <1>1, <2>1, <2>2, <2>3, <2>4
<1>5. QED BY <1>3, <1>4

(* What a pending call carries.                                            *)
LEMMA CallArg ==
  ASSUME IInv, NEW c \in Callers
  PROVE  /\ call[c].op = "once" => call[c] = [op |-> "once", arg |-> call[c].arg]
                                   /\ call[c].arg \in WorkEvents
         /\ call[c].op = "send" => call[c] = [op |-> "send", arg |-> call[c].arg]
                                   /\ call[c].arg \in Events
         /\ call[c].op = "resume" => call[c] = [op |-> "resume", arg |-> call[c].arg]
                                     /\ call[c].arg \in Nodes
BY DEF IInv, TypeOK, TypeCall, Idle

(* A finished call of SignalEvent or SignalEventAfter keeps the types.     *)
LEMMA EndSignalType ==
  ASSUME IInv, NEW c \in Callers, EndSignal(c)
  PROVE  /\ events' \in Seq(Message) /\ Len(events') <= ChanDepth
         /\ timed' \in SUBSET TimedEvent
         /\ now' \in 0 .. MaxTime
         /\ deferred' \in SUBSET Message
         /\ events # <<>> => events' # <<>>
<1> DEFINE e == call[c].arg
<1>1. e \in Events /\ e \in Message /\ e.secs \in Nat
  BY CallArg, EventLoopAssumption, ZenonT(40) DEF EndSignal, Message
<1>2. CASE SignalEvent(e)
  BY <1>1, <1>2, SignalEventType
<1>3. CASE SignalEventAfter(e)
  <2>1. /\ now + e.secs <= MaxTime
        /\ timed' = timed \cup {[t |-> now + e.secs, e |-> e]}
        /\ UNCHANGED <<events, now, deferred>>
    BY <1>3 DEF SignalEventAfter
  <2>2. /\ events \in Seq(Message) /\ Len(events) <= ChanDepth
        /\ timed \in SUBSET TimedEvent /\ now \in 0 .. MaxTime
        /\ deferred \in SUBSET Message
    BY DEF IInv, TypeOK, TypeTimer, TypeCall
  <2>3. now + e.secs \in 0 .. MaxTime
    BY <1>1, <2>1, <2>2, EventLoopAssumption
  <2>4. [t |-> now + e.secs, e |-> e] \in TimedEvent
    BY <1>1, <2>3 DEF TimedEvent
  <2>5. QED BY <2>1, <2>2, <2>4
<1>4. QED BY <1>2, <1>3 DEF EndSignal

(* The send of Resume keeps the channel within its depth.                  *)
LEMMA SendResumeType ==
  ASSUME IInv, NEW c \in Callers, SendResume(c)
  PROVE  events' \in Seq(Message) /\ Len(events') <= ChanDepth /\ events' # <<>>
<1> DEFINE m == ResumeOf(call[c].arg)
<1>1. m \in Message
  BY CallArg, OtherMessages DEF SendResume
<1>2. events \in Seq(Message) /\ Len(events) <= ChanDepth /\ Len(events) \in Nat
  BY DEF IInv, TypeOK, TypeTimer
<1>3. events' = Append(events, m) /\ Len(events) < ChanDepth
  BY <1>2, EventLoopAssumption DEF SendResume, Full
<1> HIDE DEF m
<1>4. Append(events, m) \in Seq(Message) /\ Len(Append(events, m)) = Len(events) + 1
      /\ Append(events, m) # <<>>
  BY <1>1, <1>2
<1>5. QED BY <1>2, <1>3, <1>4, EventLoopAssumption

(* The pending calls keep their types.                                     *)
LEMMA TypeCallStep == ASSUME IInv, Step PROVE TypeCall'
<1> USE DEF IInv, TypeOK, TypeCall, callVars, histVars
<1>1. CASE UNCHANGED <<callVars, histVars>>
  BY <1>1
<1>2. ASSUME NEW c \in Callers, Call(c) PROVE TypeCall'
  <2>1. ASSUME NEW e \in Events, BeginSignal(c, e) PROVE TypeCall'
    <3>1. [op |-> "send", arg |-> e] \in [op : {"send"}, arg : Events]
      OBVIOUS
    <3>2. CASE call' = [call EXCEPT ![c] = [op |-> "send", arg |-> e]]
      BY <2>1, <3>1, <3>2 DEF BeginSignal
    <3>3. CASE e.dst \in Nodes /\ call' = [call EXCEPT ![c] = [op |-> "once", arg |-> e]]
      <4>1. [op |-> "once", arg |-> e] \in [op : {"once"}, arg : WorkEvents]
        BY <3>3, EventLoopAssumption DEF WorkEvents
      <4>2. QED BY <2>1, <3>3, <4>1 DEF BeginSignal
    <3>4. QED BY <2>1, <3>2, <3>3 DEF BeginSignal
  <2>2. CASE StartHandlerOnce(c)
    <3>1. call[c] = [op |-> "once", arg |-> call[c].arg] /\ call[c].arg \in Events
      BY <2>2, CallArg, WorkFacts DEF StartHandlerOnce
    <3>2. call' = [call EXCEPT ![c] = [call[c] EXCEPT !.op = "send"]]
      BY <2>2 DEF StartHandlerOnce
    <3>3. [call[c] EXCEPT !.op = "send"] = [op |-> "send", arg |-> call[c].arg]
      BY <3>1
    <3>4. [op |-> "send", arg |-> call[c].arg] \in [op : {"send"}, arg : Events]
      BY <3>1
    <3>5. call' = [call EXCEPT ![c] = [op |-> "send", arg |-> call[c].arg]]
      BY <3>2, <3>3
    <3>6. UNCHANGED <<issued, done, deferred>>
      BY <2>2 DEF StartHandlerOnce
    <3>7. QED BY <3>4, <3>5, <3>6
  <2>3. CASE EndSignal(c)
    BY <2>3, EndSignalType DEF EndSignal
  <2>4. ASSUME NEW n \in Nodes, Resume(c, n) PROVE TypeCall'
    <3>1. [op |-> "resume", arg |-> n] \in [op : {"resume"}, arg : Nodes]
      OBVIOUS
    <3>2. QED BY <2>4, <3>1 DEF Resume
  <2>5. CASE SendResume(c)
    BY <2>5 DEF SendResume
  <2>6. QED BY <1>2, <2>1, <2>2, <2>3, <2>4, <2>5 DEF Call
<1>3. ASSUME NEW p \in Pollers, Poller(p) PROVE TypeCall'
  BY <1>1, <1>3, SignalEventType, OtherMessages DEF Poller, ChangeActive, InterruptLoop
<1>4. ASSUME NEW n \in Nodes, Handler(n) PROVE TypeCall'
  <2>1. ASSUME NEW next, EventDone(n, next) PROVE TypeCall'
    <3>1. currentEvent[n] \in Events
      BY <2>1, CountPositive, WorkFacts DEF EventDone
    <3>2. QED BY <2>1, <3>1 DEF EventDone
  <2>2. QED BY <1>1, <1>4, <2>1
            DEF Handler, WaitLoop, ReceiveEvent, FinishEvent, PanicHandler,
                Suspend, SignalSuspended, WakeSuspended
<1>5. ASSUME NEW x \in ev, ExpireEvent(x) PROVE TypeCall'
  <2>1. x.e \in Message
    BY DEF TimedEvent, TypeLoop
  <2>2. UNCHANGED callVars
    BY <1>5 DEF ExpireEvent
  <2>3. CASE x.e.kind = "quitAfter" /\ SignalEvent(QuitEvent) /\ done' = done \cup {x.e}
    BY <2>1, <2>2, <2>3, SignalEventType, OtherMessages, MessageFacts
  <2>4. CASE (done' = IF x.e \in Events THEN done \cup {x.e} ELSE done) /\ UNCHANGED deferred
    BY <2>2, <2>4
  <2>5. QED BY <1>1, <1>5, <2>2, <2>3, <2>4 DEF ExpireEvent
<1>6. QED
  BY <1>1, <1>2, <1>3, <1>4, <1>5, RuntimeFrame
     DEF Step, LoopStep, DoEventWait, SetEventWait, ArmTimer, WaitTimeout,
         ClearEventWait, AdvanceAdd, AllExpired, EndDoEvents, DoPollers,
         DoEventNoWait, WaitNodeTimeout, HandlerTimeout, ReceiveLoopEvent,
         SendRxEvent, SignalNode, WaitNode, InactivateNode

(* The channel, the timed pool and the timer keep their types.             *)
LEMMA TypeTimerStep == ASSUME IInv, Step PROVE TypeTimer'
<1> USE DEF IInv, TypeOK, TypeTimer, timerVars
<1>1. CASE UNCHANGED <<events, timerVars>>
  BY <1>1
<1>2. ASSUME NEW c \in Callers, Call(c) PROVE TypeTimer'
  <2>1. UNCHANGED <<timerCpuTime, timerDue, timerOn, timerC>>
    BY <1>2, CallFrame
  <2>2. CASE EndSignal(c)
    BY <2>1, <2>2, EndSignalType
  <2>3. CASE SendResume(c)
    BY <2>3, SendResumeType DEF SendResume
  <2>4. QED BY <1>1, <1>2, <2>2, <2>3 DEF Call, BeginSignal, StartHandlerOnce, Resume
<1>3. ASSUME NEW p \in Pollers, Poller(p) PROVE TypeTimer'
  BY <1>1, <1>3, SignalEventType, OtherMessages DEF Poller, ChangeActive, InterruptLoop
<1>4. CASE ReceiveLoopEvent
  BY <1>4, ReceiveFacts DEF ReceiveLoopEvent
<1>5. ASSUME NEW x \in ev, ExpireEvent(x) PROVE TypeTimer'
  BY <1>1, <1>5, SignalEventType, OtherMessages DEF ExpireEvent
<1>6. CASE ArmTimer
  <2>1. NextTime \in 0 .. Never
    <3>1. CASE timed = {}
      BY <3>1, EventLoopAssumption DEF NextTime, Never
    <3>2. CASE timed # {}
      <4> DEFINE P(t) == (\E x \in timed : x.t = t) /\ (\A x \in timed : t <= x.t)
      <4>1. NextTime = CHOOSE t \in 0 .. MaxTime : P(t)
        BY <3>2 DEF NextTime
      <4>2. \E t \in 0 .. MaxTime : P(t)
        <5> DEFINE T == {x.t : x \in timed}
        <5>1. T \subseteq Nat /\ T # {}
          BY <3>2, EventLoopAssumption DEF TimedEvent
        <5>2. PICK t \in T : \A u \in T : t <= u
          BY <5>1, LeastOf
        <5>3. t \in 0 .. MaxTime
          BY <5>2 DEF TimedEvent
        <5>4. QED BY <5>2, <5>3
      <4> HIDE DEF P
      <4>3. NextTime \in 0 .. MaxTime
        BY <4>1, <4>2
      <4>4. QED BY <4>3, EventLoopAssumption DEF Never
    <3>3. QED BY <3>1, <3>2
  <2>2. QED BY <1>6, <2>1 DEF ArmTimer
<1>7. CASE WaitTimeout
  <2>1. Never \in 0 .. Never
    BY EventLoopAssumption DEF Never
  <2>2. QED BY <1>7, <2>1 DEF WaitTimeout, Reset
<1>8. CASE AdvanceAdd
  BY <1>8 DEF AdvanceAdd, Unexpired
<1>9. CASE Tick
  <2>1. PICK x \in timed : now < x.t
    BY <1>9 DEF Tick
  <2>2. x.t \in 0 .. MaxTime
    BY DEF TimedEvent
  <2>3. now + 1 \in 0 .. MaxTime
    BY <2>1, <2>2, EventLoopAssumption
  <2>4. QED BY <1>9, <2>3 DEF Tick
<1>10. CASE FireTimer
  BY <1>10 DEF FireTimer
<1>11. QED
  BY <1>1, <1>2, <1>3, <1>4, <1>5, <1>6, <1>7, <1>8, <1>9, <1>10, HandlerFrame
     DEF Step, LoopStep, DoEventWait, SetEventWait,
         ClearEventWait, AllExpired, EndDoEvents, DoPollers,
         DoEventNoWait, WaitNodeTimeout,
         SendRxEvent, SignalNode, WaitNode, InactivateNode

(* The poller word and the end flags keep their types.                     *)
LEMMA TypePollStep == ASSUME IInv, Step PROVE TypePoll'
<1> USE DEF IInv, TypeOK, TypePoll, pollVars, endVars
<1>1. CASE UNCHANGED <<pollVars, endVars>>
  BY <1>1
<1>2. ASSUME NEW p \in Pollers, Poller(p) PROVE TypePoll'
  <2>1. CASE ChangeActive(p)
    BY <2>1 DEF ChangeActive, WasWaiting
  <2>2. CASE InterruptLoop(p)
    BY <2>2 DEF InterruptLoop
  <2>3. QED BY <1>2, <2>1, <2>2 DEF Poller
<1>3. ASSUME NEW n \in Nodes, Handler(n) PROVE TypePoll'
  BY <1>3 DEF Handler, WaitLoop, ReceiveEvent, FinishEvent, PanicHandler,
              EventDone, Suspend, SignalSuspended, WakeSuspended
<1>4. ASSUME NEW n \in Nodes, HandlerTimeout(n) PROVE TypePoll'
  BY <1>4 DEF HandlerTimeout
<1>5. CASE SetEventWait
  BY <1>5 DEF SetEventWait
<1>6. CASE ClearEventWait
  BY <1>6 DEF ClearEventWait
<1>7. CASE AdvanceAdd
  BY <1>7 DEF AdvanceAdd
<1>8. CASE EndDoEvents
  BY <1>8 DEF EndDoEvents, QuitLoop
<1>9. CASE WaitNodeTimeout
  BY <1>9 DEF WaitNodeTimeout
<1>10. QED
  BY <1>1, <1>2, <1>3, <1>4, <1>5, <1>6, <1>7, <1>8, <1>9, CallFrame, RuntimeFrame
     DEF Step, LoopStep, DoEventWait, ReceiveLoopEvent, ArmTimer, WaitTimeout,
         AllExpired, DoPollers, DoEventNoWait, ExpireEvent,
         SendRxEvent, SignalNode, WaitNode, InactivateNode

(* Every step keeps every type.                                            *)
LEMMA TypeOKStep == ASSUME IInv, Step PROVE TypeOK'
BY TypeLoopStep, TypeNodeStep, TypeHandlerStep, TypeCallStep, TypeTimerStep,
   TypePollStep DEF TypeOK
-----------------------------------------------------------------------------
(* The tokens.                                                             *)
LEMMA NoneOwed ==
  ASSUME NEW n, IF lpc \in {"start", "finish"}
                THEN (lpc = "start" /\ li = 1) \/ (lpc = "finish" /\ li = Len(activeNodes) + 1)
                ELSE TRUE,
         Len(activeNodes) \in Nat
  PROVE  OwedTo(n) = {} /\ Cardinality(OwedTo(n)) = 0
<1>1. OwedTo(n) = {}
  BY DEF OwedTo
<1>2. QED BY <1>1, FS_EmptySet

At(seq, n, I) == {j \in I : seq[j] = n}

(* One more position of the active vector in an interval that ends (or     *)
(* begins) there is one more token owed to the node at that position.      *)
LEMMA OneMore ==
  ASSUME NEW seq, NEW n, NEW I, NEW J, NEW k, IsFiniteSet(I), k \notin I,
         J = I \cup {k}
  PROVE  /\ Cardinality(At(seq, n, J))
               = Cardinality(At(seq, n, I)) + (IF seq[k] = n THEN 1 ELSE 0)
         /\ Cardinality(At(seq, n, I)) \in Nat
<1> USE DEF At
<1> DEFINE S == At(seq, n, I)
           SS == At(seq, n, J)
<1>2. IsFiniteSet(S) /\ Cardinality(S) \in Nat
  BY FS_Subset, FS_CardinalityType
<1>3. CASE seq[k] = n
  <2>1. SS = S \cup {k} /\ k \notin S
    BY <1>3
  <2>2. Cardinality(SS) = Cardinality(S) + 1
    BY <1>2, <2>1, FS_AddElement
  <2> HIDE DEF S, SS
  <2>3. Cardinality(SS) = Cardinality(S) + (IF seq[k] = n THEN 1 ELSE 0)
    BY <1>3, <2>2
  <2>4. QED BY <1>2, <2>3 DEF S, SS
<1>4. CASE seq[k] # n
  <2>1. SS = S
    BY <1>4
  <2> HIDE DEF S, SS
  <2>2. Cardinality(SS) = Cardinality(S) + (IF seq[k] = n THEN 1 ELSE 0)
    BY <1>2, <1>4, <2>1
  <2>3. QED BY <1>2, <2>2 DEF S, SS
<1>5. QED BY <1>3, <1>4

(* An answer in fromNode is not the empty channel.                         *)
LEMMA NonEmptyAnswer == <<TRUE>> # <<>> /\ <<FALSE>> # <<>>
OBVIOUS

(* A handler step moves the token of its node, and no other.               *)
LEMMA TokenHandler ==
  ASSUME IInv, NEW m \in Nodes, Handler(m), NEW n \in Nodes
  PROVE  Token(n)' = Token(n)
<1> USE DEF IInv, TypeOK, TypeNode, TypeHandler, Token, Executing, chanVars, handlerVars
<1>1. CASE n # m
  BY <1>1 DEF Handler, WaitLoop, ReceiveEvent, FinishEvent, PanicHandler,
              EventDone, Suspend, SignalSuspended, WakeSuspended
<1>2. CASE n = m
  <2>1. CASE WaitLoop(n)
    BY <2>1 DEF WaitLoop
  <2>2. CASE ReceiveEvent(n)
    BY <2>2 DEF ReceiveEvent
  <2>3. ASSUME NEW next \in {"wait", "dead"}, EventDone(n, next)
        PROVE  Token(n)' = Token(n)
    <3>1. /\ hpc[n] = "run" /\ hpc'[n] = next /\ UNCHANGED toNode
          /\ fromNode[n] = <<>> /\ fromNode'[n] = <<TRUE>>
      BY <2>3 DEF EventDone
    <3>2. Executing(n) /\ ~Executing(n)'
      BY <3>1
    <3>3. fromNode[n] = <<>> /\ fromNode'[n] # <<>>
      BY <3>1, NonEmptyAnswer
    <3>4. toNode[n] \in {0, 1} /\ toNode'[n] = toNode[n]
      BY <3>1
    <3> HIDE DEF Executing, IInv
    <3>5. QED BY <3>2, <3>3, <3>4 DEF Token
  <2>5. CASE Suspend(n)
    BY <2>5 DEF Suspend
  <2>6. CASE SignalSuspended(n)
    <3>1. /\ hpc[n] = "suspend" /\ hpc'[n] = "suspended" /\ UNCHANGED toNode
          /\ fromNode[n] = <<>> /\ fromNode'[n] = <<FALSE>>
      BY <2>6 DEF SignalSuspended
    <3>2. Executing(n) /\ ~Executing(n)'
      BY <3>1
    <3>3. fromNode[n] = <<>> /\ fromNode'[n] # <<>>
      BY <3>1, NonEmptyAnswer
    <3>4. toNode[n] \in {0, 1} /\ toNode'[n] = toNode[n]
      BY <3>1
    <3> HIDE DEF Executing, IInv
    <3>5. QED BY <3>2, <3>3, <3>4 DEF Token
  <2>7. CASE WakeSuspended(n)
    BY <2>7 DEF WakeSuspended
  <2>8. QED BY <1>2, <2>1, <2>2, <2>3, <2>5, <2>6, <2>7
            DEF Handler, FinishEvent, PanicHandler
<1>3. QED BY <1>1, <1>2

(* The loop outside its two passes over the active vector neither moves a  *)
(* token nor owes one.                                                     *)
LEMMA TokenOutside ==
  ASSUME IInv, lpc \notin {"start", "finish"}, lpc' # "finish",
         UNCHANGED <<li, toNode, fromNode, hpc>>, Len(activeNodes') \in Nat
  PROVE  TokenInv'
<1>1. li = 1 /\ li' = 1
  BY DEF IInv, TokenInv
<1>2. ASSUME NEW n \in Nodes PROVE Token(n)' = Cardinality(OwedTo(n))'
  <2>1. Token(n)' = Token(n)
    BY DEF Token, Executing
  <2>2. Len(activeNodes) \in Nat
    BY DEF IInv, TypeOK, TypeNode
  <2>3. Token(n) = 0
    BY <2>2, NoneOwed DEF IInv, TokenInv
  <2>4. OwedTo(n)' = {}
    BY <1>1 DEF OwedTo
  <2>5. QED BY <2>1, <2>3, <2>4, FS_EmptySet
<1>3. QED BY <1>1, <1>2 DEF TokenInv

(* signalNode hands out one token and owes one more.                       *)
LEMMA TokenSignalNode == ASSUME IInv, SignalNode PROVE TokenInv'
<1>1. /\ activeNodes \in Seq(Nodes) /\ Len(activeNodes) \in Nat
      /\ li \in Nat \ {0} /\ li <= Len(activeNodes) + 1 /\ lpc = "start"
      /\ toNode \in [Nodes -> {0, 1}] /\ UNCHANGED <<hpc, fromNode, activeNodes>>
  BY DEF IInv, TypeOK, TypeNode, TypeLoop, TokenInv, SignalNode, handlerVars, activeVars
<1>2. \A n \in Nodes : Token(n) = Cardinality(At(activeNodes, n, 1 .. li - 1))
  BY <1>1 DEF IInv, TokenInv, OwedTo, At
<1>3. CASE li <= Len(activeNodes)
  <2> DEFINE m == activeNodes[li]
  <2>1. /\ m \in Nodes /\ li' = li + 1 /\ lpc' = "start"
        /\ toNode[m] = 0 /\ toNode' = [toNode EXCEPT ![m] = 1]
    BY <1>1, <1>3 DEF SignalNode
  <2>2. ASSUME NEW n \in Nodes PROVE Token(n)' = Cardinality(OwedTo(n))'
    <3>1. OwedTo(n)' = At(activeNodes, n, 1 .. li)
      BY <1>1, <2>1 DEF OwedTo, At
    <3>2. 1 .. li = (1 .. li - 1) \cup {li} /\ li \notin 1 .. li - 1
      BY <1>1
    <3>3. Cardinality(OwedTo(n)') = Token(n) + (IF m = n THEN 1 ELSE 0)
      <4>1. IsFiniteSet(1 .. li - 1)
        BY <1>1, FS_Interval
      <4>2. Cardinality(At(activeNodes, n, 1 .. li))
              = Cardinality(At(activeNodes, n, 1 .. li - 1)) + (IF m = n THEN 1 ELSE 0)
        BY <3>2, <4>1, OneMore
      <4>3. QED BY <1>2, <3>1, <4>2
    <3>4. Token(n)' = Token(n) + (IF m = n THEN 1 ELSE 0)
      <4>1. CASE m = n
        BY <1>1, <2>1, <4>1 DEF Token, Executing
      <4>2. CASE m # n
        <5>1. toNode'[n] = toNode[n] /\ toNode[n] \in {0, 1}
          BY <1>1, <2>1, <4>2
        <5>2. QED BY <1>1, <4>2, <5>1 DEF Token, Executing
      <4>3. QED BY <4>1, <4>2
    <3>5. QED BY <3>3, <3>4
  <2>3. QED BY <1>1, <1>3, <2>1, <2>2 DEF TokenInv
<1>4. CASE ~(li <= Len(activeNodes))
  <2>1. li = Len(activeNodes) + 1 /\ li' = 1 /\ lpc' = "finish" /\ UNCHANGED toNode
    BY <1>1, <1>4 DEF SignalNode
  <2>2. ASSUME NEW n \in Nodes PROVE Token(n)' = Cardinality(OwedTo(n))'
    <3>1. OwedTo(n)' = At(activeNodes, n, 1 .. Len(activeNodes))
      BY <1>1, <2>1 DEF OwedTo, At
    <3>2. li - 1 = Len(activeNodes)
      BY <1>1, <2>1
    <3>3. Token(n)' = Token(n)
      BY <1>1, <2>1 DEF Token, Executing
    <3>4. QED BY <1>2, <3>1, <3>2, <3>3
  <2>3. QED BY <1>1, <2>1, <2>2 DEF TokenInv
<1>5. QED BY <1>3, <1>4

(* waitNode takes one token back and owes one fewer.                       *)
LEMMA TokenWaitNode == ASSUME IInv, WaitNode PROVE TokenInv'
<1>1. /\ activeNodes \in Seq(Nodes) /\ Len(activeNodes) \in Nat
      /\ li \in Nat \ {0} /\ li <= Len(activeNodes) + 1 /\ lpc = "finish"
      /\ toNode \in [Nodes -> {0, 1}] /\ UNCHANGED <<hpc, toNode, activeNodes>>
      /\ fromNode \in [Nodes -> {<<>>, <<TRUE>>, <<FALSE>>}]
  <2>1. lpc = "finish" /\ UNCHANGED <<hpc, toNode, activeNodes>>
    BY DEF WaitNode, handlerVars, activeVars
  <2>2. li \in Nat \ {0} /\ li <= Len(activeNodes) + 1
    BY <2>1 DEF IInv, TypeOK, TypeLoop, TokenInv
  <2>3. TypeNode
    BY DEF IInv, TypeOK
  <2>4. activeNodes \in Seq(Nodes) /\ Len(activeNodes) \in Nat
    BY <2>3 DEF TypeNode
  <2>5. QED BY <2>1, <2>2, <2>3, <2>4, Zenon DEF TypeNode
<1>2. \A n \in Nodes :
        Token(n) = Cardinality(At(activeNodes, n, li .. Len(activeNodes)))
  BY <1>1 DEF IInv, TokenInv, OwedTo, At
<1>3. CASE li <= Len(activeNodes)
  <2> DEFINE m == activeNodes[li]
  <2>1. /\ m \in Nodes /\ li' = li + 1 /\ lpc' = "finish"
        /\ fromNode[m] # <<>> /\ fromNode' = [fromNode EXCEPT ![m] = <<>>]
    BY <1>1, <1>3 DEF WaitNode, NodeAnswered
  <2>2. ASSUME NEW n \in Nodes PROVE Token(n)' = Cardinality(OwedTo(n))'
    <3> DEFINE S == At(activeNodes, n, li + 1 .. Len(activeNodes))
    <3>1. OwedTo(n)' = S
      BY <1>1, <2>1 DEF OwedTo, At
    <3>2. /\ li .. Len(activeNodes) = (li + 1 .. Len(activeNodes)) \cup {li}
          /\ li \notin li + 1 .. Len(activeNodes)
      BY <1>1, <1>3
    <3>3. IsFiniteSet(li + 1 .. Len(activeNodes))
      BY <1>1, FS_Interval
    <3>4. Token(n) = Cardinality(S) + (IF m = n THEN 1 ELSE 0)
          /\ Cardinality(S) \in Nat
      BY <1>2, <3>2, <3>3, OneMore
    <3>5. Token(n) = Token(n)' + (IF m = n THEN 1 ELSE 0) /\ Token(n)' \in Nat
      <4>1. toNode'[n] = toNode[n] /\ toNode[n] \in {0, 1}
        BY <1>1
      <4>2. CASE m = n
        BY <1>1, <2>1, <4>1, <4>2 DEF Token, Executing
      <4>3. CASE m # n
        <5>1. fromNode'[n] = fromNode[n]
          BY <1>1, <2>1, <4>3
        <5>2. QED BY <1>1, <4>1, <4>3, <5>1 DEF Token, Executing
      <4>4. QED BY <4>2, <4>3
    <3> HIDE DEF S
    <3>6. Token(n)' = Cardinality(S)
      BY <3>4, <3>5
    <3>7. QED BY <3>1, <3>6
  <2>3. QED BY <1>1, <1>3, <2>1, <2>2 DEF TokenInv
<1>4. CASE ~(li <= Len(activeNodes))
  <2>1. li = Len(activeNodes) + 1 /\ li' = 1 /\ lpc' = "inactivate" /\ UNCHANGED fromNode
    BY <1>1, <1>4 DEF WaitNode
  <2>2. ASSUME NEW n \in Nodes PROVE Token(n)' = Cardinality(OwedTo(n))'
    <3>1. OwedTo(n)' = {}
      BY <2>1 DEF OwedTo
    <3>2. Token(n) = 0
      BY <1>1, <2>1, NoneOwed DEF IInv, TokenInv
    <3>3. Token(n)' = Token(n)
      BY <1>1, <2>1 DEF Token, Executing
    <3>4. QED BY <3>1, <3>2, <3>3, FS_EmptySet
  <2>3. QED BY <1>1, <2>1, <2>2 DEF TokenInv
<1>5. QED BY <1>3, <1>4

(* Steps of the loop that wait for nobody: neither pass over the active    *)
(* vector, nor its shortening.                                             *)
OtherLoopStep ==
  \/ SetEventWait \/ ArmTimer \/ DoEventWait \/ WaitTimeout \/ ClearEventWait
  \/ DoEventNoWait \/ AdvanceAdd \/ (\E x \in ev : ExpireEvent(x))
  \/ AllExpired \/ SendRxEvent \/ DoPollers

(* What those steps leave alone.                                           *)
LEMMA OtherLoopFrame ==
  ASSUME OtherLoopStep
  PROVE  /\ lpc \notin {"start", "finish", "inactivate"}
         /\ lpc' \notin {"finish", "inactivate"}
         /\ UNCHANGED <<li, toNode, fromNode, hpc, inactiveNodes>>
<1> USE DEF chanVars, handlerVars
<1>1. CASE ReceiveLoopEvent /\ lpc \in {"wait", "poll"}
  BY <1>1 DEF ReceiveLoopEvent, DoNodeEvent, QueueToNode, AfterEvent
<1>2. CASE \E x \in ev : ExpireEvent(x)
  BY <1>2 DEF ExpireEvent, QueueToNode
<1>3. CASE SendRxEvent
  BY <1>3 DEF SendRxEvent, AfterEvent
<1>4. CASE SetEventWait \/ ArmTimer \/ WaitTimeout \/ ClearEventWait \/ AdvanceAdd
  BY <1>4 DEF SetEventWait, ArmTimer, WaitTimeout, ClearEventWait, AdvanceAdd
<1>5. CASE AllExpired \/ DoPollers
  BY <1>5 DEF AllExpired, DoPollers
<1>6. CASE DoEventNoWait
  BY <1>1, <1>6 DEF DoEventNoWait
<1>7. QED BY <1>1, <1>2, <1>3, <1>4, <1>5, <1>6 DEF OtherLoopStep, DoEventWait

(* Every step keeps tokens and debts equal.                                *)
LEMMA TokenStep == ASSUME IInv, Step PROVE TokenInv'
<1> USE DEF loopVars, activeVars, chanVars, handlerVars
<1>1. CASE UNCHANGED <<loopVars, activeNodes, toNode, fromNode, hpc>>
  BY <1>1 DEF IInv, TokenInv, Token, OwedTo, Executing
<1>2. ASSUME NEW c \in Callers, StartHandlerOnce(c) PROVE TokenInv'
  <2>1. UNCHANGED <<loopVars, activeNodes, toNode, fromNode>>
    BY <1>2 DEF StartHandlerOnce
  <2>2. \A n \in Nodes : hpc'[n] = hpc[n] \/ (hpc[n] = "off" /\ hpc'[n] = "wait")
    BY <1>2 DEF StartHandlerOnce, IInv, TypeOK, TypeHandler, CountInv
  <2>3. \A n \in Nodes : Executing(n)' <=> Executing(n)
    BY <2>2 DEF Executing
  <2>4. \A n \in Nodes : Token(n)' = Token(n)
    BY <2>1, <2>3 DEF Token
  <2>5. QED BY <2>1, <2>4 DEF IInv, TokenInv, OwedTo
<1>3. ASSUME NEW c \in Callers, Call(c) PROVE TokenInv'
  BY <1>1, <1>2, <1>3, CallFrame
     DEF Call, BeginSignal, EndSignal, Resume, SendResume
<1>4. ASSUME NEW m \in Nodes, Handler(m) PROVE TokenInv'
  <2>1. \A n \in Nodes : Token(n)' = Token(n)
    BY <1>4, TokenHandler
  <2>2. UNCHANGED <<lpc, li, activeNodes>>
    BY <1>4, HandlerFrame
  <2>3. QED BY <2>1, <2>2 DEF IInv, TokenInv, OwedTo
<1>5. CASE OtherLoopStep \/ InactivateNode \/ EndDoEvents
  <2>1. /\ lpc \notin {"start", "finish"} /\ lpc' # "finish"
        /\ UNCHANGED <<li, toNode, fromNode, hpc>>
    BY <1>5, OtherLoopFrame DEF InactivateNode, EndDoEvents
  <2>2. Len(activeNodes') \in Nat
    BY TypeNodeStep DEF TypeNode
  <2>3. QED BY <2>1, <2>2, TokenOutside
<1>6. CASE WaitNodeTimeout
  BY <1>1, <1>6 DEF WaitNodeTimeout
<1>7. ASSUME NEW n \in Nodes, HandlerTimeout(n) PROVE TokenInv'
  BY <1>1, <1>7 DEF HandlerTimeout
<1>8. QED
  BY <1>1, <1>3, <1>4, <1>5, <1>6, <1>7, TokenSignalNode, TokenWaitNode,
     PollerFrame, RuntimeFrame DEF Step, LoopStep, OtherLoopStep

(* Every step keeps a position for each inactive node.                     *)
LEMMA InactiveStep == ASSUME IInv, Step PROVE InactiveInv'
<1> USE DEF loopVars, activeVars
<1>0. /\ inactiveNodes \in Seq(Nodes) /\ activeNodes \in Seq(Nodes)
      /\ Len(inactiveNodes) \in Nat /\ Len(activeNodes) \in Nat
      /\ li \in Nat \ {0} /\ InactiveInv
  BY DEF IInv, TypeOK, TypeLoop, TypeNode
<1>1. CASE UNCHANGED <<loopVars, activeNodes>>
  BY <1>0, <1>1 DEF InactiveInv
<1>2. CASE OtherLoopStep
  BY <1>0, <1>2, OtherLoopFrame DEF InactiveInv
<1>3. CASE SignalNode
  BY <1>0, <1>3 DEF SignalNode, InactiveInv
<1>4. CASE WaitNode
  <2>1. lpc = "finish" /\ Len(inactiveNodes) <= li - 1 /\ li <= Len(activeNodes) + 1
        /\ UNCHANGED activeNodes
    BY <1>0, <1>4 DEF WaitNode, InactiveInv, IInv, TokenInv
  <2>2. CASE li <= Len(activeNodes)
    <3>1. /\ inactiveNodes' \in {inactiveNodes, Append(inactiveNodes, activeNodes[li])}
          /\ li' = li + 1 /\ lpc' = "finish"
      BY <1>4, <2>1, <2>2 DEF WaitNode
    <3>2. Len(Append(inactiveNodes, activeNodes[li])) = Len(inactiveNodes) + 1
      BY <1>0, <2>2
    <3>3. Len(inactiveNodes') <= li' - 1
      BY <1>0, <2>1, <3>1, <3>2
    <3>4. QED BY <3>1, <3>3 DEF InactiveInv
  <2>3. CASE ~(li <= Len(activeNodes))
    BY <1>0, <1>4, <2>1, <2>3 DEF WaitNode, InactiveInv
  <2>4. QED BY <2>2, <2>3
<1>5. CASE InactivateNode
  BY <1>0, <1>5, DelActiveType DEF InactivateNode, InactiveInv
<1>6. CASE EndDoEvents
  BY <1>0, <1>6 DEF EndDoEvents, InactiveInv
<1>7. CASE WaitNodeTimeout
  BY <1>1, <1>7 DEF WaitNodeTimeout
<1>8. QED
  BY <1>1, <1>2, <1>3, <1>4, <1>5, <1>6, <1>7, CallFrame, HandlerFrame,
     PollerFrame, RuntimeFrame DEF Step, LoopStep, OtherLoopStep

(* Every step keeps a wake-up on its way to a loop about to sleep.         *)
LEMMA WakeStep == ASSUME IInv, Step PROVE WakeInv'
<1> USE DEF loopVars, pollVars, WakeInv
<1>0. WakeInv
  BY DEF IInv
<1>1. CASE UNCHANGED <<lpc, events, polling, eventWait, waking>>
  BY <1>0, <1>1
<1>2. ASSUME NEW c \in Callers, Call(c) PROVE WakeInv'
  <2>1. UNCHANGED <<lpc, polling, eventWait, waking>>
    BY <1>2, CallFrame
  <2>2. events # <<>> => events' # <<>>
    BY <1>2, EndSignalType, SendResumeType
       DEF Call, BeginSignal, StartHandlerOnce, Resume
  <2>3. QED BY <1>0, <2>1, <2>2
<1>3. ASSUME NEW p \in Pollers, ChangeActive(p) PROVE WakeInv'
  BY <1>0, <1>3 DEF ChangeActive, WasWaiting
<1>4. ASSUME NEW p \in Pollers, InterruptLoop(p) PROVE WakeInv'
  BY <1>0, <1>4, SignalEventType, OtherMessages DEF InterruptLoop
<1>5. CASE ReceiveLoopEvent
  <2>1. lpc' \notin {"arm", "wait"} /\ UNCHANGED <<polling, eventWait>>
    BY <1>5 DEF ReceiveLoopEvent, DoNodeEvent, QueueToNode, AfterEvent
  <2>2. QED BY <1>0, <2>1
<1>6. ASSUME NEW x \in ev, ExpireEvent(x) PROVE WakeInv'
  <2>1. lpc' \notin {"arm", "wait"} /\ UNCHANGED <<polling, eventWait>>
    BY <1>6 DEF ExpireEvent, QueueToNode
  <2>2. QED BY <1>0, <2>1
<1>7. CASE SetEventWait
  BY <1>0, <1>7 DEF SetEventWait
<1>8. CASE ArmTimer
  BY <1>0, <1>8 DEF ArmTimer
<1>9. CASE WaitTimeout \/ ClearEventWait \/ AdvanceAdd \/ AllExpired \/ DoPollers
  BY <1>0, <1>9 DEF WaitTimeout, ClearEventWait, AdvanceAdd, AllExpired, DoPollers
<1>10. CASE SendRxEvent \/ SignalNode \/ WaitNode \/ InactivateNode \/ EndDoEvents
  BY <1>0, <1>10 DEF SendRxEvent, AfterEvent, SignalNode, WaitNode,
                     InactivateNode, EndDoEvents
<1>11. CASE DoEventNoWait
  BY <1>0, <1>5, <1>11 DEF DoEventNoWait
<1>12. CASE WaitNodeTimeout
  BY <1>1, <1>12 DEF WaitNodeTimeout
<1>13. QED
  BY <1>1, <1>2, <1>3, <1>4, <1>5, <1>6, <1>7, <1>8, <1>9, <1>10, <1>11, <1>12,
     HandlerFrame, RuntimeFrame DEF Step, LoopStep, DoEventWait, Poller
-----------------------------------------------------------------------------
(* The counts.                                                             *)
Held(n) == IF currentEvent[n] # None THEN 1 ELSE 0
Sent(n) == IF disp # None /\ disp.dst = n THEN 1 ELSE 0
Counted(n) == activeCount[n] = Len(rxEvents[n]) + Held(n) + Sent(n)

(* The parts of a count are small naturals.                                *)
LEMMA CountedFacts ==
  ASSUME IInv, NEW n \in Nodes
  PROVE  /\ Counted(n) /\ Held(n) \in {0, 1} /\ Sent(n) \in {0, 1}
         /\ Len(rxEvents[n]) \in Nat /\ activeCount[n] \in Nat
         /\ rxEvents[n] \in Seq(WorkEvents)
<1>1. Counted(n)
  BY DEF IInv, CountInv, CountsQueued, Counted, Held, Sent
<1>2. Held(n) \in {0, 1} /\ Sent(n) \in {0, 1}
  BY DEF Held, Sent
<1>3. QED BY <1>1, <1>2 DEF IInv, TypeOK, TypeNode

(* Receiving an event keeps the count, finishing one lowers it.            *)
LEMMA CountHandler ==
  ASSUME IInv, NEW m \in Nodes, Handler(m), NEW n \in Nodes
  PROVE  Counted(n)'
<1>1. UNCHANGED disp
  BY HandlerFrame DEF loopVars
<1>2. Sent(n)' = Sent(n)
  BY <1>1 DEF Sent
<1>3. CASE UNCHANGED <<activeCount, rxEvents, currentEvent>>
  BY <1>2, <1>3, CountedFacts DEF Counted, Held
<1>4. CASE ReceiveEvent(m)
  <2>1. /\ rxEvents' = [rxEvents EXCEPT ![m] = Tail(rxEvents[m])]
        /\ currentEvent' = [currentEvent EXCEPT ![m] = Head(rxEvents[m])]
        /\ rxEvents[m] # <<>> /\ hpc[m] = "recv" /\ UNCHANGED activeCount
    BY <1>4 DEF ReceiveEvent, activeVars
  <2>2. CASE n = m
    <3>1. currentEvent[n] = None
      BY <2>1, <2>2 DEF IInv, CountInv
    <3>2. rxEvents[n] \in Seq(WorkEvents) /\ rxEvents[n] # <<>>
      BY <2>1, <2>2, CountedFacts
    <3>3. Head(rxEvents[n]) # None /\ Len(Tail(rxEvents[n])) = Len(rxEvents[n]) - 1
      BY <3>2, WorkFacts
    <3>4. rxEvents'[n] = Tail(rxEvents[n]) /\ currentEvent'[n] = Head(rxEvents[n])
      BY <2>1, <2>2 DEF IInv, TypeOK, TypeNode, TypeHandler
    <3>5. Held(n) = 0 /\ Held(n)' = 1
      BY <3>1, <3>3, <3>4 DEF Held
    <3>6. Len(rxEvents'[n]) = Len(rxEvents[n]) - 1
      BY <3>3, <3>4
    <3>7. activeCount[n] = Len(rxEvents[n]) + 0 + Sent(n)
      BY <3>5, CountedFacts DEF Counted
    <3>8. activeCount'[n] = Len(rxEvents'[n]) + 1 + Sent(n)
      BY <2>1, <3>6, <3>7, CountedFacts
    <3>9. QED BY <1>2, <3>5, <3>8 DEF Counted
  <2>3. CASE n # m
    <3>1. rxEvents'[n] = rxEvents[n] /\ currentEvent'[n] = currentEvent[n]
      BY <2>1, <2>3 DEF IInv, TypeOK, TypeNode, TypeHandler
    <3>2. QED BY <1>2, <2>1, <3>1, CountedFacts DEF Counted, Held
  <2>4. QED BY <2>2, <2>3
<1>5. ASSUME NEW next, EventDone(m, next) PROVE Counted(n)'
  <2>1. /\ activeCount' = [activeCount EXCEPT ![m] = activeCount[m] - 1]
        /\ currentEvent' = [currentEvent EXCEPT ![m] = None]
        /\ hpc[m] = "run" /\ UNCHANGED rxEvents
    BY <1>5 DEF EventDone, LessOneEvent
  <2>2. CASE n = m
    <3>1. currentEvent[n] # None
      BY <2>1, <2>2 DEF IInv, CountInv
    <3>2. activeCount'[n] = activeCount[n] - 1 /\ currentEvent'[n] = None
      BY <2>1, <2>2 DEF IInv, TypeOK, TypeNode, TypeHandler
    <3>3. Held(n) = 1 /\ Held(n)' = 0
      BY <3>1, <3>2 DEF Held
    <3>4. QED BY <1>2, <2>1, <3>2, <3>3, CountedFacts DEF Counted
  <2>3. CASE n # m
    <3>1. activeCount'[n] = activeCount[n] /\ currentEvent'[n] = currentEvent[n]
      BY <2>1, <2>3 DEF IInv, TypeOK, TypeNode, TypeHandler
    <3>2. QED BY <1>2, <2>1, <3>1, CountedFacts DEF Counted, Held
  <2>4. QED BY <2>2, <2>3
<1>6. QED
  BY <1>3, <1>4, <1>5
     DEF Handler, WaitLoop, FinishEvent, PanicHandler, Suspend, SignalSuspended,
         WakeSuspended, activeVars, chanVars, handlerVars

(* Queueing an event to its node: counted, and sent or about to be sent.   *)
LEMMA CountQueueToNode ==
  ASSUME IInv, NEW e \in WorkEvents, QueueToNode(e), disp = None,
         UNCHANGED <<rxEvents, currentEvent>>, NEW n \in Nodes
  PROVE  Counted(n)'
<1>1. /\ e.dst \in Nodes /\ e # None /\ disp' = e
      /\ activeCount' = [activeCount EXCEPT ![e.dst] = activeCount[e.dst] + 1]
  BY WorkFacts, QueueToNodeType
<1>2. Held(n)' = Held(n) /\ Sent(n) = 0 /\ Sent(n)' = IF e.dst = n THEN 1 ELSE 0
  BY <1>1 DEF Held, Sent
<1>3. activeCount'[n] = activeCount[n] + Sent(n)'
  <2>1. activeCount \in [Nodes -> Nat]
    BY DEF IInv, TypeOK, TypeNode
  <2>2. QED BY <1>1, <1>2, <2>1
<1>4. activeCount[n] = Len(rxEvents[n]) + Held(n) + 0
  BY <1>2, CountedFacts DEF Counted
<1>5. activeCount'[n] = Len(rxEvents[n]) + Held(n) + Sent(n)'
  BY <1>2, <1>3, <1>4, CountedFacts
<1>6. QED BY <1>2, <1>5 DEF Counted

(* Every step keeps the counts exact.                                      *)
LEMMA CountsStep == ASSUME IInv, Step, NEW n \in Nodes PROVE Counted(n)'
<1> USE DEF loopVars, activeVars, chanVars, handlerVars
<1>1. CASE UNCHANGED <<disp, activeCount, rxEvents, currentEvent>>
  BY <1>1, CountedFacts DEF Counted, Held, Sent
<1>2. CASE ReceiveLoopEvent /\ lpc \in {"wait", "poll"}
  <2>1. PICK e \in Message : DoNodeEvent(e)
    BY <1>2, ReceiveFacts
  <2>2. UNCHANGED <<rxEvents, currentEvent>> /\ disp = None
    BY <1>2 DEF ReceiveLoopEvent, IInv, CountInv
  <2>3. CASE e.kind = "work" /\ QueueToNode(e)
    BY <2>2, <2>3, MessageFacts, CountQueueToNode
  <2>4. CASE UNCHANGED <<disp, activeCount>>
    BY <1>1, <2>2, <2>4
  <2>5. QED BY <2>1, <2>3, <2>4 DEF DoNodeEvent
<1>3. ASSUME NEW x \in ev, ExpireEvent(x) PROVE Counted(n)'
  <2>1. x.e \in Message
    BY DEF TimedEvent, TypeLoop, TypeOK, IInv
  <2>2. UNCHANGED <<rxEvents, currentEvent>> /\ disp = None
    BY <1>3 DEF ExpireEvent, IInv, CountInv
  <2>3. CASE x.e.kind = "work" /\ QueueToNode(x.e)
    BY <2>1, <2>2, <2>3, MessageFacts, CountQueueToNode
  <2>4. QED BY <1>1, <1>3, <2>2, <2>3 DEF ExpireEvent
<1>4. CASE SendRxEvent
  <2>1. disp # None /\ disp \in WorkEvents /\ disp.dst \in Nodes
    BY <1>4, WorkFacts DEF SendRxEvent, IInv, CountInv, TypeOK, TypeLoop
  <2>2. UNCHANGED <<activeCount, currentEvent>>
    BY <1>4 DEF SendRxEvent
  <2>3. CASE ~started[disp.dst]
    BY <1>1, <1>4, <2>2, <2>3 DEF SendRxEvent
  <2>4. CASE started[disp.dst]
    <3>1. rxEvents' = [rxEvents EXCEPT ![disp.dst] = Append(rxEvents[disp.dst], disp)]
          /\ disp' = None
      BY <1>4, <2>4 DEF SendRxEvent, Queue
    <3>2. Held(n)' = Held(n) /\ Sent(n)' = 0
      BY <2>2, <3>1 DEF Held, Sent
    <3>3. Sent(n) = IF disp.dst = n THEN 1 ELSE 0
      BY <2>1 DEF Sent
    <3>4. CASE disp.dst = n
      <4>1. rxEvents'[n] = Append(rxEvents[n], disp)
        BY <3>1, <3>4 DEF IInv, TypeOK, TypeNode
      <4>2. Len(Append(rxEvents[n], disp)) = Len(rxEvents[n]) + 1
        BY <2>1, CountedFacts
      <4>3. Len(rxEvents'[n]) = Len(rxEvents[n]) + 1
        BY <4>1, <4>2
      <4>4. activeCount[n] = Len(rxEvents[n]) + Held(n) + 1
        BY <3>3, <3>4, CountedFacts DEF Counted
      <4>5. activeCount'[n] = Len(rxEvents'[n]) + Held(n) + 0
        BY <2>2, <4>3, <4>4, CountedFacts
      <4>6. QED BY <3>2, <4>5 DEF Counted
    <3>5. CASE disp.dst # n
      <4>1. rxEvents'[n] = rxEvents[n]
        BY <3>1, <3>5 DEF IInv, TypeOK, TypeNode
      <4>2. QED BY <2>2, <3>2, <3>3, <3>5, <4>1, CountedFacts DEF Counted
    <3>6. QED BY <3>4, <3>5
  <2>5. QED BY <2>3, <2>4
<1>5. QED
  BY <1>1, <1>2, <1>3, <1>4, CountHandler, CallFrame, PollerFrame, RuntimeFrame
     DEF Step, LoopStep, DoEventWait, SetEventWait, ArmTimer, WaitTimeout,
         ClearEventWait, AdvanceAdd, AllExpired, EndDoEvents, DoPollers,
         DoEventNoWait, WaitNodeTimeout, HandlerTimeout,
         SignalNode, WaitNode, InactivateNode

(* A node holds an event exactly while its handler runs or is suspended.   *)
LEMMA CurrentStep ==
  ASSUME IInv, Step, NEW n \in Nodes
  PROVE  /\ (currentEvent'[n] # None <=> hpc'[n] \in {"run", "suspend", "suspended"})
         /\ (~started'[n] => hpc'[n] = "off")
<1> USE DEF handlerVars, startVars
<1>0. /\ (currentEvent[n] # None <=> hpc[n] \in {"run", "suspend", "suspended"})
      /\ (~started[n] => hpc[n] = "off")
      /\ hpc \in [Nodes -> {"off", "wait", "recv", "run", "suspend", "suspended", "dead"}]
      /\ started \in [Nodes -> BOOLEAN]
      /\ currentEvent \in [Nodes -> WorkEvents \cup {None}]
  BY DEF IInv, CountInv, TypeOK, TypeHandler, TypeNode
<1>1. CASE UNCHANGED <<hpc, currentEvent, started>>
  BY <1>0, <1>1
<1>2. ASSUME NEW c \in Callers, StartHandlerOnce(c)
      PROVE  /\ (currentEvent'[n] # None <=> hpc'[n] \in {"run", "suspend", "suspended"})
             /\ (~started'[n] => hpc'[n] = "off")
  BY <1>0, <1>2 DEF StartHandlerOnce
<1>3. ASSUME NEW m \in Nodes, Handler(m)
      PROVE  /\ (currentEvent'[n] # None <=> hpc'[n] \in {"run", "suspend", "suspended"})
             /\ (~started'[n] => hpc'[n] = "off")
  <2>1. UNCHANGED started
    BY <1>3, HandlerFrame
  <2>2. CASE ReceiveEvent(m)
    <3>1. Head(rxEvents[m]) # None
      BY <2>2, CountedFacts, WorkFacts DEF ReceiveEvent
    <3>2. QED BY <1>0, <2>1, <2>2, <3>1 DEF ReceiveEvent
  <2>3. CASE WaitLoop(m)
    BY <1>0, <2>1, <2>3 DEF WaitLoop
  <2>4. CASE EventDone(m, "wait")
    BY <1>0, <2>1, <2>4 DEF EventDone
  <2>5. CASE EventDone(m, "dead")
    BY <1>0, <2>1, <2>5 DEF EventDone
  <2>6. CASE Suspend(m)
    BY <1>0, <2>1, <2>6 DEF Suspend
  <2>7. CASE SignalSuspended(m)
    BY <1>0, <2>1, <2>7 DEF SignalSuspended
  <2>8. CASE WakeSuspended(m)
    BY <1>0, <2>1, <2>8 DEF WakeSuspended
  <2>9. QED BY <1>3, <2>2, <2>3, <2>4, <2>5, <2>6, <2>7, <2>8
            DEF Handler, FinishEvent, PanicHandler
<1>4. QED
  BY <1>1, <1>2, <1>3, LoopFrame, PollerFrame, RuntimeFrame
     DEF Step, Call, BeginSignal, EndSignal, Resume, SendResume, HandlerTimeout

(* The loop holds an event exactly while it sends it to a node.            *)
LEMMA DispStep ==
  ASSUME IInv, Step
  PROVE  disp' # None <=> lpc' \in {"sendRx", "stuck"}
<1> USE DEF loopVars
<1>0. disp # None <=> lpc \in {"sendRx", "stuck"}
  BY DEF IInv, CountInv
<1>1. CASE UNCHANGED <<disp, lpc>>
  BY <1>0, <1>1
<1>2. ASSUME NEW e \in WorkEvents, QueueToNode(e)
      PROVE  disp' # None /\ lpc' = "sendRx"
  BY <1>2, WorkFacts DEF QueueToNode
<1>3. CASE ReceiveLoopEvent /\ lpc \in {"wait", "poll"}
  <2>1. PICK e \in Message : DoNodeEvent(e)
    BY <1>3, ReceiveFacts
  <2>2. CASE e.kind = "work" /\ QueueToNode(e)
    BY <1>2, <2>2, MessageFacts
  <2>3. CASE lpc' = AfterEvent /\ UNCHANGED disp
    BY <1>0, <1>3, <2>3, AfterEventType
  <2>4. QED BY <2>1, <2>2, <2>3 DEF DoNodeEvent
<1>4. ASSUME NEW x \in ev, ExpireEvent(x)
      PROVE  disp' # None <=> lpc' \in {"sendRx", "stuck"}
  <2>1. x.e \in Message
    BY DEF TimedEvent, TypeLoop, TypeOK, IInv
  <2>2. CASE x.e.kind = "work" /\ QueueToNode(x.e)
    BY <1>2, <2>1, <2>2, MessageFacts
  <2>3. QED BY <1>1, <1>4, <2>2 DEF ExpireEvent
<1>5. CASE SendRxEvent
  BY <1>0, <1>5, AfterEventType DEF SendRxEvent
<1>6. QED
  BY <1>0, <1>1, <1>3, <1>4, <1>5, HandlerFrame, CallFrame, PollerFrame, RuntimeFrame
     DEF Step, LoopStep, DoEventWait, SetEventWait, ArmTimer, WaitTimeout,
         ClearEventWait, AdvanceAdd, AllExpired, EndDoEvents, DoPollers,
         DoEventNoWait, WaitNodeTimeout, SignalNode, WaitNode, InactivateNode

(* Every step keeps the counting invariant.                                *)
LEMMA CountStep == ASSUME IInv, Step PROVE CountInv'
<1>1. ASSUME NEW n \in Nodes
      PROVE  activeCount'[n] = Len(rxEvents'[n])
                               + (IF currentEvent'[n] # None THEN 1 ELSE 0)
                               + (IF disp' # None /\ disp'.dst = n THEN 1 ELSE 0)
  BY CountsStep DEF Counted, Held, Sent
<1>2. CountsQueued'
  BY <1>1 DEF CountsQueued
<1>3. QED BY <1>2, CurrentStep, DispStep DEF CountInv
-----------------------------------------------------------------------------
(* The invariant holds before the loop runs.                               *)
LEMMA IInvInit == ASSUME Init PROVE IInv
<1> USE DEF Init, TypeOK
<1>1. TypeLoop /\ TypePoll
  <2>1. inactiveNodes \in Seq(Nodes)
    OBVIOUS
  <2>2. TypePoll
    BY DEF TypePoll
  <2>3. didWait \in BOOLEAN /\ timeout \in BOOLEAN
    BY Zenon
  <2>4. lpc = "top" /\ li \in Nat \ {0} /\ quit = None /\ disp = None
    OBVIOUS
  <2>5. ev \in SUBSET TimedEvent
    BY Zenon
  <2> HIDE DEF Init
  <2>6. TypeLoop
    BY <2>1, <2>3, <2>4, <2>5 DEF TypeLoop
  <2>7. QED BY <2>2, <2>6
<1>2. TypeNode /\ TypeHandler
  BY EventLoopAssumption DEF TypeNode, TypeHandler, NoIndex
<1>3. TypeCall
  BY EventLoopAssumption DEF TypeCall, Idle
<1>4. TypeTimer
  <2>1. timed \in SUBSET TimedEvent
    BY EventLoopAssumption DEF TimedEvent, Message
  <2>2. Never \in 0 .. Never
    BY EventLoopAssumption DEF Never
  <2>3. events \in Seq(Message) /\ Len(events) = 0
    OBVIOUS
  <2>4. 0 \in 0 .. MaxTime /\ 0 <= ChanDepth
    BY EventLoopAssumption
  <2>5. QED BY <2>1, <2>2, <2>3, <2>4 DEF TypeTimer
<1>5. TokenInv
  <2>1. ASSUME NEW n \in Nodes PROVE Token(n) = Cardinality(OwedTo(n))
    <3>1. OwedTo(n) = {}
      BY DEF OwedTo
    <3>2. Token(n) = 0
      BY DEF Token, Executing
    <3>3. QED BY <3>1, <3>2, FS_EmptySet
  <2>2. QED BY <2>1 DEF TokenInv
<1>6. InactiveInv /\ WakeInv
  BY DEF InactiveInv, WakeInv
<1>7. CountInv
  <2>1. \A n \in Nodes : /\ activeCount[n] = 0 /\ rxEvents[n] = <<>>
                         /\ currentEvent[n] = None
                         /\ hpc[n] \in {"wait", "off"}
                         /\ ~started[n] => hpc[n] = "off"
    OBVIOUS
  <2>2. disp = None /\ lpc = "top"
    OBVIOUS
  <2> HIDE DEF Init
  <2>3. CountsQueued
    <3>1. \A n \in Nodes : Len(rxEvents[n]) = 0
      BY <2>1
    <3>2. ASSUME NEW n \in Nodes
          PROVE  /\ (IF currentEvent[n] # None THEN 1 ELSE 0) = 0
                 /\ (IF disp # None /\ disp.dst = n THEN 1 ELSE 0) = 0
                 /\ Len(rxEvents[n]) = 0 /\ activeCount[n] = 0
      BY <2>1, <2>2, <3>1
    <3> SUFFICES ASSUME NEW n \in Nodes PROVE Counted(n)
      BY DEF CountsQueued, Counted, Held, Sent
    <3>3. Held(n) = 0 /\ Sent(n) = 0 /\ Len(rxEvents[n]) = 0 /\ activeCount[n] = 0
      BY <3>2 DEF Held, Sent
    <3>4. QED BY <3>3 DEF Counted
  <2>4. QED BY <2>1, <2>2, <2>3 DEF CountInv
<1>8. QED BY <1>1, <1>2, <1>3, <1>4, <1>5, <1>6, <1>7 DEF IInv

(* Stuttering keeps the invariant.                                         *)
LEMMA IInvStutter == ASSUME IInv, UNCHANGED vars PROVE IInv'
<1> USE DEF vars, loopVars, activeVars, chanVars, handlerVars, startVars, callVars,
            timerVars, pollVars, endVars, histVars
<1>1. TypeLoop' /\ TypeNode' /\ TypeHandler'
  BY DEF IInv, TypeOK, TypeLoop, TypeNode, TypeHandler
<1>2. TypeCall' /\ TypeTimer' /\ TypePoll'
  BY DEF IInv, TypeOK, TypeCall, TypeTimer, TypePoll
<1>3. TokenInv'
  BY DEF IInv, TokenInv, Token, OwedTo, Executing
<1>4. InactiveInv' /\ WakeInv'
  BY DEF IInv, InactiveInv, WakeInv
<1>5. CountInv'
  BY DEF IInv, CountInv, CountsQueued
<1>6. QED BY <1>1, <1>2, <1>3, <1>4, <1>5 DEF IInv, TypeOK

(* The invariant is inductive.                                             *)
THEOREM Inductive == Spec => []IInv
<1>1. Init => IInv
  BY IInvInit
<1>2. IInv /\ [Next]_vars => IInv'
  <2>1. ASSUME IInv, Step PROVE IInv'
    BY <2>1, TypeOKStep, TokenStep, InactiveStep, WakeStep, CountStep DEF IInv
  <2>2. QED BY <2>1, IInvStutter DEF Next, Asleep, Exited
<1>3. QED BY <1>1, <1>2, PTL DEF Spec

(* Every variable keeps its type: no channel is overfilled, activeCount    *)
(* never wraps below zero, delActive never shrinks an empty vector.        *)
THEOREM TypeCorrect == Spec => []TypeOK
<1>1. IInv => TypeOK
  BY DEF IInv
<1>2. QED BY <1>1, Inductive, PTL

(* The loop and the handlers exclude each other by the tokens alone, for   *)
(* every number of nodes and although delActive leaves stale indices.      *)
THEOREM Exclusion == Spec => []LoopOrHandlers
<1>1. IInv => LoopOrHandlers
  <2> SUFFICES ASSUME IInv, lpc \notin {"start", "finish"}, NEW n \in Nodes
               PROVE  ~Executing(n)
    BY DEF LoopOrHandlers
  <2>1. Len(activeNodes) \in Nat /\ toNode[n] \in {0, 1}
    BY DEF IInv, TypeOK, TypeNode
  <2>2. Token(n) = 0
    BY <2>1, NoneOwed DEF IInv, TokenInv
  <2>3. QED BY <2>1, <2>2 DEF Token
<1>2. QED BY <1>1, Inductive, PTL

(* changeActive and the wait bit cannot lose a wake-up, for every number   *)
(* of pollers.                                                             *)
THEOREM WakeUp == Spec => []NoLostWakeup
<1>1. IInv => NoLostWakeup
  BY DEF IInv, WakeInv, NoLostWakeup
<1>2. QED BY <1>1, Inductive, PTL

(* activeCount counts exactly what was queued to a node and not finished.  *)
THEOREM Counts == Spec => []CountsQueued
<1>1. IInv => CountsQueued
  BY DEF IInv, CountInv
<1>2. QED BY <1>1, Inductive, PTL

-----------------------------------------------------------------------------
(* An event has expired by the time the timer was armed for.               *)
Due == \E x \in timed : x.t <= timerCpuTime

(* The timer is either running or has fired into its channel; a timer that *)
(* was armed was armed for an event that is still in the pool; after a     *)
(* timeout that event waits to be taken and the timer is set to never.     *)
TimerInv ==
  /\ timerOn <=> ~timerC
  /\ timerC \/ timerDue # Never => Due
  /\ lpc \in {"clear", "advance"} /\ timeout => Due /\ ~timerC /\ timerDue = Never
  /\ lpc = "advance" => timeout
  /\ lpc # "crashed"

(* Callers and pollers only add to the timed pool.                         *)
LEMMA TimedGrows ==
  ASSUME (\E c \in Callers : Call(c)) \/ (\E p \in Pollers : Poller(p))
  PROVE  timed \subseteq timed'
BY DEF Call, BeginSignal, StartHandlerOnce, EndSignal, Resume, SendResume, Poller,
       ChangeActive, InterruptLoop, SignalEvent, SignalEventAfter, Defer, timerVars

(* The next wake-up time is that of an event in the pool.                  *)
LEMMA NextTimeFacts ==
  ASSUME IInv PROVE NextTime # Never => \E x \in timed : x.t = NextTime
<1>1. CASE timed = {}
  BY <1>1 DEF NextTime
<1>2. CASE timed # {}
  <2> DEFINE P(t) == (\E x \in timed : x.t = t) /\ (\A x \in timed : t <= x.t)
  <2>1. NextTime = CHOOSE t \in 0 .. MaxTime : P(t)
    BY <1>2 DEF NextTime
  <2>2. \E t \in 0 .. MaxTime : P(t)
    <3> DEFINE T == {x.t : x \in timed}
    <3>1. T \subseteq Nat /\ T # {} /\ T \subseteq 0 .. MaxTime
      BY <1>2, EventLoopAssumption DEF TimedEvent, IInv, TypeOK, TypeTimer
    <3>2. PICK t \in T : \A u \in T : t <= u
      BY <3>1, LeastOf
    <3>3. QED BY <3>1, <3>2
  <2>3. P(NextTime)
    <3> HIDE DEF P
    <3>1. QED BY <2>1, <2>2
  <2>4. QED BY <2>3
<1>3. QED BY <1>1, <1>2

(* Steps that leave the loop and the timer alone.                          *)
LEMMA TimerQuiet ==
  ASSUME TimerInv, UNCHANGED <<timerCpuTime, timerDue, timerOn, timerC>>,
         timed \subseteq timed',
         \/ UNCHANGED <<lpc, timeout>>
         \/ lpc' \notin {"clear", "advance", "crashed"}
         \/ lpc' = "clear" /\ ~timeout'
  PROVE  TimerInv'
<1>1. Due => Due'
  BY DEF Due
<1>2. QED BY <1>1 DEF TimerInv

(* Every step keeps the timer and what it was armed for in agreement.      *)
LEMMA TimerStep == ASSUME IInv, TimerInv, Step PROVE TimerInv'
<1> USE DEF loopVars, timerVars
<1>1. ASSUME NEW c \in Callers, Call(c) PROVE TimerInv'
  BY <1>1, CallFrame, TimedGrows, TimerQuiet
<1>2. ASSUME NEW p \in Pollers, Poller(p) PROVE TimerInv'
  BY <1>2, PollerFrame, TimedGrows, TimerQuiet
<1>3. ASSUME NEW n \in Nodes, Handler(n) \/ HandlerTimeout(n) PROVE TimerInv'
  BY <1>3, HandlerFrame, TimerQuiet
<1>4. CASE ReceiveLoopEvent
  <2>1. UNCHANGED <<timerVars, timeout>> /\ DoNodeEvent(Head(events))
    BY <1>4 DEF ReceiveLoopEvent
  <2>2. lpc' = AfterEvent \/ lpc' = "sendRx"
    BY <2>1 DEF DoNodeEvent, QueueToNode
  <2>3. QED BY <2>1, <2>2, TimerQuiet DEF AfterEvent
<1>5. CASE SetEventWait
  BY <1>5, TimerQuiet DEF SetEventWait
<1>6. CASE ArmTimer
  <2>1. /\ lpc' = "wait"
        /\ UNCHANGED <<timed, timeout>>
    BY <1>6 DEF ArmTimer
  <2>2. CASE TimerChanged
    <3>1. /\ timerC' = (timerC /\ timerOn) /\ timerOn' = TRUE
          /\ timerCpuTime' = NextTime /\ timerDue' = NextTime
      BY <1>6, <2>2 DEF ArmTimer
    <3>2. timerOn' /\ ~timerC'
      BY <3>1 DEF TimerInv
    <3>3. NextTime # Never => \E x \in timed : x.t <= NextTime
      <4>1. ASSUME NextTime # Never PROVE \E x \in timed : x.t <= NextTime
        <5>1. PICK x \in timed : x.t = NextTime
          BY <4>1, NextTimeFacts
        <5>2. x.t \in Nat
          BY EventLoopAssumption DEF IInv, TypeOK, TypeTimer, TimedEvent
        <5>3. QED BY <5>1, <5>2
      <4>2. QED BY <4>1
    <3>4. timerDue' # Never => Due'
      BY <2>1, <3>1, <3>3 DEF Due
    <3>5. QED BY <2>1, <3>2, <3>4 DEF TimerInv
  <2>3. CASE ~TimerChanged
    BY <1>6, <2>1, <2>3, TimerQuiet DEF ArmTimer
  <2>4. QED BY <2>2, <2>3
<1>7. CASE WaitTimeout
  <2>1. /\ timerC /\ ~timerC' /\ timerOn' /\ timerDue' = Never /\ timeout'
        /\ lpc' = "clear" /\ UNCHANGED <<timed, timerCpuTime>>
    BY <1>7 DEF WaitTimeout, Reset
  <2>2. QED BY <2>1 DEF TimerInv, Due
<1>8. CASE ClearEventWait
  BY <1>8 DEF ClearEventWait, TimerInv, Due
<1>9. CASE DoEventNoWait
  BY <1>4, <1>9, TimerQuiet DEF DoEventNoWait
<1>10. CASE AdvanceAdd
  <2>1. /\ lpc = "advance" /\ lpc' = IF Expired = {} THEN "crashed" ELSE "expire"
        /\ UNCHANGED <<timerCpuTime, timerDue, timerOn, timerC>>
    BY <1>10 DEF AdvanceAdd
  <2>2. Expired # {} /\ ~timerC /\ timerDue = Never
    BY <2>1 DEF TimerInv, Due, Expired
  <2>3. QED BY <2>1, <2>2 DEF TimerInv
<1>11. ASSUME NEW x \in ev, ExpireEvent(x) PROVE TimerInv'
  <2>1. UNCHANGED <<timerCpuTime, timerDue, timerOn, timerC, timeout>>
    BY <1>11 DEF ExpireEvent
  <2>2. timed \subseteq timed' /\ (lpc' = lpc \/ lpc' = "sendRx")
    BY <1>11 DEF ExpireEvent, QueueToNode, SignalEvent, Defer
  <2>3. QED BY <2>1, <2>2, TimerQuiet
<1>12. CASE AllExpired
  BY <1>12, TimerQuiet DEF AllExpired
<1>13. CASE SendRxEvent
  BY <1>13, TimerQuiet DEF SendRxEvent, AfterEvent
<1>14. CASE SignalNode
  BY <1>14, TimerQuiet DEF SignalNode
<1>15. CASE WaitNode
  BY <1>15, TimerQuiet DEF WaitNode
<1>16. CASE InactivateNode
  BY <1>16, TimerQuiet DEF InactivateNode
<1>17. CASE EndDoEvents
  BY <1>17, TimerQuiet DEF EndDoEvents
<1>18. CASE DoPollers \/ WaitNodeTimeout
  BY <1>18, TimerQuiet DEF DoPollers, WaitNodeTimeout
<1>19. CASE Tick
  BY <1>19, RuntimeFrame, TimerQuiet DEF Tick
<1>20. CASE FireTimer
  <2>1. timerOn /\ timerDue <= now /\ ~timerOn' /\ timerC'
        /\ UNCHANGED <<timed, timerCpuTime, timerDue, lpc, timeout>>
    BY <1>20 DEF FireTimer
  <2>2. timerDue # Never
    <3>1. now \in 0 .. MaxTime /\ MaxTime \in Nat /\ timerDue \in 0 .. Never
      BY EventLoopAssumption DEF IInv, TypeOK, TypeTimer
    <3>2. QED BY <2>1, <3>1 DEF Never
  <2>3. QED BY <2>1, <2>2 DEF TimerInv, Due
<1>21. QED
  BY <1>1, <1>2, <1>3, <1>4, <1>5, <1>6, <1>7, <1>8, <1>9, <1>10, <1>11, <1>12,
     <1>13, <1>14, <1>15, <1>16, <1>17, <1>18, <1>19, <1>20
     DEF Step, LoopStep, DoEventWait

(* The inductive invariant of the timer.                                   *)
THEOREM TimerCorrect == Spec => []TimerInv
<1>1. Init => TimerInv
  <2> SUFFICES ASSUME Init PROVE TimerInv
    OBVIOUS
  <2>1. lpc = "top" /\ timerDue = Never
    BY DEF Init
  <2>2. timerOn = TRUE /\ timerC = FALSE
    BY DEF Init
  <2>3. QED BY <2>1, <2>2 DEF TimerInv
<1>2. IInv /\ TimerInv /\ [Next]_vars => TimerInv'
  <2>1. ASSUME TimerInv, UNCHANGED vars PROVE TimerInv'
    BY <2>1 DEF vars, loopVars, timerVars, TimerInv, Due
  <2>2. QED BY <2>1, TimerStep DEF Next, Asleep, Exited
<1>3. QED BY <1>1, <1>2, Inductive, PTL DEF Spec

(* "wait timeout but not events expired" (event.go:544) cannot happen: an  *)
(* armed timer finds its event, whatever was signalled, overtaken or       *)
(* overflowed in between, for every set of events and every clock.         *)
THEOREM TimeoutIsReal == Spec => []NoFalseTimeout
<1>1. TimerInv => NoFalseTimeout
  BY DEF TimerInv, NoFalseTimeout
<1>2. QED BY <1>1, TimerCorrect, PTL

(* Draining the timer before it is reset (event.go:519) never blocks the   *)
(* loop.                                                                   *)
THEOREM DrainNeverBlocks == Spec => []TimerNeverStuck
<1>1. TimerInv => TimerNeverStuck
  BY DEF TimerInv, TimerNeverStuck
<1>2. QED BY <1>1, TimerCorrect, PTL

-----------------------------------------------------------------------------
(* Every event is in one place.  The places of a work event:               *)
Calls(e) == {c \in Callers : call[c].arg = e}
InPool(pool, e) == {x \in pool : x.e = e}

InCall(e) == Cardinality(Calls(e))
InChan(e) == Occurrences(events, e)
InTimed(e) == Cardinality(InPool(timed, e))
InEv(e) == Cardinality(InPool(ev, e))
InDisp(e) == IF disp = e THEN 1 ELSE 0
InRx(e) == Occurrences(rxEvents[e.dst], e)
InRun(e) == IF currentEvent[e.dst] = e THEN 1 ELSE 0
InDone(e) == IF e \in done THEN 1 ELSE 0

PlaceSum(e) == InCall(e) + InChan(e) + InTimed(e) + InEv(e) + InDisp(e) + InRx(e)
               + InRun(e) + InDone(e)

FinitePlaces(e) ==
  IsFiniteSet(Calls(e)) /\ IsFiniteSet(InPool(timed, e)) /\ IsFiniteSet(InPool(ev, e))

(* An event waits in the channel of its own node; the expired events wait  *)
(* only while doEvents takes them.                                         *)
PlaceInv ==
  /\ \A e \in WorkEvents : FinitePlaces(e)
  /\ \A e \in WorkEvents : PlaceSum(e) = IF e \in issued THEN 1 ELSE 0
  /\ \A n \in Nodes : currentEvent[n] # None => currentEvent[n].dst = n
  /\ \A n \in Nodes : \A k \in 1 .. Len(rxEvents[n]) : rxEvents[n][k].dst = n
  /\ ev # {} => timeout /\ lpc \in {"expire", "sendRx", "stuck"}

(* A send on a channel is one more occurrence of what was sent.            *)
LEMMA OccurrencesAppend ==
  ASSUME NEW S, NEW q \in Seq(S), NEW m \in S, NEW e
  PROVE  /\ Occurrences(Append(q, m), e) = Occurrences(q, e) + (IF m = e THEN 1 ELSE 0)
         /\ Occurrences(q, e) \in Nat /\ Occurrences(Append(q, m), e) \in Nat
<1> DEFINE A == {k \in 1 .. Len(q) : q[k] = e}
           B == {k \in 1 .. Len(Append(q, m)) : Append(q, m)[k] = e}
<1>1. /\ Len(q) \in Nat /\ Len(Append(q, m)) = Len(q) + 1
      /\ Append(q, m)[Len(q) + 1] = m
      /\ \A k \in 1 .. Len(q) : Append(q, m)[k] = q[k]
  OBVIOUS
<1>2. IsFiniteSet(1 .. Len(q))
  BY <1>1, FS_Interval
<1>3. IsFiniteSet(A) /\ Cardinality(A) \in Nat
  BY <1>2, FS_Subset, FS_CardinalityType
<1>4. 1 .. Len(q) + 1 = (1 .. Len(q)) \cup {Len(q) + 1} /\ Len(q) + 1 \notin 1 .. Len(q)
  BY <1>1
<1>5. CASE m = e
  <2>1. B = A \cup {Len(q) + 1} /\ Len(q) + 1 \notin A
    BY <1>1, <1>4, <1>5
  <2> HIDE DEF A, B
  <2>2. Cardinality(B) = Cardinality(A) + 1
    BY <1>3, <2>1, FS_AddElement
  <2>3. Cardinality(B) = Cardinality(A) + (IF m = e THEN 1 ELSE 0) /\ Cardinality(B) \in Nat
    BY <1>3, <1>5, <2>2
  <2>4. QED BY <1>3, <2>3 DEF A, B, Occurrences
<1>6. CASE m # e
  <2>1. B = A
    BY <1>1, <1>4, <1>6
  <2> HIDE DEF A, B
  <2>2. Cardinality(B) = Cardinality(A) + (IF m = e THEN 1 ELSE 0)
    BY <1>3, <1>6, <2>1
  <2>3. QED BY <1>3, <2>1, <2>2 DEF A, B, Occurrences
<1>7. QED BY <1>5, <1>6

(* A receive is one occurrence less of what was received.                  *)
LEMMA OccurrencesTail ==
  ASSUME NEW S, NEW q \in Seq(S), q # <<>>, NEW e
  PROVE  /\ Occurrences(q, e) = Occurrences(Tail(q), e) + (IF Head(q) = e THEN 1 ELSE 0)
         /\ Occurrences(q, e) \in Nat /\ Occurrences(Tail(q), e) \in Nat
<1> DEFINE A == {k \in 1 .. Len(q) : q[k] = e}
           B == {k \in 1 .. Len(Tail(q)) : Tail(q)[k] = e}
           A1 == A \ {1}
           f == [k \in B |-> k + 1]
<1>1. /\ Len(q) \in Nat \ {0} /\ Len(Tail(q)) = Len(q) - 1 /\ Head(q) = q[1]
      /\ \A k \in 1 .. Len(q) - 1 : Tail(q)[k] = q[k + 1]
  OBVIOUS
<1>2. IsFiniteSet(1 .. Len(q)) /\ IsFiniteSet(1 .. Len(q) - 1)
  BY <1>1, FS_Interval
<1>3. IsFiniteSet(A) /\ Cardinality(A) \in Nat /\ IsFiniteSet(B) /\ Cardinality(B) \in Nat
  BY <1>1, <1>2, FS_Subset, FS_CardinalityType
<1>4. f \in Bijection(B, A1)
  <2>1. f \in [B -> A1]
    BY <1>1
  <2>2. \A x, y \in B : f[x] = f[y] => x = y
    BY <1>1
  <2>3. \A a \in A1 : \E b \in B : f[b] = a
    <3>1. ASSUME NEW a \in A1 PROVE a - 1 \in B /\ f[a - 1] = a
      <4>1. a \in 1 .. Len(q) /\ a # 1 /\ q[a] = e
        OBVIOUS
      <4>2. a - 1 \in 1 .. Len(q) - 1 /\ (a - 1) + 1 = a
        BY <1>1, <4>1
      <4>3. Tail(q)[a - 1] = e
        BY <1>1, <4>1, <4>2
      <4>4. a - 1 \in B
        BY <1>1, <4>2, <4>3
      <4>5. QED BY <4>2, <4>4
    <3>2. QED BY <3>1
  <2> HIDE DEF f, A1, B
  <2>4. QED BY <2>1, <2>2, <2>3 DEF Bijection, Injection, Surjection, IsInjective
<1>5. Cardinality(A1) = Cardinality(B)
  <2> HIDE DEF f, A1, B
  <2>1. ExistsBijection(B, A1)
    BY <1>4 DEF ExistsBijection
  <2>2. QED BY <1>3, <2>1, FS_Bijection
<1>6. 1 \in A <=> Head(q) = e
  BY <1>1
<1> HIDE DEF A, B
<1>7. Cardinality(A1) = IF 1 \in A THEN Cardinality(A) - 1 ELSE Cardinality(A)
  BY <1>3, FS_RemoveElement
<1>8. Cardinality(A) = Cardinality(B) + (IF Head(q) = e THEN 1 ELSE 0)
  <2> HIDE DEF A1
  <2>1. QED BY <1>3, <1>5, <1>6, <1>7
<1>9. QED BY <1>3, <1>8 DEF A, B, Occurrences

(* Each place holds a natural number of copies.                            *)
LEMMA PlaceFacts ==
  ASSUME IInv, PlaceInv, NEW e \in WorkEvents
  PROVE  /\ InCall(e) \in Nat /\ InChan(e) \in Nat /\ InTimed(e) \in Nat /\ InEv(e) \in Nat
         /\ InDisp(e) \in {0, 1} /\ InRx(e) \in Nat /\ InRun(e) \in {0, 1}
         /\ InDone(e) \in {0, 1}
<1>1. InCall(e) \in Nat /\ InTimed(e) \in Nat /\ InEv(e) \in Nat
  BY FS_CardinalityType DEF PlaceInv, FinitePlaces, InCall, InTimed, InEv
<1>2. \A S : \A q \in Seq(S) : Occurrences(q, e) \in Nat
  <2> SUFFICES ASSUME NEW S, NEW q \in Seq(S) PROVE Occurrences(q, e) \in Nat
    OBVIOUS
  <2>1. Len(q) \in Nat
    OBVIOUS
  <2>2. IsFiniteSet(1 .. Len(q))
    BY <2>1, FS_Interval
  <2>3. QED BY <2>2, FS_Subset, FS_CardinalityType DEF Occurrences
<1>3. events \in Seq(Message) /\ rxEvents[e.dst] \in Seq(WorkEvents)
  BY WorkFacts DEF IInv, TypeOK, TypeTimer, TypeNode
<1>4. InChan(e) \in Nat /\ InRx(e) \in Nat
  BY <1>2, <1>3 DEF InChan, InRx
<1>5. QED BY <1>1, <1>4 DEF InDisp, InRun, InDone

(* A work event is none of the other messages, no node and not None.       *)
LEMMA WorkDiffers ==
  ASSUME NEW e \in WorkEvents
  PROVE  /\ e # Interrupt /\ e # QuitEvent /\ e # None /\ Idle.arg # e
         /\ \A n \in Nodes : e # n /\ e # ResumeOf(n)
BY EventLoopAssumption
   DEF WorkEvents, Interrupt, QuitEvent, ResumeOf, Idle

(* A caller's pending call is replaced.                                    *)
LEMMA CallsChange ==
  ASSUME IInv, PlaceInv, NEW c \in Callers, NEW v, call' = [call EXCEPT ![c] = v],
         NEW e \in WorkEvents
  PROVE  /\ IsFiniteSet(Calls(e)')
         /\ InCall(e)' = InCall(e) + (IF v.arg = e THEN 1 ELSE 0)
                                   - (IF call[c].arg = e THEN 1 ELSE 0)
         /\ call[c].arg = e => InCall(e) > 0
<1>0. \A d \in Callers : call'[d] = IF d = c THEN v ELSE call[d]
  BY DEF IInv, TypeOK, TypeCall
<1> DEFINE A == Calls(e)
           A1 == A \ {c}
           B == {d \in Callers : call'[d].arg = e}
<1>1. IsFiniteSet(A) /\ Cardinality(A) \in Nat
  BY FS_CardinalityType DEF PlaceInv, FinitePlaces
<1>2. c \in A <=> call[c].arg = e
  BY DEF Calls
<1>3. B = IF v.arg = e THEN A1 \cup {c} ELSE A1
  BY <1>0 DEF Calls
<1>4. Calls(e)' = B
  BY DEF Calls
<1>5. c \notin A1
  OBVIOUS
<1> HIDE DEF B, A
<1>6. /\ IsFiniteSet(A1)
      /\ Cardinality(A1) = IF c \in A THEN Cardinality(A) - 1 ELSE Cardinality(A)
  BY <1>1, FS_RemoveElement
<1>7. c \in A => Cardinality(A) > 0
  <2>1. ASSUME c \in A PROVE Cardinality(A) # 0
    BY <1>1, <2>1, FS_EmptySet
  <2>2. QED BY <1>1, <2>1
<1>8. Cardinality(A1) \in Nat
  BY <1>6, FS_CardinalityType
<1> HIDE DEF A1
<1>9. /\ IsFiniteSet(B)
      /\ Cardinality(B) = Cardinality(A1) + (IF v.arg = e THEN 1 ELSE 0)
  <2>1. CASE v.arg = e
    BY <1>3, <1>5, <1>6, <1>8, <2>1, FS_AddElement
  <2>2. CASE v.arg # e
    BY <1>3, <1>6, <1>8, <2>2
  <2>3. QED BY <2>1, <2>2
<1>10. InCall(e)' = Cardinality(B) /\ InCall(e) = Cardinality(A)
  BY <1>4 DEF InCall, A
<1>11. QED BY <1>1, <1>2, <1>4, <1>6, <1>7, <1>8, <1>9, <1>10

(* An event is added to the timed pool.                                    *)
LEMMA TimedAdd ==
  ASSUME IInv, PlaceInv, NEW t, NEW m, timed' = timed \cup {[t |-> t, e |-> m]},
         NEW e \in WorkEvents, m = e => InTimed(e) = 0
  PROVE  /\ IsFiniteSet(InPool(timed, e)')
         /\ InTimed(e)' = InTimed(e) + (IF m = e THEN 1 ELSE 0)
<1> DEFINE A == InPool(timed, e)
           r == [t |-> t, e |-> m]
<1>1. IsFiniteSet(A) /\ Cardinality(A) \in Nat /\ InTimed(e) = Cardinality(A)
  BY FS_CardinalityType DEF PlaceInv, FinitePlaces, InTimed
<1>2. InPool(timed, e)' = InPool(timed', e)
  BY DEF InPool
<1>3. r.e = m
  OBVIOUS
<1>4. CASE m = e
  <2>1. A = {}
    BY <1>1, <1>4, FS_EmptySet
  <2>2. InPool(timed', e) = {r}
    BY <1>3, <1>4, <2>1 DEF InPool
  <2>3. IsFiniteSet({r}) /\ Cardinality({r}) = 1
    BY FS_Singleton
  <2>4. InTimed(e)' = 1 /\ IsFiniteSet(InPool(timed, e)')
    BY <1>2, <2>2, <2>3 DEF InTimed
  <2>5. QED BY <1>4, <2>4
<1>5. CASE m # e
  <2>1. InPool(timed', e) = A
    BY <1>3, <1>5 DEF InPool
  <2> HIDE DEF A
  <2>2. QED BY <1>1, <1>2, <1>5, <2>1 DEF InTimed
<1>6. QED BY <1>4, <1>5

(* signalEvent puts the event in one place.                                *)
LEMMA SignalPlaces ==
  ASSUME IInv, PlaceInv, NEW m \in Message, SignalEvent(m),
         NEW e \in WorkEvents, m = e => InTimed(e) = 0
  PROVE  /\ IsFiniteSet(InPool(timed, e)')
         /\ InChan(e)' + InTimed(e)' = InChan(e) + InTimed(e) + (IF m = e THEN 1 ELSE 0)
         /\ InChan(e)' \in Nat /\ InTimed(e)' \in Nat
<1>1. InChan(e) \in Nat /\ InTimed(e) \in Nat /\ events \in Seq(Message)
  BY PlaceFacts DEF IInv, TypeOK, TypeTimer
<1>2. CASE events' = Queue(events, m) /\ UNCHANGED timed
  <2>1. InTimed(e)' = InTimed(e) /\ IsFiniteSet(InPool(timed, e)')
    BY <1>2 DEF InTimed, InPool, PlaceInv, FinitePlaces
  <2>2. InChan(e)' = InChan(e) + (IF m = e THEN 1 ELSE 0) /\ InChan(e)' \in Nat
    BY <1>1, <1>2, OccurrencesAppend DEF InChan, Queue
  <2>3. QED BY <1>1, <2>1, <2>2
<1>3. CASE timed' = timed \cup {[t |-> now + 1, e |-> m]} /\ UNCHANGED events
  <2>1. InTimed(e)' = InTimed(e) + (IF m = e THEN 1 ELSE 0)
        /\ IsFiniteSet(InPool(timed, e)')
    BY <1>3, TimedAdd
  <2>2. InChan(e)' = InChan(e)
    BY <1>3 DEF InChan, Occurrences
  <2>3. QED BY <1>1, <2>1, <2>2
<1>4. QED BY <1>2, <1>3 DEF SignalEvent, Defer

(* Places whose variable does not change.                                  *)
LEMMA PlaceFrame ==
  ASSUME NEW e \in WorkEvents
  PROVE  /\ UNCHANGED call => InCall(e)' = InCall(e) /\ Calls(e)' = Calls(e)
         /\ UNCHANGED events => InChan(e)' = InChan(e)
         /\ UNCHANGED timed => InTimed(e)' = InTimed(e) /\ InPool(timed, e)' = InPool(timed, e)
         /\ UNCHANGED ev => InEv(e)' = InEv(e) /\ InPool(ev, e)' = InPool(ev, e)
         /\ UNCHANGED disp => InDisp(e)' = InDisp(e)
         /\ UNCHANGED rxEvents => InRx(e)' = InRx(e)
         /\ UNCHANGED currentEvent => InRun(e)' = InRun(e)
         /\ UNCHANGED done => InDone(e)' = InDone(e)
BY DEF InCall, InChan, InTimed, InEv, InDisp, InRx, InRun, InDone, Calls, InPool,
       Occurrences

(* The event is in one place if it was issued, and in none otherwise.      *)
PlaceOK(e) == FinitePlaces(e) /\ PlaceSum(e) = IF e \in issued THEN 1 ELSE 0

(* Calls: the event passes from the caller to the channel or the pool.     *)
LEMMA PlaceCall ==
  ASSUME IInv, PlaceInv, NEW c \in Callers, Call(c), NEW e \in WorkEvents
  PROVE  PlaceOK(e)'
<1>0. /\ InCall(e) \in Nat /\ InChan(e) \in Nat /\ InTimed(e) \in Nat /\ InEv(e) \in Nat
      /\ InDisp(e) \in {0, 1} /\ InRx(e) \in Nat /\ InRun(e) \in {0, 1}
      /\ InDone(e) \in {0, 1}
  BY PlaceFacts
<1>1. /\ PlaceSum(e) = IF e \in issued THEN 1 ELSE 0
      /\ FinitePlaces(e)
  BY DEF PlaceInv
<1>2. UNCHANGED <<ev, disp, rxEvents, currentEvent, done>>
  BY CallFrame DEF loopVars, chanVars
<1>3. /\ InEv(e)' = InEv(e) /\ InDisp(e)' = InDisp(e) /\ InRx(e)' = InRx(e)
      /\ InRun(e)' = InRun(e) /\ InDone(e)' = InDone(e)
      /\ IsFiniteSet(InPool(ev, e)')
  BY <1>1, <1>2, PlaceFrame DEF FinitePlaces
<1>4. ASSUME UNCHANGED <<events, timed>>
      PROVE  InChan(e)' = InChan(e) /\ InTimed(e)' = InTimed(e)
             /\ IsFiniteSet(InPool(timed, e)')
  BY <1>1, <1>4, PlaceFrame DEF FinitePlaces
<1>5. ASSUME NEW f \in Events, BeginSignal(c, f) PROVE PlaceOK(e)'
  <2>1. /\ call[c] = Idle /\ f \notin issued /\ issued' = issued \cup {f}
        /\ UNCHANGED <<events, timed>>
    BY <1>5 DEF BeginSignal, MayCall, timerVars
  <2>2. PICK o : call' = [call EXCEPT ![c] = [op |-> o, arg |-> f]]
    BY <1>5 DEF BeginSignal
  <2>3. /\ IsFiniteSet(Calls(e)')
        /\ InCall(e)' = InCall(e) + (IF f = e THEN 1 ELSE 0)
                                  - (IF Idle.arg = e THEN 1 ELSE 0)
    <3>1. [op |-> o, arg |-> f].arg = f
      OBVIOUS
    <3>2. QED BY <2>1, <2>2, <3>1, CallsChange, ZenonT(40)
  <2>4. InCall(e)' = InCall(e) + (IF f = e THEN 1 ELSE 0)
    BY <1>0, <2>3, WorkDiffers
  <2>5. CASE f = e
    <3>1. PlaceSum(e) = 0 /\ InCall(e)' = InCall(e) + 1
      BY <1>1, <2>1, <2>4, <2>5
    <3>2. PlaceSum(e)' = 1
      BY <1>0, <1>3, <1>4, <2>1, <3>1 DEF PlaceSum
    <3>3. e \in issued'
      BY <2>1, <2>5
    <3>4. QED BY <1>3, <1>4, <2>1, <2>3, <3>2, <3>3 DEF PlaceOK, FinitePlaces
  <2>6. CASE f # e
    <3>1. InCall(e)' = InCall(e) /\ (e \in issued' <=> e \in issued)
      BY <1>0, <2>1, <2>4, <2>6
    <3>2. PlaceSum(e)' = PlaceSum(e)
      BY <1>0, <1>3, <1>4, <2>1, <3>1 DEF PlaceSum
    <3>3. QED BY <1>1, <1>3, <1>4, <2>1, <2>3, <3>1, <3>2 DEF PlaceOK, FinitePlaces
  <2>7. QED BY <2>5, <2>6
<1>6. CASE StartHandlerOnce(c)
  <2>1. /\ call[c].op = "once" /\ call' = [call EXCEPT ![c] = [call[c] EXCEPT !.op = "send"]]
        /\ UNCHANGED <<events, timed, issued>>
    BY <1>6 DEF StartHandlerOnce, timerVars
  <2>2. call[c] = [op |-> "once", arg |-> call[c].arg]
    BY <2>1, CallArg
  <2>3. [call[c] EXCEPT !.op = "send"] = [op |-> "send", arg |-> call[c].arg]
    BY <2>2
  <2>4. call' = [call EXCEPT ![c] = [op |-> "send", arg |-> call[c].arg]]
    BY <2>1, <2>3
  <2>5. /\ IsFiniteSet(Calls(e)')
        /\ InCall(e)' = InCall(e) + (IF call[c].arg = e THEN 1 ELSE 0)
                                  - (IF call[c].arg = e THEN 1 ELSE 0)
    <3>1. [op |-> "send", arg |-> call[c].arg].arg = call[c].arg
      OBVIOUS
    <3>2. QED BY <2>4, <3>1, CallsChange, ZenonT(40)
  <2>6. InCall(e)' = InCall(e)
    BY <1>0, <2>5
  <2>7. PlaceSum(e)' = PlaceSum(e)
    BY <1>3, <1>4, <2>1, <2>6 DEF PlaceSum
  <2>8. QED BY <1>1, <1>3, <1>4, <2>1, <2>5, <2>7 DEF PlaceOK, FinitePlaces
<1>7. CASE EndSignal(c)
  <2>0. PICK m : m = call[c].arg
    OBVIOUS
  <2>1. /\ call' = [call EXCEPT ![c] = Idle] /\ UNCHANGED issued
        /\ SignalEvent(m) \/ SignalEventAfter(m)
        /\ call[c].op = "send"
    BY <1>7, <2>0 DEF EndSignal
  <2>2. m \in Message
    BY <2>0, <2>1, CallArg DEF Message
  <2>3. /\ IsFiniteSet(Calls(e)')
        /\ InCall(e)' = InCall(e) + (IF Idle.arg = e THEN 1 ELSE 0)
                                  - (IF m = e THEN 1 ELSE 0)
        /\ m = e => InCall(e) > 0
    BY <2>0, <2>1, CallsChange
  <2>4. InCall(e)' = InCall(e) - (IF m = e THEN 1 ELSE 0)
    BY <1>0, <2>3, WorkDiffers
  <2>5. m = e => InTimed(e) = 0
    <3>1. ASSUME m = e PROVE InTimed(e) = 0
      <4>1. PlaceSum(e) <= 1 /\ InCall(e) > 0
        BY <1>1, <2>3, <3>1
      <4>2. QED BY <1>0, <4>1 DEF PlaceSum
    <3>2. QED BY <3>1
  <2>6. /\ IsFiniteSet(InPool(timed, e)')
        /\ InChan(e)' + InTimed(e)' = InChan(e) + InTimed(e) + (IF m = e THEN 1 ELSE 0)
        /\ InChan(e)' \in Nat /\ InTimed(e)' \in Nat
    <3>1. CASE SignalEvent(m)
      BY <2>2, <2>5, <3>1, SignalPlaces
    <3>2. CASE SignalEventAfter(m)
      <4>1. UNCHANGED events /\ timed' = timed \cup {[t |-> now + m.secs, e |-> m]}
        BY <3>2 DEF SignalEventAfter
      <4>2. /\ IsFiniteSet(InPool(timed, e)')
            /\ InTimed(e)' = InTimed(e) + (IF m = e THEN 1 ELSE 0)
        BY <2>5, <4>1, TimedAdd
      <4>3. InChan(e)' = InChan(e)
        BY <4>1, PlaceFrame
      <4>4. QED BY <1>0, <4>2, <4>3
    <3>3. QED BY <2>1, <3>1, <3>2
  <2>7. PlaceSum(e)' = PlaceSum(e)
    <3>1. CASE m = e
      <4>1. InCall(e)' = InCall(e) - 1
            /\ InChan(e)' + InTimed(e)' = InChan(e) + InTimed(e) + 1
        BY <2>4, <2>6, <3>1
      <4>2. QED BY <1>0, <1>3, <2>6, <4>1 DEF PlaceSum
    <3>2. CASE m # e
      <4>1. InCall(e)' = InCall(e) /\ InChan(e)' + InTimed(e)' = InChan(e) + InTimed(e)
        BY <1>0, <2>4, <2>6, <3>2
      <4>2. QED BY <1>0, <1>3, <2>6, <4>1 DEF PlaceSum
    <3>3. QED BY <3>1, <3>2
  <2>8. QED BY <1>1, <1>3, <2>1, <2>3, <2>6, <2>7 DEF PlaceOK, FinitePlaces
<1>8. ASSUME NEW n \in Nodes, Resume(c, n) PROVE PlaceOK(e)'
  <2>1. /\ call[c] = Idle /\ call' = [call EXCEPT ![c] = [op |-> "resume", arg |-> n]]
        /\ UNCHANGED <<events, timed, issued>>
    BY <1>8 DEF Resume, MayCall, timerVars
  <2>2. /\ IsFiniteSet(Calls(e)')
        /\ InCall(e)' = InCall(e) + (IF n = e THEN 1 ELSE 0)
                                  - (IF Idle.arg = e THEN 1 ELSE 0)
    <3>1. [op |-> "resume", arg |-> n].arg = n
      OBVIOUS
    <3>2. QED BY <2>1, <3>1, CallsChange
  <2>3. InCall(e)' = InCall(e)
    BY <1>0, <2>2, WorkDiffers
  <2>4. PlaceSum(e)' = PlaceSum(e)
    BY <1>3, <1>4, <2>1, <2>3 DEF PlaceSum
  <2>5. QED BY <1>1, <1>3, <1>4, <2>1, <2>2, <2>4 DEF PlaceOK, FinitePlaces
<1>9. CASE SendResume(c)
  <2>0. PICK n : n = call[c].arg
    OBVIOUS
  <2>a. n \in Nodes
    BY <1>9, <2>0, CallArg DEF SendResume
  <2>1. /\ call' = [call EXCEPT ![c] = Idle] /\ UNCHANGED <<issued, timed>>
        /\ events' = Append(events, ResumeOf(n))
    BY <1>9, <2>0 DEF SendResume, timerVars
  <2>2. /\ IsFiniteSet(Calls(e)')
        /\ InCall(e)' = InCall(e) + (IF Idle.arg = e THEN 1 ELSE 0)
                                  - (IF call[c].arg = e THEN 1 ELSE 0)
    <3>1. call' = [call EXCEPT ![c] = Idle]
      BY <2>1
    <3>2. QED BY <3>1, CallsChange
  <2>3. InCall(e)' = InCall(e)
    BY <1>0, <2>0, <2>2, <2>a, WorkDiffers
  <2>4. InChan(e)' = InChan(e)
    <3>1. events \in Seq(Message) /\ ResumeOf(n) \in Message /\ ResumeOf(n) # e
      BY <2>a, OtherMessages, WorkDiffers DEF IInv, TypeOK, TypeTimer
    <3>2. InChan(e)' = InChan(e) + (IF ResumeOf(n) = e THEN 1 ELSE 0)
      BY <2>1, <3>1, OccurrencesAppend DEF InChan
    <3>3. QED BY <1>0, <3>1, <3>2
  <2>5. InTimed(e)' = InTimed(e) /\ IsFiniteSet(InPool(timed, e)')
    BY <1>1, <2>1, PlaceFrame DEF FinitePlaces
  <2>6. PlaceSum(e)' = PlaceSum(e)
    BY <1>3, <2>3, <2>4, <2>5 DEF PlaceSum
  <2>7. QED BY <1>1, <1>3, <2>1, <2>2, <2>5, <2>6 DEF PlaceOK, FinitePlaces
<1>10. QED BY <1>5, <1>6, <1>7, <1>8, <1>9 DEF Call

(* Handlers: the event passes from the node's channel to the handler, and  *)
(* is done when its action returned or panicked.                           *)
LEMMA PlaceHandler ==
  ASSUME IInv, PlaceInv, NEW n \in Nodes, Handler(n) \/ HandlerTimeout(n),
         NEW e \in WorkEvents
  PROVE  PlaceOK(e)'
<1>0. /\ InCall(e) \in Nat /\ InChan(e) \in Nat /\ InTimed(e) \in Nat /\ InEv(e) \in Nat
      /\ InDisp(e) \in {0, 1} /\ InRx(e) \in Nat /\ InRun(e) \in {0, 1}
      /\ InDone(e) \in {0, 1}
  BY PlaceFacts
<1>1. /\ PlaceSum(e) = IF e \in issued THEN 1 ELSE 0
      /\ FinitePlaces(e)
  BY DEF PlaceInv
<1>2. UNCHANGED <<call, issued, events, timed, ev, disp>>
  BY HandlerFrame DEF loopVars, callVars, timerVars
<1>3. /\ InCall(e)' = InCall(e) /\ InChan(e)' = InChan(e) /\ InTimed(e)' = InTimed(e)
      /\ InEv(e)' = InEv(e) /\ InDisp(e)' = InDisp(e)
      /\ FinitePlaces(e)'
  BY <1>1, <1>2, PlaceFrame DEF FinitePlaces
<1>4. ASSUME InRx(e)' + InRun(e)' + InDone(e)' = InRx(e) + InRun(e) + InDone(e),
             InRx(e)' \in Nat, InRun(e)' \in Nat, InDone(e)' \in Nat
      PROVE  PlaceOK(e)'
  <2>1. PlaceSum(e)' = PlaceSum(e)
    BY <1>0, <1>3, <1>4 DEF PlaceSum
  <2>2. QED BY <1>1, <1>2, <1>3, <2>1 DEF PlaceOK
<1>5. e.dst \in Nodes /\ currentEvent \in [Nodes -> WorkEvents \cup {None}]
      /\ rxEvents \in [Nodes -> Seq(WorkEvents)] /\ e # None
  BY WorkFacts DEF IInv, TypeOK, TypeHandler, TypeNode
<1>6. CASE UNCHANGED <<rxEvents, currentEvent, done>>
  BY <1>0, <1>4, <1>6, PlaceFrame
<1>7. CASE ReceiveEvent(n)
  <2>0. PICK q : q = rxEvents[n]
    OBVIOUS
  <2>1. /\ hpc[n] = "recv" /\ q # <<>> /\ q \in Seq(WorkEvents)
        /\ currentEvent' = [currentEvent EXCEPT ![n] = Head(q)]
        /\ rxEvents' = [rxEvents EXCEPT ![n] = Tail(q)]
        /\ UNCHANGED done
    BY <1>5, <1>7, <2>0 DEF ReceiveEvent, histVars
  <2>2. currentEvent[n] = None
    BY <2>1 DEF IInv, CountInv
  <2>3. InDone(e)' = InDone(e)
    BY <2>1, PlaceFrame
  <2>4. CASE e.dst = n
    <3>1. InRx(e) = Occurrences(q, e)
      BY <2>0, <2>4 DEF InRx
    <3>2. InRx(e)' = Occurrences(Tail(q), e)
      BY <1>5, <2>1, <2>4 DEF InRx
    <3>3. InRx(e) = InRx(e)' + (IF Head(q) = e THEN 1 ELSE 0) /\ InRx(e)' \in Nat
      BY <2>1, <3>1, <3>2, OccurrencesTail
    <3>4. InRun(e) = 0 /\ InRun(e)' = IF Head(q) = e THEN 1 ELSE 0
      BY <1>5, <2>1, <2>2, <2>4 DEF InRun
    <3>5. QED BY <1>0, <1>4, <2>3, <3>3, <3>4
  <2>5. CASE e.dst # n
    <3>1. currentEvent'[e.dst] = currentEvent[e.dst] /\ rxEvents'[e.dst] = rxEvents[e.dst]
      BY <1>5, <2>1, <2>5
    <3>2. InRx(e)' = InRx(e) /\ InRun(e)' = InRun(e)
      BY <3>1 DEF InRx, InRun
    <3>3. QED BY <1>0, <1>4, <2>3, <3>2
  <2>6. QED BY <2>4, <2>5
<1>8. ASSUME NEW next, EventDone(n, next) PROVE PlaceOK(e)'
  <2>1. /\ hpc[n] = "run" /\ done' = done \cup {currentEvent[n]}
        /\ currentEvent' = [currentEvent EXCEPT ![n] = None]
        /\ UNCHANGED rxEvents
    BY <1>8 DEF EventDone
  <2>2. currentEvent[n] # None
    BY <2>1 DEF IInv, CountInv
  <2>3. InRx(e)' = InRx(e)
    BY <2>1, PlaceFrame
  <2>4. CASE currentEvent[n] = e
    <3>1. e.dst = n
      BY <2>2, <2>4 DEF PlaceInv
    <3>2. InRun(e) = 1 /\ InRun(e)' = 0 /\ InDone(e)' = 1
      BY <1>5, <2>1, <2>4, <3>1 DEF InRun, InDone
    <3>3. InDone(e) = 0
      <4>1. PlaceSum(e) <= 1
        BY <1>1
      <4>2. QED BY <1>0, <3>2, <4>1 DEF PlaceSum
    <3>4. QED BY <1>0, <1>4, <2>3, <3>2, <3>3
  <2>5. CASE currentEvent[n] # e
    <3>1. InDone(e)' = InDone(e)
      BY <2>1, <2>5 DEF InDone
    <3>2. InRun(e)' = InRun(e)
      BY <1>5, <2>1, <2>5 DEF InRun
    <3>3. QED BY <1>0, <1>4, <2>3, <3>1, <3>2
  <2>6. QED BY <2>4, <2>5
<1>9. QED BY <1>6, <1>7, <1>8
          DEF Handler, HandlerTimeout, WaitLoop, FinishEvent, PanicHandler, Suspend,
              SignalSuspended, WakeSuspended, chanVars, handlerVars, histVars

(* Other steps that change none of the places but some of three.           *)
LEMMA PlaceLoop ==
  ASSUME IInv, PlaceInv, LoopStep \/ WaitNodeTimeout, NEW e \in WorkEvents
  PROVE  PlaceOK(e)'
<1>0. /\ InCall(e) \in Nat /\ InChan(e) \in Nat /\ InTimed(e) \in Nat /\ InEv(e) \in Nat
      /\ InDisp(e) \in {0, 1} /\ InRx(e) \in Nat /\ InRun(e) \in {0, 1}
      /\ InDone(e) \in {0, 1}
  BY PlaceFacts
<1>1. /\ PlaceSum(e) = IF e \in issued THEN 1 ELSE 0
      /\ FinitePlaces(e)
  BY DEF PlaceInv
<1>2. UNCHANGED <<call, issued, currentEvent>>
  BY LoopFrame DEF callVars
<1>3. /\ InCall(e)' = InCall(e) /\ InRun(e)' = InRun(e) /\ IsFiniteSet(Calls(e)')
  BY <1>1, <1>2, PlaceFrame DEF FinitePlaces
<1>4. ASSUME InChan(e)' + InTimed(e)' + InEv(e)' + InDisp(e)' + InRx(e)'
               = InChan(e) + InTimed(e) + InEv(e) + InDisp(e) + InRx(e),
             InChan(e)' \in Nat, InTimed(e)' \in Nat, InEv(e)' \in Nat,
             InDisp(e)' \in Nat, InRx(e)' \in Nat, InDone(e)' = InDone(e),
             IsFiniteSet(InPool(timed, e)'), IsFiniteSet(InPool(ev, e)')
      PROVE  PlaceOK(e)'
  <2>1. PlaceSum(e)' = PlaceSum(e)
    BY <1>0, <1>3, <1>4 DEF PlaceSum
  <2>2. QED BY <1>1, <1>2, <1>3, <1>4, <2>1 DEF PlaceOK, FinitePlaces
<1>5. ASSUME UNCHANGED <<timed, ev>>
      PROVE  /\ InTimed(e)' = InTimed(e) /\ InEv(e)' = InEv(e)
             /\ IsFiniteSet(InPool(timed, e)') /\ IsFiniteSet(InPool(ev, e)')
  BY <1>1, <1>5, PlaceFrame DEF FinitePlaces
<1>6. CASE UNCHANGED <<events, timed, ev, disp, rxEvents, done>>
  BY <1>0, <1>4, <1>5, <1>6, PlaceFrame
<1>7. CASE ReceiveLoopEvent /\ lpc \in {"wait", "poll"}
  <2>0. PICK m : m = Head(events)
    OBVIOUS
  <2>1. /\ events # <<>> /\ events' = Tail(events) /\ events \in Seq(Message)
        /\ UNCHANGED <<timed, ev, rxEvents, done>> /\ DoNodeEvent(m)
    BY <1>7, <2>0 DEF ReceiveLoopEvent, timerVars, chanVars, histVars, IInv, TypeOK, TypeTimer
  <2>2. InChan(e) = InChan(e)' + (IF m = e THEN 1 ELSE 0) /\ InChan(e)' \in Nat
    BY <2>0, <2>1, OccurrencesTail DEF InChan
  <2>3. disp = None
    BY <1>7 DEF IInv, CountInv
  <2>4. InDisp(e) = 0 /\ InDisp(e)' = IF m = e THEN 1 ELSE 0
    <3>1. e # None /\ e.kind = "work"
      BY WorkFacts DEF WorkEvents
    <3>2. (disp' = disp /\ m.kind # "work") \/ disp' = m
      BY <2>1 DEF DoNodeEvent, QueueToNode
    <3>3. QED BY <2>3, <3>1, <3>2 DEF InDisp
  <2>5. InRx(e)' = InRx(e) /\ InDone(e)' = InDone(e)
    BY <2>1, PlaceFrame
  <2>6. QED BY <1>0, <1>4, <1>5, <2>1, <2>2, <2>4, <2>5, SMTT(40)
<1>8. CASE AdvanceAdd
  <2>1. /\ lpc = "advance" /\ ev' = Expired /\ timed' = timed \ Expired
        /\ UNCHANGED <<events, disp, rxEvents, done>>
    BY <1>8 DEF AdvanceAdd, Unexpired, chanVars, histVars
  <2>2. ev = {} /\ Expired \subseteq timed
    BY <2>1 DEF PlaceInv, Expired
  <2> DEFINE A == InPool(timed, e)
             B == InPool(timed \ Expired, e)
             C == InPool(Expired, e)
  <2>3. IsFiniteSet(A) /\ InTimed(e) = Cardinality(A)
    BY <1>1 DEF FinitePlaces, InTimed
  <2>4. B \cup C = A /\ B \cap C = {} /\ B \subseteq A /\ C \subseteq A
    BY <2>2 DEF InPool
  <2>5. InPool(ev, e) = {} /\ InPool(ev, e)' = C /\ InPool(timed, e)' = B
    BY <2>1, <2>2 DEF InPool
  <2>6. InEv(e) = 0 /\ InEv(e)' = Cardinality(C) /\ InTimed(e)' = Cardinality(B)
    BY <2>5, FS_EmptySet DEF InEv, InTimed
  <2> HIDE DEF A, B, C
  <2>7. /\ IsFiniteSet(B) /\ IsFiniteSet(C)
        /\ Cardinality(B) \in Nat /\ Cardinality(C) \in Nat
    BY <2>3, <2>4, FS_Subset, FS_CardinalityType
  <2>8. Cardinality(A) = Cardinality(B) + Cardinality(C)
    <3>1. Cardinality(B \cup C) = Cardinality(B) + Cardinality(C) - Cardinality(B \cap C)
      BY <2>7, FS_Union
    <3>2. Cardinality(B \cap C) = 0
      BY <2>4, FS_EmptySet
    <3>3. Cardinality(B \cup C) = Cardinality(A)
      BY <2>4, Zenon
    <3>4. QED BY <2>7, <3>1, <3>2, <3>3
  <2>9. /\ InChan(e)' = InChan(e) /\ InDisp(e)' = InDisp(e) /\ InRx(e)' = InRx(e)
        /\ InDone(e)' = InDone(e)
    BY <2>1, PlaceFrame
  <2>10. QED BY <1>0, <1>4, <2>3, <2>5, <2>6, <2>7, <2>8, <2>9
<1>9. ASSUME NEW x \in ev, ExpireEvent(x) PROVE PlaceOK(e)'
  <2>0. PICK m : m = x.e
    OBVIOUS
  <2>1. /\ lpc = "expire" /\ ev' = ev \ {x} /\ UNCHANGED rxEvents
        /\ \/ m.kind = "work" /\ QueueToNode(m) /\ UNCHANGED <<events, timed, done>>
           \/ /\ m.kind = "quitAfter" /\ SignalEvent(QuitEvent) /\ UNCHANGED disp
              /\ done' = done \cup {m}
           \/ /\ m.kind \in {"quit", "interrupt"} /\ UNCHANGED <<disp, events, timed>>
              /\ done' = IF m \in Events THEN done \cup {m} ELSE done
    BY <1>9, <2>0 DEF ExpireEvent, chanVars, histVars
  <2>2. disp = None /\ e # None /\ e.kind = "work"
    BY <2>1, WorkFacts DEF IInv, CountInv, WorkEvents
  <2>3. m \in Message
    BY <2>0 DEF IInv, TypeOK, TypeLoop, TimedEvent
  <2> DEFINE A == InPool(ev, e)
  <2>4. IsFiniteSet(A) /\ Cardinality(A) \in Nat /\ InEv(e) = Cardinality(A)
    BY <1>1, FS_CardinalityType DEF FinitePlaces, InEv
  <2>5. InPool(ev, e)' = A \ {x} /\ (x \in A <=> m = e)
    BY <2>0, <2>1 DEF InPool
  <2> HIDE DEF A
  <2>6. /\ IsFiniteSet(InPool(ev, e)')
        /\ InEv(e)' = IF m = e THEN InEv(e) - 1 ELSE InEv(e)
        /\ InEv(e)' \in Nat
    <3>1. /\ IsFiniteSet(A \ {x})
          /\ Cardinality(A \ {x}) = IF x \in A THEN Cardinality(A) - 1 ELSE Cardinality(A)
      BY <2>4, FS_RemoveElement
    <3>2. InEv(e)' = Cardinality(A \ {x})
      BY <2>5 DEF InEv
    <3>3. Cardinality(A \ {x}) \in Nat
      BY <3>1, FS_CardinalityType
    <3>4. QED BY <2>4, <2>5, <3>1, <3>2, <3>3
  <2>7. InDone(e)' = InDone(e) /\ InRx(e)' = InRx(e)
    BY <2>1, <2>2, PlaceFrame DEF InDone
  <2>8. InDisp(e) = 0 /\ InDisp(e)' = IF m = e THEN 1 ELSE 0
    BY <2>1, <2>2 DEF InDisp, QueueToNode
  <2>9. /\ InChan(e)' + InTimed(e)' = InChan(e) + InTimed(e)
        /\ InChan(e)' \in Nat /\ InTimed(e)' \in Nat /\ IsFiniteSet(InPool(timed, e)')
    <3>1. CASE UNCHANGED <<events, timed>>
      BY <1>0, <1>1, <3>1, PlaceFrame DEF FinitePlaces
    <3>2. CASE SignalEvent(QuitEvent)
      <4>1. QuitEvent \in Message /\ QuitEvent # e
        BY OtherMessages, WorkDiffers
      <4>2. /\ IsFiniteSet(InPool(timed, e)')
            /\ InChan(e)' + InTimed(e)' = InChan(e) + InTimed(e)
                                          + (IF QuitEvent = e THEN 1 ELSE 0)
            /\ InChan(e)' \in Nat /\ InTimed(e)' \in Nat
        BY <3>2, <4>1, SignalPlaces
      <4>3. QED BY <1>0, <4>1, <4>2
    <3>3. QED BY <2>1, <3>1, <3>2
  <2>10. QED
    <3>1. CASE m = e
      <4>1. InEv(e)' = InEv(e) - 1 /\ InDisp(e) = 0 /\ InDisp(e)' = 1
        BY <2>6, <2>8, <3>1
      <4>2. InChan(e)' + InTimed(e)' + InEv(e)' + InDisp(e)' + InRx(e)'
              = InChan(e) + InTimed(e) + InEv(e) + InDisp(e) + InRx(e)
        BY <1>0, <2>6, <2>7, <2>9, <4>1
      <4>3. InDisp(e)' \in Nat /\ InRx(e)' \in Nat
        BY <1>0, <2>7, <4>1
      <4>4. QED BY <1>4, <2>6, <2>7, <2>9, <4>2, <4>3
    <3>2. CASE m # e
      <4>1. InEv(e)' = InEv(e) /\ InDisp(e) = 0 /\ InDisp(e)' = 0
        BY <2>6, <2>8, <3>2
      <4>2. InChan(e)' + InTimed(e)' + InEv(e)' + InDisp(e)' + InRx(e)'
              = InChan(e) + InTimed(e) + InEv(e) + InDisp(e) + InRx(e)
        BY <1>0, <2>6, <2>7, <2>9, <4>1
      <4>3. InDisp(e)' \in Nat /\ InRx(e)' \in Nat
        BY <1>0, <2>7, <4>1
      <4>4. QED BY <1>4, <2>6, <2>7, <2>9, <4>2, <4>3
    <3>3. QED BY <3>1, <3>2
<1>10. CASE SendRxEvent /\ started[disp.dst]
  <2>0. PICK m : m = disp
    OBVIOUS
  <2>1. /\ lpc = "sendRx" /\ rxEvents' = [rxEvents EXCEPT ![m.dst] = Append(@, m)]
        /\ disp' = None /\ UNCHANGED <<events, timed, ev, done>>
    BY <1>10, <2>0 DEF SendRxEvent, Queue, timerVars, histVars
  <2>2. m \in WorkEvents
    BY <2>0, <2>1 DEF IInv, TypeOK, TypeLoop, CountInv
  <2>3. m.dst \in Nodes /\ e.dst \in Nodes /\ e # None
        /\ rxEvents \in [Nodes -> Seq(WorkEvents)]
    BY <2>2, WorkFacts DEF IInv, TypeOK, TypeNode
  <2>4. InDisp(e) = (IF m = e THEN 1 ELSE 0) /\ InDisp(e)' = 0
    BY <2>0, <2>1, <2>3 DEF InDisp
  <2>5. InRx(e)' = InRx(e) + (IF m = e THEN 1 ELSE 0) /\ InRx(e)' \in Nat
    <3>0. PICK q : q = rxEvents[e.dst]
      OBVIOUS
    <3>1. q \in Seq(WorkEvents) /\ InRx(e) = Occurrences(q, e)
      BY <2>3, <3>0 DEF InRx
    <3>2. CASE e.dst = m.dst
      <4>1. rxEvents'[e.dst] = Append(q, m)
        BY <2>1, <2>3, <3>0, <3>2
      <4>2. InRx(e)' = Occurrences(Append(q, m), e)
        BY <4>1 DEF InRx
      <4>3. QED BY <2>2, <3>1, <4>2, OccurrencesAppend
    <3>3. CASE e.dst # m.dst
      <4>1. rxEvents'[e.dst] = rxEvents[e.dst]
        BY <2>1, <2>3, <3>3
      <4>2. InRx(e)' = InRx(e) /\ m # e
        BY <3>3, <4>1 DEF InRx
      <4>3. QED BY <1>0, <4>2
    <3>4. QED BY <3>2, <3>3
  <2>6. InChan(e)' = InChan(e) /\ InDone(e)' = InDone(e)
    BY <2>1, PlaceFrame
  <2>7. QED BY <1>0, <1>4, <1>5, <2>1, <2>4, <2>5, <2>6
<1>11. QED
  BY <1>6, <1>7, <1>8, <1>9, <1>10
     DEF LoopStep, DoEventWait, DoEventNoWait, SetEventWait, ArmTimer, WaitTimeout,
         ClearEventWait, AllExpired, SendRxEvent, SignalNode, WaitNode, InactivateNode,
         EndDoEvents, DoPollers, WaitNodeTimeout, loopVars, timerVars, chanVars, histVars

(* Data pollers and the runtime move no event.                             *)
LEMMA PlaceOutside ==
  ASSUME IInv, PlaceInv, (\E p \in Pollers : Poller(p)) \/ Tick \/ FireTimer,
         NEW e \in WorkEvents
  PROVE  PlaceOK(e)'
<1>0. /\ InCall(e) \in Nat /\ InChan(e) \in Nat /\ InTimed(e) \in Nat /\ InEv(e) \in Nat
      /\ InDisp(e) \in {0, 1} /\ InRx(e) \in Nat /\ InRun(e) \in {0, 1}
      /\ InDone(e) \in {0, 1}
  BY PlaceFacts
<1>1. /\ PlaceSum(e) = IF e \in issued THEN 1 ELSE 0
      /\ FinitePlaces(e)
  BY DEF PlaceInv
<1>2. UNCHANGED <<call, issued, ev, disp, rxEvents, currentEvent, done>>
  BY PollerFrame, RuntimeFrame DEF loopVars, chanVars, callVars, handlerVars, histVars
<1>3. /\ InCall(e)' = InCall(e) /\ InEv(e)' = InEv(e) /\ InDisp(e)' = InDisp(e)
      /\ InRx(e)' = InRx(e) /\ InRun(e)' = InRun(e) /\ InDone(e)' = InDone(e)
      /\ IsFiniteSet(Calls(e)') /\ IsFiniteSet(InPool(ev, e)')
  BY <1>1, <1>2, PlaceFrame DEF FinitePlaces
<1>4. /\ InChan(e)' + InTimed(e)' = InChan(e) + InTimed(e)
      /\ InChan(e)' \in Nat /\ InTimed(e)' \in Nat /\ IsFiniteSet(InPool(timed, e)')
  <2>1. CASE UNCHANGED <<events, timed>>
    BY <1>0, <1>1, <2>1, PlaceFrame DEF FinitePlaces
  <2>2. CASE SignalEvent(Interrupt)
    <3>1. Interrupt \in Message /\ Interrupt # e
      BY OtherMessages, WorkDiffers
    <3>2. /\ IsFiniteSet(InPool(timed, e)')
          /\ InChan(e)' + InTimed(e)' = InChan(e) + InTimed(e)
                                        + (IF Interrupt = e THEN 1 ELSE 0)
          /\ InChan(e)' \in Nat /\ InTimed(e)' \in Nat
      BY <2>2, <3>1, SignalPlaces
    <3>3. QED BY <1>0, <3>1, <3>2
  <2>3. QED BY <2>1, <2>2, RuntimeFrame DEF Poller, ChangeActive, InterruptLoop, timerVars
<1>5. PlaceSum(e)' = PlaceSum(e)
  BY <1>0, <1>3, <1>4 DEF PlaceSum
<1>6. QED BY <1>1, <1>2, <1>3, <1>4, <1>5 DEF PlaceOK, FinitePlaces

(* A node handles, and has queued, only the events sent to it.             *)
OwnChannel ==
  /\ \A n \in Nodes : currentEvent[n] # None => currentEvent[n].dst = n
  /\ \A n \in Nodes : \A k \in 1 .. Len(rxEvents[n]) : rxEvents[n][k].dst = n

(* The loop sends an event to the channel of its own node.                 *)
LEMMA OwnChannelStep ==
  ASSUME IInv, PlaceInv, Step PROVE OwnChannel'
<1>1. /\ OwnChannel /\ currentEvent \in [Nodes -> WorkEvents \cup {None}]
      /\ rxEvents \in [Nodes -> Seq(WorkEvents)]
  BY DEF PlaceInv, OwnChannel, IInv, TypeOK, TypeHandler, TypeNode
<1>2. CASE UNCHANGED <<currentEvent, rxEvents>>
  BY <1>1, <1>2 DEF OwnChannel
<1>3. ASSUME NEW n \in Nodes, ReceiveEvent(n) PROVE OwnChannel'
  <2>0. PICK q : q = rxEvents[n]
    OBVIOUS
  <2>1. /\ q # <<>> /\ q \in Seq(WorkEvents)
        /\ currentEvent' = [currentEvent EXCEPT ![n] = Head(q)]
        /\ rxEvents' = [rxEvents EXCEPT ![n] = Tail(q)]
    BY <1>1, <1>3, <2>0 DEF ReceiveEvent
  <2>2. /\ Len(q) \in Nat \ {0} /\ Head(q) = q[1] /\ Len(Tail(q)) = Len(q) - 1
        /\ \A k \in 1 .. Len(q) - 1 : Tail(q)[k] = q[k + 1]
    BY <2>1
  <2>3. \A k \in 1 .. Len(q) : q[k].dst = n
    BY <1>1, <2>0 DEF OwnChannel
  <2>4. Head(q).dst = n
    BY <2>2, <2>3
  <2>5. \A k \in 1 .. Len(Tail(q)) : Tail(q)[k].dst = n
    <3>1. ASSUME NEW k \in 1 .. Len(q) - 1 PROVE Tail(q)[k].dst = n
      <4>1. k + 1 \in 1 .. Len(q)
        BY <2>2
      <4>2. QED BY <2>2, <2>3, <4>1
    <3>2. QED BY <2>2, <3>1
  <2>6. \A m \in Nodes : m # n => currentEvent'[m] = currentEvent[m]
                                  /\ rxEvents'[m] = rxEvents[m]
    BY <1>1, <2>1
  <2>7. currentEvent'[n] = Head(q) /\ rxEvents'[n] = Tail(q)
    BY <1>1, <2>1
  <2>8. QED BY <1>1, <2>4, <2>5, <2>6, <2>7, ZenonT(40) DEF OwnChannel
<1>4. ASSUME NEW n \in Nodes, NEW next, EventDone(n, next) PROVE OwnChannel'
  BY <1>1, <1>4 DEF EventDone, OwnChannel
<1>5. CASE SendRxEvent /\ started[disp.dst]
  <2>0. PICK m : m = disp
    OBVIOUS
  <2>1. /\ lpc = "sendRx" /\ rxEvents' = [rxEvents EXCEPT ![m.dst] = Append(@, m)]
        /\ UNCHANGED currentEvent
    BY <1>5, <2>0 DEF SendRxEvent, Queue, handlerVars
  <2>2. m \in WorkEvents /\ m.dst \in Nodes
    BY <2>0, <2>1, WorkFacts DEF IInv, TypeOK, TypeLoop, CountInv
  <2>3. PICK q : q = rxEvents[m.dst]
    OBVIOUS
  <2>4. q \in Seq(WorkEvents) /\ rxEvents'[m.dst] = Append(q, m)
    BY <1>1, <2>1, <2>2, <2>3
  <2>5. \A k \in 1 .. Len(Append(q, m)) : Append(q, m)[k].dst = m.dst
    <3>1. /\ Len(q) \in Nat /\ Len(Append(q, m)) = Len(q) + 1
          /\ Append(q, m)[Len(q) + 1] = m
          /\ \A k \in 1 .. Len(q) : Append(q, m)[k] = q[k]
      BY <2>2, <2>4
    <3>2. \A k \in 1 .. Len(q) : q[k].dst = m.dst
      BY <1>1, <2>2, <2>3 DEF OwnChannel
    <3>3. \A k \in 1 .. Len(q) + 1 : k \in 1 .. Len(q) \/ k = Len(q) + 1
      BY <3>1
    <3>4. QED BY <3>1, <3>2, <3>3
  <2>6. \A n \in Nodes : n # m.dst => rxEvents'[n] = rxEvents[n]
    BY <1>1, <2>1, <2>2
  <2>7. QED BY <1>1, <2>1, <2>4, <2>5, <2>6 DEF OwnChannel
<1>6. QED
  <2>1. ASSUME NEW n \in Nodes, Handler(n) \/ HandlerTimeout(n) PROVE OwnChannel'
    BY <1>2, <1>3, <1>4, <2>1
       DEF Handler, HandlerTimeout, WaitLoop, FinishEvent, PanicHandler, Suspend,
           SignalSuspended, WakeSuspended, chanVars, handlerVars
  <2>2. CASE LoopStep \/ WaitNodeTimeout
    BY <1>2, <1>5, <2>2
       DEF LoopStep, DoEventWait, DoEventNoWait, ReceiveLoopEvent, SetEventWait, ArmTimer,
           WaitTimeout, ClearEventWait, AllExpired, AdvanceAdd, ExpireEvent, SendRxEvent,
           SignalNode, WaitNode, InactivateNode, EndDoEvents, DoPollers, WaitNodeTimeout,
           chanVars, handlerVars
  <2>3. CASE (\E c \in Callers : Call(c)) \/ (\E p \in Pollers : Poller(p)) \/ Tick \/ FireTimer
    BY <1>2, <2>3, CallFrame, PollerFrame, RuntimeFrame DEF chanVars, handlerVars
  <2>4. QED BY <2>1, <2>2, <2>3 DEF Step

(* The expired events wait only while doEvents takes them.                 *)
ExpiredInv == ev # {} => timeout /\ lpc \in {"expire", "sendRx", "stuck"}

(* doEvents takes all the expired events before it goes on.                *)
LEMMA ExpiredStep ==
  ASSUME IInv, PlaceInv, TimerInv, Step PROVE ExpiredInv'
<1>1. ExpiredInv
  BY DEF PlaceInv, ExpiredInv
<1>2. CASE UNCHANGED loopVars
  BY <1>1, <1>2 DEF loopVars, ExpiredInv
<1>3. CASE AdvanceAdd
  <2>1. timeout /\ timeout' = timeout /\ ev' = Expired
        /\ lpc' = IF Expired = {} THEN "crashed" ELSE "expire"
    BY <1>3 DEF AdvanceAdd, TimerInv
  <2>2. QED BY <2>1 DEF ExpiredInv
<1>4. ASSUME NEW x \in ev, ExpireEvent(x) PROVE ExpiredInv'
  BY <1>1, <1>4 DEF ExpireEvent, QueueToNode, ExpiredInv
<1>5. CASE SendRxEvent
  BY <1>1, <1>5 DEF SendRxEvent, AfterEvent, ExpiredInv
<1>6. CASE LoopStep /\ lpc \notin {"expire", "sendRx", "stuck", "advance"}
  <2>1. ev = {}
    BY <1>1, <1>6 DEF ExpiredInv
  <2>2. UNCHANGED ev
    BY <1>6 DEF LoopStep, DoEventWait, DoEventNoWait, ReceiveLoopEvent, SetEventWait,
           ArmTimer, WaitTimeout, ClearEventWait, AllExpired, AdvanceAdd, ExpireEvent,
           SendRxEvent, SignalNode, WaitNode, InactivateNode, EndDoEvents, DoPollers
  <2>3. QED BY <2>1, <2>2 DEF ExpiredInv
<1>7. CASE AllExpired
  BY <1>1, <1>7 DEF AllExpired, ExpiredInv
<1>8. CASE LoopStep
  BY <1>3, <1>4, <1>5, <1>6, <1>7, <1>8
     DEF LoopStep, DoEventWait, DoEventNoWait, SetEventWait, ArmTimer, WaitTimeout,
         ClearEventWait, SignalNode, WaitNode, InactivateNode, EndDoEvents, DoPollers
<1>9. QED
  BY <1>2, <1>8, CallFrame, PollerFrame, HandlerFrame, RuntimeFrame
     DEF Step, WaitNodeTimeout

(* Every step moves an event from one place to one other, or not at all.   *)
LEMMA PlaceStep == ASSUME IInv, TimerInv, PlaceInv, Step PROVE PlaceInv'
<1>1. ASSUME NEW e \in WorkEvents PROVE PlaceOK(e)'
  BY PlaceCall, PlaceHandler, PlaceLoop, PlaceOutside DEF Step
<1>2. \A e \in WorkEvents : FinitePlaces(e)' /\ (PlaceSum(e) = IF e \in issued THEN 1 ELSE 0)'
  BY <1>1 DEF PlaceOK
<1>3. OwnChannel' /\ ExpiredInv'
  BY OwnChannelStep, ExpiredStep
<1>4. QED BY <1>2, <1>3 DEF PlaceInv, OwnChannel, ExpiredInv

(* At first only the timed events of the boot are anywhere.                *)
LEMMA PlaceInit == ASSUME Init PROVE PlaceInv
<1>1. ASSUME NEW e \in WorkEvents
      PROVE FinitePlaces(e) /\ PlaceSum(e) = IF e \in issued THEN 1 ELSE 0
  <2>1. e # None /\ e.dst \in Nodes /\ Idle.arg # e
    BY WorkFacts, WorkDiffers
  <2>2. Calls(e) = {} /\ InPool(ev, e) = {}
    BY <2>1 DEF Init, Calls, InPool
  <2>3. InCall(e) = 0 /\ InEv(e) = 0 /\ IsFiniteSet(Calls(e)) /\ IsFiniteSet(InPool(ev, e))
    BY <2>2, FS_EmptySet DEF InCall, InEv
  <2>4. events = <<>> /\ rxEvents[e.dst] = <<>>
    BY <2>1 DEF Init
  <2>5. InChan(e) = 0 /\ InRx(e) = 0
    <3>1. {k \in 1 .. Len(<<>>) : <<>>[k] = e} = {}
      OBVIOUS
    <3>2. Occurrences(<<>>, e) = 0
      BY <3>1, FS_EmptySet DEF Occurrences
    <3>3. QED BY <2>4, <3>2 DEF InChan, InRx
  <2>6. InDisp(e) = 0 /\ InRun(e) = 0 /\ InDone(e) = 0
    BY <2>1 DEF Init, InDisp, InRun, InDone
  <2>7. IsFiniteSet(InPool(timed, e)) /\ InTimed(e) = IF e \in issued THEN 1 ELSE 0
    <3>1. InPool(timed, e) = IF e \in issued THEN {[t |-> e.secs, e |-> e]} ELSE {}
      BY DEF Init, InPool
    <3>2. QED BY <3>1, FS_EmptySet, FS_Singleton DEF InTimed
  <2>8. PlaceSum(e) = IF e \in issued THEN 1 ELSE 0
    BY <2>3, <2>5, <2>6, <2>7 DEF PlaceSum
  <2>9. QED BY <2>3, <2>7, <2>8 DEF FinitePlaces
<1>2. OwnChannel
  BY DEF Init, OwnChannel
<1>3. ev = {}
  BY DEF Init
<1>4. QED BY <1>1, <1>2, <1>3 DEF PlaceInv, OwnChannel

(* The inductive invariant of the places.                                  *)
THEOREM PlacesInductive == Spec => []PlaceInv
<1>1. Init => PlaceInv
  BY PlaceInit
<1>2. IInv /\ TimerInv /\ PlaceInv /\ [Next]_vars => PlaceInv'
  <2>1. ASSUME PlaceInv, UNCHANGED vars PROVE PlaceInv'
    <3>1. UNCHANGED <<call, issued, events, timed, ev, disp, rxEvents, currentEvent, done,
                      timeout, lpc>>
      BY <2>1 DEF vars, loopVars, chanVars, handlerVars, callVars, timerVars, histVars
    <3>2. ASSUME NEW e \in WorkEvents PROVE PlaceOK(e)'
      BY <2>1, <3>1, PlaceFrame DEF PlaceInv, PlaceOK, FinitePlaces, PlaceSum
    <3>3. \A e \in WorkEvents : FinitePlaces(e)' /\ (PlaceSum(e) = IF e \in issued THEN 1 ELSE 0)'
      BY <3>2 DEF PlaceOK
    <3>4. OwnChannel' /\ ExpiredInv'
      BY <2>1, <3>1 DEF PlaceInv, OwnChannel, ExpiredInv
    <3>5. QED BY <3>3, <3>4 DEF PlaceInv, OwnChannel, ExpiredInv
  <2>2. QED BY <2>1, PlaceStep DEF Next, Asleep, Exited
<1>3. QED BY <1>1, <1>2, Inductive, TimerCorrect, PTL DEF Spec

(* A signalled event is in exactly one place until its action has          *)
(* returned: signalEvent's overflow into the timed pool, expiry, the two   *)
(* channels, suspension and the recovery of a panic neither lose nor       *)
(* duplicate one, for every set of nodes, callers and events and every     *)
(* channel depth.                                                          *)
THEOREM Conservation == Spec => []EventConserved
<1>1. IInv /\ PlaceInv => EventConserved
  <2> SUFFICES ASSUME IInv, PlaceInv, NEW e \in WorkEvents
               PROVE  Places(e) = IF e \in issued THEN 1 ELSE 0
    BY DEF EventConserved, WorkEvents
  <2>0. /\ InCall(e) \in Nat /\ InChan(e) \in Nat /\ InTimed(e) \in Nat /\ InEv(e) \in Nat
        /\ InDisp(e) \in {0, 1} /\ InRx(e) \in Nat /\ InRun(e) \in {0, 1}
        /\ InDone(e) \in {0, 1}
    BY PlaceFacts
  <2>1. PlaceSum(e) = IF e \in issued THEN 1 ELSE 0
    BY DEF PlaceInv
  <2>2. Cardinality({x \in timed \cup ev : x.e = e}) = InTimed(e) + InEv(e)
    <3> DEFINE A == InPool(timed, e)
               B == InPool(ev, e)
    <3>1. {x \in timed \cup ev : x.e = e} = A \cup B
      BY DEF InPool
    <3>2. /\ IsFiniteSet(A) /\ IsFiniteSet(B) /\ Cardinality(A) = InTimed(e)
          /\ Cardinality(B) = InEv(e)
      BY DEF PlaceInv, FinitePlaces, InTimed, InEv
    <3>3. InTimed(e) = 0 \/ InEv(e) = 0
      <4>1. PlaceSum(e) <= 1
        BY <2>1
      <4>2. QED BY <2>0, <4>1 DEF PlaceSum
    <3> HIDE DEF A, B
    <3>4. CASE InTimed(e) = 0
      <4>1. A = {}
        BY <3>2, <3>4, FS_EmptySet
      <4>2. {x \in timed \cup ev : x.e = e} = B
        BY <3>1, <4>1
      <4>3. Cardinality({x \in timed \cup ev : x.e = e}) = Cardinality(B)
        BY <4>2, Zenon
      <4>4. QED BY <2>0, <3>2, <3>4, <4>3
    <3>5. CASE InEv(e) = 0
      <4>1. B = {}
        BY <3>2, <3>5, FS_EmptySet
      <4>2. {x \in timed \cup ev : x.e = e} = A
        BY <3>1, <4>1
      <4>3. Cardinality({x \in timed \cup ev : x.e = e}) = Cardinality(A)
        BY <4>2, Zenon
      <4>4. QED BY <2>0, <3>2, <3>5, <4>3
    <3>6. QED BY <3>3, <3>4, <3>5
  <2>3. e.dst # None
    BY WorkFacts, EventLoopAssumption
  <2>4. Places(e) = InCall(e) + InChan(e) + (InTimed(e) + InEv(e)) + InDisp(e)
                    + (InRx(e) + InRun(e)) + InDone(e)
    BY <2>2, <2>3 DEF Places, InCall, Calls, InChan, InDisp, InRx, InRun, InDone
  <2>5. QED BY <2>0, <2>1, <2>4 DEF PlaceSum
<1>2. QED BY <1>1, Inductive, PlacesInductive, PTL

-----------------------------------------------------------------------------
(* The order of the events of one caller to one node.                      *)
(* What is in a channel, and what comes before what in it.                 *)
In(q, f) == \E k \in 1 .. Len(q) : q[k] = f
Ahead(q, f, e) == \A k \in 1 .. Len(q) : q[k] = e => \E j \in 1 .. k - 1 : q[j] = f

(* The events whose action has begun; those that went through the channel. *)
Begun(e) == e \in done \/ currentEvent[e.dst] = e
Strict(e) == e \in Signalled \ Loose
Earlier(f, e) == f.src = e.src /\ f.dst = e.dst /\ f.id < e.id

(* f is ahead of e on the way from the event channel to the handler.       *)
Ordered(f, e) ==
  \/ Begun(f)
  \/ /\ ~Begun(e)
     /\ Ahead(rxEvents[e.dst], f, e)
     /\ disp = e => In(rxEvents[e.dst], f)
     /\ In(rxEvents[e.dst], f) \/ disp = f \/ Ahead(events, f, e)

(* A caller makes one call at a time, in the order of the ids.             *)
CallerInv ==
  /\ \A c \in Callers : call[c].arg \in WorkEvents => call[c].arg.src = c
  /\ \A e, f \in Events \ Boot :
       e \in issued /\ f.src = e.src /\ f.id < e.id => f \in issued
  /\ \A c \in Callers, e \in Events \ Boot :
       call[c].arg \in WorkEvents /\ e \in issued /\ e.src = c => e.id <= call[c].arg.id
  /\ \A c \in Callers : call[c].arg \in WorkEvents => call[c].arg \notin Boot

(* What is in the timed pool, or expired, is loose.                        *)
LooseInv ==
  \A x \in timed \cup ev : x.e \in WorkEvents => x.e \in deferred \/ x.e.secs > 0

(* Of two events of one caller to one node through the channel, the earlier*)
(* is ahead until it has begun.                                            *)
OrderInv ==
  /\ CallerInv
  /\ LooseInv
  /\ \A e, f \in WorkEvents : Strict(e) /\ Strict(f) /\ Earlier(f, e) => Ordered(f, e)

(* A send keeps what is ahead of what.                                     *)
LEMMA AheadAppend ==
  ASSUME NEW S, NEW q \in Seq(S), NEW m \in S, NEW f, NEW e
  PROVE  /\ Ahead(q, f, e) /\ (m = e => In(q, f)) => Ahead(Append(q, m), f, e)
         /\ In(q, f) => In(Append(q, m), f)
         /\ m = f => In(Append(q, m), f)
<1>1. /\ Len(q) \in Nat /\ Len(Append(q, m)) = Len(q) + 1
      /\ Append(q, m)[Len(q) + 1] = m
      /\ \A k \in 1 .. Len(q) : Append(q, m)[k] = q[k]
  OBVIOUS
<1>2. ASSUME Ahead(q, f, e), m = e => In(q, f), NEW k \in 1 .. Len(q) + 1,
             Append(q, m)[k] = e
      PROVE  \E j \in 1 .. k - 1 : Append(q, m)[j] = f
  <2>1. CASE k = Len(q) + 1
    <3>1. PICK j \in 1 .. Len(q) : q[j] = f
      BY <1>1, <1>2, <2>1 DEF In
    <3>2. j \in 1 .. k - 1
      BY <1>1, <2>1
    <3>3. QED BY <1>1, <3>1, <3>2
  <2>2. CASE k # Len(q) + 1
    <3>1. k \in 1 .. Len(q)
      BY <1>1, <2>2
    <3>2. PICK j \in 1 .. k - 1 : q[j] = f
      BY <1>1, <1>2, <3>1 DEF Ahead
    <3>3. j \in 1 .. Len(q)
      BY <1>1, <3>1
    <3>4. QED BY <1>1, <3>2, <3>3
  <2>3. QED BY <2>1, <2>2
<1>3. Ahead(q, f, e) /\ (m = e => In(q, f)) => Ahead(Append(q, m), f, e)
  BY <1>1, <1>2 DEF Ahead
<1>4. ASSUME In(q, f) PROVE In(Append(q, m), f)
  <2>1. PICK k \in 1 .. Len(q) : q[k] = f
    BY <1>4 DEF In
  <2>2. k \in 1 .. Len(Append(q, m)) /\ Append(q, m)[k] = f
    BY <1>1, <2>1
  <2>3. QED BY <2>2 DEF In
<1>5. ASSUME m = f PROVE In(Append(q, m), f)
  <2>1. Len(q) + 1 \in 1 .. Len(Append(q, m)) /\ Append(q, m)[Len(q) + 1] = f
    BY <1>1, <1>5
  <2>2. QED BY <2>1 DEF In
<1>6. QED BY <1>3, <1>4, <1>5

(* A receive takes the first.                                              *)
LEMMA AheadTail ==
  ASSUME NEW S, NEW q \in Seq(S), q # <<>>, NEW f, NEW e
  PROVE  /\ Ahead(q, f, e) => Head(q) # e
         /\ Ahead(q, f, e) /\ Head(q) # f => Ahead(Tail(q), f, e)
         /\ In(q, f) /\ Head(q) # f => In(Tail(q), f)
         /\ In(q, Head(q))
<1>1. /\ Len(q) \in Nat \ {0} /\ Len(Tail(q)) = Len(q) - 1 /\ Head(q) = q[1]
      /\ \A k \in 1 .. Len(q) - 1 : Tail(q)[k] = q[k + 1]
  OBVIOUS
<1>2. In(q, Head(q)) /\ (Ahead(q, f, e) => Head(q) # e)
  BY <1>1 DEF In, Ahead
<1>3. ASSUME NEW k \in 2 .. Len(q)
      PROVE  k - 1 \in 1 .. Len(q) - 1 /\ (k - 1) + 1 = k /\ Tail(q)[k - 1] = q[k]
  <2>1. k - 1 \in 1 .. Len(q) - 1 /\ (k - 1) + 1 = k
    BY <1>1
  <2>2. QED BY <1>1, <2>1
<1>4. ASSUME Ahead(q, f, e), Head(q) # f, NEW k \in 1 .. Len(q) - 1, Tail(q)[k] = e
      PROVE  \E j \in 1 .. k - 1 : Tail(q)[j] = f
  <2>1. k + 1 \in 1 .. Len(q) /\ q[k + 1] = e
    BY <1>1, <1>4
  <2>2. PICK j \in 1 .. (k + 1) - 1 : q[j] = f
    BY <1>4, <2>1 DEF Ahead
  <2>3. j # 1
    BY <1>1, <1>4, <2>2
  <2>4. j \in 2 .. Len(q) /\ j - 1 \in 1 .. k - 1
    BY <1>1, <2>1, <2>2, <2>3
  <2>5. QED BY <1>3, <2>2, <2>4
<1>5. Ahead(q, f, e) /\ Head(q) # f => Ahead(Tail(q), f, e)
  BY <1>1, <1>4 DEF Ahead
<1>6. ASSUME In(q, f), Head(q) # f PROVE In(Tail(q), f)
  <2>1. PICK k \in 1 .. Len(q) : q[k] = f
    BY <1>6 DEF In
  <2>2. k \in 2 .. Len(q)
    BY <1>1, <1>6, <2>1
  <2>3. QED BY <1>1, <1>3, <2>1, <2>2 DEF In
<1>7. QED BY <1>2, <1>5, <1>6

(* An occurrence is a position.                                            *)
LEMMA OccurrencesIn ==
  ASSUME NEW S, NEW q \in Seq(S), NEW f
  PROVE  Occurrences(q, f) # 0 <=> In(q, f)
<1> DEFINE A == {k \in 1 .. Len(q) : q[k] = f}
<1>1. Len(q) \in Nat
  OBVIOUS
<1>2. IsFiniteSet(1 .. Len(q))
  BY <1>1, FS_Interval
<1>3. IsFiniteSet(A)
  BY <1>2, FS_Subset
<1>4. A = {} <=> ~In(q, f)
  BY DEF In
<1> HIDE DEF A
<1>5. QED BY <1>3, <1>4, FS_EmptySet DEF Occurrences, A

(* Where a signalled event that went through the channel can be.           *)
LEMMA StrictPlaces ==
  ASSUME IInv, PlaceInv, OrderInv, NEW f \in WorkEvents, Strict(f)
  PROVE  Begun(f) \/ In(rxEvents[f.dst], f) \/ disp = f \/ In(events, f)
<1>1. f \in issued /\ Calls(f) = {} /\ ~(f \in deferred \/ f.secs > 0)
  BY DEF Strict, Signalled, Loose, Calls
<1>2. InPool(timed, f) = {} /\ InPool(ev, f) = {}
  BY <1>1 DEF OrderInv, LooseInv, InPool
<1>3. InCall(f) = 0 /\ InTimed(f) = 0 /\ InEv(f) = 0
  BY <1>1, <1>2, FS_EmptySet DEF InCall, InTimed, InEv
<1>4. PlaceSum(f) = 1
  BY <1>1 DEF PlaceInv
<1>5. InChan(f) # 0 \/ InDisp(f) # 0 \/ InRx(f) # 0 \/ InRun(f) # 0 \/ InDone(f) # 0
  <2>1. /\ InChan(f) \in Nat /\ InRx(f) \in Nat
        /\ InDisp(f) \in {0, 1} /\ InRun(f) \in {0, 1} /\ InDone(f) \in {0, 1}
    BY PlaceFacts
  <2>2. QED BY <1>3, <1>4, <2>1 DEF PlaceSum
<1>6. events \in Seq(Message) /\ rxEvents[f.dst] \in Seq(WorkEvents)
  BY WorkFacts DEF IInv, TypeOK, TypeTimer, TypeNode
<1>7. (InChan(f) # 0 <=> In(events, f)) /\ (InRx(f) # 0 <=> In(rxEvents[f.dst], f))
  BY <1>6, OccurrencesIn DEF InChan, InRx
<1>8. QED BY <1>5, <1>7 DEF InDisp, InRun, InDone, Begun

(* Steps that begin no call.                                               *)
LEMMA CallerQuiet ==
  ASSUME CallerInv, UNCHANGED issued,
         \A c \in Callers : call'[c].arg = call[c].arg \/ call'[c].arg \notin WorkEvents
  PROVE  CallerInv'
BY DEF CallerInv

(* Every step keeps the order of the calls of one caller.                  *)
LEMMA CallerStep == ASSUME IInv, OrderInv, Step PROVE CallerInv'
<1>0. CallerInv /\ call \in [Callers -> {Idle} \cup [op : {"once"}, arg : WorkEvents]
                                 \cup [op : {"send"}, arg : Events]
                                 \cup [op : {"resume"}, arg : Nodes]]
  BY DEF OrderInv, IInv, TypeOK, TypeCall
<1>1. CASE UNCHANGED callVars
  BY <1>0, <1>1, CallerQuiet DEF callVars
<1>2. ASSUME NEW c \in Callers, Call(c) PROVE CallerInv'
  <2>1. ASSUME NEW g \in Events, BeginSignal(c, g) PROVE CallerInv'
    <3>1. /\ call[c] = Idle /\ g.src = c /\ g \notin issued /\ g \notin Boot
          /\ \A f \in Events \ (issued \cup Boot) : f.src = c => g.id <= f.id
          /\ issued' = issued \cup {g}
      BY <2>1 DEF BeginSignal, MayCall
    <3>2. PICK o : call' = [call EXCEPT ![c] = [op |-> o, arg |-> g]]
      BY <2>1 DEF BeginSignal
    <3>3. call'[c].arg = g /\ \A d \in Callers : d # c => call'[d] = call[d]
      BY <1>0, <3>2
    <3>4. \A e \in Events : e.id \in Nat
      BY EventLoopAssumption
    <3>5. \A e, f \in Events \ Boot :
            e \in issued' /\ f.src = e.src /\ f.id < e.id => f \in issued'
      <4> SUFFICES ASSUME NEW e \in Events \ Boot, NEW f \in Events \ Boot,
                          e \in issued', f.src = e.src, f.id < e.id
                   PROVE  f \in issued'
        OBVIOUS
      <4>1. CASE e = g
        BY <3>1, <3>4, <4>1
      <4>2. CASE e # g
        BY <1>0, <3>1, <4>2 DEF CallerInv
      <4>3. QED BY <4>1, <4>2
    <3>6. ASSUME NEW d \in Callers, NEW e \in Events \ Boot, call'[d].arg \in WorkEvents,
                 e \in issued', e.src = d
          PROVE  e.id <= call'[d].arg.id
      <4>1. CASE d = c
        <5>1. CASE e = g
          BY <3>3, <3>4, <4>1, <5>1
        <5>2. CASE e # g
          <6>1. e \in issued /\ ~(g.id < e.id)
            BY <1>0, <3>1, <3>6, <4>1, <5>2 DEF CallerInv
          <6>2. e.id <= g.id
            BY <3>4, <6>1
          <6>3. QED BY <3>3, <4>1, <6>2
        <5>3. QED BY <5>1, <5>2
      <4>2. CASE d # c
        <5>1. e \in issued /\ call'[d] = call[d]
          BY <3>1, <3>3, <3>6, <4>2
        <5>2. QED BY <1>0, <3>6, <5>1 DEF CallerInv
      <4>3. QED BY <4>1, <4>2
    <3>7. \A d \in Callers : call'[d].arg \in WorkEvents =>
                               call'[d].arg.src = d /\ call'[d].arg \notin Boot
      <4> SUFFICES ASSUME NEW d \in Callers, call'[d].arg \in WorkEvents
                   PROVE  call'[d].arg.src = d /\ call'[d].arg \notin Boot
        OBVIOUS
      <4>1. CASE d = c
        BY <3>1, <3>3, <4>1
      <4>2. CASE d # c
        BY <1>0, <3>3, <4>2 DEF CallerInv
      <4>3. QED BY <4>1, <4>2
    <3>8. QED BY <3>5, <3>6, <3>7 DEF CallerInv
  <2>2. CASE StartHandlerOnce(c)
    <3>1. /\ call[c].op = "once" /\ call' = [call EXCEPT ![c] = [call[c] EXCEPT !.op = "send"]]
          /\ UNCHANGED issued
      BY <2>2 DEF StartHandlerOnce
    <3>2. call[c] = [op |-> "once", arg |-> call[c].arg]
      BY <3>1, CallArg
    <3>3. [call[c] EXCEPT !.op = "send"].arg = call[c].arg
      BY <3>2
    <3>4. \A d \in Callers : call'[d].arg = call[d].arg
      <4>1. call'[c] = [call[c] EXCEPT !.op = "send"]
            /\ \A d \in Callers : d # c => call'[d] = call[d]
        BY <1>0, <3>1
      <4>2. QED BY <3>3, <4>1
    <3>5. QED BY <1>0, <3>1, <3>4, CallerQuiet
  <2>3. ASSUME NEW v, call' = [call EXCEPT ![c] = v], v.arg \notin WorkEvents, UNCHANGED issued
        PROVE  CallerInv'
    <3>1. \A d \in Callers : d # c => call'[d] = call[d]
      BY <1>0, <2>3
    <3>2. call'[c] = v
      BY <1>0, <2>3
    <3>3. QED BY <1>0, <2>3, <3>1, <3>2, CallerQuiet
  <2>4. CASE EndSignal(c) \/ SendResume(c)
    <3>1. Idle.arg \notin WorkEvents
      BY WorkDiffers
    <3>2. QED BY <2>3, <2>4, <3>1 DEF EndSignal, SendResume
  <2>5. ASSUME NEW n \in Nodes, Resume(c, n) PROVE CallerInv'
    <3>1. n \notin WorkEvents /\ [op |-> "resume", arg |-> n].arg = n
      BY WorkDiffers
    <3>2. QED BY <2>3, <2>5, <3>1 DEF Resume
  <2>6. QED BY <1>2, <2>1, <2>2, <2>4, <2>5 DEF Call
<1>3. QED
  BY <1>1, <1>2, PollerFrame, HandlerFrame, LoopFrame, RuntimeFrame DEF Step

(* Steps that add no work event to the timed pool, or a loose one.         *)
LEMMA LooseQuiet ==
  ASSUME LooseInv, deferred \subseteq deferred',
         \A x \in timed' \cup ev' :
           \/ x \in timed \cup ev
           \/ x.e \in WorkEvents => x.e \in deferred' \/ x.e.secs > 0
  PROVE  LooseInv'
BY DEF LooseInv

(* A work event enters the timed pool as overflow or with a delay.         *)
LEMMA LooseStep == ASSUME IInv, OrderInv, Step PROVE LooseInv'
<1>0. LooseInv
  BY DEF OrderInv
<1>1. CASE UNCHANGED <<timed, ev, deferred>>
  BY <1>0, <1>1, LooseQuiet
<1>2. ASSUME NEW m, SignalEvent(m), UNCHANGED ev \/ (\E x \in ev : ev' = ev \ {x})
      PROVE  LooseInv'
  <2>1. deferred \subseteq deferred'
    BY <1>2 DEF SignalEvent
  <2>2. CASE UNCHANGED timed
    BY <1>0, <1>2, <2>1, <2>2, LooseQuiet
  <2>3. CASE timed' = timed \cup {[t |-> now + 1, e |-> m]} /\ m \in deferred'
    <3>1. [t |-> now + 1, e |-> m].e = m
      OBVIOUS
    <3>2. QED BY <1>0, <1>2, <2>1, <2>3, <3>1, LooseQuiet
  <2>4. QED BY <1>2, <2>2, <2>3 DEF SignalEvent, Defer
<1>3. ASSUME NEW c \in Callers, Call(c) PROVE LooseInv'
  <2>0. UNCHANGED ev
    BY <1>3, CallFrame DEF loopVars
  <2>1. CASE EndSignal(c)
    <3>0. PICK m : m = call[c].arg
      OBVIOUS
    <3>1. CASE SignalEvent(m)
      BY <1>2, <2>0, <3>1
    <3>2. CASE SignalEventAfter(m) /\ m.secs # 0
      <4>1. m.secs > 0
        <5>1. m \in Events
          BY <2>1, <3>0, CallArg DEF EndSignal
        <5>2. m.secs \in Nat
          BY <5>1, EventLoopAssumption
        <5>3. QED BY <3>2, <5>2
      <4>2. /\ timed' = timed \cup {[t |-> now + m.secs, e |-> m]}
            /\ UNCHANGED deferred
        BY <3>2 DEF SignalEventAfter
      <4>3. [t |-> now + m.secs, e |-> m].e = m
        OBVIOUS
      <4>4. QED BY <1>0, <2>0, <4>1, <4>2, <4>3, LooseQuiet
    <3>3. QED BY <2>1, <3>0, <3>1, <3>2 DEF EndSignal
  <2>2. QED BY <1>1, <1>3, <2>0, <2>1
            DEF Call, BeginSignal, StartHandlerOnce, Resume, SendResume, timerVars, histVars
<1>4. ASSUME NEW p \in Pollers, Poller(p) PROVE LooseInv'
  BY <1>1, <1>2, <1>4 DEF Poller, ChangeActive, InterruptLoop, timerVars, histVars, loopVars
<1>5. CASE AdvanceAdd
  <2>1. timed' \subseteq timed /\ ev' \subseteq timed /\ UNCHANGED deferred
    BY <1>5 DEF AdvanceAdd, Expired, Unexpired, histVars
  <2>2. QED BY <1>0, <2>1, LooseQuiet
<1>6. ASSUME NEW x \in ev, ExpireEvent(x) PROVE LooseInv'
  <2>1. ev' = ev \ {x}
    BY <1>6 DEF ExpireEvent
  <2>2. CASE SignalEvent(QuitEvent)
    BY <1>2, <2>1, <2>2
  <2>3. CASE UNCHANGED <<timed, deferred>>
    BY <1>0, <2>1, <2>3, LooseQuiet
  <2>4. QED BY <1>6, <2>2, <2>3 DEF ExpireEvent, histVars
<1>7. QED
  BY <1>1, <1>3, <1>4, <1>5, <1>6, HandlerFrame, RuntimeFrame
     DEF Step, LoopStep, WaitNodeTimeout, SetEventWait, ArmTimer, DoEventWait,
         WaitTimeout, ClearEventWait, DoEventNoWait, ReceiveLoopEvent, AllExpired,
         SendRxEvent, SignalNode, WaitNode, InactivateNode, EndDoEvents, DoPollers,
         loopVars, timerVars, histVars

(* Nothing becomes strict but the event that EndSignal puts in the channel.*)
LEMMA StrictStep ==
  ASSUME IInv, OrderInv, Step, NEW e \in WorkEvents, Strict(e)'
  PROVE  \/ Strict(e)
         \/ \E c \in Callers : EndSignal(c) /\ call[c].arg = e
<1>1. e \in issued' /\ (\A c \in Callers : call'[c].arg # e)
      /\ e \notin deferred' /\ ~(e.secs > 0)
  BY DEF Strict, Signalled, Loose
<1>2. ASSUME e \in issued, \A c \in Callers : call[c].arg # e, deferred \subseteq deferred'
      PROVE  Strict(e)
  BY <1>1, <1>2 DEF Strict, Signalled, Loose
<1>3. deferred \subseteq deferred'
  <2>1. ASSUME NEW m, SignalEvent(m) PROVE deferred \subseteq deferred'
    BY <2>1 DEF SignalEvent
  <2>2. CASE \E c \in Callers : Call(c)
    BY <2>1, <2>2 DEF Call, BeginSignal, StartHandlerOnce, EndSignal, SignalEventAfter, Resume,
                      SendResume, histVars
  <2>3. CASE \E p \in Pollers : Poller(p)
    BY <2>1, <2>3 DEF Poller, ChangeActive, InterruptLoop, histVars
  <2>4. CASE LoopStep \/ WaitNodeTimeout
    BY <2>1, <2>4
       DEF LoopStep, WaitNodeTimeout, SetEventWait, ArmTimer, DoEventWait, ExpireEvent,
           WaitTimeout, ClearEventWait, DoEventNoWait, ReceiveLoopEvent, AllExpired,
           AdvanceAdd, SendRxEvent, SignalNode, WaitNode, InactivateNode, EndDoEvents,
           DoPollers, histVars
  <2>5. QED BY <2>2, <2>3, <2>4, HandlerFrame, RuntimeFrame DEF Step, histVars
<1>4. CASE UNCHANGED callVars
  BY <1>1, <1>2, <1>3, <1>4 DEF callVars
<1>5. ASSUME NEW c \in Callers, Call(c)
      PROVE  Strict(e) \/ (EndSignal(c) /\ call[c].arg = e)
  <2>0. call \in [Callers -> {Idle} \cup [op : {"once"}, arg : WorkEvents]
                                 \cup [op : {"send"}, arg : Events]
                                 \cup [op : {"resume"}, arg : Nodes]]
    BY DEF IInv, TypeOK, TypeCall
  <2>1. ASSUME NEW v, call' = [call EXCEPT ![c] = v], call[c].arg # e, UNCHANGED issued
        PROVE  Strict(e)
    <3>1. \A d \in Callers : d # c => call'[d] = call[d]
      BY <2>0, <2>1
    <3>2. QED BY <1>1, <1>2, <1>3, <2>1, <3>1
  <2>2. ASSUME NEW g \in Events, BeginSignal(c, g) PROVE Strict(e)
    <3>1. call[c] = Idle /\ issued' = issued \cup {g}
      BY <2>2 DEF BeginSignal, MayCall
    <3>2. PICK o : call' = [call EXCEPT ![c] = [op |-> o, arg |-> g]]
      BY <2>2 DEF BeginSignal
    <3>3. call'[c].arg = g /\ \A d \in Callers : d # c => call'[d] = call[d]
      BY <2>0, <3>2
    <3>4. call[c].arg # e
      BY <3>1, WorkDiffers
    <3>5. QED BY <1>1, <1>2, <1>3, <3>1, <3>3, <3>4
  <2>3. CASE StartHandlerOnce(c)
    <3>1. /\ call[c].op = "once" /\ call' = [call EXCEPT ![c] = [call[c] EXCEPT !.op = "send"]]
          /\ UNCHANGED issued
      BY <2>3 DEF StartHandlerOnce
    <3>2. call[c] = [op |-> "once", arg |-> call[c].arg]
      BY <3>1, CallArg
    <3>3. [call[c] EXCEPT !.op = "send"].arg = call[c].arg
      BY <3>2
    <3>4. call'[c] = [call[c] EXCEPT !.op = "send"]
      BY <2>0, <3>1
    <3>5. call[c].arg # e
      BY <1>1, <3>3, <3>4
    <3>6. QED BY <2>1, <3>1, <3>5
  <2>4. CASE EndSignal(c)
    BY <2>1, <2>4 DEF EndSignal
  <2>5. ASSUME NEW n \in Nodes, Resume(c, n) PROVE Strict(e)
    <3>1. call[c].arg # e
      BY <2>5, WorkDiffers DEF Resume, MayCall
    <3>2. QED BY <2>1, <2>5, <3>1 DEF Resume
  <2>6. CASE SendResume(c)
    <3>1. call[c].arg # e
      BY <2>6, CallArg, WorkDiffers DEF SendResume
    <3>2. QED BY <2>1, <2>6, <3>1 DEF SendResume
  <2>7. QED BY <1>5, <2>2, <2>3, <2>4, <2>5, <2>6 DEF Call
<1>6. QED
  BY <1>4, <1>5, PollerFrame, HandlerFrame, LoopFrame, RuntimeFrame DEF Step

(* Steps that at most send something else on the event channel.            *)
LEMMA OrderedQuiet ==
  ASSUME IInv, NEW e \in WorkEvents, NEW f \in WorkEvents, Ordered(f, e),
         UNCHANGED <<rxEvents, currentEvent, disp>>,
         (e \in done' <=> e \in done) /\ (f \in done' <=> f \in done),
         \/ UNCHANGED events
         \/ \E m \in Message : events' = Append(events, m) /\ m # e
  PROVE  Ordered(f, e)'
<1>1. (Begun(e)' <=> Begun(e)) /\ (Begun(f)' <=> Begun(f))
  BY DEF Begun
<1>2. Ahead(events, f, e) => Ahead(events', f, e)
  <2>1. events \in Seq(Message)
    BY DEF IInv, TypeOK, TypeTimer
  <2>2. ASSUME NEW m \in Message, events' = Append(events, m), m # e, Ahead(events, f, e)
        PROVE  Ahead(Append(events, m), f, e)
    BY <2>1, <2>2, AheadAppend
  <2>3. ASSUME NEW m \in Message, events' = Append(events, m), m # e, Ahead(events, f, e)
        PROVE  Ahead(events', f, e)
    BY <2>2, <2>3
  <2>4. QED BY <2>3
<1>3. Ahead(events, f, e)' <=> Ahead(events', f, e)
  BY DEF Ahead
<1>4. /\ Ahead(rxEvents[e.dst], f, e)' <=> Ahead(rxEvents[e.dst], f, e)
      /\ In(rxEvents[e.dst], f)' <=> In(rxEvents[e.dst], f)
  BY DEF Ahead, In
<1>5. QED BY <1>1, <1>2, <1>3, <1>4 DEF Ordered

(* The ids are numbers, and a strict event was not signalled at boot.      *)
LEMMA StrictFacts ==
  ASSUME NEW e \in WorkEvents
  PROVE  /\ e \in Events /\ e.id \in Nat /\ e.dst \in Nodes
         /\ Strict(e) => e \in issued /\ e \notin Boot /\ e \notin deferred
<1>1. e \in Events /\ e.id \in Nat /\ e.secs \in Nat /\ e.dst \in Nodes
  BY WorkFacts, EventLoopAssumption
<1>2. ASSUME Strict(e) PROVE e \in issued /\ e \notin Boot /\ e \notin deferred
  <2>1. e \in issued /\ e \notin deferred /\ ~(e.secs > 0)
    BY <1>2 DEF Strict, Signalled, Loose
  <2>2. \A b \in Boot : b.secs \in 1 .. MaxTime /\ MaxTime \in Nat
    BY EventLoopAssumption
  <2>3. e \notin Boot
    BY <1>1, <2>1, <2>2
  <2>4. QED BY <2>1, <2>3
<1>3. QED BY <1>1, <1>2

(* Where an event with a pending call is not.                              *)
LEMMA PendingPlaces ==
  ASSUME IInv, PlaceInv, NEW c \in Callers, call[c].arg \in WorkEvents
  PROVE  LET m == call[c].arg
         IN  /\ ~Begun(m) /\ ~In(rxEvents[m.dst], m) /\ disp # m /\ ~In(events, m)
             /\ m \in issued /\ Calls(m) = {c}
<1>0. PICK m \in WorkEvents : m = call[c].arg
  OBVIOUS
<1>1. /\ InCall(m) \in Nat /\ InChan(m) \in Nat /\ InTimed(m) \in Nat /\ InEv(m) \in Nat
      /\ InDisp(m) \in {0, 1} /\ InRx(m) \in Nat /\ InRun(m) \in {0, 1}
      /\ InDone(m) \in {0, 1}
  BY PlaceFacts
<1>2. IsFiniteSet(Calls(m)) /\ PlaceSum(m) = IF m \in issued THEN 1 ELSE 0
  BY DEF PlaceInv, FinitePlaces
<1>3. c \in Calls(m)
  BY <1>0 DEF Calls
<1>4. InCall(m) # 0
  BY <1>2, <1>3, FS_EmptySet DEF InCall
<1>5. PlaceSum(m) <= 1
  BY <1>2
<1>6. InCall(m) = 1 /\ InChan(m) = 0 /\ InDisp(m) = 0 /\ InRx(m) = 0 /\ InRun(m) = 0
      /\ InDone(m) = 0 /\ PlaceSum(m) # 0
  BY <1>1, <1>4, <1>5 DEF PlaceSum
<1>7. m \in issued
  BY <1>2, <1>6
<1>8. Calls(m) = {c}
  <2>1. PICK d : Calls(m) = {d}
    BY <1>2, <1>6, FS_Singleton DEF InCall
  <2>2. QED BY <1>3, <2>1
<1>9. events \in Seq(Message) /\ rxEvents[m.dst] \in Seq(WorkEvents)
  BY WorkFacts DEF IInv, TypeOK, TypeTimer, TypeNode
<1>10. ~In(events, m) /\ ~In(rxEvents[m.dst], m)
  BY <1>6, <1>9, OccurrencesIn DEF InChan, InRx
<1>11. ~Begun(m) /\ disp # m
  BY <1>6 DEF InDisp, InRun, InDone, Begun
<1>12. QED BY <1>0, <1>7, <1>8, <1>10, <1>11

(* The calls: an event that enters the channel is behind the earlier ones  *)
(* of its caller, because their calls have returned.                       *)
LEMMA OrderedCall ==
  ASSUME IInv, PlaceInv, OrderInv, NEW c \in Callers, Call(c),
         NEW e \in WorkEvents, NEW f \in WorkEvents, Strict(e)', Strict(f)', Earlier(f, e)
  PROVE  Ordered(f, e)'
<1>0. Step /\ CallerInv
  BY DEF Step, OrderInv
<1>1. UNCHANGED <<disp, rxEvents, currentEvent, done>>
  BY CallFrame DEF loopVars, chanVars
<1>2. e # f /\ f.src = e.src /\ f.id < e.id
  BY StrictFacts DEF Earlier
<1>3. ASSUME Strict(e), Strict(f)
      PROVE  Ordered(f, e)
  BY <1>3 DEF OrderInv
<1>4. CASE EndSignal(c)
  <2>0. PICK m : m = call[c].arg
    OBVIOUS
  <2>1. m \in Events /\ m \in Message
    BY <1>4, <2>0, CallArg DEF EndSignal, Message
  <2>2. \/ UNCHANGED events /\ (m \in deferred' \/ m.secs # 0)
        \/ events' = Append(events, m)
    BY <1>4, <2>0 DEF EndSignal, SignalEvent, SignalEventAfter, Queue
  <2>3. CASE m # e /\ m # f
    <3>1. \A d \in Callers : EndSignal(d) => d = c
      <4>1. ASSUME NEW d \in Callers, EndSignal(d), d # c PROVE FALSE
        <5>1. call'[c] = Idle /\ call[c].op = "send" /\ call' = [call EXCEPT ![d] = Idle]
          BY <1>4, <4>1 DEF EndSignal, IInv, TypeOK, TypeCall
        <5>2. call'[c] = call[c]
          BY <4>1, <5>1 DEF IInv, TypeOK, TypeCall
        <5>3. QED BY <5>1, <5>2 DEF Idle
      <4>2. QED BY <4>1
    <3>2. Strict(e) /\ Strict(f)
      BY <1>0, <2>0, <2>3, <3>1, StrictStep
    <3>3. QED BY <1>1, <1>3, <2>1, <2>2, <2>3, <3>2, OrderedQuiet
  <2>4. CASE m = e
    <3>1. call[c].arg \in WorkEvents
      BY <2>0, <2>4
    <3>2. /\ ~Begun(e) /\ ~In(rxEvents[e.dst], e) /\ disp # e /\ ~In(events, e)
          /\ Calls(e) = {c}
      BY <2>0, <2>4, <3>1, PendingPlaces
    <3>3. Strict(f)
      <4>1. Strict(f) \/ \E d \in Callers : EndSignal(d) /\ call[d].arg = f
        BY <1>0, StrictStep
      <4>2. ASSUME NEW d \in Callers, EndSignal(d), call[d].arg = f PROVE FALSE
        <5>1. d # c
          BY <1>2, <2>0, <2>4, <4>2
        <5>2. call'[c] = Idle /\ call[c].op = "send" /\ call' = [call EXCEPT ![d] = Idle]
          BY <1>4, <4>2 DEF EndSignal, IInv, TypeOK, TypeCall
        <5>3. call'[c] = call[c]
          BY <5>1, <5>2 DEF IInv, TypeOK, TypeCall
        <5>4. QED BY <5>2, <5>3 DEF Idle
      <4>3. QED BY <4>1, <4>2
    <3>4. Begun(f) \/ In(rxEvents[e.dst], f) \/ disp = f \/ In(events, f)
      BY <3>3, StrictPlaces DEF Earlier
    <3>5. events' = Append(events, e)
      <4>1. e \notin deferred' /\ ~(e.secs > 0) /\ e.secs \in Nat
        BY EventLoopAssumption, WorkFacts DEF Strict, Signalled, Loose
      <4>2. QED BY <2>2, <2>4, <4>1
    <3>6. Ahead(rxEvents[e.dst], f, e) /\ Ahead(events, f, e)
      BY <3>2 DEF Ahead, In
    <3>7. In(events, f) => Ahead(Append(events, e), f, e)
      <4>1. events \in Seq(Message) /\ e \in Message
        BY <2>1, <2>4 DEF IInv, TypeOK, TypeTimer
      <4>2. QED BY <3>6, <4>1, AheadAppend
    <3>8. In(events, f) => Ahead(events, f, e)'
      BY <3>5, <3>7 DEF Ahead
    <3>9. /\ Begun(f)' <=> Begun(f)
          /\ Begun(e)' <=> Begun(e)
          /\ Ahead(rxEvents[e.dst], f, e)' <=> Ahead(rxEvents[e.dst], f, e)
          /\ In(rxEvents[e.dst], f)' <=> In(rxEvents[e.dst], f)
      BY <1>1 DEF Begun, Ahead, In
    <3>10. QED BY <1>1, <3>2, <3>4, <3>6, <3>8, <3>9 DEF Ordered
  <2>5. CASE m = f
    <3>1. Strict(e)
      <4>1. Strict(e) \/ \E d \in Callers : EndSignal(d) /\ call[d].arg = e
        BY <1>0, StrictStep
      <4>2. ASSUME NEW d \in Callers, EndSignal(d), call[d].arg = e PROVE FALSE
        <5>1. d # c
          BY <1>2, <2>0, <2>5, <4>2
        <5>2. call'[c] = Idle /\ call[c].op = "send" /\ call' = [call EXCEPT ![d] = Idle]
          BY <1>4, <4>2 DEF EndSignal, IInv, TypeOK, TypeCall
        <5>3. call'[c] = call[c]
          BY <5>1, <5>2 DEF IInv, TypeOK, TypeCall
        <5>4. QED BY <5>2, <5>3 DEF Idle
      <4>3. QED BY <4>1, <4>2
    <3>2. e \in issued /\ e \in Events \ Boot /\ e.id \in Nat /\ f.id \in Nat
      BY <3>1, StrictFacts
    <3>3. call[c].arg = f /\ f.src = c
      BY <1>0, <2>0, <2>5 DEF CallerInv
    <3>4. e.id <= f.id
      BY <1>0, <1>2, <3>2, <3>3 DEF CallerInv
    <3>5. QED BY <1>2, <3>2, <3>4
  <2>6. QED BY <2>3, <2>4, <2>5
<1>5. CASE ~\E d \in Callers : EndSignal(d)
  <2>1. Strict(e) /\ Strict(f)
    BY <1>0, <1>5, StrictStep
  <2>2. \/ UNCHANGED events
        \/ \E m \in Message : events' = Append(events, m) /\ m # e
    <3>1. CASE SendResume(c)
      <4>1. PICK n \in Nodes : events' = Append(events, ResumeOf(n))
        BY <3>1, CallArg DEF SendResume
      <4>2. QED BY <4>1, OtherMessages, WorkDiffers
    <3>2. QED BY <1>5, <3>1 DEF Call, BeginSignal, StartHandlerOnce, Resume
  <2>3. QED BY <1>1, <1>3, <2>1, <2>2, OrderedQuiet
<1>6. CASE \E d \in Callers : EndSignal(d) /\ ~EndSignal(c)
  <2>1. PICK d \in Callers : EndSignal(d) /\ d # c
    BY <1>6
  <2>2. call[d].op = "send" /\ call' = [call EXCEPT ![d] = Idle]
        /\ UNCHANGED issued
    BY <2>1 DEF EndSignal
  <2>3. call'[d] = Idle /\ call'[c] = call[c] /\ Idle.op # "send"
    BY <2>1, <2>2 DEF IInv, TypeOK, TypeCall, Idle
  <2>4. call'[d] = call[d]
    <3>1. PICK v : call' = [call EXCEPT ![c] = v]
      BY <1>6 DEF Call, BeginSignal, StartHandlerOnce, EndSignal, Resume, SendResume
    <3>2. QED BY <2>1, <3>1 DEF IInv, TypeOK, TypeCall
  <2>5. QED BY <2>2, <2>3, <2>4
<1>7. QED BY <1>4, <1>5, <1>6

(* The handler takes the first event of its channel, and what has begun    *)
(* stays begun when the action returns.                                    *)
LEMMA OrderedHandler ==
  ASSUME IInv, PlaceInv, NEW n \in Nodes, Handler(n) \/ HandlerTimeout(n),
         NEW e \in WorkEvents, NEW f \in WorkEvents, Ordered(f, e), f.dst = e.dst
  PROVE  Ordered(f, e)'
<1>1. UNCHANGED <<disp, events>>
  BY HandlerFrame DEF loopVars
<1>2. /\ e # None /\ f # None /\ e.dst \in Nodes
      /\ currentEvent \in [Nodes -> WorkEvents \cup {None}]
      /\ rxEvents \in [Nodes -> Seq(WorkEvents)]
  BY WorkFacts DEF IInv, TypeOK, TypeHandler, TypeNode
<1>3. CASE UNCHANGED <<rxEvents, currentEvent, done>>
  BY <1>1, <1>3, OrderedQuiet
<1>4. CASE ReceiveEvent(n)
  <2>0. PICK q : q = rxEvents[n]
    OBVIOUS
  <2>1. /\ hpc[n] = "recv" /\ q # <<>> /\ UNCHANGED done
        /\ currentEvent' = [currentEvent EXCEPT ![n] = Head(q)]
        /\ rxEvents' = [rxEvents EXCEPT ![n] = Tail(q)]
    BY <1>4, <2>0 DEF ReceiveEvent, histVars
  <2>2. CASE n # e.dst
    <3>1. rxEvents'[e.dst] = rxEvents[e.dst] /\ currentEvent'[e.dst] = currentEvent[e.dst]
      BY <1>2, <2>1, <2>2
    <3>2. QED BY <1>1, <2>1, <3>1 DEF Ordered, Begun, Ahead, In
  <2>3. CASE n = e.dst
    <3>1. /\ rxEvents'[e.dst] = Tail(q) /\ currentEvent'[e.dst] = Head(q)
          /\ currentEvent[e.dst] = None /\ q \in Seq(WorkEvents) /\ rxEvents[e.dst] = q
      <4>1. currentEvent[n] = None
        BY <2>1 DEF IInv, CountInv
      <4>2. QED BY <1>2, <2>0, <2>1, <2>3, <4>1
    <3>2. /\ Ahead(q, f, e) => Head(q) # e
          /\ Ahead(q, f, e) /\ Head(q) # f => Ahead(Tail(q), f, e)
          /\ In(q, f) /\ Head(q) # f => In(Tail(q), f)
      BY <2>1, <3>1, AheadTail
    <3>3. CASE Begun(f)
      BY <1>2, <2>1, <3>1, <3>3 DEF Begun, Ordered
    <3>4. CASE Head(q) = f
      BY <3>1, <3>4 DEF Begun, Ordered
    <3>5. CASE ~Begun(f) /\ Head(q) # f
      <4>1. /\ ~Begun(e) /\ Ahead(q, f, e) /\ (disp = e => In(q, f))
            /\ (In(q, f) \/ disp = f \/ Ahead(events, f, e))
        BY <3>1, <3>5 DEF Ordered
      <4>2. ~Begun(e)'
        BY <2>1, <3>1, <3>2, <4>1 DEF Begun
      <4>3. /\ Ahead(rxEvents[e.dst], f, e)' <=> Ahead(Tail(q), f, e)
            /\ In(rxEvents[e.dst], f)' <=> In(Tail(q), f)
            /\ Ahead(events, f, e)' <=> Ahead(events, f, e)
        BY <1>1, <3>1 DEF Ahead, In
      <4>4. QED BY <1>1, <3>2, <3>5, <4>1, <4>2, <4>3 DEF Ordered
    <3>6. QED BY <3>3, <3>4, <3>5
  <2>4. QED BY <2>2, <2>3
<1>5. ASSUME NEW next, EventDone(n, next) PROVE Ordered(f, e)'
  <2>1. /\ done' = done \cup {currentEvent[n]} /\ UNCHANGED rxEvents
        /\ currentEvent' = [currentEvent EXCEPT ![n] = None]
    BY <1>5 DEF EventDone
  <2>2. ASSUME NEW g \in WorkEvents PROVE Begun(g)' <=> Begun(g)
    <3>1. g # None /\ g.dst \in Nodes
      BY WorkFacts
    <3>2. currentEvent[n] = g => g.dst = n
      BY <3>1 DEF PlaceInv
    <3>3. currentEvent'[g.dst] = IF g.dst = n THEN None ELSE currentEvent[g.dst]
      BY <1>2, <2>1, <3>1
    <3>4. QED BY <2>1, <3>1, <3>2, <3>3 DEF Begun
  <2>3. /\ Ahead(rxEvents[e.dst], f, e)' <=> Ahead(rxEvents[e.dst], f, e)
        /\ In(rxEvents[e.dst], f)' <=> In(rxEvents[e.dst], f)
        /\ Ahead(events, f, e)' <=> Ahead(events, f, e)
    BY <1>1, <2>1 DEF Ahead, In
  <2>4. (Begun(f)' <=> Begun(f)) /\ (Begun(e)' <=> Begun(e))
    BY <2>2
  <2>5. QED BY <1>1, <2>3, <2>4 DEF Ordered
<1>6. QED
  BY <1>3, <1>4, <1>5 DEF Handler, HandlerTimeout, WaitLoop, FinishEvent, PanicHandler,
                          Suspend, SignalSuspended, WakeSuspended, handlerVars, chanVars,
                          histVars

(* The loop takes the first event of the event channel and sends it to the *)
(* channel of its node before it takes another one.                        *)
LEMMA OrderedLoop ==
  ASSUME IInv, PlaceInv, OrderInv, LoopStep \/ WaitNodeTimeout,
         NEW e \in WorkEvents, NEW f \in WorkEvents, Strict(e), Ordered(f, e),
         f.dst = e.dst
  PROVE  Ordered(f, e)'
<1>1. UNCHANGED currentEvent
  BY LoopFrame
<1>2. e # None /\ f # None /\ e.dst \in Nodes /\ rxEvents \in [Nodes -> Seq(WorkEvents)]
      /\ events \in Seq(Message)
  BY WorkFacts DEF IInv, TypeOK, TypeNode, TypeTimer
<1>3. CASE UNCHANGED <<events, disp, rxEvents, done>>
  BY <1>1, <1>3, OrderedQuiet
<1>4. CASE ReceiveLoopEvent /\ lpc \in {"wait", "poll"}
  <2>0. PICK m : m = Head(events)
    OBVIOUS
  <2>1. /\ events # <<>> /\ events' = Tail(events)
        /\ UNCHANGED <<rxEvents, done>> /\ DoNodeEvent(m)
    BY <1>4, <2>0 DEF ReceiveLoopEvent, chanVars, histVars
  <2>2. disp = None
    BY <1>4 DEF IInv, CountInv
  <2>3. e.kind = "work" /\ f.kind = "work"
    BY DEF WorkEvents
  <2>4. (disp' = None /\ m.kind # "work") \/ disp' = m
    BY <2>1, <2>2 DEF DoNodeEvent, QueueToNode
  <2>5. /\ Ahead(events, f, e) => m # e
        /\ Ahead(events, f, e) /\ m # f => Ahead(events', f, e)
    BY <1>2, <2>0, <2>1, AheadTail
  <2>6. /\ Ahead(rxEvents[e.dst], f, e)' <=> Ahead(rxEvents[e.dst], f, e)
        /\ In(rxEvents[e.dst], f)' <=> In(rxEvents[e.dst], f)
        /\ Ahead(events, f, e)' <=> Ahead(events', f, e)
        /\ Begun(e)' <=> Begun(e)
        /\ Begun(f)' <=> Begun(f)
    BY <1>1, <2>1 DEF Ahead, In, Begun
  <2>7. CASE m = e
    BY <1>2, <2>2, <2>3, <2>4, <2>5, <2>6, <2>7 DEF Ordered
  <2>8. CASE m # e
    <3>1. disp' # e /\ (m = f => disp' = f)
      BY <1>2, <2>3, <2>4, <2>8
    <3>2. QED BY <1>2, <2>2, <2>5, <2>6, <3>1 DEF Ordered
  <2>9. QED BY <2>7, <2>8
<1>5. ASSUME NEW x \in ev, ExpireEvent(x) PROVE Ordered(f, e)'
  <2>0. PICK m : m = x.e
    OBVIOUS
  <2>1. /\ lpc = "expire" /\ UNCHANGED rxEvents
        /\ \/ m.kind = "work" /\ QueueToNode(m) /\ UNCHANGED <<events, done>>
           \/ /\ m.kind = "quitAfter" /\ SignalEvent(QuitEvent) /\ UNCHANGED disp
              /\ done' = done \cup {m}
           \/ /\ m.kind \in {"quit", "interrupt"} /\ UNCHANGED <<disp, events>>
              /\ done' = IF m \in Events THEN done \cup {m} ELSE done
    BY <1>5, <2>0 DEF ExpireEvent, chanVars, histVars
  <2>2. disp = None
    BY <2>1 DEF IInv, CountInv
  <2>3. e.kind = "work" /\ f.kind = "work"
    BY DEF WorkEvents
  <2>4. m # e
    <3>1. m \in WorkEvents => m \in deferred \/ m.secs > 0
      BY <2>0 DEF OrderInv, LooseInv
    <3>2. QED BY <3>1 DEF Strict, Loose
  <2>5. disp' # e
    BY <1>2, <2>1, <2>2, <2>4 DEF QueueToNode
  <2>6. (Begun(e)' <=> Begun(e)) /\ (Begun(f)' <=> Begun(f))
    BY <1>1, <2>1, <2>3 DEF Begun
  <2>7. Ahead(events, f, e) => Ahead(events', f, e)
    <3>1. QuitEvent \in Message /\ QuitEvent # e
      BY OtherMessages, WorkDiffers
    <3>2. Ahead(events, f, e) => Ahead(Append(events, QuitEvent), f, e)
      BY <1>2, <3>1, AheadAppend
    <3>3. UNCHANGED events \/ events' = Append(events, QuitEvent)
      BY <2>1 DEF SignalEvent, Queue
    <3>4. QED BY <3>2, <3>3
  <2>8. /\ Ahead(rxEvents[e.dst], f, e)' <=> Ahead(rxEvents[e.dst], f, e)
        /\ In(rxEvents[e.dst], f)' <=> In(rxEvents[e.dst], f)
        /\ Ahead(events, f, e)' <=> Ahead(events', f, e)
    BY <2>1 DEF Ahead, In
  <2>9. QED BY <1>2, <2>2, <2>5, <2>6, <2>7, <2>8 DEF Ordered
<1>6. CASE SendRxEvent /\ started[disp.dst]
  <2>0. PICK m : m = disp
    OBVIOUS
  <2>1. /\ lpc = "sendRx" /\ rxEvents' = [rxEvents EXCEPT ![m.dst] = Append(@, m)]
        /\ disp' = None /\ UNCHANGED <<events, done>>
    BY <1>6, <2>0 DEF SendRxEvent, Queue, histVars
  <2>2. m \in WorkEvents
    BY <2>0, <2>1 DEF IInv, TypeOK, TypeLoop, CountInv
  <2>3. m.dst \in Nodes
    BY <2>2, WorkFacts
  <2>4. PICK q \in Seq(WorkEvents) : q = rxEvents[e.dst]
    BY <1>2
  <2>5. /\ Ahead(events, f, e)' <=> Ahead(events, f, e)
        /\ Begun(e)' <=> Begun(e)
        /\ Begun(f)' <=> Begun(f)
    BY <1>1, <2>1 DEF Ahead, Begun
  <2>6. CASE e.dst = m.dst
    <3>1. rxEvents'[e.dst] = Append(q, m)
      BY <1>2, <2>1, <2>3, <2>4, <2>6
    <3>2. /\ Ahead(q, f, e) /\ (m = e => In(q, f)) => Ahead(Append(q, m), f, e)
          /\ In(q, f) => In(Append(q, m), f)
          /\ m = f => In(Append(q, m), f)
      BY <2>2, AheadAppend
    <3>3. /\ Ahead(rxEvents[e.dst], f, e)' <=> Ahead(Append(q, m), f, e)
          /\ In(rxEvents[e.dst], f)' <=> In(Append(q, m), f)
      BY <3>1 DEF Ahead, In
    <3>4. QED BY <1>2, <2>0, <2>1, <2>4, <2>5, <3>2, <3>3 DEF Ordered
  <2>7. CASE e.dst # m.dst
    <3>1. rxEvents'[e.dst] = rxEvents[e.dst]
      BY <1>2, <2>1, <2>3, <2>7
    <3>2. disp # f
      BY <2>0, <2>7
    <3>3. /\ Ahead(rxEvents[e.dst], f, e)' <=> Ahead(rxEvents[e.dst], f, e)
          /\ In(rxEvents[e.dst], f)' <=> In(rxEvents[e.dst], f)
      BY <3>1 DEF Ahead, In
    <3>4. QED BY <1>2, <2>1, <2>5, <3>2, <3>3 DEF Ordered
  <2>8. QED BY <2>6, <2>7
<1>7. QED
  BY <1>3, <1>4, <1>5, <1>6
     DEF LoopStep, DoEventWait, DoEventNoWait, SetEventWait, ArmTimer, WaitTimeout,
         ClearEventWait, AdvanceAdd, AllExpired, SendRxEvent, SignalNode, WaitNode,
         InactivateNode, EndDoEvents, DoPollers, WaitNodeTimeout, loopVars, timerVars,
         chanVars, histVars

(* Data pollers only send Interrupt; the runtime sends nothing.            *)
LEMMA OrderedOutside ==
  ASSUME IInv, (\E p \in Pollers : Poller(p)) \/ Tick \/ FireTimer,
         NEW e \in WorkEvents, NEW f \in WorkEvents, Ordered(f, e)
  PROVE  Ordered(f, e)'
<1>1. UNCHANGED <<rxEvents, currentEvent, disp, done>>
  BY PollerFrame, RuntimeFrame DEF loopVars, chanVars, handlerVars, histVars
<1>2. UNCHANGED events \/ events' = Append(events, Interrupt)
  BY RuntimeFrame DEF Poller, ChangeActive, InterruptLoop, SignalEvent, Queue
<1>3. Interrupt \in Message /\ Interrupt # e
  BY OtherMessages, WorkDiffers
<1>4. QED BY <1>1, <1>2, <1>3, OrderedQuiet

(* Every step keeps the order.                                             *)
LEMMA OrderStep == ASSUME IInv, PlaceInv, OrderInv, Step PROVE OrderInv'
<1>1. CallerInv' /\ LooseInv'
  BY CallerStep, LooseStep
<1>2. ASSUME NEW e \in WorkEvents, NEW f \in WorkEvents, Strict(e)', Strict(f)',
             Earlier(f, e)
      PROVE  Ordered(f, e)'
  <2>1. ASSUME NEW c \in Callers, Call(c) PROVE Ordered(f, e)'
    BY <1>2, <2>1, OrderedCall
  <2>2. CASE ~\E c \in Callers : Call(c)
    <3>1. Strict(e) /\ Strict(f)
      BY <1>2, <2>2, StrictStep DEF Call
    <3>2. Ordered(f, e) /\ f.dst = e.dst
      BY <1>2, <3>1 DEF OrderInv, Earlier
    <3>3. QED BY <2>2, <3>1, <3>2, OrderedHandler, OrderedLoop, OrderedOutside DEF Step
  <2>3. QED BY <2>1, <2>2
<1>3. \A e, f \in WorkEvents : Strict(e)' /\ Strict(f)' /\ Earlier(f, e)' => Ordered(f, e)'
  BY <1>2 DEF Earlier
<1>4. QED BY <1>1, <1>3 DEF OrderInv

(* At first only the timed events of the boot are signalled.               *)
LEMMA OrderInit == ASSUME Init PROVE OrderInv
<1>1. call = [c \in Callers |-> Idle] /\ issued \subseteq Boot /\ ev = {} /\ deferred = {}
      /\ timed = {[t |-> e.secs, e |-> e] : e \in issued}
  BY DEF Init
<1>2. \A c \in Callers : call[c].arg \notin WorkEvents
  BY <1>1, WorkDiffers
<1>3. CallerInv
  BY <1>1, <1>2 DEF CallerInv
<1>4. \A b \in Boot : b.secs > 0
  BY EventLoopAssumption
<1>5. LooseInv
  <2> SUFFICES ASSUME NEW x \in timed PROVE x.e.secs > 0
    BY <1>1 DEF LooseInv
  <2>1. PICK b \in issued : x = [t |-> b.secs, e |-> b]
    BY <1>1
  <2>2. x.e = b
    BY <2>1
  <2>3. QED BY <1>1, <1>4, <2>1, <2>2
<1>6. \A e \in WorkEvents : ~Strict(e)
  BY <1>1, <1>4 DEF Strict, Signalled, Loose
<1>7. QED BY <1>3, <1>5, <1>6 DEF OrderInv

(* The inductive invariant of the order of events.                         *)
THEOREM OrderInductive == Spec => []OrderInv
<1>1. Init => OrderInv
  BY OrderInit
<1>2. IInv /\ PlaceInv /\ OrderInv /\ [Next]_vars => OrderInv'
  <2>1. ASSUME OrderInv, UNCHANGED vars PROVE OrderInv'
    <3>1. UNCHANGED <<call, issued, events, timed, ev, disp, rxEvents, currentEvent, done,
                      deferred>>
      BY <2>1 DEF vars, loopVars, chanVars, handlerVars, callVars, timerVars, histVars
    <3>2. CallerInv' /\ LooseInv'
      BY <2>1, <3>1 DEF OrderInv, CallerInv, LooseInv
    <3>3. ASSUME NEW e \in WorkEvents, NEW f \in WorkEvents
          PROVE  /\ Ordered(f, e)' <=> Ordered(f, e)
                 /\ Strict(e)' <=> Strict(e)
                 /\ Strict(f)' <=> Strict(f)
                 /\ Earlier(f, e)' <=> Earlier(f, e)
      BY <3>1 DEF Ordered, Begun, Ahead, In, Strict, Signalled, Loose, Earlier
    <3>4. \A e, f \in WorkEvents :
            Strict(e)' /\ Strict(f)' /\ Earlier(f, e)' => Ordered(f, e)'
      BY <2>1, <3>3 DEF OrderInv
    <3>5. QED BY <3>2, <3>4 DEF OrderInv
  <2>2. QED BY <2>1, OrderStep DEF Next, Asleep, Exited
<1>3. QED BY <1>1, <1>2, Inductive, PlacesInductive, PTL DEF Spec

-----------------------------------------------------------------------------
(* The refinement of EventDispatch.                                        *)
(* A step that ends no call and defers no work event.                      *)
LEMMA SignalledKept ==
  ASSUME \A e \in WorkEvents : e \in issued' /\ (\A c \in Callers : call'[c].arg # e)
                               <=> e \in issued /\ (\A c \in Callers : call[c].arg # e),
         \A e \in WorkEvents : e \in deferred' <=> e \in deferred
  PROVE  Signalled' = Signalled /\ Loose' = Loose
<1>1. Signalled' = Signalled
  BY DEF Signalled
<1>2. Loose \subseteq WorkEvents /\ Signalled \subseteq WorkEvents
  BY DEF Signalled, Loose
<1>3. QED BY <1>1, <1>2 DEF Loose

(* A call: only the end of SignalEvent or SignalEventAfter is visible.     *)
LEMMA CallRefines ==
  ASSUME IInv, PlaceInv, NEW c \in Callers, Call(c)
  PROVE  (\E e \in WorkEvents : Dispatch!Signal(e)) \/ UNCHANGED Dispatch!absVars
<1>0. /\ call \in [Callers -> {Idle} \cup [op : {"once"}, arg : WorkEvents]
                                 \cup [op : {"send"}, arg : Events]
                                 \cup [op : {"resume"}, arg : Nodes]]
      /\ UNCHANGED <<currentEvent, done>>
  BY CallFrame DEF IInv, TypeOK, TypeCall
<1>1. ASSUME Signalled' = Signalled, Loose' = Loose PROVE UNCHANGED Dispatch!absVars
  BY <1>0, <1>1 DEF Dispatch!absVars
<1>2. ASSUME NEW v, call' = [call EXCEPT ![c] = v], UNCHANGED issued,
             \A e \in WorkEvents : v.arg = e <=> call[c].arg = e,
             \A e \in WorkEvents : e \in deferred' <=> e \in deferred
      PROVE  UNCHANGED Dispatch!absVars
  <2>1. call'[c] = v /\ \A d \in Callers : d # c => call'[d] = call[d]
    BY <1>0, <1>2
  <2>2. \A e \in WorkEvents : (\A d \in Callers : call'[d].arg # e)
                              <=> (\A d \in Callers : call[d].arg # e)
    BY <1>2, <2>1
  <2>3. QED BY <1>1, <1>2, <2>2, SignalledKept
<1>3. ASSUME NEW g \in Events, BeginSignal(c, g) PROVE UNCHANGED Dispatch!absVars
  <2>1. call[c] = Idle /\ issued' = issued \cup {g} /\ g \notin issued /\ UNCHANGED deferred
    BY <1>3 DEF BeginSignal, MayCall, histVars
  <2>2. PICK o : call' = [call EXCEPT ![c] = [op |-> o, arg |-> g]]
    BY <1>3 DEF BeginSignal
  <2>3. call'[c].arg = g /\ \A d \in Callers : d # c => call'[d] = call[d]
    BY <1>0, <2>2
  <2>4. ASSUME NEW e \in WorkEvents
        PROVE  e \in issued' /\ (\A d \in Callers : call'[d].arg # e)
               <=> e \in issued /\ (\A d \in Callers : call[d].arg # e)
    <3>1. call[c].arg # e
      BY <2>1, WorkDiffers
    <3>2. CASE e = g
      BY <2>1, <2>3, <3>2
    <3>3. CASE e # g
      BY <2>1, <2>3, <3>1, <3>3
    <3>4. QED BY <3>2, <3>3
  <2>5. QED BY <1>1, <2>1, <2>4, SignalledKept
<1>4. CASE StartHandlerOnce(c)
  <2>1. /\ call[c].op = "once" /\ call' = [call EXCEPT ![c] = [call[c] EXCEPT !.op = "send"]]
        /\ UNCHANGED <<issued, deferred>>
    BY <1>4 DEF StartHandlerOnce, histVars
  <2>2. call[c] = [op |-> "once", arg |-> call[c].arg]
    BY <2>1, CallArg
  <2>3. [call[c] EXCEPT !.op = "send"].arg = call[c].arg
    BY <2>2
  <2>4. QED BY <1>2, <2>1, <2>3
<1>5. ASSUME NEW n \in Nodes, Resume(c, n) PROVE UNCHANGED Dispatch!absVars
  <2>1. [op |-> "resume", arg |-> n].arg = n
    OBVIOUS
  <2>2. \A e \in WorkEvents : n # e /\ call[c].arg # e
    BY <1>5, WorkDiffers DEF Resume, MayCall
  <2>3. QED BY <1>2, <1>5, <2>1, <2>2 DEF Resume, histVars
<1>6. CASE SendResume(c)
  <2>1. \A e \in WorkEvents : Idle.arg # e /\ call[c].arg # e
    BY <1>6, CallArg, WorkDiffers DEF SendResume
  <2>2. QED BY <1>2, <1>6, <2>1 DEF SendResume, histVars
<1>7. CASE EndSignal(c)
  <2>0. PICK m : m = call[c].arg
    OBVIOUS
  <2>1. /\ call[c].op = "send" /\ call' = [call EXCEPT ![c] = Idle] /\ UNCHANGED issued
        /\ deferred' \in {deferred, deferred \cup {m}}
    BY <1>7, <2>0 DEF EndSignal, SignalEvent, SignalEventAfter
  <2>2. \A e \in WorkEvents : Idle.arg # e
    BY WorkDiffers
  <2>3. CASE m \notin WorkEvents
    BY <1>2, <2>0, <2>1, <2>2, <2>3
  <2>4. CASE m \in WorkEvents
    <3>1. m \in issued /\ Calls(m) = {c}
      BY <2>0, <2>4, PendingPlaces
    <3>2. call'[c] = Idle /\ \A d \in Callers : d # c => call'[d] = call[d]
      BY <1>0, <2>1
    <3>3. Signalled' = Signalled \cup {m}
      <4>1. \A d \in Callers : call[d].arg = m => d = c
        BY <3>1 DEF Calls
      <4>2. \A d \in Callers : call'[d].arg # m
        BY <2>2, <2>4, <3>2, <4>1
      <4>3. ASSUME NEW e \in WorkEvents, e # m
            PROVE  (\A d \in Callers : call'[d].arg # e)
                   <=> (\A d \in Callers : call[d].arg # e)
        BY <2>0, <2>2, <3>2, <4>3
      <4>4. QED BY <2>1, <2>4, <3>1, <4>2, <4>3 DEF Signalled
    <3>4. m \notin Signalled
      BY <2>0 DEF Signalled
    <3>5. Loose' \in {Loose, Loose \cup {m}}
      BY <2>1, <3>3, <3>4 DEF Loose
    <3>6. Dispatch!Signal(m)
      BY <1>0, <2>4, <3>3, <3>4, <3>5 DEF Dispatch!Signal
    <3>7. QED BY <2>4, <3>6
  <2>5. QED BY <2>3, <2>4
<1>8. QED BY <1>3, <1>4, <1>5, <1>6, <1>7 DEF Call

(* A handler: receiving an event begins it, and the earlier ones of its    *)
(* caller have begun; the end of the action finishes it.                   *)
LEMMA HandlerRefines ==
  ASSUME IInv, PlaceInv, OrderInv, NEW n \in Nodes, Handler(n) \/ HandlerTimeout(n)
  PROVE  \/ \E e \in WorkEvents : Dispatch!Begin(e)
         \/ Dispatch!Finish(n)
         \/ UNCHANGED Dispatch!absVars
<1>0. UNCHANGED <<call, issued, deferred>>
  BY HandlerFrame DEF callVars
<1>1. Signalled' = Signalled /\ Loose' = Loose
  BY <1>0, SignalledKept
<1>2. /\ currentEvent \in [Nodes -> WorkEvents \cup {None}]
      /\ rxEvents \in [Nodes -> Seq(WorkEvents)]
  BY DEF IInv, TypeOK, TypeHandler, TypeNode
<1>3. CASE UNCHANGED <<currentEvent, done>>
  BY <1>1, <1>3 DEF Dispatch!absVars
<1>4. CASE ReceiveEvent(n)
  <2>0. PICK q \in Seq(WorkEvents) : q = rxEvents[n]
    BY <1>2
  <2>1. /\ hpc[n] = "recv" /\ q # <<>> /\ UNCHANGED done
        /\ currentEvent' = [currentEvent EXCEPT ![n] = Head(q)]
    BY <1>4, <2>0 DEF ReceiveEvent, histVars
  <2>2. PICK e \in WorkEvents : e = Head(q)
    BY <2>0, <2>1
  <2>3. e.dst = n /\ In(q, e)
    <3>1. Len(q) \in Nat \ {0} /\ e = q[1]
      BY <2>0, <2>1, <2>2
    <3>2. 1 \in 1 .. Len(q)
      BY <3>1
    <3>3. QED BY <2>0, <3>1, <3>2 DEF PlaceInv, In
  <2>4. e.secs \in Nat
    BY WorkFacts, EventLoopAssumption
  <2>5. /\ e \in issued /\ Calls(e) = {} /\ ~Begun(e)
    <3>1. /\ InCall(e) \in Nat /\ InChan(e) \in Nat /\ InTimed(e) \in Nat /\ InEv(e) \in Nat
          /\ InDisp(e) \in {0, 1} /\ InRx(e) \in Nat /\ InRun(e) \in {0, 1}
          /\ InDone(e) \in {0, 1}
      BY PlaceFacts
    <3>2. FinitePlaces(e) /\ PlaceSum(e) = IF e \in issued THEN 1 ELSE 0
      BY DEF PlaceInv
    <3>3. InRx(e) # 0
      BY <2>0, <2>3, OccurrencesIn DEF InRx
    <3>4. PlaceSum(e) <= 1
      BY <3>2
    <3>5. InCall(e) = 0 /\ InRun(e) = 0 /\ InDone(e) = 0 /\ PlaceSum(e) # 0
      <4>1. /\ InDisp(e) \in Nat /\ InRun(e) \in Nat /\ InDone(e) \in Nat
            /\ InRx(e) >= 1
        BY <3>1, <3>3
      <4>2. PlaceSum(e) >= InRx(e) + InCall(e) + InRun(e) + InDone(e)
        BY <3>1, <4>1, SMTT(40) DEF PlaceSum
      <4>3. PlaceSum(e) \in Nat
        BY <3>2
      <4>4. QED BY <3>1, <3>4, <4>1, <4>2, <4>3
    <3>6. Calls(e) = {}
      BY <3>2, <3>5, FS_EmptySet DEF InCall, FinitePlaces
    <3>7. QED BY <3>2, <3>5, <3>6 DEF InRun, InDone, Begun
  <2>6. e \in Signalled
    BY <2>5 DEF Signalled, Calls
  <2>7. currentEvent[e.dst] = None
    BY <2>1, <2>3 DEF IInv, CountInv
  <2>8. ASSUME e \notin Loose, NEW f \in Signalled \ Loose,
               f.src = e.src, f.dst = e.dst, f.id < e.id
        PROVE  Begun(f)
    <3>1. f \in WorkEvents /\ Strict(e) /\ Strict(f) /\ Earlier(f, e)
      BY <2>6, <2>8 DEF Signalled, Strict, Earlier
    <3>2. Ordered(f, e)
      BY <3>1 DEF OrderInv
    <3>3. ~Ahead(q, f, e)
      BY <2>0, <2>1, <2>2, AheadTail
    <3>4. QED BY <2>0, <2>3, <3>2, <3>3 DEF Ordered
  <2>9. \A f \in WorkEvents : Dispatch!Begun(f) <=> Begun(f)
    BY DEF Dispatch!Begun, Begun
  <2>10. Signalled \subseteq WorkEvents
    BY DEF Signalled
  <2>11. e \notin Loose =>
           \A f \in Signalled \ Loose :
             f.src = e.src /\ f.dst = e.dst /\ f.id < e.id => Dispatch!Begun(f)
    BY <2>8, <2>9, <2>10
  <2>12. Dispatch!Begin(e)
    BY <1>1, <2>1, <2>2, <2>3, <2>5, <2>6, <2>7, <2>9, <2>11 DEF Dispatch!Begin
  <2>13. QED BY <2>12
<1>5. ASSUME NEW next, EventDone(n, next) PROVE Dispatch!Finish(n)
  <2>1. /\ hpc[n] = "run" /\ done' = done \cup {currentEvent[n]}
        /\ currentEvent' = [currentEvent EXCEPT ![n] = None]
    BY <1>5 DEF EventDone
  <2>2. currentEvent[n] # None /\ currentEvent[n] \in WorkEvents
    BY <1>2, <2>1 DEF IInv, CountInv
  <2>3. (done \cap WorkEvents)' = (done \cap WorkEvents) \cup {currentEvent[n]}
    BY <2>1, <2>2
  <2>4. QED BY <1>1, <2>1, <2>2, <2>3 DEF Dispatch!Finish
<1>6. QED
  BY <1>3, <1>4, <1>5 DEF Handler, HandlerTimeout, WaitLoop, FinishEvent, PanicHandler,
                          Suspend, SignalSuspended, WakeSuspended, handlerVars, histVars

(* The loop, the data pollers and the runtime do nothing a caller sees.    *)
LEMMA OthersRefine ==
  ASSUME IInv, LoopStep \/ WaitNodeTimeout \/ (\E p \in Pollers : Poller(p))
               \/ Tick \/ FireTimer
  PROVE  UNCHANGED Dispatch!absVars
<1>1. UNCHANGED <<currentEvent, call, issued>>
  BY LoopFrame, PollerFrame, RuntimeFrame DEF callVars, handlerVars
<1>2. \A e \in WorkEvents : e \in deferred' <=> e \in deferred
  <2>1. ASSUME NEW m \in {Interrupt, QuitEvent}, SignalEvent(m), NEW e \in WorkEvents
        PROVE  e \in deferred' <=> e \in deferred
    BY <2>1, WorkDiffers DEF SignalEvent
  <2>2. CASE UNCHANGED deferred
    BY <2>2
  <2>3. QED
    BY <2>1, <2>2, RuntimeFrame
       DEF LoopStep, WaitNodeTimeout, SetEventWait, ArmTimer, DoEventWait, ExpireEvent,
           WaitTimeout, ClearEventWait, DoEventNoWait, ReceiveLoopEvent, AllExpired,
           AdvanceAdd, SendRxEvent, SignalNode, WaitNode, InactivateNode, EndDoEvents,
           DoPollers, Poller, ChangeActive, InterruptLoop, histVars
<1>3. (done \cap WorkEvents)' = done \cap WorkEvents
  <2>1. CASE UNCHANGED done
    BY <2>1 DEF WorkEvents
  <2>2. ASSUME NEW x \in ev, ExpireEvent(x)
        PROVE  (done \cap WorkEvents)' = done \cap WorkEvents
    <3>1. UNCHANGED done \/ (x.e.kind # "work" /\ done' = done \cup {x.e})
      BY <2>2 DEF ExpireEvent, histVars
    <3>2. QED BY <3>1 DEF WorkEvents
  <2>3. QED
    BY <2>1, <2>2, PollerFrame, RuntimeFrame
       DEF LoopStep, WaitNodeTimeout, SetEventWait, ArmTimer, DoEventWait,
           WaitTimeout, ClearEventWait, DoEventNoWait, ReceiveLoopEvent, AllExpired,
           AdvanceAdd, SendRxEvent, SignalNode, WaitNode, InactivateNode, EndDoEvents,
           DoPollers, histVars
<1>4. Signalled' = Signalled /\ Loose' = Loose
  BY <1>1, <1>2, SignalledKept
<1>5. QED BY <1>1, <1>3, <1>4 DEF Dispatch!absVars

(* The loop implements EventDispatch: an event runs at most once, on the   *)
(* node it was sent to, one at a time per node, and the events that one    *)
(* caller sends to one node through the event channel begin in the order   *)
(* they were sent, for every number of nodes, callers, events and pollers, *)
(* with overflow, timers, suspension, panics and stale active indices.     *)
THEOREM DispatchRefined == Spec => DispatchesInOrder
<1>1. Init => Dispatch!AbsInit
  <2> SUFFICES ASSUME Init PROVE Dispatch!AbsInit
    OBVIOUS
  <2>1. /\ currentEvent = [n \in Nodes |-> None] /\ done = {} /\ issued \subseteq Boot
    BY DEF Init
  <2>2. \A b \in Boot : b.secs > 0
    BY EventLoopAssumption
  <2>3. Signalled \in SUBSET WorkEvents /\ Loose = Signalled
    BY <2>1, <2>2 DEF Signalled, Loose
  <2>4. QED BY <2>1, <2>3 DEF Dispatch!AbsInit
<1>2. IInv /\ PlaceInv /\ OrderInv /\ [Next]_vars => [Dispatch!AbsNext]_(Dispatch!absVars)
  <2>1. ASSUME UNCHANGED vars PROVE UNCHANGED Dispatch!absVars
    <3>1. UNCHANGED <<call, issued, deferred, currentEvent, done>>
      BY <2>1 DEF vars, handlerVars, callVars, histVars
    <3>2. Signalled' = Signalled /\ Loose' = Loose
      BY <3>1, SignalledKept
    <3>3. QED BY <3>1, <3>2 DEF Dispatch!absVars
  <2>2. ASSUME IInv, PlaceInv, OrderInv, Step
        PROVE  Dispatch!AbsNext \/ UNCHANGED Dispatch!absVars
    BY <2>2, CallRefines, HandlerRefines, OthersRefine DEF Step, Dispatch!AbsNext
  <2>3. QED BY <2>1, <2>2 DEF Next, Asleep, Exited
<1>3. QED
  BY <1>1, <1>2, Inductive, PlacesInductive, OrderInductive, PTL
     DEF Spec, DispatchesInOrder, Dispatch!AbsSpec
-----------------------------------------------------------------------------
(* Suspend, Resume and the active vector.  Two comments of event.go, that  *)
(* activeIndex is the node's position in the vector and that hasHandler    *)
(* says that there is a handler, do not hold of the code; as long as they  *)
(* do, no node is left behind and Suspend and Resume pair up.              *)
IsActive(n) == started[n] /\ activeIndex[n] # NoIndex
Active == {n \in Nodes : IsActive(n)}
Leaving(n) == In(inactiveNodes, n)

Awake(n) == ~s[n].suspended /\ ~s[n].resumed
Pending(n) == (s[n].suspended /\ ~s[n].resumed) \/ (~s[n].suspended /\ s[n].resumed)

(* A node not started has the zero value of activeIndex and no events.     *)
StartInv(n) == ~started[n] => activeIndex[n] = 0 /\ activeCount[n] = 0

(* What an answer on its way to the loop says of the handler.              *)
AnswerInv(n) ==
  /\ fromNode[n] = <<TRUE>> => hpc[n] \in {"wait", "dead"}
  /\ fromNode[n] = <<FALSE>> => hpc[n] = "suspended"

(* A suspended node owes or awaits a resume until the resume event put it  *)
(* back into the vector: from then on it may be signalled again.           *)
Back(n) == IsActive(n) /\ fromNode[n] = <<>> /\ ~Leaving(n)
SuspendInv(n) ==
  /\ hpc[n] \notin {"suspend", "suspended"} => Awake(n)
  /\ hpc[n] = "suspend" => Pending(n)
  /\ hpc[n] = "suspended" => IF Back(n) THEN Awake(n) ELSE Pending(n)

(* A node with events is in the vector or waits for its resume.            *)
NeedInv(n) ==
  activeCount[n] > 0 => IsActive(n) \/ (hpc[n] = "suspended" /\ Pending(n))

NodeInv(n) == StartInv(n) /\ AnswerInv(n) /\ SuspendInv(n) /\ NeedInv(n)

(* The vector is as long as there are active nodes.                        *)
ActiveInv == Len(activeNodes) = Cardinality(Active)

(* The nodes to be removed are active, different from each other, and      *)
(* suspended or without events; while the loop still waits for others they *)
(* are nodes it has waited for.                                            *)
MayLeave(n) ==
  /\ IsActive(n)
  /\ Pending(n) \/ activeCount[n] = 0
  /\ lpc = "finish" => \E j \in 1 .. li - 1 : activeNodes[j] = n
LeavingInv ==
  /\ \A j, k \in 1 .. Len(inactiveNodes) :
       inactiveNodes[j] = inactiveNodes[k] => j = k
  /\ \A k \in 1 .. Len(inactiveNodes) : MayLeave(inactiveNodes[k])

ResumeCalls(n) == {c \in Callers : call[c] = [op |-> "resume", arg |-> n]}
FlightInv(n) ==
  /\ IsFiniteSet(ResumeCalls(n))
  /\ ResumesInFlight(n) = IF s[n].resumed THEN 1 ELSE 0

ResumeInv ==
  /\ \A n \in Nodes : NodeInv(n) /\ FlightInv(n)
  /\ ActiveInv
  /\ LeavingInv

(* Active nodes and positions of the vector are one to one.                *)
LEMMA Positions ==
  ASSUME IInv, ActiveInv, ActiveIndexIsPosition, lpc # "inactivate",
         NEW k \in 1 .. Len(activeNodes)
  PROVE  /\ activeNodes[k] \in Nodes /\ IsActive(activeNodes[k])
         /\ activeIndex[activeNodes[k]] = k - 1
<1> DEFINE D == 1 .. Len(activeNodes)
           f == [n \in Active |-> activeIndex[n] + 1]
<1>1. /\ activeNodes \in Seq(Nodes) /\ Len(activeNodes) \in Nat
      /\ activeIndex \in [Nodes -> Nat \cup {NoIndex}]
  BY DEF IInv, TypeOK, TypeNode
<1>2. ASSUME NEW n \in Active
      PROVE  f[n] \in D /\ activeNodes[f[n]] = n
  <2>1. n \in Nodes /\ started[n] /\ activeIndex[n] # NoIndex
    BY DEF Active, IsActive
  <2>2. activeIndex[n] < Len(activeNodes) /\ activeNodes[activeIndex[n] + 1] = n
    BY <2>1 DEF ActiveIndexIsPosition
  <2>3. activeIndex[n] \in Nat
    BY <1>1, <2>1
  <2>4. QED BY <1>1, <2>2, <2>3
<1>3. f \in [Active -> D]
  BY <1>2
<1>4. IsFiniteSet(D) /\ Cardinality(D) = Len(activeNodes)
  BY <1>1, FS_Interval
<1>5. f \in Injection(Active, D)
  <2> HIDE DEF f, D
  <2>1. QED BY <1>2, <1>3 DEF Injection, IsInjective
<1>6. f \in Surjection(Active, D)
  <2> HIDE DEF f, D
  <2>1. QED BY <1>4, <1>5, FS_Injection DEF ActiveInv
<1>7. PICK n \in Active : f[n] = k
  <2> HIDE DEF f
  <2>1. QED BY <1>6 DEF Surjection
<1>8. n = activeNodes[k]
  <2> HIDE DEF f
  <2>1. QED BY <1>2, <1>7
<1>9. activeIndex[n] + 1 = k /\ n \in Nodes /\ IsActive(n)
  BY <1>7 DEF Active
<1>10. activeIndex[n] \in Nat
  BY <1>1, <1>9 DEF IsActive
<1>11. QED BY <1>8, <1>9, <1>10

(* Where a node's token is.                                                *)
LEMMA Tokens ==
  ASSUME IInv, ResumeInv, ActiveIndexIsPosition, NEW n \in Nodes
  PROVE  /\ toNode[n] = 1 => ~Executing(n) /\ fromNode[n] = <<>>
         /\ Executing(n) => fromNode[n] = <<>>
         /\ toNode[n] = 1 \/ Executing(n) \/ fromNode[n] # <<>> =>
              lpc \in {"start", "finish"} /\ IsActive(n) /\ ~Leaving(n)
         /\ Leaving(n) => lpc \in {"finish", "inactivate"}
<1>1. /\ activeNodes \in Seq(Nodes) /\ Len(activeNodes) \in Nat
      /\ inactiveNodes \in Seq(Nodes) /\ Len(inactiveNodes) \in Nat
      /\ toNode[n] \in {0, 1} /\ li \in Nat \ {0}
  BY DEF IInv, TypeOK, TypeNode, TypeLoop
<1>2. Leaving(n) => lpc \in {"finish", "inactivate"}
  BY <1>1 DEF IInv, InactiveInv, Leaving, In
<1> DEFINE O == OwedTo(n)
<1>3. Token(n) = Cardinality(O)
  BY DEF IInv, TokenInv
<1>4. lpc \notin {"start", "finish"} => O = {}
  BY DEF OwedTo
<1>5. lpc \in {"start", "finish"} =>
        li <= Len(activeNodes) + 1
  BY DEF IInv, TokenInv
<1>6. ASSUME NEW k \in O
      PROVE  /\ lpc \in {"start", "finish"} /\ k \in 1 .. Len(activeNodes)
             /\ activeNodes[k] = n /\ (lpc = "finish" => k >= li)
  BY <1>1, <1>5 DEF OwedTo
<1> HIDE DEF O
<1>7. ASSUME NEW k \in O PROVE IsActive(n) /\ activeIndex[n] = k - 1 /\ k \in Nat
  <2>1. lpc # "inactivate" /\ k \in 1 .. Len(activeNodes) /\ activeNodes[k] = n
    BY <1>6
  <2>2. IsActive(activeNodes[k]) /\ activeIndex[activeNodes[k]] = k - 1
    BY <2>1, Positions DEF ResumeInv
  <2>3. QED BY <1>1, <2>1, <2>2
<1>8. ASSUME NEW j \in O, NEW k \in O PROVE j = k
  BY <1>7, <1>7
<1>9. Cardinality(O) \in {0, 1} /\ (Cardinality(O) = 1 => O # {})
  <2>1. CASE O = {}
    BY <2>1, FS_EmptySet
  <2>2. CASE O # {}
    <3>1. PICK k \in O : TRUE
      BY <2>2
    <3>2. O = {k}
      BY <1>8, <3>1
    <3>3. QED BY <2>2, <3>2, FS_Singleton
  <2>3. QED BY <2>1, <2>2
<1>10. O # {} => ~Leaving(n)
  <2> SUFFICES ASSUME NEW k \in O, Leaving(n) PROVE FALSE
    OBVIOUS
  <2>1. lpc = "finish" /\ k \in 1 .. Len(activeNodes) /\ activeNodes[k] = n /\ k >= li
    BY <1>2, <1>6
  <2>2. PICK i \in 1 .. Len(inactiveNodes) : inactiveNodes[i] = n
    BY DEF Leaving, In
  <2>3. PICK j \in 1 .. li - 1 : activeNodes[j] = n
    BY <2>1, <2>2 DEF ResumeInv, LeavingInv, MayLeave
  <2>4. j \in 1 .. Len(activeNodes) /\ j < k
    BY <1>1, <1>5, <2>1, <2>3
  <2>5. activeIndex[n] = j - 1
    BY <2>1, <2>3, <2>4, Positions DEF ResumeInv
  <2>6. activeIndex[n] = k - 1
    BY <1>7
  <2>7. QED BY <2>1, <2>4, <2>5, <2>6
<1>11. Token(n) \in {0, 1} /\ (Token(n) = 1 => O # {})
  BY <1>3, <1>9
<1>12. Token(n) = 1 => lpc \in {"start", "finish"} /\ IsActive(n) /\ ~Leaving(n)
  BY <1>6, <1>7, <1>10, <1>11
<1>13. /\ toNode[n] = 1 => ~Executing(n) /\ fromNode[n] = <<>>
       /\ Executing(n) => fromNode[n] = <<>>
       /\ toNode[n] = 1 \/ Executing(n) \/ fromNode[n] # <<>> => Token(n) = 1
  <2> DEFINE x == IF Executing(n) THEN 1 ELSE 0
             y == IF fromNode[n] = <<>> THEN 0 ELSE 1
  <2>1. toNode[n] + x + y \in {0, 1} /\ Token(n) = toNode[n] + x + y
    BY <1>11 DEF Token
  <2>2. x \in {0, 1} /\ y \in {0, 1}
    OBVIOUS
  <2>3. (Executing(n) <=> x = 1) /\ (fromNode[n] = <<>> <=> y = 0)
    OBVIOUS
  <2> HIDE DEF x, y
  <2>4. QED BY <1>1, <2>1, <2>2, <2>3
<1>14. QED BY <1>2, <1>12, <1>13

placeVars == <<started, activeIndex, activeCount, hpc, s, fromNode, inactiveNodes>>

(* A step that changes none of these keeps every node's invariant.         *)
LEMMA NodeFrame ==
  ASSUME NEW n \in Nodes, NodeInv(n), UNCHANGED placeVars
  PROVE  NodeInv(n)'
BY DEF placeVars, NodeInv, StartInv, AnswerInv, SuspendInv, NeedInv, Back, IsActive,
       Leaving, In, Awake, Pending

(* What is said of a node is said of its own entries.                      *)
LEMMA NodeSame ==
  ASSUME NEW n \in Nodes, NodeInv(n), UNCHANGED inactiveNodes,
         started'[n] = started[n], activeIndex'[n] = activeIndex[n],
         activeCount'[n] = activeCount[n], hpc'[n] = hpc[n], s'[n] = s[n],
         fromNode'[n] = fromNode[n]
  PROVE  NodeInv(n)'
BY DEF NodeInv, StartInv, AnswerInv, SuspendInv, NeedInv, Back, IsActive,
       Leaving, In, Awake, Pending

(* The types of a node's entries.                                          *)
LEMMA NodeTypes ==
  ASSUME IInv
  PROVE  /\ started \in [Nodes -> BOOLEAN]
         /\ activeIndex \in [Nodes -> Nat \cup {NoIndex}]
         /\ activeCount \in [Nodes -> Nat]
         /\ toNode \in [Nodes -> {0, 1}]
         /\ hpc \in [Nodes -> {"off", "wait", "recv", "run", "suspend", "suspended", "dead"}]
         /\ s \in [Nodes -> [suspended : BOOLEAN, resumed : BOOLEAN]]
         /\ fromNode \in [Nodes -> {<<>>, <<TRUE>>, <<FALSE>>}]
BY DEF IInv, TypeOK, TypeNode, TypeHandler

(* Calls: starting a handler and Resume.                                   *)
LEMMA NodeCall ==
  ASSUME IInv, ResumeInv, NEW c \in Callers, Call(c), NEW n \in Nodes
  PROVE  NodeInv(n)'
<1>1. NodeInv(n)
  BY DEF ResumeInv
<1>2. ASSUME StartHandlerOnce(c) PROVE NodeInv(n)'
  <2>0. UNCHANGED <<inactiveNodes, activeCount, s, fromNode>>
    BY <1>2 DEF StartHandlerOnce, loopVars, chanVars
  <2> DEFINE d == call[c].arg.dst
  <2>1. CASE started[d] \/ d # n
    BY <1>1, <1>2, <2>0, <2>1, NodeTypes, NodeSame DEF StartHandlerOnce
  <2>2. CASE ~started[n] /\ d = n
    <3>1. started'[n] = TRUE /\ activeIndex'[n] = NoIndex /\ hpc'[n] = "wait"
      BY <1>2, <2>2, NodeTypes DEF StartHandlerOnce
    <3>2. hpc[n] = "off"
      BY <2>2 DEF IInv, CountInv
    <3>3. fromNode[n] \notin {<<TRUE>>, <<FALSE>>} /\ Awake(n) /\ activeCount[n] = 0
      BY <1>1, <2>2, <3>2 DEF NodeInv, AnswerInv, SuspendInv, StartInv
    <3>4. Awake(n)' /\ fromNode'[n] = fromNode[n] /\ activeCount'[n] = 0
      BY <2>0, <3>3 DEF Awake
    <3>5. fromNode'[n] # <<TRUE>> /\ fromNode'[n] # <<FALSE>>
      BY <3>3, <3>4
    <3>6. StartInv(n)' /\ AnswerInv(n)'
      BY <3>1, <3>5 DEF StartInv, AnswerInv
    <3>7. SuspendInv(n)' /\ NeedInv(n)'
      BY <3>1, <3>4 DEF SuspendInv, NeedInv
    <3>8. QED BY <3>6, <3>7 DEF NodeInv
  <2>3. QED BY <2>1, <2>2
<1>3. ASSUME NEW m \in Nodes, Resume(c, m) PROVE NodeInv(n)'
  <2>0. UNCHANGED <<inactiveNodes, activeCount, fromNode, hpc, activeIndex, started>>
    BY <1>3 DEF Resume, loopVars, chanVars, activeVars, startVars
  <2>1. /\ s[m].suspended /\ ~s[m].resumed
        /\ s' = [s EXCEPT ![m] = [suspended |-> FALSE, resumed |-> TRUE]]
    BY <1>3 DEF Resume, CanResume
  <2>2. CASE n # m
    BY <1>1, <2>0, <2>1, <2>2, NodeTypes, NodeSame
  <2>3. CASE n = m
    <3>1. s'[n] = [suspended |-> FALSE, resumed |-> TRUE]
      BY <2>1, <2>3, NodeTypes
    <3>2. Pending(n) /\ Pending(n)' /\ ~Awake(n)
      BY <2>1, <2>3, <3>1 DEF Pending, Awake
    <3>3. Back(n)' <=> Back(n)
      BY <2>0 DEF Back, IsActive, Leaving, In
    <3>4. StartInv(n)' /\ AnswerInv(n)'
      BY <1>1, <2>0 DEF NodeInv, StartInv, AnswerInv
    <3>5. SuspendInv(n)'
      BY <1>1, <2>0, <3>2, <3>3 DEF NodeInv, SuspendInv
    <3>6. NeedInv(n)'
      BY <1>1, <2>0, <3>2 DEF NodeInv, NeedInv, IsActive
    <3>7. QED BY <3>4, <3>5, <3>6 DEF NodeInv
  <2>4. QED BY <2>2, <2>3
<1>4. ASSUME UNCHANGED placeVars PROVE NodeInv(n)'
  BY <1>1, <1>4, NodeFrame
<1>5. QED
  BY <1>2, <1>3, <1>4
     DEF Call, BeginSignal, EndSignal, SendResume, placeVars, loopVars, chanVars,
         activeVars, handlerVars, startVars

(* A handler's own steps.                                                  *)
LEMMA NodeHandler ==
  ASSUME IInv, ResumeInv, ActiveIndexIsPosition, NEW m \in Nodes, Handler(m),
         NEW n \in Nodes
  PROVE  NodeInv(n)'
<1>0. NodeInv(n) /\ UNCHANGED <<started, activeIndex, inactiveNodes>>
  BY HandlerFrame DEF ResumeInv, startVars, loopVars
<1>1. CASE n # m
  <2>1. /\ activeCount'[n] = activeCount[n] /\ hpc'[n] = hpc[n]
        /\ s'[n] = s[n] /\ fromNode'[n] = fromNode[n]
    BY <1>1, NodeTypes
       DEF Handler, WaitLoop, ReceiveEvent, FinishEvent, PanicHandler, EventDone,
           Suspend, SignalSuspended, WakeSuspended, activeVars, chanVars
  <2>2. QED BY <1>0, <2>1, NodeSame
<1>2. CASE n = m
  <2>0. (IsActive(n)' <=> IsActive(n)) /\ (Leaving(n)' <=> Leaving(n))
    BY <1>0 DEF IsActive, Leaving, In
  <2>1. CASE WaitLoop(n) \/ ReceiveEvent(n)
    <3>1. /\ hpc[n] \in {"wait", "recv"} /\ hpc'[n] \in {"recv", "run"}
          /\ UNCHANGED <<activeCount, s, fromNode>> /\ (toNode[n] = 1 \/ Executing(n))
      BY <2>1, NodeTypes DEF WaitLoop, ReceiveEvent, activeVars, chanVars, Executing
    <3>2. fromNode[n] = <<>> /\ fromNode'[n] = <<>>
      BY <3>1, Tokens
    <3>3. Awake(n)' /\ IsActive(n) /\ IsActive(n)'
      BY <1>0, <2>0, <3>1, Tokens DEF NodeInv, SuspendInv, Awake
    <3>4. StartInv(n)'
      BY <1>0, <3>1 DEF NodeInv, StartInv
    <3>5. AnswerInv(n)'
      BY <3>2, NonEmptyAnswer DEF AnswerInv
    <3>6. QED BY <3>1, <3>3, <3>4, <3>5 DEF NodeInv, SuspendInv, NeedInv
  <2>2. ASSUME NEW next \in {"wait", "dead"}, EventDone(n, next) PROVE NodeInv(n)'
    <3>1. /\ hpc[n] = "run" /\ hpc'[n] = next /\ fromNode'[n] = <<TRUE>>
          /\ activeCount'[n] = activeCount[n] - 1
      BY <2>2, NodeTypes DEF EventDone, LessOneEvent
    <3>2. Awake(n) /\ IsActive(n) /\ started[n] /\ started'[n]
      BY <1>0, <3>1, Tokens DEF NodeInv, SuspendInv, Executing, IsActive
    <3>3. UNCHANGED s
      BY <2>2, <3>2 DEF EventDone, Awake
    <3>4. Awake(n)' /\ IsActive(n)'
      BY <2>0, <3>2, <3>3 DEF Awake
    <3>5. <<TRUE>> # <<FALSE>>
      OBVIOUS
    <3>6. QED BY <3>1, <3>2, <3>4, <3>5 DEF NodeInv, StartInv, AnswerInv, SuspendInv, NeedInv
  <2>3. CASE Suspend(n)
    <3>1. /\ hpc[n] = "run" /\ hpc'[n] = "suspend"
          /\ UNCHANGED <<fromNode, activeCount>>
          /\ s'[n] = [suspended |-> TRUE, resumed |-> FALSE]
      BY <2>3, NodeTypes DEF Suspend, activeVars, chanVars
    <3>2. Pending(n)' /\ IsActive(n)' /\ started'[n] /\ fromNode'[n] = <<>>
      BY <1>0, <2>0, <3>1, Tokens DEF Pending, Executing, IsActive
    <3>3. QED BY <3>1, <3>2, NonEmptyAnswer
              DEF NodeInv, StartInv, AnswerInv, SuspendInv, NeedInv
  <2>4. CASE SignalSuspended(n)
    <3>1. /\ hpc[n] = "suspend" /\ hpc'[n] = "suspended" /\ fromNode'[n] = <<FALSE>>
          /\ UNCHANGED <<activeCount, s>>
      BY <2>4, NodeTypes DEF SignalSuspended, activeVars
    <3>2. Pending(n)' /\ IsActive(n)' /\ started'[n]
      BY <1>0, <2>0, <3>1, Tokens DEF Pending, Executing, IsActive, NodeInv, SuspendInv
    <3>3. ~Back(n)' /\ fromNode'[n] # <<TRUE>>
      BY <3>1, NonEmptyAnswer DEF Back
    <3>4. QED BY <3>1, <3>2, <3>3
              DEF NodeInv, StartInv, AnswerInv, SuspendInv, NeedInv
  <2>5. CASE WakeSuspended(n)
    <3>1. /\ hpc[n] = "suspended" /\ hpc'[n] = "run" /\ toNode[n] = 1
          /\ UNCHANGED <<activeCount, s, fromNode>>
      BY <2>5, NodeTypes DEF WakeSuspended, activeVars
    <3>2. Back(n) /\ IsActive(n)' /\ started'[n] /\ fromNode'[n] = <<>>
      BY <1>0, <2>0, <3>1, Tokens DEF Back, IsActive
    <3>3. Awake(n)'
      BY <1>0, <3>1, <3>2 DEF NodeInv, SuspendInv, Awake
    <3>4. QED BY <3>1, <3>2, <3>3, NonEmptyAnswer
              DEF NodeInv, StartInv, AnswerInv, SuspendInv, NeedInv
  <2>6. QED BY <1>2, <2>1, <2>2, <2>3, <2>4, <2>5 DEF Handler, FinishEvent, PanicHandler
<1>3. QED BY <1>1, <1>2

(* addActive of a started node: it is active, and no other node changes.   *)
LEMMA AddActiveNode ==
  ASSUME IInv, NEW d \in Nodes, AddActive(d), started[d], UNCHANGED started
  PROVE  /\ IsActive(d)'
         /\ \A n \in Nodes : n # d => activeIndex'[n] = activeIndex[n]
         /\ ActiveInv => ActiveInv'
<1>1. /\ activeNodes \in Seq(Nodes) /\ Len(activeNodes) \in Nat
      /\ activeIndex \in [Nodes -> Nat \cup {NoIndex}]
  BY DEF IInv, TypeOK, TypeNode
<1>2. CASE activeIndex[d] # NoIndex
  BY <1>2 DEF AddActive, IsActive, ActiveInv, Active
<1>3. CASE activeIndex[d] = NoIndex
  <2>1. /\ activeIndex' = [activeIndex EXCEPT ![d] = Len(activeNodes)]
        /\ activeNodes' = Append(activeNodes, d)
    BY <1>3 DEF AddActive
  <2>2. activeIndex'[d] = Len(activeNodes) /\ activeIndex'[d] # NoIndex
    BY <1>1, <2>1 DEF NoIndex
  <2>3. \A n \in Nodes : n # d => activeIndex'[n] = activeIndex[n]
    BY <1>1, <2>1
  <2>4. Len(activeNodes') = Len(activeNodes) + 1
    BY <1>1, <2>1
  <2>5. Active' = Active \cup {d} /\ d \notin Active
    BY <1>3, <2>2, <2>3 DEF Active, IsActive
  <2>6. IsFiniteSet(Active)
    BY EventLoopAssumption, FS_Subset DEF Active
  <2>7. Cardinality(Active') = Cardinality(Active) + 1
    BY <2>5, <2>6, FS_AddElement
  <2>8. QED BY <2>2, <2>3, <2>4, <2>7 DEF IsActive, ActiveInv
<1>4. QED BY <1>2, <1>3

(* An event is dispatched to its node.                                     *)
LEMMA NodeQueue ==
  ASSUME IInv, ResumeInv, NEW e \in WorkEvents, QueueToNode(e),
         DispatchedNodeHasHandler',
         UNCHANGED <<started, hpc, s, fromNode, inactiveNodes>>
  PROVE  (\A n \in Nodes : NodeInv(n)') /\ ActiveInv'
<1> DEFINE d == e.dst
<1>1. /\ d \in Nodes /\ activeCount' = [activeCount EXCEPT ![d] = activeCount[d] + 1]
      /\ lpc' = "sendRx" /\ disp' = e
  BY WorkFacts, QueueToNodeType
<1>2. started[d]
  BY <1>1 DEF DispatchedNodeHasHandler
<1>3. activeCount[d] \in Nat /\ activeCount'[d] = activeCount[d] + 1
      /\ \A n \in Nodes : n # d => activeCount'[n] = activeCount[n]
  BY <1>1, NodeTypes
<1>4. IF activeCount[d] = 0 THEN AddActive(d) ELSE UNCHANGED <<activeNodes, activeIndex>>
  BY <1>3 DEF QueueToNode, FirstQueued
<1>5. /\ ActiveInv'
      /\ \A n \in Nodes : n # d => activeIndex'[n] = activeIndex[n]
      /\ IF activeCount[d] = 0 THEN IsActive(d)' ELSE UNCHANGED <<activeIndex>>
  <2>1. CASE activeCount[d] = 0
    BY <1>1, <1>2, <1>4, <2>1, AddActiveNode DEF ResumeInv
  <2>2. CASE activeCount[d] # 0
    BY <1>4, <2>2 DEF ResumeInv, ActiveInv, Active, IsActive
  <2>3. QED BY <2>1, <2>2
<1>6. ASSUME NEW n \in Nodes PROVE NodeInv(n)'
  <2>0. NodeInv(n)
    BY DEF ResumeInv
  <2>1. CASE n # d
    BY <1>3, <1>5, <2>0, <2>1, NodeSame
  <2>2. CASE n = d
    <3>1. started'[n] /\ StartInv(n)' /\ AnswerInv(n)'
      BY <1>2, <2>0, <2>2 DEF StartInv, AnswerInv, NodeInv
    <3>2. (Awake(n)' <=> Awake(n)) /\ (Pending(n)' <=> Pending(n)) /\ hpc'[n] = hpc[n]
      BY DEF Awake, Pending
    <3>3. CASE activeCount[d] # 0
      <4>1. (Back(n)' <=> Back(n)) /\ (IsActive(n)' <=> IsActive(n))
        BY <1>5, <3>3 DEF Back, IsActive, Leaving, In
      <4>2. SuspendInv(n)'
        BY <2>0, <3>2, <4>1 DEF NodeInv, SuspendInv
      <4>3. NeedInv(n)'
        BY <1>3, <2>0, <2>2, <3>2, <3>3, <4>1 DEF NodeInv, NeedInv
      <4>4. QED BY <3>1, <4>2, <4>3 DEF NodeInv
    <3>4. CASE activeCount[d] = 0
      <4>1. IsActive(n)'
        BY <1>5, <2>2, <3>4
      <4>2. hpc[n] \notin {"run", "suspend", "suspended"}
        <5>1. Counted(n) /\ Held(n) \in {0, 1} /\ Sent(n) \in {0, 1} /\ Len(rxEvents[n]) \in Nat
          BY CountedFacts
        <5>2. Held(n) = 0
          BY <2>2, <3>4, <5>1 DEF Counted
        <5>3. QED BY <5>2 DEF Held, IInv, CountInv
      <4>3. SuspendInv(n)'
        BY <2>0, <3>2, <4>2 DEF NodeInv, SuspendInv
      <4>4. QED BY <3>1, <4>1, <4>3 DEF NodeInv, NeedInv
    <3>5. QED BY <3>3, <3>4
  <2>3. QED BY <2>1, <2>2
<1>7. QED BY <1>5, <1>6

(* A resume event on its way says that its node is suspended, has answered *)
(* the loop and has left the vector.                                       *)
LEMMA ResumeArrives ==
  ASSUME IInv, ResumeInv, ActiveIndexIsPosition, NEW d \in Nodes,
         s[d].resumed, lpc \notin {"start", "finish", "inactivate"}
  PROVE  /\ hpc[d] = "suspended" /\ Pending(d) /\ ~s[d].suspended
         /\ ~Leaving(d) /\ fromNode[d] = <<>> /\ started[d] /\ ~IsActive(d)
<1>1. ~Awake(d) /\ NodeInv(d)
  BY DEF Awake, ResumeInv
<1>2. ~Executing(d) /\ fromNode[d] = <<>> /\ ~Leaving(d)
  BY Tokens
<1>3. hpc[d] = "suspended"
  BY <1>1, <1>2 DEF NodeInv, SuspendInv, Executing
<1>4. ~Back(d) /\ Pending(d)
  BY <1>1, <1>3 DEF NodeInv, SuspendInv
<1>5. started[d]
  BY <1>3, NodeTypes DEF IInv, CountInv
<1>6. QED BY <1>2, <1>3, <1>4, <1>5 DEF Back, Pending

(* The resume event is dispatched: the node enters the vector again.       *)
LEMMA NodeResumed ==
  ASSUME IInv, ResumeInv, ActiveIndexIsPosition, NEW d \in Nodes, AddActive(d),
         s[d].resumed, lpc \notin {"start", "finish", "inactivate"},
         s' = [s EXCEPT ![d].resumed = FALSE],
         UNCHANGED <<started, activeCount, hpc, fromNode, inactiveNodes>>
  PROVE  (\A n \in Nodes : NodeInv(n)') /\ ActiveInv'
<1>1. /\ hpc[d] = "suspended" /\ ~s[d].suspended
      /\ ~Leaving(d) /\ fromNode[d] = <<>> /\ started[d]
  BY ResumeArrives
<1>2. /\ IsActive(d)' /\ ActiveInv'
      /\ \A n \in Nodes : n # d => activeIndex'[n] = activeIndex[n]
  BY <1>1, AddActiveNode DEF ResumeInv
<1>3. ASSUME NEW n \in Nodes PROVE NodeInv(n)'
  <2>1. CASE n # d
    <3>1. s'[n] = s[n]
      BY <2>1, NodeTypes
    <3>2. QED BY <1>2, <2>1, <3>1, NodeSame DEF ResumeInv
  <2>2. CASE n = d
    <3>1. ~s'[n].resumed /\ s'[n].suspended = s[n].suspended
      BY <2>2, NodeTypes
    <3>2. Awake(n)' /\ Back(n)' /\ IsActive(n)' /\ started'[n]
      BY <1>1, <1>2, <2>2, <3>1 DEF Awake, Back, Leaving, In
    <3>3. AnswerInv(n)'
      BY <1>1, <2>2, NonEmptyAnswer DEF AnswerInv
    <3>4. QED BY <1>1, <2>2, <3>2, <3>3 DEF NodeInv, StartInv, SuspendInv, NeedInv
  <2>3. QED BY <2>1, <2>2
<1>4. QED BY <1>2, <1>3

(* The loop waits for the next node of the vector.                         *)
LEMMA ResumeWaitNode ==
  ASSUME IInv, ResumeInv, ActiveIndexIsPosition, WaitNode
  PROVE  (\A n \in Nodes : NodeInv(n)') /\ LeavingInv'
<1>1. /\ UNCHANGED <<started, activeIndex, activeCount, activeNodes, hpc, s>>
      /\ lpc = "finish"
  BY DEF WaitNode, startVars, activeVars, handlerVars
<1>2. /\ activeNodes \in Seq(Nodes) /\ Len(activeNodes) \in Nat
      /\ inactiveNodes \in Seq(Nodes) /\ Len(inactiveNodes) \in Nat
      /\ li \in Nat \ {0}
  BY DEF IInv, TypeOK, TypeNode, TypeLoop
<1>3. CASE ~(li <= Len(activeNodes))
  <2>1. UNCHANGED <<fromNode, inactiveNodes>> /\ lpc' = "inactivate"
    BY <1>3 DEF WaitNode
  <2>2. \A n \in Nodes : NodeInv(n)'
    BY <1>1, <2>1, NodeFrame DEF placeVars, ResumeInv
  <2>3. LeavingInv'
    BY <1>1, <2>1 DEF ResumeInv, LeavingInv, MayLeave, IsActive, Pending
  <2>4. QED BY <2>2, <2>3
<1>4. CASE li <= Len(activeNodes)
  <2>0. PICK m \in Nodes : m = activeNodes[li]
    BY <1>2, <1>4
  <2>1. /\ m = activeNodes[li] /\ fromNode[m] # <<>> /\ lpc' = lpc /\ li' = li + 1
        /\ fromNode' = [fromNode EXCEPT ![m] = <<>>]
        /\ inactiveNodes' = IF BecomesInactive(m) THEN Append(inactiveNodes, m)
                            ELSE inactiveNodes
    BY <2>0, <1>4 DEF WaitNode, NodeAnswered
  <2>2. IsActive(m) /\ ~Leaving(m) /\ NodeInv(m) /\ fromNode'[m] = <<>>
    BY <2>1, Tokens, NodeTypes DEF ResumeInv
  <2>3. \A n \in Nodes : n # m => fromNode'[n] = fromNode[n]
    BY <2>1, NodeTypes
  <2>4. \A n : Leaving(n)' <=> Leaving(n) \/ (BecomesInactive(m) /\ n = m)
    <3>1. CASE BecomesInactive(m)
      <4>1. inactiveNodes' = Append(inactiveNodes, m)
        BY <2>1, <3>1
      <4>2. /\ Len(inactiveNodes') = Len(inactiveNodes) + 1
            /\ \A k \in 1 .. Len(inactiveNodes) : inactiveNodes'[k] = inactiveNodes[k]
            /\ inactiveNodes'[Len(inactiveNodes) + 1] = m
        BY <1>2, <2>1, <4>1
      <4>3. QED BY <1>2, <3>1, <4>2 DEF Leaving, In
    <3>2. CASE ~BecomesInactive(m)
      BY <2>1, <3>2 DEF Leaving, In
    <3>3. QED BY <3>1, <3>2
  <2>5. BecomesInactive(m) =>
          Pending(m) \/ activeCount[m] = 0
    <3>1. ASSUME BecomesInactive(m), activeCount[m] # 0 PROVE Pending(m)
      <4>1. fromNode[m] = <<FALSE>>
        BY <2>1, <3>1, NodeTypes DEF BecomesInactive
      <4>2. hpc[m] = "suspended"
        BY <2>2, <4>1 DEF NodeInv, AnswerInv
      <4>3. QED BY <2>1, <2>2, <4>2 DEF NodeInv, SuspendInv, Back
    <3>2. QED BY <3>1
  <2>6. ASSUME NEW n \in Nodes PROVE NodeInv(n)'
    <3>1. NodeInv(n)
      BY DEF ResumeInv
    <3>2. /\ (Awake(n)' <=> Awake(n)) /\ (Pending(n)' <=> Pending(n))
          /\ (IsActive(n)' <=> IsActive(n))
      BY <1>1 DEF Awake, Pending, IsActive
    <3>3. StartInv(n)' /\ NeedInv(n)'
      BY <1>1, <3>1, <3>2 DEF NodeInv, StartInv, NeedInv
    <3>4. CASE n # m
      <4>1. Leaving(n)' <=> Leaving(n)
        BY <2>4, <3>4
      <4>2. fromNode'[n] = fromNode[n]
        BY <2>3, <3>4
      <4>3. Back(n)' <=> Back(n)
        BY <3>2, <4>1, <4>2 DEF Back
      <4>4. AnswerInv(n)' /\ SuspendInv(n)'
        BY <1>1, <3>1, <3>2, <4>2, <4>3 DEF NodeInv, AnswerInv, SuspendInv
      <4>5. QED BY <3>3, <4>4 DEF NodeInv
    <3>5. CASE n = m
      <4>1. AnswerInv(n)'
        BY <2>2, <3>5, NonEmptyAnswer DEF AnswerInv
      <4>2. hpc[n] = "suspended" => Pending(n) /\ ~Back(n)'
        <5> SUFFICES ASSUME hpc[n] = "suspended" PROVE Pending(n) /\ ~Back(n)'
          OBVIOUS
        <5>1. fromNode[n] # <<TRUE>>
          BY <3>1 DEF NodeInv, AnswerInv
        <5>2. Leaving(n)'
          BY <2>4, <3>5, <5>1 DEF BecomesInactive
        <5>3. ~Back(n)
          BY <2>1, <3>5 DEF Back
        <5>4. QED BY <3>1, <5>2, <5>3 DEF NodeInv, SuspendInv, Back
      <4>3. SuspendInv(n)'
        BY <1>1, <3>1, <3>2, <4>2 DEF NodeInv, SuspendInv
      <4>4. QED BY <3>3, <4>1, <4>3 DEF NodeInv
    <3>6. QED BY <3>4, <3>5
  <2>7. LeavingInv'
    <3>1. LeavingInv
      BY DEF ResumeInv
    <3>2. \A n : MayLeave(n) => MayLeave(n)'
      <4> SUFFICES ASSUME NEW n, MayLeave(n) PROVE MayLeave(n)'
        OBVIOUS
      <4>1. PICK j \in 1 .. li - 1 : activeNodes[j] = n
        BY <1>1 DEF MayLeave
      <4>2. j \in 1 .. li' - 1 /\ activeNodes'[j] = n
        BY <1>1, <1>2, <2>1, <4>1
      <4>3. IsActive(n)' /\ (Pending(n)' \/ activeCount'[n] = 0)
        BY <1>1 DEF MayLeave, IsActive, Pending
      <4>4. QED BY <4>2, <4>3 DEF MayLeave
    <3>3. CASE ~BecomesInactive(m)
      <4>1. inactiveNodes' = inactiveNodes
        BY <2>1, <3>3
      <4>2. QED BY <3>1, <3>2, <4>1 DEF LeavingInv
    <3>4. CASE BecomesInactive(m)
      <4>1. inactiveNodes' = Append(inactiveNodes, m)
        BY <2>1, <3>4
      <4>2. /\ Len(inactiveNodes') = Len(inactiveNodes) + 1
            /\ \A k \in 1 .. Len(inactiveNodes) : inactiveNodes'[k] = inactiveNodes[k]
            /\ inactiveNodes'[Len(inactiveNodes) + 1] = m
        BY <1>2, <2>1, <4>1
      <4>3. MayLeave(m)'
        <5>1. li \in 1 .. li' - 1 /\ activeNodes'[li] = m
          BY <1>1, <1>2, <2>1
        <5>2. IsActive(m)' /\ (Pending(m)' \/ activeCount'[m] = 0)
          BY <1>1, <2>2, <2>5, <3>4 DEF IsActive, Pending
        <5>3. QED BY <5>1, <5>2 DEF MayLeave
      <4>4. \A k \in 1 .. Len(inactiveNodes) : inactiveNodes[k] # m
        BY <2>2 DEF Leaving, In
      <4>5. \A k \in 1 .. Len(inactiveNodes') :
              k \in 1 .. Len(inactiveNodes) \/ k = Len(inactiveNodes) + 1
        BY <1>2, <4>2
      <4>6. (\A k \in 1 .. Len(inactiveNodes) : MayLeave(inactiveNodes[k]))'
        <5> SUFFICES ASSUME NEW k \in 1 .. Len(inactiveNodes')
                     PROVE  MayLeave(inactiveNodes[k])'
          OBVIOUS
        <5>1. CASE k \in 1 .. Len(inactiveNodes)
          <6>1. PICK x : x = inactiveNodes[k]
            OBVIOUS
          <6>2. MayLeave(x)'
            BY <3>1, <3>2, <5>1, <6>1 DEF LeavingInv
          <6>3. inactiveNodes'[k] = x
            BY <4>2, <5>1, <6>1
          <6>4. QED BY <6>2, <6>3 DEF MayLeave, IsActive, Pending
        <5>2. CASE k = Len(inactiveNodes) + 1
          BY <4>2, <4>3, <5>2 DEF MayLeave, IsActive, Pending
        <5>3. QED BY <4>5, <5>1, <5>2
      <4>7. \A j, k \in 1 .. Len(inactiveNodes') :
              inactiveNodes'[j] = inactiveNodes'[k] => j = k
        <5> SUFFICES ASSUME NEW j \in 1 .. Len(inactiveNodes'),
                            NEW k \in 1 .. Len(inactiveNodes'),
                            inactiveNodes'[j] = inactiveNodes'[k]
                     PROVE  j = k
          OBVIOUS
        <5>1. CASE j \in 1 .. Len(inactiveNodes) /\ k \in 1 .. Len(inactiveNodes)
          BY <3>1, <4>2, <5>1 DEF LeavingInv
        <5>2. CASE j = Len(inactiveNodes) + 1 \/ k = Len(inactiveNodes) + 1
          BY <4>2, <4>4, <4>5, <5>2
        <5>3. QED BY <4>5, <5>1, <5>2
      <4>8. QED BY <4>6, <4>7 DEF LeavingInv
    <3>5. QED BY <3>3, <3>4
  <2>8. QED BY <2>6, <2>7
<1>5. QED BY <1>3, <1>4

(* A node leaves the vector.                                               *)
LEMMA ResumeInactivate ==
  ASSUME IInv, ResumeInv, ActiveIndexIsPosition, InactivateNode
  PROVE  (\A n \in Nodes : NodeInv(n)') /\ ActiveInv' /\ LeavingInv'
<1>1. /\ UNCHANGED <<started, activeCount, hpc, s, fromNode, lpc>>
      /\ lpc = "inactivate" /\ inactiveNodes # <<>>
  BY DEF InactivateNode, startVars, handlerVars, chanVars
<1>2. /\ inactiveNodes \in Seq(Nodes) /\ Len(inactiveNodes) \in Nat
      /\ activeIndex \in [Nodes -> Nat \cup {NoIndex}]
  BY DEF IInv, TypeOK, TypeNode, TypeLoop
<1>3. PICK m \in Nodes : m = Head(inactiveNodes)
  BY <1>1, <1>2
<1>4. /\ inactiveNodes' = Tail(inactiveNodes)
      /\ activeIndex' = [activeIndex EXCEPT ![m] = NoIndex]
      /\ Len(activeNodes') = Len(activeNodes) - 1 /\ Len(activeNodes) \in Nat
  BY <1>3, DelActiveType DEF InactivateNode, DelActive
<1>5. /\ Len(inactiveNodes') = Len(inactiveNodes) - 1 /\ m = inactiveNodes[1]
      /\ \A k \in 1 .. Len(inactiveNodes') :
           k + 1 \in 1 .. Len(inactiveNodes) /\ inactiveNodes'[k] = inactiveNodes[k + 1]
      /\ 1 \in 1 .. Len(inactiveNodes)
  BY <1>1, <1>2, <1>3, <1>4
<1>6. LeavingInv /\ MayLeave(m) /\ Leaving(m)
  BY <1>5 DEF ResumeInv, LeavingInv, Leaving, In
<1>7. /\ ~IsActive(m)'
      /\ \A n \in Nodes : n # m => (IsActive(n)' <=> IsActive(n))
      /\ \A n \in Nodes : n # m => activeIndex'[n] = activeIndex[n]
  BY <1>1, <1>2, <1>4 DEF IsActive
<1>8. \A n : n # m => (Leaving(n)' <=> Leaving(n))
  <2> SUFFICES ASSUME NEW n, n # m PROVE Leaving(n)' <=> Leaving(n)
    OBVIOUS
  <2>1. ASSUME Leaving(n)' PROVE Leaving(n)
    BY <1>5, <2>1 DEF Leaving, In
  <2>2. ASSUME Leaving(n) PROVE Leaving(n)'
    <3>1. PICK k \in 1 .. Len(inactiveNodes) : inactiveNodes[k] = n
      BY <2>2 DEF Leaving, In
    <3>2. k # 1
      BY <1>5, <3>1
    <3>3. k - 1 \in 1 .. Len(inactiveNodes') /\ (k - 1) + 1 = k
      BY <1>2, <1>5, <3>1, <3>2
    <3>4. inactiveNodes'[k - 1] = n
      BY <1>5, <3>1, <3>3
    <3>5. QED BY <3>3, <3>4 DEF Leaving, In
  <2>3. QED BY <2>1, <2>2
<1>9. ASSUME NEW n \in Nodes PROVE NodeInv(n)'
  <2>1. NodeInv(n)
    BY DEF ResumeInv
  <2>2. (Awake(n)' <=> Awake(n)) /\ (Pending(n)' <=> Pending(n))
    BY <1>1 DEF Awake, Pending
  <2>3. AnswerInv(n)'
    BY <1>1, <2>1 DEF NodeInv, AnswerInv
  <2>4. CASE n # m
    <3>1. StartInv(n)' /\ NeedInv(n)'
      BY <1>1, <1>7, <2>1, <2>2, <2>4 DEF NodeInv, StartInv, NeedInv
    <3>2. Back(n)' <=> Back(n)
      BY <1>1, <1>7, <1>8, <2>4 DEF Back
    <3>3. SuspendInv(n)'
      BY <1>1, <2>1, <2>2, <3>2 DEF NodeInv, SuspendInv
    <3>4. QED BY <2>3, <3>1, <3>3 DEF NodeInv
  <2>5. CASE n = m
    <3>1. ~Back(n) /\ ~Back(n)' /\ started'[n]
      BY <1>1, <1>6, <1>7, <2>5 DEF Back, MayLeave, IsActive
    <3>2. SuspendInv(n)'
      BY <1>1, <2>1, <2>2, <3>1 DEF NodeInv, SuspendInv
    <3>3. NeedInv(n)'
      <4>1. Pending(n) => hpc[n] = "suspended"
        <5>1. ~Executing(n)
          BY <1>1, Tokens
        <5>2. Pending(n) => ~Awake(n)
          BY DEF Pending, Awake
        <5>3. QED BY <2>1, <5>1, <5>2 DEF NodeInv, SuspendInv, Executing
      <4>2. Pending(n) \/ activeCount[n] = 0
        BY <1>6, <2>5 DEF MayLeave
      <4>3. QED BY <1>1, <2>2, <4>1, <4>2 DEF NeedInv
    <3>4. QED BY <2>3, <3>1, <3>2, <3>3 DEF NodeInv, StartInv
  <2>6. QED BY <2>4, <2>5
<1>10. ActiveInv'
  <2>1. Active' = Active \ {m} /\ m \in Active
    BY <1>6, <1>7 DEF Active, MayLeave
  <2>2. IsFiniteSet(Active)
    BY EventLoopAssumption, FS_Subset DEF Active
  <2>3. Cardinality(Active') = Cardinality(Active) - 1
    BY <2>1, <2>2, FS_RemoveElement
  <2>4. QED BY <1>4, <2>3 DEF ActiveInv, ResumeInv
<1>11. LeavingInv'
  <2>1. (\A k \in 1 .. Len(inactiveNodes) : MayLeave(inactiveNodes[k]))'
    <3> SUFFICES ASSUME NEW k \in 1 .. Len(inactiveNodes')
                 PROVE  MayLeave(inactiveNodes[k])'
      OBVIOUS
    <3>1. PICK x \in Nodes : x = inactiveNodes[k + 1]
      BY <1>2, <1>5
    <3>2. MayLeave(x) /\ inactiveNodes'[k] = x
      BY <1>5, <1>6, <3>1 DEF LeavingInv
    <3>3. x # m
      BY <1>2, <1>5, <1>6, <3>1 DEF LeavingInv
    <3>4. IsActive(x)' /\ (Pending(x)' \/ activeCount'[x] = 0) /\ lpc' # "finish"
      BY <1>1, <1>7, <3>2, <3>3 DEF MayLeave, Pending
    <3>5. QED BY <3>2, <3>4 DEF MayLeave, IsActive, Pending
  <2>2. \A j, k \in 1 .. Len(inactiveNodes') :
          inactiveNodes'[j] = inactiveNodes'[k] => j = k
    <3> SUFFICES ASSUME NEW j \in 1 .. Len(inactiveNodes'),
                        NEW k \in 1 .. Len(inactiveNodes'),
                        inactiveNodes'[j] = inactiveNodes'[k]
                 PROVE  j = k
      OBVIOUS
    <3>1. j + 1 = k + 1
      BY <1>5, <1>6 DEF LeavingInv
    <3>2. QED BY <1>2, <1>5, <3>1
  <2>3. QED BY <2>1, <2>2 DEF LeavingInv
<1>12. QED BY <1>9, <1>10, <1>11

(* Nothing that a node to be removed is known for changes while the loop   *)
(* still waits for others.                                                 *)
LEMMA LeavingKept ==
  ASSUME IInv, ResumeInv, UNCHANGED <<inactiveNodes, activeNodes, lpc, li>>,
         \A n \in Nodes : Leaving(n) /\ MayLeave(n) =>
           IsActive(n)' /\ (Pending(n)' \/ activeCount'[n] = 0)
  PROVE  LeavingInv'
<1>1. LeavingInv /\ inactiveNodes \in Seq(Nodes) /\ Len(inactiveNodes) \in Nat
  BY DEF ResumeInv, IInv, TypeOK, TypeLoop
<1>2. (\A k \in 1 .. Len(inactiveNodes) : MayLeave(inactiveNodes[k]))'
  <2> SUFFICES ASSUME NEW k \in 1 .. Len(inactiveNodes')
               PROVE  MayLeave(inactiveNodes[k])'
    OBVIOUS
  <2>1. PICK x \in Nodes : x = inactiveNodes[k]
    BY <1>1
  <2>2. MayLeave(x) /\ Leaving(x) /\ inactiveNodes'[k] = x
    BY <1>1, <2>1 DEF LeavingInv, Leaving, In
  <2>3. IsActive(x)' /\ (Pending(x)' \/ activeCount'[x] = 0)
    BY <2>2
  <2>4. QED BY <2>2, <2>3 DEF MayLeave, IsActive, Pending
<1>3. QED BY <1>1, <1>2 DEF LeavingInv

(* Callers and handlers leave the nodes to be removed as they are.         *)
LEMMA LeavingOthers ==
  ASSUME IInv, ResumeInv, ActiveIndexIsPosition,
         \/ \E c \in Callers : Call(c)
         \/ \E m \in Nodes : Handler(m)
  PROVE  LeavingInv' /\ ActiveInv'
<1>1. CASE \E c \in Callers : Call(c)
  <2>1. PICK c \in Callers : Call(c)
    BY <1>1
  <2>2. UNCHANGED <<inactiveNodes, activeNodes, lpc, li, activeCount>>
    BY <2>1, CallFrame DEF loopVars
  <2>3. /\ \A n \in Nodes : IsActive(n)' <=> IsActive(n)
        /\ \A n \in Nodes : Pending(n) => Pending(n)'
    <3>1. CASE StartHandlerOnce(c)
      <4>1. UNCHANGED s
        BY <3>1 DEF StartHandlerOnce
      <4>2. \A n \in Nodes : IsActive(n)' <=> IsActive(n)
        <5> DEFINE d == call[c].arg.dst
        <5>1. CASE started[d]
          BY <3>1, <5>1 DEF StartHandlerOnce, IsActive
        <5>2. CASE ~started[d]
          <6>1. /\ started' = [started EXCEPT ![d] = TRUE]
                /\ activeIndex' = [activeIndex EXCEPT ![d] = NoIndex]
            BY <3>1, <5>2 DEF StartHandlerOnce
          <6>2. \A n \in Nodes : IF n = d THEN ~IsActive(n) /\ ~IsActive(n)'
                                ELSE IsActive(n)' <=> IsActive(n)
            BY <5>2, <6>1, NodeTypes DEF IsActive
          <6>3. QED BY <6>2
        <5>3. QED BY <5>1, <5>2
      <4>3. QED BY <4>1, <4>2 DEF Pending
    <3>2. ASSUME NEW m \in Nodes, Resume(c, m)
          PROVE  /\ \A n \in Nodes : IsActive(n)' <=> IsActive(n)
                 /\ \A n \in Nodes : Pending(n) => Pending(n)'
      <4>1. /\ UNCHANGED <<started, activeIndex>>
            /\ s' = [s EXCEPT ![m] = [suspended |-> FALSE, resumed |-> TRUE]]
        BY <3>2 DEF Resume, startVars, activeVars
      <4>2. ASSUME NEW n \in Nodes, Pending(n) PROVE Pending(n)'
        <5>1. CASE n = m
          BY <4>1, <5>1, NodeTypes DEF Pending
        <5>2. CASE n # m
          BY <4>1, <4>2, <5>2, NodeTypes DEF Pending
        <5>3. QED BY <5>1, <5>2
      <4>3. QED BY <4>1, <4>2 DEF IsActive
    <3>3. CASE UNCHANGED <<started, activeIndex, s>>
      BY <3>3 DEF IsActive, Pending
    <3>4. QED BY <2>1, <3>1, <3>2, <3>3
              DEF Call, BeginSignal, EndSignal, SendResume, handlerVars, startVars, activeVars
  <2>4. LeavingInv'
    BY <2>2, <2>3, LeavingKept DEF MayLeave
  <2>5. ActiveInv'
    BY <2>2, <2>3 DEF ResumeInv, ActiveInv, Active
  <2>6. QED BY <2>4, <2>5
<1>2. CASE \E m \in Nodes : Handler(m)
  <2>1. PICK m \in Nodes : Handler(m)
    BY <1>2
  <2>2. UNCHANGED <<inactiveNodes, activeNodes, lpc, li, activeIndex, started>>
    BY <2>1, HandlerFrame DEF loopVars, startVars
  <2>3. ~Leaving(m)
    <3>1. toNode[m] = 1 \/ Executing(m)
      BY <2>1 DEF Handler, WaitLoop, ReceiveEvent, FinishEvent, PanicHandler, EventDone,
                  Suspend, SignalSuspended, WakeSuspended, Executing
    <3>2. QED BY <3>1, Tokens
  <2>4. ASSUME NEW n \in Nodes, n # m PROVE s'[n] = s[n] /\ activeCount'[n] = activeCount[n]
    <3>1. CASE \E next : EventDone(m, next)
      BY <2>4, <3>1, NodeTypes DEF EventDone
    <3>2. CASE Suspend(m)
      BY <2>4, <3>2, NodeTypes DEF Suspend, activeVars
    <3>3. CASE UNCHANGED <<s, activeCount>>
      BY <3>3
    <3>4. QED BY <2>1, <3>1, <3>2, <3>3
              DEF Handler, WaitLoop, ReceiveEvent, FinishEvent, PanicHandler,
                  SignalSuspended, WakeSuspended, activeVars
  <2>5. LeavingInv'
    BY <2>2, <2>3, <2>4, LeavingKept DEF MayLeave, IsActive, Pending
  <2>6. ActiveInv'
    BY <2>2 DEF ResumeInv, ActiveInv, Active, IsActive
  <2>7. QED BY <2>5, <2>6
<1>3. QED BY <1>1, <1>2

-----------------------------------------------------------------------------
(* Resume events on their way.                                             *)
Flying(n) == Occurrences(events, ResumeOf(n))

(* A resume message is the ResumeOf its node.                              *)
LEMMA ResumeMessages ==
  ASSUME NEW m \in Message
  PROVE  /\ m.kind = "resume" => m.dst \in Nodes /\ m = ResumeOf(m.dst)
         /\ \A n : m = ResumeOf(n) => m.kind = "resume" /\ m.dst = n
<1>1. m.kind = "resume" => \E n \in Nodes : m = ResumeOf(n)
  <2>1. CASE m \in Events
    BY <2>1, EventLoopAssumption
  <2>2. CASE m \in {Interrupt, QuitEvent}
    BY <2>2 DEF Interrupt, QuitEvent
  <2>3. QED BY <2>1, <2>2 DEF Message
<1>2. \A n : ResumeOf(n).kind = "resume" /\ ResumeOf(n).dst = n
  BY DEF ResumeOf
<1>3. QED BY <1>1, <1>2

(* Other messages come and go without a change.                            *)
LEMMA FlyingSame ==
  ASSUME IInv, NEW n \in Nodes,
         \/ UNCHANGED events
         \/ \E m \in Message : m.kind # "resume" /\ events' = Append(events, m)
         \/ events # <<>> /\ events' = Tail(events) /\ Head(events) # ResumeOf(n)
  PROVE  Flying(n)' = Flying(n)
<1>1. events \in Seq(Message)
  BY DEF IInv, TypeOK, TypeTimer
<1>2. ASSUME NEW m \in Message, m.kind # "resume", events' = Append(events, m)
      PROVE  Flying(n)' = Flying(n)
  <2>1. m # ResumeOf(n)
    BY <1>2 DEF ResumeOf
  <2>2. Occurrences(Append(events, m), ResumeOf(n)) = Occurrences(events, ResumeOf(n))
    BY <1>1, <2>1, OccurrencesAppend
  <2>3. QED BY <1>2, <2>2 DEF Flying, Occurrences, ResumeOf
<1>3. ASSUME events # <<>>, events' = Tail(events), Head(events) # ResumeOf(n)
      PROVE  Flying(n)' = Flying(n)
  <2>1. Occurrences(events, ResumeOf(n)) = Occurrences(Tail(events), ResumeOf(n))
    BY <1>1, <1>3, OccurrencesTail
  <2>2. QED BY <1>3, <2>1 DEF Flying, Occurrences, ResumeOf
<1>4. CASE UNCHANGED events
  BY <1>4 DEF Flying, Occurrences, ResumeOf
<1>5. QED BY <1>2, <1>3, <1>4

(* The channel holds a natural number of them.                             *)
LEMMA FlyingNat == ASSUME IInv, NEW n \in Nodes PROVE Flying(n) \in Nat
<1>1. events \in Seq(Message) /\ ResumeOf(n) \in Message
  BY OtherMessages DEF IInv, TypeOK, TypeTimer
<1>2. QED BY <1>1, OccurrencesAppend DEF Flying

(* Callers that do not resume.                                             *)
LEMMA ResumeCallsSame ==
  ASSUME NEW n \in Nodes,
         \A d \in Callers :
           call'[d] = call[d] \/ (call[d].op # "resume" /\ call'[d].op # "resume")
  PROVE  ResumeCalls(n)' = ResumeCalls(n)
<1>1. ASSUME NEW d \in Callers
      PROVE  call'[d] = [op |-> "resume", arg |-> n] <=> call[d] = [op |-> "resume", arg |-> n]
  <2>1. [op |-> "resume", arg |-> n].op = "resume"
    OBVIOUS
  <2> DEFINE r == [op |-> "resume", arg |-> n]
  <2> HIDE DEF r
  <2>2. r.op = "resume"
    BY <2>1 DEF r
  <2>3. call'[d] = r <=> call[d] = r
    BY <2>2
  <2>4. QED BY <2>3 DEF r
<1>2. QED BY <1>1 DEF ResumeCalls

(* What counts is what is on its way and whether the node knows.           *)
LEMMA FlightSame ==
  ASSUME NEW n \in Nodes, FlightInv(n), Flying(n)' = Flying(n),
         ResumeCalls(n)' = ResumeCalls(n), s'[n].resumed = s[n].resumed
  PROVE  FlightInv(n)'
<1>1. IsFiniteSet(ResumeCalls(n)) /\ ResumesInFlight(n) = IF s[n].resumed THEN 1 ELSE 0
  BY DEF FlightInv
<1>2. IsFiniteSet(ResumeCalls(n)')
  BY <1>1
<1>3. ResumesInFlight(n) = Flying(n) + Cardinality(ResumeCalls(n))
  BY DEF ResumesInFlight, Flying, ResumeCalls
<1>4. ResumesInFlight(n)' = Flying(n)' + Cardinality(ResumeCalls(n)')
  BY DEF ResumesInFlight, Flying, ResumeCalls
<1>5. QED BY <1>1, <1>2, <1>3, <1>4 DEF FlightInv

(* Calls: Resume sets the state and then sends.                            *)
LEMMA FlightCall ==
  ASSUME IInv, NEW n \in Nodes, FlightInv(n), NEW c \in Callers, Call(c)
  PROVE  FlightInv(n)'
<1>1. call \in [Callers -> {Idle} \cup [op : {"once"}, arg : WorkEvents]
                                 \cup [op : {"send"}, arg : Events]
                                 \cup [op : {"resume"}, arg : Nodes]]
  BY DEF IInv, TypeOK, TypeCall
<1>2. ASSUME NEW e \in Events, BeginSignal(c, e) PROVE FlightInv(n)'
  <2>1. /\ UNCHANGED <<events, s>> /\ call[c] = Idle
        /\ \E o \in {"send", "once"} : call' = [call EXCEPT ![c] = [op |-> o, arg |-> e]]
    BY <1>2 DEF BeginSignal, MayCall, handlerVars
  <2>2. call[c].op # "resume" /\ call'[c].op # "resume"
        /\ \A d \in Callers : d # c => call'[d] = call[d]
    BY <1>1, <2>1 DEF Idle
  <2>3. QED BY <2>1, <2>2, FlyingSame, ResumeCallsSame, FlightSame
<1>3. CASE StartHandlerOnce(c)
  <2>1. /\ UNCHANGED <<events, s>> /\ call[c].op = "once"
        /\ call' = [call EXCEPT ![c].op = "send"]
    BY <1>3 DEF StartHandlerOnce
  <2>2. call[c] \in [op : {"once"}, arg : WorkEvents]
    BY <1>1, <2>1 DEF Idle
  <2>3. call'[c].op = "send" /\ \A d \in Callers : d # c => call'[d] = call[d]
    BY <1>1, <2>1, <2>2
  <2>4. QED BY <2>1, <2>3, FlyingSame, ResumeCallsSame, FlightSame
<1>4. CASE EndSignal(c)
  <2>1. UNCHANGED s /\ call[c].op = "send" /\ call' = [call EXCEPT ![c] = Idle]
    BY <1>4 DEF EndSignal, handlerVars
  <2>2. call[c].arg \in Events
    BY <1>1, <2>1 DEF Idle
  <2>3. call'[c].op # "resume" /\ \A d \in Callers : d # c => call'[d] = call[d]
    BY <1>1, <2>1 DEF Idle
  <2>4. call[c].arg \in Message /\ call[c].arg.kind # "resume"
    BY <2>2, EventLoopAssumption DEF Message
  <2>5. events' = events \/ events' = Append(events, call[c].arg)
    BY <1>4 DEF EndSignal, SignalEvent, SignalEventAfter, Queue
  <2>6. Flying(n)' = Flying(n)
    BY <2>4, <2>5, FlyingSame
  <2>7. QED BY <2>1, <2>3, <2>6, ResumeCallsSame, FlightSame
<1>5. ASSUME NEW m \in Nodes, Resume(c, m) PROVE FlightInv(n)'
  <2>1. /\ UNCHANGED events /\ call[c] = Idle /\ ~s[m].resumed
        /\ s' = [s EXCEPT ![m] = [suspended |-> FALSE, resumed |-> TRUE]]
        /\ call' = [call EXCEPT ![c] = [op |-> "resume", arg |-> m]]
    BY <1>5 DEF Resume, MayCall, CanResume
  <2>2. call'[c] = [op |-> "resume", arg |-> m] /\ \A d \in Callers : d # c => call'[d] = call[d]
    BY <1>1, <2>1
  <2>3. Flying(n)' = Flying(n) /\ Flying(n) \in Nat
    BY <2>1, FlyingSame, FlyingNat
  <2>4. [op |-> "resume", arg |-> m] = [op |-> "resume", arg |-> n] <=> m = n
    OBVIOUS
  <2>5. Idle # [op |-> "resume", arg |-> n]
    BY DEF Idle
  <2>6. CASE m # n
    <3>1. \A d \in Callers :
            call'[d] = [op |-> "resume", arg |-> n] <=> call[d] = [op |-> "resume", arg |-> n]
      BY <2>1, <2>2, <2>4, <2>5, <2>6
    <3>2. ResumeCalls(n)' = ResumeCalls(n)
      BY <3>1 DEF ResumeCalls
    <3>3. s'[n] = s[n]
      BY <2>1, <2>6, NodeTypes
    <3>4. QED BY <2>3, <3>2, <3>3, FlightSame
  <2>7. CASE m = n
    <3>1. ResumeCalls(n)' = ResumeCalls(n) \cup {c} /\ c \notin ResumeCalls(n)
      BY <2>1, <2>2, <2>5, <2>7 DEF ResumeCalls
    <3>2. IsFiniteSet(ResumeCalls(n)) /\ ResumesInFlight(n) = 0
      BY <2>1, <2>7 DEF FlightInv
    <3>3. /\ IsFiniteSet(ResumeCalls(n)')
          /\ Cardinality(ResumeCalls(n)') = Cardinality(ResumeCalls(n)) + 1
          /\ Cardinality(ResumeCalls(n)) \in Nat
      BY <3>1, <3>2, FS_AddElement, FS_CardinalityType
    <3>4. ResumesInFlight(n) = Flying(n) + Cardinality(ResumeCalls(n))
      BY DEF ResumesInFlight, Flying, ResumeCalls
    <3>5. ResumesInFlight(n)' = Flying(n)' + Cardinality(ResumeCalls(n)')
      BY DEF ResumesInFlight, Flying, ResumeCalls
    <3>6. ResumesInFlight(n)' = 1
      BY <2>3, <3>2, <3>3, <3>4, <3>5
    <3>7. s'[n].resumed
      BY <2>1, <2>7, NodeTypes
    <3>8. QED BY <3>3, <3>6, <3>7 DEF FlightInv
  <2>8. QED BY <2>6, <2>7
<1>6. CASE SendResume(c)
  <2>1. /\ UNCHANGED s /\ call[c].op = "resume"
        /\ events' = Append(events, ResumeOf(call[c].arg))
        /\ call' = [call EXCEPT ![c] = Idle]
    BY <1>6 DEF SendResume, handlerVars
  <2>2. PICK m \in Nodes : call[c] = [op |-> "resume", arg |-> m]
    <3>1. call[c] \in [op : {"resume"}, arg : Nodes]
      BY <1>1, <2>1 DEF Idle
    <3>2. QED BY <3>1
  <2>3. call'[c] = Idle /\ \A d \in Callers : d # c => call'[d] = call[d]
    BY <1>1, <2>1
  <2>4. call[c].arg = m
    BY <2>2
  <2>5. events \in Seq(Message) /\ ResumeOf(m) \in Message
    BY OtherMessages DEF IInv, TypeOK, TypeTimer
  <2>6. [op |-> "resume", arg |-> m] = [op |-> "resume", arg |-> n] <=> m = n
    OBVIOUS
  <2>7. Idle # [op |-> "resume", arg |-> n]
    BY DEF Idle
  <2>8. ResumeOf(m) = ResumeOf(n) <=> m = n
    BY DEF ResumeOf
  <2>9. /\ Occurrences(Append(events, ResumeOf(m)), ResumeOf(n)) =
             Occurrences(events, ResumeOf(n)) + (IF m = n THEN 1 ELSE 0)
        /\ Flying(n) \in Nat
    BY <2>5, <2>8, OccurrencesAppend DEF Flying
  <2>10. Flying(n)' = Flying(n) + (IF m = n THEN 1 ELSE 0)
    BY <2>1, <2>4, <2>9 DEF Flying, Occurrences, ResumeOf
  <2>11. CASE m # n
    <3>1. \A d \in Callers :
            call'[d] = [op |-> "resume", arg |-> n] <=> call[d] = [op |-> "resume", arg |-> n]
      BY <2>2, <2>3, <2>6, <2>7, <2>11
    <3>2. ResumeCalls(n)' = ResumeCalls(n)
      BY <3>1 DEF ResumeCalls
    <3>3. Flying(n)' = Flying(n)
      BY <2>9, <2>10, <2>11
    <3>4. QED BY <2>1, <3>2, <3>3, FlightSame
  <2>12. CASE m = n
    <3>1. ResumeCalls(n)' = ResumeCalls(n) \ {c} /\ c \in ResumeCalls(n)
      BY <2>2, <2>3, <2>7, <2>12 DEF ResumeCalls
    <3>2. IsFiniteSet(ResumeCalls(n)) /\ ResumesInFlight(n) = IF s[n].resumed THEN 1 ELSE 0
      BY DEF FlightInv
    <3>3. /\ IsFiniteSet(ResumeCalls(n)')
          /\ Cardinality(ResumeCalls(n)') = Cardinality(ResumeCalls(n)) - 1
          /\ Cardinality(ResumeCalls(n)) \in Nat
      BY <3>1, <3>2, FS_RemoveElement, FS_CardinalityType
    <3>4. ResumesInFlight(n) = Flying(n) + Cardinality(ResumeCalls(n))
      BY DEF ResumesInFlight, Flying, ResumeCalls
    <3>5. ResumesInFlight(n)' = Flying(n)' + Cardinality(ResumeCalls(n)')
      BY DEF ResumesInFlight, Flying, ResumeCalls
    <3>6. ResumesInFlight(n)' = ResumesInFlight(n)
      BY <2>9, <2>10, <2>12, <3>3, <3>4, <3>5
    <3>7. QED BY <2>1, <3>2, <3>3, <3>6 DEF FlightInv
  <2>13. QED BY <2>11, <2>12
<1>7. QED BY <1>2, <1>3, <1>4, <1>5, <1>6 DEF Call

(* Handlers send nothing, and only a node that is not suspended changes    *)
(* its state.                                                              *)
LEMMA FlightHandler ==
  ASSUME IInv, ResumeInv, ActiveIndexIsPosition, NEW n \in Nodes,
         NEW m \in Nodes, Handler(m)
  PROVE  FlightInv(n)'
<1>1. FlightInv(n) /\ UNCHANGED <<events, call>>
  BY HandlerFrame DEF ResumeInv, callVars
<1>2. Flying(n)' = Flying(n) /\ ResumeCalls(n)' = ResumeCalls(n)
  BY <1>1, FlyingSame, ResumeCallsSame
<1>3. hpc[m] = "run" => Awake(m)
  BY DEF ResumeInv, NodeInv, SuspendInv
<1>4. s'[n].resumed = s[n].resumed
  <2>1. CASE \E next : EventDone(m, next)
    BY <1>3, <2>1 DEF EventDone, Awake
  <2>2. CASE Suspend(m)
    <3>1. s' = [s EXCEPT ![m] = [suspended |-> TRUE, resumed |-> FALSE]] /\ ~s[m].resumed
      BY <1>3, <2>2 DEF Suspend, Awake
    <3>2. CASE n = m
      <4>1. s'[n].resumed = FALSE
        BY <3>1, <3>2, NodeTypes
      <4>2. s[n].resumed = FALSE
        BY <3>1, <3>2, NodeTypes
      <4>3. QED BY <4>1, <4>2
    <3>3. CASE n # m
      BY <3>1, <3>3, NodeTypes
    <3>4. QED BY <3>2, <3>3
  <2>3. CASE UNCHANGED s
    BY <2>3
  <2>4. QED BY <2>1, <2>2, <2>3
            DEF Handler, WaitLoop, ReceiveEvent, FinishEvent, PanicHandler, SignalSuspended,
                WakeSuspended
<1>5. QED BY <1>1, <1>2, <1>4, FlightSame

(* A resume event that is received belongs to a node in the resumed state. *)
LEMMA ResumeReceived ==
  ASSUME IInv, NEW n \in Nodes, FlightInv(n), events # <<>>, Head(events) = ResumeOf(n)
  PROVE  /\ s[n].resumed
         /\ Occurrences(Tail(events), ResumeOf(n)) = 0 /\ Cardinality(ResumeCalls(n)) = 0
<1>1. events \in Seq(Message)
  BY DEF IInv, TypeOK, TypeTimer
<1>2. /\ Flying(n) = Occurrences(Tail(events), ResumeOf(n)) + 1
      /\ Occurrences(Tail(events), ResumeOf(n)) \in Nat
  BY <1>1, OccurrencesTail DEF Flying
<1>3. /\ Cardinality(ResumeCalls(n)) \in Nat
      /\ Flying(n) + Cardinality(ResumeCalls(n)) = IF s[n].resumed THEN 1 ELSE 0
  BY FS_CardinalityType DEF FlightInv, ResumesInFlight, Flying, ResumeCalls
<1>4. QED BY <1>2, <1>3

(* The loop receives a message.                                            *)
LEMMA ResumeReceive ==
  ASSUME IInv, ResumeInv, ActiveIndexIsPosition, DispatchedNodeHasHandler',
         ReceiveLoopEvent, lpc \notin {"start", "finish", "inactivate"}
  PROVE  (\A n \in Nodes : NodeInv(n)' /\ FlightInv(n)') /\ ActiveInv'
<1>1. /\ events # <<>> /\ events' = Tail(events)
      /\ UNCHANGED <<started, hpc, fromNode, inactiveNodes, call>>
  BY DEF ReceiveLoopEvent, chanVars, startVars, callVars
<1>2. PICK e \in Message : e = Head(events)
  BY ReceiveFacts
<1>3. DoNodeEvent(e)
  BY <1>2 DEF ReceiveLoopEvent
<1>4. \A n \in Nodes : FlightInv(n) /\ ResumeCalls(n)' = ResumeCalls(n)
  BY <1>1, ResumeCallsSame DEF ResumeInv
<1>5. e.kind # "resume" => \A n \in Nodes : Flying(n)' = Flying(n)
  BY <1>1, <1>2, ResumeMessages, FlyingSame
<1>6. CASE e.kind \in {"quit", "interrupt"}
  <2>1. UNCHANGED <<activeVars, s>>
    BY <1>3, <1>6 DEF DoNodeEvent
  <2>2. UNCHANGED <<activeNodes, activeIndex, activeCount>> /\ UNCHANGED placeVars
    BY <1>1, <2>1 DEF activeVars, placeVars
  <2>3. ActiveInv'
    BY <1>1, <2>2 DEF ResumeInv, ActiveInv, Active, IsActive
  <2>4. \A n \in Nodes : NodeInv(n)' /\ FlightInv(n)'
    BY <1>4, <1>5, <1>6, <2>1, <2>2, NodeFrame, FlightSame DEF ResumeInv
  <2>5. QED BY <2>3, <2>4
<1>7. CASE e.kind = "work"
  <2>1. QueueToNode(e) /\ UNCHANGED s /\ e \in WorkEvents
    BY <1>3, <1>7, MessageFacts DEF DoNodeEvent
  <2>2. (\A n \in Nodes : NodeInv(n)') /\ ActiveInv'
    BY <1>1, <2>1, NodeQueue
  <2>3. \A n \in Nodes : FlightInv(n)'
    BY <1>4, <1>5, <1>7, <2>1, FlightSame
  <2>4. QED BY <2>2, <2>3
<1>8. CASE e.kind = "resume"
  <2>1. PICK d \in Nodes : d = e.dst /\ e = ResumeOf(d)
    BY <1>8, ResumeMessages
  <2>2. /\ AddActive(d) /\ s' = [s EXCEPT ![d].resumed = FALSE] /\ UNCHANGED activeCount
    BY <1>3, <1>8, <2>1 DEF DoNodeEvent
  <2>3. /\ s[d].resumed
        /\ Occurrences(Tail(events), ResumeOf(d)) = 0 /\ Cardinality(ResumeCalls(d)) = 0
    BY <1>1, <1>2, <1>4, <2>1, ResumeReceived
  <2>4. (\A n \in Nodes : NodeInv(n)') /\ ActiveInv'
    BY <1>1, <2>2, <2>3, NodeResumed
  <2>5. ASSUME NEW n \in Nodes PROVE FlightInv(n)'
    <3>1. CASE n # d
      <4>1. Head(events) # ResumeOf(n)
        BY <1>2, <2>1, <3>1, ResumeMessages
      <4>2. Flying(n)' = Flying(n)
        BY <1>1, <4>1, FlyingSame
      <4>3. s'[n] = s[n]
        BY <2>2, <3>1, NodeTypes
      <4>4. QED BY <1>4, <4>2, <4>3, FlightSame
    <3>2. CASE n = d
      <4>1. IsFiniteSet(ResumeCalls(n)') /\ Cardinality(ResumeCalls(n)') = 0
        BY <1>4, <2>3, <3>2 DEF FlightInv
      <4>2. Flying(n)' = 0
        BY <1>1, <2>3, <3>2 DEF Flying, Occurrences, ResumeOf
      <4>3. ResumesInFlight(n)' = Flying(n)' + Cardinality(ResumeCalls(n)')
        BY DEF ResumesInFlight, Flying, ResumeCalls
      <4>4. ~s'[n].resumed
        BY <2>2, <3>2, NodeTypes
      <4>5. QED BY <4>1, <4>2, <4>3, <4>4 DEF FlightInv
    <3>3. QED BY <3>1, <3>2
  <2>6. QED BY <2>4, <2>5
<1>9. QED BY <1>3, <1>6, <1>7, <1>8 DEF DoNodeEvent

(* A timed event runs: into its node, or as the loop's own.                *)
LEMMA ResumeExpire ==
  ASSUME IInv, ResumeInv, DispatchedNodeHasHandler', NEW x \in ev, ExpireEvent(x)
  PROVE  (\A n \in Nodes : NodeInv(n)' /\ FlightInv(n)') /\ ActiveInv'
<1>1. UNCHANGED <<started, hpc, s, fromNode, inactiveNodes, call>>
  BY DEF ExpireEvent, chanVars, startVars, callVars, handlerVars
<1>2. x.e \in Message
  BY DEF IInv, TypeOK, TypeLoop, TimedEvent
<1>3. \A n \in Nodes : FlightInv(n) /\ ResumeCalls(n)' = ResumeCalls(n)
  BY <1>1, ResumeCallsSame DEF ResumeInv
<1>4. QuitEvent \in Message /\ QuitEvent.kind # "resume"
  BY OtherMessages DEF QuitEvent
<1>5. events' = events \/ events' = Append(events, QuitEvent)
  BY DEF ExpireEvent, SignalEvent, Queue
<1>6. \A n \in Nodes : FlightInv(n)'
  <2>1. \A n \in Nodes : Flying(n)' = Flying(n)
    BY <1>4, <1>5, FlyingSame
  <2>2. QED BY <1>1, <1>3, <2>1, FlightSame
<1>7. CASE x.e.kind = "work"
  <2>1. QueueToNode(x.e) /\ x.e \in WorkEvents
    BY <1>2, <1>7, MessageFacts DEF ExpireEvent
  <2>2. QED BY <1>1, <1>6, <2>1, NodeQueue
<1>8. CASE x.e.kind # "work"
  <2>1. UNCHANGED <<activeNodes, activeIndex, activeCount>>
    BY <1>8 DEF ExpireEvent, activeVars
  <2>2. UNCHANGED placeVars
    BY <1>1, <2>1 DEF placeVars
  <2>3. QED BY <1>1, <1>6, <2>1, <2>2, NodeFrame DEF ResumeInv, ActiveInv, Active, IsActive
<1>9. QED BY <1>7, <1>8

(* Steps that leave the nodes, the vector and the resumes alone.           *)
LEMMA ResumeQuiet ==
  ASSUME ResumeInv, UNCHANGED placeVars, UNCHANGED <<activeNodes, events, call>>
  PROVE  (\A n \in Nodes : NodeInv(n)' /\ FlightInv(n)') /\ ActiveInv'
<1>1. \A n \in Nodes : NodeInv(n)'
  BY NodeFrame DEF ResumeInv
<1>2. ActiveInv'
  BY DEF ResumeInv, ActiveInv, Active, IsActive, placeVars
<1>3. \A n \in Nodes : FlightInv(n)'
  BY DEF ResumeInv, FlightInv, ResumesInFlight, ResumeCalls, Occurrences, placeVars
<1>4. QED BY <1>1, <1>2, <1>3

(* No node waits to be removed.                                            *)
LEMMA NoneLeaving ==
  ASSUME IInv, lpc \notin {"finish", "inactivate"} \/ inactiveNodes = <<>>,
         UNCHANGED inactiveNodes
  PROVE  LeavingInv'
<1>1. inactiveNodes \in Seq(Nodes) /\ Len(inactiveNodes) \in Nat
  BY DEF IInv, TypeOK, TypeLoop
<1>2. Len(inactiveNodes) = 0
  BY <1>1 DEF IInv, InactiveInv
<1>3. 1 .. Len(inactiveNodes') = {}
  BY <1>2
<1>4. QED BY <1>3 DEF LeavingInv

(* The loop dispatches, expires, waits or polls.                           *)
LEMMA ResumeOtherLoop ==
  ASSUME IInv, ResumeInv, ActiveIndexIsPosition, DispatchedNodeHasHandler', OtherLoopStep
  PROVE  ResumeInv'
<1>1. /\ lpc \notin {"start", "finish", "inactivate"} /\ UNCHANGED inactiveNodes
  BY OtherLoopFrame
<1>2. LeavingInv'
  BY <1>1, NoneLeaving
<1>3. CASE ReceiveLoopEvent
  BY <1>1, <1>2, <1>3, ResumeReceive DEF ResumeInv
<1>4. CASE \E x \in ev : ExpireEvent(x)
  BY <1>2, <1>4, ResumeExpire DEF ResumeInv
<1>5. CASE UNCHANGED <<activeVars, fromNode, handlerVars, startVars, callVars, events>>
  <2>1. UNCHANGED placeVars /\ UNCHANGED <<activeNodes, events, call>>
    BY <1>1, <1>5 DEF placeVars, activeVars, handlerVars, startVars, callVars
  <2>2. QED BY <1>2, <2>1, ResumeQuiet DEF ResumeInv
<1>6. QED
  BY <1>3, <1>4, <1>5
     DEF OtherLoopStep, SetEventWait, ArmTimer, DoEventWait, WaitTimeout, ClearEventWait,
         DoEventNoWait, AdvanceAdd, AllExpired, SendRxEvent, DoPollers, chanVars

(* Every step keeps the invariant while the two comments hold.             *)
LEMMA ResumeStep ==
  ASSUME IInv, ResumeInv, ActiveIndexIsPosition, DispatchedNodeHasHandler', Step
  PROVE  ResumeInv'
<1>1. ASSUME NEW c \in Callers, Call(c) PROVE ResumeInv'
  <2>1. \A n \in Nodes : NodeInv(n)' /\ FlightInv(n)'
    BY <1>1, NodeCall, FlightCall DEF ResumeInv
  <2>2. LeavingInv' /\ ActiveInv'
    BY <1>1, LeavingOthers
  <2>3. QED BY <2>1, <2>2 DEF ResumeInv
<1>2. ASSUME NEW m \in Nodes, Handler(m) PROVE ResumeInv'
  <2>1. \A n \in Nodes : NodeInv(n)' /\ FlightInv(n)'
    BY <1>2, NodeHandler, FlightHandler
  <2>2. LeavingInv' /\ ActiveInv'
    BY <1>2, LeavingOthers
  <2>3. QED BY <2>1, <2>2 DEF ResumeInv
<1>3. ASSUME UNCHANGED placeVars, UNCHANGED <<activeNodes, events, call>>,
             UNCHANGED <<lpc, li>>
      PROVE  ResumeInv'
  <2>1. UNCHANGED inactiveNodes
    BY <1>3 DEF placeVars
  <2>2. \A n \in Nodes : IsActive(n)' <=> IsActive(n)
    BY <1>3 DEF placeVars, IsActive
  <2>3. \A n \in Nodes : MayLeave(n) => IsActive(n)' /\ (Pending(n)' \/ activeCount'[n] = 0)
    BY <1>3, <2>2 DEF placeVars, MayLeave, Pending
  <2>4. LeavingInv'
    BY <1>3, <2>1, <2>3, LeavingKept
  <2>5. QED BY <1>3, <2>4, ResumeQuiet DEF ResumeInv
<1>4. ASSUME NEW p \in Pollers, Poller(p) PROVE ResumeInv'
  <2>1. UNCHANGED placeVars /\ UNCHANGED <<activeNodes, call, lpc, li>>
    BY <1>4, PollerFrame
       DEF placeVars, loopVars, activeVars, chanVars, handlerVars, startVars, callVars
  <2>2. CASE UNCHANGED events
    BY <1>3, <2>1, <2>2
  <2>3. CASE events' = Append(events, Interrupt)
    <3>1. Interrupt \in Message /\ Interrupt.kind # "resume"
      BY OtherMessages DEF Interrupt
    <3>2. \A n \in Nodes : FlightInv(n)'
      <4> SUFFICES ASSUME NEW n \in Nodes PROVE FlightInv(n)'
        OBVIOUS
      <4>1. Flying(n)' = Flying(n)
        BY <2>3, <3>1, FlyingSame
      <4>2. ResumeCalls(n)' = ResumeCalls(n) /\ s'[n].resumed = s[n].resumed
        BY <2>1 DEF ResumeCalls, placeVars
      <4>3. QED BY <4>1, <4>2, FlightSame DEF ResumeInv
    <3>3. \A n \in Nodes : NodeInv(n)'
      BY <2>1, NodeFrame DEF ResumeInv
    <3>4. ActiveInv'
      BY <2>1 DEF ResumeInv, ActiveInv, Active, IsActive, placeVars
    <3>5. \A n \in Nodes :
            MayLeave(n) => IsActive(n)' /\ (Pending(n)' \/ activeCount'[n] = 0)
      BY <2>1 DEF placeVars, MayLeave, Pending, IsActive
    <3>6. LeavingInv'
      <4>1. UNCHANGED inactiveNodes
        BY <2>1 DEF placeVars
      <4>2. QED BY <2>1, <3>5, <4>1, LeavingKept
    <3>7. QED BY <3>2, <3>3, <3>4, <3>6 DEF ResumeInv
  <2>4. QED BY <1>4, <2>2, <2>3 DEF Poller, ChangeActive, InterruptLoop, SignalEvent, Queue
<1>5. CASE OtherLoopStep
  BY <1>5, ResumeOtherLoop
<1>6. CASE SignalNode
  <2>1. UNCHANGED placeVars /\ UNCHANGED <<activeNodes, events, call>> /\ lpc = "start"
    BY <1>6 DEF SignalNode, placeVars, activeVars, handlerVars, startVars, callVars
  <2>2. LeavingInv'
    BY <2>1, NoneLeaving DEF placeVars
  <2>3. QED BY <2>1, <2>2, ResumeQuiet DEF ResumeInv
<1>7. CASE WaitNode
  <2>1. (\A n \in Nodes : NodeInv(n)') /\ LeavingInv'
    BY <1>7, ResumeWaitNode
  <2>2. UNCHANGED <<activeNodes, activeIndex, started, events, call, s>>
    BY <1>7 DEF WaitNode, activeVars, startVars, callVars, handlerVars
  <2>3. ActiveInv'
    BY <2>2 DEF ResumeInv, ActiveInv, Active, IsActive
  <2>4. \A n \in Nodes : FlightInv(n)'
    BY <2>2 DEF ResumeInv, FlightInv, ResumesInFlight, ResumeCalls, Occurrences
  <2>5. QED BY <2>1, <2>3, <2>4 DEF ResumeInv
<1>8. CASE InactivateNode
  <2>1. (\A n \in Nodes : NodeInv(n)') /\ ActiveInv' /\ LeavingInv'
    BY <1>8, ResumeInactivate
  <2>2. UNCHANGED <<events, call, s>>
    BY <1>8 DEF InactivateNode, callVars, handlerVars
  <2>3. \A n \in Nodes : FlightInv(n)'
    BY <2>2 DEF ResumeInv, FlightInv, ResumesInFlight, ResumeCalls, Occurrences
  <2>4. QED BY <2>1, <2>3 DEF ResumeInv
<1>9. CASE EndDoEvents
  <2>1. UNCHANGED placeVars /\ UNCHANGED <<activeNodes, events, call>> /\ inactiveNodes = <<>>
    BY <1>9 DEF EndDoEvents, placeVars, activeVars, chanVars, handlerVars, startVars, callVars
  <2>2. LeavingInv'
    BY <2>1, NoneLeaving DEF placeVars
  <2>3. QED BY <2>1, <2>2, ResumeQuiet DEF ResumeInv
<1>10. ASSUME NEW n \in Nodes, HandlerTimeout(n) PROVE ResumeInv'
  BY <1>3, <1>10 DEF HandlerTimeout, placeVars, loopVars, activeVars, chanVars, handlerVars,
                     startVars, callVars
<1>11. CASE WaitNodeTimeout \/ Tick \/ FireTimer
  BY <1>3, <1>11 DEF WaitNodeTimeout, Tick, FireTimer, placeVars, loopVars, activeVars,
                     chanVars, handlerVars, startVars, callVars
<1>12. QED
  BY <1>1, <1>2, <1>4, <1>5, <1>6, <1>7, <1>8, <1>9, <1>10, <1>11
     DEF Step, LoopStep, OtherLoopStep

(* Initially every node is inactive and nothing is on its way.             *)
LEMMA ResumeInit == ASSUME Init PROVE ResumeInv
<1>1. \A n \in Nodes : /\ activeCount[n] = 0 /\ fromNode[n] = <<>>
                       /\ s[n] = [suspended |-> FALSE, resumed |-> FALSE]
                       /\ hpc[n] \in {"wait", "off"}
  BY DEF Init
<1>2. \A n \in Nodes : ~IsActive(n) /\ StartInv(n)
  BY DEF Init, IsActive, StartInv, NoIndex
<1>3. \A n \in Nodes : NodeInv(n)
  <2> SUFFICES ASSUME NEW n \in Nodes PROVE NodeInv(n)
    OBVIOUS
  <2>1. AnswerInv(n)
    BY <1>1, NonEmptyAnswer DEF AnswerInv
  <2>2. Awake(n)
    BY <1>1 DEF Awake
  <2>3. QED BY <1>1, <1>2, <2>1, <2>2 DEF NodeInv, SuspendInv, NeedInv
<1>4. ActiveInv
  <2>1. Active = {} /\ activeNodes = <<>>
    BY <1>2 DEF Active, Init
  <2>2. QED BY <2>1, FS_EmptySet DEF ActiveInv
<1>5. LeavingInv
  <2>1. 1 .. Len(inactiveNodes) = {}
    BY DEF Init
  <2>2. QED BY <2>1 DEF LeavingInv
<1>6. ASSUME NEW n \in Nodes PROVE FlightInv(n)
  <2>1. ResumeCalls(n) = {}
    BY DEF Init, ResumeCalls, Idle
  <2>2. {k \in 1 .. Len(events) : events[k] = ResumeOf(n)} = {}
    BY DEF Init
  <2>3. IsFiniteSet(ResumeCalls(n)) /\ Cardinality(ResumeCalls(n)) = 0
    BY <2>1, FS_EmptySet
  <2>4. Occurrences(events, ResumeOf(n)) = 0
    BY <2>2, FS_EmptySet, Zenon DEF Occurrences
  <2>5. ResumesInFlight(n) = 0
    BY <2>3, <2>4 DEF ResumesInFlight, ResumeCalls
  <2>6. ~s[n].resumed
    BY <1>1
  <2>7. QED BY <2>3, <2>5, <2>6 DEF FlightInv
<1>7. QED BY <1>3, <1>4, <1>5, <1>6 DEF ResumeInv

(* Stuttering changes nothing.                                             *)
LEMMA ResumeStutter == ASSUME ResumeInv, UNCHANGED vars PROVE ResumeInv'
<1>1. UNCHANGED placeVars /\ UNCHANGED <<activeNodes, events, call, lpc, li>>
  BY DEF placeVars, vars, loopVars, activeVars, chanVars, handlerVars, startVars, callVars
<1>2. LeavingInv'
  BY <1>1 DEF ResumeInv, LeavingInv, MayLeave, IsActive, Pending, placeVars
<1>3. QED BY <1>1, <1>2, ResumeQuiet DEF ResumeInv

(* Every step of the specification, stuttering included.                   *)
LEMMA ResumeNext ==
  ASSUME IInv, ResumeInv, ActiveIndexIsPosition, DispatchedNodeHasHandler', [Next]_vars
  PROVE  ResumeInv'
BY ResumeStep, ResumeStutter DEF Next, Asleep, Exited

(* The invariant holds of every behaviour in which the two comments do.    *)
THEOREM ResumeInductive == Spec /\ []ActiveIndexIsPosition /\ []DispatchedNodeHasHandler
                           => []ResumeInv
<1>1. Init => ResumeInv
  BY ResumeInit
<1>2. IInv /\ ResumeInv /\ ActiveIndexIsPosition /\ DispatchedNodeHasHandler' /\ [Next]_vars
        => ResumeInv'
  BY ResumeNext
<1>3. QED BY <1>1, <1>2, Inductive, PTL DEF Spec

(* An active node is in the vector, at its index.                          *)
LEMMA StrandedFact ==
  ASSUME IInv, ResumeInv, ActiveIndexIsPosition
  PROVE  NoStrandedNode
<1> SUFFICES ASSUME lpc = "top", NEW n \in Nodes, activeCount[n] > 0
             PROVE  \/ \E k \in 1 .. Len(activeNodes) : activeNodes[k] = n
                    \/ hpc[n] = "suspended" /\ (s[n].suspended \/ s[n].resumed)
  BY DEF NoStrandedNode
<1>1. CASE IsActive(n)
  <2>1. activeIndex[n] < Len(activeNodes) /\ activeNodes[activeIndex[n] + 1] = n
    BY <1>1 DEF ActiveIndexIsPosition, IsActive
  <2>2. activeIndex[n] \in Nat /\ Len(activeNodes) \in Nat
    BY <1>1, NodeTypes DEF IsActive, IInv, TypeOK, TypeNode
  <2>3. QED BY <2>1, <2>2
<1>2. CASE hpc[n] = "suspended" /\ Pending(n)
  BY <1>2 DEF Pending
<1>3. QED BY <1>1, <1>2 DEF ResumeInv, NodeInv, NeedInv

(* While activeIndex is the node's position and hasHandler means a handler, *)
(* no node is left behind with queued events: delActive takes out the node *)
(* that became inactive, and Resume brings back every node that suspended  *)
(* with events left, for any number of nodes, callers and pollers.         *)
THEOREM NodesNotStranded == Spec /\ []ActiveIndexIsPosition /\ []DispatchedNodeHasHandler
                            => []NoStrandedNode
<1>1. IInv /\ ResumeInv /\ ActiveIndexIsPosition => NoStrandedNode
  BY StrandedFact
<1>2. QED BY <1>1, Inductive, ResumeInductive, PTL

(* While they do, setResume lets one Resume through per Suspend, and its   *)
(* event stays on its way exactly until the loop clears the resumed state. *)
THEOREM ResumesCounted == Spec /\ []ActiveIndexIsPosition /\ []DispatchedNodeHasHandler
                          => []OneResumePerSuspend
<1>1. ResumeInv => OneResumePerSuspend
  BY DEF ResumeInv, FlightInv, OneResumePerSuspend
<1>2. QED BY <1>1, ResumeInductive, PTL

(* A suspended handler is signalled only when it is back in the vector.    *)
LEMMA WakesResumed ==
  ASSUME IInv, ResumeInv, ActiveIndexIsPosition, [Next]_vars, NEW n \in Nodes,
         hpc[n] = "suspended", hpc'[n] = "run"
  PROVE  ~s[n].suspended
<1>1. PICK m \in Nodes : Handler(m)
  <2>1. hpc' # hpc
    OBVIOUS
  <2>2. ASSUME NEW c \in Callers, Call(c) PROVE FALSE
    <3>1. hpc'[n] = hpc[n] \/ hpc'[n] = "wait"
      BY <2>2, NodeTypes
         DEF Call, BeginSignal, StartHandlerOnce, EndSignal, Resume, SendResume, handlerVars
    <3>2. QED BY <3>1
  <2>3. UNCHANGED vars => UNCHANGED hpc
    BY DEF vars, handlerVars
  <2>4. \A m \in Nodes : HandlerTimeout(m) => UNCHANGED hpc
    BY DEF HandlerTimeout, handlerVars
  <2>5. (\E p \in Pollers : Poller(p)) \/ Tick \/ FireTimer => UNCHANGED hpc
    BY PollerFrame, RuntimeFrame DEF handlerVars
  <2>6. LoopStep \/ WaitNodeTimeout => UNCHANGED hpc
    BY LoopFrame
  <2>7. Step
    BY <2>1, <2>3 DEF Next, Asleep, Exited
  <2>8. QED BY <2>1, <2>2, <2>4, <2>5, <2>6, <2>7 DEF Step
<1>2. WakeSuspended(n)
  BY <1>1, NodeTypes
     DEF Handler, WaitLoop, ReceiveEvent, FinishEvent, PanicHandler, EventDone, Suspend,
         SignalSuspended, WakeSuspended
<1>3. toNode[n] = 1
  BY <1>2 DEF WakeSuspended
<1>4. Back(n)
  BY <1>3, Tokens DEF Back
<1>5. QED BY <1>4 DEF ResumeInv, NodeInv, SuspendInv, Awake

(* While they do, SuspendWTimeout's wait ends only after a Resume: the loop *)
(* never signals a node in the active vector that still waits for one.     *)
THEOREM SuspendsUntilResumed == Spec /\ []ActiveIndexIsPosition /\ []DispatchedNodeHasHandler
                                => SuspendUntilResume
<1>1. IInv /\ ResumeInv /\ ActiveIndexIsPosition /\ [Next]_vars
        => [\A n \in Nodes : hpc[n] = "suspended" /\ hpc'[n] = "run"
                             => ~s[n].suspended]_vars
  BY WakesResumed
<1>2. QED BY <1>1, Inductive, ResumeInductive, PTL DEF Spec, SuspendUntilResume

(* One node, started before the loop runs: its index is always right.      *)
OneInv(nd) ==
  /\ started[nd]
  /\ \/ activeIndex[nd] = NoIndex /\ activeNodes = <<>>
     \/ activeIndex[nd] = 0 /\ activeNodes = <<nd>>

(* addActive of the one node.                                              *)
LEMMA OneAddActive ==
  ASSUME NEW nd, Nodes = {nd}, IInv, OneInv(nd), AddActive(nd), UNCHANGED started
  PROVE  OneInv(nd)'
<1>1. CASE activeIndex[nd] # NoIndex
  BY <1>1 DEF AddActive, OneInv
<1>2. CASE activeIndex[nd] = NoIndex
  <2>1. activeNodes = <<>> /\ NoIndex # 0
    BY <1>2 DEF OneInv, NoIndex
  <2>2. Len(activeNodes) = 0 /\ Append(activeNodes, nd) = <<nd>>
    BY <2>1
  <2>3. /\ activeIndex' = [activeIndex EXCEPT ![nd] = Len(activeNodes)]
        /\ activeNodes' = Append(activeNodes, nd)
    BY <1>2 DEF AddActive
  <2>4. activeIndex'[nd] = 0
    BY <2>2, <2>3, NodeTypes
  <2>5. activeNodes' = <<nd>>
    BY <2>2, <2>3
  <2>6. QED BY <2>4, <2>5 DEF OneInv
<1>3. QED BY <1>1, <1>2

(* Every step keeps the vector empty or with the one node at its index.    *)
LEMMA OneStep ==
  ASSUME NEW nd, Nodes = {nd}, IInv, OneInv(nd), Step
  PROVE  OneInv(nd)'
<1>1. CASE UNCHANGED <<started, activeIndex, activeNodes>>
  BY <1>1 DEF OneInv
<1>2. ASSUME NEW e \in WorkEvents, QueueToNode(e), UNCHANGED started PROVE OneInv(nd)'
  <2>1. e.dst = nd
    BY WorkFacts
  <2>2. AddActive(nd) \/ UNCHANGED <<activeNodes, activeIndex>>
    BY <1>2, <2>1 DEF QueueToNode
  <2>3. QED BY <1>1, <1>2, <2>2, OneAddActive
<1>3. CASE ReceiveLoopEvent
  <2>1. UNCHANGED started
    BY <1>3 DEF ReceiveLoopEvent, startVars
  <2>2. PICK e \in Message : DoNodeEvent(e)
    BY <1>3, ReceiveFacts
  <2>3. CASE e.kind \in {"quit", "interrupt"}
    BY <1>1, <2>1, <2>2, <2>3 DEF DoNodeEvent, activeVars
  <2>4. CASE e.kind = "resume"
    <3>1. e.dst = nd
      BY <2>4, MessageFacts
    <3>2. AddActive(nd)
      BY <2>2, <2>4, <3>1 DEF DoNodeEvent
    <3>3. QED BY <2>1, <3>2, OneAddActive
  <2>5. CASE e.kind = "work"
    BY <1>2, <2>1, <2>2, <2>5, MessageFacts DEF DoNodeEvent
  <2>6. QED BY <2>2, <2>3, <2>4, <2>5 DEF DoNodeEvent
<1>4. ASSUME NEW x \in ev, ExpireEvent(x) PROVE OneInv(nd)'
  <2>1. UNCHANGED started /\ x.e \in Message
    BY <1>4 DEF ExpireEvent, startVars, IInv, TypeOK, TypeLoop, TimedEvent
  <2>2. CASE x.e.kind = "work"
    BY <1>2, <1>4, <2>1, <2>2, MessageFacts DEF ExpireEvent
  <2>3. CASE x.e.kind # "work"
    BY <1>1, <1>4, <2>1, <2>3 DEF ExpireEvent, activeVars
  <2>4. QED BY <2>2, <2>3
<1>5. CASE InactivateNode
  <2>1. /\ lpc = "inactivate" /\ inactiveNodes # <<>> /\ UNCHANGED started
        /\ inactiveNodes \in Seq(Nodes) /\ DelActive(Head(inactiveNodes))
    BY <1>5 DEF InactivateNode, startVars, IInv, TypeOK, TypeLoop
  <2>2. Head(inactiveNodes) = nd /\ Len(inactiveNodes) \in Nat \ {0}
    BY <2>1
  <2>3. Len(inactiveNodes) <= Len(activeNodes) /\ activeNodes \in Seq(Nodes)
    BY <2>1 DEF IInv, InactiveInv, TypeOK, TypeNode
  <2>4. activeNodes # <<>>
    BY <2>2, <2>3
  <2>5. activeIndex[nd] = 0 /\ Len(activeNodes) = 1
    BY <2>4 DEF OneInv
  <2>6. /\ activeNodes' \in Seq(Nodes)
        /\ Len(activeNodes') = Len(activeNodes) - 1
    BY <1>5, DelActiveType
  <2>7. DelActive(nd)
    BY <2>1, <2>2
  <2>8. activeIndex' = [activeIndex EXCEPT ![nd] = NoIndex]
    BY <2>7 DEF DelActive
  <2>9. activeNodes' = <<>>
    BY <2>5, <2>6
  <2>10. activeIndex'[nd] = NoIndex
    BY <2>8, NodeTypes
  <2>11. QED BY <2>1, <2>9, <2>10 DEF OneInv
<1>6. ASSUME NEW c \in Callers, Call(c) PROVE OneInv(nd)'
  <2>1. CASE StartHandlerOnce(c)
    <3>1. call[c].arg.dst = nd
      BY <2>1, CallArg, WorkFacts DEF StartHandlerOnce
    <3>2. UNCHANGED <<started, activeIndex, activeNodes>>
      BY <2>1, <3>1 DEF StartHandlerOnce, OneInv
    <3>3. QED BY <1>1, <3>2
  <2>2. CASE ~StartHandlerOnce(c)
    BY <1>1, <1>6, <2>2
       DEF Call, BeginSignal, EndSignal, Resume, SendResume, activeVars, startVars
  <2>3. QED BY <2>1, <2>2
<1>7. ASSUME NEW n \in Nodes, Handler(n) \/ HandlerTimeout(n) PROVE OneInv(nd)'
  BY <1>1, <1>7, HandlerFrame DEF startVars
<1>8. CASE (\E p \in Pollers : Poller(p)) \/ Tick \/ FireTimer \/ WaitNodeTimeout
  BY <1>1, <1>8, PollerFrame, RuntimeFrame DEF WaitNodeTimeout, activeVars, startVars
<1>9. CASE LoopStep
  <2>1. CASE \/ SetEventWait \/ ArmTimer \/ WaitTimeout \/ ClearEventWait \/ AdvanceAdd
             \/ AllExpired \/ SendRxEvent \/ SignalNode \/ WaitNode \/ EndDoEvents \/ DoPollers
    BY <1>1, <2>1
       DEF SetEventWait, ArmTimer, WaitTimeout, ClearEventWait, AdvanceAdd, AllExpired,
           SendRxEvent, SignalNode, WaitNode, EndDoEvents, DoPollers, activeVars, startVars
  <2>2. CASE DoEventNoWait \/ DoEventWait
    BY <1>1, <1>3, <2>2 DEF DoEventNoWait, DoEventWait, activeVars, startVars
  <2>3. QED BY <1>4, <1>5, <1>9, <2>1, <2>2 DEF LoopStep
<1>10. QED BY <1>6, <1>7, <1>8, <1>9 DEF Step

(* With one node, whose handler is started first, both comments are true.  *)
LEMMA OneNode ==
  ASSUME NEW nd, Nodes = {nd}, Running = Nodes
  PROVE  Spec => []ActiveIndexIsPosition /\ []DispatchedNodeHasHandler
<1>1. Init => OneInv(nd)
  BY DEF Init, OneInv
<1>2. IInv /\ OneInv(nd) /\ [Next]_vars => OneInv(nd)'
  <2>1. ASSUME OneInv(nd), UNCHANGED vars PROVE OneInv(nd)'
    BY <2>1 DEF OneInv, vars, activeVars, startVars
  <2>2. QED BY <2>1, OneStep DEF Next, Asleep, Exited
<1>3. IInv /\ OneInv(nd) => ActiveIndexIsPosition
  <2>1. CASE activeIndex[nd] = NoIndex
    BY <2>1 DEF ActiveIndexIsPosition
  <2>2. CASE activeIndex[nd] = 0 /\ activeNodes = <<nd>>
    <3>1. 0 < Len(activeNodes) /\ activeNodes[0 + 1] = nd
      BY <2>2
    <3>2. QED BY <2>2, <3>1 DEF ActiveIndexIsPosition
  <2>3. QED BY <2>1, <2>2 DEF OneInv
<1>4. IInv /\ OneInv(nd) => DispatchedNodeHasHandler
  <2>1. ASSUME IInv, lpc = "sendRx" PROVE disp.dst = nd
    <3>1. disp \in WorkEvents
      BY <2>1 DEF IInv, CountInv, TypeOK, TypeLoop
    <3>2. QED BY <3>1, WorkFacts
  <2>2. QED BY <2>1 DEF DispatchedNodeHasHandler, OneInv
<1>5. QED BY <1>1, <1>2, <1>3, <1>4, Inductive, PTL DEF Spec

(* A loop with one node, whose handler is started before Run, has all three *)
(* properties without a premise, whatever is signalled, resumed and timed. *)
THEOREM OneNodeResumes ==
  ASSUME NEW nd, Nodes = {nd}, Running = Nodes
  PROVE  Spec => []NoStrandedNode /\ []OneResumePerSuspend /\ SuspendUntilResume
BY OneNode, NodesNotStranded, ResumesCounted, SuspendsUntilResumed, PTL
=============================================================================
