------------------------------ MODULE EventLoop ------------------------------
(***************************************************************************)
(* The event half of the main loop, elib/loop/event.go, with the           *)
(* fromToNode hand-off channels and the activePollerState word of          *)
(* elib/loop/poller.go.                                                    *)
(*                                                                         *)
(* Goroutines: the loop (doEvents, then doPollers, for ever), one          *)
(* eventHandler per started node, and the callers of SignalEvent,          *)
(* SignalEventAfter, Quit and Resume: outside goroutines and the actions   *)
(* the handlers run.  Each step of the model is one access to state that   *)
(* two goroutines share; what lies between two such accesses is merged.    *)
(*                                                                         *)
(* An event is a record [id, src, dst, kind, secs]: one call of            *)
(* SignalEvent (secs = 0) or SignalEventAfter (secs > 0) by src for node   *)
(* dst, or of Quit (kind "quit"), or the quitAfter event of loop.go.  The  *)
(* calls of one src are made in the order of their ids.                    *)
(***************************************************************************)
EXTENDS Integers, Sequences, FiniteSets

CONSTANTS
  None,         \* no event, no node
  Nodes,        \* nodes that events are sent to
  Signalers,    \* goroutines other than the handlers that signal events
  Pollers,      \* data pollers that become active and inactive
  Events,       \* the calls that may be made
  Boot,         \* timed events that may be signalled before the loop runs
  Running,      \* nodes whose handler is started before the loop runs
  Resumable,    \* nodes whose actions suspend themselves
  Crashing,     \* nodes whose actions may panic
  Timeouts,     \* TRUE: the 30 second waits may expire
  ChanDepth,    \* eventHandlerChanDepth
  MaxSuspends,  \* bound of the model: suspends per node
  MaxToggles,   \* bound of the model: activity changes per poller
  MaxTime       \* bound of the model: cpu time

NoIndex == -1      \* ^uint(0)
Never == MaxTime + 1   \* maxCpuTime, maxDuration
Callers == Signalers \cup Nodes

ASSUME EventLoopAssumption ==
  /\ ChanDepth \in Nat \ {0}
  /\ MaxTime \in Nat /\ MaxSuspends \in Nat /\ MaxToggles \in Nat
  /\ Running \subseteq Nodes /\ Resumable \subseteq Nodes
  /\ Crashing \subseteq Nodes
  /\ Timeouts \in BOOLEAN
  /\ Nodes \cap Signalers = {}
  /\ None \notin Nodes /\ None \notin Events /\ Nodes \cap Events = {}
  /\ None \notin {"quit", "interrupt"}
  /\ IsFiniteSet(Nodes)
  /\ Events \subseteq [id : Nat, src : Callers, dst : Nodes \cup {None},
                       kind : {"work", "quit", "quitAfter"}, secs : Nat]
  /\ \A e \in Events : (e.kind = "work") <=> (e.dst # None)
  /\ \A e \in Events : e.kind = "quit" => e.secs = 0
  /\ Boot \subseteq Events
  /\ \A e \in Boot : e.secs \in 1 .. MaxTime /\ e.dst \in Running \cup {None}

VARIABLES
  \* the loop goroutine: program point and locals of doEvents
  lpc, li, didWait, timeout, quit, inactiveNodes, ev, disp,
  \* eventMain: active vector; eventNode: index, count
  activeNodes, activeIndex, activeCount,
  \* fromToNode channels and rxEvents
  toNode, fromNode, rxEvents,
  \* handlers: program point, current event, eventNodeState, suspends so far
  hpc, currentEvent, s, suspends,
  \* hasHandler flag; startEventHandlerOnce done
  hasHandler, started,
  \* callers: pending call of each; events whose call was made
  call, issued,
  \* l.events, timedEventPool, clock, timer
  events, timed, now, timerCpuTime, timerDue, timerOn, timerC,
  \* activePollerState: pollers counted in nActive and the wait bit
  polling, eventWait, waking, toggles,
  \* l.panicErr; the process has ended
  panicErr, exited,
  \* history: events whose action returned; events put in the timed pool
  \* because l.events was full
  done, deferred

loopVars == <<lpc, li, didWait, timeout, quit, inactiveNodes, ev, disp>>
activeVars == <<activeNodes, activeIndex, activeCount>>
chanVars == <<toNode, fromNode, rxEvents>>
handlerVars == <<hpc, currentEvent, s, suspends>>
startVars == <<hasHandler, started>>
callVars == <<call, issued>>
timerVars == <<timed, now, timerCpuTime, timerDue, timerOn, timerC>>
pollVars == <<polling, eventWait, waking, toggles>>
endVars == <<panicErr, exited>>
histVars == <<done, deferred>>

vars == <<loopVars, activeVars, chanVars, handlerVars, startVars, callVars,
          events, timerVars, pollVars, endVars, histVars>>

Idle == [op |-> "idle", arg |-> None]
ResumeOf(n) == [kind |-> "resume", dst |-> n]
Interrupt == [kind |-> "interrupt", dst |-> None]
QuitEvent == [kind |-> "quit", dst |-> None]

FullOffByOne(ch) == Len(ch) > ChanDepth

Full(ch) == Len(ch) >= ChanDepth

Init ==
  /\ lpc = "top" /\ li = 1 /\ didWait = FALSE /\ timeout = FALSE
  /\ quit = None /\ inactiveNodes = <<>> /\ ev = {} /\ disp = None
  /\ activeNodes = <<>>
  /\ activeIndex = [n \in Nodes |-> IF n \in Running THEN NoIndex ELSE 0]
  /\ activeCount = [n \in Nodes |-> 0]
  /\ toNode = [n \in Nodes |-> 0]
  /\ fromNode = [n \in Nodes |-> <<>>]
  /\ rxEvents = [n \in Nodes |-> <<>>]
  /\ hpc = [n \in Nodes |-> IF n \in Running THEN "wait" ELSE "off"]
  /\ currentEvent = [n \in Nodes |-> None]
  /\ s = [n \in Nodes |-> [suspended |-> FALSE, resumed |-> FALSE]]
  /\ suspends = [n \in Nodes |-> 0]
  /\ hasHandler = [n \in Nodes |-> n \in Running]
  /\ started = [n \in Nodes |-> n \in Running]
  /\ call = [c \in Callers |-> Idle]
  /\ issued \in SUBSET Boot
  /\ events = <<>>
  /\ timed = {[t |-> e.secs, e |-> e] : e \in issued} /\ now = 0
  /\ timerCpuTime = Never /\ timerDue = Never
  /\ timerOn = TRUE /\ timerC = FALSE
  /\ polling = {} /\ eventWait = FALSE /\ waking = {}
  /\ toggles = [p \in Pollers |-> 0]
  /\ panicErr = FALSE /\ exited = FALSE
  /\ done = {} /\ deferred = {}
-----------------------------------------------------------------------------
(* A send on a buffered channel.                                           *)
QueueFront(q, e) == <<e>> \o q

Queue(q, e) == Append(q, e)

(* The event is stamped with the strictly increasing cpu clock and added   *)
(* to the timed pool (or, as a bug, dropped).                              *)
DeferDrops(e) == timed

Defer(e) == timed \cup {[t |-> now + 1, e |-> e]}

(* signalEvent: the select with a default.  A full channel turns the call  *)
(* into signalEventAfter(le, 0).                                           *)
SignalEvent(e) ==
  IF ~Full(events)
  THEN /\ events' = Queue(events, e)
       /\ UNCHANGED <<timed, now, deferred>>
  ELSE /\ now < MaxTime
       /\ now' = now + 1
       /\ timed' = Defer(e)
       /\ deferred' = deferred \cup {e}
       /\ UNCHANGED events

(* signalEventAfter with a positive number of seconds.                     *)
SignalEventAfter(e) ==
  /\ now + e.secs <= MaxTime
  /\ timed' = timed \cup {[t |-> now + e.secs, e |-> e]}
  /\ UNCHANGED <<events, now, deferred>>

(* A handler makes calls from the action it is running; the other callers  *)
(* make them at any time.                                                  *)
MayCall(c) == call[c] = Idle /\ (c \in Nodes => hpc[c] = "run")

(* getLoopEvent and the unlocked test of hasHandler in                     *)
(* maybeStartEventHandler.  While the flag is set and startEventHandlerOnce*)
(* is not yet done, a caller that raced with the write may also have read  *)
(* false.                                                                  *)
BeginSignal(c, e) ==
  /\ MayCall(c)
  /\ e.src = c /\ e \in Events \ (issued \cup Boot)
  /\ \A f \in Events \ (issued \cup Boot) : f.src = c => e.id <= f.id
  /\ issued' = issued \cup {e}
  /\ \/ /\ e.dst \in {None} \cup {n \in Nodes : hasHandler[n]}
        /\ call' = [call EXCEPT ![c] = [op |-> "send", arg |-> e]]
        /\ UNCHANGED hasHandler
     \/ /\ e.dst \in {n \in Nodes : ~started[n]}
        /\ call' = [call EXCEPT ![c] = [op |-> "once", arg |-> e]]
        /\ hasHandler' = [hasHandler EXCEPT ![e.dst] = TRUE]
  /\ UNCHANGED <<loopVars, activeVars, chanVars, handlerVars, started, events,
                 timerVars, pollVars, endVars, histVars>>

(* startEventHandlerOnce.Do: the first caller creates the channels and     *)
(* starts the handler, any other waits for it.                             *)
StartHandlerOnce(c) ==
  LET d == call[c].arg.dst IN
  /\ call[c].op = "once"
  /\ call' = [call EXCEPT ![c].op = "send"]
  /\ IF started[d]
     THEN UNCHANGED <<started, activeIndex, hpc>>
     ELSE /\ started' = [started EXCEPT ![d] = TRUE]
          /\ activeIndex' = [activeIndex EXCEPT ![d] = NoIndex]
          /\ hpc' = [hpc EXCEPT ![d] = "wait"]
  /\ UNCHANGED <<loopVars, activeNodes, activeCount, chanVars, currentEvent, s,
                 suspends, hasHandler, issued, events, timerVars, pollVars,
                 endVars, histVars>>

EndSignal(c) ==
  /\ call[c].op = "send"
  /\ IF call[c].arg.secs = 0
     THEN SignalEvent(call[c].arg)
     ELSE SignalEventAfter(call[c].arg)
  /\ call' = [call EXCEPT ![c] = Idle]
  /\ UNCHANGED <<loopVars, activeVars, chanVars, handlerVars, startVars, issued,
                 timerCpuTime, timerDue, timerOn, timerC, pollVars, endVars,
                 done>>

CanResumeTwice(n) == s[n].suspended \/ s[n].resumed

CanResume(n) == s[n].suspended /\ ~s[n].resumed

(* Event.Resume: setResume succeeds once per suspend; a Resume that comes  *)
(* before the suspend, or after another Resume, is ignored.                *)
Resume(c, n) ==
  /\ MayCall(c)
  /\ CanResume(n)
  /\ s' = [s EXCEPT ![n] = [suspended |-> FALSE, resumed |-> TRUE]]
  /\ call' = [call EXCEPT ![c] = [op |-> "resume", arg |-> n]]
  /\ UNCHANGED <<loopVars, activeVars, chanVars, hpc, currentEvent, suspends,
                 startVars, issued, events, timerVars, pollVars, endVars,
                 histVars>>

(* The send of Resume has no default: it blocks while l.events is full.    *)
SendResume(c) ==
  /\ call[c].op = "resume"
  /\ ~Full(events)
  /\ events' = Append(events, ResumeOf(call[c].arg))
  /\ call' = [call EXCEPT ![c] = Idle]
  /\ UNCHANGED <<loopVars, activeVars, chanVars, handlerVars, startVars, issued,
                 timerVars, pollVars, endVars, histVars>>

Call(c) ==
  \/ \E e \in Events : BeginSignal(c, e)
  \/ StartHandlerOnce(c)
  \/ EndSignal(c)
  \/ \E n \in Nodes : Resume(c, n)
  \/ SendResume(c)
-----------------------------------------------------------------------------
(* The wait bit changeActive returns is the one before the change.         *)
WasWaitingAfter == eventWait'

WasWaiting == eventWait

(* changeActive as the data pollers use it: the count and the wait bit are *)
(* one word changed by compare and swap, and the old wait bit decides      *)
(* whether Interrupt is called afterwards.                                 *)
ChangeActive(p) ==
  /\ p \notin waking
  /\ toggles[p] < MaxToggles
  /\ toggles' = [toggles EXCEPT ![p] = @ + 1]
  /\ polling' = IF p \in polling THEN polling \ {p} ELSE polling \cup {p}
  /\ eventWait' = (eventWait /\ polling' = {})
  /\ waking' = IF WasWaiting THEN waking \cup {p} ELSE waking
  /\ UNCHANGED <<loopVars, activeVars, chanVars, handlerVars, startVars,
                 callVars, events, timerVars, endVars, histVars>>

InterruptLoop(p) ==
  /\ p \in waking
  /\ waking' = waking \ {p}
  /\ SignalEvent(Interrupt)
  /\ UNCHANGED <<loopVars, activeVars, chanVars, handlerVars, startVars,
                 callVars, timerCpuTime, timerDue, timerOn, timerC, polling,
                 eventWait, toggles, endVars, done>>

Poller(p) == ChangeActive(p) \/ InterruptLoop(p)
-----------------------------------------------------------------------------
(* eventHandler: waitLoop, then the receive from rxEvents, then the action.*)
WaitLoop(n) ==
  /\ hpc[n] = "wait" /\ toNode[n] = 1
  /\ toNode' = [toNode EXCEPT ![n] = 0]
  /\ hpc' = [hpc EXCEPT ![n] = "recv"]
  /\ UNCHANGED <<loopVars, activeVars, fromNode, rxEvents, currentEvent, s,
                 suspends, startVars, callVars, events, timerVars, pollVars,
                 endVars, histVars>>

ReceiveEvent(n) ==
  /\ hpc[n] = "recv" /\ rxEvents[n] # <<>>
  /\ currentEvent' = [currentEvent EXCEPT ![n] = Head(rxEvents[n])]
  /\ rxEvents' = [rxEvents EXCEPT ![n] = Tail(@)]
  /\ hpc' = [hpc EXCEPT ![n] = "run"]
  /\ UNCHANGED <<loopVars, activeVars, toNode, fromNode, s, suspends, startVars,
                 callVars, events, timerVars, pollVars, endVars, histVars>>

LessOneEventForgotten(n) == activeCount[n]

LessOneEvent(n) == activeCount[n] - 1

(* eventDone: setDone clears a suspend state that is still set, and the    *)
(* loop is told that the node finished its event.                          *)
EventDone(n, next) ==
  /\ hpc[n] = "run" /\ call[n] = Idle /\ fromNode[n] = <<>>
  /\ s' = IF s[n].suspended
          THEN [s EXCEPT ![n] = [suspended |-> FALSE, resumed |-> FALSE]]
          ELSE s
  /\ done' = done \cup {currentEvent[n]}
  /\ currentEvent' = [currentEvent EXCEPT ![n] = None]
  /\ activeCount' = [activeCount EXCEPT ![n] = LessOneEvent(n)]
  /\ fromNode' = [fromNode EXCEPT ![n] = <<TRUE>>]
  /\ hpc' = [hpc EXCEPT ![n] = next]
  /\ UNCHANGED <<loopVars, activeNodes, activeIndex, toNode, rxEvents, suspends,
                 startVars, callVars, events, timerVars, pollVars, exited,
                 deferred>>

FinishEvent(n) == EventDone(n, "wait") /\ UNCHANGED panicErr

(* The deferred recover of eventHandler: record the panic, finish the      *)
(* event, end the goroutine.                                               *)
PanicHandler(n) ==
  /\ EventDone(n, "dead")
  /\ n \in Crashing \/ (n \in Resumable /\ activeIndex[n] = NoIndex)
  /\ panicErr' = TRUE

(* Event.Suspend and SuspendWTimeout.  Suspending a node that is not in    *)
(* the active vector is a panic.                                           *)
Suspend(n) ==
  /\ hpc[n] = "run" /\ call[n] = Idle /\ n \in Resumable
  /\ activeIndex[n] # NoIndex
  /\ ~s[n].suspended
  /\ suspends[n] < MaxSuspends
  /\ suspends' = [suspends EXCEPT ![n] = @ + 1]
  /\ s' = [s EXCEPT ![n] = [suspended |-> TRUE, resumed |-> FALSE]]
  /\ hpc' = [hpc EXCEPT ![n] = "suspend"]
  /\ UNCHANGED <<loopVars, activeVars, chanVars, currentEvent, startVars,
                 callVars, events, timerVars, pollVars, endVars, histVars>>

SignalSuspended(n) ==
  /\ hpc[n] = "suspend" /\ fromNode[n] = <<>>
  /\ fromNode' = [fromNode EXCEPT ![n] = <<FALSE>>]
  /\ hpc' = [hpc EXCEPT ![n] = "suspended"]
  /\ UNCHANGED <<loopVars, activeVars, toNode, rxEvents, currentEvent, s,
                 suspends, startVars, callVars, events, timerVars, pollVars,
                 endVars, histVars>>

WakeSuspended(n) ==
  /\ hpc[n] = "suspended" /\ toNode[n] = 1
  /\ toNode' = [toNode EXCEPT ![n] = 0]
  /\ hpc' = [hpc EXCEPT ![n] = "run"]
  /\ UNCHANGED <<loopVars, activeVars, fromNode, rxEvents, currentEvent, s,
                 suspends, startVars, callVars, events, timerVars, pollVars,
                 endVars, histVars>>

(* waitLoop_with_timeout, in eventHandler or in SuspendWTimeout, without a *)
(* signal: os.Exit(3).                                                     *)
HandlerTimeout(n) ==
  /\ Timeouts
  /\ hpc[n] \in {"wait", "suspended"} /\ toNode[n] = 0
  /\ exited' = TRUE
  /\ UNCHANGED <<loopVars, activeVars, chanVars, handlerVars, startVars,
                 callVars, events, timerVars, pollVars, panicErr, histVars>>

Handler(n) ==
  \/ WaitLoop(n) \/ ReceiveEvent(n)
  \/ FinishEvent(n) \/ PanicHandler(n)
  \/ Suspend(n) \/ SignalSuspended(n) \/ WakeSuspended(n)
-----------------------------------------------------------------------------
(* addActive: a node that is already active is ignored.                    *)
AddActive(n) ==
  IF activeIndex[n] # NoIndex
  THEN UNCHANGED <<activeNodes, activeIndex>>
  ELSE /\ activeIndex' = [activeIndex EXCEPT ![n] = Len(activeNodes)]
       /\ activeNodes' = Append(activeNodes, n)

(* The program point that follows a dispatched event.                      *)
AfterEvent == IF timeout THEN "expire" ELSE IF didWait THEN "clear" ELSE "start"

FirstQueuedIgnored(n) == TRUE

FirstQueued(n) == activeCount'[n] = 1

(* nodeEvent.EventAction up to the send on rxEvents.                       *)
QueueToNode(e) ==
  /\ activeCount' = [activeCount EXCEPT ![e.dst] = @ + 1]
  /\ IF FirstQueued(e.dst)
     THEN AddActive(e.dst)
     ELSE UNCHANGED <<activeNodes, activeIndex>>
  /\ disp' = e /\ lpc' = "sendRx"

(* doNodeEvent for the event received from l.events.                       *)
DoNodeEvent(e) ==
  \/ /\ e.kind \in {"quit", "interrupt"}
     /\ quit' = e.kind /\ lpc' = AfterEvent
     /\ UNCHANGED <<activeVars, s, disp>>
  \/ /\ e.kind = "resume"
     /\ AddActive(e.dst)
     /\ s' = [s EXCEPT ![e.dst].resumed = FALSE]
     /\ lpc' = AfterEvent
     /\ UNCHANGED <<activeCount, quit, disp>>
  \/ /\ e.kind = "work"
     /\ QueueToNode(e)
     /\ UNCHANGED <<s, quit>>

ReceiveLoopEvent ==
  /\ events # <<>>
  /\ events' = Tail(events)
  /\ DoNodeEvent(Head(events))
  /\ UNCHANGED <<li, didWait, timeout, inactiveNodes, ev, chanVars, hpc,
                 currentEvent, suspends, startVars, callVars, timerVars,
                 pollVars, endVars, histVars>>

(* doEvents begins: wait only with no active node and no active poller.    *)
SetEventWait ==
  /\ lpc = "top"
  /\ didWait' = (activeNodes = <<>> /\ polling = {})
  /\ eventWait' = (eventWait \/ didWait')
  /\ lpc' = IF didWait' THEN "arm" ELSE "poll"
  /\ UNCHANGED <<li, timeout, quit, inactiveNodes, ev, disp, activeVars,
                 chanVars, handlerVars, startVars, callVars, events, timerVars,
                 polling, waking, toggles, endVars, histVars>>

NextTime == IF timed = {} THEN Never
            ELSE CHOOSE t \in 0 .. MaxTime : /\ \E x \in timed : x.t = t
                                             /\ \A x \in timed : t <= x.t

TimerChangedOnce == timerCpuTime = Never /\ NextTime # Never

TimerChanged == NextTime # timerCpuTime

(* The timer is reset only when the wake-up time changes; a timer that has *)
(* fired is drained first, which blocks if nothing is in its channel.      *)
ArmTimer ==
  /\ lpc = "arm"
  /\ IF TimerChanged
     THEN /\ timerOn \/ timerC
          /\ timerC' = (timerC /\ timerOn)
          /\ timerOn' = TRUE
          /\ timerCpuTime' = NextTime /\ timerDue' = NextTime
     ELSE UNCHANGED <<timerCpuTime, timerDue, timerOn, timerC>>
  /\ lpc' = "wait"
  /\ UNCHANGED <<li, didWait, timeout, quit, inactiveNodes, ev, disp,
                 activeVars, chanVars, handlerVars, startVars, callVars, events,
                 timed, now, pollVars, endVars, histVars>>

DoEventWait == lpc = "wait" /\ ReceiveLoopEvent

ResetForgotten == timerOn

Reset == TRUE

(* The timer case of doEventWait: the timer is set to maxDuration but      *)
(* timerCpuTime keeps the time that was armed.                             *)
WaitTimeout ==
  /\ lpc = "wait" /\ timerC
  /\ timerC' = FALSE /\ timerOn' = Reset /\ timerDue' = Never
  /\ timeout' = TRUE
  /\ lpc' = "clear"
  /\ UNCHANGED <<li, didWait, quit, inactiveNodes, ev, disp, activeVars,
                 chanVars, handlerVars, startVars, callVars, events, timed, now,
                 timerCpuTime, pollVars, endVars, histVars>>

ClearEventWait ==
  /\ lpc = "clear"
  /\ eventWait' = FALSE
  /\ lpc' = IF timeout THEN "advance" ELSE "start"
  /\ UNCHANGED <<li, didWait, timeout, quit, inactiveNodes, ev, disp,
                 activeVars, chanVars, handlerVars, startVars, callVars, events,
                 timerVars, polling, waking, toggles, endVars, histVars>>

DoEventNoWait ==
  /\ lpc = "poll"
  /\ \/ ReceiveLoopEvent
     \/ /\ events = <<>>
        /\ lpc' = "start"
        /\ UNCHANGED <<li, didWait, timeout, quit, inactiveNodes, ev, disp,
                       activeVars, chanVars, handlerVars, startVars, callVars,
                       events, timerVars, pollVars, endVars, histVars>>

ExpiredBefore == {x \in timed : x.t < timerCpuTime}

Expired == {x \in timed : x.t <= timerCpuTime}

UnexpiredForgotten == timed

Unexpired == timed \ Expired

(* After a timeout: take what expired by the armed time, in time order.    *)
(* Nothing expired is the panic "wait timeout but not events expired".     *)
AdvanceAdd ==
  /\ lpc = "advance"
  /\ ev' = Expired
  /\ timed' = Unexpired
  /\ lpc' = IF Expired = {} THEN "crashed" ELSE "expire"
  /\ exited' = (Expired = {})
  /\ UNCHANGED <<li, didWait, timeout, quit, inactiveNodes, disp, activeVars,
                 chanVars, handlerVars, startVars, callVars, events, now,
                 timerCpuTime, timerDue, timerOn, timerC, pollVars, panicErr,
                 histVars>>

(* EventAction of an expired event.  Without a node the actor's own action *)
(* runs on the loop: nothing for quit and interrupt, Quit for quitAfter.   *)
ExpireEvent(x) ==
  /\ lpc = "expire"
  /\ x \in ev /\ \A y \in ev : x.t <= y.t
  /\ ev' = ev \ {x}
  /\ \/ /\ x.e.kind = "work"
        /\ QueueToNode(x.e)
        /\ UNCHANGED <<events, timed, now, histVars>>
     \/ /\ x.e.kind = "quitAfter"
        /\ SignalEvent(QuitEvent)
        /\ done' = done \cup {x.e}
        /\ UNCHANGED <<activeVars, disp, lpc>>
     \/ /\ x.e.kind \in {"quit", "interrupt"}
        /\ done' = IF x.e \in Events THEN done \cup {x.e} ELSE done
        /\ UNCHANGED <<activeVars, disp, lpc, events, timed, now, deferred>>
  /\ UNCHANGED <<li, didWait, timeout, quit, inactiveNodes, chanVars,
                 handlerVars, startVars, callVars, timerCpuTime, timerDue,
                 timerOn, timerC, pollVars, endVars>>

AllExpired ==
  /\ lpc = "expire" /\ ev = {}
  /\ lpc' = "start"
  /\ UNCHANGED <<li, didWait, timeout, quit, inactiveNodes, ev, disp,
                 activeVars, chanVars, handlerVars, startVars, callVars, events,
                 timerVars, pollVars, endVars, histVars>>

(* The send on rxEvents blocks while the channel is full, and for ever if  *)
(* the channel was not yet made.                                           *)
SendRxEvent ==
  /\ lpc = "sendRx"
  /\ IF started[disp.dst]
     THEN /\ ~Full(rxEvents[disp.dst])
          /\ rxEvents' = [rxEvents EXCEPT ![disp.dst] = Queue(@, disp)]
          /\ disp' = None
          /\ lpc' = AfterEvent
     ELSE lpc' = "stuck" /\ UNCHANGED <<rxEvents, disp>>
  /\ UNCHANGED <<li, didWait, timeout, quit, inactiveNodes, ev, activeVars,
                 toNode, fromNode, handlerVars, startVars, callVars, events,
                 timerVars, pollVars, endVars, histVars>>

(* Signal all active nodes to start, in the order of the active vector.    *)
SignalNode ==
  /\ lpc = "start"
  /\ IF li <= Len(activeNodes)
     THEN /\ toNode[activeNodes[li]] = 0
          /\ toNode' = [toNode EXCEPT ![activeNodes[li]] = 1]
          /\ li' = li + 1
          /\ UNCHANGED lpc
     ELSE /\ li' = 1
          /\ lpc' = "finish"
          /\ UNCHANGED toNode
  /\ UNCHANGED <<didWait, timeout, quit, inactiveNodes, ev, disp, activeVars,
                 fromNode, rxEvents, handlerVars, startVars, callVars, events,
                 timerVars, pollVars, endVars, histVars>>

NodeAnsweredIgnored(n) == TRUE

NodeAnswered(n) == fromNode[n] # <<>>

BecomesInactiveAlways(n) == TRUE

BecomesInactive(n) == fromNode[n] # <<TRUE>> \/ activeCount[n] = 0

(* Wait for all active nodes to finish; collect those that suspended or    *)
(* have nothing queued.                                                    *)
WaitNode ==
  /\ lpc = "finish"
  /\ IF li <= Len(activeNodes)
     THEN LET n == activeNodes[li] IN
          /\ NodeAnswered(n)
          /\ fromNode' = [fromNode EXCEPT ![n] = <<>>]
          /\ inactiveNodes' = IF BecomesInactive(n)
                              THEN Append(inactiveNodes, n) ELSE inactiveNodes
          /\ li' = li + 1
          /\ UNCHANGED lpc
     ELSE /\ li' = 1
          /\ lpc' = "inactivate"
          /\ UNCHANGED <<fromNode, inactiveNodes>>
  /\ UNCHANGED <<didWait, timeout, quit, ev, disp, activeVars, toNode, rxEvents,
                 handlerVars, startVars, callVars, events, timerVars, pollVars,
                 endVars, histVars>>

(* waitNode_with_timeout after 30 seconds: os.Exit(3).                     *)
WaitNodeTimeout ==
  /\ Timeouts
  /\ lpc = "finish" /\ li <= Len(activeNodes)
  /\ fromNode[activeNodes[li]] = <<>>
  /\ exited' = TRUE
  /\ UNCHANGED <<loopVars, activeVars, chanVars, handlerVars, startVars,
                 callVars, events, timerVars, pollVars, panicErr, histVars>>

(* delActive: the last node moves into the hole; its activeIndex is left   *)
(* as it was.                                                              *)
DelActive(n) ==
  LET ai == activeIndex[n]
      l == Len(activeNodes)
      moved == IF ai # NoIndex /\ ai < l - 1
               THEN [activeNodes EXCEPT ![ai + 1] = activeNodes[l]]
               ELSE activeNodes
  IN /\ activeNodes' = SubSeq(moved, 1, l - 1)
     /\ activeIndex' = [activeIndex EXCEPT ![n] = NoIndex]

InactivateNode ==
  /\ lpc = "inactivate" /\ inactiveNodes # <<>>
  /\ DelActive(Head(inactiveNodes))
  /\ inactiveNodes' = Tail(inactiveNodes)
  /\ UNCHANGED <<lpc, li, didWait, timeout, quit, ev, disp, activeCount,
                 chanVars, handlerVars, startVars, callVars, events, timerVars,
                 pollVars, endVars, histVars>>

QuitLoopIgnored == panicErr

QuitLoop == quit = "quit" \/ panicErr

(* The result of doEvents: leave Run, or poll and begin again.             *)
EndDoEvents ==
  /\ lpc = "inactivate" /\ inactiveNodes = <<>>
  /\ lpc' = IF QuitLoop THEN "exit" ELSE "pollers"
  /\ exited' = QuitLoop
  /\ didWait' = FALSE /\ timeout' = FALSE /\ quit' = None
  /\ UNCHANGED <<li, inactiveNodes, ev, disp, activeVars, chanVars, handlerVars,
                 startVars, callVars, events, timerVars, pollVars, panicErr,
                 histVars>>

(* doPollers, whose own steps touch nothing of this module.                *)
DoPollers ==
  /\ lpc = "pollers"
  /\ lpc' = "top"
  /\ UNCHANGED <<li, didWait, timeout, quit, inactiveNodes, ev, disp,
                 activeVars, chanVars, handlerVars, startVars, callVars, events,
                 timerVars, pollVars, endVars, histVars>>

LoopStep ==
  \/ SetEventWait \/ ArmTimer \/ DoEventWait \/ WaitTimeout \/ ClearEventWait
  \/ DoEventNoWait \/ AdvanceAdd \/ (\E x \in ev : ExpireEvent(x))
  \/ AllExpired \/ SendRxEvent \/ SignalNode \/ WaitNode \/ InactivateNode
  \/ EndDoEvents \/ DoPollers
-----------------------------------------------------------------------------
(* The runtime: cpu time passes and the timer fires into its channel.      *)
(* Time matters only up to the last deadline, so it stops there.           *)
Tick ==
  /\ \E x \in timed : now < x.t
  /\ now' = now + 1
  /\ UNCHANGED <<loopVars, activeVars, chanVars, handlerVars, startVars,
                 callVars, events, timed, timerCpuTime, timerDue, timerOn,
                 timerC, pollVars, endVars, histVars>>

FireTimer ==
  /\ timerOn /\ timerDue <= now
  /\ timerOn' = FALSE /\ timerC' = TRUE
  /\ UNCHANGED <<loopVars, activeVars, chanVars, handlerVars, startVars,
                 callVars, events, timed, now, timerCpuTime, timerDue, pollVars,
                 endVars, histVars>>

Step ==
  \/ \E c \in Callers : Call(c)
  \/ \E p \in Pollers : Poller(p)
  \/ \E n \in Nodes : Handler(n) \/ HandlerTimeout(n)
  \/ LoopStep \/ WaitNodeTimeout
  \/ Tick \/ FireTimer

(* The loop may sleep for ever if nobody calls.                            *)
Asleep ==
  /\ ~exited
  /\ lpc = "wait" /\ events = <<>> /\ ~timerC
  /\ UNCHANGED vars

Exited == exited /\ UNCHANGED vars

Next == (~exited /\ Step) \/ Asleep \/ Exited

Spec == Init /\ [][Next]_vars

(* Fairness: goroutines are scheduled, an action returns or suspends, time *)
(* passes.  The callers need not call, but finish a call they began, and   *)
(* somebody resumes a suspended event.                                     *)
Fairness ==
  /\ WF_vars(~exited /\ LoopStep)
  /\ \A n \in Nodes :
       WF_vars(~exited /\ (WaitLoop(n) \/ ReceiveEvent(n) \/ FinishEvent(n)
                             \/ SignalSuspended(n) \/ WakeSuspended(n)))
  /\ \A c \in Callers :
       WF_vars(~exited /\ (StartHandlerOnce(c) \/ EndSignal(c) \/ SendResume(c)))
  /\ \A n \in Nodes : WF_vars(~exited /\ \E c \in Signalers : Resume(c, n))
  /\ \A p \in Pollers : WF_vars(~exited /\ InterruptLoop(p))
  /\ WF_vars(~exited /\ Tick) /\ WF_vars(~exited /\ FireTimer)

FairSpec == Spec /\ Fairness
-----------------------------------------------------------------------------
WorkEvents == {e \in Events : e.kind = "work"}
Message == Events \cup {ResumeOf(n) : n \in Nodes} \cup {Interrupt, QuitEvent}
TimedEvent == [t : 0 .. MaxTime, e : Message]

TypeLoop ==
  /\ lpc \in {"top", "arm", "wait", "clear", "poll", "advance", "expire",
              "sendRx", "start", "finish", "inactivate", "pollers", "exit",
              "stuck", "crashed"}
  /\ li \in Nat \ {0}
  /\ didWait \in BOOLEAN /\ timeout \in BOOLEAN
  /\ quit \in {None, "quit", "interrupt"}
  /\ inactiveNodes \in Seq(Nodes)
  /\ ev \in SUBSET TimedEvent
  /\ disp \in WorkEvents \cup {None}

TypeNode ==
  /\ activeNodes \in Seq(Nodes)
  /\ activeIndex \in [Nodes -> Nat \cup {NoIndex}]
  /\ activeCount \in [Nodes -> Nat]
  /\ toNode \in [Nodes -> {0, 1}]
  /\ fromNode \in [Nodes -> {<<>>, <<TRUE>>, <<FALSE>>}]
  /\ rxEvents \in [Nodes -> Seq(WorkEvents)]
  /\ hasHandler \in [Nodes -> BOOLEAN] /\ started \in [Nodes -> BOOLEAN]

TypeHandler ==
  /\ hpc \in [Nodes -> {"off", "wait", "recv", "run", "suspend", "suspended",
                        "dead"}]
  /\ currentEvent \in [Nodes -> WorkEvents \cup {None}]
  /\ s \in [Nodes -> [suspended : BOOLEAN, resumed : BOOLEAN]]
  /\ suspends \in [Nodes -> Nat]

TypeCall ==
  /\ call \in [Callers -> {Idle} \cup [op : {"once"}, arg : WorkEvents]
                                 \cup [op : {"send"}, arg : Events]
                                 \cup [op : {"resume"}, arg : Nodes]]
  /\ issued \in SUBSET Events
  /\ done \in SUBSET Events /\ deferred \in SUBSET Message

TypeTimer ==
  /\ events \in Seq(Message) /\ Len(events) <= ChanDepth
  /\ timed \in SUBSET TimedEvent
  /\ now \in 0 .. MaxTime
  /\ timerCpuTime \in 0 .. Never /\ timerDue \in 0 .. Never
  /\ timerOn \in BOOLEAN /\ timerC \in BOOLEAN

TypePoll ==
  /\ polling \in SUBSET Pollers /\ waking \in SUBSET Pollers
  /\ eventWait \in BOOLEAN
  /\ toggles \in [Pollers -> Nat]
  /\ panicErr \in BOOLEAN /\ exited \in BOOLEAN

TypeOK ==
  TypeLoop /\ TypeNode /\ TypeHandler /\ TypeCall /\ TypeTimer /\ TypePoll

Executing(n) == hpc[n] \in {"recv", "run", "suspend"}

(* While the loop dispatches, arms its timer, sleeps, removes nodes from   *)
(* the active vector or polls, no handler executes: activeNodes,           *)
(* activeIndex and activeCount, which nothing locks, are never touched by  *)
(* the loop and by a handler together.                                     *)
LoopOrHandlers ==
  lpc \notin {"start", "finish"} => \A n \in Nodes : ~Executing(n)

(* The loop never sleeps while a data poller is active unless the event    *)
(* that ends the sleep is queued or about to be queued: the Interrupt      *)
(* after changeActive cannot be missed.                                    *)
NoLostWakeup ==
  lpc \in {"arm", "wait"} /\ polling # {} => events # <<>> \/ waking # {}

(* activeCount, which decides when a node enters and leaves the active     *)
(* vector, counts exactly the events queued to the node and not finished.  *)
CountsQueued ==
  \A n \in Nodes :
    activeCount[n] = Len(rxEvents[n])
                     + (IF currentEvent[n] # None THEN 1 ELSE 0)
                     + (IF disp # None /\ disp.dst = n THEN 1 ELSE 0)

Occurrences(seq, x) == Cardinality({k \in 1 .. Len(seq) : seq[k] = x})

Places(e) ==
  Cardinality({c \in Callers : call[c].arg = e})
  + Occurrences(events, e)
  + Cardinality({x \in timed \cup ev : x.e = e})
  + (IF disp = e THEN 1 ELSE 0)
  + (IF e.dst = None THEN 0
     ELSE Occurrences(rxEvents[e.dst], e)
          + (IF currentEvent[e.dst] = e THEN 1 ELSE 0))
  + (IF e \in done THEN 1 ELSE 0)

(* A signalled event is in exactly one place until its action has returned:*)
(* neither the overflow into the timed pool nor suspension, expiry or a    *)
(* panic loses or duplicates it.                                           *)
EventConserved ==
  \A e \in Events : e.kind = "work" =>
    Places(e) = IF e \in issued THEN 1 ELSE 0

(* Events whose call has returned; those that went to the timed pool.      *)
Signalled == {e \in issued \cap WorkEvents : \A c \in Callers : call[c].arg # e}
Loose == {e \in Signalled : e \in deferred \/ e.secs > 0}

Dispatch == INSTANCE EventDispatch WITH
  Work <- WorkEvents,
  signalled <- Signalled,
  loose <- Loose,
  running <- currentEvent,
  finished <- done \cap WorkEvents

(* The loop implements EventDispatch: with overflow, timers, suspension,   *)
(* panics and concurrent callers, events run at most once, where they were *)
(* sent, and in the order one caller sent them.                            *)
DispatchesInOrder == Dispatch!AbsSpec

(* "wait timeout but not events expired" (event.go:544) never happens: a   *)
(* timer armed for one event and overtaken by channel events, by earlier   *)
(* timed events and by overflow always finds something expired.            *)
NoFalseTimeout == lpc # "crashed"

(* Draining the timer channel after a failed Stop (event.go:519) finds a   *)
(* value: a timer that fired while the loop was busy was not consumed      *)
(* elsewhere.                                                              *)
TimerNeverStuck == lpc = "arm" => timerOn \/ timerC

ResumesInFlight(n) ==
  Occurrences(events, ResumeOf(n))
  + Cardinality({c \in Callers : call[c] = [op |-> "resume", arg |-> n]})

(* A node is in the resumed state exactly while one resume event for it is *)
(* on its way, however many goroutines call Resume and whenever they do.   *)
(* (It and the next two hold of one node.  Of more they hold as long as    *)
(* ActiveIndexIsPosition and DispatchedNodeHasHandler do, not otherwise:   *)
(* delActive's stale index takes the wrong node out of the vector.)        *)
OneResumePerSuspend ==
  \A n \in Nodes : ResumesInFlight(n) = IF s[n].resumed THEN 1 ELSE 0

(* Between iterations a node with unfinished events is in the active       *)
(* vector, unless it is suspended and its resume event has not been        *)
(* dispatched: no node is left behind with queued events.                  *)
NoStrandedNode ==
  lpc = "top" =>
    \A n \in Nodes : activeCount[n] > 0 =>
      \/ \E k \in 1 .. Len(activeNodes) : activeNodes[k] = n
      \/ hpc[n] = "suspended" /\ (s[n].suspended \/ s[n].resumed)

(* Suspend returns only after somebody resumed the event.                  *)
SuspendUntilResume ==
  [][\A n \in Nodes : hpc[n] = "suspended" /\ hpc'[n] = "run"
                      => ~s[n].suspended]_vars

(* Every event that was signalled is eventually handled, unless the loop   *)
(* ends.                                                                   *)
EventHandled ==
  \A e \in WorkEvents : (e \in issued) ~> (e \in done \/ exited)

(* Quit and quitAfter end the loop.                                        *)
QuitEnds ==
  \A e \in Events \ WorkEvents : (e \in issued) ~> exited

(* "SignalEvent adds event whose action will be called on the next loop    *)
(* iteration." (event.go:102): called at all, to begin with.               *)
SignalledIsCalled ==
  \A e \in WorkEvents : (e \in issued /\ e.secs = 0) ~> (e \in done \/ exited)

(* "Index in active vector if active else ^uint(0)." (event.go:48)         *)
ActiveIndexIsPosition ==
  lpc # "inactivate" =>
    \A n \in Nodes : started[n] /\ activeIndex[n] # NoIndex =>
      activeIndex[n] < Len(activeNodes) /\ activeNodes[activeIndex[n] + 1] = n

(* "true if already has an eventHandler" (event.go:66), where it matters:  *)
(* when an event is sent to the channels that starting the handler makes.  *)
DispatchedNodeHasHandler == lpc = "sendRx" => started[disp.dst]
-----------------------------------------------------------------------------
(* The inductive invariant of the proofs.  A node signalled and not yet    *)
(* waited for is a token that is in toNode, with the handler, or in        *)
(* fromNode; the loop owes one per position of the active vector between   *)
(* its two passes.                                                         *)
OwedTo(n) ==
  IF lpc = "start" THEN {k \in 1 .. li - 1 : activeNodes[k] = n}
  ELSE IF lpc = "finish" THEN {k \in li .. Len(activeNodes) : activeNodes[k] = n}
  ELSE {}

Token(n) ==
  toNode[n] + (IF Executing(n) THEN 1 ELSE 0)
  + (IF fromNode[n] = <<>> THEN 0 ELSE 1)

TokenInv ==
  /\ \A n \in Nodes : Token(n) = Cardinality(OwedTo(n))
  /\ IF lpc \in {"start", "finish"} THEN li <= Len(activeNodes) + 1 ELSE li = 1

(* Each inactive node was one position of the active vector, so delActive  *)
(* never shrinks an empty vector.                                          *)
InactiveInv ==
  Len(inactiveNodes) <= IF lpc = "finish" THEN li - 1
                        ELSE IF lpc = "inactivate" THEN Len(activeNodes) ELSE 0

WakeInv ==
  /\ eventWait => polling = {}
  /\ lpc \in {"arm", "wait"} => eventWait \/ events # <<>> \/ waking # {}

CountInv ==
  /\ CountsQueued
  /\ \A n \in Nodes :
       currentEvent[n] # None <=> hpc[n] \in {"run", "suspend", "suspended"}
  /\ disp # None <=> lpc \in {"sendRx", "stuck"}
  /\ \A n \in Nodes : ~started[n] => hpc[n] = "off"

IInv == TypeOK /\ TokenInv /\ InactiveInv /\ WakeInv /\ CountInv
=============================================================================
