------------------------------- MODULE Vnetd --------------------------------
(***************************************************************************)
(* How vnetd answers hset and publishes its state (goes/cmd/vnetd), on top *)
(* of the redis daemon: a client's hset goes through redisd to an rpc of   *)
(* vnetd, which hands an event from a pool to the event loop and waits for *)
(* the answer; changed values go through pubch and the datagram socket     *)
(* back to redisd.                                                         *)
(*                                                                         *)
(* Every rpc runs on a goroutine of its own.  Event actions run one at a   *)
(* time (module EventLoop); an action that finds a channel full waits.     *)
(***************************************************************************)
EXTENDS Redisd

CONSTANTS
  Fields,     \* the fields of vnetd
  Clients,    \* callers of hset
  Values,     \* values a field can have
  Default,    \* the value every field starts with
  Refused,    \* values that the switch refuses
  Calls,      \* bound of the model: hset calls of a behaviour
  PubDepth,   \* depth of pubch (65536)
  NoEvent     \* no event

ASSUME VnetdAssumption ==
  /\ Default \in Values /\ Refused \subseteq Values
  /\ Calls \in Nat /\ PubDepth \in Nat \ {0}

VARIABLES
  started,    \* vnetd: "no", "begun" or, with its prefix assigned, "yes"
  call,       \* client -> where its hset is, with which event
  ev,         \* event -> key, value and the channels err and newValue
  eventPool,  \* events in Info.eventPool
  pending,    \* events signalled to the loop, in order
  action,     \* what the loop's handler is doing
  config,     \* the switch's own value of each field
  prev,       \* prevHwIfConfig: what the poller published last
  pubch,      \* ifStatsPoller.pubch
  calls,      \* history: number of hset calls
  overlapped  \* history: two hset calls were in progress together

vnetdVars == <<started, call, ev, eventPool, pending, action, config, prev,
               pubch, calls, overlapped>>
pathVars == <<vnetdVars, redisdVars>>
stateVars == <<started, config, prev, calls, overlapped>>

Idle == [at |-> "idle", event |-> NoEvent]
InCall == {c \in Clients : call[c].at # "idle"}

VnetdInit ==
  /\ started \in {"no", "begun"}
  /\ call = [c \in Clients |-> Idle]
  /\ ev = <<>>
  /\ eventPool = {}
  /\ pending = <<>>
  /\ action = Idle
  /\ config = [f \in Fields |-> Default]
  /\ prev = <<>>
  /\ pubch = <<>>
  /\ calls = 0
  /\ overlapped = FALSE

VnetPrefix == Append(Hash, "vnet")

(* Main, up to the loop: vnetd's prefix is assigned once.  (An hset that   *)
(* came before eventPool.New is set, a few lines later, would panic.)      *)
VnetdStart ==
  /\ started = "begun"
  /\ started' = "yes"
  /\ Assign(VnetPrefix, "vnetd")
  /\ UNCHANGED <<call, ev, eventPool, pending, action, config, prev, pubch,
                 calls, overlapped>>
-----------------------------------------------------------------------------
(* Redisd.Hset finds who is assigned the field, then the name of the hash; *)
(* with no one assigned the call fails and nothing happens.                *)
Assigned(field) ==
  LET byField == Find(assignments, Hash \o field)
  IN IF byField # "none" THEN byField ELSE Find(assignments, Hash)

(* Info.Hset, set: an event of the pool, or a new one, is signalled.       *)
Hset(c, field, value) ==
  /\ calls < Calls
  /\ call[c].at = "idle"
  /\ Assigned(field) = "vnetd"
  /\ \E e \in eventPool \cup {Cardinality(DOMAIN ev) + 1} :
       /\ ev' = [x \in DOMAIN ev \cup {e} |->
                   IF x # e THEN ev[x]
                   ELSE [key |-> field, value |-> value,
                         err |-> IF e \in DOMAIN ev THEN ev[e].err ELSE <<>>,
                         newValue |-> IF e \in DOMAIN ev THEN ev[e].newValue
                                      ELSE <<>>]]
       /\ eventPool' = eventPool \ {e}
       /\ pending' = Append(pending, e)
       /\ call' = [call EXCEPT ![c] = [at |-> "err", event |-> e]]
  /\ calls' = calls + 1
  /\ overlapped' = (overlapped \/ InCall # {})
  /\ UNCHANGED <<started, action, config, prev, pubch, redisdVars>>

(* <-e.err                                                                 *)
TakeErr(c) ==
  LET e == call[c].event
  IN /\ call[c].at = "err"
     /\ ev[e].err # <<>>
     /\ ev' = [ev EXCEPT ![e].err = Tail(@)]
     /\ call' = [call EXCEPT ![c] = IF Head(ev[e].err) = "nil"
                                    THEN [at |-> "newValue", event |-> e]
                                    ELSE Idle]
     /\ UNCHANGED <<eventPool, pending, action, pubch, stateVars, redisdVars>>

(* <-e.newValue                                                            *)
TakeNewValue(c) ==
  LET e == call[c].event
  IN /\ call[c].at = "newValue"
     /\ ev[e].newValue # <<>>
     /\ ev' = [ev EXCEPT ![e].newValue = Tail(@)]
     /\ call' = [call EXCEPT ![c] = [at |-> "publish", event |-> e,
                                     value |-> Head(ev[e].newValue)]]
     /\ UNCHANGED <<eventPool, pending, action, pubch, stateVars, redisdVars>>

(* The new value is published under the key the event has now.             *)
Publish(c) ==
  /\ call[c].at = "publish"
  /\ Len(pubch) < PubDepth
  /\ pubch' = Append(pubch, Update(ev[call[c].event].key, call[c].value))
  /\ call' = [call EXCEPT ![c] = Idle]
  /\ UNCHANGED <<ev, eventPool, pending, action, stateVars, redisdVars>>
-----------------------------------------------------------------------------
(* event.EventAction: the switch takes or refuses the value.               *)
EventAction ==
  /\ action.at = "idle"
  /\ pending # <<>>
  /\ LET e == Head(pending)
         ok == ev[e].value \notin Refused
     IN /\ config' = IF ok THEN [config EXCEPT ![ev[e].key] = ev[e].value]
                     ELSE config
        /\ action' = [at |-> IF ok THEN "newValue" ELSE "err", event |-> e,
                      err |-> IF ok THEN "nil" ELSE "refused",
                      value |-> ev[e].value]
  /\ pending' = Tail(pending)
  /\ UNCHANGED <<started, call, ev, eventPool, prev, pubch, calls,
                 overlapped, redisdVars>>

(* e.newValue <-, a channel of depth 1                                     *)
SendNewValue ==
  LET e == action.event
  IN /\ action.at = "newValue"
     /\ ev[e].newValue = <<>>
     /\ ev' = [ev EXCEPT ![e].newValue = <<action.value>>]
     /\ action' = [action EXCEPT !.at = "err"]
     /\ UNCHANGED <<call, eventPool, pending, pubch, stateVars, redisdVars>>

(* Bug form: a refused value is not answered.                              *)
AnswerAccepted(err) == IF err = "nil" THEN <<err>> ELSE <<>>

(* e.err <-, a channel of depth 1                                          *)
Answer(err) == <<err>>

SendErr ==
  LET e == action.event
  IN /\ action.at = "err"
     /\ ev[e].err = <<>>
     /\ ev' = [ev EXCEPT ![e].err = Answer(action.err)]
     /\ action' = [at |-> "put", event |-> e]
     /\ UNCHANGED <<call, eventPool, pending, pubch, stateVars, redisdVars>>

(* eventPool.Put, while the caller may still have to read the answer.      *)
PutEvent ==
  /\ action.at = "put"
  /\ eventPool' = eventPool \cup {action.event}
  /\ action' = Idle
  /\ UNCHANGED <<call, ev, pending, pubch, stateVars, redisdVars>>

(* ifStatsPoller.EventAction with pubHwIfConfig: the timed event comes     *)
(* again and again; a value is published when it is not the one published  *)
(* last.  The loop waits for room in pubch.                                *)
Changed(f) == f \in DOMAIN prev => prev[f] # config[f]

(* Bug form: what is published is the value before the change.             *)
PolledStale(f) == IF f \in DOMAIN prev THEN prev[f] ELSE config[f]

Polled(f) == config[f]

Poll(f) ==
  /\ started = "yes"
  /\ action.at = "idle"
  /\ Changed(f)
  /\ Len(pubch) < PubDepth
  /\ prev' = [x \in DOMAIN prev \cup {f} |->
                IF x = f THEN config[f] ELSE prev[x]]
  /\ pubch' = Append(pubch, Update(f, Polled(f)))
  /\ UNCHANGED <<started, call, ev, eventPool, pending, action, config,
                 calls, overlapped, redisdVars>>

(* gopublish                                                               *)
Gopublish ==
  /\ pubch # <<>>
  /\ PubPrint("vnetd", Head(pubch))
  /\ pubch' = Tail(pubch)
  /\ UNCHANGED <<call, ev, eventPool, pending, action, published, chans,
                 queue, reader, cachedSubkeys, cachedKeys, assignments,
                 broken, updates, restarts, sent, taken, stateVars>>

VnetdNext ==
  \/ VnetdStart
  \/ \E c \in Clients, f \in Fields, v \in Values : Hset(c, f, v)
  \/ \E c \in Clients : TakeErr(c) \/ TakeNewValue(c) \/ Publish(c)
  \/ EventAction
  \/ SendNewValue
  \/ SendErr
  \/ PutEvent
  \/ \E f \in Fields : Poll(f)
  \/ Gopublish

(* The Go scheduler runs every goroutine that can run: the rpc's, the      *)
(* loop's, gopublish and gopub; the stats poller's timed event returns for *)
(* ever.  Nothing makes a client call, or redisd restart.                  *)
VnetdFairness ==
  /\ \A c \in Clients :
       WF_pathVars(TakeErr(c) \/ TakeNewValue(c) \/ Publish(c))
  /\ WF_pathVars(VnetdStart)
  /\ WF_pathVars(EventAction \/ SendNewValue \/ SendErr \/ PutEvent)
  /\ \A f \in Fields : WF_pathVars(Poll(f))
  /\ WF_pathVars(Gopublish)
  /\ WF_pathVars(Gopub /\ UNCHANGED vnetdVars)
-----------------------------------------------------------------------------
(* Every hset call returns, whatever other calls share its pooled event    *)
(* and though redisd may have been restarted: no answer is sent twice or   *)
(* to nobody, and the loop never waits for ever on an answer channel.      *)
SetReturns == \A c \in Clients : call[c].at # "idle" ~> call[c].at = "idle"

(* The values redis shows come to agree with the switch: of the paths by   *)
(* which a value is published, the rpc's and the poller's, neither leaves  *)
(* an older value behind.  Two overlapping hset calls can break this (an   *)
(* event goes back to the pool before its answer is read), and so does a   *)
(* restart of redisd, after which publishers stay silent.                  *)
PublishedAgrees ==
  <>[](started = "yes" /\ ~overlapped /\ restarts = 0 =>
         \A f \in Fields : f \in DOMAIN published /\ published[f] = config[f])
=============================================================================
