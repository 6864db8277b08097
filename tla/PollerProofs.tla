---------------------------- MODULE PollerProofs ----------------------------
(***************************************************************************)
(* Proofs about Poller for every finite set of data pollers, every load,   *)
(* every pair of suspend limits and every vector length.                   *)
(*                                                                         *)
(* The inductive invariant has one part per protocol of poller.go: what a  *)
(* poller holds, who may still have a call of addActivity to finish, the   *)
(* token that the loop and a poller pass to and fro, the pool of active    *)
(* pollers, the one allocation a node's change from inactive asks for, the *)
(* suspend count, the count of active pollers and the wake-up.             *)
(***************************************************************************)
EXTENDS Poller, FiniteSetTheorems, TLAPS

Words == [active : Nat, suspend : 0 .. SuspendLimit,
          state : {"inactive", "active", "suspended", "resumed"}]
Acts == [node : Nodes \cup {None}, delta : -1 .. 1, wake : BOOLEAN,
         alloc : BOOLEAN]

(* TypeOK in parts, by the groups of variables that actions change.        *)
TypeWords == word \in [Nodes -> Words] /\ act \in [Threads -> Acts]
TypeCounts == nActive \in 0 .. LoopNodes /\ interrupts \in Nat /\ li \in Nat \ {0}
TypeLoop ==
  /\ eventWait \in BOOLEAN /\ panicErr \in BOOLEAN
  /\ lpc \in {"top", "sleep", "clear", "events", "pending", "alloc", "poll",
              "wait", "clearDone", "clearResume", "free", "next", "exit"}
  /\ panicked \in {"no", "negative", "too many", "freed", "allocated"}
TypePend ==
  /\ isPending \in [Nodes -> BOOLEAN]
  /\ activePending \in [0 .. 1 -> Seq(Nodes)] /\ sequence \in 0 .. 1
  /\ pend \in Seq(Nodes)
TypePool ==
  /\ entries \in Seq(Nodes \cup {None}) /\ free \in Seq(Nat)
  /\ index \in [Nodes -> Nat \cup {NoIndex}]
TypeChannels ==
  /\ isPolling \in [Nodes -> BOOLEAN]
  /\ toNode \in [Nodes -> {0, 1}]
  /\ fromNode \in [Nodes -> {<<>>, <<TRUE>>, <<FALSE>>}]
TypePollers ==
  /\ ppc \in [Nodes -> {"wait", "input", "output", "send", "suspend",
                        "suspended", "dead"}]
  /\ hold \in [Nodes -> Nat] /\ vec \in [Nodes -> 0 .. VectorLen]
TypeWork ==
  /\ queued \in [Nodes -> Nat] /\ making \in [Nodes -> Nat]
  /\ txq \in [Nodes -> Nat] /\ txIndex \in [Nodes -> Nat \cup {NoIndex}]
  /\ arrivals \in [Nodes -> Nat]
TypePg ==
  /\ enable \in [Nodes -> BOOLEAN] /\ armed \in [Nodes -> Nat]
  /\ fire \in SUBSET Nodes /\ enables \in [Nodes -> Nat]

Types == TypeWords /\ TypeCounts /\ TypeLoop /\ TypePend /\ TypePool /\ TypeChannels
         /\ TypePollers /\ TypeWork /\ TypePg

DoPollers == {"poll", "wait", "clearDone", "clearResume", "free", "next"}

(* What the poller goroutine holds, and the activity of a receiver, which  *)
(* counts the packets found and not taken.                                 *)
WorkInv ==
  \A n \in Nodes :
    /\ vec[n] <= hold[n]
    /\ ppc[n] \in {"wait", "input"} => hold[n] = 0
    /\ ppc[n] \in {"send", "suspend", "suspended"} => vec[n] > 0
    /\ load[n].kind = "rx" => word[n].active = making[n] + queued[n]

(* Timed activateEvents are the packet generator's.                        *)
TimedInv == \A n \in Nodes : armed[n] > 0 \/ n \in fire => load[n].kind = "pg"

(* A poller that waits, and the loop outside the steps that call           *)
(* addActivity, have no call to finish; an Interrupt that a call owes      *)
(* comes after its changeActive.                                           *)
FreeInv ==
  /\ \A n \in Nodes : ppc[n] \in {"wait", "input", "suspended", "dead"} =>
       Free(<<"poll", n>>)
  /\ lpc \notin {"events", "free", "next"} => Free(Loop)
  /\ \A t \in Threads :
       /\ act[t].delta # 0 => ~act[t].wake
       /\ act[t].alloc => act[t].node \in Nodes

(* Started by the loop in this doPollers and not waited for yet.           *)
Out(n) ==
  /\ index[n] # NoIndex
  /\ isPolling[n]
  /\ \/ lpc = "poll" /\ index[n] + 1 < li
     \/ lpc = "wait" /\ index[n] + 1 >= li
     \/ lpc \in {"clearDone", "clearResume", "free", "next"} /\ index[n] + 1 > li

(* The loop gives a poller it starts one token, which is in toNode, with   *)
(* the poller's input, or in fromNode on its way back.                     *)
TokenInv ==
  \A n \in Nodes :
    /\ toNode[n] = 1 \/ InInput(n) \/ fromNode[n] # <<>> <=> Out(n)
    /\ toNode[n] = 1 => ~InInput(n) /\ fromNode[n] = <<>>
    /\ InInput(n) => fromNode[n] = <<>>

(* The pool: free indices are different and inside it; an allocated index  *)
(* and the node in it refer to each other.                                 *)
ActivePoolInv ==
  /\ \A k \in 1 .. Len(free) : free[k] \in 0 .. Len(entries) - 1
  /\ \A j, k \in 1 .. Len(free) : free[j] = free[k] => j = k
  /\ \A i \in 0 .. Len(entries) - 1 : Allocated(i) =>
       entries[i + 1] \in Nodes /\ index[entries[i + 1]] = i
  /\ \A n \in Nodes : index[n] # NoIndex => RefOK(n, index[n])

(* Where the loop is with the poller it waited for.                        *)
WaitedInv ==
  /\ lpc \notin DoPollers => li = 1
  /\ lpc \in {"clearDone", "clearResume", "free"} =>
       li \in 1 .. Len(entries) /\ Allocated(li - 1)
  /\ lpc \in {"clearDone", "free"} => ppc[entries[li]] \in {"wait", "dead"}
  /\ \A n \in Nodes :
       /\ fromNode[n] = <<TRUE>> => ppc[n] \in {"wait", "dead"}
       /\ fromNode[n] = <<FALSE>> => ppc[n] = "suspended"

In(s, n) == \E k \in 1 .. Len(s) : s[k] = n
Injective(s) == \A j, k \in 1 .. Len(s) : s[j] = s[k] => j = k
Asks(t, n) == act[t].alloc /\ act[t].node = n

(* A node that is not inactive is in exactly one place: about to be added  *)
(* to the pending vector, in it, being allocated, or allocated.            *)
AllocInv ==
  /\ Injective(activePending[sequence]) /\ Injective(pend)
  /\ lpc # "alloc" => pend = <<>>
  /\ \A n \in Nodes :
       /\ isPending[n] <=> In(activePending[sequence], n)
       /\ word[n].state # "inactive" <=>
            \/ \E t \in Threads : Asks(t, n)
            \/ isPending[n]
            \/ In(pend, n)
            \/ index[n] # NoIndex
       /\ \A t \in Threads : Asks(t, n) =>
            /\ ~isPending[n] /\ ~In(pend, n) /\ index[n] = NoIndex
            /\ \A s \in Threads : Asks(s, n) => s = t
       /\ isPending[n] => ~In(pend, n) /\ index[n] = NoIndex
       /\ In(pend, n) => index[n] = NoIndex

(* The state of a node's word against its packets in transmission.         *)
SuspendInv ==
  /\ SuspendCounts
  /\ \A n \in Nodes :
       /\ word[n].state = "suspended" =>
            ppc[n] \in {"suspend", "suspended"} /\ toNode[n] = 0
       /\ word[n].state = "inactive" => word[n].active = 0 /\ word[n].suspend = 0
       /\ txq[n] > 0 => index[n] # NoIndex /\ txIndex[n] = index[n]
       /\ ppc[n] = "suspended" => index[n] # NoIndex

(* While the loop sleeps its wait bit is set, and then the count of active *)
(* pollers is zero, or the thread that cleared the bit interrupts it.      *)
WakeInv ==
  /\ eventWait => nActive = 0
  /\ lpc = "sleep" /\ ~eventWait =>
       interrupts > 0 \/ \E t \in Threads : act[t].wake

IInv ==
  /\ Types /\ load \in Loads
  /\ AllocatedOnce
  /\ WorkInv /\ TimedInv /\ FreeInv /\ TokenInv /\ ActivePoolInv /\ WaitedInv
  /\ AllocInv /\ SuspendInv
  /\ NeverUndercounted /\ WakeInv
-----------------------------------------------------------------------------
LEMMA TypeParts == TypeOK <=> Types
BY DEF TypeOK, Types, TypeWords, Words, Acts, TypeCounts, TypeLoop, TypePend, TypePool,
       TypeChannels, TypePollers, TypeWork, TypePg

(* The constants that the arithmetic of the proofs needs.                  *)
LEMMA ConstantFacts ==
  /\ IsFiniteSet(Nodes) /\ None \notin Nodes
  /\ SuspendLimit \in Nat /\ ResumeLimit \in Nat /\ LoopNodes \in Nat
  /\ VectorLen \in Nat \ {0}
BY PollerAssumption

(* The count of active pollers is a natural number.                        *)
LEMMA ActiveCount == IInv => nActive \in Nat
BY ConstantFacts DEF IInv, Types, TypeCounts

(* The threads are different from each other.                              *)
LEMMA ThreadFacts ==
  /\ Loop \in Threads
  /\ \A n \in Nodes : /\ <<"produce", n>> \in Threads
                      /\ <<"poll", n>> \in Threads
                      /\ <<"tx", n>> \in Threads
  /\ \A m, n \in Nodes : /\ <<"poll", m>> = <<"poll", n>> => m = n
                         /\ <<"produce", m>> # <<"poll", n>>
                         /\ <<"tx", m>> # <<"poll", n>>
                         /\ <<"produce", m>> # Loop
                         /\ <<"poll", m>> # Loop
                         /\ <<"tx", m>> # Loop
BY DEF Loop, Threads

(* There are finitely many goroutines that call addActivity.               *)
LEMMA ThreadsFinite == IsFiniteSet(Threads)
<1>1. IsFiniteSet({"produce", "poll", "tx"} \X Nodes)
  <2>1. {"produce", "poll", "tx"} = {"produce"} \cup {"poll"} \cup {"tx"}
    OBVIOUS
  <2>2. IsFiniteSet({"produce"}) /\ IsFiniteSet({"poll"}) /\ IsFiniteSet({"tx"})
    BY FS_Singleton
  <2>3. IsFiniteSet({"produce", "poll", "tx"})
    <3>1. IsFiniteSet({"produce"} \cup {"poll"})
      BY <2>2, FS_AddElement
    <3>2. IsFiniteSet(({"produce"} \cup {"poll"}) \cup {"tx"})
      BY <3>1, FS_AddElement
    <3>3. QED BY <2>1, <3>2
  <2>4. QED BY <2>3, PollerAssumption, FS_Product
<1>2. QED BY <1>1, FS_Union, FS_Singleton DEF Threads

(* Only the three values of the channel from a poller are told apart.      *)
LEMMA Answers == <<TRUE>> # <<>> /\ <<FALSE>> # <<>> /\ <<TRUE>> # <<FALSE>>
OBVIOUS

(* addActivity up to its compare and swap: what becomes of the word.       *)
LEMMA AddedFacts ==
  ASSUME NEW w \in Words, NEW da \in Int, NEW ds \in Int, NEW lim \in BOOLEAN,
         w.active + da >= 0, w.suspend + ds >= 0, lim \/ ds = 0,
         NEW r, r = Added(w, da, ds, lim)
  PROVE  /\ r.word \in Words /\ r.alloc \in BOOLEAN /\ r.suspended \in BOOLEAN
         /\ r.word.active = w.active + da
         /\ r.word.suspend = BackUp(w, ds)
         /\ r.alloc => w.state = "inactive" /\ r.word.state = "active"
         /\ r.suspended <=> /\ lim /\ w.state # "suspended"
                            /\ ds > 0 /\ w.suspend + ds > SuspendLimit
         /\ r.suspended => r.word.state = "suspended"
         /\ ~r.alloc /\ ~r.suspended =>
              \/ r.word.state = w.state
              \/ w.state = "suspended" /\ r.word.state = "resumed"
         /\ w.active = 0 /\ w.active + da > 0 /\ w.state = "inactive" /\ ~lim
              => r.alloc
<1> DEFINE limit == IF w.state = "suspended" THEN ResumeLimit ELSE SuspendLimit
           isActive == w.active + da > 0 \/ (lim /\ w.suspend + ds <= limit)
           susp == IF lim THEN BackUp(w, ds) ELSE w.suspend + ds
           didSuspend == /\ lim /\ w.state # "suspended"
                         /\ ds > 0 /\ w.suspend + ds > SuspendLimit
           didResume == lim /\ w.state = "suspended" /\ susp <= limit
           needAlloc == NeedAlloc(w, isActive) /\ ~didSuspend
           state == IF needAlloc THEN "active"
                    ELSE IF didSuspend THEN "suspended"
                    ELSE IF didResume THEN "resumed" ELSE w.state
<1>1. /\ r.word = [active |-> w.active + da, suspend |-> susp, state |-> state]
      /\ r.suspended = didSuspend
      /\ r.alloc = needAlloc
  BY DEF Added
<1>2. /\ w.active \in Nat /\ w.suspend \in 0 .. SuspendLimit
      /\ w.state \in {"inactive", "active", "suspended", "resumed"}
      /\ SuspendLimit \in Nat
  BY PollerAssumption DEF Words
<1>3. susp = BackUp(w, ds) /\ susp \in 0 .. SuspendLimit
  BY <1>2 DEF BackUp
<1>4. /\ didSuspend \in BOOLEAN /\ needAlloc \in BOOLEAN
      /\ state \in {"inactive", "active", "suspended", "resumed"}
      /\ needAlloc => w.state = "inactive" /\ state = "active"
      /\ didSuspend => state = "suspended"
      /\ ~needAlloc /\ ~didSuspend =>
           state = w.state \/ (w.state = "suspended" /\ state = "resumed")
  BY <1>2 DEF NeedAlloc
<1>5. w.active = 0 /\ w.active + da > 0 /\ w.state = "inactive" /\ ~lim
        => needAlloc
  BY <1>2 DEF NeedAlloc
<1> HIDE DEF susp, didSuspend, needAlloc, state
<1>6. r.word \in Words
  BY <1>1, <1>2, <1>3, <1>4 DEF Words
<1>7. QED BY <1>1, <1>3, <1>4, <1>5, <1>6 DEF didSuspend

-----------------------------------------------------------------------------
(* A change of one node's word together with the delta left to one thread  *)
(* that had none keeps the count of active pollers high enough.            *)
LEMMA CountKept ==
  ASSUME NeverUndercounted, nActive \in Nat, UNCHANGED nActive,
         NEW t \in Threads, NEW n \in Nodes,
         act[t].delta = 0, act'[t].delta = Change(word[n], word'[n]),
         \A s \in Threads \ {t} : act'[s].delta = act[s].delta,
         \A m \in Nodes \ {n} : word'[m] = word[m]
  PROVE  NeverUndercounted'
<1> DEFINE D(d) == {s \in Threads : act[s].delta = d}
           N == {m \in Nodes : NeedsPoll(word[m])}
<1>0. /\ IsFiniteSet(D(1)) /\ IsFiniteSet(D(-1)) /\ IsFiniteSet(N)
      /\ Cardinality(D(1)) \in Nat /\ Cardinality(D(-1)) \in Nat
      /\ Cardinality(N) \in Nat
  BY ThreadsFinite, PollerAssumption, FS_Subset, FS_CardinalityType
<1>1. nActive + Cardinality(D(1)) - Cardinality(D(-1)) >= Cardinality(N)
  BY DEF NeverUndercounted, Deltas, Needing
<1>2. SUFFICES nActive + Cardinality(D(1)') - Cardinality(D(-1)')
                 >= Cardinality(N')
  BY DEF NeverUndercounted, Deltas, Needing
<1>3. CASE NeedsPoll(word[n]) = NeedsPoll(word'[n])
  <2>1. act'[t].delta = 0
    BY <1>3 DEF Change
  <2>2. D(1)' = D(1) /\ D(-1)' = D(-1)
    BY <2>1
  <2>3. N' = N
    BY <1>3
  <2> HIDE DEF D, N
  <2>4. QED BY <1>1, <2>2, <2>3
<1>4. CASE NeedsPoll(word'[n]) /\ ~NeedsPoll(word[n])
  <2>1. act'[t].delta = 1
    BY <1>4 DEF Change
  <2>2. D(1)' = D(1) \cup {t} /\ D(-1)' = D(-1) /\ t \notin D(1)
    BY <2>1
  <2>3. N' = N \cup {n} /\ n \notin N
    BY <1>4
  <2> HIDE DEF D, N
  <2>4. /\ Cardinality(D(1)') = Cardinality(D(1)) + 1
        /\ Cardinality(N') = Cardinality(N) + 1
    BY <1>0, <2>2, <2>3, FS_AddElement, ZenonT(40)
  <2>5. QED BY <1>0, <1>1, <2>2, <2>4
<1>5. CASE ~NeedsPoll(word'[n]) /\ NeedsPoll(word[n])
  <2>1. act'[t].delta = -1
    BY <1>5 DEF Change
  <2>2. D(1)' = D(1) /\ D(-1)' = D(-1) \cup {t} /\ t \notin D(-1)
    BY <2>1
  <2>3. N' = N \ {n} /\ n \in N
    BY <1>5
  <2> HIDE DEF D, N
  <2>4. Cardinality(D(-1)') = Cardinality(D(-1)) + 1
    BY <1>0, <2>2, FS_AddElement, ZenonT(40)
  <2>5. Cardinality(N') = Cardinality(N) - 1
    BY <1>0, <2>3, FS_RemoveElement
  <2>6. QED BY <1>0, <1>1, <2>2, <2>4, <2>5
<1>6. QED BY <1>3, <1>4, <1>5 DEF NeedsPoll

(* changeActive moves the delta of a thread into the loop's count; the     *)
(* decrement it ignores at zero makes the count too large only.            *)
LEMMA CountMoved ==
  ASSUME NeverUndercounted, nActive \in Nat, NEW t \in Threads,
         UNCHANGED word, act'[t].delta = 0,
         \A s \in Threads \ {t} : act'[s].delta = act[s].delta,
         \/ act[t].delta = 1 /\ nActive' = nActive + 1
         \/ act[t].delta = -1 /\ nActive' = IF nActive > 0 THEN nActive - 1 ELSE 0
  PROVE  NeverUndercounted'
<1> DEFINE D(d) == {s \in Threads : act[s].delta = d}
           N == {m \in Nodes : NeedsPoll(word[m])}
<1>0. /\ IsFiniteSet(D(1)) /\ IsFiniteSet(D(-1)) /\ IsFiniteSet(N)
      /\ Cardinality(D(1)) \in Nat /\ Cardinality(D(-1)) \in Nat
      /\ Cardinality(N) \in Nat
  BY ThreadsFinite, PollerAssumption, FS_Subset, FS_CardinalityType
<1>1. nActive + Cardinality(D(1)) - Cardinality(D(-1)) >= Cardinality(N)
  BY DEF NeverUndercounted, Deltas, Needing
<1>2. SUFFICES nActive' + Cardinality(D(1)') - Cardinality(D(-1)')
                 >= Cardinality(N')
  BY DEF NeverUndercounted, Deltas, Needing
<1>3. N' = N
  OBVIOUS
<1>4. CASE act[t].delta = 1
  <2>1. D(1)' = D(1) \ {t} /\ D(-1)' = D(-1) /\ t \in D(1)
    BY <1>4
  <2> HIDE DEF D, N
  <2>2. Cardinality(D(1)') = Cardinality(D(1)) - 1
    BY <1>0, <2>1, FS_RemoveElement
  <2>3. QED BY <1>0, <1>1, <1>3, <1>4, <2>1, <2>2
<1>5. CASE act[t].delta = -1
  <2>1. D(1)' = D(1) /\ D(-1)' = D(-1) \ {t} /\ t \in D(-1)
    BY <1>5
  <2> HIDE DEF D, N
  <2>2. Cardinality(D(-1)') = Cardinality(D(-1)) - 1
    BY <1>0, <2>1, FS_RemoveElement
  <2>3. QED BY <1>0, <1>1, <1>3, <1>5, <2>1, <2>2
<1>6. QED BY <1>4, <1>5

-----------------------------------------------------------------------------
(* The compare and swap of addActivity by a thread that is free, when no   *)
(* count becomes negative: what becomes of the node's word, and what is    *)
(* left to do.                                                             *)
LEMMA AddActivityFacts ==
  ASSUME IInv, NEW t \in Threads, NEW n \in Nodes, NEW da \in Int,
         NEW ds \in Int, NEW lim \in BOOLEAN,
         AddActivity(t, n, da, ds, lim), Free(t),
         word[n].active + da >= 0, word[n].suspend + ds >= 0,
         lim \/ ds = 0, lim => word[n].state # "inactive"
  PROVE  /\ word' \in [Nodes -> Words] /\ act' \in [Threads -> Acts]
         /\ UNCHANGED panicked
         /\ \A m \in Nodes \ {n} : word'[m] = word[m]
         /\ \A s \in Threads \ {t} : act'[s] = act[s]
         /\ word'[n].active = word[n].active + da
         /\ word'[n].suspend = BackUp(word[n], ds)
         /\ ds = 0 => word'[n].suspend = word[n].suspend
         /\ word'[n].state = "suspended" =>
              \/ lim /\ ds > 0 /\ word[n].suspend + ds > SuspendLimit
              \/ word[n].state = "suspended"
         /\ word'[n].state = "inactive" =>
              /\ word[n].state = "inactive"
              /\ word'[n].active = 0 /\ word'[n].suspend = 0
         /\ act'[t].node = n /\ ~act'[t].wake
         /\ act'[t].alloc <=> /\ word[n].state = "inactive"
                              /\ word'[n].state # "inactive"
         /\ act'[t].delta = Change(word[n], word'[n])
<1> DEFINE r == Added(word[n], da, ds, lim)
<1>1. word \in [Nodes -> Words] /\ act \in [Threads -> Acts] /\ SuspendLimit \in Nat
  BY ConstantFacts DEF IInv, Types, TypeWords
<1>2. word[n] \in Words /\ word[n].active \in Nat /\ word[n].suspend \in 0 .. SuspendLimit
  BY <1>1 DEF Words
<1>3. /\ r.word \in Words /\ r.alloc \in BOOLEAN /\ r.suspended \in BOOLEAN
      /\ r.word.active = word[n].active + da
      /\ r.word.suspend = BackUp(word[n], ds)
      /\ r.alloc => word[n].state = "inactive" /\ r.word.state = "active"
      /\ r.suspended <=> /\ lim /\ word[n].state # "suspended"
                         /\ ds > 0 /\ word[n].suspend + ds > SuspendLimit
      /\ r.suspended => r.word.state = "suspended"
      /\ ~r.alloc /\ ~r.suspended =>
           \/ r.word.state = word[n].state
           \/ word[n].state = "suspended" /\ r.word.state = "resumed"
      /\ /\ word[n].active = 0 /\ word[n].active + da > 0
         /\ word[n].state = "inactive" /\ ~lim
         => r.alloc
  BY <1>2, AddedFacts
<1> HIDE DEF r
<1>4. r.word.active \in Nat /\ r.word.suspend \in 0 .. SuspendLimit
  BY <1>3 DEF Words
<1>5. /\ word' = [word EXCEPT ![n] = r.word]
      /\ act' = [act EXCEPT ![t] = [node |-> n, wake |-> FALSE,
                                    delta |-> Change(word[n], r.word),
                                    alloc |-> r.alloc]]
      /\ UNCHANGED panicked
  BY <1>1, <1>4 DEF AddActivity, r
<1>6. /\ word'[n] = r.word
      /\ act'[t] = [node |-> n, wake |-> FALSE,
                    delta |-> Change(word[n], r.word), alloc |-> r.alloc]
      /\ \A m \in Nodes \ {n} : word'[m] = word[m]
      /\ \A s \in Threads \ {t} : act'[s] = act[s]
      /\ word' \in [Nodes -> Words]
  BY <1>1, <1>3, <1>5
<1>7. Change(word[n], r.word) \in -1 .. 1
  BY DEF Change
<1>8. act' \in [Threads -> Acts]
  BY <1>1, <1>3, <1>5, <1>7 DEF Acts
<1>9. word[n].state = "inactive" => word[n].active = 0 /\ word[n].suspend = 0
  BY DEF IInv, SuspendInv
<1>10. word'[n].state = "inactive" =>
         /\ word[n].state = "inactive"
         /\ word'[n].active = 0 /\ word'[n].suspend = 0
  <2> SUFFICES ASSUME word'[n].state = "inactive"
               PROVE  /\ word[n].state = "inactive"
                      /\ word'[n].active = 0 /\ word'[n].suspend = 0
    OBVIOUS
  <2>1. word[n].state = "inactive" /\ ~r.alloc
    BY <1>3, <1>6
  <2>2. ~lim /\ ds = 0 /\ word[n].active = 0 /\ word[n].suspend = 0
    BY <1>9, <2>1
  <2>3. word[n].active + da = 0
    BY <1>2, <1>3, <2>1, <2>2
  <2>4. QED BY <1>2, <1>3, <1>6, <2>1, <2>2, <2>3 DEF BackUp
<1>11. act'[t].alloc <=> word[n].state = "inactive" /\ word'[n].state # "inactive"
  BY <1>3, <1>6
<1>12. word'[n].state = "suspended" =>
         \/ lim /\ ds > 0 /\ word[n].suspend + ds > SuspendLimit
         \/ word[n].state = "suspended"
  BY <1>3, <1>6
<1>13. ds = 0 => word'[n].suspend = word[n].suspend
  BY <1>1, <1>2, <1>3, <1>6 DEF BackUp
<1>14. QED BY <1>3, <1>5, <1>6, <1>8, <1>10, <1>11, <1>12, <1>13

(* The one allocation: a node that leaves inactive asks for it, one that   *)
(* does not asks for nothing.                                              *)
LEMMA AllocAsked ==
  ASSUME AllocInv, NEW t \in Threads, NEW n \in Nodes, ~act[t].alloc,
         act'[t].node = n,
         act'[t].alloc <=> word[n].state = "inactive" /\ word'[n].state # "inactive",
         word'[n].state = "inactive" => word[n].state = "inactive",
         \A s \in Threads \ {t} : act'[s] = act[s],
         \A m \in Nodes \ {n} : word'[m] = word[m],
         UNCHANGED <<isPending, activePending, sequence, pend, index, lpc>>
  PROVE  AllocInv'
<1>1. \A s \in Threads, m \in Nodes : m # n => (Asks(s, m)' <=> Asks(s, m))
  BY DEF Asks
<1>2. \A s \in Threads : Asks(s, n)' <=> Asks(s, n) \/ (s = t /\ act'[t].alloc)
  BY DEF Asks
<1>3. \A m \in Nodes : /\ In(activePending[sequence], m)' <=> In(activePending[sequence], m)
                       /\ In(pend, m)' <=> In(pend, m)
  BY DEF In
<1>4. Injective(activePending[sequence])' /\ Injective(pend)' /\ (lpc' # "alloc" => pend' = <<>>)
  BY DEF AllocInv, Injective
<1>5. ASSUME NEW m \in Nodes
      PROVE /\ isPending'[m] <=> In(activePending[sequence], m)'
            /\ word'[m].state # "inactive" <=>
                 \/ \E s \in Threads : Asks(s, m)'
                 \/ isPending'[m]
                 \/ In(pend, m)'
                 \/ index'[m] # NoIndex
            /\ \A s \in Threads : Asks(s, m)' =>
                 /\ ~isPending'[m] /\ ~In(pend, m)' /\ index'[m] = NoIndex
                 /\ \A u \in Threads : Asks(u, m)' => u = s
            /\ isPending'[m] => ~In(pend, m)' /\ index'[m] = NoIndex
            /\ In(pend, m)' => index'[m] = NoIndex
  <2>1. CASE m # n
    BY <1>1, <1>3, <2>1 DEF AllocInv
  <2>2. CASE m = n
    <3>1. CASE act'[t].alloc
      BY <1>2, <1>3, <2>2, <3>1 DEF AllocInv
    <3>2. CASE ~act'[t].alloc
      BY <1>2, <1>3, <2>2, <3>2 DEF AllocInv
    <3>3. QED BY <3>1, <3>2
  <2>3. QED BY <2>1, <2>2
<1>6. QED BY <1>4, <1>5 DEF AllocInv

(* The parts of the invariant that every call of addActivity keeps.        *)
LEMMA AddActivityKeeps ==
  ASSUME IInv, NEW t \in Threads, NEW n \in Nodes, NEW da \in Int,
         NEW ds \in Int, NEW lim \in BOOLEAN,
         AddActivity(t, n, da, ds, lim), Free(t),
         word[n].active + da >= 0, word[n].suspend + ds >= 0,
         lim \/ ds = 0, lim => word[n].state # "inactive",
         UNCHANGED <<isPending, activePending, sequence, pend, index, lpc,
                     nActive, eventWait, interrupts>>
  PROVE  AllocInv' /\ NeverUndercounted' /\ WakeInv' /\ AllocatedOnce'
<1>0. /\ UNCHANGED panicked
      /\ \A m \in Nodes \ {n} : word'[m] = word[m]
      /\ \A s \in Threads \ {t} : act'[s] = act[s]
      /\ word'[n].state = "inactive" => word[n].state = "inactive"
      /\ act'[t].node = n /\ ~act'[t].wake
      /\ act'[t].alloc <=> /\ word[n].state = "inactive"
                           /\ word'[n].state # "inactive"
      /\ act'[t].delta = Change(word[n], word'[n])
  BY AddActivityFacts
<1>1. AllocInv'
  BY <1>0, AllocAsked DEF IInv, Free
<1>2. NeverUndercounted'
  <2>1. nActive \in Nat
    BY ActiveCount
  <2>2. NeverUndercounted /\ act[t].delta = 0
    BY DEF IInv, Free
  <2>3. \A s \in Threads \ {t} : act'[s].delta = act[s].delta
    BY <1>0
  <2>4. UNCHANGED nActive
    OBVIOUS
  <2>5. QED BY <1>0, <2>1, <2>2, <2>3, <2>4, CountKept
<1>3. WakeInv'
  BY <1>0 DEF IInv, WakeInv, Free
<1>4. AllocatedOnce'
  BY <1>0 DEF IInv, AllocatedOnce
<1>5. QED BY <1>1, <1>2, <1>3, <1>4

-----------------------------------------------------------------------------
(* A part of the invariant is kept by a step that leaves its variables     *)
(* alone.                                                                  *)
LEMMA TypeFrame ==
  /\ TypeWords /\ UNCHANGED <<word, act>> => TypeWords'
  /\ TypeCounts /\ UNCHANGED <<nActive, interrupts, li>> => TypeCounts'
  /\ TypeLoop /\ UNCHANGED <<eventWait, lpc, panicErr, panicked>> => TypeLoop'
  /\ TypePend /\ UNCHANGED <<isPending, activePending, sequence, pend>> => TypePend'
  /\ TypePool /\ UNCHANGED <<entries, free, index>> => TypePool'
  /\ TypeChannels /\ UNCHANGED <<isPolling, toNode, fromNode>> => TypeChannels'
  /\ TypePollers /\ UNCHANGED <<ppc, hold, vec>> => TypePollers'
  /\ TypeWork /\ UNCHANGED <<queued, making, txq, txIndex, arrivals>> => TypeWork'
  /\ TypePg /\ UNCHANGED <<enable, armed, fire, enables>> => TypePg'
BY DEF TypeWords, TypeCounts, TypeLoop, TypePend, TypePool, TypeChannels, TypePollers,
       TypeWork, TypePg

(* What each part of the invariant depends on.                             *)
LEMMA Frame ==
  /\ WorkInv /\ UNCHANGED <<load, word, ppc, hold, vec, making, queued>> => WorkInv'
  /\ TimedInv /\ UNCHANGED <<load, armed, fire>> => TimedInv'
  /\ FreeInv /\ UNCHANGED <<act, ppc, lpc>> => FreeInv'
  /\ TokenInv /\ UNCHANGED <<isPolling, toNode, fromNode, ppc, index, lpc, li>>
       => TokenInv'
  /\ ActivePoolInv /\ UNCHANGED <<entries, free, index>> => ActivePoolInv'
  /\ WaitedInv /\ UNCHANGED <<lpc, li, entries, free, ppc, fromNode>> => WaitedInv'
  /\ AllocInv /\ UNCHANGED <<word, act, isPending, activePending, sequence,
                             pend, index, lpc>> => AllocInv'
  /\ SuspendInv /\ UNCHANGED <<word, ppc, vec, toNode, txq, txIndex, index>>
       => SuspendInv'
  /\ NeverUndercounted /\ UNCHANGED <<nActive, act, word>> => NeverUndercounted'
  /\ WakeInv /\ UNCHANGED <<lpc, eventWait, nActive, interrupts, act>> => WakeInv'
  /\ AllocatedOnce /\ UNCHANGED panicked => AllocatedOnce'
<1>1. WorkInv /\ UNCHANGED <<load, word, ppc, hold, vec, making, queued>> => WorkInv'
  BY DEF WorkInv
<1>2. FreeInv /\ UNCHANGED <<act, ppc, lpc>> => FreeInv'
  BY DEF FreeInv, Free
<1>3. TokenInv /\ UNCHANGED <<isPolling, toNode, fromNode, ppc, index, lpc, li>>
        => TokenInv'
  BY DEF TokenInv, Out, InInput
<1>4. ActivePoolInv /\ UNCHANGED <<entries, free, index>> => ActivePoolInv'
  BY DEF ActivePoolInv, Allocated, FreePositions, RefOK
<1>5. WaitedInv /\ UNCHANGED <<lpc, li, entries, free, ppc, fromNode>> => WaitedInv'
  BY DEF WaitedInv, Allocated, FreePositions
<1>6. AllocInv /\ UNCHANGED <<word, act, isPending, activePending, sequence,
                              pend, index, lpc>> => AllocInv'
  BY DEF AllocInv, Injective, In, Asks
<1>7. SuspendInv /\ UNCHANGED <<word, ppc, vec, toNode, txq, txIndex, index>>
        => SuspendInv'
  BY DEF SuspendInv, SuspendCounts
<1>8. NeverUndercounted /\ UNCHANGED <<nActive, act, word>> => NeverUndercounted'
  BY DEF NeverUndercounted, Deltas, Needing
<1>9. WakeInv /\ UNCHANGED <<lpc, eventWait, nActive, interrupts, act>> => WakeInv'
  BY DEF WakeInv
<1>10. AllocatedOnce /\ UNCHANGED panicked => AllocatedOnce'
  BY DEF AllocatedOnce
<1>11. TimedInv /\ UNCHANGED <<load, armed, fire>> => TimedInv'
  BY DEF TimedInv
<1>12. QED
  BY <1>1, <1>2, <1>3, <1>4, <1>5, <1>6, <1>7, <1>8, <1>9, <1>10, <1>11

-----------------------------------------------------------------------------
USE DEF pendVars, poolVars, ftVars, loopVars, pollerVars, workVars, txVars,
        pgVars

(* The local state of an addActivity call has its type.                    *)
LEMMA ActMade ==
  ASSUME NEW n \in Nodes \cup {None}, NEW d \in -1 .. 1, NEW w \in BOOLEAN,
         NEW a \in BOOLEAN
  PROVE  [node |-> n, delta |-> d, wake |-> w, alloc |-> a] \in Acts
BY DEF Acts

(* changeActive: the count, the wait bit and the duty to interrupt change  *)
(* together.                                                               *)
LEMMA ChangeActiveKeeps ==
  ASSUME IInv, NEW t \in Threads, ChangeActive(t), UNCHANGED load
  PROVE  IInv'
<1>0. Types /\ nActive \in Nat /\ LoopNodes \in Nat
  BY ActiveCount, ConstantFacts DEF IInv
<1> DEFINE n1 == IF act[t].delta = 1 THEN nActive + 1
                 ELSE IF nActive > 0 THEN nActive - 1 ELSE 0
<1>1. CASE n1 > LoopNodes
  <2>1. /\ panicked' = "too many"
        /\ UNCHANGED <<nActive, eventWait, act>>
    BY <1>1 DEF ChangeActive
  <2>2. TypeLoop' /\ AllocatedOnce'
    BY <1>0, <2>1 DEF Types, TypeLoop, ChangeActive, AllocatedOnce
  <2>3. QED
    BY <1>0, <2>1, <2>2, TypeFrame, Frame DEF IInv, Types, ChangeActive
<1>2. CASE ~(n1 > LoopNodes)
  <2>1. /\ nActive' = n1
        /\ eventWait' = (eventWait /\ n1 = 0)
        /\ act' = [act EXCEPT ![t].delta = 0, ![t].wake = OldWait]
        /\ UNCHANGED panicked
        /\ act[t].delta # 0
    BY <1>2 DEF ChangeActive
  <2>2. act[t] \in Acts /\ eventWait \in BOOLEAN
    BY <1>0 DEF Types, TypeWords, TypeLoop
  <2>2a. act[t].delta \in {-1, 1}
    BY <2>1, <2>2 DEF Acts
  <2>3. /\ act'[t] = [act[t] EXCEPT !.delta = 0, !.wake = eventWait]
        /\ \A s \in Threads \ {t} : act'[s] = act[s]
    BY <1>0, <2>1 DEF Types, TypeWords, OldWait
  <2>4. /\ act'[t].delta = 0 /\ act'[t].wake = eventWait
        /\ act'[t].alloc = act[t].alloc /\ act'[t].node = act[t].node
        /\ act'[t] \in Acts
    <3>1. act'[t] = [node |-> act[t].node, delta |-> 0, wake |-> eventWait,
                     alloc |-> act[t].alloc]
      BY <2>2, <2>3 DEF Acts
    <3>2. /\ act[t].node \in Nodes \cup {None} /\ act[t].alloc \in BOOLEAN
          /\ 0 \in -1 .. 1
      BY <2>2 DEF Acts
    <3>3. act'[t] \in Acts
      BY <2>2, <3>1, <3>2, ActMade
    <3>4. /\ act'[t].delta = 0 /\ act'[t].wake = eventWait
          /\ act'[t].alloc = act[t].alloc /\ act'[t].node = act[t].node
      BY <3>1
    <3>5. QED BY <3>3, <3>4
  <2>5. TypeWords'
    BY <1>0, <2>1, <2>3, <2>4 DEF Types, TypeWords, ChangeActive
  <2>6. TypeCounts' /\ TypeLoop'
    <3>1. TypeCounts'
      <4>1. UNCHANGED <<interrupts, li>>
        BY DEF ChangeActive
      <4>2. n1 \in Nat
        BY <1>0
      <4> HIDE DEF n1
      <4>3. QED BY <1>0, <1>2, <2>1, <4>1, <4>2 DEF Types, TypeCounts
    <3>2. TypeLoop'
      BY <1>0, <2>1 DEF Types, TypeLoop, ChangeActive
    <3>3. QED BY <3>1, <3>2
  <2>7. FreeInv'
    <3>1. \A s \in Threads : Free(s) => Free(s)'
      BY <2>1, <2>3 DEF Free
    <3>2. UNCHANGED <<ppc, lpc>>
      BY DEF ChangeActive
    <3>3. QED BY <2>3, <2>4, <3>1, <3>2, ThreadFacts DEF IInv, FreeInv
  <2>8. \A s \in Threads, m \in Nodes : Asks(s, m)' <=> Asks(s, m)
    BY <2>3, <2>4 DEF Asks
  <2>9. AllocInv'
    BY <2>8, ZenonT(40) DEF IInv, AllocInv, In, Injective, ChangeActive
  <2>10. NeverUndercounted'
    BY <1>0, <2>1, <2>2a, <2>3, <2>4, CountMoved DEF IInv, ChangeActive
  <2>11. WakeInv'
    BY <1>0, <2>1, <2>2, <2>3, <2>4 DEF IInv, WakeInv, FreeInv, ChangeActive
  <2>12. QED
    BY <1>0, <2>1, <2>5, <2>6, <2>7, <2>9, <2>10, <2>11, TypeFrame, Frame DEF IInv, Types, ChangeActive
<1>3. QED BY <1>1, <1>2

(* The Interrupt after changeActive is sent once.                          *)
LEMMA InterruptKeeps ==
  ASSUME IInv, NEW t \in Threads, Interrupt(t), UNCHANGED load
  PROVE  IInv'
<1>0. Types
  BY DEF IInv
<1>1. act[t] \in Acts
  BY <1>0 DEF Types, TypeWords
<1>2. /\ act'[t] = [act[t] EXCEPT !.wake = FALSE]
      /\ \A s \in Threads \ {t} : act'[s] = act[s]
  BY <1>0 DEF Types, TypeWords, Interrupt
<1>3. /\ act'[t].delta = act[t].delta /\ ~act'[t].wake
      /\ act'[t].alloc = act[t].alloc /\ act'[t].node = act[t].node
  BY <1>1, <1>2 DEF Acts
<1>4. TypeWords' /\ TypeCounts'
  <2>1. act'[t] \in Acts
    BY <1>1, <1>2 DEF Acts
  <2>2. TypeWords'
    BY <1>0, <1>2, <2>1 DEF Types, TypeWords, Interrupt
  <2>3. TypeCounts'
    BY <1>0 DEF Types, TypeCounts, Interrupt
  <2>4. QED BY <2>2, <2>3
<1>5. FreeInv'
  BY <1>2, <1>3 DEF IInv, FreeInv, Free, Interrupt
<1>6. \A s \in Threads, m \in Nodes : Asks(s, m)' <=> Asks(s, m)
  BY <1>2, <1>3 DEF Asks
<1>7. AllocInv'
  BY <1>6 DEF IInv, AllocInv, In, Injective, Interrupt
<1>8. \A s \in Threads : act'[s].delta = act[s].delta
  BY <1>2, <1>3
<1>9. NeverUndercounted'
  BY <1>8 DEF IInv, NeverUndercounted, Deltas, Needing, Interrupt
<1>10. WakeInv'
  BY <1>0 DEF IInv, WakeInv, Interrupt, Types, TypeCounts
<1>11. QED
  BY <1>0, <1>4, <1>5, <1>7, <1>9, <1>10, TypeFrame, Frame
     DEF IInv, Types, Interrupt

(* A vector with one more node, or with its head taken off.                *)
LEMMA VectorAppend ==
  ASSUME NEW s \in Seq(Nodes), NEW n \in Nodes
  PROVE  /\ Append(s, n) \in Seq(Nodes)
         /\ \A m \in Nodes : In(Append(s, n), m) <=> In(s, m) \/ m = n
         /\ Injective(s) /\ ~In(s, n) => Injective(Append(s, n))
BY DEF In, Injective

(* Taking the first of a vector without duplicates removes exactly that    *)
(* node.                                                                   *)
LEMMA VectorTail ==
  ASSUME NEW s \in Seq(Nodes), s # <<>>, Injective(s)
  PROVE  /\ Tail(s) \in Seq(Nodes) /\ Head(s) \in Nodes
         /\ In(s, Head(s)) /\ ~In(Tail(s), Head(s)) /\ Injective(Tail(s))
         /\ \A m \in Nodes : m # Head(s) => (In(Tail(s), m) <=> In(s, m))
BY SMTT(40) DEF In, Injective

(* The empty vector.                                                       *)
LEMMA VectorEmpty == Injective(<<>>) /\ \A m : ~In(<<>>, m)
BY DEF In, Injective


(* The pending vector of the current sequence, under its lock: a node      *)
(* enters it once.                                                         *)
LEMMA AddPendingKeeps ==
  ASSUME IInv, NEW t \in Threads, AddPending(t), UNCHANGED load
  PROVE  IInv'
<1>0. Types /\ act[t].alloc /\ act[t].delta = 0 /\ ~act[t].wake
  BY DEF IInv, AddPending
<1> DEFINE n == act[t].node
           v == activePending[sequence]
<1>1. act[t] \in Acts /\ n \in Nodes /\ Asks(t, n) /\ ~isPending[n]
  BY <1>0 DEF IInv, FreeInv, AllocInv, Asks, Types, TypeWords
<1>2. /\ act'[t] = [act[t] EXCEPT !.alloc = FALSE]
      /\ \A s \in Threads \ {t} : act'[s] = act[s]
  BY <1>0 DEF Types, TypeWords, AddPending
<1>3. /\ act'[t].delta = act[t].delta /\ act'[t].wake = act[t].wake
      /\ ~act'[t].alloc /\ act'[t].node = act[t].node /\ act'[t] \in Acts
  BY <1>1, <1>2 DEF Acts
<1>4. /\ isPending' = [isPending EXCEPT ![n] = TRUE]
      /\ activePending' = [activePending EXCEPT ![sequence] = Append(v, n)]
      /\ UNCHANGED <<sequence, pend>>
  BY <1>1 DEF AddPending
<1>5. v \in Seq(Nodes) /\ activePending'[sequence'] = Append(v, n)
  BY <1>0, <1>4 DEF Types, TypePend
<1> HIDE DEF n, v
<1>6. /\ Append(v, n) \in Seq(Nodes)
      /\ \A m \in Nodes : In(Append(v, n), m) <=> In(v, m) \/ m = n
      /\ Injective(v) /\ ~In(v, n) => Injective(Append(v, n))
  BY <1>1, <1>5, VectorAppend
<1>7. TypeWords'
  BY <1>0, <1>2, <1>3 DEF Types, TypeWords, AddPending
<1>8. TypePend'
  BY <1>0, <1>1, <1>4, <1>6 DEF Types, TypePend
<1>9. FreeInv'
  <2>1. \A s \in Threads : Free(s) => Free(s)'
    BY <1>0, <1>2 DEF Free
  <2>2. UNCHANGED <<ppc, lpc>>
    BY DEF AddPending
  <2>3. QED BY <1>2, <1>3, <2>1, <2>2, ThreadFacts DEF IInv, FreeInv
<1>10. AllocInv'
  <2>1. \A s \in Threads, m \in Nodes : Asks(s, m)' <=> Asks(s, m) /\ s # t
    BY <1>0, <1>2, <1>3 DEF Asks
  <2>2. /\ \A m \in Nodes : isPending'[m] <=> isPending[m] \/ m = n
        /\ UNCHANGED <<word, index, lpc, pend>>
    BY <1>0, <1>1, <1>4 DEF AddPending, Types, TypePend
  <2>3. \A m \in Nodes : /\ In(activePending[sequence], m)' <=> In(v, m) \/ m = n
                         /\ In(pend, m)' <=> In(pend, m)
    BY <1>5, <1>6, <2>2 DEF In
  <2>4. \A s \in Threads, m \in Nodes : Asks(s, m) /\ m = n => s = t
    BY <1>1 DEF IInv, AllocInv
  <2>4a. \A m \in Nodes : Asks(t, m) => m = n
    BY DEF Asks, n
  <2>5. Injective(activePending[sequence])' /\ Injective(pend)'
    <3>1. Injective(v) /\ ~In(v, n) /\ Injective(pend)
      BY <1>1 DEF IInv, AllocInv, v
    <3>2. Injective(Append(v, n))
      BY <1>6, <3>1
    <3>3. QED BY <1>5, <2>2, <3>1, <3>2 DEF Injective
  <2>6. ASSUME NEW m \in Nodes
        PROVE /\ isPending'[m] <=> In(activePending[sequence], m)'
              /\ word'[m].state # "inactive" <=>
                   \/ \E s \in Threads : Asks(s, m)'
                   \/ isPending'[m]
                   \/ In(pend, m)'
                   \/ index'[m] # NoIndex
              /\ \A s \in Threads : Asks(s, m)' =>
                   /\ ~isPending'[m] /\ ~In(pend, m)' /\ index'[m] = NoIndex
                   /\ \A u \in Threads : Asks(u, m)' => u = s
              /\ isPending'[m] => ~In(pend, m)' /\ index'[m] = NoIndex
              /\ In(pend, m)' => index'[m] = NoIndex
    <3>1. CASE m # n
      BY <2>1, <2>2, <2>3, <2>4a, <3>1 DEF IInv, AllocInv, v
    <3>2. CASE m = n
      BY <1>1, <2>1, <2>2, <2>3, <2>4, <3>2 DEF IInv, AllocInv, v
    <3>3. QED BY <3>1, <3>2
  <2>7. lpc' # "alloc" => pend' = <<>>
    BY <2>2 DEF IInv, AllocInv
  <2>8. QED BY <2>5, <2>6, <2>7 DEF AllocInv
<1>11. NeverUndercounted'
  <2>1. \A s \in Threads : act'[s].delta = act[s].delta
    BY <1>2, <1>3
  <2>2. QED BY <2>1 DEF IInv, NeverUndercounted, Deltas, Needing, AddPending
<1>12. WakeInv'
  BY <1>2, <1>3 DEF IInv, WakeInv, AddPending
<1>13. QED
  BY <1>7, <1>8, <1>9, <1>10, <1>11, <1>12, TypeFrame, Frame
     DEF IInv, Types, AddPending

-----------------------------------------------------------------------------
(* A poller that executes is allocated and in no other place.              *)
LEMMA InInputFacts ==
  ASSUME IInv, NEW n \in Nodes, InInput(n)
  PROVE  /\ Out(n) /\ index[n] # NoIndex /\ RefOK(n, index[n])
         /\ word[n].state # "inactive"
         /\ toNode[n] = 0 /\ fromNode[n] = <<>>
<1>1. Out(n) /\ index[n] # NoIndex /\ toNode[n] # 1 /\ fromNode[n] = <<>>
  BY DEF IInv, TokenInv, Out
<1>2. toNode[n] = 0
  BY <1>1 DEF IInv, Types, TypeChannels
<1>3. RefOK(n, index[n]) /\ word[n].state # "inactive"
  BY <1>1 DEF IInv, ActivePoolInv, AllocInv
<1>4. QED BY <1>1, <1>2, <1>3

(* Every handler that calls addActivity without limits: a producer, a      *)
(* poller once it took its input, an event action of the loop.             *)
LEMMA PlainActivity ==
  ASSUME IInv, NEW t \in Threads, NEW n \in Nodes, NEW da \in Int,
         AddActivity(t, n, da, 0, FALSE), Free(t), word[n].active + da >= 0,
         UNCHANGED <<load, nActive, eventWait, pendVars, poolVars, ftVars,
                     loopVars, vec, txVars, interrupts, panicErr>>,
         \A m \in Nodes : ppc'[m] = ppc[m] \/ (ppc[m] = "input" /\ ppc'[m] = "output"),
         \/ t = <<"produce", n>>
         \/ t = <<"poll", n>> /\ ppc'[n] = "output"
         \/ t = Loop /\ lpc = "events",
         TypePollers', TypeWork', TypePg', WorkInv', TimedInv'
  PROVE  IInv'
<1>0. Types /\ SuspendLimit \in Nat
  BY ConstantFacts DEF IInv
<1>1. word[n] \in Words /\ word[n].suspend \in 0 .. SuspendLimit
  BY <1>0 DEF Types, TypeWords, Words
<1>1a. 0 \in Int /\ FALSE \in BOOLEAN /\ word[n].suspend + 0 >= 0 /\ 0 = 0
  BY <1>0, <1>1
<1>1b. word'[n].state = "suspended" =>
         \/ FALSE /\ 0 > 0 /\ word[n].suspend + 0 > SuspendLimit
         \/ word[n].state = "suspended"
  BY <1>1a, AddActivityFacts, ZenonT(60)
<1>2. /\ word' \in [Nodes -> Words] /\ act' \in [Threads -> Acts]
      /\ UNCHANGED panicked
      /\ \A m \in Nodes \ {n} : word'[m] = word[m]
      /\ \A s \in Threads \ {t} : act'[s] = act[s]
      /\ word'[n].suspend = word[n].suspend
      /\ word'[n].state = "suspended" => word[n].state = "suspended"
      /\ word'[n].state = "inactive" =>
           word'[n].active = 0 /\ word'[n].suspend = 0
      /\ act'[t].node = n /\ ~act'[t].wake
  <2>1. /\ word' \in [Nodes -> Words] /\ act' \in [Threads -> Acts]
        /\ UNCHANGED panicked
        /\ \A m \in Nodes \ {n} : word'[m] = word[m]
        /\ \A s \in Threads \ {t} : act'[s] = act[s]
    BY <1>1a, AddActivityFacts, ZenonT(60)
  <2>2. word'[n].suspend = word[n].suspend
    BY <1>1a, AddActivityFacts, ZenonT(60)
  <2>3. word'[n].state = "inactive" =>
           word'[n].active = 0 /\ word'[n].suspend = 0
    BY <1>1a, AddActivityFacts, ZenonT(60)
  <2>4. act'[t].node = n /\ ~act'[t].wake
    BY <1>1a, AddActivityFacts, ZenonT(60)
  <2>5. QED BY <1>1b, <2>1, <2>2, <2>3, <2>4
<1>3. AllocInv' /\ NeverUndercounted' /\ WakeInv' /\ AllocatedOnce'
  BY <1>1a, AddActivityKeeps, ZenonT(60)
<1>4. TypeWords' /\ TypeCounts' /\ TypeLoop' /\ TypePend' /\ TypePool' /\ TypeChannels'
  BY <1>0, <1>2, TypeFrame DEF Types, TypeWords
<1>5. FreeInv'
  <2>1. ASSUME NEW m \in Nodes, ppc'[m] \in {"wait", "input", "suspended", "dead"}
        PROVE  Free(<<"poll", m>>)'
    <3>1. ppc[m] = ppc'[m] /\ Free(<<"poll", m>>)
      BY <2>1 DEF IInv, FreeInv
    <3>2. <<"poll", m>> # t
      BY <2>1, ThreadFacts
    <3>3. QED BY <1>2, <3>1, <3>2, ThreadFacts DEF Free
  <2>2. lpc' \notin {"events", "free", "next"} => Free(Loop)'
    BY <1>2, ThreadFacts DEF IInv, FreeInv, Free
  <2>3. \A s \in Threads : /\ act'[s].delta # 0 => ~act'[s].wake
                           /\ act'[s].alloc => act'[s].node \in Nodes
    BY <1>2 DEF IInv, FreeInv
  <2>4. QED BY <2>1, <2>2, <2>3 DEF FreeInv
<1>6. TokenInv'
  <2>1. \A m \in Nodes : (InInput(m)' <=> InInput(m)) /\ (Out(m)' <=> Out(m))
    BY DEF InInput, Out
  <2>2. QED BY <2>1 DEF IInv, TokenInv
<1>7. WaitedInv'
  <2>1. \A m \in Nodes : /\ ppc[m] \in {"wait", "dead"} => ppc'[m] = ppc[m]
                         /\ ppc[m] = "suspended" => ppc'[m] = ppc[m]
    OBVIOUS
  <2>2. \A i : Allocated(i)' <=> Allocated(i)
    BY DEF Allocated, FreePositions
  <2>3. lpc \in {"clearDone", "free"} => entries[li] \in Nodes
    BY <1>0 DEF IInv, WaitedInv, ActivePoolInv, Types, TypeCounts, Allocated
  <2>4. QED BY <2>1, <2>2, <2>3 DEF IInv, WaitedInv
<1>8. SuspendInv'
  <2>2. \A m \in Nodes : /\ word'[m].suspend = word[m].suspend
                         /\ word'[m].state = "suspended" => word[m].state = "suspended"
                         /\ ppc'[m] = "send" <=> ppc[m] = "send"
                         /\ ppc'[m] = "suspended" <=> ppc[m] = "suspended"
                         /\ ppc[m] \in {"suspend", "suspended"} => ppc'[m] = ppc[m]
    BY <1>2
  <2>3. SuspendCounts'
    BY <2>2 DEF IInv, SuspendInv, SuspendCounts
  <2>4. \A m \in Nodes : word'[m].state = "inactive" =>
          word'[m].active = 0 /\ word'[m].suspend = 0
    BY <1>2 DEF IInv, SuspendInv
  <2>5. QED BY <2>2, <2>3, <2>4 DEF IInv, SuspendInv
<1>9. ActivePoolInv'
  BY Frame DEF IInv
<1>10. QED BY <1>3, <1>4, <1>5, <1>6, <1>7, <1>8, <1>9 DEF IInv, Types


(* An activity change without a suspend or resume changes only the active  *)
(* count.                                                                  *)
LEMMA PlainWord ==
  ASSUME IInv, NEW t \in Threads, NEW n \in Nodes, NEW da \in Int,
         AddActivity(t, n, da, 0, FALSE), Free(t), word[n].active + da >= 0
  PROVE  /\ word'[n].active = word[n].active + da
         /\ \A m \in Nodes \ {n} : word'[m] = word[m]
<1>1. word[n].suspend \in 0 .. SuspendLimit /\ SuspendLimit \in Nat
  BY ConstantFacts DEF IInv, Types, TypeWords, Words
<1>2. 0 \in Int /\ FALSE \in BOOLEAN /\ word[n].suspend + 0 >= 0 /\ 0 = 0
  BY <1>1
<1>3. QED BY <1>2, AddActivityFacts, ZenonT(60)

(* The counters of a node are natural numbers.                             *)
LEMMA LoadFacts ==
  ASSUME IInv, NEW n \in Nodes
  PROVE  /\ load[n].kind \in {"rx", "irq", "pg"} /\ load[n].packets \in Nat
         /\ queued[n] \in Nat /\ making[n] \in Nat /\ arrivals[n] \in Nat
         /\ word[n].active \in Nat /\ hold[n] \in Nat /\ txq[n] \in Nat
         /\ vec[n] \in 0 .. VectorLen
<1>1. load \in [Nodes -> [kind : {"rx", "irq", "pg"}, packets : Nat,
                          enables : Nat]]
  BY PollerAssumption DEF IInv
<1>2. load[n].kind \in {"rx", "irq", "pg"} /\ load[n].packets \in Nat
  BY <1>1
<1>3. /\ queued[n] \in Nat /\ making[n] \in Nat /\ arrivals[n] \in Nat
      /\ txq[n] \in Nat
  BY DEF IInv, Types, TypeWork
<1>4. word[n].active \in Nat /\ hold[n] \in Nat /\ vec[n] \in 0 .. VectorLen
  BY DEF IInv, Types, TypeWords, Words, TypePollers
<1>5. QED BY <1>2, <1>3, <1>4

(* ReadReady of the unix interface: a packet to receive is counted before  *)
(* it is taken.                                                            *)
LEMMA ReadReadyKeeps ==
  ASSUME IInv, NEW n \in Nodes, ReadReady(n), UNCHANGED load PROVE IInv'
<1> DEFINE t == <<"produce", n>>
<1>0. Types /\ t \in Threads /\ Free(t) /\ making[n] = 0
  BY ThreadFacts DEF IInv, ReadReady
<1>1. PICK k \in 1 .. load[n].packets - arrivals[n] :
        /\ arrivals' = [arrivals EXCEPT ![n] = @ + k]
        /\ making' = [making EXCEPT ![n] = k]
        /\ AddActivity(t, n, k, 0, FALSE)
  BY DEF ReadReady
<1>2. k \in Nat /\ k \in Int /\ word[n].active + k >= 0
  BY <1>1, LoadFacts
<1>3. UNCHANGED <<nActive, eventWait, pendVars, poolVars, ftVars, loopVars,
                  pollerVars, queued, txVars, pgVars, interrupts, panicErr>>
  BY DEF ReadReady
<1>4. /\ word'[n].active = word[n].active + k
      /\ \A m \in Nodes \ {n} : word'[m] = word[m]
  BY <1>0, <1>1, <1>2, PlainWord
<1>5. TypeWork'
  BY <1>0, <1>1, <1>2, <1>3 DEF Types, TypeWork
<1>6. TypePollers' /\ TypePg' /\ TimedInv'
  BY <1>0, <1>3, TypeFrame, Frame DEF IInv, Types
<1>7. WorkInv'
  <2>1. making'[n] = k /\ \A m \in Nodes \ {n} : making'[m] = making[m]
    BY <1>0, <1>1 DEF Types, TypeWork
  <2>2. load[n].kind = "rx" => word[n].active = making[n] + queued[n]
    BY DEF IInv, WorkInv
  <2>3. load[n].kind = "rx" => word'[n].active = making'[n] + queued'[n]
    BY <1>0, <1>2, <1>3, <1>4, <2>1, <2>2, LoadFacts
  <2>4. QED BY <1>3, <1>4, <2>1, <2>3 DEF IInv, WorkInv
<1>8. QED BY <1>0, <1>1, <1>2, <1>3, <1>5, <1>6, <1>7, PlainActivity

(* ReadReady after the count: the packets go to rv_input.                  *)
LEMMA SendInputKeeps ==
  ASSUME IInv, NEW n \in Nodes, SendInput(n), UNCHANGED load PROVE IInv'
<1>0. Types
  BY DEF IInv
<1>1. TypeWork'
  BY <1>0, LoadFacts DEF Types, TypeWork, SendInput
<1>2. WorkInv'
  <2>1. /\ queued'[n] = queued[n] + making[n] /\ making'[n] = 0
        /\ \A m \in Nodes \ {n} : queued'[m] = queued[m] /\ making'[m] = making[m]
    BY <1>0 DEF Types, TypeWork, SendInput
  <2>2. UNCHANGED <<load, word, ppc, hold, vec>>
    BY DEF SendInput
  <2>3. load[n].kind = "rx" => word'[n].active = making'[n] + queued'[n]
    BY <2>1, <2>2, LoadFacts DEF IInv, WorkInv
  <2>4. QED BY <2>1, <2>2, <2>3 DEF IInv, WorkInv
<1>3. QED BY <1>1, <1>2, TypeFrame, Frame DEF IInv, Types, SendInput

(* The device puts a packet in the ring before its interrupt.              *)
LEMMA PacketInRingKeeps ==
  ASSUME IInv, NEW n \in Nodes, PacketInRing(n), UNCHANGED load PROVE IInv'
<1>0. Types
  BY DEF IInv
<1>1. TypeWork'
  BY <1>0, LoadFacts DEF Types, TypeWork, PacketInRing
<1>2. WorkInv'
  <2>1. \A m \in Nodes \ {n} : queued'[m] = queued[m] /\ making'[m] = making[m]
    BY <1>0 DEF Types, TypeWork, PacketInRing
  <2>2. UNCHANGED <<load, word, ppc, hold, vec>> /\ load[n].kind # "rx"
    BY DEF PacketInRing
  <2>3. QED BY <2>1, <2>2 DEF IInv, WorkInv
<1>3. QED BY <1>1, <1>2, TypeFrame, Frame DEF IInv, Types, PacketInRing

(* The interrupt handler of the driver adds activity for the packet in the *)
(* ring.                                                                   *)
LEMMA DeviceInterruptKeeps ==
  ASSUME IInv, NEW n \in Nodes, DeviceInterrupt(n), UNCHANGED load PROVE IInv'
<1> DEFINE t == <<"produce", n>>
<1>0. Types /\ t \in Threads /\ Free(t) /\ load[n].kind # "rx"
  BY ThreadFacts DEF IInv, DeviceInterrupt
<1>1. AddActivity(t, n, 1, 0, FALSE) /\ making' = [making EXCEPT ![n] = 0]
  BY DEF DeviceInterrupt
<1>2. 1 \in Int /\ word[n].active + 1 >= 0
  BY LoadFacts
<1>3. UNCHANGED <<nActive, eventWait, pendVars, poolVars, ftVars, loopVars,
                  pollerVars, queued, arrivals, txVars, pgVars, interrupts,
                  panicErr>>
  BY DEF DeviceInterrupt
<1>4. \A m \in Nodes \ {n} : word'[m] = word[m]
  BY <1>0, <1>1, <1>2, PlainWord
<1>5. TypeWork'
  BY <1>0, <1>1, <1>3 DEF Types, TypeWork
<1>6. TypePollers' /\ TypePg' /\ TimedInv'
  BY <1>0, <1>3, TypeFrame, Frame DEF IInv, Types
<1>7. WorkInv'
  <2>1. \A m \in Nodes \ {n} : making'[m] = making[m]
    BY <1>0, <1>1 DEF Types, TypeWork
  <2>2. QED BY <1>0, <1>3, <1>4, <2>1 DEF IInv, WorkInv
<1>8. QED BY <1>0, <1>1, <1>2, <1>3, <1>5, <1>6, <1>7, PlainActivity

(* Activate adds or takes one unit, and takes it only when there is one.   *)
LEMMA ActivateAdds ==
  ASSUME IInv, NEW t \in Threads, NEW n \in Nodes, NEW on \in BOOLEAN,
         Activate(t, n, on)
  PROVE  \E da \in Int : /\ word[n].active + da >= 0
                         /\ AddActivity(t, n, da, 0, FALSE)
<1> DEFINE da == IF (word[n].active > 0) = on THEN 0 ELSE IF on THEN 1 ELSE -1
<1>1. da \in Int /\ word[n].active + da >= 0
  BY LoadFacts
<1>2. AddActivity(t, n, da, 0, FALSE)
  BY DEF Activate
<1>3. QED BY <1>1, <1>2

(* Enabling or disabling a packet generator stream, inside doEvents.       *)
LEMMA EnableKeeps ==
  ASSUME IInv, NEW n \in Nodes, Enable(n), UNCHANGED load PROVE IInv'
<1>0. Types /\ Loop \in Threads /\ Free(Loop) /\ load[n].kind # "rx" /\ lpc = "events"
  BY ThreadFacts DEF IInv, Enable
<1>1. PICK da \in Int : /\ word[n].active + da >= 0
                        /\ AddActivity(Loop, n, da, 0, FALSE)
  <2>1. (~enable[n]) \in BOOLEAN
    OBVIOUS
  <2>2. QED BY <1>0, <2>1, ActivateAdds DEF Enable
<1>2. UNCHANGED <<nActive, eventWait, pendVars, poolVars, ftVars, loopVars,
                  pollerVars, workVars, txVars, armed, fire, interrupts, panicErr>>
  BY DEF Enable
<1>3. \A m \in Nodes \ {n} : word'[m] = word[m]
  BY <1>0, <1>1, PlainWord
<1>4. TypePg'
  <2>1. enable' \in [Nodes -> BOOLEAN]
    BY <1>0 DEF Enable, Types, TypePg
  <2>2. enables' \in [Nodes -> Nat]
    BY <1>0 DEF Enable, Types, TypePg
  <2>3. QED BY <1>0, <1>2, <2>1, <2>2 DEF Types, TypePg
<1>5. TypePollers' /\ TypeWork' /\ TimedInv'
  BY <1>0, <1>2, TypeFrame, Frame DEF IInv, Types
<1>6. WorkInv'
  BY <1>0, <1>2, <1>3 DEF IInv, WorkInv
<1>7. QED BY <1>0, <1>1, <1>2, <1>4, <1>5, <1>6, PlainActivity

(* A timed activation that fires.                                          *)
LEMMA ActivateEventKeeps ==
  ASSUME IInv, NEW n \in Nodes, ActivateEvent(n), UNCHANGED load PROVE IInv'
<1>0. Types /\ Loop \in Threads /\ Free(Loop) /\ lpc = "events"
  BY ThreadFacts DEF IInv, ActivateEvent
<1>1. PICK da \in Int : /\ word[n].active + da >= 0
                        /\ AddActivity(Loop, n, da, 0, FALSE)
  BY <1>0, ActivateAdds DEF ActivateEvent
<1>2. UNCHANGED <<nActive, eventWait, pendVars, poolVars, ftVars, loopVars,
                  pollerVars, workVars, txVars, enable, armed, enables,
                  interrupts, panicErr>>
  BY DEF ActivateEvent
<1>3. fire' = fire \ {n} /\ n \in fire /\ load[n].kind # "rx"
  BY DEF ActivateEvent, IInv, TimedInv
<1>4. \A m \in Nodes \ {n} : word'[m] = word[m]
  BY <1>0, <1>1, PlainWord
<1>5. TypePg'
  BY <1>0, <1>2, <1>3 DEF Types, TypePg
<1>6. TypePollers' /\ TypeWork'
  BY <1>0, <1>2, TypeFrame DEF Types
<1>7. WorkInv'
  BY <1>2, <1>3, <1>4 DEF IInv, WorkInv
<1>8. TimedInv'
  BY <1>2, <1>3 DEF IInv, TimedInv
<1>9. QED BY <1>0, <1>1, <1>2, <1>5, <1>6, <1>7, <1>8, PlainActivity


(* The poller takes its input: what it then holds, and that its call of    *)
(* addActivity is its only one.                                            *)
LEMMA TakeFacts ==
  ASSUME IInv, NEW n \in Nodes, ppc[n] = "input", NEW k \in 0 .. queued[n],
         NEW j \in Nat, Take(n, k, j), UNCHANGED vec
  PROVE  /\ Free(<<"poll", n>>) /\ <<"poll", n>> \in Threads
         /\ ppc'[n] = "output" /\ \A m \in Nodes \ {n} : ppc'[m] = ppc[m]
         /\ hold'[n] = j /\ \A m \in Nodes \ {n} : hold'[m] = hold[m]
         /\ queued'[n] = queued[n] - k
         /\ \A m \in Nodes \ {n} : queued'[m] = queued[m]
         /\ vec'[n] = 0 /\ \A m \in Nodes : vec'[m] = vec[m]
         /\ queued' \in [Nodes -> Nat] /\ TypePollers'
<1>0. Types /\ queued[n] \in Nat /\ VectorLen \in Nat
  BY LoadFacts, ConstantFacts DEF IInv
<1>1. Free(<<"poll", n>>) /\ <<"poll", n>> \in Threads
  BY ThreadFacts DEF IInv, FreeInv
<1>2. hold[n] = 0 /\ vec[n] <= hold[n] /\ vec[n] \in 0 .. VectorLen
  BY LoadFacts DEF IInv, WorkInv
<1>3. vec[n] = 0
  BY <1>0, <1>2
<1>4. /\ ppc'[n] = "output" /\ \A m \in Nodes \ {n} : ppc'[m] = ppc[m]
      /\ hold'[n] = j /\ \A m \in Nodes \ {n} : hold'[m] = hold[m]
      /\ TypePollers'
  BY <1>0 DEF Take, Types, TypePollers
<1>5. /\ queued'[n] = queued[n] - k
      /\ \A m \in Nodes \ {n} : queued'[m] = queued[m]
      /\ queued' \in [Nodes -> Nat]
  BY <1>0 DEF Take, Types, TypeWork
<1>6. QED BY <1>1, <1>3, <1>4, <1>5

(* The input of the unix interface takes what was queued.                  *)
LEMMA RxInputKeeps ==
  ASSUME IInv, NEW n \in Nodes, RxInput(n), UNCHANGED load PROVE IInv'
<1> DEFINE t == <<"poll", n>>
<1>0. Types /\ load[n].kind = "rx" /\ ppc[n] = "input"
  BY DEF IInv, RxInput
<1>1. PICK k \in 0 .. queued[n] :
        /\ \E j \in 0 .. k : Take(n, k, j)
        /\ AddActivity(t, n, -k, 0, FALSE)
  BY DEF RxInput
<1>2. PICK j \in 0 .. k : Take(n, k, j)
  BY <1>1
<1>3. /\ k \in Nat /\ j \in Nat /\ k <= queued[n]
      /\ queued[n] \in Nat /\ making[n] \in Nat
      /\ word[n].active = making[n] + queued[n]
  BY <1>0, <1>1, <1>2, LoadFacts DEF IInv, WorkInv
<1>4. -k \in Int /\ word[n].active + (-k) >= 0
  BY <1>3
<1>5. UNCHANGED <<nActive, eventWait, pendVars, poolVars, ftVars, loopVars, vec,
                  making, arrivals, txVars, pgVars, interrupts, panicErr>>
  BY DEF RxInput
<1>6. /\ Free(t) /\ t \in Threads
      /\ ppc'[n] = "output" /\ \A m \in Nodes \ {n} : ppc'[m] = ppc[m]
      /\ hold'[n] = j /\ \A m \in Nodes \ {n} : hold'[m] = hold[m]
      /\ queued'[n] = queued[n] - k
      /\ \A m \in Nodes \ {n} : queued'[m] = queued[m]
      /\ vec'[n] = 0 /\ \A m \in Nodes : vec'[m] = vec[m]
      /\ queued' \in [Nodes -> Nat] /\ TypePollers'
  BY <1>0, <1>2, <1>3, <1>5, TakeFacts
<1>7. /\ word'[n].active = word[n].active + (-k)
      /\ \A m \in Nodes \ {n} : word'[m] = word[m]
  BY <1>1, <1>4, <1>6, PlainWord
<1>8. TypeWork'
  BY <1>0, <1>5, <1>6 DEF Types, TypeWork
<1>9. TypePg' /\ TimedInv'
  BY <1>0, <1>5, TypeFrame, Frame DEF IInv, Types
<1>10. WorkInv'
  <2>1. word'[n].active = making'[n] + queued'[n] /\ vec'[n] <= hold'[n]
    BY <1>3, <1>5, <1>6, <1>7
  <2>2. QED BY <1>5, <1>6, <1>7, <2>1 DEF IInv, WorkInv
<1>11. \A m \in Nodes : ppc'[m] = ppc[m] \/ (ppc[m] = "input" /\ ppc'[m] = "output")
  BY <1>0, <1>6
<1>12. QED
  BY <1>1, <1>4, <1>5, <1>6, <1>8, <1>9, <1>10, <1>11, PlainActivity

(* The input of the driver empties the ring, or stays active.              *)
LEMMA IrqInputKeeps ==
  ASSUME IInv, NEW n \in Nodes, IrqInput(n), UNCHANGED load PROVE IInv'
<1> DEFINE t == <<"poll", n>>
<1>0. Types /\ load[n].kind # "rx" /\ ppc[n] = "input"
  BY DEF IInv, IrqInput
<1>1. PICK k \in 0 .. queued[n] :
        /\ \E j \in 0 .. k : Take(n, k, j)
        /\ AddActivity(t, n, IrqLess(n, queued[n] - k), 0, FALSE)
  BY DEF IrqInput
<1>2. PICK j \in 0 .. k : Take(n, k, j)
  BY <1>1
<1>3. k \in Nat /\ j \in Nat
  BY <1>1, <1>2, LoadFacts
<1> DEFINE da == IrqLess(n, queued[n] - k)
<1>4. da \in Int /\ word[n].active + da >= 0
  BY LoadFacts DEF IrqLess
<1> HIDE DEF da
<1>5. UNCHANGED <<nActive, eventWait, pendVars, poolVars, ftVars, loopVars, vec,
                  making, arrivals, txVars, pgVars, interrupts, panicErr>>
  BY DEF IrqInput
<1>6. /\ Free(t) /\ t \in Threads
      /\ ppc'[n] = "output" /\ \A m \in Nodes \ {n} : ppc'[m] = ppc[m]
      /\ hold'[n] = j /\ \A m \in Nodes \ {n} : hold'[m] = hold[m]
      /\ \A m \in Nodes \ {n} : queued'[m] = queued[m]
      /\ vec'[n] = 0 /\ \A m \in Nodes : vec'[m] = vec[m]
      /\ queued' \in [Nodes -> Nat] /\ TypePollers'
  BY <1>0, <1>2, <1>3, <1>5, TakeFacts
<1>7. AddActivity(t, n, da, 0, FALSE)
  BY <1>1 DEF da
<1>8. \A m \in Nodes \ {n} : word'[m] = word[m]
  BY <1>4, <1>6, <1>7, PlainWord
<1>9. TypeWork'
  BY <1>0, <1>5, <1>6 DEF Types, TypeWork
<1>10. TypePg' /\ TimedInv'
  BY <1>0, <1>5, TypeFrame, Frame DEF IInv, Types
<1>11. WorkInv'
  <2>1. vec'[n] <= hold'[n]
    BY <1>3, <1>6
  <2>2. QED BY <1>0, <1>5, <1>6, <1>8, <2>1 DEF IInv, WorkInv
<1>12. \A m \in Nodes : ppc'[m] = ppc[m] \/ (ppc[m] = "input" /\ ppc'[m] = "output")
  BY <1>0, <1>6
<1>13. QED
  BY <1>4, <1>5, <1>6, <1>7, <1>9, <1>10, <1>11, <1>12, PlainActivity

(* The input of the packet generator makes packets and stays active, or    *)
(* stops.                                                                  *)
LEMMA PgInputKeeps ==
  ASSUME IInv, NEW n \in Nodes, PgInput(n), UNCHANGED load PROVE IInv'
<1> DEFINE t == <<"poll", n>>
<1>0. Types /\ load[n].kind = "pg" /\ ppc[n] = "input" /\ t \in Threads
  BY ThreadFacts DEF IInv, PgInput
<1>1. PICK j \in 0 .. 1 : arrivals' = [arrivals EXCEPT ![n] = @ + j] /\ Take(n, 0, j)
  BY DEF PgInput
<1>2. PICK da \in Int : /\ word[n].active + da >= 0
                        /\ AddActivity(t, n, da, 0, FALSE)
  <2>1. Activate(t, n, FALSE) \/ Activate(t, n, TRUE)
    BY DEF PgInput
  <2>2. QED BY <1>0, <2>1, ActivateAdds
<1>3. 0 \in 0 .. queued[n] /\ j \in Nat
  BY <1>1, LoadFacts
<1>4. UNCHANGED <<nActive, eventWait, pendVars, poolVars, ftVars, loopVars, vec,
                  making, txVars, enable, fire, enables, interrupts, panicErr>>
  BY DEF PgInput
<1>5. armed' \in [Nodes -> Nat] /\ \A m \in Nodes \ {n} : armed'[m] = armed[m]
  <2>1. UNCHANGED armed \/ armed' = [armed EXCEPT ![n] = @ + 1]
    BY DEF PgInput
  <2>2. QED BY <1>0, <2>1 DEF Types, TypePg
<1>6. /\ Free(t)
      /\ ppc'[n] = "output" /\ \A m \in Nodes \ {n} : ppc'[m] = ppc[m]
      /\ hold'[n] = j /\ \A m \in Nodes \ {n} : hold'[m] = hold[m]
      /\ \A m \in Nodes \ {n} : queued'[m] = queued[m]
      /\ vec'[n] = 0 /\ \A m \in Nodes : vec'[m] = vec[m]
      /\ queued' \in [Nodes -> Nat] /\ TypePollers'
  BY <1>0, <1>1, <1>3, <1>4, TakeFacts
<1>7. \A m \in Nodes \ {n} : word'[m] = word[m]
  BY <1>0, <1>2, <1>6, PlainWord
<1>8. TypeWork'
  <2>1. arrivals' \in [Nodes -> Nat]
    BY <1>0, <1>1, <1>3 DEF Types, TypeWork
  <2>2. QED BY <1>0, <1>4, <1>6, <2>1 DEF Types, TypeWork
<1>9. TypePg' /\ TimedInv'
  BY <1>0, <1>4, <1>5 DEF IInv, Types, TypePg, TimedInv
<1>10. WorkInv'
  <2>1. vec'[n] <= hold'[n]
    BY <1>3, <1>6
  <2>2. QED BY <1>0, <1>4, <1>6, <1>7, <2>1 DEF IInv, WorkInv
<1>11. \A m \in Nodes : ppc'[m] = ppc[m] \/ (ppc[m] = "input" /\ ppc'[m] = "output")
  BY <1>0, <1>6
<1>12. QED
  BY <1>0, <1>2, <1>4, <1>6, <1>8, <1>9, <1>10, <1>11, PlainActivity

-----------------------------------------------------------------------------
(* A vector suspends the poller that adds it when it exceeds the limit.    *)
LEMMA DidSuspend ==
  ASSUME NEW w, NEW v \in Nat, v > 0, w.state # "suspended"
  PROVE  Added(w, 0, v, TRUE).suspended <=> w.suspend + v > SuspendLimit
BY DEF Added

(* The suspend count after a call of addActivity with limits.              *)
LEMMA LimitedWord ==
  ASSUME IInv, NEW t \in Threads, NEW n \in Nodes, NEW ds \in Int,
         AddActivity(t, n, 0, ds, TRUE), word[n].suspend + ds >= 0
  PROVE  word'[n].suspend = BackUp(word[n], ds)
<1>1. /\ word \in [Nodes -> Words] /\ SuspendLimit \in Nat
      /\ word[n].active \in Nat /\ word[n].suspend \in 0 .. SuspendLimit
  BY ConstantFacts DEF IInv, Types, TypeWords, Words
<1> DEFINE r == Added(word[n], 0, ds, TRUE)
<1>2. r.word.active = word[n].active + 0 /\ r.word.suspend = BackUp(word[n], ds)
  BY DEF Added
<1> HIDE DEF r
<1>3. r.word.active \in Nat /\ r.word.suspend \in Nat
  BY <1>1, <1>2 DEF BackUp
<1>4. word' = [word EXCEPT ![n] = r.word]
  <2>1. \/ r.word.active < 0 \/ r.word.suspend < 0
        \/ word' = [word EXCEPT ![n] = r.word]
    BY Zenon DEF AddActivity, r
  <2>2. QED BY <1>3, <2>1
<1>5. QED BY <1>1, <1>2, <1>4

(* The two handlers that call addActivity with limits: the poller for a    *)
(* vector it is about to send, and the completion of transmitted packets.  *)
(* What they keep whatever becomes of the counts.                          *)
LEMMA LimitedActivity ==
  ASSUME IInv, NEW t \in Threads, NEW n \in Nodes, NEW ds \in Int,
         AddActivity(t, n, 0, ds, TRUE), Free(t), word[n].suspend + ds >= 0,
         word[n].state # "inactive",
         UNCHANGED <<load, nActive, eventWait, pendVars, poolVars, ftVars,
                     loopVars, hold, workVars, pgVars, interrupts, panicErr>>
  PROVE  /\ AllocInv' /\ NeverUndercounted' /\ WakeInv' /\ AllocatedOnce'
         /\ ActivePoolInv' /\ TimedInv'
         /\ TypeWords' /\ TypeCounts' /\ TypeLoop' /\ TypePend' /\ TypePool'
         /\ TypeChannels' /\ TypePg'
         /\ \A m \in Nodes \ {n} : word'[m] = word[m]
         /\ \A s \in Threads \ {t} : act'[s] = act[s]
         /\ word'[n].active = word[n].active
         /\ word'[n].suspend = BackUp(word[n], ds)
         /\ word'[n].state = "suspended" =>
              \/ ds > 0 /\ word[n].suspend + ds > SuspendLimit
              \/ word[n].state = "suspended"
         /\ word'[n].state # "inactive"
         /\ \A s \in Threads : /\ act'[s].delta # 0 => ~act'[s].wake
                               /\ act'[s].alloc => act'[s].node \in Nodes
<1>0. Types /\ word[n].active \in Nat
  BY LoadFacts DEF IInv
<1>1. 0 \in Int /\ TRUE \in BOOLEAN /\ word[n].active + 0 >= 0
      /\ word[n].active + 0 = word[n].active
  BY <1>0
<1>2. AllocInv' /\ NeverUndercounted' /\ WakeInv' /\ AllocatedOnce'
  BY <1>1, AddActivityKeeps, ZenonT(60)
<1>3. /\ word' \in [Nodes -> Words] /\ act' \in [Threads -> Acts]
      /\ UNCHANGED panicked
      /\ \A m \in Nodes \ {n} : word'[m] = word[m]
      /\ \A s \in Threads \ {t} : act'[s] = act[s]
  BY <1>1, AddActivityFacts, ZenonT(60)
<1>4. word'[n].active = word[n].active + 0 /\ word'[n].suspend = BackUp(word[n], ds)
  <2>1. word'[n].active = word[n].active + 0
    BY <1>1, AddActivityFacts, ZenonT(60)
  <2>2. QED BY <2>1, LimitedWord
<1>5. /\ word'[n].state = "suspended" =>
           \/ TRUE /\ ds > 0 /\ word[n].suspend + ds > SuspendLimit
           \/ word[n].state = "suspended"
      /\ word'[n].state = "inactive" => word[n].state = "inactive"
  BY <1>1, AddActivityFacts, ZenonT(60)
<1>6. act'[t].node = n /\ ~act'[t].wake
  BY <1>1, AddActivityFacts, ZenonT(60)
<1>7. \A s \in Threads : /\ act'[s].delta # 0 => ~act'[s].wake
                         /\ act'[s].alloc => act'[s].node \in Nodes
  BY <1>3, <1>6 DEF IInv, FreeInv
<1>8. /\ TypeWords' /\ TypeCounts' /\ TypeLoop' /\ TypePend' /\ TypePool'
      /\ TypeChannels' /\ TypePg' /\ ActivePoolInv' /\ TimedInv'
  BY <1>0, <1>3, TypeFrame, Frame DEF IInv, Types, TypeWords
<1>9. QED BY <1>1, <1>2, <1>3, <1>4, <1>5, <1>7, <1>8

(* AddSuspendActivity by the poller: the packets it is about to send are   *)
(* counted, and over the limit it suspends.                                *)
LEMMA AddSuspendActivityKeeps ==
  ASSUME IInv, NEW n \in Nodes, AddSuspendActivity(n), UNCHANGED load PROVE IInv'
<1> DEFINE t == <<"poll", n>>
<1>0. /\ Types /\ ppc[n] = "output" /\ Free(t) /\ t \in Threads /\ hold[n] > 0
      /\ InInput(n) /\ SuspendLimit \in Nat /\ VectorLen \in Nat
  BY ThreadFacts, ConstantFacts DEF IInv, AddSuspendActivity, InInput
<1>1. /\ Out(n) /\ index[n] # NoIndex /\ RefOK(n, index[n])
      /\ word[n].state # "inactive" /\ toNode[n] = 0 /\ fromNode[n] = <<>>
      /\ word[n].state # "suspended"
  BY <1>0, InInputFacts DEF IInv, SuspendInv
<1>2. PICK v \in IF vec[n] > 0 THEN {vec[n]}
                 ELSE {k \in 1 .. VectorLen : k <= hold[n]} :
        /\ vec' = [vec EXCEPT ![n] = v]
        /\ ppc' = [ppc EXCEPT ![n] = IF Added(word[n], 0, v, TRUE).suspended
                                     THEN "suspend" ELSE "send"]
        /\ AddActivity(t, n, 0, v, TRUE)
  BY <1>1 DEF AddSuspendActivity
<1>3. v \in 1 .. VectorLen /\ v <= hold[n] /\ v \in Int
  BY <1>0, <1>2, LoadFacts DEF IInv, WorkInv
<1>4. UNCHANGED <<nActive, eventWait, pendVars, poolVars, ftVars, loopVars, hold,
                  workVars, txVars, pgVars, interrupts, panicErr>>
  BY DEF AddSuspendActivity
<1>5. word[n].suspend \in 0 .. SuspendLimit /\ word[n] \in Words /\ word[n].active \in Nat
  BY <1>0 DEF Types, TypeWords, Words
<1>6. word[n].suspend + v >= 0
  BY <1>0, <1>3, <1>5
<1>7. /\ AllocInv' /\ NeverUndercounted' /\ WakeInv' /\ AllocatedOnce'
      /\ ActivePoolInv' /\ TimedInv'
      /\ TypeWords' /\ TypeCounts' /\ TypeLoop' /\ TypePend' /\ TypePool'
      /\ TypeChannels' /\ TypePg'
      /\ \A m \in Nodes \ {n} : word'[m] = word[m]
      /\ \A s \in Threads \ {t} : act'[s] = act[s]
      /\ word'[n].active = word[n].active
      /\ word'[n].suspend = BackUp(word[n], v)
      /\ word'[n].state = "suspended" =>
           \/ v > 0 /\ word[n].suspend + v > SuspendLimit
           \/ word[n].state = "suspended"
      /\ word'[n].state # "inactive"
      /\ \A s \in Threads : /\ act'[s].delta # 0 => ~act'[s].wake
                            /\ act'[s].alloc => act'[s].node \in Nodes
  BY <1>0, <1>1, <1>2, <1>3, <1>4, <1>6, LimitedActivity
<1>8. Added(word[n], 0, v, TRUE).suspended <=> word[n].suspend + v > SuspendLimit
  <2>1. v \in Nat /\ v > 0
    BY <1>0, <1>3
  <2>2. QED BY <1>1, <2>1, DidSuspend
<1>9. /\ vec'[n] = v /\ \A m \in Nodes \ {n} : vec'[m] = vec[m]
      /\ ppc'[n] = IF word[n].suspend + v > SuspendLimit THEN "suspend" ELSE "send"
      /\ \A m \in Nodes \ {n} : ppc'[m] = ppc[m]
  BY <1>0, <1>2, <1>8 DEF Types, TypePollers
<1>10. TypePollers' /\ TypeWork'
  <2>1. vec' \in [Nodes -> 0 .. VectorLen]
    BY <1>0, <1>2, <1>3 DEF Types, TypePollers
  <2>2. ppc' \in [Nodes -> {"wait", "input", "output", "send", "suspend",
                            "suspended", "dead"}]
    BY <1>0, <1>2 DEF Types, TypePollers
  <2>3. TypeWork'
    BY <1>0, <1>4, TypeFrame DEF Types
  <2>4. QED BY <1>0, <1>4, <2>1, <2>2, <2>3 DEF Types, TypePollers
<1>11. WorkInv'
  <2>1. vec'[n] <= hold'[n] /\ vec'[n] > 0
    BY <1>3, <1>4, <1>9
  <2>2. QED BY <1>4, <1>7, <1>9, <2>1 DEF IInv, WorkInv
<1>12. FreeInv'
  <2>1. ASSUME NEW m \in Nodes, ppc'[m] \in {"wait", "input", "suspended", "dead"}
        PROVE  Free(<<"poll", m>>)'
    <3>1. m # n /\ <<"poll", m>> # t
      BY <1>9, <2>1, ThreadFacts
    <3>2. Free(<<"poll", m>>)
      BY <1>9, <2>1, <3>1 DEF IInv, FreeInv
    <3>3. QED BY <1>7, <3>1, <3>2, ThreadFacts DEF Free
  <2>2. lpc' \notin {"events", "free", "next"} => Free(Loop)'
    BY <1>4, <1>7, ThreadFacts DEF IInv, FreeInv, Free
  <2>3. QED BY <1>7, <2>1, <2>2 DEF FreeInv
<1>13. TokenInv'
  <2>1. \A m \in Nodes : (InInput(m)' <=> InInput(m)) /\ (Out(m)' <=> Out(m))
    BY <1>0, <1>4, <1>9 DEF InInput, Out
  <2>2. QED BY <1>4, <2>1 DEF IInv, TokenInv
<1>14. WaitedInv'
  <2>1. \A m \in Nodes : /\ ppc[m] \in {"wait", "dead"} => ppc'[m] = ppc[m]
                         /\ ppc[m] = "suspended" => ppc'[m] = ppc[m]
    BY <1>0, <1>9
  <2>2. \A i : Allocated(i)' <=> Allocated(i)
    BY <1>4 DEF Allocated, FreePositions
  <2>3. lpc \in {"clearDone", "free"} => entries[li] \in Nodes
    BY <1>0 DEF IInv, WaitedInv, ActivePoolInv, Types, TypeCounts, Allocated
  <2>4. QED BY <1>4, <2>1, <2>2, <2>3 DEF IInv, WaitedInv
<1>15. SuspendInv'
  <2>1. word[n].suspend = txq[n] /\ txq[n] \in Nat
    BY <1>0, <1>5, LoadFacts DEF IInv, SuspendInv, SuspendCounts
  <2>2. /\ word'[n].suspend = txq'[n] + (IF ppc'[n] = "send" THEN vec'[n] ELSE 0)
        /\ word'[n].suspend <= SuspendLimit
    BY <1>0, <1>3, <1>4, <1>5, <1>7, <1>9, <2>1 DEF BackUp
  <2>3. SuspendCounts'
    BY <1>4, <1>7, <1>9, <2>2 DEF IInv, SuspendInv, SuspendCounts
  <2>4. word'[n].state = "suspended" => ppc'[n] = "suspend" /\ toNode'[n] = 0
    BY <1>1, <1>4, <1>7, <1>9
  <2>5. QED BY <1>1, <1>4, <1>7, <1>9, <2>3, <2>4 DEF IInv, SuspendInv
<1>16. QED
  BY <1>7, <1>10, <1>11, <1>12, <1>13, <1>14, <1>15 DEF IInv, Types

(* The packets have left: the count goes down and at the limit the poller  *)
(* is resumed.                                                             *)
LEMMA TxDoneKeeps ==
  ASSUME IInv, NEW n \in Nodes, TxDone(n), UNCHANGED load PROVE IInv'
<1> DEFINE t == <<"tx", n>>
<1>0. /\ Types /\ txq[n] > 0 /\ Free(t) /\ t \in Threads
      /\ SuspendLimit \in Nat /\ txq[n] \in Nat
  BY ThreadFacts, ConstantFacts, LoadFacts DEF IInv, TxDone
<1>1. RefOK(n, txIndex[n])
  BY <1>0 DEF IInv, SuspendInv, ActivePoolInv
<1>2. PICK k \in 1 .. txq[n] : /\ txq' = [txq EXCEPT ![n] = @ - k]
                               /\ AddActivity(t, n, 0, -k, TRUE)
  BY <1>1 DEF TxDone
<1>3. UNCHANGED <<nActive, eventWait, pendVars, poolVars, ftVars, loopVars,
                  pollerVars, workVars, txIndex, pgVars, interrupts, panicErr>>
  BY DEF TxDone
<1>4. /\ word[n].suspend \in 0 .. SuspendLimit /\ vec[n] \in 0 .. VectorLen
      /\ VectorLen \in Nat
      /\ word[n].suspend = txq[n] + (IF ppc[n] = "send" THEN vec[n] ELSE 0)
  BY <1>0, LoadFacts, ConstantFacts
     DEF IInv, SuspendInv, SuspendCounts, Types, TypeWords, Words
<1>5. /\ k \in Nat /\ -k \in Int /\ -k < 0 /\ word[n].suspend + (-k) >= 0
      /\ BackUp(word[n], -k) = word[n].suspend - k
      /\ word[n].suspend # 0
  BY <1>0, <1>2, <1>4 DEF BackUp
<1>6. word[n].state # "inactive"
  BY <1>5 DEF IInv, SuspendInv
<1>7. /\ AllocInv' /\ NeverUndercounted' /\ WakeInv' /\ AllocatedOnce'
      /\ ActivePoolInv' /\ TimedInv'
      /\ TypeWords' /\ TypeCounts' /\ TypeLoop' /\ TypePend' /\ TypePool'
      /\ TypeChannels' /\ TypePg'
      /\ \A m \in Nodes \ {n} : word'[m] = word[m]
      /\ \A s \in Threads \ {t} : act'[s] = act[s]
      /\ word'[n].active = word[n].active
      /\ word'[n].suspend = BackUp(word[n], -k)
      /\ word'[n].state = "suspended" =>
           \/ -k > 0 /\ word[n].suspend + (-k) > SuspendLimit
           \/ word[n].state = "suspended"
      /\ word'[n].state # "inactive"
      /\ \A s \in Threads : /\ act'[s].delta # 0 => ~act'[s].wake
                            /\ act'[s].alloc => act'[s].node \in Nodes
  BY <1>0, <1>2, <1>3, <1>5, <1>6, LimitedActivity
<1>8. txq'[n] = txq[n] - k /\ \A m \in Nodes \ {n} : txq'[m] = txq[m]
  BY <1>0, <1>2 DEF Types, TypeWork
<1>9. TypeWork' /\ TypePollers'
  <2>1. txq' \in [Nodes -> Nat]
    BY <1>0, <1>2 DEF Types, TypeWork
  <2>2. QED BY <1>0, <1>3, <2>1, TypeFrame DEF Types, TypeWork
<1>10. WorkInv'
  BY <1>3, <1>7 DEF IInv, WorkInv
<1>11. FreeInv'
  <2>1. \A m \in Nodes : <<"poll", m>> # t /\ Loop # t
    BY ThreadFacts
  <2>2. (\A m \in Nodes : Free(<<"poll", m>>) => Free(<<"poll", m>>)')
        /\ (Free(Loop) => Free(Loop)')
    BY <1>7, <2>1, ThreadFacts DEF Free
  <2>3. QED BY <1>3, <1>7, <2>2 DEF IInv, FreeInv
<1>12. TokenInv' /\ WaitedInv'
  BY <1>3, Frame DEF IInv
<1>13. SuspendInv'
  <2>1. /\ word'[n].suspend = txq'[n] + (IF ppc'[n] = "send" THEN vec'[n] ELSE 0)
        /\ word'[n].suspend <= SuspendLimit
    BY <1>0, <1>2, <1>3, <1>4, <1>5, <1>7, <1>8
  <2>2. SuspendCounts'
    BY <1>3, <1>7, <1>8, <2>1 DEF IInv, SuspendInv, SuspendCounts
  <2>3. word'[n].state = "suspended" => word[n].state = "suspended"
    BY <1>5, <1>7
  <2>4. QED BY <1>0, <1>3, <1>7, <1>8, <2>2, <2>3 DEF IInv, SuspendInv
<1>14. QED
  BY <1>7, <1>9, <1>10, <1>11, <1>12, <1>13 DEF IInv, Types

-----------------------------------------------------------------------------
(* A poller that holds the token is not the one the loop waited for last.  *)
LEMMA OutIsLater ==
  ASSUME IInv, NEW n \in Nodes, Out(n), lpc \in {"clearDone", "free"}
  PROVE  entries[li] \in Nodes /\ entries[li] # n
<1>1. li \in Nat \ {0} /\ Allocated(li - 1)
  BY DEF IInv, WaitedInv, Types, TypeCounts
<1>2. li - 1 + 1 = li /\ li - 1 \in 0 .. Len(entries) - 1
  BY <1>1 DEF Allocated
<1>3. entries[li] \in Nodes /\ index[entries[li]] = li - 1
  BY <1>1, <1>2 DEF IInv, ActivePoolInv
<1>4. ASSUME entries[li] = n PROVE FALSE
  <2>1. index[n] + 1 > li
    BY DEF Out
  <2>2. index[n] = li - 1
    BY <1>3, <1>4
  <2>3. QED BY <1>1, <2>1, <2>2
<1>5. QED BY <1>3, <1>4

(* The steps of a poller that holds the token and calls addActivity no     *)
(* more: it takes the token, keeps it, or gives it back with its answer.   *)
LEMMA PollerMoves ==
  ASSUME IInv, NEW n \in Nodes, toNode[n] = 1 \/ InInput(n), Free(<<"poll", n>>),
         UNCHANGED <<load, word, nActive, eventWait, pendVars, poolVars, isPolling,
                     loopVars, act, workVars, pgVars, interrupts, panicked>>,
         \A m \in Nodes \ {n} :
           /\ ppc'[m] = ppc[m] /\ toNode'[m] = toNode[m]
           /\ fromNode'[m] = fromNode[m] /\ hold'[m] = hold[m]
           /\ vec'[m] = vec[m] /\ txq'[m] = txq[m] /\ txIndex'[m] = txIndex[m],
         TypePollers', TypeChannels', TypeWork', TypeLoop',
         toNode'[n] = 0,
         InInput(n)' <=> fromNode'[n] = <<>>,
         fromNode'[n] = <<TRUE>> => ppc'[n] \in {"wait", "dead"},
         fromNode'[n] = <<FALSE>> => ppc'[n] = "suspended",
         vec'[n] <= hold'[n],
         ppc'[n] \in {"wait", "input"} => hold'[n] = 0,
         ppc'[n] \in {"send", "suspend", "suspended"} => vec'[n] > 0,
         word[n].suspend = txq'[n] + (IF ppc'[n] = "send" THEN vec'[n] ELSE 0),
         word[n].state = "suspended" => ppc'[n] \in {"suspend", "suspended"},
         txq'[n] > 0 => txIndex'[n] = index[n]
  PROVE  IInv'
<1>0. Types /\ Out(n) /\ index[n] # NoIndex
  BY DEF IInv, TokenInv, Out
<1>1. WorkInv'
  BY DEF IInv, WorkInv
<1>2. FreeInv'
  <2>1. \A t \in Threads : Free(t)' <=> Free(t)
    BY DEF Free
  <2>2. \A m \in Nodes : ppc'[m] \in {"wait", "input", "suspended", "dead"} =>
                           Free(<<"poll", m>>)
    BY DEF IInv, FreeInv
  <2>3. QED BY <2>1, <2>2, ThreadFacts DEF IInv, FreeInv
<1>3. TokenInv'
  <2>1. \A m \in Nodes : Out(m)' <=> Out(m)
    BY DEF Out
  <2>2. \A m \in Nodes \ {n} : InInput(m)' <=> InInput(m)
    BY DEF InInput
  <2>3. QED BY <1>0, <2>1, <2>2 DEF IInv, TokenInv
<1>4. WaitedInv'
  <2>1. \A i : Allocated(i)' <=> Allocated(i)
    BY DEF Allocated, FreePositions
  <2>2. lpc \in {"clearDone", "free"} => ppc'[entries[li]] = ppc[entries[li]]
    BY <1>0, OutIsLater
  <2>3. QED BY <2>1, <2>2 DEF IInv, WaitedInv
<1>5. SuspendInv'
  <2>1. SuspendCounts'
    BY DEF IInv, SuspendInv, SuspendCounts
  <2>2. QED BY <1>0, <2>1 DEF IInv, SuspendInv
<1>6. QED
  BY <1>0, <1>1, <1>2, <1>3, <1>4, <1>5, TypeFrame, Frame DEF IInv, Types

(* The poller waits for its token.                                         *)
LEMMA WaitLoopKeeps ==
  ASSUME IInv, NEW n \in Nodes, WaitLoop(n), UNCHANGED load PROVE IInv'
<1>0. Types /\ ppc[n] = "wait" /\ toNode[n] = 1 /\ Free(<<"poll", n>>)
  BY DEF IInv, WaitLoop, FreeInv
<1>1. TypePollers' /\ TypeChannels' /\ TypeWork' /\ TypeLoop'
  <2>1. TypePollers' /\ TypeChannels'
    BY <1>0 DEF Types, TypePollers, TypeChannels, WaitLoop
  <2>2. QED BY <1>0, <2>1, TypeFrame DEF Types, WaitLoop
<1>2. /\ ppc'[n] = "input" /\ toNode'[n] = 0
      /\ \A m \in Nodes \ {n} : ppc'[m] = ppc[m] /\ toNode'[m] = toNode[m]
      /\ UNCHANGED <<fromNode, hold, vec, txVars>>
  BY <1>0 DEF Types, TypePollers, TypeChannels, WaitLoop
<1>3. /\ fromNode[n] = <<>> /\ vec[n] <= hold[n] /\ hold[n] = 0
      /\ word[n].suspend = txq[n] + 0 /\ word[n].state # "suspended"
      /\ txq[n] > 0 => txIndex[n] = index[n]
  BY <1>0 DEF IInv, TokenInv, WorkInv, SuspendInv, SuspendCounts
<1>4. InInput(n)'
  BY <1>2 DEF InInput
<1>5. UNCHANGED <<load, word, nActive, eventWait, pendVars, poolVars, isPolling,
                  loopVars, act, workVars, pgVars, interrupts, panicked>>
  BY DEF WaitLoop
<1>6. QED BY <1>0, <1>1, <1>2, <1>3, <1>4, <1>5, Answers, PollerMoves

(* A suspended poller gets a token and sends the same vector again.        *)
LEMMA ContinueKeeps ==
  ASSUME IInv, NEW n \in Nodes, Continue(n), UNCHANGED load PROVE IInv'
<1>0. Types /\ ppc[n] = "suspended" /\ toNode[n] = 1 /\ Free(<<"poll", n>>)
  BY DEF IInv, Continue, FreeInv
<1>1. TypePollers' /\ TypeChannels' /\ TypeWork' /\ TypeLoop'
  <2>1. TypePollers' /\ TypeChannels'
    BY <1>0 DEF Types, TypePollers, TypeChannels, Continue
  <2>2. QED BY <1>0, <2>1, TypeFrame DEF Types, Continue
<1>2. /\ ppc'[n] = "output" /\ toNode'[n] = 0
      /\ \A m \in Nodes \ {n} : ppc'[m] = ppc[m] /\ toNode'[m] = toNode[m]
      /\ UNCHANGED <<fromNode, hold, vec, txVars>>
  BY <1>0 DEF Types, TypePollers, TypeChannels, Continue
<1>3. /\ fromNode[n] = <<>> /\ vec[n] <= hold[n]
      /\ word[n].suspend = txq[n] + 0 /\ word[n].state # "suspended"
      /\ txq[n] > 0 => txIndex[n] = index[n]
  BY <1>0 DEF IInv, TokenInv, WorkInv, SuspendInv, SuspendCounts
<1>4. InInput(n)'
  BY <1>2 DEF InInput
<1>5. UNCHANGED <<load, word, nActive, eventWait, pendVars, poolVars, isPolling,
                  loopVars, act, workVars, pgVars, interrupts, panicked>>
  BY DEF Continue
<1>6. QED BY <1>0, <1>1, <1>2, <1>3, <1>4, <1>5, Answers, PollerMoves

(* The vector goes to the transmit queue with the index of the active      *)
(* poller.                                                                 *)
LEMMA SendKeeps ==
  ASSUME IInv, NEW n \in Nodes, Send(n), UNCHANGED load PROVE IInv'
<1>0. Types /\ ppc[n] = "send" /\ InInput(n) /\ Free(<<"poll", n>>)
  BY DEF IInv, Send, InInput
<1>0a. /\ hold[n] \in Nat /\ vec[n] \in Nat /\ txq[n] \in Nat /\ vec[n] <= hold[n]
       /\ VectorLen \in Nat
  BY LoadFacts, ConstantFacts DEF IInv, WorkInv
<1>1. TypePollers' /\ TypeChannels' /\ TypeWork' /\ TypeLoop'
  <2>1. TypePollers'
    BY <1>0, <1>0a DEF Types, TypePollers, Send
  <2>2. TypeWork'
    BY <1>0, <1>0a, SMTT(40) DEF Types, TypeWork, TypePool, Send
  <2>3. QED BY <1>0, <2>1, <2>2, TypeFrame DEF Types, Send
<1>2. /\ ppc'[n] = "output" /\ vec'[n] = 0 /\ hold'[n] = hold[n] - vec[n]
      /\ txq'[n] = txq[n] + vec[n] /\ txIndex'[n] = index[n]
      /\ \A m \in Nodes \ {n} : /\ ppc'[m] = ppc[m] /\ hold'[m] = hold[m]
                                /\ vec'[m] = vec[m] /\ txq'[m] = txq[m]
                                /\ txIndex'[m] = txIndex[m]
      /\ UNCHANGED <<fromNode, toNode>>
  BY <1>0 DEF Types, TypePollers, TypeWork, Send
<1>3. /\ fromNode[n] = <<>> /\ toNode[n] = 0
      /\ word[n].suspend = txq[n] + vec[n] /\ word[n].state # "suspended"
  BY <1>0, InInputFacts DEF IInv, SuspendInv, SuspendCounts
<1>4. InInput(n)' /\ vec'[n] <= hold'[n] /\ word[n].suspend = txq'[n] + 0
  BY <1>0a, <1>2, <1>3 DEF InInput
<1>5. UNCHANGED <<load, word, nActive, eventWait, pendVars, poolVars, isPolling,
                  loopVars, act, workVars, pgVars, interrupts, panicked>>
  BY DEF Send
<1>6. QED BY <1>0, <1>1, <1>2, <1>3, <1>4, <1>5, Answers, PollerMoves

(* A suspended poller tells the loop and keeps its vector.                 *)
LEMMA SignalSuspendedKeeps ==
  ASSUME IInv, NEW n \in Nodes, SignalSuspended(n), UNCHANGED load PROVE IInv'
<1>0. Types /\ ppc[n] = "suspend" /\ InInput(n) /\ Free(<<"poll", n>>)
  BY DEF IInv, SignalSuspended, InInput
<1>1. TypePollers' /\ TypeChannels' /\ TypeWork' /\ TypeLoop'
  <2>1. TypePollers' /\ TypeChannels'
    BY <1>0 DEF Types, TypePollers, TypeChannels, SignalSuspended
  <2>2. QED BY <1>0, <2>1, TypeFrame DEF Types, SignalSuspended
<1>2. /\ ppc'[n] = "suspended" /\ fromNode'[n] = <<FALSE>>
      /\ \A m \in Nodes \ {n} : ppc'[m] = ppc[m] /\ fromNode'[m] = fromNode[m]
      /\ UNCHANGED <<toNode, hold, vec, txVars>>
  BY <1>0 DEF Types, TypePollers, TypeChannels, SignalSuspended
<1>3. /\ toNode[n] = 0 /\ vec[n] <= hold[n] /\ vec[n] > 0
      /\ word[n].suspend = txq[n] + 0
      /\ txq[n] > 0 => txIndex[n] = index[n]
  BY <1>0, InInputFacts DEF IInv, WorkInv, SuspendInv, SuspendCounts
<1>4. ~InInput(n)'
  BY <1>2 DEF InInput
<1>5. UNCHANGED <<load, word, nActive, eventWait, pendVars, poolVars, isPolling,
                  loopVars, act, workVars, pgVars, interrupts, panicked>>
  BY DEF SignalSuspended
<1>6. QED BY <1>0, <1>1, <1>2, <1>3, <1>4, <1>5, Answers, PollerMoves

(* A poller that returns, or panics, answers once.                         *)
LEMMA SignalLoopKeeps ==
  ASSUME IInv, NEW n \in Nodes, SignalLoop(n) \/ PanicPoller(n), UNCHANGED load
  PROVE  IInv'
<1>0. Types /\ ppc[n] \in {"input", "output"} /\ InInput(n) /\ Free(<<"poll", n>>)
  BY DEF IInv, SignalLoop, PanicPoller, InInput
<1>1. TypePollers' /\ TypeChannels' /\ TypeWork' /\ TypeLoop'
  <2>1. TypePollers' /\ TypeChannels'
    BY <1>0 DEF Types, TypePollers, TypeChannels, SignalLoop, PanicPoller
  <2>2. TypeLoop'
    BY <1>0 DEF Types, TypeLoop, SignalLoop, PanicPoller
  <2>3. QED BY <1>0, <2>1, <2>2, TypeFrame DEF Types, SignalLoop, PanicPoller
<1>2. /\ ppc'[n] \in {"wait", "dead"} /\ fromNode'[n] = <<TRUE>>
      /\ \A m \in Nodes \ {n} : ppc'[m] = ppc[m] /\ fromNode'[m] = fromNode[m]
      /\ UNCHANGED <<toNode, hold, vec, txVars>>
      /\ ppc'[n] = "wait" => hold[n] = 0
  BY <1>0 DEF Types, TypePollers, TypeChannels, SignalLoop, PanicPoller
<1>3. /\ toNode[n] = 0 /\ vec[n] <= hold[n]
      /\ word[n].suspend = txq[n] + 0 /\ word[n].state # "suspended"
      /\ txq[n] > 0 => txIndex[n] = index[n]
  BY <1>0, InInputFacts DEF IInv, WorkInv, SuspendInv, SuspendCounts
<1>4. ~InInput(n)'
  BY <1>2 DEF InInput
<1>5. UNCHANGED <<load, word, nActive, eventWait, pendVars, poolVars, isPolling,
                  loopVars, act, workVars, pgVars, interrupts, panicked>>
  BY DEF SignalLoop, PanicPoller
<1>6. QED BY <1>0, <1>1, <1>2, <1>3, <1>4, <1>5, Answers, PollerMoves

-----------------------------------------------------------------------------
(* An allocated node is the one at its index, and no other is.             *)
LEMMA IndexFacts ==
  ASSUME IInv
  PROVE  /\ \A n \in Nodes : index[n] # NoIndex =>
              /\ index[n] \in Nat /\ index[n] + 1 \in 1 .. Len(entries)
              /\ Allocated(index[n]) /\ entries[index[n] + 1] = n
         /\ \A m, n \in Nodes : index[m] = index[n] /\ index[m] # NoIndex => m = n
         /\ Len(entries) \in Nat /\ li \in Nat \ {0}
         /\ li \in 1 .. Len(entries) /\ Allocated(li - 1) =>
              entries[li] \in Nodes /\ index[entries[li]] = li - 1
<1>1. /\ index \in [Nodes -> Nat \cup {NoIndex}] /\ entries \in Seq(Nodes \cup {None})
      /\ li \in Nat \ {0}
  BY DEF IInv, Types, TypePool, TypeCounts
<1>2. Len(entries) \in Nat
  BY <1>1
<1>3. \A n \in Nodes : index[n] # NoIndex =>
        /\ index[n] \in Nat /\ index[n] + 1 \in 1 .. Len(entries)
        /\ Allocated(index[n]) /\ entries[index[n] + 1] = n
  BY <1>1, <1>2 DEF IInv, ActivePoolInv, RefOK, Allocated
<1>4. li \in 1 .. Len(entries) /\ Allocated(li - 1) =>
        entries[li] \in Nodes /\ index[entries[li]] = li - 1
  <2> SUFFICES ASSUME li \in 1 .. Len(entries), Allocated(li - 1)
               PROVE  entries[li] \in Nodes /\ index[entries[li]] = li - 1
    OBVIOUS
  <2>1. li - 1 + 1 = li /\ li - 1 \in 0 .. Len(entries) - 1
    BY <1>1, <1>2
  <2>2. QED BY <2>1 DEF IInv, ActivePoolInv
<1>5. QED BY <1>1, <1>2, <1>3, <1>4

(* The steps of the loop that change nothing but its program point, its    *)
(* wait bit, the interrupts it took and the timers that expired.           *)
LEMMA LoopMoves ==
  ASSUME IInv,
         UNCHANGED <<load, word, nActive, pendVars, poolVars, ftVars, pend, act,
                     pollerVars, workVars, txVars, panicked>>,
         TypeCounts', TypeLoop', TypePg', TimedInv', WakeInv',
         lpc' \notin {"events", "free", "next"} => Free(Loop),
         \A n \in Nodes : Out(n)' <=> Out(n),
         lpc' \notin DoPollers => li' = 1,
         lpc' \notin {"clearDone", "clearResume", "free", "alloc"},
         lpc = "alloc" => pend = <<>>
  PROVE  IInv'
<1>0. Types
  BY DEF IInv
<1>1. FreeInv'
  BY DEF IInv, FreeInv, Free
<1>2. TokenInv'
  BY DEF IInv, TokenInv, InInput
<1>3. WaitedInv'
  BY DEF IInv, WaitedInv
<1>4. AllocInv'
  BY DEF IInv, AllocInv, Injective, In, Asks
<1>5. QED
  BY <1>0, <1>1, <1>2, <1>3, <1>4, TypeFrame, Frame DEF IInv, Types

(* The loop sets the wait bit only with no active poller.                  *)
LEMMA SetEventWaitKeeps ==
  ASSUME IInv, SetEventWait, UNCHANGED load PROVE IInv'
<1>0. Types /\ nActive \in Nat /\ lpc = "top" /\ interrupts \in Nat
  BY ActiveCount DEF IInv, SetEventWait, Types, TypeCounts
<1>1. TypeCounts' /\ TypePg' /\ TimedInv'
  <2>1. interrupts' \in Nat
    BY <1>0 DEF SetEventWait
  <2>2. QED BY <1>0, <2>1, TypeFrame, Frame DEF IInv, Types, TypeCounts, SetEventWait
<1>2. TypeLoop'
  <2>1. (nActive = 0) \in BOOLEAN
    OBVIOUS
  <2>2. lpc' \in {"sleep", "events"} /\ eventWait' = (nActive = 0)
    BY DEF SetEventWait
  <2>3. QED BY <1>0, <2>1, <2>2 DEF Types, TypeLoop, SetEventWait
<1>3. WakeInv'
  BY DEF SetEventWait, WakeInv
<1>4. lpc' \in {"sleep", "events"} /\ li' = li /\ Free(Loop) /\ li = 1
  BY <1>0 DEF IInv, FreeInv, WaitedInv, DoPollers, SetEventWait
<1>5. \A n \in Nodes : Out(n)' <=> Out(n)
  BY <1>0, <1>4 DEF Out
<1>6. QED BY <1>0, <1>1, <1>2, <1>3, <1>4, <1>5, LoopMoves DEF SetEventWait

(* An interrupt ends the sleep of the loop.                                *)
LEMMA WakeKeeps ==
  ASSUME IInv, Wake, UNCHANGED load PROVE IInv'
<1>0. Types /\ lpc = "sleep" /\ lpc' = "clear" /\ UNCHANGED <<eventWait, panicErr, panicked>>
  BY DEF IInv, Wake
<1>1. TypeCounts'
  <2>1. interrupts' \in Nat
    BY <1>0 DEF Wake, Types, TypeCounts
  <2>2. QED BY <1>0, <2>1 DEF Types, TypeCounts, Wake
<1>2. TypePg' /\ TimedInv'
  <2>1. CASE UNCHANGED <<armed, fire>>
    BY <1>0, <2>1 DEF IInv, Types, TypePg, TimedInv, Wake
  <2>2. CASE /\ fire' \in SUBSET {n \in Nodes : armed[n] > 0} \ {{}}
             /\ armed' = [n \in Nodes |-> IF n \in fire' THEN armed[n] - 1
                                          ELSE armed[n]]
    <3>1. fire' \subseteq Nodes /\ \A n \in fire' : armed[n] > 0
      BY <2>2
    <3>2. armed \in [Nodes -> Nat]
      BY <1>0 DEF Types, TypePg
    <3>3. armed' \in [Nodes -> Nat] /\ \A n \in Nodes : armed'[n] > 0 => armed[n] > 0
      BY <2>2, <3>1, <3>2
    <3>4. QED BY <1>0, <3>1, <3>3 DEF IInv, Types, TypePg, TimedInv, Wake
  <2>3. QED BY <2>1, <2>2 DEF Wake
<1>3. TypeLoop' /\ WakeInv'
  <2>1. TypeLoop'
    BY <1>0 DEF Types, TypeLoop
  <2>2. nActive' = nActive
    BY DEF Wake
  <2>3. QED BY <1>0, <2>1, <2>2 DEF IInv, WakeInv
<1>4. li' = li /\ Free(Loop) /\ li = 1
  BY <1>0 DEF IInv, FreeInv, WaitedInv, DoPollers, Wake
<1>5. \A n \in Nodes : Out(n)' <=> Out(n)
  BY <1>0 DEF Out
<1>6. QED BY <1>0, <1>1, <1>2, <1>3, <1>4, <1>5, LoopMoves DEF Wake

(* The loop clears the wait bit after its sleep.                           *)
LEMMA ClearEventWaitKeeps ==
  ASSUME IInv, ClearEventWait \/ EndDoEvents, UNCHANGED load PROVE IInv'
<1>0. /\ Types /\ lpc \in {"clear", "events"} /\ lpc' \in {"events", "pending", "exit"}
      /\ lpc' # "events" => Free(Loop)
  BY DEF IInv, ClearEventWait, EndDoEvents
<1>1. TypeCounts' /\ TypePg' /\ TimedInv'
  BY <1>0, TypeFrame, Frame DEF IInv, Types, ClearEventWait, EndDoEvents
<1>2. TypeLoop' /\ WakeInv'
  <2>1. (eventWait' = FALSE \/ eventWait' = eventWait)
        /\ UNCHANGED <<nActive, panicErr, panicked>>
    BY DEF ClearEventWait, EndDoEvents
  <2>2. TypeLoop'
    BY <1>0, <2>1 DEF Types, TypeLoop
  <2>3. QED BY <1>0, <2>1, <2>2 DEF IInv, WakeInv
<1>3. li' = li /\ li = 1
  BY <1>0 DEF IInv, WaitedInv, DoPollers, ClearEventWait, EndDoEvents
<1>4. \A n \in Nodes : Out(n)' <=> Out(n)
  BY <1>0 DEF Out
<1>5. QED
  BY <1>0, <1>1, <1>2, <1>3, <1>4, LoopMoves DEF ClearEventWait, EndDoEvents

(* The passes over the pool: who is out stays out.                         *)
LEMMA AllAllocatedKeeps ==
  ASSUME IInv, AllAllocated, UNCHANGED load PROVE IInv'
<1>0. Types /\ lpc = "alloc" /\ lpc' = "poll" /\ Free(Loop) /\ li' = li /\ li = 1
  BY DEF IInv, FreeInv, WaitedInv, DoPollers, AllAllocated
<1>1. TypeCounts' /\ TypePg' /\ TimedInv'
  BY <1>0, TypeFrame, Frame DEF IInv, Types, AllAllocated
<1>2. TypeLoop' /\ WakeInv'
  BY <1>0 DEF IInv, Types, TypeLoop, WakeInv, AllAllocated
<1>3. \A n \in Nodes : Out(n)' <=> Out(n)
  BY <1>0, IndexFacts DEF Out, AllAllocated
<1>4. QED BY <1>0, <1>1, <1>2, <1>3, LoopMoves DEF AllAllocated, DoPollers

(* All the allocated pollers that may poll were started.                   *)
LEMMA AllStartedKeeps ==
  ASSUME IInv, AllStarted, UNCHANGED load PROVE IInv'
<1>0. /\ Types /\ lpc = "poll" /\ lpc' = "wait" /\ Free(Loop) /\ li' = 1
      /\ li > Len(entries)
  BY DEF IInv, FreeInv, AllStarted
<1>1. TypeCounts' /\ TypePg' /\ TimedInv'
  <2>1. TypeCounts'
    BY <1>0 DEF Types, TypeCounts, AllStarted
  <2>2. QED BY <1>0, <2>1, TypeFrame, Frame DEF IInv, Types, AllStarted
<1>2. TypeLoop' /\ WakeInv'
  BY <1>0 DEF IInv, Types, TypeLoop, WakeInv, AllStarted
<1>3. \A n \in Nodes : Out(n)' <=> Out(n)
  BY <1>0, IndexFacts DEF Out, AllStarted
<1>4. QED BY <1>0, <1>1, <1>2, <1>3, LoopMoves DEF AllStarted, DoPollers

(* A free entry, or a poller that was not started, is not waited for.      *)
LEMMA SkipPollerKeeps ==
  ASSUME IInv, SkipPoller, UNCHANGED load PROVE IInv'
<1>0. /\ Types /\ lpc = "wait" /\ lpc' = "wait" /\ Free(Loop) /\ li' = li + 1
      /\ li \in Nat \ {0}
  BY DEF IInv, FreeInv, SkipPoller, Types, TypeCounts
<1>1. TypeCounts' /\ TypePg' /\ TimedInv'
  <2>1. TypeCounts'
    BY <1>0 DEF Types, TypeCounts, SkipPoller
  <2>2. QED BY <1>0, <2>1, TypeFrame, Frame DEF IInv, Types, SkipPoller
<1>2. TypeLoop' /\ WakeInv'
  BY <1>0 DEF IInv, Types, TypeLoop, WakeInv, SkipPoller
<1>3. \A n \in Nodes : Out(n)' <=> Out(n)
  <2>1. ASSUME NEW n \in Nodes, index[n] # NoIndex, isPolling[n]
        PROVE  index[n] + 1 # li
    <3>1. Allocated(index[n]) /\ entries[index[n] + 1] = n /\ index[n] \in Nat
      BY <2>1, IndexFacts
    <3>2. ~(Allocated(li - 1) /\ isPolling[entries[li]])
      BY DEF SkipPoller, Started
    <3>3. index[n] + 1 = li => index[n] = li - 1
      BY <1>0, <3>1
    <3>4. QED BY <2>1, <3>1, <3>2, <3>3
  <2>2. \A n \in Nodes : index[n] # NoIndex => index[n] \in Nat
    BY IndexFacts
  <2>3. QED BY <1>0, <2>1, <2>2 DEF Out, SkipPoller
<1>4. QED BY <1>0, <1>1, <1>2, <1>3, LoopMoves DEF SkipPoller, DoPollers

(* The loop goes on to the next entry of the pool.                         *)
LEMMA NextPollerKeeps ==
  ASSUME IInv, NextPoller, UNCHANGED load PROVE IInv'
<1>0. /\ Types /\ lpc = "next" /\ lpc' = "wait" /\ Free(Loop) /\ li' = li + 1
      /\ li \in Nat \ {0}
  BY DEF IInv, NextPoller, Types, TypeCounts
<1>1. TypeCounts' /\ TypePg' /\ TimedInv'
  <2>1. TypeCounts'
    BY <1>0 DEF Types, TypeCounts, NextPoller
  <2>2. QED BY <1>0, <2>1, TypeFrame, Frame DEF IInv, Types, NextPoller
<1>2. TypeLoop' /\ WakeInv'
  BY <1>0 DEF IInv, Types, TypeLoop, WakeInv, NextPoller
<1>3. \A n \in Nodes : Out(n)' <=> Out(n)
  BY <1>0, IndexFacts DEF Out, NextPoller
<1>4. QED BY <1>0, <1>1, <1>2, <1>3, LoopMoves DEF NextPoller, DoPollers

(* doPollers ends when every entry was waited for.                         *)
LEMMA AllWaitedKeeps ==
  ASSUME IInv, AllWaited, UNCHANGED load PROVE IInv'
<1>0. /\ Types /\ lpc = "wait" /\ lpc' = "top" /\ Free(Loop) /\ li' = 1
      /\ li > Len(entries)
  BY DEF IInv, FreeInv, AllWaited
<1>1. TypeCounts' /\ TypePg' /\ TimedInv'
  <2>1. TypeCounts'
    BY <1>0 DEF Types, TypeCounts, AllWaited
  <2>2. QED BY <1>0, <2>1, TypeFrame, Frame DEF IInv, Types, AllWaited
<1>2. TypeLoop' /\ WakeInv'
  BY <1>0 DEF IInv, Types, TypeLoop, WakeInv, AllWaited
<1>3. \A n \in Nodes : Out(n)' <=> Out(n)
  BY <1>0, IndexFacts DEF Out, AllWaited
<1>4. QED BY <1>0, <1>1, <1>2, <1>3, LoopMoves DEF AllWaited, DoPollers

-----------------------------------------------------------------------------
(* The pending vector becomes the loop's, and every node of it leaves it.  *)
LEMMA GetAllocPendingKeeps ==
  ASSUME IInv, GetAllocPending, UNCHANGED load PROVE IInv'
<1>0. /\ Types /\ lpc = "pending" /\ lpc' = "alloc" /\ Free(Loop) /\ li = 1
      /\ pend = <<>>
  BY DEF IInv, FreeInv, WaitedInv, AllocInv, DoPollers, GetAllocPending
<1>1. /\ sequence \in 0 .. 1 /\ sequence' = 1 - sequence /\ sequence' \in 0 .. 1
      /\ activePending \in [0 .. 1 -> Seq(Nodes)]
      /\ pend' = activePending[sequence]
      /\ activePending' = [activePending EXCEPT ![1 - sequence] = <<>>]
      /\ isPending' = [n \in Nodes |-> StillPending(n, pend')]
  BY <1>0 DEF Types, TypePend, GetAllocPending, NextSequence
<1>2. activePending'[sequence'] = <<>> /\ pend' \in Seq(Nodes)
  BY <1>1
<1>3. \A n \in Nodes : /\ ~isPending'[n]
                       /\ In(pend, n)' <=> isPending[n]
  <2>1. \A n \in Nodes : isPending[n] <=> In(pend', n)
    BY <1>1 DEF IInv, AllocInv
  <2>2. \A n \in Nodes : isPending'[n] <=>
          isPending[n] /\ \A k \in 1 .. Len(pend') : pend'[k] # n
    BY <1>1 DEF StillPending
  <2>3. QED BY <2>1, <2>2 DEF In
<1>4. TypePend'
  <2>1. isPending' \in [Nodes -> BOOLEAN]
    BY <1>0, <1>1 DEF Types, TypePend, StillPending
  <2>2. activePending' \in [0 .. 1 -> Seq(Nodes)]
    BY <1>1
  <2>3. QED BY <1>1, <1>2, <2>1, <2>2 DEF TypePend
<1>5. TypeLoop' /\ WakeInv'
  BY <1>0 DEF IInv, Types, TypeLoop, WakeInv, GetAllocPending
<1>6. UNCHANGED <<load, word, nActive, eventWait, poolVars, ftVars, li, act,
                  pollerVars, workVars, txVars, pgVars, interrupts, panicErr,
                  panicked>>
  BY DEF GetAllocPending
<1>7. FreeInv' /\ WaitedInv'
  BY <1>0, <1>6 DEF IInv, FreeInv, Free, WaitedInv
<1>8. TokenInv'
  BY <1>0, <1>6 DEF IInv, TokenInv, InInput, Out
<1>9. AllocInv'
  <2>1. Injective(activePending[sequence])'
    BY <1>2, VectorEmpty
  <2>2. Injective(pend)'
    BY <1>1 DEF IInv, AllocInv
  <2>3. \A n \in Nodes : ~In(activePending[sequence], n)' /\ ~In(pend, n)
    BY <1>0, <1>2, VectorEmpty
  <2>4. \A t \in Threads, n \in Nodes : Asks(t, n)' <=> Asks(t, n)
    BY <1>6 DEF Asks
  <2>5. QED BY <1>0, <1>3, <1>6, <2>1, <2>2, <2>3, <2>4 DEF IInv, AllocInv
<1>10. QED
  BY <1>0, <1>4, <1>5, <1>6, <1>7, <1>8, <1>9, TypeFrame, Frame DEF IInv, Types

(* A stack without its top.                                                *)
LEMMA StackPop ==
  ASSUME NEW s \in Seq(Nat), NEW l \in Nat \ {0}, l = Len(s)
  PROVE  /\ SubSeq(s, 1, l - 1) \in Seq(Nat) /\ Len(SubSeq(s, 1, l - 1)) = l - 1
         /\ \A k \in 1 .. l - 1 : SubSeq(s, 1, l - 1)[k] = s[k]
OBVIOUS

(* The pool with one more index allocated: popped or grown.                *)
LEMMA PoolGets ==
  ASSUME ActivePoolInv, TypePool, None \notin Nodes, NEW n \in Nodes, index[n] = NoIndex,
         NEW i, i = IF free # <<>> THEN free[Len(free)] ELSE Len(entries),
         entries' = IF free # <<>> THEN [entries EXCEPT ![i + 1] = n]
                    ELSE Append(entries, n),
         free' = IF free # <<>> THEN SubSeq(free, 1, Len(free) - 1) ELSE free,
         index' = [index EXCEPT ![n] = i]
  PROVE  ActivePoolInv' /\ TypePool' /\ i \in Nat
<1>0. /\ entries \in Seq(Nodes \cup {None}) /\ free \in Seq(Nat)
      /\ index \in [Nodes -> Nat \cup {NoIndex}]
      /\ Len(entries) \in Nat /\ Len(free) \in Nat
  BY DEF TypePool
<1>1. \A m \in Nodes : index[m] # NoIndex => Allocated(index[m]) /\ entries[index[m] + 1] = m
  BY DEF ActivePoolInv, RefOK
<1>2. CASE free # <<>>
  <2>0. Len(free) \in Nat \ {0} /\ Len(free) \in 1 .. Len(free) /\ i = free[Len(free)]
    BY <1>0, <1>2
  <2>1. i \in Nat /\ i \in 0 .. Len(entries) - 1 /\ i \in FreePositions
    BY <1>0, <2>0 DEF ActivePoolInv, FreePositions
  <2>2. /\ free' \in Seq(Nat) /\ Len(free') = Len(free) - 1
        /\ \A k \in 1 .. Len(free) - 1 : free'[k] = free[k]
    BY <1>0, <1>2, <2>0, StackPop
  <2>3. /\ entries' \in Seq(Nodes \cup {None}) /\ Len(entries') = Len(entries)
        /\ \A k \in 1 .. Len(entries) : entries'[k] = IF k = i + 1 THEN n ELSE entries[k]
    BY <1>0, <1>2, <2>1
  <2>4. \A k \in 1 .. Len(free) - 1 : free[k] # i
    BY <2>0 DEF ActivePoolInv
  <2>5. \A j : j \in FreePositions' <=> j \in FreePositions /\ j # i
    <3>1. FreePositions' = {free'[k] : k \in 1 .. Len(free')}
      BY DEF FreePositions
    <3>2. ASSUME NEW j, j \in FreePositions' PROVE j \in FreePositions /\ j # i
      <4>1. PICK k \in 1 .. Len(free) - 1 : j = free[k]
        BY <2>2, <3>1, <3>2
      <4>2. k \in 1 .. Len(free)
        BY <2>0, <4>1
      <4>3. QED BY <2>4, <4>1, <4>2 DEF FreePositions
    <3>3. ASSUME NEW j, j \in FreePositions, j # i PROVE j \in FreePositions'
      <4>1. PICK k \in 1 .. Len(free) : j = free[k]
        BY <3>3 DEF FreePositions
      <4>2. k \in 1 .. Len(free) - 1
        BY <2>0, <3>3, <4>1
      <4>3. QED BY <2>2, <3>1, <4>1, <4>2
    <3>4. QED BY <3>2, <3>3
  <2>6. \A j : Allocated(j)' <=> Allocated(j) \/ j = i
    BY <2>1, <2>3, <2>5 DEF Allocated
  <2>7. index'[n] = i /\ \A m \in Nodes \ {n} : index'[m] = index[m]
    BY <1>0
  <2>8. ~Allocated(i)
    BY <2>1 DEF Allocated
  <2>9. \A j \in 0 .. Len(entries) - 1 :
          j # i => entries'[j + 1] = entries[j + 1]
    BY <1>0, <2>1, <2>3
  <2>9a. entries'[i + 1] = n
    BY <1>0, <2>1, <2>3
  <2>10. \A j \in 0 .. Len(entries') - 1 : Allocated(j)' =>
           entries'[j + 1] \in Nodes /\ index'[entries'[j + 1]] = j
    <3> SUFFICES ASSUME NEW j \in 0 .. Len(entries') - 1, Allocated(j)'
                 PROVE  entries'[j + 1] \in Nodes /\ index'[entries'[j + 1]] = j
      OBVIOUS
    <3>1. CASE j = i
      BY <2>7, <2>9a, <3>1
    <3>2. CASE j # i
      <4>1. Allocated(j) /\ j \in 0 .. Len(entries) - 1
        BY <2>3, <2>6, <3>2
      <4>2. entries[j + 1] \in Nodes /\ index[entries[j + 1]] = j
        BY <4>1 DEF ActivePoolInv
      <4>3. j # NoIndex
        BY <4>1, <1>0 DEF NoIndex
      <4>4. QED BY <2>7, <2>9, <3>2, <4>1, <4>2, <4>3
    <3>3. QED BY <3>1, <3>2
  <2>11. \A m \in Nodes : index'[m] # NoIndex => RefOK(m, index[m])'
    <3> SUFFICES ASSUME NEW m \in Nodes, index'[m] # NoIndex
                 PROVE  /\ index'[m] \in 0 .. Len(entries') - 1
                        /\ index'[m] \notin FreePositions'
                        /\ entries'[index'[m] + 1] = m
      BY DEF RefOK, Allocated
    <3>1. CASE m = n
      BY <2>1, <2>3, <2>5, <2>7, <2>9a, <3>1
    <3>2. CASE m # n
      <4>1. index'[m] = index[m] /\ Allocated(index[m]) /\ entries[index[m] + 1] = m
        BY <1>1, <2>7, <3>2
      <4>2. index[m] # i /\ index[m] \in 0 .. Len(entries) - 1
        BY <2>8, <4>1 DEF Allocated
      <4>3. index[m] \notin FreePositions'
        BY <2>5, <4>1 DEF Allocated
      <4>4. QED BY <2>3, <2>9, <4>1, <4>2, <4>3
    <3>3. QED BY <3>1, <3>2
  <2>12. /\ \A k \in 1 .. Len(free') : free'[k] \in 0 .. Len(entries') - 1
         /\ \A j, k \in 1 .. Len(free') : free'[j] = free'[k] => j = k
    <3>1. \A k \in 1 .. Len(free') : k \in 1 .. Len(free) /\ free'[k] = free[k]
      BY <2>0, <2>2
    <3>2. QED BY <2>3, <3>1 DEF ActivePoolInv
  <2>13. ActivePoolInv'
    BY <2>10, <2>11, <2>12 DEF ActivePoolInv
  <2>14. TypePool'
    BY <1>0, <2>1, <2>2, <2>3 DEF TypePool
  <2>15. QED BY <2>1, <2>13, <2>14
<1>3. CASE free = <<>>
  <2>1. i = Len(entries) /\ i \in Nat /\ free' = free /\ entries' = Append(entries, n)
    BY <1>0, <1>3
  <2>2. /\ entries' \in Seq(Nodes \cup {None}) /\ Len(entries') = i + 1
        /\ entries'[i + 1] = n
        /\ \A k \in 1 .. i : entries'[k] = entries[k]
    BY <1>0, <2>1
  <2>3. \A j : Allocated(j)' <=> j \in 0 .. i
    BY <1>3, <2>1, <2>2 DEF Allocated, FreePositions
  <2>3a. \A j : j \notin FreePositions'
    BY <1>3, <2>1 DEF FreePositions
  <2>4. \A j : Allocated(j) <=> j \in 0 .. i - 1
    BY <1>3, <2>1 DEF Allocated, FreePositions
  <2>5. index'[n] = i /\ \A m \in Nodes \ {n} : index'[m] = index[m]
    BY <1>0
  <2>6. \A j \in 0 .. Len(entries') - 1 : Allocated(j)' =>
          entries'[j + 1] \in Nodes /\ index'[entries'[j + 1]] = j
    <3> SUFFICES ASSUME NEW j \in 0 .. Len(entries') - 1, Allocated(j)'
                 PROVE  entries'[j + 1] \in Nodes /\ index'[entries'[j + 1]] = j
      OBVIOUS
    <3>1. CASE j = i
      BY <2>2, <2>5, <3>1
    <3>2. CASE j # i
      <4>1. j \in 0 .. i - 1 /\ j + 1 \in 1 .. i /\ j # NoIndex
        BY <2>1, <2>2, <3>2 DEF NoIndex
      <4>2. entries[j + 1] \in Nodes /\ index[entries[j + 1]] = j
        BY <2>1, <2>4, <4>1 DEF ActivePoolInv
      <4>3. QED BY <2>2, <2>5, <4>1, <4>2
    <3>3. QED BY <3>1, <3>2
  <2>7. \A m \in Nodes : index'[m] # NoIndex => RefOK(m, index[m])'
    <3> SUFFICES ASSUME NEW m \in Nodes, index'[m] # NoIndex
                 PROVE  /\ index'[m] \in 0 .. Len(entries') - 1
                        /\ index'[m] \notin FreePositions'
                        /\ entries'[index'[m] + 1] = m
      BY DEF RefOK, Allocated
    <3>1. CASE m = n
      BY <2>1, <2>2, <2>3a, <2>5, <3>1
    <3>2. CASE m # n
      <4>1. index'[m] = index[m] /\ Allocated(index[m]) /\ entries[index[m] + 1] = m
        BY <1>1, <2>5, <3>2
      <4>2. index[m] \in 0 .. i - 1 /\ index[m] + 1 \in 1 .. i /\ index[m] \in 0 .. i
        BY <2>1, <2>4, <4>1
      <4>3. QED BY <2>1, <2>2, <2>3a, <4>1, <4>2
    <3>3. QED BY <3>1, <3>2
  <2>8. Len(free') = 0
    BY <1>3, <2>1
  <2>9. ActivePoolInv'
    BY <2>6, <2>7, <2>8 DEF ActivePoolInv
  <2>10. TypePool'
    BY <1>0, <2>1, <2>2 DEF TypePool
  <2>11. QED BY <2>1, <2>9, <2>10
<1>4. QED BY <1>2, <1>3

(* The loop allocates an entry of the pool for each pending node.          *)
LEMMA AllocActivePollerKeeps ==
  ASSUME IInv, AllocActivePoller, UNCHANGED load PROVE IInv'
<1> DEFINE n == Head(pend)
           i == IF free # <<>> THEN free[Len(free)] ELSE Len(entries)
<1>0. /\ Types /\ lpc = "alloc" /\ lpc' = lpc /\ li = 1 /\ pend # <<>>
      /\ pend \in Seq(Nodes) /\ Injective(pend) /\ None \notin Nodes
      /\ index \in [Nodes -> Nat \cup {NoIndex}]
  BY ConstantFacts
     DEF IInv, WaitedInv, AllocInv, DoPollers, AllocActivePoller, Types, TypePend, TypePool
<1>1. /\ Tail(pend) \in Seq(Nodes) /\ n \in Nodes
      /\ In(pend, n) /\ ~In(Tail(pend), n) /\ Injective(Tail(pend))
      /\ \A m \in Nodes : m # n => (In(Tail(pend), m) <=> In(pend, m))
  BY <1>0, VectorTail
<1>2. index[n] = NoIndex
  BY <1>1 DEF IInv, AllocInv
<1>3. ~Allocated(index[n])
  BY <1>0, <1>2 DEF Allocated, NoIndex
<1>4. /\ entries' = IF free # <<>> THEN [entries EXCEPT ![i + 1] = n]
                    ELSE Append(entries, n)
      /\ free' = IF free # <<>> THEN SubSeq(free, 1, Len(free) - 1) ELSE free
      /\ index' = [index EXCEPT ![n] = i]
      /\ UNCHANGED panicked
  BY <1>3 DEF AllocActivePoller
<1>5. /\ pend' = Tail(pend)
      /\ UNCHANGED <<load, word, nActive, eventWait, pendVars, ftVars, lpc, li, act,
                     pollerVars, workVars, txVars, pgVars, interrupts, panicErr>>
  BY DEF AllocActivePoller
<1> HIDE DEF n, i
<1>6. ActivePoolInv' /\ TypePool' /\ i \in Nat
  <2>1. ActivePoolInv /\ TypePool
    BY <1>0 DEF IInv, Types
  <2>2. QED BY <1>0, <1>1, <1>2, <1>4, <2>1, PoolGets DEF i
<1>7. index'[n] = i /\ i # NoIndex /\ \A m \in Nodes \ {n} : index'[m] = index[m]
  BY <1>0, <1>1, <1>4, <1>6 DEF NoIndex
<1>8. TypePend'
  BY <1>0, <1>1, <1>5 DEF Types, TypePend
<1>9. TokenInv' /\ WaitedInv'
  <2>1. \A m \in Nodes : ~Out(m) /\ ~Out(m)'
    BY <1>0, <1>5 DEF Out
  <2>2. TokenInv'
    BY <1>5, <2>1 DEF IInv, TokenInv, InInput
  <2>3. QED BY <1>0, <1>5, <2>2 DEF IInv, WaitedInv
<1>10. AllocInv'
  <2>1. Injective(activePending[sequence])' /\ Injective(pend)'
    BY <1>1, <1>5 DEF IInv, AllocInv, Injective
  <2>2. \A m \in Nodes : /\ In(activePending[sequence], m)' <=> In(activePending[sequence], m)
                         /\ In(pend, m)' <=> In(pend, m) /\ m # n
    <3>1. \A m \in Nodes : In(pend, m)' <=> In(Tail(pend), m)
      BY <1>5 DEF In
    <3>2. QED BY <1>1, <1>5, <3>1 DEF In
  <2>3. \A t \in Threads, m \in Nodes : Asks(t, m)' <=> Asks(t, m)
    BY <1>5 DEF Asks
  <2>4. ASSUME NEW m \in Nodes
        PROVE /\ isPending'[m] <=> In(activePending[sequence], m)'
              /\ word'[m].state # "inactive" <=>
                   \/ \E s \in Threads : Asks(s, m)'
                   \/ isPending'[m]
                   \/ In(pend, m)'
                   \/ index'[m] # NoIndex
              /\ \A s \in Threads : Asks(s, m)' =>
                   /\ ~isPending'[m] /\ ~In(pend, m)' /\ index'[m] = NoIndex
                   /\ \A u \in Threads : Asks(u, m)' => u = s
              /\ isPending'[m] => ~In(pend, m)' /\ index'[m] = NoIndex
              /\ In(pend, m)' => index'[m] = NoIndex
    <3>1. CASE m # n
      BY <1>5, <1>7, <2>2, <2>3, <3>1 DEF IInv, AllocInv
    <3>2. CASE m = n
      BY <1>1, <1>5, <1>7, <2>2, <2>3, <3>2 DEF IInv, AllocInv
    <3>3. QED BY <3>1, <3>2
  <2>5. lpc' = "alloc"
    BY <1>0
  <2>6. QED BY <2>1, <2>4, <2>5 DEF AllocInv
<1>11. SuspendInv'
  <2>1. SuspendCounts'
    BY <1>5 DEF IInv, SuspendInv, SuspendCounts
  <2>2. \A m \in Nodes : /\ txq[m] > 0 => m # n
                         /\ index[m] # NoIndex => index'[m] # NoIndex
    BY <1>2, <1>7 DEF IInv, SuspendInv
  <2>3. QED BY <1>5, <1>7, <2>1, <2>2 DEF IInv, SuspendInv
<1>12. QED
  BY <1>0, <1>4, <1>5, <1>6, <1>8, <1>9, <1>10, <1>11, TypeFrame, Frame
     DEF IInv, Types

(* The poller at the loop's index is given its token when it needs polling. *)
LEMMA StartPollerKeeps ==
  ASSUME IInv, StartPoller, UNCHANGED load PROVE IInv'
<1>0. /\ Types /\ lpc = "poll" /\ li' = li + 1 /\ li \in Nat \ {0}
      /\ li \in 1 .. Len(entries) /\ Len(entries) \in Nat
      /\ isPolling \in [Nodes -> BOOLEAN] /\ toNode \in [Nodes -> {0, 1}]
  <2>1. Types /\ lpc = "poll" /\ li' = li + 1 /\ li <= Len(entries)
    BY DEF IInv, StartPoller
  <2>2. li \in Nat \ {0} /\ li \in 1 .. Len(entries) /\ Len(entries) \in Nat
    BY <2>1, IndexFacts
  <2>3. isPolling \in [Nodes -> BOOLEAN] /\ toNode \in [Nodes -> {0, 1}]
    BY <2>1 DEF Types, TypeChannels
  <2>4. QED BY <2>1, <2>2, <2>3
<1>1. UNCHANGED <<load, word, nActive, eventWait, pendVars, poolVars, fromNode, lpc,
                  pend, act, pollerVars, workVars, txVars, pgVars, interrupts,
                  panicErr, panicked>>
  BY DEF StartPoller
<1>2. TypeCounts'
  BY <1>0, <1>1 DEF Types, TypeCounts
<1>3. \A m \in Nodes : index[m] # NoIndex => index[m] \in Nat
  BY IndexFacts
<1>4. CASE ~Allocated(li - 1)
  <2>1. UNCHANGED <<isPolling, toNode>>
    BY <1>4 DEF StartPoller
  <2>2. \A m \in Nodes : index[m] # NoIndex => index[m] + 1 # li
    <3>1. \A m \in Nodes : index[m] # NoIndex => Allocated(index[m])
      BY IndexFacts
    <3>2. \A m \in Nodes : index[m] # NoIndex /\ index[m] + 1 = li => index[m] = li - 1
      BY <1>0, <1>3
    <3>3. QED BY <1>4, <3>1, <3>2
  <2>3. \A m \in Nodes : Out(m)' <=> Out(m)
    BY <1>0, <1>1, <1>3, <2>1, <2>2 DEF Out
  <2>4. TokenInv'
    BY <1>1, <2>1, <2>3 DEF IInv, TokenInv, InInput
  <2>5. WaitedInv'
    BY <1>0, <1>1 DEF IInv, WaitedInv, DoPollers
  <2>6. QED BY <1>0, <1>1, <1>2, <2>1, <2>4, <2>5, TypeFrame, Frame DEF IInv, Types
<1>5. CASE Allocated(li - 1)
  <2>0. PICK n : n = entries[li]
    OBVIOUS
  <2>1. /\ isPolling' = [isPolling EXCEPT ![n] = NeedsPoll(word[n])]
        /\ IF NeedsPoll(word[n])
           THEN toNode[n] = 0 /\ toNode' = [toNode EXCEPT ![n] = 1]
           ELSE UNCHANGED toNode
    BY <1>5, <2>0 DEF StartPoller
  <2>2. n \in Nodes /\ index[n] = li - 1 /\ li - 1 # NoIndex
    BY <1>0, <1>5, <2>0, IndexFacts DEF NoIndex
  <2>3. \A m \in Nodes \ {n} : index[m] # NoIndex => index[m] # li - 1
    BY <2>2, IndexFacts
  <2>4. NeedsPoll(word[n]) \in BOOLEAN
    BY DEF NeedsPoll
  <2>5. /\ isPolling'[n] <=> NeedsPoll(word[n])
        /\ \A m \in Nodes \ {n} : isPolling'[m] = isPolling[m] /\ toNode'[m] = toNode[m]
        /\ NeedsPoll(word[n]) => toNode'[n] = 1
        /\ ~NeedsPoll(word[n]) => toNode'[n] = toNode[n]
    BY <1>0, <2>1, <2>2
  <2>6. TypeChannels'
    <3>1. isPolling' \in [Nodes -> BOOLEAN]
      BY <1>0, <2>1, <2>4
    <3>2. toNode' \in [Nodes -> {0, 1}]
      BY <1>0, <2>1
    <3>3. QED BY <1>0, <1>1, <3>1, <3>2 DEF Types, TypeChannels
  <2>7. ~Out(n) /\ (Out(n)' <=> NeedsPoll(word[n]))
    <3>1. ~(index[n] + 1 < li) /\ index[n] + 1 < li' /\ index[n] # NoIndex
      BY <1>0, <2>2
    <3>2. QED BY <1>0, <1>1, <2>5, <3>1 DEF Out
  <2>8. \A m \in Nodes \ {n} : Out(m)' <=> Out(m)
    BY <1>0, <1>1, <1>3, <2>3, <2>5 DEF Out
  <2>9. TokenInv'
    <3>1. toNode[n] # 1 /\ ~InInput(n) /\ fromNode[n] = <<>>
      BY <2>2, <2>7 DEF IInv, TokenInv
    <3>2. \A m \in Nodes : InInput(m)' <=> InInput(m)
      BY <1>1 DEF InInput
    <3>3. ASSUME NEW m \in Nodes
          PROVE /\ toNode'[m] = 1 \/ InInput(m)' \/ fromNode'[m] # <<>> <=> Out(m)'
                /\ toNode'[m] = 1 => ~InInput(m)' /\ fromNode'[m] = <<>>
                /\ InInput(m)' => fromNode'[m] = <<>>
      <4>1. CASE m = n
        <5>1. fromNode'[n] = <<>> /\ ~InInput(n)' /\ (toNode'[n] = 1 <=> Out(n)')
          BY <1>1, <2>2, <2>5, <2>7, <3>1, <3>2
        <5>2. QED BY <4>1, <5>1
      <4>2. CASE m # n
        BY <1>1, <2>5, <2>8, <3>2, <4>2 DEF IInv, TokenInv
      <4>3. QED BY <4>1, <4>2
    <3>4. QED BY <3>3 DEF TokenInv
  <2>10. WaitedInv'
    BY <1>0, <1>1 DEF IInv, WaitedInv, DoPollers
  <2>11. SuspendInv'
    <3>1. SuspendCounts'
      BY <1>1 DEF IInv, SuspendInv, SuspendCounts
    <3>2. NeedsPoll(word[n]) => word[n].state # "suspended"
      BY DEF NeedsPoll
    <3>3. QED BY <1>1, <2>5, <3>1, <3>2 DEF IInv, SuspendInv
  <2>12. QED
    BY <1>0, <1>1, <1>2, <2>6, <2>9, <2>10, <2>11, TypeFrame, Frame DEF IInv, Types
<1>6. QED BY <1>4, <1>5

(* The token of the poller waited for is taken back.                       *)
LEMMA WaitPollerKeeps ==
  ASSUME IInv, WaitPoller, UNCHANGED load PROVE IInv'
<1>a. PICK n : n = entries[li]
  OBVIOUS
<1>0. /\ Types /\ lpc = "wait" /\ Free(Loop) /\ li \in 1 .. Len(entries)
      /\ Allocated(li - 1) /\ isPolling[n] /\ fromNode[n] # <<>>
      /\ fromNode' = [fromNode EXCEPT ![n] = <<>>]
      /\ lpc' = IF fromNode[n] = <<TRUE>> THEN "clearDone" ELSE "clearResume"
      /\ Len(entries) \in Nat
      /\ fromNode \in [Nodes -> {<<>>, <<TRUE>>, <<FALSE>>}]
  <2>1. /\ Types /\ lpc = "wait" /\ li <= Len(entries)
        /\ Allocated(li - 1) /\ isPolling[n] /\ fromNode[n] # <<>>
        /\ fromNode' = [fromNode EXCEPT ![n] = <<>>]
        /\ lpc' = IF fromNode[n] = <<TRUE>> THEN "clearDone" ELSE "clearResume"
    BY <1>a DEF IInv, WaitPoller, Started, Answered
  <2>2. li \in 1 .. Len(entries) /\ Len(entries) \in Nat
    BY <2>1, IndexFacts
  <2>3. Free(Loop) /\ fromNode \in [Nodes -> {<<>>, <<TRUE>>, <<FALSE>>}]
    BY <2>1 DEF IInv, FreeInv, Types, TypeChannels
  <2>4. QED BY <2>1, <2>2, <2>3
<1>1. n \in Nodes /\ index[n] = li - 1 /\ li - 1 # NoIndex /\ li \in Nat
  BY <1>a, <1>0, IndexFacts DEF NoIndex
<1>2. \A m \in Nodes \ {n} : index[m] # NoIndex => index[m] # li - 1 /\ index[m] \in Nat
  BY <1>1, IndexFacts
<1>3. UNCHANGED <<load, word, nActive, eventWait, pendVars, poolVars, isPolling,
                  toNode, li, pend, act, pollerVars, workVars, txVars, pgVars,
                  interrupts, panicErr, panicked>>
  BY DEF WaitPoller
<1>4. fromNode'[n] = <<>> /\ \A m \in Nodes \ {n} : fromNode'[m] = fromNode[m]
  BY <1>0, <1>1
<1>5. TypeChannels'
  <2>1. fromNode' \in [Nodes -> {<<>>, <<TRUE>>, <<FALSE>>}]
    BY <1>0
  <2>2. QED BY <1>0, <1>3, <2>1 DEF Types, TypeChannels
<1>6. TypeLoop' /\ WakeInv'
  <2>1. lpc' \in {"clearDone", "clearResume"}
    BY <1>0
  <2>2. TypeLoop'
    BY <1>0, <1>3, <2>1 DEF Types, TypeLoop
  <2>3. QED BY <1>3, <2>1, <2>2 DEF IInv, WakeInv
<1>7. ~Out(n)' /\ \A m \in Nodes \ {n} : Out(m)' <=> Out(m)
  <2>1. ~(index[n] + 1 > li)
    BY <1>1
  <2>2. \A m \in Nodes \ {n} : index[m] # NoIndex =>
          (index[m] + 1 > li <=> index[m] + 1 >= li)
    BY <1>1, <1>2
  <2>3. lpc = "wait" /\ lpc' \in {"clearDone", "clearResume"}
    BY <1>0
  <2>4. UNCHANGED <<index, isPolling, li>>
    BY <1>3
  <2>5. QED BY <1>1, <2>1, <2>2, <2>3, <2>4 DEF Out
<1>8. TokenInv'
  <2>1. toNode[n] # 1 /\ ~InInput(n)
    BY <1>0, <1>1 DEF IInv, TokenInv
  <2>2. \A m \in Nodes : InInput(m)' <=> InInput(m)
    BY <1>3 DEF InInput
  <2>3. ASSUME NEW m \in Nodes
        PROVE /\ toNode'[m] = 1 \/ InInput(m)' \/ fromNode'[m] # <<>> <=> Out(m)'
              /\ toNode'[m] = 1 => ~InInput(m)' /\ fromNode'[m] = <<>>
              /\ InInput(m)' => fromNode'[m] = <<>>
    <3>1. CASE m = n
      <4>1. fromNode'[n] = <<>> /\ ~InInput(n)' /\ toNode'[n] # 1 /\ ~Out(n)'
        BY <1>1, <1>3, <1>4, <1>7, <2>1, <2>2
      <4>2. QED BY <3>1, <4>1
    <3>2. CASE m # n
      BY <1>3, <1>4, <1>7, <2>2, <3>2 DEF IInv, TokenInv
    <3>3. QED BY <3>1, <3>2
  <2>4. QED BY <2>3 DEF TokenInv
<1>9. WaitedInv'
  <2>1. Allocated(li - 1)'
    BY <1>0, <1>3 DEF Allocated, FreePositions
  <2>2. lpc' \in {"clearDone", "free"} => ppc'[entries'[li']] \in {"wait", "dead"}
    BY <1>a, <1>0, <1>1, <1>3 DEF IInv, WaitedInv
  <2>3. \A m \in Nodes : /\ fromNode'[m] = <<TRUE>> => ppc'[m] \in {"wait", "dead"}
                         /\ fromNode'[m] = <<FALSE>> => ppc'[m] = "suspended"
    BY <1>3, <1>4, Answers DEF IInv, WaitedInv
  <2>4. lpc' \in DoPollers
    BY <1>0 DEF DoPollers
  <2>5. QED BY <1>0, <1>3, <2>1, <2>2, <2>3, <2>4 DEF WaitedInv
<1>10. FreeInv'
  BY <1>0, <1>3 DEF IInv, FreeInv, Free
<1>11. AllocInv'
  BY <1>0, <1>3 DEF IInv, AllocInv, Injective, In, Asks
<1>12. QED
  BY <1>0, <1>3, <1>5, <1>6, <1>8, <1>9, <1>10, <1>11, TypeFrame, Frame
     DEF IInv, Types

(* The decrement that maybeClearResume makes is the change of the word it  *)
(* changed.                                                                *)
LEMMA ClearedIsChange ==
  ASSUME NEW w \in Words, NEW x \in Words, w.state = "resumed", x.state = "active",
         x.active = w.active
  PROVE  Change(w, x) = ClearedChange(w)
<1>1. w.active \in Nat
  BY DEF Words
<1>2. w.active > 0 => (NeedsPoll(w) = NeedsPoll(x))
  BY DEF NeedsPoll
<1>3. w.active = 0 => NeedsPoll(w) # NeedsPoll(x) /\ ~NeedsPoll(x)
  BY DEF NeedsPoll
<1>4. QED BY <1>1, <1>2, <1>3 DEF Change, ClearedChange

(* maybeClearResume: a resumed poller becomes active, and inactive ones    *)
(* leave the count.                                                        *)
LEMMA MaybeClearResumeKeeps ==
  ASSUME IInv, MaybeClearResume, UNCHANGED load PROVE IInv'
<1>a. PICK n : n = entries[li]
  OBVIOUS
<1>0. /\ Types /\ lpc \in {"clearDone", "clearResume"} /\ Free(Loop)
      /\ lpc' = (IF lpc = "clearDone" THEN "free" ELSE "next")
      /\ li \in 1 .. Len(entries) /\ Allocated(li - 1) /\ Loop \in Threads
  BY ThreadFacts DEF IInv, FreeInv, WaitedInv, MaybeClearResume
<1>1. n \in Nodes
  BY <1>a, <1>0, IndexFacts
<1>2. UNCHANGED <<load, nActive, eventWait, pendVars, poolVars, ftVars, li, pend,
                  pollerVars, workVars, txVars, pgVars, interrupts, panicErr,
                  panicked>>
  BY DEF MaybeClearResume
<1>3. word[n] \in Words /\ act[Loop] \in Acts
  BY <1>0, <1>1 DEF Types, TypeWords
<1>4. /\ TypeWords' /\ NeverUndercounted'
      /\ \A m \in Nodes : /\ word'[m].active = word[m].active
                          /\ word'[m].suspend = word[m].suspend
                          /\ word'[m].state = "suspended" <=> word[m].state = "suspended"
                          /\ word'[m].state = "inactive" <=> word[m].state = "inactive"
      /\ \A t \in Threads : act'[t].wake = act[t].wake /\ act'[t].alloc = act[t].alloc
                            /\ act'[t].node = act[t].node
      /\ \A t \in Threads \ {Loop} : act'[t] = act[t]
  <2>1. CASE word[n].state # "resumed"
    <3>1. UNCHANGED <<word, act>>
      BY <1>a, <2>1 DEF MaybeClearResume
    <3>2. QED BY <1>0, <1>2, <3>1, TypeFrame, Frame DEF IInv, Types
  <2>2. CASE word[n].state = "resumed"
    <3>1. /\ word' = [word EXCEPT ![n].state = "active"]
          /\ act' = [act EXCEPT ![Loop].delta = ClearedChange(word[n])]
      BY <1>a, <2>2 DEF MaybeClearResume
    <3>2. /\ word'[n] = [word[n] EXCEPT !.state = "active"]
          /\ \A m \in Nodes \ {n} : word'[m] = word[m]
          /\ act'[Loop] = [act[Loop] EXCEPT !.delta = ClearedChange(word[n])]
          /\ \A t \in Threads \ {Loop} : act'[t] = act[t]
      BY <1>0, <1>1, <3>1 DEF Types, TypeWords
    <3>3. /\ word'[n].active = word[n].active /\ word'[n].suspend = word[n].suspend
          /\ word'[n].state = "active" /\ word'[n] \in Words
      BY <1>3, <3>2 DEF Words
    <3>4. ClearedChange(word[n]) \in -1 .. 1
      BY DEF ClearedChange
    <3>5. /\ act'[Loop].delta = ClearedChange(word[n])
          /\ act'[Loop].wake = act[Loop].wake /\ act'[Loop].alloc = act[Loop].alloc
          /\ act'[Loop].node = act[Loop].node
      BY <1>3, <3>2 DEF Acts
    <3>6. act'[Loop] \in Acts
      BY <1>3, <3>2, <3>4 DEF Acts
    <3>7. TypeWords'
      BY <1>0, <3>1, <3>2, <3>3, <3>6 DEF Types, TypeWords
    <3>8. NeverUndercounted'
      <4>1. Change(word[n], word'[n]) = ClearedChange(word[n])
        BY <1>3, <2>2, <3>3, ClearedIsChange
      <4>2. NeverUndercounted /\ nActive \in Nat /\ UNCHANGED nActive /\ act[Loop].delta = 0
        BY <1>0, <1>2, ActiveCount DEF IInv, Free
      <4>3. \A s \in Threads \ {Loop} : act'[s].delta = act[s].delta
        BY <3>2
      <4>4. act'[Loop].delta = Change(word[n], word'[n])
        BY <3>5, <4>1
      <4>5. \A m \in Nodes \ {n} : word'[m] = word[m]
        BY <3>2
      <4>6. Loop \in Threads
        BY <1>0
      <4>7. QED BY <1>1, <4>2, <4>3, <4>4, <4>5, <4>6, CountKept
    <3>9. QED BY <2>2, <3>2, <3>3, <3>5, <3>7, <3>8
  <2>3. QED BY <2>1, <2>2
<1>5. TypeLoop'
  BY <1>0, <1>2 DEF Types, TypeLoop
<1>6. WakeInv'
  BY <1>0, <1>2 DEF IInv, WakeInv
<1>7. WorkInv'
  BY <1>2, <1>4 DEF IInv, WorkInv
<1>8. FreeInv'
  <2>1. \A m \in Nodes : Free(<<"poll", m>>) => Free(<<"poll", m>>)'
    BY <1>4, ThreadFacts DEF Free
  <2>2. \A t \in Threads : act'[t].delta # 0 => ~act'[t].wake
    BY <1>0, <1>4 DEF IInv, FreeInv, Free
  <2>3. lpc' \in {"free", "next"}
    BY <1>0
  <2>4. QED BY <1>2, <1>4, <2>1, <2>2, <2>3 DEF IInv, FreeInv
<1>9. TokenInv'
  <2>1. lpc' \in {"free", "next"}
    BY <1>0
  <2>2. \A m \in Nodes : Out(m)' <=> Out(m)
    BY <1>0, <1>2, <2>1 DEF Out
  <2>3. QED BY <1>2, <2>2 DEF IInv, TokenInv, InInput
<1>10. WaitedInv'
  <2>1. Allocated(li - 1)'
    BY <1>0, <1>2 DEF Allocated, FreePositions
  <2>2. lpc' \in DoPollers /\ lpc' \in {"free", "next"} /\ (lpc' = "free" => lpc = "clearDone")
    BY <1>0 DEF DoPollers
  <2>3. QED BY <1>0, <1>2, <2>1, <2>2 DEF IInv, WaitedInv
<1>11. AllocInv'
  <2>1. \A t \in Threads, m \in Nodes : Asks(t, m)' <=> Asks(t, m)
    BY <1>4 DEF Asks
  <2>2. lpc' \in {"free", "next"} /\ pend = <<>>
    BY <1>0 DEF IInv, AllocInv
  <2>3. QED BY <1>2, <1>4, <2>1, <2>2 DEF IInv, AllocInv, Injective, In
<1>12. SuspendInv'
  <2>1. SuspendCounts'
    BY <1>2, <1>4 DEF IInv, SuspendInv, SuspendCounts
  <2>2. QED BY <1>2, <1>4, <2>1 DEF IInv, SuspendInv
<1>13. QED
  BY <1>0, <1>2, <1>4, <1>5, <1>6, <1>7, <1>8, <1>9, <1>10, <1>11, <1>12, TypeFrame,
     Frame DEF IInv, Types

(* The pool with the index of one node freed.                              *)
LEMMA PoolPuts ==
  ASSUME ActivePoolInv, TypePool, NEW n \in Nodes, NEW i \in Nat, index[n] = i,
         Allocated(i), entries[i + 1] = n,
         entries' = [entries EXCEPT ![i + 1] = None],
         free' = Append(free, i),
         index' = [index EXCEPT ![n] = NoIndex]
  PROVE  ActivePoolInv' /\ TypePool'
<1>0. /\ entries \in Seq(Nodes \cup {None}) /\ free \in Seq(Nat)
      /\ index \in [Nodes -> Nat \cup {NoIndex}]
      /\ Len(entries) \in Nat /\ Len(free) \in Nat
  BY DEF TypePool
<1>1. i \in 0 .. Len(entries) - 1 /\ i \notin FreePositions
  BY DEF Allocated
<1>2. /\ entries' \in Seq(Nodes \cup {None}) /\ Len(entries') = Len(entries)
      /\ \A k \in 1 .. Len(entries) : k # i + 1 => entries'[k] = entries[k]
  BY <1>0, <1>1
<1>3. /\ free' \in Seq(Nat) /\ Len(free') = Len(free) + 1
      /\ free'[Len(free) + 1] = i
      /\ \A k \in 1 .. Len(free) : free'[k] = free[k]
  BY <1>0
<1>4. \A k \in 1 .. Len(free) : free[k] # i
  BY <1>1 DEF FreePositions
<1>5. \A j : j \in FreePositions' <=> j \in FreePositions \/ j = i
  <2>1. FreePositions' = {free'[k] : k \in 1 .. Len(free) + 1}
    BY <1>3 DEF FreePositions
  <2>2. ASSUME NEW j, j \in FreePositions' PROVE j \in FreePositions \/ j = i
    <3>1. PICK k \in 1 .. Len(free) + 1 : j = free'[k]
      BY <2>1, <2>2
    <3>2. CASE k = Len(free) + 1
      BY <1>3, <3>1, <3>2
    <3>3. CASE k # Len(free) + 1
      <4>1. k \in 1 .. Len(free)
        BY <1>0, <3>1, <3>3
      <4>2. QED BY <1>3, <3>1, <4>1 DEF FreePositions
    <3>4. QED BY <3>2, <3>3
  <2>3. ASSUME NEW j, j \in FreePositions \/ j = i PROVE j \in FreePositions'
    <3>1. CASE j = i
      <4>1. Len(free) + 1 \in 1 .. Len(free) + 1
        BY <1>0
      <4>2. QED BY <1>3, <2>1, <3>1, <4>1
    <3>2. CASE j \in FreePositions
      <4>1. PICK k \in 1 .. Len(free) : j = free[k]
        BY <3>2 DEF FreePositions
      <4>2. k \in 1 .. Len(free) + 1
        BY <1>0, <4>1
      <4>3. QED BY <1>3, <2>1, <4>1, <4>2
    <3>3. QED BY <2>3, <3>1, <3>2
  <2>4. QED BY <2>2, <2>3
<1>6. \A j : Allocated(j)' <=> Allocated(j) /\ j # i
  BY <1>2, <1>5 DEF Allocated
<1>7. index'[n] = NoIndex /\ \A m \in Nodes \ {n} : index'[m] = index[m]
  BY <1>0
<1>8. \A j \in 0 .. Len(entries') - 1 : Allocated(j)' =>
        entries'[j + 1] \in Nodes /\ index'[entries'[j + 1]] = j
  <2> SUFFICES ASSUME NEW j \in 0 .. Len(entries') - 1, Allocated(j)'
               PROVE  entries'[j + 1] \in Nodes /\ index'[entries'[j + 1]] = j
    OBVIOUS
  <2>1. Allocated(j) /\ j # i /\ j \in 0 .. Len(entries) - 1
    BY <1>2, <1>6
  <2>2. entries[j + 1] \in Nodes /\ index[entries[j + 1]] = j
    BY <2>1 DEF ActivePoolInv
  <2>3. entries'[j + 1] = entries[j + 1]
    BY <1>0, <1>2, <2>1
  <2>4. QED BY <1>7, <2>1, <2>2, <2>3
<1>9. \A m \in Nodes : index'[m] # NoIndex => RefOK(m, index[m])'
  <2> SUFFICES ASSUME NEW m \in Nodes, index'[m] # NoIndex
               PROVE  /\ index'[m] \in 0 .. Len(entries') - 1
                      /\ index'[m] \notin FreePositions'
                      /\ entries'[index'[m] + 1] = m
    BY DEF RefOK, Allocated
  <2>1. m # n /\ index'[m] = index[m]
    BY <1>7
  <2>2. Allocated(index[m]) /\ entries[index[m] + 1] = m
    BY <2>1 DEF ActivePoolInv, RefOK
  <2>3. index[m] # i /\ index[m] \in 0 .. Len(entries) - 1 /\ index[m] \notin FreePositions
    BY <2>1, <2>2 DEF Allocated
  <2>4. QED BY <1>0, <1>2, <1>5, <2>1, <2>2, <2>3
<1>10. /\ \A k \in 1 .. Len(free') : free'[k] \in 0 .. Len(entries') - 1
       /\ \A j, k \in 1 .. Len(free') : free'[j] = free'[k] => j = k
  <2>1. \A k \in 1 .. Len(free') : k = Len(free) + 1 \/ k \in 1 .. Len(free)
    BY <1>0, <1>3
  <2>2. QED BY <1>1, <1>2, <1>3, <1>4, <2>1 DEF ActivePoolInv
<1>11. ActivePoolInv'
  BY <1>8, <1>9, <1>10 DEF ActivePoolInv
<1>12. TypePool'
  BY <1>0, <1>2, <1>3 DEF TypePool
<1>13. QED BY <1>11, <1>12

(* A node that no longer needs polling only makes the count too large.     *)
LEMMA CountDropped ==
  ASSUME NeverUndercounted, nActive \in Nat, UNCHANGED <<nActive, act>>,
         \A m \in Nodes : NeedsPoll(word'[m]) => NeedsPoll(word[m])
  PROVE  NeverUndercounted'
<1> DEFINE D(d) == {s \in Threads : act[s].delta = d}
           N == {m \in Nodes : NeedsPoll(word[m])}
<1>1. nActive + Cardinality(D(1)) - Cardinality(D(-1)) >= Cardinality(N)
  BY DEF NeverUndercounted, Deltas, Needing
<1>2. SUFFICES nActive + Cardinality(D(1)) - Cardinality(D(-1)) >= Cardinality(N')
  BY DEF NeverUndercounted, Deltas, Needing
<1>3. IsFiniteSet(N) /\ IsFiniteSet(D(1)) /\ IsFiniteSet(D(-1)) /\ N' \subseteq N
  BY ConstantFacts, ThreadsFinite, FS_Subset
<1> HIDE DEF D, N
<1>4. /\ Cardinality(N') <= Cardinality(N) /\ Cardinality(N) \in Nat
      /\ Cardinality(N') \in Nat
      /\ Cardinality(D(1)) \in Nat /\ Cardinality(D(-1)) \in Nat
  BY <1>3, FS_Subset, FS_CardinalityType
<1>5. QED BY <1>1, <1>4

(* A poller without activity frees its entry and becomes inactive.         *)
LEMMA MaybeFreeActiveKeeps ==
  ASSUME IInv, MaybeFreeActive, UNCHANGED load PROVE IInv'
<1>a. PICK n : n = entries[li]
  OBVIOUS
<1>0. /\ Types /\ lpc = "free" /\ lpc' = "next" /\ Free(Loop)
      /\ li \in 1 .. Len(entries) /\ Allocated(li - 1)
      /\ ppc[n] \in {"wait", "dead"}
  BY <1>a DEF IInv, WaitedInv, MaybeFreeActive
<1>1. n \in Nodes /\ index[n] = li - 1 /\ li - 1 \in Nat /\ li - 1 # NoIndex /\ li \in Nat
  BY <1>a, <1>0, IndexFacts DEF NoIndex
<1>2. UNCHANGED <<load, nActive, eventWait, pendVars, ftVars, li, pend, act,
                  pollerVars, workVars, txVars, pgVars, interrupts, panicErr,
                  panicked>>
  BY DEF MaybeFreeActive
<1>3. TypeLoop' /\ WakeInv'
  <2>1. TypeLoop'
    BY <1>0, <1>2 DEF Types, TypeLoop
  <2>2. QED BY <1>0, <1>2, <2>1 DEF IInv, WakeInv
<1>4. FreeInv' /\ WaitedInv'
  <2>1. FreeInv'
    BY <1>0, <1>2 DEF IInv, FreeInv, Free
  <2>2. QED BY <1>0, <1>2, <2>1 DEF IInv, WaitedInv, DoPollers
<1>5. ~Out(n)
  BY <1>0, <1>1 DEF Out
<1>6. CASE ~MayFree(word[n])
  <2>1. UNCHANGED <<word, poolVars>>
    BY <1>a, <1>6 DEF MaybeFreeActive
  <2>2. \A m \in Nodes : Out(m)' <=> Out(m)
    BY <1>0, <1>2, <2>1 DEF Out
  <2>3. TokenInv'
    BY <1>2, <2>2 DEF IInv, TokenInv, InInput
  <2>4. AllocInv'
    BY <1>0, <1>2, <2>1 DEF IInv, AllocInv, Injective, In, Asks
  <2>5. QED
    BY <1>0, <1>2, <1>3, <1>4, <2>1, <2>3, <2>4, TypeFrame, Frame DEF IInv, Types
<1>7. CASE MayFree(word[n])
  <2>1. /\ word' = [word EXCEPT ![n] = [active |-> 0, suspend |-> 0,
                                        state |-> "inactive"]]
        /\ entries' = [entries EXCEPT ![li] = None]
        /\ free' = Append(free, index[n])
        /\ index' = [index EXCEPT ![n] = NoIndex]
    BY <1>a, <1>7 DEF MaybeFreeActive
  <2>2. /\ word[n].state # "suspended" /\ word[n].active = 0 /\ word[n].suspend = 0
        /\ word \in [Nodes -> Words] /\ SuspendLimit \in Nat
        /\ index \in [Nodes -> Nat \cup {NoIndex}]
    BY <1>0, <1>7, ConstantFacts DEF MayFree, Types, TypeWords, TypePool
  <2>3. /\ word'[n] = [active |-> 0, suspend |-> 0, state |-> "inactive"]
        /\ \A m \in Nodes \ {n} : word'[m] = word[m]
        /\ index'[n] = NoIndex /\ \A m \in Nodes \ {n} : index'[m] = index[m]
    BY <1>1, <2>1, <2>2
  <2>4. TypeWords'
    <3>1. [active |-> 0, suspend |-> 0, state |-> "inactive"] \in Words
      BY <2>2 DEF Words
    <3>2. word' \in [Nodes -> Words]
      BY <2>1, <2>2, <3>1
    <3>3. QED BY <1>0, <1>2, <3>2 DEF Types, TypeWords
  <2>5. ActivePoolInv' /\ TypePool'
    <3>1. PICK i : i = li - 1
      OBVIOUS
    <3>2. i + 1 = li /\ i \in Nat
      BY <1>1, <3>1
    <3>3. /\ ActivePoolInv /\ TypePool /\ index[n] = i /\ Allocated(i)
          /\ entries[i + 1] = n /\ entries' = [entries EXCEPT ![i + 1] = None]
          /\ free' = Append(free, i)
      BY <1>a, <1>0, <1>1, <2>1, <3>1, <3>2 DEF IInv, Types
    <3>4. QED BY <1>1, <2>1, <3>2, <3>3, PoolPuts
  <2>6. WorkInv'
    BY <1>2, <2>2, <2>3 DEF IInv, WorkInv
  <2>7. TokenInv'
    <3>1. ~Out(n)'
      BY <2>3 DEF Out
    <3>2. \A m \in Nodes \ {n} : Out(m)' <=> Out(m)
      BY <1>0, <1>2, <2>3 DEF Out
    <3>3. \A m \in Nodes : Out(m)' <=> Out(m)
      BY <1>5, <3>1, <3>2
    <3>4. QED BY <1>2, <3>3 DEF IInv, TokenInv, InInput
  <2>8. AllocInv'
    <3>1. \A t \in Threads, m \in Nodes : Asks(t, m)' <=> Asks(t, m)
      BY <1>2 DEF Asks
    <3>2. \A m \in Nodes : /\ In(activePending[sequence], m)' <=> In(activePending[sequence], m)
                           /\ In(pend, m)' <=> In(pend, m)
      BY <1>2 DEF In
    <3>3. Injective(activePending[sequence])' /\ Injective(pend)' /\ pend' = <<>>
      BY <1>0, <1>2 DEF IInv, AllocInv, Injective
    <3>4. (\A t \in Threads : ~Asks(t, n)) /\ ~isPending[n] /\ ~In(pend, n)
      BY <1>1 DEF IInv, AllocInv
    <3>5. word'[n].state = "inactive"
      BY <2>3
    <3>6. ASSUME NEW m \in Nodes
          PROVE /\ isPending'[m] <=> In(activePending[sequence], m)'
                /\ word'[m].state # "inactive" <=>
                     \/ \E s \in Threads : Asks(s, m)'
                     \/ isPending'[m]
                     \/ In(pend, m)'
                     \/ index'[m] # NoIndex
                /\ \A s \in Threads : Asks(s, m)' =>
                     /\ ~isPending'[m] /\ ~In(pend, m)' /\ index'[m] = NoIndex
                     /\ \A u \in Threads : Asks(u, m)' => u = s
                /\ isPending'[m] => ~In(pend, m)' /\ index'[m] = NoIndex
                /\ In(pend, m)' => index'[m] = NoIndex
      <4>1. CASE m # n
        BY <1>2, <2>3, <3>1, <3>2, <4>1 DEF IInv, AllocInv
      <4>2. CASE m = n
        BY <1>2, <2>3, <3>1, <3>2, <3>4, <3>5, <4>2 DEF IInv, AllocInv
      <4>3. QED BY <4>1, <4>2
    <3>7. QED BY <3>3, <3>6 DEF AllocInv
  <2>9. SuspendInv'
    <3>1. txq[n] = 0
      BY <1>0, <1>1, <2>2, LoadFacts DEF IInv, SuspendInv, SuspendCounts
    <3>2. /\ word'[n].suspend = 0 /\ word'[n].active = 0 /\ word'[n].state = "inactive"
          /\ ppc[n] # "send" /\ ppc[n] # "suspended"
      BY <1>0, <2>3
    <3>3. SuspendCounts'
      BY <1>2, <2>2, <2>3, <3>1, <3>2 DEF IInv, SuspendInv, SuspendCounts
    <3>4. QED BY <1>2, <2>3, <3>1, <3>2, <3>3 DEF IInv, SuspendInv
  <2>10. NeverUndercounted'
    <3>1. ~NeedsPoll(word'[n])
      BY <2>3 DEF NeedsPoll
    <3>2. \A m \in Nodes : NeedsPoll(word'[m]) => NeedsPoll(word[m])
      BY <2>3, <3>1
    <3>3. NeverUndercounted /\ nActive \in Nat /\ UNCHANGED <<nActive, act>>
      BY <1>2, ActiveCount DEF IInv
    <3>4. QED BY <3>2, <3>3, CountDropped
  <2>11. QED
    BY <1>0, <1>2, <1>3, <1>4, <2>4, <2>5, <2>6, <2>7, <2>8, <2>9, <2>10, TypeFrame,
       Frame DEF IInv, Types
<1>8. QED BY <1>6, <1>7
-----------------------------------------------------------------------------
LEMMA IInvInit == Init => IInv
<1> SUFFICES ASSUME Init PROVE IInv
  OBVIOUS
<1>0. /\ SuspendLimit \in Nat /\ LoopNodes \in Nat /\ VectorLen \in Nat
      /\ IsFiniteSet(Nodes)
  BY ConstantFacts
<1>1. /\ \A n \in Nodes : /\ word[n].active = 0 /\ word[n].suspend = 0
                          /\ word[n].state = "inactive"
      /\ \A t \in Threads : /\ act[t].node = None /\ act[t].delta = 0
                            /\ act[t].wake = FALSE /\ act[t].alloc = FALSE
  BY DEF Init, Quiet
<1>2. Types
  <2>1. TypeWords
    <3>1. [active |-> 0, suspend |-> 0, state |-> "inactive"] \in Words
      BY <1>0 DEF Words
    <3>2. Quiet \in Acts
      BY DEF Quiet, Acts
    <3>3. QED BY <3>1, <3>2 DEF Init, TypeWords
  <2>2. TypeCounts
    BY <1>0 DEF Init, TypeCounts
  <2>3. TypeLoop
    BY DEF Init, TypeLoop
  <2>4. TypePend
    BY DEF Init, TypePend
  <2>5. TypePool
    BY DEF Init, TypePool
  <2>6. TypeChannels
    BY DEF Init, TypeChannels
  <2>7. TypePollers
    BY <1>0 DEF Init, TypePollers
  <2>8. TypeWork
    BY DEF Init, TypeWork
  <2>9. TypePg
    BY DEF Init, TypePg
  <2>10. QED BY <2>1, <2>2, <2>3, <2>4, <2>5, <2>6, <2>7, <2>8, <2>9 DEF Types
<1>3. WorkInv
  BY <1>1 DEF Init, WorkInv
<1>4. TimedInv
  BY DEF Init, TimedInv
<1>5. FreeInv
  BY <1>1, ThreadFacts DEF Init, FreeInv, Free
<1>6. TokenInv
  BY DEF Init, TokenInv, Out, InInput
<1>7. ActivePoolInv
  BY DEF Init, ActivePoolInv, Allocated
<1>8. WaitedInv
  BY Answers DEF Init, WaitedInv, DoPollers
<1>9. AllocInv
  <2>1. sequence = 0 /\ activePending[sequence] = <<>> /\ pend = <<>> /\ lpc = "top"
    BY DEF Init
  <2>2. \A n \in Nodes : ~isPending[n] /\ index[n] = NoIndex
    BY DEF Init
  <2>3. \A n \in Nodes, t \in Threads : ~Asks(t, n)
    BY <1>1 DEF Asks
  <2>4. QED BY <1>1, <2>1, <2>2, <2>3, VectorEmpty DEF AllocInv
<1>10. SuspendInv
  BY <1>0, <1>1 DEF Init, SuspendInv, SuspendCounts
<1>11. NeverUndercounted
  <2>1. {t \in Threads : act[t].delta = 1} = {} /\ {t \in Threads : act[t].delta = -1} = {}
    BY <1>1
  <2>2. \A n \in Nodes : ~NeedsPoll(word[n])
    BY <1>1 DEF NeedsPoll
  <2>3. {n \in Nodes : NeedsPoll(word[n])} = {}
    BY <2>2
  <2>4. Deltas(1) = 0 /\ Deltas(-1) = 0 /\ Cardinality(Needing) = 0
    BY <2>1, <2>3, FS_EmptySet DEF Deltas, Needing
  <2>5. QED BY <2>4 DEF Init, NeverUndercounted
<1>12. WakeInv /\ AllocatedOnce /\ load \in Loads
  BY DEF Init, WakeInv, AllocatedOnce
<1>13. QED
  BY <1>2, <1>3, <1>4, <1>5, <1>6, <1>7, <1>8, <1>9, <1>10, <1>11, <1>12 DEF IInv

(* Every step keeps the inductive invariant.                               *)
LEMMA IInvStep == IInv /\ [Next]_vars => IInv'
<1> SUFFICES ASSUME IInv, [Next]_vars PROVE IInv'
  OBVIOUS
<1>1. CASE UNCHANGED vars
  <2>1. Types /\ load' = load
    BY <1>1 DEF IInv, vars
  <2>2. QED BY <1>1, <2>1, TypeFrame, Frame DEF IInv, Types, vars
<1>2. CASE Step /\ UNCHANGED load
  <2>1. ASSUME NEW t \in Threads, Finish(t) PROVE IInv'
    BY <1>2, <2>1, ChangeActiveKeeps, InterruptKeeps, AddPendingKeeps DEF Finish
  <2>2. ASSUME NEW n \in Nodes, Produce(n) PROVE IInv'
    BY <1>2, <2>2, ReadReadyKeeps, SendInputKeeps, PacketInRingKeeps,
       DeviceInterruptKeeps DEF Produce
  <2>3. ASSUME NEW n \in Nodes, Enable(n) PROVE IInv'
    BY <1>2, <2>3, EnableKeeps
  <2>4. ASSUME NEW n \in Nodes, DataPoll(n) PROVE IInv'
    BY <1>2, <2>4, WaitLoopKeeps, RxInputKeeps, IrqInputKeeps, PgInputKeeps,
       AddSuspendActivityKeeps, SendKeeps, SignalSuspendedKeeps, ContinueKeeps,
       SignalLoopKeeps DEF DataPoll
  <2>5. ASSUME NEW n \in Nodes, PanicPoller(n) PROVE IInv'
    BY <1>2, <2>5, SignalLoopKeeps
  <2>6. ASSUME NEW n \in Nodes, TxDone(n) PROVE IInv'
    BY <1>2, <2>6, TxDoneKeeps
  <2>7. CASE LoopStep
    BY <1>2, <2>7, SetEventWaitKeeps, WakeKeeps, ClearEventWaitKeeps,
       ActivateEventKeeps, GetAllocPendingKeeps, AllocActivePollerKeeps,
       AllAllocatedKeeps, StartPollerKeeps, AllStartedKeeps, WaitPollerKeeps,
       SkipPollerKeeps, MaybeClearResumeKeeps, MaybeFreeActiveKeeps,
       NextPollerKeeps, AllWaitedKeeps DEF LoopStep
  <2>8. QED BY <1>2, <2>1, <2>2, <2>3, <2>4, <2>5, <2>6, <2>7 DEF Step
<1>3. QED BY <1>1, <1>2 DEF Next, Go, Asleep, Exited

-----------------------------------------------------------------------------
(* What the invariant says in the words of Poller's properties.            *)
LEMMA IInvImplies ==
  ASSUME IInv
  PROVE  /\ TypeOK /\ SuspendCounts /\ RefsStayValid /\ AllocatedOnce
         /\ PollOnlyInDoPollers /\ NeverUndercounted /\ NoLostWakeup
         /\ NeedyIsListed
<1>1. TypeOK /\ SuspendCounts /\ AllocatedOnce /\ NeverUndercounted
  BY TypeParts DEF IInv, SuspendInv
<1>2. PollOnlyInDoPollers
  <2>1. \A n \in Nodes : InInput(n) => Out(n)
    BY DEF IInv, TokenInv
  <2>2. \A n \in Nodes : Out(n) => lpc \in {"poll", "wait", "clearDone",
                                            "clearResume", "free", "next"}
    BY DEF Out
  <2>3. QED BY <2>1, <2>2 DEF PollOnlyInDoPollers
<1>3. RefsStayValid
  <2>1. ASSUME NEW n \in Nodes, txq[n] > 0 PROVE RefOK(n, txIndex[n])
    BY <2>1 DEF IInv, SuspendInv, ActivePoolInv
  <2>2. ASSUME NEW n \in Nodes, ppc[n] = "send" PROVE RefOK(n, index[n])
    BY <2>2, InInputFacts DEF InInput
  <2>3. QED BY <2>1, <2>2 DEF RefsStayValid
<1>4. NoLostWakeup
  <2> SUFFICES ASSUME lpc = "sleep", Needing # {}
               PROVE  \/ interrupts > 0
                      \/ \E t \in Threads : act[t].delta = 1 \/ act[t].wake
    BY DEF NoLostWakeup
  <2>1. CASE ~eventWait
    BY <2>1 DEF IInv, WakeInv
  <2>2. CASE eventWait
    <3>1. nActive = 0 /\ NeverUndercounted
      BY <2>2 DEF IInv, WakeInv
    <3> DEFINE D(d) == {t \in Threads : act[t].delta = d}
    <3>2. IsFiniteSet(Needing) /\ IsFiniteSet(D(-1))
      BY ConstantFacts, ThreadsFinite, FS_Subset DEF Needing
    <3>3. /\ Cardinality(Needing) \in Nat /\ Cardinality(Needing) # 0
          /\ Cardinality(D(-1)) \in Nat
      BY <3>2, FS_CardinalityType, FS_EmptySet
    <3>4. ASSUME D(1) = {} PROVE FALSE
      <4>1. Cardinality(D(1)) = 0
        BY <3>4, FS_EmptySet
      <4>2. nActive + Cardinality(D(1)) - Cardinality(D(-1)) >= Cardinality(Needing)
        BY <3>1 DEF NeverUndercounted, Deltas
      <4> HIDE DEF D
      <4>3. QED BY <3>1, <3>3, <4>1, <4>2
    <3>5. QED BY <3>4
  <2>3. QED BY <2>1, <2>2
<1>5. NeedyIsListed
  <2> SUFFICES ASSUME NEW n \in Nodes, NeedsPoll(word[n]) PROVE Listed(n)
    BY DEF NeedyIsListed, Needing
  <2>1. word[n].state # "inactive"
    BY LoadFacts DEF IInv, SuspendInv, NeedsPoll
  <2>2. \/ \E t \in Threads : Asks(t, n)
        \/ In(activePending[sequence], n)
        \/ In(pend, n)
        \/ index[n] # NoIndex
    BY <2>1 DEF IInv, AllocInv
  <2>3. index[n] # NoIndex => RefOK(n, index[n])
    BY DEF IInv, ActivePoolInv
  <2>4. sequence \in 0 .. 1
    BY DEF IInv, Types, TypePend
  <2>5. QED BY <2>2, <2>3, <2>4 DEF Listed, Asks, In
<1>6. QED BY <1>1, <1>2, <1>3, <1>4, <1>5

(* The inductive invariant holds in every reachable state.                 *)
LEMMA PollerInvariant == Spec => []IInv
BY IInvInit, IInvStep, PTL DEF Spec

(* The variables of the data pollers keep their types: counts never        *)
(* become negative or exceed len(l.nodes), the suspend count never exceeds *)
(* its limit, and each channel holds at most one value.                    *)
THEOREM PollerTypeCorrect == Spec => []TypeOK
<1>1. IInv => TypeOK
  BY IInvImplies
<1>2. QED BY <1>1, PollerInvariant, PTL

(* A data poller executes only while the loop is inside doPollers, however *)
(* many pollers there are and whichever suspend, panic or finish.          *)
THEOREM PollersConfined == Spec => []PollOnlyInDoPollers
<1>1. IInv => PollOnlyInDoPollers
  BY IInvImplies
<1>2. QED BY <1>1, PollerInvariant, PTL

(* The suspend count of addActivity is the number of packets in            *)
(* transmission, for every pair of limits and every vector length.         *)
THEOREM SuspendCounted == Spec => []SuspendCounts
<1>1. IInv => SuspendCounts
  BY IInvImplies
<1>2. QED BY <1>1, PollerInvariant, PTL

(* getPoller never finds a freed active poller, or another node's, for a   *)
(* packet in transmission.                                                 *)
THEOREM ReferencesValid == Spec => []RefsStayValid
<1>1. IInv => RefsStayValid
  BY IInvImplies
<1>2. QED BY <1>1, PollerInvariant, PTL

(* None of the panics of addActivity, getPoller and allocActivePoller      *)
(* ("already allocated", a negative count, a freed reference) is reached.  *)
THEOREM AllocationOnce == Spec => []AllocatedOnce
<1>1. IInv => AllocatedOnce
  BY IInvImplies
<1>2. QED BY <1>1, PollerInvariant, PTL

(* The loop's count of active pollers, with the changes that threads have  *)
(* still to make, is never below the number of nodes that need polling.    *)
THEOREM CountCoversNeed == Spec => []NeverUndercounted
<1>1. IInv => NeverUndercounted
  BY IInvImplies
<1>2. QED BY <1>1, PollerInvariant, PTL

(* The loop never sleeps on a node that needs polling unless the Interrupt *)
(* that wakes it is queued or some thread is about to send it.             *)
THEOREM WakeupKept == Spec => []NoLostWakeup
<1>1. IInv => NoLostWakeup
  BY IInvImplies
<1>2. QED BY <1>1, PollerInvariant, PTL

(* A node that needs polling is in the pool of active pollers, or on its   *)
(* way to it.                                                              *)
THEOREM NeedyListed == Spec => []NeedyIsListed
<1>1. IInv => NeedyIsListed
  BY IInvImplies
<1>2. QED BY <1>1, PollerInvariant, PTL
=============================================================================
