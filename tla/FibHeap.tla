------------------------------- MODULE FibHeap -------------------------------
(***************************************************************************)
(* The fibonacci heap of elib/fibheap.go and the timed event pool of       *)
(* elib/event/event.go that keeps its events in it.                        *)
(*                                                                         *)
(* Nodes are named by index and linked in rings: the roots in the ring of  *)
(* the root node, the children of a node in a ring reached through sub.    *)
(* The data vector of the typed pool is the partial function events, from  *)
(* the indices in use to event times; GetIndex hands out any index that is *)
(* not in use (module Pool).                                               *)
(*                                                                         *)
(* The heap is changed in place by loops.  A step is one turn of a loop or *)
(* what lies between two loops, fpc is the program point and op the call   *)
(* that holds the pool's mutex: until it returns nothing else is enabled.  *)
(***************************************************************************)
EXTENDS Integers, Sequences, FiniteSets

CONSTANTS
  FibN,      \* bound of the model: indices 0 .. FibN - 1
  FibLive,   \* bound of the model: the indices events are added at
  FibTimes   \* event times

ASSUME FibAssumption ==
  FibN \in Nat /\ FibLive \in 0 .. FibN /\ FibTimes \subseteq Nat

VARIABLES
  nodes,     \* FibHeap.nodes and FibHeap.root
  minIndex,  \* FibHeap.minIndex
  minValid,  \* FibHeap.minValid
  events,    \* timedEventPool.events of the indices in use
  fired,     \* the times of what the last advance took out, in order
  fpc, op, due,  \* program point, call, and the time advance was given
  xi, ci,        \* Del: the deleted node; cutChildren: the child it looks at
  supi, ni,      \* Del: the parent to adjust and its next child;
                 \* Min: ni is the next root
  ri, deg        \* Min: the root it looks at and the roots seen by degree

heapVarsF == <<nodes, minIndex, minValid>>
callVarsF == <<fpc, op, due>>
localVarsF == <<xi, ci, supi, ni, ri, deg>>
fibVars == <<heapVarsF, events, fired, callVarsF, localVarsF>>

None == -1          \* MaxIndex
RootIndex == -2     \* fibRootIndex
FibIndex == 0 .. FibN - 1

NewNode == [sup |-> None, next |-> RootIndex, prev |-> RootIndex,
            sub |-> None, nSub |-> 0, isMarked |-> FALSE]

With(f, k, v) == [x \in DOMAIN f \cup {k} |-> IF x = k THEN v ELSE f[x]]
Without(f, k) == [x \in DOMAIN f \ {k} |-> f[x]]

LinkAfter(nd, p, x) ==
  LET n == nd[p].next
  IN [nd EXCEPT ![p].next = x, ![x].prev = p, ![x].next = n, ![n].prev = x]

AddRoot(nd, x) == LinkAfter(nd, RootIndex, x)

Unlink(nd, x) ==
  [nd EXCEPT ![nd[x].prev].next = nd[x].next, ![nd[x].next].prev = nd[x].prev]

(* Bug form: the cached minimum survives an addition.                      *)
FibAddKeepsMin(i) ==
  /\ nodes' = AddRoot([nodes EXCEPT ![i] = NewNode], i)
  /\ UNCHANGED <<minIndex, minValid>>

FibAdd(i) ==
  /\ nodes' = AddRoot([nodes EXCEPT ![i] = NewNode], i)
  /\ minValid' = FALSE
  /\ UNCHANGED minIndex
-----------------------------------------------------------------------------
(* The pool starts empty, or full of FibN events that were added in turn   *)
(* and with a first NextTime about to run: trees deep enough for cuts to   *)
(* cascade, which only FibN >= 8 events give.                              *)
FullRing ==
  [i \in FibIndex \cup {RootIndex} |->
     [NewNode EXCEPT
       !.next = IF i = RootIndex THEN FibN - 1
                ELSE IF i = 0 THEN RootIndex ELSE i - 1,
       !.prev = IF i = RootIndex THEN 0
                ELSE IF i = FibN - 1 THEN RootIndex ELSE i + 1]]

FibInit ==
  /\ \/ /\ events = <<>>
        /\ nodes = [i \in FibIndex \cup {RootIndex} |-> NewNode]
        /\ fpc = "idle" /\ op = "none"
     \/ /\ FibN > 0
        /\ \E t \in FibTimes : events = [i \in FibIndex |-> t]
        /\ nodes = FullRing
        /\ fpc = "min" /\ op = "nextTime"
  /\ minIndex = 0 /\ minValid = FALSE
  /\ fired = <<>> /\ due = 0
  /\ xi = None /\ ci = None /\ supi = None /\ ni = None /\ ri = None
  /\ deg = <<>>

Few == DOMAIN events \subseteq 0 .. FibLive - 1

(* Pool.Add of an event due at time t.                                     *)
TimedAdd(i, t) ==
  /\ fpc = "idle"
  /\ Few
  /\ i < FibLive
  /\ i \notin DOMAIN events
  /\ events' = With(events, i, t)
  /\ FibAdd(i)
  /\ fired' = <<>>
  /\ UNCHANGED <<callVarsF, localVarsF>>

(* FibHeap.Del up to the loop of cutChildren.                              *)
StartDel(i) ==
  /\ nodes' = Unlink(nodes, i)
  /\ xi' = i
  /\ ci' = nodes[i].sub
  /\ fpc' = IF nodes[i].sub = None THEN "cutDone" ELSE "cut"
  /\ UNCHANGED <<minIndex, minValid, due, supi, ni, ri, deg>>

(* Pool.del of any event.                                                  *)
TimedDel(i) ==
  /\ fpc = "idle"
  /\ StartDel(i)
  /\ op' = "del"
  /\ fired' = <<>>
  /\ UNCHANGED events

(* The event's time changes and Update moves its node.                     *)
TimedUpdate(i, t) ==
  /\ fpc = "idle"
  /\ Few
  /\ events' = [events EXCEPT ![i] = t]
  /\ StartDel(i)
  /\ op' = "update"
  /\ fired' = <<>>

Advance(t) ==
  /\ fpc = "idle"
  /\ fpc' = "min" /\ op' = "advance" /\ due' = t
  /\ fired' = <<>>
  /\ UNCHANGED <<heapVarsF, events, localVarsF>>

(* Pool.NextTime: only Min's reordering of the heap is left behind.        *)
NextTime ==
  /\ fpc = "idle"
  /\ fpc' = "min" /\ op' = "nextTime"
  /\ fired' = <<>>
  /\ UNCHANGED <<heapVarsF, events, due, localVarsF>>

Return == fpc' = "idle" /\ op' = "none" /\ due' = 0
-----------------------------------------------------------------------------
(* Bug form: only the first child is cut.                                  *)
LastChildAlways(n) == TRUE

LastChild(n) == n = nodes[xi].sub

(* cutChildren makes the child a root; next was read before.               *)
CutChild ==
  LET n == nodes[ci].next
  IN /\ fpc = "cut"
     /\ nodes' = AddRoot([nodes EXCEPT ![ci].sup = None], ci)
     /\ IF LastChild(n)
        THEN fpc' = "cutDone" /\ ci' = None
        ELSE ci' = n /\ UNCHANGED fpc
     /\ UNCHANGED <<minIndex, minValid, events, fired, op, due, xi, supi, ni,
                    ri, deg>>

(* Del between cutChildren and the loop that adjusts the parents.          *)
FindParent ==
  LET sup == nodes[xi].sup
  IN /\ fpc = "cutDone"
     /\ minValid' = (minValid /\ xi # minIndex)
     /\ IF sup = None
        THEN fpc' = "delDone" /\ UNCHANGED <<supi, ni>>
        ELSE fpc' = "adjust" /\ supi' = sup /\ ni' = nodes[xi].next
     /\ UNCHANGED <<nodes, minIndex, events, fired, op, due, xi, ci, ri, deg>>

LoseChild(nd, s, n) ==
  [nd EXCEPT ![s].nSub = @ - 1, ![s].isMarked = TRUE,
             ![s].sub = IF nd[s].nSub = 1 THEN None ELSE n]

(* Parent supi lost the child before ni in its ring: a parent that had     *)
(* lost one before and is not a root is cut as well, and so on up.         *)
AdjustParent ==
  LET lost == LoseChild(nodes, supi, ni)
      sup2i == nodes[supi].sup
  IN /\ fpc = "adjust"
     /\ IF ~nodes[supi].isMarked \/ sup2i = None
        THEN /\ nodes' = lost
             /\ fpc' = "delDone" /\ supi' = None /\ ni' = None
        ELSE /\ nodes' = AddRoot([Unlink(lost, supi) EXCEPT ![supi].sup = None],
                                 supi)
             /\ ni' = nodes[supi].next /\ supi' = sup2i
             /\ UNCHANGED fpc
     /\ UNCHANGED <<minIndex, minValid, events, fired, op, due, xi, ci, ri, deg>>

(* Pool.del after FibHeap.Del: PutIndex; advance goes on with its loop.    *)
(* The deleted node keeps its links in the code; they are cleared here     *)
(* because only Add, which writes them all, touches the node again.        *)
RemoveEvent ==
  /\ fpc = "delDone" /\ op \in {"del", "advance"}
  /\ events' = Without(events, xi)
  /\ nodes' = [nodes EXCEPT ![xi] = NewNode]
  /\ xi' = None
  /\ IF op = "advance"
     THEN /\ fired' = Append(fired, events[xi])
          /\ fpc' = "min"
          /\ UNCHANGED <<op, due>>
     ELSE Return /\ UNCHANGED fired
  /\ UNCHANGED <<minIndex, minValid, ci, supi, ni, ri, deg>>

(* Update after Del.                                                       *)
AddAgain ==
  /\ fpc = "delDone" /\ op = "update"
  /\ FibAdd(xi)
  /\ xi' = None
  /\ Return
  /\ UNCHANGED <<events, fired, ci, supi, ni, ri, deg>>
-----------------------------------------------------------------------------
(* Min up to its loop.  (The early return of a heap that never had a node  *)
(* is a pass over no roots.)                                               *)
StartMin ==
  /\ fpc = "min"
  /\ IF minValid
     THEN fpc' = "minDone" /\ UNCHANGED <<ri, ni>>
     ELSE /\ fpc' = "pass"
          /\ ri' = nodes[RootIndex].next
          /\ ni' = nodes[nodes[RootIndex].next].next
  /\ UNCHANGED <<heapVarsF, events, fired, op, due, xi, ci, supi, deg>>

(* The first root of its degree is noted.                                  *)
SeeRoot ==
  /\ fpc = "pass" /\ ri # RootIndex
  /\ nodes[ri].nSub \notin DOMAIN deg
  /\ deg' = With(deg, nodes[ri].nSub, ri)
  /\ ri' = ni
  /\ ni' = nodes[ni].next
  /\ UNCHANGED <<heapVarsF, events, fired, callVarsF, xi, ci, supi>>

(* Root lose becomes a child of root win.                                  *)
LinkUnder(nd, win, lose) ==
  LET out == [Unlink(nd, lose) EXCEPT ![lose].isMarked = FALSE,
                                      ![lose].sup = win]
  IN IF out[win].sub # None
     THEN LinkAfter([out EXCEPT ![win].nSub = @ + 1], out[win].sub, lose)
     ELSE [out EXCEPT ![win].sub = lose, ![win].nSub = 1,
                      ![win].isMarked = FALSE,
                      ![lose].next = lose, ![lose].prev = lose]

(* Bug form: the comparison the wrong way round.                           *)
WinsReversed(i, j) == events[i] > events[j]

(* Compare(i, j) <= 0 on the event times.                                  *)
Wins(i, j) == events[i] <= events[j]

(* The second root of a degree is linked with the first, and the winner is *)
(* looked at again.                                                        *)
LinkRoots ==
  LET ns == nodes[ri].nSub
      win == IF Wins(deg[ns], ri) THEN deg[ns] ELSE ri
      lose == IF win = ri THEN deg[ns] ELSE ri
  IN /\ fpc = "pass" /\ ri # RootIndex
     /\ ns \in DOMAIN deg
     /\ nodes' = LinkUnder(nodes, win, lose)
     /\ deg' = Without(deg, ns)
     /\ ri' = win
     /\ UNCHANGED <<minIndex, minValid, events, fired, callVarsF, xi, ci, supi,
                    ni>>

(* Of the roots left, by rising degree, the first with the least time.     *)
LeastRoot ==
  LET best == {d \in DOMAIN deg :
                 \A e \in DOMAIN deg : events[deg[d]] <= events[deg[e]]}
  IN IF best = {} THEN None
     ELSE deg[CHOOSE d \in best : \A e \in best : d <= e]

EndMin ==
  /\ fpc = "pass" /\ ri = RootIndex
  /\ minIndex' = LeastRoot
  /\ minValid' = (LeastRoot # None)
  /\ fpc' = "minDone"
  /\ ri' = None /\ ni' = None /\ deg' = <<>>
  /\ UNCHANGED <<nodes, events, fired, op, due, xi, ci, supi>>

IsDue == minValid /\ events[minIndex] <= due

(* Pool.advance: takes the least event out while it is due.                *)
TakeEvent ==
  /\ fpc = "minDone" /\ op = "advance" /\ IsDue
  /\ StartDel(minIndex)
  /\ UNCHANGED <<events, fired, op>>

EndPoolCall ==
  /\ fpc = "minDone" /\ (op = "advance" => ~IsDue)
  /\ Return
  /\ UNCHANGED <<heapVarsF, events, fired, localVarsF>>

FibNext ==
  \/ \E i \in FibIndex, t \in FibTimes : TimedAdd(i, t)
  \/ \E i \in DOMAIN events : TimedDel(i)
  \/ \E i \in DOMAIN events, t \in FibTimes : TimedUpdate(i, t)
  \/ \E t \in FibTimes : Advance(t)
  \/ NextTime
  \/ CutChild \/ FindParent \/ AdjustParent \/ RemoveEvent \/ AddAgain
  \/ StartMin \/ SeeRoot \/ LinkRoots \/ EndMin \/ TakeEvent \/ EndPoolCall
-----------------------------------------------------------------------------
(* The events in the heap: the one that Del is taking out is not.          *)
Linked == DOMAIN events \ {xi}

Children(p) == {x \in Linked : nodes[x].sup = p}
Ring(p) == IF p = None THEN Children(None) \cup {RootIndex} ELSE Children(p)

(* next and prev are inverse on S, and following next from anywhere meets  *)
(* all of S.                                                               *)
IsRing(nd, S) ==
  /\ \A x \in S : /\ nd[x].next \in S /\ nd[nd[x].next].prev = x
                  /\ nd[x].prev \in S /\ nd[nd[x].prev].next = x
  /\ \A T \in SUBSET S :
       T # {} /\ (\A x \in T : nd[x].next \in T) => T = S

(* Parents are events of the pool, and no event is its own ancestor.       *)
IsForest(nd, S) ==
  /\ \A x \in S : nd[x].sup \in S \cup {None}
  /\ \A T \in SUBSET S : T # {} => \E x \in T : nd[x].sup \notin T

(* Between calls the node links are a forest over exactly the events in    *)
(* the pool: the children of a node, and the roots, are one ring each, sub *)
(* names a child and nSub counts them, whatever deletions, cuts and        *)
(* consolidations came before.  A ring that lost a link would drop timed   *)
(* events or fire one that is no longer in the pool.                       *)
FibLinksConsistent ==
  fpc = "idle" =>
    /\ IsForest(nodes, DOMAIN events)
    /\ IsRing(nodes, Ring(None))
    /\ \A p \in DOMAIN events :
         /\ IF Children(p) = {} THEN nodes[p].sub = None
            ELSE nodes[p].sub \in Children(p) /\ IsRing(nodes, Children(p))
         /\ nodes[p].nSub = Cardinality(Children(p))

(* A parent is never due later than its children, which lets Min look at   *)
(* the roots only, and the cached minimum names an event of the pool with  *)
(* the least time: NextTime, which arms the loop's timer, never answers a  *)
(* later time or that of an event already gone.                            *)
IsLeast(i, S) == i \in S /\ \A j \in S : events[i] <= events[j]

FibMinIsLeast ==
  fpc = "idle" =>
    /\ \A x \in DOMAIN events :
         nodes[x].sup # None => events[nodes[x].sup] <= events[x]
    /\ minValid => IsLeast(minIndex, DOMAIN events)

(* advance takes out, one by one, an event that is due and least of those  *)
(* left, and returns only when nothing that is left is due: it takes       *)
(* exactly the events that are due, in order of their times.               *)
AdvanceStep ==
  /\ fired' # fired /\ fired' # <<>> =>
       \E i \in DOMAIN events :
         /\ IsLeast(i, DOMAIN events) /\ events[i] <= due
         /\ events' = Without(events, i)
         /\ fired' = Append(fired, events[i])
  /\ op = "advance" /\ op' # "advance" =>
       \A i \in DOMAIN events : events[i] > due

AdvanceExact == [][AdvanceStep]_fibVars
=============================================================================
