------------------------------- MODULE Ip4Fib -------------------------------
(***************************************************************************)
(* Routes, neighbours and multipath adjacencies: vnet/ip4/fib.go over      *)
(* vnet/ip/adjacency.go, with the neighbours of vnet/ethernet/neighbor.go. *)
(*                                                                         *)
(* One fib.  Next hops are addresses on the subnet of one interface, whose *)
(* own prefix points to a glean adjacency while the interface has its      *)
(* address; a resolved neighbour is a /32 route to a rewrite adjacency.    *)
(* Routes are to prefixes outside the subnet, so no route's next hop is    *)
(* reached through another route.  A route points to a multipath adjacency *)
(* that is shared by all routes with the same normalised next hops.        *)
(*                                                                         *)
(* Everything is called from event handlers of the one loop (module        *)
(* EventLoop: handlers run one at a time), so each call is one step.       *)
(***************************************************************************)
EXTENDS Integers, Sequences, FiniteSets, FiniteSetsExt

CONSTANTS
  Prefixes,   \* destinations the RIB has routes for
  Addrs,      \* next hop addresses
  Hops,       \* the pairs of next hop address and weight the RIB gives
  AdjMax,     \* bound of the model: adjacency indices 0 .. AdjMax - 1
  ReplaceMax  \* bound of the model on the replacing messages of a run

ASSUME FibTablesAssumption ==
  /\ IsFiniteSet(Prefixes)
  /\ Hops \subseteq Addrs \X (Nat \ {0})
  /\ AdjMax \in Nat /\ ReplaceMax \in Nat

VARIABLES
  tab,       \* the tables, below
  rib,       \* history: the next hop addresses the RIB has for a prefix
  overridden,  \* history: addresses that replacing messages overrode
  replaces   \* history: number of replacing messages so far

fibTabVars == <<tab, rib, overridden, replaces>>

NoAdj == -1                      \* AdjNil
FreeAdj == [kind |-> "free"]

Forget(f, k) == [x \in DOMAIN f \ {k} |-> f[x]]
Bind(f, k, v) ==
  [x \in DOMAIN f \cup {k} |-> IF x = k THEN v ELSE f[x]]

FreeAdjs(t) == {i \in DOMAIN t.adj : t.adj[i].kind = "free"}
NewAdj(t) == Min(FreeAdjs(t))
MultipathAdjs(t) == {i \in DOMAIN t.adj : t.adj[i].kind = "multipath"}

(* normalizePow2 keeps the proportions of the weights and nothing else:    *)
(* two vectors have the same normal form when one is a multiple of the     *)
(* other.  (Proportions closer than the 1 % tolerance, which the weights   *)
(* of the model never are, would be merged as well.)                       *)
Normalize(given) ==
  LET ws == {given[x] : x \in DOMAIN given}
      d == Max({k \in 1 .. Max(ws) : \A w \in ws : w % k = 0})
  IN [x \in DOMAIN given |-> given[x] \div d]

(* createMpAdj: the block known for the same normalised next hops, or a    *)
(* new one (with a copy of each next hop's rewrite in the code).           *)
CreateMpAdj(t, given) ==
  LET norm == Normalize(given)
      i == NewAdj(t)
      new == [kind |-> "multipath", ref |-> 0, given |-> given, norm |-> norm]
  IN IF norm \in DOMAIN t.hash THEN [tab |-> t, adj |-> t.hash[norm]]
     ELSE [tab |-> [t EXCEPT !.adj[i] = new, !.hash = Bind(@, norm, i)],
           adj |-> i]

(* multipathAdjacency.free, with panic("unknown multipath adjacency").     *)
FreeMpAdj(t, i) ==
  LET norm == t.adj[i].norm
  IN IF norm \notin DOMAIN t.hash THEN [t EXCEPT !.panicked = TRUE]
     ELSE [t EXCEPT !.adj[i] = FreeAdj, !.hash = Forget(@, norm)]

(* Bug form: a shared block is not counted for its second user.            *)
RefAddFirstOnly(t, i, d) ==
  IF i = NoAdj THEN t
  ELSE [t EXCEPT !.adj[i].ref = IF d = 1 /\ @ > 0 THEN @ ELSE @ + d]

RefAdd(t, i, d) == IF i = NoAdj THEN t ELSE [t EXCEPT !.adj[i].ref = @ + d]

(* addDelHelper: from the block old to the one for the given next hops.    *)
AddDelHelper(t, given, old) ==
  LET made == IF DOMAIN given = {} THEN [tab |-> t, adj |-> NoAdj]
              ELSE CreateMpAdj(t, given)
      moved == IF made.adj = old THEN made.tab
               ELSE RefAdd(RefAdd(made.tab, old, -1), made.adj, 1)
      unused == old # NoAdj /\ moved.adj[old].ref = 0
  IN [tab |-> IF unused THEN FreeMpAdj(moved, old) ELSE moved,
      adj |-> made.adj, ok |-> TRUE]

(* AddDelNextHop: the next hops of oldAdj with nhAdj added, its weight     *)
(* changed, or deleted; ok is false for the deletion of an unknown one.    *)
AddDelNextHop(t, oldAdj, nhAdj, weight, isDel) ==
  LET given == IF oldAdj = NoAdj THEN <<>> ELSE t.adj[oldAdj].given
      found == nhAdj \in DOMAIN given
      same == found /\ given[nhAdj] = weight
  IN CASE isDel /\ ~found -> [tab |-> t, adj |-> oldAdj, ok |-> FALSE]
       [] isDel /\ found -> AddDelHelper(t, Forget(given, nhAdj), oldAdj)
       [] ~isDel /\ same -> [tab |-> t, adj |-> oldAdj, ok |-> TRUE]
       [] OTHER -> AddDelHelper(t, Bind(given, nhAdj, weight), oldAdj)

(* addDelUnreachable.  All unreachable next hops are kept under 0/0.  On a *)
(* deletion the code first takes every other entry out and puts it back    *)
(* (delReachableVia); what is left is this.                                *)
AddDelUnreachable(t, p, a, weight, isDel) ==
  [t EXCEPT !.unreach = IF isDel THEN Forget(@, <<a, p>>)
                        ELSE Bind(@, <<a, p>>, weight)]

(* Fib.addDelRouteNextHop with setReachable's record, kept at the          *)
(* neighbour's /32, of the routes that go through it.                      *)
AddDelRouteNextHop(t, p, a, weight, isDel) ==
  LET known == p \in DOMAIN t.route
      oldAdj == IF known THEN t.route[p] ELSE NoAdj
      r == AddDelNextHop(t, oldAdj, t.nbr[a], weight, isDel)
  IN CASE a \notin DOMAIN t.nbr -> AddDelUnreachable(t, p, a, weight, isDel)
       [] a \in DOMAIN t.nbr /\ isDel /\ ~known -> t
       [] OTHER ->
            IF ~r.ok \/ r.adj = oldAdj THEN r.tab
            ELSE [r.tab EXCEPT
                    !.route = IF r.adj = NoAdj THEN Forget(@, p)
                              ELSE Bind(@, p, r.adj),
                    !.nh[a] = IF isDel THEN Forget(@, p)
                              ELSE Bind(@, p, weight)]

(* Bug form: the routes through the neighbour are left as they are.        *)
LoseNeighborOnly(t, a) == t

(* One route of neighbour a, whose /32 goes, from the tables s: it loses   *)
(* the next hop, which is then unreachable.  With the interface's prefix   *)
(* as less specific route (replaceNextHop, to a glean adjacency) a route   *)
(* that is no longer known is skipped; without it (delReachableVia) not.   *)
LoseRoute(t, a, p, s) ==
  IF t.glean /\ p \notin DOMAIN s.route THEN s
  ELSE AddDelUnreachable(AddDelRouteNextHop(s, p, a, t.nh[a][p], TRUE),
                         p, a, t.nh[a][p], FALSE)

(* The /32 of a neighbour goes: every route recorded there loses it.       *)
LoseNeighbor(t, a) ==
  LET Lose(p, s) == LoseRoute(t, a, p, s)
  IN FoldSet(Lose, [t EXCEPT !.nh[a] = <<>>], DOMAIN t.nh[a])

(* Bug form: the routes that waited for the neighbour go on waiting.       *)
MakeReachableNot(t, a) == t

(* makeReachable: the routes that wait for address a get it as next hop.   *)
GainRoute(t, a, p, s) ==
  AddDelRouteNextHop(s, p, a, t.unreach[<<a, p>>], FALSE)

(* Of the tables t these routes no longer wait.                            *)
MakeReachable(t, a) ==
  LET waiting == {p \in Prefixes : <<a, p>> \in DOMAIN t.unreach}
      left == [k \in {j \in DOMAIN t.unreach : j[1] # a} |-> t.unreach[k]]
      Gain(p, s) == GainRoute(t, a, p, s)
  IN FoldSet(Gain, [t EXCEPT !.unreach = left], waiting)

FibTabInit ==
  /\ tab = [adj |-> [i \in 0 .. AdjMax - 1 |-> FreeAdj], hash |-> <<>>,
            route |-> <<>>, nbr |-> <<>>, nh |-> [a \in Addrs |-> <<>>],
            unreach |-> <<>>, glean |-> FALSE, panicked |-> FALSE]
  /\ rib = [p \in Prefixes |-> {}]
  /\ overridden = [p \in Prefixes |-> {}]
  /\ replaces = 0

(* The bound: room for the n adjacencies a step may make.                  *)
Room(n) == Cardinality(FreeAdjs(tab)) >= n /\ ~tab.panicked
-----------------------------------------------------------------------------
(* Main.AddDelRouteNextHop: a route message of the kernel for one next     *)
(* hop.                                                                    *)
RouteAdd(p, a, w) ==
  /\ Room(1)
  /\ tab' = AddDelRouteNextHop(tab, p, a, w, FALSE)
  /\ rib' = [rib EXCEPT ![p] = @ \cup {a}]
  /\ UNCHANGED <<overridden, replaces>>

RouteDel(p, a) ==
  /\ Room(1)
  /\ a \in rib[p]
  /\ tab' = AddDelRouteNextHop(tab, p, a, 0, TRUE)
  /\ rib' = [rib EXCEPT ![p] = @ \ {a}]
  /\ overridden' = [overridden EXCEPT ![p] = @ \ {a}]
  /\ UNCHANGED replaces

(* isReplace: the prefix is taken out of the map whatever it points to.    *)
RouteReplace(p, a, w) ==
  /\ Room(1)
  /\ tab' = AddDelRouteNextHop([tab EXCEPT !.route = Forget(@, p)],
                               p, a, w, FALSE)
  /\ rib' = [rib EXCEPT ![p] = {a}]
  /\ overridden' = [overridden EXCEPT ![p] = @ \cup (rib[p] \ {a})]
  /\ replaces < ReplaceMax
  /\ replaces' = replaces + 1

(* AddDelIpNeighbor: a new neighbour, or a new ethernet address for a      *)
(* known one, which keeps its adjacency; the /32 route is set in either    *)
(* case.                                                                   *)
NeighborAdd(a) ==
  LET i == IF a \in DOMAIN tab.nbr THEN tab.nbr[a] ELSE NewAdj(tab)
      set == [tab EXCEPT !.adj[i] = [kind |-> "rewrite"],
                         !.nbr = Bind(@, a, i)]
  IN /\ Room(1 + Cardinality(Prefixes))
     /\ tab' = MakeReachable(set, a)
     /\ UNCHANGED <<rib, overridden, replaces>>

NeighborDel(a) ==
  LET lost == LoseNeighbor(tab, a)
  IN /\ Room(Cardinality(Prefixes))
     /\ a \in DOMAIN tab.nbr
     /\ tab' = [lost EXCEPT !.nbr = Forget(@, a), !.nh[a] = <<>>,
                            !.adj[tab.nbr[a]] = FreeAdj]
     /\ UNCHANGED <<rib, overridden, replaces>>

(* addDelInterfaceAddressRoutes: the subnet's own prefix and its glean     *)
(* adjacency.  Neighbours stay: deleteMatchingRoutes is called with length *)
(* 32 and finds nothing.                                                   *)
InterfaceAdd ==
  /\ Room(0)
  /\ ~tab.glean
  /\ tab' = [tab EXCEPT !.glean = TRUE]
  /\ UNCHANGED <<rib, overridden, replaces>>

InterfaceDel ==
  /\ Room(0)
  /\ tab.glean
  /\ tab' = [tab EXCEPT !.glean = FALSE]
  /\ UNCHANGED <<rib, overridden, replaces>>

FibTabNext ==
  \/ \E p \in Prefixes, h \in Hops : RouteAdd(p, h[1], h[2])
  \/ \E p \in Prefixes, a \in Addrs : RouteDel(p, a)
  \/ \E p \in Prefixes, h \in Hops : RouteReplace(p, h[1], h[2])
  \/ \E a \in Addrs : NeighborAdd(a)
  \/ \E a \in Addrs : NeighborDel(a)
  \/ InterfaceAdd
  \/ InterfaceDel
-----------------------------------------------------------------------------
(* A route never points to a freed or foreign adjacency, and each of its   *)
(* next hops is the adjacency of a neighbour that exists: deleting a       *)
(* neighbour, which frees its adjacency, has reached every route that uses *)
(* it through the records kept at its /32.                                 *)
RoutesUseLiveNeighbors ==
  \A p \in DOMAIN tab.route :
    LET i == tab.route[p]
    IN /\ i \in MultipathAdjs(tab)
       /\ \A x \in DOMAIN tab.adj[i].given :
            \E a \in DOMAIN tab.nbr : tab.nbr[a] = x /\ p \in DOMAIN tab.nh[a]

(* A shared block is counted for every route that points to it, so it is   *)
(* not freed under one of them, and the hash knows every block by its next *)
(* hops and nothing else: no two live blocks for the same next hops, no    *)
(* hit on a freed one, never the panic "unknown multipath adjacency".      *)
BlocksShared ==
  /\ \A i \in MultipathAdjs(tab) :
       /\ Cardinality({p \in DOMAIN tab.route : tab.route[p] = i})
            <= tab.adj[i].ref
       /\ tab.adj[i].norm \in DOMAIN tab.hash
  /\ \A n \in DOMAIN tab.hash :
       tab.hash[n] \in MultipathAdjs(tab) /\ tab.adj[tab.hash[n]].norm = n
  /\ ~tab.panicked

(* No next hop the RIB gave is forgotten: while its neighbour is resolved  *)
(* it is one of the route's next hops, otherwise it waits as unreachable,  *)
(* through any order of route, neighbour and interface events.  And none   *)
(* that the RIB withdrew comes back, in a route or waiting, except those a *)
(* replacing message overrode: that message only forgets the route, not    *)
(* what is recorded at the neighbours and under 0/0.                       *)
NextHopsAccounted ==
  \A p \in Prefixes :
    LET via == IF p \in DOMAIN tab.route
               THEN DOMAIN tab.adj[tab.route[p]].given ELSE {}
        using == {a \in DOMAIN tab.nbr : tab.nbr[a] \in via}
        waiting == {a \in Addrs : <<a, p>> \in DOMAIN tab.unreach}
    IN /\ rib[p] \cap DOMAIN tab.nbr \subseteq using
       /\ rib[p] \ DOMAIN tab.nbr \subseteq waiting
       /\ using \cup waiting \subseteq rib[p] \cup overridden[p]
=============================================================================
