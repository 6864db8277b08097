--------------------------- MODULE FibHeapProofs ----------------------------
(***************************************************************************)
(* Proofs about FibHeap for every number of events and every set of event  *)
(* times.                                                                  *)
(*                                                                         *)
(* Del and Min are made of three changes of the links: take a node out of  *)
(* its ring, put a node into a ring after another, make a node a ring of   *)
(* its own.  Each keeps RingsOK(nd, L, P): the children in L of every node *)
(* of P, and the roots in L, are one ring each.                            *)
(***************************************************************************)
EXTENDS FibHeap, FiniteSetTheorems, WellFoundedInduction, TLAPS

(* The timed event pool by itself.                                         *)
FibSpec == FibInit /\ [][FibNext]_fibVars

AllNodes == FibIndex \cup {RootIndex}
NodeRec == [sup : FibIndex \cup {None}, next : AllNodes, prev : AllNodes,
            sub : FibIndex \cup {None}, nSub : Nat, isMarked : BOOLEAN]

(* The ring of the children of p in L, or of the roots in L.               *)
RingSet(nd, L, p) ==
  {x \in L : nd[x].sup = p} \cup (IF p = None THEN {RootIndex} ELSE {})

RingsOK(nd, L, P) ==
  \A p \in P \cup {None} :
    RingSet(nd, L, p) # {} => IsRing(nd, RingSet(nd, L, p))
-----------------------------------------------------------------------------
(* The fields of the nodes after linkAfter, unlink and a new parent.       *)
SameButLinks(nd, nd2) ==
  \A y \in AllNodes :
    /\ nd2[y].sup = nd[y].sup /\ nd2[y].sub = nd[y].sub
    /\ nd2[y].nSub = nd[y].nSub /\ nd2[y].isMarked = nd[y].isMarked

SameLinks(nd, nd2, S) ==
  \A y \in S : nd2[y].next = nd[y].next /\ nd2[y].prev = nd[y].prev

LEMMA LinkAfterFacts ==
  ASSUME NEW nd \in [AllNodes -> NodeRec], NEW q \in AllNodes,
         NEW x \in AllNodes, x # q, x # nd[q].next
  PROVE  /\ LinkAfter(nd, q, x) \in [AllNodes -> NodeRec]
         /\ SameButLinks(nd, LinkAfter(nd, q, x))
         /\ \A y \in AllNodes :
              /\ LinkAfter(nd, q, x)[y].next =
                   IF y = q THEN x ELSE IF y = x THEN nd[q].next ELSE nd[y].next
              /\ LinkAfter(nd, q, x)[y].prev =
                   IF y = x THEN q
                   ELSE IF y = nd[q].next THEN x ELSE nd[y].prev
<1>1. PICK n \in AllNodes : n = nd[q].next
  BY DEF NodeRec
<1>2. LinkAfter(nd, q, x) =
        [nd EXCEPT ![q].next = x, ![x].prev = q, ![x].next = n, ![n].prev = x]
  BY <1>1 DEF LinkAfter
<1>3. LinkAfter(nd, q, x) \in [AllNodes -> NodeRec]
  BY <1>1, <1>2 DEF NodeRec
<1>4. SameButLinks(nd, LinkAfter(nd, q, x))
  BY <1>1, <1>2 DEF NodeRec, SameButLinks
<1>5. \A y \in AllNodes :
        /\ LinkAfter(nd, q, x)[y].next =
             IF y = q THEN x ELSE IF y = x THEN nd[q].next ELSE nd[y].next
        /\ LinkAfter(nd, q, x)[y].prev =
             IF y = x THEN q ELSE IF y = nd[q].next THEN x ELSE nd[y].prev
  BY <1>1, <1>2 DEF NodeRec
<1>6. QED BY <1>3, <1>4, <1>5

LEMMA UnlinkFacts ==
  ASSUME NEW nd \in [AllNodes -> NodeRec], NEW x \in AllNodes
  PROVE  /\ Unlink(nd, x) \in [AllNodes -> NodeRec]
         /\ SameButLinks(nd, Unlink(nd, x))
         /\ \A y \in AllNodes :
              /\ Unlink(nd, x)[y].next =
                   IF y = nd[x].prev THEN nd[x].next ELSE nd[y].next
              /\ Unlink(nd, x)[y].prev =
                   IF y = nd[x].next THEN nd[x].prev ELSE nd[y].prev
<1>1. PICK n \in AllNodes : n = nd[x].next
  BY DEF NodeRec
<1>2. PICK p \in AllNodes : p = nd[x].prev
  BY DEF NodeRec
<1>3. Unlink(nd, x) = [nd EXCEPT ![p].next = n, ![n].prev = p]
  BY <1>1, <1>2 DEF Unlink
<1>4. QED BY <1>1, <1>2, <1>3 DEF NodeRec, SameButLinks
-----------------------------------------------------------------------------
(* Rings.                                                                  *)
LEMMA RingSame ==
  ASSUME NEW nd, NEW nd2, NEW S, IsRing(nd, S),
         \A y \in S : nd2[y].next = nd[y].next /\ nd2[y].prev = nd[y].prev
  PROVE  IsRing(nd2, S)
<1>1. \A y \in S : /\ nd2[y].next \in S /\ nd2[nd2[y].next].prev = y
                   /\ nd2[y].prev \in S /\ nd2[nd2[y].prev].next = y
  BY DEF IsRing
<1>2. ASSUME NEW T \in SUBSET S, T # {}, \A y \in T : nd2[y].next \in T
      PROVE  T = S
  <2>1. \A y \in T : nd[y].next \in T
    BY <1>2
  <2>2. QED BY <1>2, <2>1 DEF IsRing
<1>3. QED BY <1>1, <1>2 DEF IsRing

(* A node linked after one of a ring joins the ring.                       *)
LEMMA RingInsert ==
  ASSUME NEW nd \in [AllNodes -> NodeRec], NEW S \in SUBSET AllNodes,
         IsRing(nd, S), NEW q \in S, NEW x \in AllNodes, x \notin S,
         NEW nd2, nd2 = LinkAfter(nd, q, x)
  PROVE  IsRing(nd2, S \cup {x})
<1>1. PICK n \in S : n = nd[q].next
  BY DEF IsRing
<1>2. \A y \in AllNodes :
        /\ nd2[y].next = IF y = q THEN x ELSE IF y = x THEN n ELSE nd[y].next
        /\ nd2[y].prev = IF y = x THEN q ELSE IF y = n THEN x ELSE nd[y].prev
  BY <1>1, LinkAfterFacts
<1>3. \A y \in S : /\ nd[y].next \in S /\ nd[nd[y].next].prev = y
                   /\ nd[y].prev \in S /\ nd[nd[y].prev].next = y
  BY DEF IsRing
<1>4. \A y \in S \cup {x} :
        /\ nd2[y].next \in S \cup {x} /\ nd2[nd2[y].next].prev = y
        /\ nd2[y].prev \in S \cup {x} /\ nd2[nd2[y].prev].next = y
  BY <1>1, <1>2, <1>3
<1>5. ASSUME NEW T \in SUBSET (S \cup {x}), T # {},
             \A y \in T : nd2[y].next \in T
      PROVE  T = S \cup {x}
  <2>1. \A y \in T \ {x} : nd[y].next \in T \ {x}
    BY <1>1, <1>2, <1>3, <1>5
  <2>2. T \ {x} # {}
    BY <1>1, <1>2, <1>5
  <2>3. T \ {x} = S
    BY <1>5, <2>1, <2>2 DEF IsRing
  <2>4. x \in T
    BY <1>2, <1>5, <2>3
  <2>5. QED BY <2>3, <2>4
<1>6. QED BY <1>4, <1>5 DEF IsRing

(* What is left when a node is unlinked is a ring.                         *)
LEMMA RingRemove ==
  ASSUME NEW nd \in [AllNodes -> NodeRec], NEW S \in SUBSET AllNodes,
         IsRing(nd, S), NEW x \in S, S \ {x} # {},
         NEW nd2, nd2 = Unlink(nd, x)
  PROVE  IsRing(nd2, S \ {x})
<1>1. PICK n \in S, p \in S : n = nd[x].next /\ p = nd[x].prev
  BY DEF IsRing
<1>2. \A y \in AllNodes :
        /\ nd2[y].next = IF y = p THEN n ELSE nd[y].next
        /\ nd2[y].prev = IF y = n THEN p ELSE nd[y].prev
  BY <1>1, UnlinkFacts
<1>3. \A y \in S : /\ nd[y].next \in S /\ nd[nd[y].next].prev = y
                   /\ nd[y].prev \in S /\ nd[nd[y].prev].next = y
  BY DEF IsRing
<1>4. n # x
  <2>1. SUFFICES ASSUME n = x PROVE FALSE
    OBVIOUS
  <2>2. {x} = S
    <3>1. {x} \in SUBSET S /\ {x} # {} /\ \A y \in {x} : nd[y].next \in {x}
      BY <1>1, <2>1
    <3>2. QED BY <3>1 DEF IsRing
  <2>3. QED BY <2>2
<1>5. p # x
  BY <1>1, <1>3, <1>4
<1>6. \A y \in S \ {x} :
        /\ nd2[y].next \in S \ {x} /\ nd2[nd2[y].next].prev = y
        /\ nd2[y].prev \in S \ {x} /\ nd2[nd2[y].prev].next = y
  BY <1>1, <1>2, <1>3, <1>4, <1>5
<1>7. ASSUME NEW T \in SUBSET (S \ {x}), T # {},
             \A y \in T : nd2[y].next \in T
      PROVE  T = S \ {x}
  <2>1. CASE p \in T
    <3>1. n \in T
      BY <1>1, <1>2, <1>7, <2>1
    <3>2. \A y \in T \cup {x} : nd[y].next \in T \cup {x}
      BY <1>1, <1>2, <1>3, <1>7, <3>1
    <3>3. T \cup {x} \in SUBSET S /\ T \cup {x} # {}
      BY <1>7
    <3>4. T \cup {x} = S
      BY <3>2, <3>3 DEF IsRing
    <3>5. QED BY <1>7, <3>4
  <2>2. CASE p \notin T
    <3>1. \A y \in T : nd[y].next \in T
      BY <1>2, <1>7, <2>2
    <3>2. T = S
      BY <1>7, <3>1 DEF IsRing
    <3>3. QED BY <1>7, <3>2
  <2>3. QED BY <2>1, <2>2
<1>8. QED BY <1>6, <1>7 DEF IsRing

LEMMA RingAlone ==
  ASSUME NEW nd, NEW x, nd[x].next = x, nd[x].prev = x
  PROVE  IsRing(nd, {x})
BY DEF IsRing
-----------------------------------------------------------------------------
(* All rings at once.                                                      *)
LEMMA RingsSame ==
  ASSUME NEW nd, NEW nd2, NEW L, NEW P, RingsOK(nd, L, P),
         \A y \in L : nd2[y].sup = nd[y].sup,
         \A y \in L \cup {RootIndex} :
           nd2[y].next = nd[y].next /\ nd2[y].prev = nd[y].prev
  PROVE  RingsOK(nd2, L, P)
<1>1. SUFFICES ASSUME NEW p \in P \cup {None}, RingSet(nd2, L, p) # {}
               PROVE  IsRing(nd2, RingSet(nd2, L, p))
  BY DEF RingsOK
<1>2. RingSet(nd2, L, p) = RingSet(nd, L, p)
  BY DEF RingSet
<1>3. RingSet(nd, L, p) \subseteq L \cup {RootIndex}
  BY DEF RingSet
<1>4. IsRing(nd, RingSet(nd, L, p))
  BY <1>1, <1>2 DEF RingsOK
<1>5. QED BY <1>2, <1>3, <1>4, RingSame

LEMMA RingsUnlink ==
  ASSUME NEW nd \in [AllNodes -> NodeRec], NEW L \in SUBSET FibIndex, NEW P,
         RingsOK(nd, L, P), NEW x \in L, nd[x].sup \in P \cup {None},
         NEW nd2, nd2 = Unlink(nd, x)
  PROVE  RingsOK(nd2, L \ {x}, P)
<1> DEFINE S(p) == RingSet(nd, L, p)
<1>1. SUFFICES ASSUME NEW p \in P \cup {None}, RingSet(nd2, L \ {x}, p) # {}
               PROVE  IsRing(nd2, RingSet(nd2, L \ {x}, p))
  BY DEF RingsOK
<1>2. L \subseteq AllNodes /\ RootIndex \in AllNodes /\ x # RootIndex
  BY DEF AllNodes, FibIndex, RootIndex
<1>3. RingSet(nd2, L \ {x}, p) = S(p) \ {x}
  BY <1>2, UnlinkFacts DEF RingSet, SameButLinks
<1>4. S(p) \in SUBSET AllNodes
  BY <1>2 DEF RingSet
<1>5. CASE p = nd[x].sup
  <2>1. x \in S(p)
    BY <1>5 DEF RingSet
  <2>2. IsRing(nd, S(p))
    BY <2>1 DEF RingsOK
  <2>3. QED BY <1>1, <1>3, <1>4, <2>1, <2>2, RingRemove
<1>6. CASE p # nd[x].sup
  <2>1. x \notin S(p)
    BY <1>2, <1>6 DEF RingSet
  <2>2. IsRing(nd, S(p))
    BY <1>1, <1>3 DEF RingsOK
  <2>3. x \in S(nd[x].sup)
    BY DEF RingSet
  <2>4. IsRing(nd, S(nd[x].sup))
    BY <2>3 DEF RingsOK
  <2>5. nd[x].next \in S(nd[x].sup) /\ nd[x].prev \in S(nd[x].sup)
    BY <2>3, <2>4 DEF IsRing
  <2>6. \A y \in S(p) : y \notin S(nd[x].sup)
    BY <1>2, <1>6 DEF RingSet, None, RootIndex, FibIndex
  <2>7. \A y \in S(p) : nd2[y].next = nd[y].next /\ nd2[y].prev = nd[y].prev
    BY <1>2, <1>4, <2>5, <2>6, UnlinkFacts
  <2>8. IsRing(nd2, S(p))
    BY <2>2, <2>7, RingSame
  <2>9. QED BY <1>3, <2>1, <2>8
<1>7. QED BY <1>5, <1>6

LEMMA RingsLink ==
  ASSUME NEW nd \in [AllNodes -> NodeRec], NEW L \in SUBSET FibIndex, NEW P,
         RingsOK(nd, L, P), NEW x \in FibIndex \ L, nd[x].sup \in P \cup {None},
         NEW q \in RingSet(nd, L, nd[x].sup),
         NEW nd2, nd2 = LinkAfter(nd, q, x)
  PROVE  RingsOK(nd2, L \cup {x}, P)
<1> DEFINE S(p) == RingSet(nd, L, p)
<1>1. SUFFICES ASSUME NEW p \in P \cup {None}, RingSet(nd2, L \cup {x}, p) # {}
               PROVE  IsRing(nd2, RingSet(nd2, L \cup {x}, p))
  BY DEF RingsOK
<1>2. L \subseteq AllNodes /\ RootIndex \in AllNodes /\ x # RootIndex /\ x \in AllNodes
  BY DEF AllNodes, FibIndex, RootIndex
<1>3. \A r : S(r) \in SUBSET AllNodes /\ x \notin S(r)
  BY <1>2 DEF RingSet
<1>4. IsRing(nd, S(nd[x].sup))
  BY DEF RingsOK
<1>5. nd[q].next \in S(nd[x].sup) /\ q \in AllNodes /\ x # q /\ x # nd[q].next
  <2>1. PICK R : R = S(nd[x].sup)
    OBVIOUS
  <2>2. R \in SUBSET AllNodes /\ x \notin R /\ q \in R /\ IsRing(nd, R)
    BY <1>3, <1>4, <2>1
  <2>3. nd[q].next \in R
    BY <2>2 DEF IsRing
  <2>4. QED BY <2>1, <2>2, <2>3
<1>6. SameButLinks(nd, nd2)
  BY <1>2, <1>5, LinkAfterFacts
<1>7. RingSet(nd2, L \cup {x}, p) = IF p = nd[x].sup THEN S(p) \cup {x} ELSE S(p)
  BY <1>2, <1>6 DEF RingSet, SameButLinks
<1>8. CASE p = nd[x].sup
  BY <1>2, <1>3, <1>4, <1>7, <1>8, RingInsert
<1>9. CASE p # nd[x].sup
  <2>1. IsRing(nd, S(p))
    BY <1>1, <1>7, <1>9 DEF RingsOK
  <2>2. \A y \in S(p) : y \notin S(nd[x].sup)
    BY <1>2, <1>9 DEF RingSet, None, RootIndex, FibIndex
  <2>3. \A y \in S(p) : nd2[y].next = nd[y].next /\ nd2[y].prev = nd[y].prev
    BY <1>2, <1>3, <1>5, <2>2, LinkAfterFacts
  <2>4. IsRing(nd2, S(p))
    BY <2>1, <2>3, RingSame
  <2>5. QED BY <1>7, <1>9, <2>4
<1>10. QED BY <1>8, <1>9

LEMMA RingsAlone ==
  ASSUME NEW nd, NEW L \in SUBSET FibIndex, NEW P, RingsOK(nd, L, P),
         NEW x \in FibIndex \ L, NEW nd2, nd2[x].sup \in FibIndex,
         RingSet(nd, L, nd2[x].sup) = {}, nd2[x].next = x, nd2[x].prev = x,
         \A y \in L : nd2[y].sup = nd[y].sup,
         \A y \in L \cup {RootIndex} :
           nd2[y].next = nd[y].next /\ nd2[y].prev = nd[y].prev
  PROVE  RingsOK(nd2, L \cup {x}, P)
<1>1. SUFFICES ASSUME NEW p \in P \cup {None}, RingSet(nd2, L \cup {x}, p) # {}
               PROVE  IsRing(nd2, RingSet(nd2, L \cup {x}, p))
  BY DEF RingsOK
<1>2. nd2[x].sup # None /\ x # RootIndex
  BY DEF FibIndex, None, RootIndex
<1>3. CASE p = nd2[x].sup
  <2>1. RingSet(nd2, L \cup {x}, p) = {x}
    <3>1. \A y \in L : nd2[y].sup # p
      BY <1>3 DEF RingSet
    <3>2. QED BY <1>2, <1>3, <3>1 DEF RingSet
  <2>2. IsRing(nd2, {x})
    BY RingAlone
  <2>3. QED BY <2>1, <2>2
<1>4. CASE p # nd2[x].sup
  <2>1. RingSet(nd2, L \cup {x}, p) = RingSet(nd, L, p)
    BY <1>4 DEF RingSet
  <2>2. RingSet(nd, L, p) \subseteq L \cup {RootIndex}
    BY DEF RingSet
  <2>3. IsRing(nd, RingSet(nd, L, p))
    BY <1>1, <2>1 DEF RingsOK
  <2>4. QED BY <2>1, <2>2, <2>3, RingSame
<1>5. QED BY <1>3, <1>4
-----------------------------------------------------------------------------
(* Forests: no event is its own ancestor, since every set of events has    *)
(* one whose parent is not in the set.                                     *)
Acyclic(nd, L) == \A T \in SUBSET L : T # {} => \E x \in T : nd[x].sup \notin T

(* Nodes that lose their parent, and nodes that leave, do no harm.         *)
LEMMA AcyclicCut ==
  ASSUME NEW nd, NEW nd2, NEW L, NEW L2 \in SUBSET FibIndex, Acyclic(nd, L),
         \A y \in L2 : nd2[y].sup = None \/ (y \in L /\ nd2[y].sup = nd[y].sup)
  PROVE  Acyclic(nd2, L2)
<1>1. SUFFICES ASSUME NEW T \in SUBSET L2, T # {}
               PROVE  \E x \in T : nd2[x].sup \notin T
  BY DEF Acyclic
<1>2. None \notin T
  BY DEF None, FibIndex
<1>3. CASE \E y \in T : nd2[y].sup = None
  BY <1>2, <1>3
<1>4. CASE \A y \in T : nd2[y].sup # None
  <2>1. T \in SUBSET L
    BY <1>4
  <2>2. PICK x \in T : nd[x].sup \notin T
    BY <1>1, <2>1 DEF Acyclic
  <2>3. QED BY <1>4, <2>2
<1>5. QED BY <1>3, <1>4

LEMMA AcyclicCutSame ==
  ASSUME NEW nd, NEW nd2, NEW L \in SUBSET FibIndex, Acyclic(nd, L),
         \A y \in L : nd2[y].sup = None \/ nd2[y].sup = nd[y].sup
  PROVE  Acyclic(nd2, L)
BY AcyclicCut

(* One root becomes a child of another.                                    *)
LEMMA AcyclicLink ==
  ASSUME NEW nd, NEW nd2, NEW L \in SUBSET FibIndex, Acyclic(nd, L),
         NEW win \in L, NEW lose \in L, win # lose, nd[win].sup = None,
         nd2[lose].sup = win,
         \A y \in L \ {lose} : nd2[y].sup = nd[y].sup
  PROVE  Acyclic(nd2, L)
<1>1. SUFFICES ASSUME NEW T \in SUBSET L, T # {}
               PROVE  \E x \in T : nd2[x].sup \notin T
  BY DEF Acyclic
<1>2. None \notin T
  BY DEF None, FibIndex
<1>3. PICK x \in T : nd[x].sup \notin T
  BY <1>1 DEF Acyclic
<1>4. CASE x # lose
  BY <1>3, <1>4
<1>5. CASE x = lose /\ win \in T
  BY <1>2, <1>5
<1>6. CASE x = lose /\ win \notin T
  BY <1>6
<1>7. QED BY <1>4, <1>5, <1>6

(* If there are events there is a root, and a root that is least of the    *)
(* roots is least of all.                                                  *)
LEMMA RootExists ==
  ASSUME NEW nd, NEW L, Acyclic(nd, L), L # {},
         \A x \in L : nd[x].sup \in L \cup {None}
  PROVE  \E x \in L : nd[x].sup = None
BY DEF Acyclic

LEMMA LeastRootIsLeast ==
  ASSUME NEW nd, NEW L \in SUBSET FibIndex, Acyclic(nd, L),
         \A x \in L : nd[x].sup \in L \cup {None},
         NEW ev, \A x \in L : ev[x] \in Nat,
         \A x \in L : nd[x].sup \in L => ev[nd[x].sup] <= ev[x],
         NEW m \in L, \A x \in L : nd[x].sup = None => ev[m] <= ev[x]
  PROVE  \A x \in L : ev[m] <= ev[x]
<1> DEFINE T == {x \in L : ~(ev[m] <= ev[x])}
<1>1. SUFFICES ASSUME T # {} PROVE FALSE
  OBVIOUS
<1>2. PICK x \in T : nd[x].sup \notin T
  BY <1>1 DEF Acyclic
<1>3. nd[x].sup \in L
  BY <1>2
<1>4. ev[nd[x].sup] <= ev[x] /\ ev[m] <= ev[nd[x].sup]
  BY <1>2, <1>3
<1>5. QED BY <1>2, <1>3, <1>4
-----------------------------------------------------------------------------
(* What is left of a ring while its nodes are cut off, from c round to b.  *)
IsChain(nd, R, b, c) ==
  /\ c \in R /\ (b \in R => b = c)
  /\ \A y \in R : nd[y].next = b \/ (/\ nd[y].next \in R \ {c}
                                     /\ nd[nd[y].next].prev = y)
  /\ \A T \in SUBSET R :
       c \in T /\ (\A y \in T : nd[y].next = b \/ nd[y].next \in T) => T = R

LEMMA RingIsChain ==
  ASSUME NEW nd, NEW R, IsRing(nd, R), NEW b \in R
  PROVE  IsChain(nd, R, b, b)
<1>1. \A y \in R : nd[y].next = b \/ (/\ nd[y].next \in R \ {b}
                                       /\ nd[nd[y].next].prev = y)
  BY DEF IsRing
<1>2. ASSUME NEW T \in SUBSET R, b \in T,
             \A y \in T : nd[y].next = b \/ nd[y].next \in T
      PROVE  T = R
  BY <1>2 DEF IsRing
<1>3. QED BY <1>1, <1>2 DEF IsChain

LEMMA ChainSame ==
  ASSUME NEW nd, NEW nd2, NEW R, NEW b, NEW c, IsChain(nd, R, b, c),
         \A y \in R : nd2[y].next = nd[y].next /\ nd2[y].prev = nd[y].prev
  PROVE  IsChain(nd2, R, b, c)
<1>1. ASSUME NEW T \in SUBSET R, c \in T,
             \A y \in T : nd2[y].next = b \/ nd2[y].next \in T
      PROVE  T = R
  <2>1. \A y \in T : nd[y].next = b \/ nd[y].next \in T
    BY <1>1
  <2>2. QED BY <1>1, <2>1 DEF IsChain
<1>2. QED BY <1>1 DEF IsChain

LEMMA ChainCut ==
  ASSUME NEW nd, NEW R, NEW b, NEW c, IsChain(nd, R, b, c), nd[c].next # b
  PROVE  IsChain(nd, R \ {c}, b, nd[c].next)
<1> DEFINE n == nd[c].next
<1>1. c \in R /\ n \in R \ {c} /\ nd[n].prev = c
  BY DEF IsChain
<1>2. b \notin R \ {c}
  BY DEF IsChain
<1>3. \A y \in R \ {c} : nd[y].next = b \/ (/\ nd[y].next \in (R \ {c}) \ {n}
                                             /\ nd[nd[y].next].prev = y)
  BY <1>1 DEF IsChain
<1>4. ASSUME NEW T \in SUBSET (R \ {c}), n \in T,
             \A y \in T : nd[y].next = b \/ nd[y].next \in T
      PROVE  T = R \ {c}
  <2>1. T \cup {c} \in SUBSET R /\ c \in T \cup {c}
    BY <1>1
  <2>2. \A y \in T \cup {c} : nd[y].next = b \/ nd[y].next \in T \cup {c}
    BY <1>4
  <2>3. T \cup {c} = R
    BY <2>1, <2>2 DEF IsChain
  <2>4. QED BY <2>3
<1>5. QED BY <1>1, <1>2, <1>3, <1>4 DEF IsChain

LEMMA ChainLast ==
  ASSUME NEW nd, NEW R, NEW b, NEW c, IsChain(nd, R, b, c), nd[c].next = b
  PROVE  R = {c}
<1>1. {c} \in SUBSET R
  BY DEF IsChain
<1>2. QED BY <1>1 DEF IsChain
-----------------------------------------------------------------------------
(* Children are counted, and sub names one of them if there are any.       *)
Counted(nd, L, p, k) == nd[p].nSub = Cardinality(RingSet(nd, L, p)) + k

SubNamed(nd, L, p, c) ==
  IF RingSet(nd, L, p) = {} THEN c = None ELSE c \in RingSet(nd, L, p)

LEMMA FibIndexFinite == IsFiniteSet(FibIndex)
<1>1. FibN \in Nat
  BY FibAssumption
<1>2. QED BY <1>1, FS_Interval DEF FibIndex

LEMMA RingSetFinite ==
  ASSUME NEW nd, NEW L \in SUBSET FibIndex, NEW p
  PROVE  /\ IsFiniteSet(RingSet(nd, L, p))
         /\ Cardinality(RingSet(nd, L, p)) \in Nat
         /\ Cardinality(RingSet(nd, L, p)) = 0 <=> RingSet(nd, L, p) = {}
<1>1. IsFiniteSet(FibIndex \cup {RootIndex})
  BY FibIndexFinite, FS_AddElement
<1>2. RingSet(nd, L, p) \subseteq FibIndex \cup {RootIndex}
  BY DEF RingSet
<1>3. IsFiniteSet(RingSet(nd, L, p))
  BY <1>1, <1>2, FS_Subset
<1>4. QED BY <1>3, FS_CardinalityType, FS_EmptySet

(* How the ring sets change when a node joins, leaves or changes parents.  *)
LEMMA RingSetAdd ==
  ASSUME NEW nd, NEW nd2, NEW L, NEW x, \A y \in L : nd2[y].sup = nd[y].sup,
         NEW p
  PROVE  RingSet(nd2, L \cup {x}, p)
           = IF p = nd2[x].sup THEN RingSet(nd, L, p) \cup {x} ELSE RingSet(nd, L, p)
BY DEF RingSet

LEMMA RingSetRemove ==
  ASSUME NEW nd, NEW nd2, NEW L \in SUBSET FibIndex, NEW x \in FibIndex,
         \A y \in L \ {x} : nd2[y].sup = nd[y].sup, NEW p
  PROVE  RingSet(nd2, L \ {x}, p) = RingSet(nd, L, p) \ {x}
<1>1. x # RootIndex
  BY DEF FibIndex, RootIndex
<1>2. QED BY <1>1 DEF RingSet

LEMMA CountAdd ==
  ASSUME NEW S, IsFiniteSet(S), NEW x, x \notin S
  PROVE  Cardinality(S \cup {x}) = Cardinality(S) + 1
BY FS_AddElement

LEMMA CountRemove ==
  ASSUME NEW S, IsFiniteSet(S), NEW x \in S
  PROVE  Cardinality(S) = Cardinality(S \ {x}) + 1
<1>1. Cardinality(S \ {x}) = Cardinality(S) - 1
  BY FS_RemoveElement
<1>2. Cardinality(S) \in Nat
  BY FS_CardinalityType
<1>3. QED BY <1>1, <1>2

(* The node after x in its ring is another one if there is another one.    *)
LEMMA NextIsOther ==
  ASSUME NEW nd, NEW S, IsRing(nd, S), NEW x \in S, S \ {x} # {}
  PROVE  nd[x].next \in S \ {x}
<1>1. SUFFICES ASSUME nd[x].next = x PROVE FALSE
  BY DEF IsRing
<1>2. {x} \in SUBSET S /\ \A y \in {x} : nd[y].next \in {x}
  BY <1>1
<1>3. {x} = S
  BY <1>2 DEF IsRing
<1>4. QED BY <1>3

-----------------------------------------------------------------------------
(* Changes of the other fields of a node.                                  *)
LEMMA MarkType ==
  ASSUME NEW nd \in [AllNodes -> NodeRec], NEW x \in AllNodes, NEW b \in BOOLEAN
  PROVE  [nd EXCEPT ![x].isMarked = b] \in [AllNodes -> NodeRec]
<1> DEFINE r == nd[x]
<1>0. r \in NodeRec
  OBVIOUS
<1> HIDE DEF r
<1>1. [r EXCEPT !.isMarked = b] \in NodeRec
  BY <1>0, Zenon DEF NodeRec
<1> USE DEF r
<1>2. [nd EXCEPT ![x].isMarked = b]
        = [nd EXCEPT ![x] = [nd[x] EXCEPT !.isMarked = b]]
  OBVIOUS
<1>3. QED BY <1>1, <1>2

Adopt(nd, x, w) == [nd EXCEPT ![x].isMarked = FALSE, ![x].sup = w]

LEMMA AdoptFacts ==
  ASSUME NEW nd \in [AllNodes -> NodeRec], NEW x \in AllNodes,
         NEW w \in FibIndex \cup {None}, NEW nd2, nd2 = Adopt(nd, x, w)
  PROVE  /\ nd2 \in [AllNodes -> NodeRec]
         /\ nd2[x].sup = w
         /\ \A y \in AllNodes :
              /\ y # x => nd2[y].sup = nd[y].sup
              /\ nd2[y].sub = nd[y].sub /\ nd2[y].nSub = nd[y].nSub
              /\ nd2[y].next = nd[y].next /\ nd2[y].prev = nd[y].prev
<1>1. PICK m : m = [nd EXCEPT ![x].isMarked = FALSE]
  OBVIOUS
<1>2. m \in [AllNodes -> NodeRec]
  BY <1>1, MarkType
<1>3. nd2 = [m EXCEPT ![x].sup = w]
  BY <1>1 DEF Adopt
<1>4. nd2 \in [AllNodes -> NodeRec]
  <2> HIDE <1>1
  <2>1. [m EXCEPT ![x].sup = w] \in [AllNodes -> NodeRec]
    BY <1>2 DEF NodeRec
  <2>2. QED BY <1>3, <2>1
<1>5. /\ nd2[x].sup = w
      /\ \A y \in AllNodes :
           /\ y # x => nd2[y].sup = nd[y].sup
           /\ nd2[y].sub = nd[y].sub /\ nd2[y].nSub = nd[y].nSub
           /\ nd2[y].next = nd[y].next /\ nd2[y].prev = nd[y].prev
  BY DEF Adopt, NodeRec
<1>6. QED BY <1>4, <1>5

OneMore(nd, x) == [nd EXCEPT ![x].nSub = @ + 1]

LEMMA OneMoreFacts ==
  ASSUME NEW nd \in [AllNodes -> NodeRec], NEW x \in AllNodes, NEW nd2,
         nd2 = OneMore(nd, x)
  PROVE  /\ nd2 \in [AllNodes -> NodeRec]
         /\ nd2[x].nSub = nd[x].nSub + 1
         /\ \A y \in AllNodes :
              /\ nd2[y].sup = nd[y].sup /\ nd2[y].sub = nd[y].sub
              /\ y # x => nd2[y].nSub = nd[y].nSub
              /\ nd2[y].next = nd[y].next /\ nd2[y].prev = nd[y].prev
<1>1. nd[x].nSub \in Nat
  BY DEF NodeRec
<1>2. nd2 \in [AllNodes -> NodeRec]
  BY <1>1 DEF OneMore, NodeRec
<1>3. /\ nd2[x].nSub = nd[x].nSub + 1
      /\ \A y \in AllNodes :
           /\ nd2[y].sup = nd[y].sup /\ nd2[y].sub = nd[y].sub
           /\ y # x => nd2[y].nSub = nd[y].nSub
           /\ nd2[y].next = nd[y].next /\ nd2[y].prev = nd[y].prev
  BY <1>1 DEF OneMore, NodeRec
<1>4. QED BY <1>2, <1>3

OnlyChild(nd, w, x) ==
  [nd EXCEPT ![w].sub = x, ![w].nSub = 1, ![w].isMarked = FALSE,
             ![x].next = x, ![x].prev = x]

LEMMA OnlyChildFacts ==
  ASSUME NEW nd \in [AllNodes -> NodeRec], NEW w \in AllNodes,
         NEW x \in FibIndex, w # x, NEW nd2, nd2 = OnlyChild(nd, w, x)
  PROVE  /\ nd2 \in [AllNodes -> NodeRec]
         /\ nd2[w].nSub = 1 /\ nd2[w].sub = x
         /\ nd2[x].next = x /\ nd2[x].prev = x
         /\ \A y \in AllNodes :
              /\ nd2[y].sup = nd[y].sup
              /\ y # w => nd2[y].sub = nd[y].sub /\ nd2[y].nSub = nd[y].nSub
              /\ y # x => nd2[y].next = nd[y].next /\ nd2[y].prev = nd[y].prev
<1>0. x \in AllNodes
  BY DEF AllNodes
<1>1. PICK a : a = [nd EXCEPT ![w].sub = x, ![w].nSub = 1]
  OBVIOUS
<1>2. a \in [AllNodes -> NodeRec]
  BY <1>1 DEF NodeRec
<1>3. PICK m : m = [a EXCEPT ![w].isMarked = FALSE]
  OBVIOUS
<1>4. m \in [AllNodes -> NodeRec]
  BY <1>2, <1>3, MarkType
<1>5. nd2 = [m EXCEPT ![x].next = x, ![x].prev = x]
  BY <1>1, <1>3 DEF OnlyChild
<1>6. nd2 \in [AllNodes -> NodeRec]
  <2>1. PICK c : c = [m EXCEPT ![x].next = x]
    OBVIOUS
  <2>2. c \in [AllNodes -> NodeRec]
    BY <1>0, <1>4, <2>1 DEF NodeRec
  <2>3. nd2 = [c EXCEPT ![x].prev = x]
    BY <1>5, <2>1
  <2>4. [c EXCEPT ![x].prev = x] \in [AllNodes -> NodeRec]
    BY <1>0, <2>2 DEF NodeRec
  <2>5. QED BY <2>3, <2>4
<1>7. /\ a[w].nSub = 1 /\ a[w].sub = x
      /\ \A y \in AllNodes :
           /\ a[y].sup = nd[y].sup
           /\ y # w => a[y].sub = nd[y].sub /\ a[y].nSub = nd[y].nSub
           /\ a[y].next = nd[y].next /\ a[y].prev = nd[y].prev
  BY <1>1 DEF NodeRec
<1>8. \A y \in AllNodes :
        /\ m[y].sup = a[y].sup /\ m[y].sub = a[y].sub /\ m[y].nSub = a[y].nSub
        /\ m[y].next = a[y].next /\ m[y].prev = a[y].prev
  BY <1>2, <1>3 DEF NodeRec
<1>9. /\ nd2[x].next = x /\ nd2[x].prev = x
      /\ \A y \in AllNodes :
           /\ nd2[y].sup = m[y].sup /\ nd2[y].sub = m[y].sub
           /\ nd2[y].nSub = m[y].nSub
           /\ y # x => nd2[y].next = m[y].next /\ nd2[y].prev = m[y].prev
  BY <1>0, <1>4, <1>5 DEF NodeRec
<1>10. QED BY <1>6, <1>7, <1>8, <1>9

LEMMA LoseChildFacts ==
  ASSUME NEW nd \in [AllNodes -> NodeRec], NEW x \in AllNodes,
         nd[x].nSub # 0, NEW n, nd[x].nSub # 1 => n \in FibIndex,
         NEW nd2, nd2 = LoseChild(nd, x, n)
  PROVE  /\ nd2 \in [AllNodes -> NodeRec]
         /\ nd2[x].nSub = nd[x].nSub - 1
         /\ nd2[x].sub = IF nd[x].nSub = 1 THEN None ELSE n
         /\ \A y \in AllNodes :
              /\ nd2[y].sup = nd[y].sup
              /\ y # x => nd2[y].sub = nd[y].sub /\ nd2[y].nSub = nd[y].nSub
              /\ nd2[y].next = nd[y].next /\ nd2[y].prev = nd[y].prev
<1>1. nd[x].nSub \in Nat /\ nd[x].nSub - 1 \in Nat
  BY DEF NodeRec
<1>2. PICK c : c = IF nd[x].nSub = 1 THEN None ELSE n
  OBVIOUS
<1>3. c \in FibIndex \cup {None}
  BY <1>2
<1>4. PICK a : a = [nd EXCEPT ![x].nSub = @ - 1]
  OBVIOUS
<1>5. a \in [AllNodes -> NodeRec]
  BY <1>1, <1>4 DEF NodeRec
<1>6. PICK m : m = [a EXCEPT ![x].isMarked = TRUE]
  OBVIOUS
<1>7. m \in [AllNodes -> NodeRec]
  BY <1>5, <1>6, MarkType
<1>8. nd2 = [m EXCEPT ![x].sub = c]
  BY <1>2, <1>4, <1>6 DEF LoseChild
<1>9. nd2 \in [AllNodes -> NodeRec]
  BY <1>3, <1>7, <1>8 DEF NodeRec
<1>10. /\ a[x].nSub = nd[x].nSub - 1
       /\ \A y \in AllNodes :
            /\ a[y].sup = nd[y].sup /\ a[y].sub = nd[y].sub
            /\ y # x => a[y].nSub = nd[y].nSub
            /\ a[y].next = nd[y].next /\ a[y].prev = nd[y].prev
  BY <1>1, <1>4 DEF NodeRec
<1>11. \A y \in AllNodes :
         /\ m[y].sup = a[y].sup /\ m[y].sub = a[y].sub /\ m[y].nSub = a[y].nSub
         /\ m[y].next = a[y].next /\ m[y].prev = a[y].prev
  BY <1>5, <1>6 DEF NodeRec
<1>12. /\ nd2[x].sub = c
       /\ \A y \in AllNodes :
            /\ nd2[y].sup = m[y].sup /\ nd2[y].nSub = m[y].nSub
            /\ y # x => nd2[y].sub = m[y].sub
            /\ nd2[y].next = m[y].next /\ nd2[y].prev = m[y].prev
  BY <1>7, <1>8 DEF NodeRec
<1>13. QED BY <1>2, <1>9, <1>10, <1>11, <1>12

(* A node that gets no parent.                                             *)
CutOff(nd, x) == [nd EXCEPT ![x].sup = None]

LEMMA CutFacts ==
  ASSUME NEW nd \in [AllNodes -> NodeRec], NEW x \in AllNodes, NEW nd2,
         nd2 = CutOff(nd, x)
  PROVE  /\ nd2 \in [AllNodes -> NodeRec]
         /\ nd2[x].sup = None
         /\ \A y \in AllNodes :
              /\ y # x => nd2[y].sup = nd[y].sup
              /\ nd2[y].sub = nd[y].sub /\ nd2[y].nSub = nd[y].nSub
              /\ nd2[y].next = nd[y].next /\ nd2[y].prev = nd[y].prev
BY DEF CutOff, NodeRec

Renew(nd, x) == [nd EXCEPT ![x] = NewNode]

LEMMA NewNodeFacts ==
  ASSUME NEW nd \in [AllNodes -> NodeRec], NEW x \in AllNodes, NEW nd2,
         nd2 = Renew(nd, x)
  PROVE  /\ nd2 \in [AllNodes -> NodeRec]
         /\ nd2[x] = NewNode
         /\ \A y \in AllNodes : y # x => nd2[y] = nd[y]
<1>1. NewNode \in NodeRec
  BY Zenon DEF NewNode, NodeRec, AllNodes
<1>2. QED BY <1>1 DEF Renew

(* addRoot of a node that is in no ring.                                   *)
LEMMA AddRootFacts ==
  ASSUME NEW nd \in [AllNodes -> NodeRec], NEW L \in SUBSET FibIndex, NEW P,
         RingsOK(nd, L, P), NEW x \in FibIndex \ L, nd[x].sup = None,
         NEW nd2, nd2 = AddRoot(nd, x)
  PROVE  /\ nd2 \in [AllNodes -> NodeRec]
         /\ SameButLinks(nd, nd2)
         /\ RingsOK(nd2, L \cup {x}, P)
         /\ SameLinks(nd, nd2, AllNodes \ (RingSet(nd, L, None) \cup {x}))
<1>1. x \in AllNodes /\ RootIndex \in AllNodes /\ x # RootIndex
  BY DEF AllNodes, FibIndex, RootIndex
<1>2. RootIndex \in RingSet(nd, L, None) /\ x \notin RingSet(nd, L, None)
  BY <1>1 DEF RingSet
<1>3. IsRing(nd, RingSet(nd, L, None))
  BY <1>2 DEF RingsOK
<1>4. nd[RootIndex].next \in RingSet(nd, L, None)
  BY <1>2, <1>3 DEF IsRing
<1>5. nd2 = LinkAfter(nd, RootIndex, x)
  BY DEF AddRoot
<1>6. /\ nd2 \in [AllNodes -> NodeRec]
      /\ SameButLinks(nd, nd2)
      /\ \A y \in AllNodes :
           /\ nd2[y].next = IF y = RootIndex THEN x
                            ELSE IF y = x THEN nd[RootIndex].next ELSE nd[y].next
           /\ nd2[y].prev = IF y = x THEN RootIndex
                            ELSE IF y = nd[RootIndex].next THEN x ELSE nd[y].prev
  BY <1>1, <1>2, <1>4, <1>5, LinkAfterFacts
<1>7. RingsOK(nd2, L \cup {x}, P)
  BY <1>2, <1>5, RingsLink
<1>8. SameLinks(nd, nd2, AllNodes \ (RingSet(nd, L, None) \cup {x}))
  BY <1>2, <1>4, <1>6 DEF SameLinks
<1>9. QED BY <1>6, <1>7, <1>8

(* One root becomes the child of another.                                  *)
LEMMA LinkUnderFacts ==
  ASSUME NEW nd \in [AllNodes -> NodeRec], NEW L \in SUBSET FibIndex,
         RingsOK(nd, L, L), NEW win \in L, NEW lose \in L, win # lose,
         nd[win].sup = None, nd[lose].sup = None,
         SubNamed(nd, L, win, nd[win].sub), Counted(nd, L, win, 0),
         NEW nd2, nd2 = LinkUnder(nd, win, lose)
  PROVE  /\ nd2 \in [AllNodes -> NodeRec]
         /\ RingsOK(nd2, L, L)
         /\ \A y \in L : nd2[y].sup = IF y = lose THEN win ELSE nd[y].sup
         /\ \A y \in L \ {win} : nd2[y].sub = nd[y].sub /\ nd2[y].nSub = nd[y].nSub
         /\ nd2[win].nSub = nd[win].nSub + 1
         /\ nd2[win].sub \in RingSet(nd2, L, win)
         /\ \A y \in RingSet(nd, L, None) \ {lose} :
              /\ nd2[y].next = IF y = nd[lose].prev THEN nd[lose].next ELSE nd[y].next
              /\ nd2[y].prev = IF y = nd[lose].next THEN nd[lose].prev ELSE nd[y].prev
<1>1. /\ L \subseteq AllNodes /\ RootIndex \in AllNodes
      /\ win \in FibIndex /\ lose \in FibIndex /\ win # None /\ lose # RootIndex
  BY DEF AllNodes, FibIndex, RootIndex, None
<1>2. PICK u : u = Unlink(nd, lose)
  OBVIOUS
<1>3. /\ u \in [AllNodes -> NodeRec]
      /\ SameButLinks(nd, u)
      /\ \A y \in AllNodes :
           /\ u[y].next = IF y = nd[lose].prev THEN nd[lose].next ELSE nd[y].next
           /\ u[y].prev = IF y = nd[lose].next THEN nd[lose].prev ELSE nd[y].prev
  BY <1>1, <1>2, UnlinkFacts
<1>4. RingsOK(u, L \ {lose}, L)
  BY <1>1, <1>2, RingsUnlink
<1>5. PICK out : out = Adopt(u, lose, win)
  OBVIOUS
<1>6. /\ out \in [AllNodes -> NodeRec]
      /\ out[lose].sup = win
      /\ \A y \in AllNodes :
           /\ y # lose => out[y].sup = nd[y].sup
           /\ out[y].sub = nd[y].sub /\ out[y].nSub = nd[y].nSub
           /\ out[y].next = u[y].next /\ out[y].prev = u[y].prev
  <2>1. lose \in AllNodes /\ win \in FibIndex \cup {None}
    BY <1>1
  <2>2. /\ out \in [AllNodes -> NodeRec]
        /\ out[lose].sup = win
        /\ \A y \in AllNodes :
             /\ y # lose => out[y].sup = u[y].sup
             /\ out[y].sub = u[y].sub /\ out[y].nSub = u[y].nSub
             /\ out[y].next = u[y].next /\ out[y].prev = u[y].prev
    BY <1>3, <1>5, <2>1, AdoptFacts
  <2>3. QED BY <1>3, <2>2 DEF SameButLinks
<1>7. RingsOK(out, L \ {lose}, L)
  <2>1. \A y \in L \ {lose} : out[y].sup = u[y].sup
    BY <1>1, <1>3, <1>6 DEF SameButLinks
  <2>2. \A y \in (L \ {lose}) \cup {RootIndex} :
          out[y].next = u[y].next /\ out[y].prev = u[y].prev
    BY <1>1, <1>6
  <2>3. QED BY <1>4, <2>1, <2>2, RingsSame
<1>8. RingSet(out, L \ {lose}, win) = RingSet(nd, L, win)
  BY <1>1, <1>6 DEF RingSet
<1>9. \A y \in RingSet(nd, L, None) : y \in AllNodes /\ y \notin RingSet(nd, L, win)
  BY <1>1 DEF RingSet, FibIndex, RootIndex
<1>10. CASE out[win].sub # None
  <2>1. PICK c : c = nd[win].sub
    OBVIOUS
  <2>2. c \in RingSet(nd, L, win)
    BY <1>1, <1>6, <1>10, <2>1 DEF SubNamed
  <2>3. PICK nd1 : nd1 = OneMore(out, win)
    OBVIOUS
  <2>4. /\ nd1 \in [AllNodes -> NodeRec]
        /\ nd1[win].nSub = nd[win].nSub + 1
        /\ \A y \in AllNodes :
             /\ nd1[y].sup = out[y].sup /\ nd1[y].sub = nd[y].sub
             /\ y # win => nd1[y].nSub = nd[y].nSub
             /\ nd1[y].next = u[y].next /\ nd1[y].prev = u[y].prev
    <3>1. win \in AllNodes /\ out[win].nSub = nd[win].nSub
      BY <1>1, <1>6
    <3>2. /\ nd1 \in [AllNodes -> NodeRec]
          /\ nd1[win].nSub = out[win].nSub + 1
          /\ \A y \in AllNodes :
               /\ nd1[y].sup = out[y].sup /\ nd1[y].sub = out[y].sub
               /\ y # win => nd1[y].nSub = out[y].nSub
               /\ nd1[y].next = out[y].next /\ nd1[y].prev = out[y].prev
      BY <1>6, <2>3, <3>1, OneMoreFacts
    <3>3. QED BY <1>6, <3>1, <3>2
  <2>5. nd2 = LinkAfter(nd1, c, lose)
    BY <1>1, <1>2, <1>5, <1>6, <1>10, <2>1, <2>3 DEF LinkUnder, Adopt, OneMore
  <2>6. RingsOK(nd1, L \ {lose}, L)
    BY <1>1, <1>6, <1>7, <2>4, RingsSame
  <2>7. RingSet(nd1, L \ {lose}, win) = RingSet(nd, L, win)
    BY <1>1, <1>6, <2>4 DEF RingSet
  <2>8. /\ nd1[lose].sup = win /\ lose \in FibIndex \ (L \ {lose})
        /\ c \in RingSet(nd1, L \ {lose}, nd1[lose].sup)
    BY <1>1, <1>6, <2>2, <2>4, <2>7
  <2>9. RingsOK(nd2, (L \ {lose}) \cup {lose}, L)
    BY <2>4, <2>5, <2>6, <2>8, RingsLink
  <2>10. (L \ {lose}) \cup {lose} = L
    OBVIOUS
  <2>11. IsRing(nd1, RingSet(nd1, L \ {lose}, win))
    BY <2>2, <2>6, <2>7 DEF RingsOK
  <2>12. nd1[c].next \in RingSet(nd, L, win)
    BY <2>2, <2>7, <2>11 DEF IsRing
  <2>13. c \in AllNodes /\ c # lose /\ nd1[c].next # lose
    BY <1>1, <2>2, <2>12 DEF RingSet
  <2>14. /\ nd2 \in [AllNodes -> NodeRec]
         /\ SameButLinks(nd1, nd2)
         /\ \A y \in AllNodes :
              /\ nd2[y].next = IF y = c THEN lose
                               ELSE IF y = lose THEN nd1[c].next ELSE nd1[y].next
              /\ nd2[y].prev = IF y = lose THEN c
                               ELSE IF y = nd1[c].next THEN lose ELSE nd1[y].prev
    BY <1>1, <2>4, <2>5, <2>13, LinkAfterFacts
  <2>15. \A y \in L : nd2[y].sup = IF y = lose THEN win ELSE nd[y].sup
    BY <1>1, <1>6, <2>4, <2>14 DEF SameButLinks
  <2>16. \A y \in L \ {win} : nd2[y].sub = nd[y].sub /\ nd2[y].nSub = nd[y].nSub
    BY <1>1, <2>4, <2>14 DEF SameButLinks
  <2>17. nd2[win].nSub = nd[win].nSub + 1 /\ nd2[win].sub = c
    BY <1>1, <2>1, <2>4, <2>14 DEF SameButLinks
  <2>18. c \in RingSet(nd2, L, win)
    BY <1>1, <2>2, <2>15 DEF RingSet
  <2>19. \A y \in RingSet(nd, L, None) \ {lose} :
           /\ nd2[y].next = IF y = nd[lose].prev THEN nd[lose].next ELSE nd[y].next
           /\ nd2[y].prev = IF y = nd[lose].next THEN nd[lose].prev ELSE nd[y].prev
    <3>1. SUFFICES ASSUME NEW y \in RingSet(nd, L, None) \ {lose}
                   PROVE  nd2[y].next = u[y].next /\ nd2[y].prev = u[y].prev
      BY <1>3, <1>9
    <3>2. y \in AllNodes /\ y # c /\ y # lose /\ y # nd1[c].next
      BY <1>9, <2>2, <2>12
    <3>3. QED BY <2>4, <2>14, <3>2
  <2>20. QED BY <2>9, <2>10, <2>14, <2>15, <2>16, <2>17, <2>18, <2>19
<1>11. CASE out[win].sub = None
  <2>1. RingSet(nd, L, win) = {}
    <3>1. RingSet(nd, L, win) \subseteq L
      BY <1>1 DEF RingSet
    <3>2. None \notin L
      BY DEF FibIndex, None
    <3>3. QED BY <1>1, <1>6, <1>11, <3>1, <3>2 DEF SubNamed
  <2>2. nd[win].nSub = 0
    BY <2>1, FS_EmptySet DEF Counted
  <2>3. nd2 = OnlyChild(out, win, lose)
    BY <1>2, <1>5, <1>11 DEF LinkUnder, Adopt, OnlyChild
  <2>4. /\ nd2 \in [AllNodes -> NodeRec]
        /\ nd2[win].nSub = 1 /\ nd2[win].sub = lose
        /\ nd2[lose].next = lose /\ nd2[lose].prev = lose
        /\ \A y \in AllNodes :
             /\ nd2[y].sup = out[y].sup
             /\ y # win => nd2[y].sub = out[y].sub /\ nd2[y].nSub = out[y].nSub
             /\ y # lose => nd2[y].next = out[y].next /\ nd2[y].prev = out[y].prev
    <3>1. win \in AllNodes /\ lose \in FibIndex /\ win # lose
      BY <1>1
    <3>2. QED BY <1>6, <2>3, <3>1, OnlyChildFacts
  <2>5. \A y \in L : nd2[y].sup = IF y = lose THEN win ELSE nd[y].sup
    BY <1>1, <1>6, <2>4
  <2>6. lose \in RingSet(nd2, L, win)
    BY <2>5 DEF RingSet
  <2>7. RingsOK(nd2, (L \ {lose}) \cup {lose}, L)
    <3>1. nd2[lose].sup = win /\ RingSet(out, L \ {lose}, nd2[lose].sup) = {}
      BY <1>8, <2>1, <2>5
    <3>2. \A y \in L \ {lose} : nd2[y].sup = out[y].sup
      BY <1>1, <2>4
    <3>3. \A y \in (L \ {lose}) \cup {RootIndex} :
            nd2[y].next = out[y].next /\ nd2[y].prev = out[y].prev
      BY <1>1, <2>4
    <3>4. /\ lose \in FibIndex \ (L \ {lose}) /\ nd2[lose].sup \in FibIndex
          /\ L \ {lose} \in SUBSET FibIndex
      BY <1>1, <3>1
    <3>5. PICK M : M = L \ {lose}
      OBVIOUS
    <3>6. /\ M \in SUBSET FibIndex /\ RingsOK(out, M, L) /\ lose \in FibIndex \ M
          /\ RingSet(out, M, nd2[lose].sup) = {}
          /\ \A y \in M : nd2[y].sup = out[y].sup
          /\ \A y \in M \cup {RootIndex} :
               nd2[y].next = out[y].next /\ nd2[y].prev = out[y].prev
      BY <1>7, <3>1, <3>2, <3>3, <3>4, <3>5
    <3>7. RingsOK(nd2, M \cup {lose}, L)
      <4>1. nd2[lose].sup \in FibIndex /\ nd2[lose].next = lose /\ nd2[lose].prev = lose
        BY <2>4, <3>4
      <4>2. QED BY <3>6, <4>1, RingsAlone
    <3>8. QED BY <3>5, <3>7
  <2>8. (L \ {lose}) \cup {lose} = L
    OBVIOUS
  <2>9. \A y \in RingSet(nd, L, None) \ {lose} :
          /\ nd2[y].next = IF y = nd[lose].prev THEN nd[lose].next ELSE nd[y].next
          /\ nd2[y].prev = IF y = nd[lose].next THEN nd[lose].prev ELSE nd[y].prev
    BY <1>3, <1>6, <1>9, <2>4
  <2>10. \A y \in L \ {win} : nd2[y].sub = nd[y].sub /\ nd2[y].nSub = nd[y].nSub
    BY <1>1, <1>6, <2>4
  <2>11. nd2[win].nSub = nd[win].nSub + 1 /\ nd2[win].sub \in RingSet(nd2, L, win)
    BY <2>2, <2>4, <2>6
  <2>12. nd2 \in [AllNodes -> NodeRec] /\ RingsOK(nd2, L, L)
    BY <2>4, <2>7, <2>8
  <2>13. QED BY <2>5, <2>9, <2>10, <2>11, <2>12
<1>12. QED BY <1>10, <1>11
-----------------------------------------------------------------------------
(* The heap of the events L that are linked, while the nodes of K are being *)
(* taken out with their children, and a has lost the child before n in its  *)
(* ring (none has if a is None).                                            *)
ForestOK(nd, L, K) ==
  (\A x \in L : nd[x].sup \in L \cup {None} \cup K) /\ Acyclic(nd, L)

KidsOK(nd, L, a) ==
  \A p \in L \ {a} : Counted(nd, L, p, 0) /\ SubNamed(nd, L, p, nd[p].sub)

LossOK(nd, L, a, n) ==
  a # None => /\ a \in L
              /\ Counted(nd, L, a, 1)
              /\ RingSet(nd, L, a) # {} => n \in RingSet(nd, L, a)

OrderOK(nd, L, ev) ==
  \A x \in L : nd[x].sup \in L => ev[nd[x].sup] <= ev[x]

HeapOK(nd, L, K, a, n, ev) ==
  /\ nd \in [AllNodes -> NodeRec] /\ L \in SUBSET FibIndex
  /\ ForestOK(nd, L, K)
  /\ RingsOK(nd, L, L)
  /\ KidsOK(nd, L, a)
  /\ LossOK(nd, L, a, n)
  /\ OrderOK(nd, L, ev)

LEMMA IndexFacts ==
  /\ FibIndex \subseteq AllNodes /\ RootIndex \in AllNodes
  /\ RootIndex \notin FibIndex /\ None \notin FibIndex /\ RootIndex # None
BY DEF AllNodes, FibIndex, RootIndex, None

(* Del, first: the node is taken out of its ring.                          *)
LEMMA HeapUnlink ==
  ASSUME NEW nd, NEW L, NEW n, NEW ev, HeapOK(nd, L, {}, None, n, ev),
         NEW x \in L, NEW nd2, nd2 = Unlink(nd, x)
  PROVE  /\ HeapOK(nd2, L \ {x}, {x}, nd[x].sup, nd[x].next, ev)
         /\ RingsOK(nd2, L \ {x}, L)
         /\ nd2[x].sup = nd[x].sup /\ nd2[x].sub = nd[x].sub
         /\ nd2[x].next = nd[x].next
<1>1. /\ nd \in [AllNodes -> NodeRec] /\ L \in SUBSET FibIndex
      /\ x \in FibIndex /\ x \in AllNodes /\ L \ {x} \in SUBSET FibIndex
      /\ \A y \in L : y \in AllNodes
  BY IndexFacts DEF HeapOK
<1>2. /\ nd2 \in [AllNodes -> NodeRec]
      /\ SameButLinks(nd, nd2)
      /\ \A y \in AllNodes :
           nd2[y].next = IF y = nd[x].prev THEN nd[x].next ELSE nd[y].next
  BY <1>1, UnlinkFacts
<1>3. \A y \in L : /\ nd2[y].sup = nd[y].sup /\ nd2[y].sub = nd[y].sub
                   /\ nd2[y].nSub = nd[y].nSub
  BY <1>1, <1>2 DEF SameButLinks
<1>4. \A y \in L : nd[y].sup \in L \cup {None}
  BY DEF HeapOK, ForestOK
<1>5. Acyclic(nd, L) /\ RingsOK(nd, L, L) /\ KidsOK(nd, L, None)
  BY DEF HeapOK, ForestOK
<1>6. nd[x].sup # x
  <2>1. {x} \in SUBSET L /\ {x} # {}
    OBVIOUS
  <2>2. QED BY <1>5, <2>1 DEF Acyclic
<1>7. ForestOK(nd2, L \ {x}, {x})
  <2>1. Acyclic(nd2, L \ {x})
    BY <1>1, <1>3, <1>5, AcyclicCut
  <2>2. QED BY <1>3, <1>4, <2>1 DEF ForestOK
<1>8. RingsOK(nd2, L \ {x}, L)
  BY <1>1, <1>4, <1>5, RingsUnlink
<1>9. RingsOK(nd2, L \ {x}, L \ {x})
  BY <1>8 DEF RingsOK
<1>10. ASSUME NEW p
       PROVE  RingSet(nd2, L \ {x}, p) = RingSet(nd, L, p) \ {x}
  BY <1>1, <1>3, RingSetRemove
<1>11. KidsOK(nd2, L \ {x}, nd[x].sup)
  <2>1. SUFFICES ASSUME NEW p \in L \ {x}, p # nd[x].sup
                 PROVE  /\ Counted(nd2, L \ {x}, p, 0)
                        /\ SubNamed(nd2, L \ {x}, p, nd2[p].sub)
    BY DEF KidsOK
  <2>2. p # None
    BY <1>1, IndexFacts
  <2>3. x \notin RingSet(nd, L, p)
    BY <2>1, <2>2 DEF RingSet
  <2>4. RingSet(nd2, L \ {x}, p) = RingSet(nd, L, p)
    BY <1>10, <2>3
  <2>5. Counted(nd, L, p, 0) /\ SubNamed(nd, L, p, nd[p].sub)
    BY <1>5, <2>2 DEF KidsOK
  <2>6. QED BY <1>3, <2>4, <2>5 DEF Counted, SubNamed
<1>12. LossOK(nd2, L \ {x}, nd[x].sup, nd[x].next)
  <2>1. SUFFICES ASSUME nd[x].sup # None
                 PROVE  /\ nd[x].sup \in L \ {x}
                        /\ Counted(nd2, L \ {x}, nd[x].sup, 1)
                        /\ RingSet(nd2, L \ {x}, nd[x].sup) # {} =>
                             nd[x].next \in RingSet(nd2, L \ {x}, nd[x].sup)
    BY DEF LossOK
  <2>2. PICK a : a = nd[x].sup
    OBVIOUS
  <2>3. PICK R : R = RingSet(nd, L, a)
    OBVIOUS
  <2>4. a \in L \ {x} /\ x \in R /\ RingSet(nd2, L \ {x}, a) = R \ {x}
    BY <1>4, <1>6, <1>10, <2>1, <2>2, <2>3 DEF RingSet
  <2>5. nd[a].nSub = Cardinality(R) + 0 /\ Cardinality(R) \in Nat
    BY <1>1, <1>5, <2>1, <2>2, <2>3, <2>4, RingSetFinite DEF KidsOK, Counted
  <2>6. Cardinality(R) = Cardinality(R \ {x}) + 1 /\ Cardinality(R \ {x}) \in Nat
    <3>1. IsFiniteSet(R)
      BY <1>1, <2>3, RingSetFinite
    <3>2. Cardinality(R) = Cardinality(R \ {x}) + 1
      BY <2>4, <3>1, CountRemove
    <3>3. IsFiniteSet(R \ {x})
      BY <3>1, FS_Subset
    <3>4. QED BY <3>2, <3>3, FS_CardinalityType
  <2>7. Counted(nd2, L \ {x}, a, 1)
    <3>1. nd2[a].nSub = Cardinality(R \ {x}) + 1
      BY <1>3, <2>4, <2>5, <2>6
    <3>2. QED BY <2>4, <3>1 DEF Counted
  <2>8. IsRing(nd, R)
    BY <1>5, <2>3, <2>4 DEF RingsOK
  <2>9. R \ {x} # {} => nd[x].next \in R \ {x}
    BY <2>4, <2>8, NextIsOther
  <2>10. QED BY <2>2, <2>4, <2>7, <2>9
<1>13. OrderOK(nd2, L \ {x}, ev)
  BY <1>3 DEF HeapOK, OrderOK
<1>14. /\ nd2[x].sup = nd[x].sup /\ nd2[x].sub = nd[x].sub
       /\ nd2[x].next = nd[x].next
  BY <1>1, <1>2, <1>3
<1>15. HeapOK(nd2, L \ {x}, {x}, nd[x].sup, nd[x].next, ev)
  BY <1>1, <1>2, <1>7, <1>9, <1>11, <1>12, <1>13 DEF HeapOK
<1>16. QED BY <1>8, <1>14, <1>15

(* cutChildren: a child of the node that is taken out becomes a root.      *)
SameNode(nd, nd2, x) ==
  /\ nd2[x].sup = nd[x].sup /\ nd2[x].sub = nd[x].sub
  /\ nd2[x].next = nd[x].next

LEMMA HeapCutChild ==
  ASSUME NEW nd, NEW L, NEW x \in FibIndex \ L, NEW a, NEW n, NEW ev,
         HeapOK(nd, L, {x}, a, n, ev), NEW c \in RingSet(nd, L, x),
         NEW nd2, nd2 = AddRoot(CutOff(nd, c), c)
  PROVE  /\ HeapOK(nd2, L, {x}, a, n, ev)
         /\ SameNode(nd, nd2, x)
         /\ RingSet(nd2, L, x) = RingSet(nd, L, x) \ {c}
         /\ SameLinks(nd, nd2, RingSet(nd2, L, x))
<1>1. /\ nd \in [AllNodes -> NodeRec] /\ L \in SUBSET FibIndex
      /\ x # None /\ x \in AllNodes /\ L \subseteq AllNodes
  BY IndexFacts DEF HeapOK
<1>2. c \in L /\ nd[c].sup = x /\ c \in AllNodes
  BY <1>1 DEF RingSet
<1>3. PICK nd1 : nd1 = CutOff(nd, c)
  OBVIOUS
<1>4. /\ nd1 \in [AllNodes -> NodeRec]
      /\ nd1[c].sup = None
      /\ \A y \in AllNodes :
           /\ y # c => nd1[y].sup = nd[y].sup
           /\ nd1[y].sub = nd[y].sub /\ nd1[y].nSub = nd[y].nSub
           /\ nd1[y].next = nd[y].next /\ nd1[y].prev = nd[y].prev
  BY <1>1, <1>2, <1>3, CutFacts
<1>5. PICK M : M = L \ {c}
  OBVIOUS
<1>6. M \in SUBSET FibIndex /\ c \in FibIndex \ M /\ L = M \cup {c}
  BY <1>1, <1>2, <1>5
<1>7. ASSUME NEW p, p # x
      PROVE  RingSet(nd1, M, p) = RingSet(nd, L, p)
  BY <1>1, <1>2, <1>4, <1>5, <1>7 DEF RingSet
<1>8. RingsOK(nd1, M, L)
  <2>1. SUFFICES ASSUME NEW p \in L \cup {None}, RingSet(nd1, M, p) # {}
                 PROVE  IsRing(nd1, RingSet(nd1, M, p))
    BY DEF RingsOK
  <2>2. RingSet(nd1, M, p) = RingSet(nd, L, p)
    BY <1>1, <1>7
  <2>3. IsRing(nd, RingSet(nd, L, p))
    BY <2>1, <2>2 DEF HeapOK, RingsOK
  <2>4. RingSet(nd, L, p) \subseteq AllNodes
    BY <1>1, IndexFacts DEF RingSet
  <2>5. \A y \in RingSet(nd, L, p) : nd1[y].next = nd[y].next /\ nd1[y].prev = nd[y].prev
    BY <1>4, <2>4
  <2>6. QED BY <2>2, <2>3, <2>5, RingSame
<1>9. nd2 = AddRoot(nd1, c)
  BY <1>3
<1>10. /\ nd2 \in [AllNodes -> NodeRec]
       /\ SameButLinks(nd1, nd2)
       /\ RingsOK(nd2, M \cup {c}, L)
       /\ SameLinks(nd1, nd2, AllNodes \ (RingSet(nd1, M, None) \cup {c}))
  <2>1. nd1 \in [AllNodes -> NodeRec] /\ nd1[c].sup = None
    BY <1>4
  <2>2. M \in SUBSET FibIndex /\ c \in FibIndex \ M
    BY <1>6
  <2>3. QED BY <1>8, <1>9, <2>1, <2>2, AddRootFacts
<1>11. /\ nd2[c].sup = None
       /\ \A y \in AllNodes :
            /\ y # c => nd2[y].sup = nd[y].sup
            /\ nd2[y].sub = nd[y].sub /\ nd2[y].nSub = nd[y].nSub
  BY <1>2, <1>4, <1>10 DEF SameButLinks
<1>12. ASSUME NEW p, p # None
       PROVE  RingSet(nd2, L, p) = RingSet(nd, L, p) \ {c}
  BY <1>1, <1>2, <1>11, <1>12 DEF RingSet
<1>13. ForestOK(nd2, L, {x})
  <2>1. Acyclic(nd, L) /\ \A y \in L : nd[y].sup \in L \cup {None} \cup {x}
    BY DEF HeapOK, ForestOK
  <2>2. \A y \in L : nd2[y].sup = None \/ nd2[y].sup = nd[y].sup
    BY <1>1, <1>11
  <2>3. Acyclic(nd2, L)
    <3>1. Acyclic(nd, L) /\ L \in SUBSET FibIndex
      BY <1>1, <2>1
    <3>2. QED BY <2>2, <3>1, AcyclicCutSame
  <2>4. QED BY <2>1, <2>2, <2>3 DEF ForestOK
<1>14. ASSUME NEW p \in L
       PROVE  RingSet(nd2, L, p) = RingSet(nd, L, p)
  <2>1. p # None /\ p # x
    BY <1>1, IndexFacts
  <2>2. c \notin RingSet(nd, L, p)
    BY <1>2, <2>1 DEF RingSet
  <2>3. QED BY <1>12, <2>1, <2>2
<1>15. KidsOK(nd2, L, a)
  <2>1. SUFFICES ASSUME NEW p \in L \ {a}
                 PROVE  Counted(nd2, L, p, 0) /\ SubNamed(nd2, L, p, nd2[p].sub)
    BY DEF KidsOK
  <2>2. Counted(nd, L, p, 0) /\ SubNamed(nd, L, p, nd[p].sub)
    BY DEF HeapOK, KidsOK
  <2>3. nd2[p].sub = nd[p].sub /\ nd2[p].nSub = nd[p].nSub
    BY <1>1, <1>11
  <2>4. QED BY <1>14, <2>2, <2>3 DEF Counted, SubNamed
<1>16. LossOK(nd2, L, a, n)
  <2>1. SUFFICES ASSUME a # None
                 PROVE  /\ a \in L /\ Counted(nd2, L, a, 1)
                        /\ RingSet(nd2, L, a) # {} => n \in RingSet(nd2, L, a)
    BY DEF LossOK
  <2>2. /\ a \in L /\ Counted(nd, L, a, 1)
        /\ RingSet(nd, L, a) # {} => n \in RingSet(nd, L, a)
    BY <2>1 DEF HeapOK, LossOK
  <2>3. nd2[a].nSub = nd[a].nSub
    BY <1>1, <1>11, <2>2
  <2>4. QED BY <1>14, <2>2, <2>3 DEF Counted
<1>17. OrderOK(nd2, L, ev)
  <2>1. \A y \in L : nd2[y].sup \in L => nd2[y].sup = nd[y].sup
    BY <1>1, <1>11, IndexFacts
  <2>2. QED BY <2>1 DEF HeapOK, OrderOK
<1>18. HeapOK(nd2, L, {x}, a, n, ev)
  BY <1>1, <1>6, <1>10, <1>13, <1>15, <1>16, <1>17 DEF HeapOK
<1>19. \A y \in AllNodes : y # c /\ nd[y].sup # None /\ y # RootIndex =>
         nd2[y].next = nd[y].next /\ nd2[y].prev = nd[y].prev
  <2>1. SUFFICES ASSUME NEW y \in AllNodes, y # c, nd[y].sup # None, y # RootIndex
                 PROVE  nd2[y].next = nd[y].next /\ nd2[y].prev = nd[y].prev
    OBVIOUS
  <2>2. y \notin RingSet(nd1, M, None)
    BY <1>4, <2>1 DEF RingSet
  <2>3. QED BY <1>4, <1>10, <2>1, <2>2 DEF SameLinks
<1>20. RingSet(nd2, L, x) = RingSet(nd, L, x) \ {c}
  BY <1>1, <1>12
<1>21. SameLinks(nd, nd2, RingSet(nd2, L, x))
  <2>1. \A y \in RingSet(nd2, L, x) :
          y \in AllNodes /\ y # c /\ nd[y].sup # None /\ y # RootIndex
    BY <1>1, <1>20, IndexFacts DEF RingSet
  <2>2. QED BY <1>19, <2>1 DEF SameLinks
<1>22. nd2[x].next = nd[x].next
  <2>1. x \notin RingSet(nd1, M, None) /\ x # c
    BY <1>1, <1>2, <1>6, IndexFacts DEF RingSet
  <2>2. QED BY <1>1, <1>4, <1>10, <2>1 DEF SameLinks
<1>23. nd2[x].sup = nd[x].sup /\ nd2[x].sub = nd[x].sub
  BY <1>1, <1>2, <1>11
<1>24. SameNode(nd, nd2, x)
  BY <1>22, <1>23 DEF SameNode
<1>25. QED BY <1>18, <1>20, <1>21, <1>24

(* cutChildren has cut them all.                                           *)
LEMMA HeapAllCut ==
  ASSUME NEW nd, NEW L, NEW x \in FibIndex, NEW a, NEW n, NEW ev,
         HeapOK(nd, L, {x}, a, n, ev), RingSet(nd, L, x) = {}
  PROVE  HeapOK(nd, L, {}, a, n, ev)
<1>1. \A y \in L : nd[y].sup # x
  BY DEF RingSet
<1>2. ForestOK(nd, L, {})
  BY <1>1 DEF HeapOK, ForestOK
<1>3. QED BY <1>2 DEF HeapOK

(* The parent of the node that was taken out has one child less.           *)
LEMMA HeapLoseChild ==
  ASSUME NEW nd, NEW L, NEW s, s # None, NEW n, NEW ev,
         HeapOK(nd, L, {}, s, n, ev), NEW nd2, nd2 = LoseChild(nd, s, n)
  PROVE  /\ HeapOK(nd2, L, {}, None, n, ev)
         /\ nd2[s].sup = nd[s].sup /\ nd2[s].next = nd[s].next
<1>1. /\ nd \in [AllNodes -> NodeRec] /\ L \in SUBSET FibIndex
      /\ L \subseteq AllNodes
  BY IndexFacts DEF HeapOK
<1>2. PICK R : R = RingSet(nd, L, s)
  OBVIOUS
<1>3. /\ s \in L /\ s \in AllNodes
      /\ nd[s].nSub = Cardinality(R) + 1
      /\ R # {} => n \in R
  BY <1>1, <1>2 DEF HeapOK, LossOK, Counted
<1>4. /\ R \subseteq L
      /\ Cardinality(R) \in Nat
      /\ Cardinality(R) = 0 <=> R = {}
  <2>1. R \subseteq L
    BY <1>2 DEF RingSet
  <2>2. QED BY <1>1, <1>2, <2>1, RingSetFinite
<1>5. nd[s].nSub # 0 /\ (nd[s].nSub # 1 => n \in FibIndex)
  BY <1>1, <1>3, <1>4
<1>6. /\ nd2 \in [AllNodes -> NodeRec]
      /\ nd2[s].nSub = nd[s].nSub - 1
      /\ nd2[s].sub = IF nd[s].nSub = 1 THEN None ELSE n
      /\ \A y \in AllNodes :
           /\ nd2[y].sup = nd[y].sup
           /\ y # s => nd2[y].sub = nd[y].sub /\ nd2[y].nSub = nd[y].nSub
           /\ nd2[y].next = nd[y].next /\ nd2[y].prev = nd[y].prev
  BY <1>1, <1>3, <1>5, LoseChildFacts
<1>7. \A y \in L : nd2[y].sup = nd[y].sup
  BY <1>1, <1>6
<1>8. ASSUME NEW p PROVE RingSet(nd2, L, p) = RingSet(nd, L, p)
  BY <1>7 DEF RingSet
<1>9. RingsOK(nd2, L, L)
  <2>1. \A y \in L \cup {RootIndex} :
          nd2[y].next = nd[y].next /\ nd2[y].prev = nd[y].prev
    BY <1>1, <1>6, IndexFacts
  <2>2. RingsOK(nd, L, L)
    BY DEF HeapOK
  <2>3. QED BY <1>7, <2>1, <2>2, RingsSame
<1>10. ForestOK(nd2, L, {})
  <2>1. Acyclic(nd, L) /\ \A y \in L : nd[y].sup \in L \cup {None}
    BY DEF HeapOK, ForestOK
  <2>2. Acyclic(nd2, L)
    BY <1>1, <1>7, <2>1, AcyclicCut
  <2>3. QED BY <1>7, <2>1, <2>2 DEF ForestOK
<1>11. KidsOK(nd2, L, None)
  <2>1. SUFFICES ASSUME NEW p \in L
                 PROVE  Counted(nd2, L, p, 0) /\ SubNamed(nd2, L, p, nd2[p].sub)
    BY DEF KidsOK
  <2>2. CASE p = s
    <3>1. nd2[s].nSub = Cardinality(R) + 0
      BY <1>3, <1>4, <1>6
    <3>2. IF R = {} THEN nd2[s].sub = None ELSE nd2[s].sub \in R
      BY <1>3, <1>4, <1>6
    <3>3. QED BY <1>2, <1>8, <2>2, <3>1, <3>2 DEF Counted, SubNamed
  <2>3. CASE p # s
    <3>1. Counted(nd, L, p, 0) /\ SubNamed(nd, L, p, nd[p].sub)
      BY <2>3 DEF HeapOK, KidsOK
    <3>2. nd2[p].sub = nd[p].sub /\ nd2[p].nSub = nd[p].nSub
      BY <1>1, <1>6, <2>3
    <3>3. QED BY <1>8, <3>1, <3>2 DEF Counted, SubNamed
  <2>4. QED BY <2>2, <2>3
<1>12. OrderOK(nd2, L, ev)
  BY <1>7 DEF HeapOK, OrderOK
<1>13. HeapOK(nd2, L, {}, None, n, ev)
  BY <1>1, <1>6, <1>9, <1>10, <1>11, <1>12 DEF HeapOK, LossOK
<1>14. QED BY <1>3, <1>6, <1>13

(* A marked parent that has a parent of its own is cut as well.            *)
LEMMA HeapCutParent ==
  ASSUME NEW nd, NEW L, NEW s, s # None, NEW n, NEW ev,
         HeapOK(nd, L, {}, s, n, ev), nd[s].sup # None,
         NEW nd2,
         nd2 = AddRoot(CutOff(Unlink(LoseChild(nd, s, n), s), s), s)
  PROVE  HeapOK(nd2, L, {}, nd[s].sup, nd[s].next, ev)
<1>1. PICK lost : lost = LoseChild(nd, s, n)
  OBVIOUS
<1>2. /\ HeapOK(lost, L, {}, None, n, ev)
      /\ lost[s].sup = nd[s].sup /\ lost[s].next = nd[s].next
  BY <1>1, HeapLoseChild
<1>3. PICK u : u = Unlink(lost, s)
  OBVIOUS
<1>4. s \in L
  BY DEF HeapOK, LossOK
<1>5. PICK M : M = L \ {s}
  OBVIOUS
<1>6. /\ HeapOK(u, M, {s}, nd[s].sup, nd[s].next, ev)
      /\ RingsOK(u, M, L)
      /\ u[s].sup = lost[s].sup
  <2>1. /\ HeapOK(u, L \ {s}, {s}, lost[s].sup, lost[s].next, ev)
        /\ RingsOK(u, L \ {s}, L)
        /\ u[s].sup = lost[s].sup
    <3>1. HeapOK(lost, L, {}, None, n, ev)
      BY <1>2
    <3>2. QED BY <1>3, <1>4, <3>1, HeapUnlink
  <2>2. QED BY <1>2, <1>5, <2>1
<1>7. /\ L \in SUBSET FibIndex /\ L \subseteq AllNodes /\ s \in AllNodes
      /\ lost \in [AllNodes -> NodeRec] /\ u \in [AllNodes -> NodeRec]
      /\ M \in SUBSET FibIndex /\ s \in FibIndex \ M /\ L = M \cup {s}
  BY <1>2, <1>4, <1>5, <1>6, IndexFacts DEF HeapOK
<1>8. \A y \in L : /\ u[y].sup = lost[y].sup /\ u[y].sub = lost[y].sub
                   /\ u[y].nSub = lost[y].nSub
  BY <1>3, <1>7, UnlinkFacts DEF SameButLinks
<1>9. PICK c : c = CutOff(u, s)
  OBVIOUS
<1>10. /\ c \in [AllNodes -> NodeRec]
       /\ c[s].sup = None
       /\ \A y \in AllNodes :
            /\ y # s => c[y].sup = u[y].sup
            /\ c[y].sub = u[y].sub /\ c[y].nSub = u[y].nSub
            /\ c[y].next = u[y].next /\ c[y].prev = u[y].prev
  BY <1>7, <1>9, CutFacts
<1>11. RingsOK(c, M, L)
  <2>1. \A y \in M : c[y].sup = u[y].sup
    BY <1>5, <1>7, <1>10
  <2>2. \A y \in M \cup {RootIndex} : c[y].next = u[y].next /\ c[y].prev = u[y].prev
    BY <1>7, <1>10, IndexFacts
  <2>3. QED BY <1>6, <2>1, <2>2, RingsSame
<1>12. nd2 = AddRoot(c, s)
  BY <1>1, <1>3, <1>9
<1>13. /\ nd2 \in [AllNodes -> NodeRec]
       /\ SameButLinks(c, nd2)
       /\ RingsOK(nd2, M \cup {s}, L)
  <2>1. c \in [AllNodes -> NodeRec] /\ c[s].sup = None
    BY <1>10
  <2>2. M \in SUBSET FibIndex /\ s \in FibIndex \ M
    BY <1>7
  <2>3. QED BY <1>11, <1>12, <2>1, <2>2, AddRootFacts
<1>14. /\ nd2[s].sup = None
       /\ \A y \in L : /\ y # s => nd2[y].sup = u[y].sup /\ nd2[y].sup = lost[y].sup
                       /\ nd2[y].sub = u[y].sub /\ nd2[y].sub = lost[y].sub
                       /\ nd2[y].nSub = u[y].nSub /\ nd2[y].nSub = lost[y].nSub
  <2>1. /\ nd2[s].sup = None
        /\ \A y \in L : /\ y # s => nd2[y].sup = u[y].sup
                        /\ nd2[y].sub = u[y].sub /\ nd2[y].nSub = u[y].nSub
    <3>1. \A y \in AllNodes :
            /\ nd2[y].sup = c[y].sup /\ nd2[y].sub = c[y].sub
            /\ nd2[y].nSub = c[y].nSub
      BY <1>13 DEF SameButLinks
    <3>2. QED BY <1>7, <1>10, <3>1
  <2>2. QED BY <1>8, <2>1
<1>15. lost[s].sup # s
  <2>1. {s} \in SUBSET L /\ {s} # {} /\ Acyclic(lost, L)
    BY <1>2, <1>4 DEF HeapOK, ForestOK
  <2>2. QED BY <2>1 DEF Acyclic
<1>16. ASSUME NEW p \in L
       PROVE  RingSet(nd2, L, p) = RingSet(u, M, p)
  <2>1. p # None
    BY <1>7, IndexFacts
  <2>2. QED BY <1>5, <1>14, <2>1 DEF RingSet
<1>17. RingSet(nd2, L, s) = RingSet(lost, L, s)
  <2>1. s # None
    OBVIOUS
  <2>2. QED BY <1>14, <1>15, <2>1 DEF RingSet
<1>18. ForestOK(nd2, L, {})
  <2>1. Acyclic(lost, L) /\ \A y \in L : lost[y].sup \in L \cup {None}
    BY <1>2 DEF HeapOK, ForestOK
  <2>2. \A y \in L : nd2[y].sup = None \/ nd2[y].sup = lost[y].sup
    BY <1>14
  <2>3. Acyclic(nd2, L)
    <3>1. Acyclic(lost, L) /\ L \in SUBSET FibIndex
      BY <1>7, <2>1
    <3>2. QED BY <2>2, <3>1, AcyclicCutSame
  <2>4. QED BY <2>1, <2>2, <2>3 DEF ForestOK
<1>19. KidsOK(nd2, L, nd[s].sup)
  <2>1. SUFFICES ASSUME NEW p \in L, p # nd[s].sup
                 PROVE  Counted(nd2, L, p, 0) /\ SubNamed(nd2, L, p, nd2[p].sub)
    BY DEF KidsOK
  <2>2. CASE p = s
    <3>1. Counted(lost, L, s, 0) /\ SubNamed(lost, L, s, lost[s].sub)
      BY <1>2, <1>4 DEF HeapOK, KidsOK
    <3>2. QED BY <1>4, <1>14, <1>17, <2>2, <3>1 DEF Counted, SubNamed
  <2>3. CASE p # s
    <3>1. Counted(u, M, p, 0) /\ SubNamed(u, M, p, u[p].sub)
      BY <1>5, <1>6, <2>1, <2>3 DEF HeapOK, KidsOK
    <3>2. QED BY <1>14, <1>16, <3>1 DEF Counted, SubNamed
  <2>4. QED BY <2>2, <2>3
<1>20. LossOK(nd2, L, nd[s].sup, nd[s].next)
  <2>1. PICK a : a = nd[s].sup
    OBVIOUS
  <2>2. /\ a \in M /\ Counted(u, M, a, 1)
        /\ RingSet(u, M, a) # {} => nd[s].next \in RingSet(u, M, a)
    BY <1>6, <2>1 DEF HeapOK, LossOK
  <2>3. a \in L
    BY <1>7, <2>2
  <2>4. Counted(nd2, L, a, 1)
    BY <1>14, <1>16, <2>2, <2>3 DEF Counted
  <2>5. RingSet(nd2, L, a) # {} => nd[s].next \in RingSet(nd2, L, a)
    BY <1>16, <2>2, <2>3
  <2>6. QED BY <2>1, <2>3, <2>4, <2>5 DEF LossOK
<1>21. OrderOK(nd2, L, ev)
  <2>1. \A y \in L : nd2[y].sup \in L => nd2[y].sup = lost[y].sup
    BY <1>7, <1>14, IndexFacts
  <2>2. OrderOK(lost, L, ev)
    BY <1>2 DEF HeapOK
  <2>3. QED BY <2>1, <2>2 DEF OrderOK
<1>22. RingsOK(nd2, L, L)
  BY <1>7, <1>13
<1>23. QED BY <1>7, <1>13, <1>18, <1>19, <1>20, <1>21, <1>22 DEF HeapOK

(* Nodes that are not linked, times of other events and the child of no    *)
(* parent do not matter.                                                   *)
LEMMA HeapSame ==
  ASSUME NEW nd, NEW L, NEW K, NEW n, NEW ev, HeapOK(nd, L, K, None, n, ev),
         NEW nd2 \in [AllNodes -> NodeRec], NEW n2, NEW ev2,
         \A y \in L \cup {RootIndex} : nd2[y] = nd[y],
         \A y \in L : ev2[y] = ev[y]
  PROVE  HeapOK(nd2, L, K, None, n2, ev2)
<1>1. L \in SUBSET FibIndex
  BY DEF HeapOK
<1>2. \A y \in L : nd2[y] = nd[y]
  OBVIOUS
<1>3. ASSUME NEW p PROVE RingSet(nd2, L, p) = RingSet(nd, L, p)
  BY <1>2 DEF RingSet
<1>4. RingsOK(nd2, L, L)
  <2>1. RingsOK(nd, L, L)
    BY DEF HeapOK
  <2>2. QED BY <2>1, RingsSame
<1>5. ForestOK(nd2, L, K)
  <2>1. Acyclic(nd, L) /\ \A y \in L : nd[y].sup \in L \cup {None} \cup K
    BY DEF HeapOK, ForestOK
  <2>2. Acyclic(nd2, L)
    BY <1>1, <1>2, <2>1, AcyclicCut
  <2>3. QED BY <1>2, <2>1, <2>2 DEF ForestOK
<1>6. KidsOK(nd2, L, None)
  <2>1. SUFFICES ASSUME NEW p \in L \ {None}
                 PROVE  Counted(nd2, L, p, 0) /\ SubNamed(nd2, L, p, nd2[p].sub)
    BY DEF KidsOK
  <2>2. Counted(nd, L, p, 0) /\ SubNamed(nd, L, p, nd[p].sub)
    BY DEF HeapOK, KidsOK
  <2>3. QED BY <1>2, <1>3, <2>2 DEF Counted, SubNamed
<1>7. OrderOK(nd2, L, ev2)
  BY <1>2 DEF HeapOK, OrderOK
<1>8. LossOK(nd2, L, None, n2)
  BY DEF LossOK
<1>9. QED BY <1>1, <1>4, <1>5, <1>6, <1>7, <1>8 DEF HeapOK

LEMMA HeapOtherTimes ==
  ASSUME NEW nd, NEW L, NEW K, NEW a, NEW n, NEW ev, HeapOK(nd, L, K, a, n, ev),
         NEW ev2, \A y \in L : ev2[y] = ev[y]
  PROVE  HeapOK(nd, L, K, a, n, ev2)
<1>1. OrderOK(nd, L, ev2)
  BY DEF HeapOK, OrderOK
<1>2. QED BY <1>1 DEF HeapOK

(* Add: a node that is not linked becomes a root.                          *)
LEMMA HeapAdd ==
  ASSUME NEW nd, NEW L, NEW n, NEW ev, HeapOK(nd, L, {}, None, n, ev),
         NEW x \in FibIndex \ L, NEW n2, NEW ev2,
         \A y \in L : ev2[y] = ev[y], ev2[x] \in Nat,
         NEW nd2, nd2 = AddRoot(Renew(nd, x), x)
  PROVE  HeapOK(nd2, L \cup {x}, {}, None, n2, ev2)
<1>1. /\ nd \in [AllNodes -> NodeRec] /\ L \in SUBSET FibIndex
      /\ L \subseteq AllNodes /\ x \in AllNodes /\ x # None
  BY IndexFacts DEF HeapOK
<1>2. PICK c : c = Renew(nd, x)
  OBVIOUS
<1>3. /\ c \in [AllNodes -> NodeRec]
      /\ c[x] = NewNode
      /\ \A y \in L \cup {RootIndex} : c[y] = nd[y]
  <2>1. \A y \in AllNodes : y # x => c[y] = nd[y]
    BY <1>1, <1>2, NewNodeFacts
  <2>2. \A y \in L \cup {RootIndex} : y \in AllNodes /\ y # x
    BY <1>1, IndexFacts
  <2>3. c \in [AllNodes -> NodeRec] /\ c[x] = NewNode
    BY <1>1, <1>2, NewNodeFacts
  <2>4. QED BY <2>1, <2>2, <2>3
<1>4. c[x].sup = None /\ c[x].sub = None /\ c[x].nSub = 0
  BY <1>3 DEF NewNode
<1>5. HeapOK(c, L, {}, None, n, ev2)
  BY <1>3, HeapSame
<1>6. RingsOK(c, L, L \cup {x})
  <2>1. \A y \in L : c[y].sup \in L \cup {None}
    BY <1>5 DEF HeapOK, ForestOK
  <2>2. RingSet(c, L, x) = {}
    BY <1>1, <2>1 DEF RingSet
  <2>3. RingsOK(c, L, L)
    BY <1>5 DEF HeapOK
  <2>4. QED BY <2>2, <2>3 DEF RingsOK
<1>7. nd2 = AddRoot(c, x)
  BY <1>2
<1>8. /\ nd2 \in [AllNodes -> NodeRec]
      /\ SameButLinks(c, nd2)
      /\ RingsOK(nd2, L \cup {x}, L \cup {x})
  BY <1>1, <1>3, <1>4, <1>6, <1>7, AddRootFacts
<1>9. \A y \in L \cup {x} : /\ nd2[y].sup = c[y].sup /\ nd2[y].sub = c[y].sub
                            /\ nd2[y].nSub = c[y].nSub
  BY <1>1, <1>8 DEF SameButLinks
<1>10. ASSUME NEW p \in L \cup {x}
       PROVE  RingSet(nd2, L \cup {x}, p) = RingSet(c, L, p)
  <2>1. p # None
    BY <1>1, IndexFacts
  <2>2. QED BY <1>4, <1>9, <2>1 DEF RingSet
<1>11. L \cup {x} \in SUBSET FibIndex
  BY <1>1
<1>12. ForestOK(nd2, L \cup {x}, {})
  <2>1. Acyclic(c, L) /\ \A y \in L : c[y].sup \in L \cup {None}
    BY <1>5 DEF HeapOK, ForestOK
  <2>2. \A y \in L \cup {x} : nd2[y].sup = None \/ (y \in L /\ nd2[y].sup = c[y].sup)
    BY <1>4, <1>9
  <2>3. Acyclic(nd2, L \cup {x})
    BY <1>11, <2>1, <2>2, AcyclicCut
  <2>4. QED BY <2>1, <2>2, <2>3 DEF ForestOK
<1>13. KidsOK(nd2, L \cup {x}, None)
  <2>1. SUFFICES ASSUME NEW p \in L \cup {x}
                 PROVE  /\ Counted(nd2, L \cup {x}, p, 0)
                        /\ SubNamed(nd2, L \cup {x}, p, nd2[p].sub)
    BY DEF KidsOK
  <2>2. Counted(c, L, p, 0) /\ SubNamed(c, L, p, c[p].sub)
    <3>1. CASE p = x
      <4>1. RingSet(c, L, x) = {}
        <5>1. \A y \in L : c[y].sup \in L \cup {None}
          BY <1>5 DEF HeapOK, ForestOK
        <5>2. QED BY <1>1, <5>1 DEF RingSet
      <4>2. QED BY <1>4, <3>1, <4>1, FS_EmptySet DEF Counted, SubNamed
    <3>2. CASE p \in L
      <4>1. p # None
        BY <1>1, IndexFacts
      <4>2. QED BY <1>5, <3>2, <4>1 DEF HeapOK, KidsOK
    <3>3. QED BY <3>1, <3>2
  <2>3. QED BY <1>9, <1>10, <2>2 DEF Counted, SubNamed
<1>14. OrderOK(nd2, L \cup {x}, ev2)
  <2>1. OrderOK(c, L, ev2) /\ \A y \in L : c[y].sup \in L \cup {None}
    BY <1>5 DEF HeapOK, ForestOK
  <2>2. SUFFICES ASSUME NEW y \in L \cup {x}, nd2[y].sup \in L \cup {x}
                 PROVE  ev2[nd2[y].sup] <= ev2[y]
    BY DEF OrderOK
  <2>3. y \in L /\ nd2[y].sup = c[y].sup /\ c[y].sup \in L
    BY <1>1, <1>4, <1>9, <2>1, <2>2, IndexFacts
  <2>4. QED BY <2>1, <2>3 DEF OrderOK
<1>15. LossOK(nd2, L \cup {x}, None, n2)
  BY DEF LossOK
<1>16. QED BY <1>8, <1>11, <1>12, <1>13, <1>14, <1>15 DEF HeapOK

(* Min links root lose under root win, which is due no later.              *)
LEMMA HeapLink ==
  ASSUME NEW nd, NEW L, NEW n, NEW ev, HeapOK(nd, L, {}, None, n, ev),
         NEW win \in L, NEW lose \in L, win # lose,
         nd[win].sup = None, nd[lose].sup = None, ev[win] <= ev[lose],
         NEW n2, NEW nd2, nd2 = LinkUnder(nd, win, lose)
  PROVE  /\ HeapOK(nd2, L, {}, None, n2, ev)
         /\ \A y \in L : nd2[y].sup = IF y = lose THEN win ELSE nd[y].sup
         /\ \A y \in L \ {win} : nd2[y].nSub = nd[y].nSub
         /\ \A y \in RingSet(nd, L, None) \ {lose} :
              /\ nd2[y].next = IF y = nd[lose].prev THEN nd[lose].next ELSE nd[y].next
              /\ nd2[y].prev = IF y = nd[lose].next THEN nd[lose].prev ELSE nd[y].prev
<1>1. /\ nd \in [AllNodes -> NodeRec] /\ L \in SUBSET FibIndex
      /\ win # None /\ RingsOK(nd, L, L)
  BY IndexFacts DEF HeapOK
<1>2. SubNamed(nd, L, win, nd[win].sub) /\ Counted(nd, L, win, 0)
  BY <1>1 DEF HeapOK, KidsOK
<1>3. /\ nd2 \in [AllNodes -> NodeRec]
      /\ RingsOK(nd2, L, L)
      /\ \A y \in L : nd2[y].sup = IF y = lose THEN win ELSE nd[y].sup
      /\ \A y \in L \ {win} : nd2[y].sub = nd[y].sub /\ nd2[y].nSub = nd[y].nSub
      /\ nd2[win].nSub = nd[win].nSub + 1
      /\ nd2[win].sub \in RingSet(nd2, L, win)
      /\ \A y \in RingSet(nd, L, None) \ {lose} :
           /\ nd2[y].next = IF y = nd[lose].prev THEN nd[lose].next ELSE nd[y].next
           /\ nd2[y].prev = IF y = nd[lose].next THEN nd[lose].prev ELSE nd[y].prev
  BY <1>1, <1>2, LinkUnderFacts
<1>4. Acyclic(nd, L) /\ \A y \in L : nd[y].sup \in L \cup {None}
  BY DEF HeapOK, ForestOK
<1>5. ForestOK(nd2, L, {})
  <2>1. nd2[lose].sup = win /\ \A y \in L \ {lose} : nd2[y].sup = nd[y].sup
    BY <1>3
  <2>2. Acyclic(nd2, L)
    BY <1>1, <1>4, <2>1, AcyclicLink
  <2>3. QED BY <1>3, <1>4, <2>2 DEF ForestOK
<1>6. RingSet(nd2, L, win) = RingSet(nd, L, win) \cup {lose}
  BY <1>1, <1>3 DEF RingSet
<1>7. lose \notin RingSet(nd, L, win)
  BY <1>1 DEF RingSet
<1>8. ASSUME NEW p \in L, p # win
      PROVE  RingSet(nd2, L, p) = RingSet(nd, L, p)
  <2>1. p # None
    BY <1>1, IndexFacts
  <2>2. QED BY <1>3, <1>8, <2>1 DEF RingSet
<1>9. KidsOK(nd2, L, None)
  <2>1. SUFFICES ASSUME NEW p \in L
                 PROVE  Counted(nd2, L, p, 0) /\ SubNamed(nd2, L, p, nd2[p].sub)
    BY DEF KidsOK
  <2>2. CASE p = win
    <3>1. PICK R : R = RingSet(nd, L, win)
      OBVIOUS
    <3>2. IsFiniteSet(R) /\ Cardinality(R) \in Nat
      BY <1>1, <3>1, RingSetFinite
    <3>3. Cardinality(R \cup {lose}) = Cardinality(R) + 1
      BY <1>7, <3>1, <3>2, CountAdd
    <3>4. nd[win].nSub = Cardinality(R) + 0
      BY <1>2, <3>1 DEF Counted
    <3>5. nd2[win].nSub = Cardinality(R \cup {lose}) + 0
      BY <1>3, <3>2, <3>3, <3>4
    <3>6. Counted(nd2, L, win, 0)
      BY <1>6, <3>1, <3>5 DEF Counted
    <3>7. QED BY <1>3, <2>2, <3>6 DEF SubNamed
  <2>3. CASE p # win
    <3>1. Counted(nd, L, p, 0) /\ SubNamed(nd, L, p, nd[p].sub)
      <4>1. p # None
        BY <1>1, IndexFacts
      <4>2. QED BY <4>1 DEF HeapOK, KidsOK
    <3>2. nd2[p].sub = nd[p].sub /\ nd2[p].nSub = nd[p].nSub
      BY <1>3, <2>3
    <3>3. QED BY <1>8, <2>3, <3>1, <3>2 DEF Counted, SubNamed
  <2>4. QED BY <2>2, <2>3
<1>10. OrderOK(nd2, L, ev)
  BY <1>3 DEF HeapOK, OrderOK
<1>11. LossOK(nd2, L, None, n2)
  BY DEF LossOK
<1>12. HeapOK(nd2, L, {}, None, n2, ev)
  BY <1>1, <1>3, <1>5, <1>9, <1>10, <1>11 DEF HeapOK
<1>13. QED BY <1>3, <1>12

(* The least root is least.                                                *)
LEMMA HeapLeast ==
  ASSUME NEW nd, NEW L, NEW n, NEW ev, HeapOK(nd, L, {}, None, n, ev),
         \A y \in L : ev[y] \in Nat, L # {}
  PROVE  /\ \E x \in L : nd[x].sup = None
         /\ \A m \in L : (\A x \in L : nd[x].sup = None => ev[m] <= ev[x])
                            => \A x \in L : ev[m] <= ev[x]
<1>1. /\ L \in SUBSET FibIndex /\ Acyclic(nd, L)
      /\ \A y \in L : nd[y].sup \in L \cup {None}
      /\ \A y \in L : nd[y].sup \in L => ev[nd[y].sup] <= ev[y]
  BY DEF HeapOK, ForestOK, OrderOK
<1>2. \E x \in L : nd[x].sup = None
  BY <1>1, RootExists
<1>3. QED BY <1>1, <1>2, LeastRootIsLeast
-----------------------------------------------------------------------------
(* The first heaps.                                                        *)
LEMMA LeastOfNat ==
  ASSUME NEW S \in SUBSET Nat, S # {}
  PROVE  \E n \in S : \A m \in S : n <= m
<1> DEFINE R == {ss \in Nat \X Nat : ss[1] < ss[2]}
<1>1. IsWellFoundedOn(R, Nat)
  BY NatLessThanWellFounded DEF OpToRel
<1> HIDE DEF R
<1>2. PICK n \in S : \A m \in S : ~(<<m, n>> \in R)
  BY <1>1, WFMin
<1>3. ASSUME NEW m \in S PROVE n <= m
  <2>1. ~(<<m, n>> \in R)
    BY <1>2
  <2>2. QED BY <2>1 DEF R
<1>4. QED BY <1>3

(* The full heap has all its nodes in the ring of the roots.               *)
LEMMA FullRingIsRing ==
  ASSUME FibN > 0
  PROVE  /\ FullRing \in [AllNodes -> NodeRec]
         /\ \A y \in AllNodes : FullRing[y].sup = None /\ FullRing[y].sub = None
                                /\ FullRing[y].nSub = 0
         /\ IsRing(FullRing, AllNodes)
<1> DEFINE Next(i) == IF i = RootIndex THEN FibN - 1
                      ELSE IF i = 0 THEN RootIndex ELSE i - 1
           Prev(i) == IF i = RootIndex THEN 0
                      ELSE IF i = FibN - 1 THEN RootIndex ELSE i + 1
<1>1. FibN \in Nat /\ FibN > 0
  BY FibAssumption
<1>2. FullRing = [i \in AllNodes |->
                    [NewNode EXCEPT !.next = Next(i), !.prev = Prev(i)]]
  BY Zenon DEF FullRing, AllNodes
<1>3. \A i \in AllNodes : Next(i) \in AllNodes /\ Prev(i) \in AllNodes
  BY <1>1 DEF AllNodes, FibIndex, RootIndex
<1>4. \A i \in AllNodes : Next(Prev(i)) = i /\ Prev(Next(i)) = i
  BY <1>1 DEF AllNodes, FibIndex, RootIndex
<1>5. NewNode \in NodeRec
  BY Zenon DEF NewNode, NodeRec, AllNodes
<1>6. ASSUME NEW i \in AllNodes
      PROVE  /\ FullRing[i] \in NodeRec
             /\ FullRing[i].next = Next(i) /\ FullRing[i].prev = Prev(i)
             /\ FullRing[i].sup = None /\ FullRing[i].sub = None
             /\ FullRing[i].nSub = 0
  <2>1. PICK n \in AllNodes, p \in AllNodes : n = Next(i) /\ p = Prev(i)
    BY <1>3
  <2>2. FullRing[i] = [NewNode EXCEPT !.next = n, !.prev = p]
    BY <1>2, <2>1
  <2>3. [NewNode EXCEPT !.next = n, !.prev = p] \in NodeRec
    BY <1>5, Zenon DEF NodeRec
  <2>4. QED BY <2>1, <2>2, <2>3 DEF NewNode
<1>7. FullRing \in [AllNodes -> NodeRec]
  BY <1>2, <1>6
<1> HIDE DEF Next, Prev
<1>8. \A y \in AllNodes :
        /\ FullRing[y].next \in AllNodes /\ FullRing[FullRing[y].next].prev = y
        /\ FullRing[y].prev \in AllNodes /\ FullRing[FullRing[y].prev].next = y
  BY <1>3, <1>4, <1>6
<1>9. ASSUME NEW T \in SUBSET AllNodes, T # {},
             \A y \in T : FullRing[y].next \in T
      PROVE  T = AllNodes
  <2>1. \A y \in T : Next(y) \in T
    BY <1>6, <1>9
  <2>2. RootIndex \in T
    <3>1. SUFFICES ASSUME RootIndex \notin T PROVE FALSE
      OBVIOUS
    <3>2. T \in SUBSET Nat
      BY <3>1 DEF AllNodes, FibIndex
    <3>3. PICK m \in T : \A k \in T : m <= k
      BY <1>9, <3>2, LeastOfNat
    <3>4. Next(m) \in T
      BY <2>1
    <3>5. m \in Nat /\ m # RootIndex
      BY <3>1, <3>2
    <3>6. Next(m) = RootIndex \/ Next(m) = m - 1
      BY <3>5 DEF Next
    <3>7. QED BY <3>1, <3>3, <3>4, <3>5, <3>6
  <2>3. \A k \in Nat : k < FibN => FibN - 1 - k \in T
    <3> DEFINE U == {k \in Nat : k < FibN /\ FibN - 1 - k \notin T}
    <3>1. SUFFICES ASSUME U # {} PROVE FALSE
      OBVIOUS
    <3>2. U \in SUBSET Nat
      OBVIOUS
    <3>3. PICK k \in U : \A j \in U : k <= j
      BY <3>1, <3>2, LeastOfNat
    <3>4. k \in Nat /\ k < FibN /\ FibN - 1 - k \notin T
      BY <3>3
    <3>5. CASE k = 0
      <4>1. Next(RootIndex) \in T
        BY <2>1, <2>2
      <4>2. Next(RootIndex) = FibN - 1
        BY DEF Next
      <4>3. FibN - 1 - k = FibN - 1
        BY <1>1, <3>5
      <4>4. QED BY <3>4, <4>1, <4>2, <4>3
    <3>6. CASE k # 0
      <4>1. k - 1 \in Nat /\ k - 1 < FibN /\ k - 1 \notin U
        BY <1>1, <3>3, <3>4, <3>6
      <4>2. FibN - 1 - (k - 1) \in T
        BY <4>1
      <4>3. PICK y : y = FibN - 1 - (k - 1)
        OBVIOUS
      <4>4. y \in Nat /\ y # 0 /\ y - 1 = FibN - 1 - k
        BY <1>1, <3>4, <3>6, <4>3
      <4>5. Next(y) = y - 1
        BY <4>4 DEF Next, RootIndex
      <4>6. QED BY <2>1, <3>4, <4>2, <4>3, <4>4, <4>5
    <3>7. QED BY <3>5, <3>6
  <2>4. ASSUME NEW i \in FibIndex PROVE i \in T
    <3>1. i \in Nat /\ i < FibN
      BY <1>1 DEF FibIndex
    <3>2. FibN - 1 - i \in Nat /\ FibN - 1 - i < FibN
      BY <1>1, <3>1
    <3>3. FibN - 1 - (FibN - 1 - i) = i
      BY <1>1, <3>1
    <3>4. QED BY <2>3, <3>2, <3>3
  <2>5. QED BY <2>2, <2>4 DEF AllNodes
<1>10. IsRing(FullRing, AllNodes)
  BY <1>8, <1>9 DEF IsRing
<1>11. QED BY <1>6, <1>7, <1>10

(* Events that are all roots.                                              *)
LEMMA HeapOfRoots ==
  ASSUME NEW nd \in [AllNodes -> NodeRec], NEW L \in SUBSET FibIndex,
         \A y \in L : nd[y].sup = None /\ nd[y].sub = None /\ nd[y].nSub = 0,
         IsRing(nd, L \cup {RootIndex}), NEW n, NEW ev
  PROVE  HeapOK(nd, L, {}, None, n, ev)
<1>1. None \notin L
  BY IndexFacts
<1>2. RingSet(nd, L, None) = L \cup {RootIndex}
  BY DEF RingSet
<1>3. ASSUME NEW p \in L PROVE RingSet(nd, L, p) = {}
  BY <1>1 DEF RingSet
<1>4. RingsOK(nd, L, L)
  <2>1. SUFFICES ASSUME NEW p \in L \cup {None}, RingSet(nd, L, p) # {}
                 PROVE  IsRing(nd, RingSet(nd, L, p))
    BY DEF RingsOK
  <2>2. p = None
    BY <1>3, <2>1
  <2>3. QED BY <1>2, <2>2
<1>5. ForestOK(nd, L, {})
  <2>1. ASSUME NEW T \in SUBSET L, T # {} PROVE \E x \in T : nd[x].sup \notin T
    BY <1>1, <2>1
  <2>2. QED BY <2>1 DEF ForestOK, Acyclic
<1>6. KidsOK(nd, L, None)
  <2>1. SUFFICES ASSUME NEW p \in L
                 PROVE  Counted(nd, L, p, 0) /\ SubNamed(nd, L, p, nd[p].sub)
    BY DEF KidsOK
  <2>2. nd[p].nSub = Cardinality({}) + 0 /\ nd[p].sub = None
    BY FS_EmptySet
  <2>3. QED BY <1>3, <2>2 DEF Counted, SubNamed
<1>7. OrderOK(nd, L, ev) /\ LossOK(nd, L, None, n)
  BY <1>1 DEF OrderOK, LossOK
<1>8. QED BY <1>4, <1>5, <1>6, <1>7 DEF HeapOK
-----------------------------------------------------------------------------
(* The inductive invariant.  While Del runs, the node xi is in the pool but *)
(* not linked; its children still name it until they are all cut, and its   *)
(* parent, or the parent that is cut in turn, counts one child too many.    *)
Deleting == fpc \in {"cut", "cutDone", "adjust", "delDone"}

FibType ==
  /\ DOMAIN events \subseteq FibIndex
  /\ events \in [DOMAIN events -> Nat]
  /\ minValid \in BOOLEAN
  /\ fired \in Seq(Nat) /\ due \in Nat

CallInv ==
  /\ \/ fpc = "idle" /\ op = "none"
     \/ Deleting /\ op \in {"del", "update", "advance"}
     \/ fpc \in {"min", "pass", "minDone"} /\ op \in {"advance", "nextTime"}
  /\ IF Deleting THEN xi \in DOMAIN events ELSE xi = None
  /\ op = "advance" /\ Deleting => IsLeast(xi, DOMAIN events) /\ events[xi] <= due
  /\ fpc = "adjust" => supi # None

Orphans == IF fpc = "cut" THEN {xi} ELSE {}

Adjusted == IF fpc \in {"cut", "cutDone"} THEN nodes[xi].sup
            ELSE IF fpc = "adjust" THEN supi ELSE None

NextKid == IF fpc = "adjust" THEN ni ELSE nodes[xi].next

HeapInv == HeapOK(nodes, Linked, Orphans, Adjusted, NextKid, events)

ChainInv ==
  fpc = "cut" => IsChain(nodes, RingSet(nodes, Linked, xi), nodes[xi].sub, ci)

(* Min has seen the roots that it noted and looks at ri; those it has not   *)
(* seen follow in the ring, from ni to the root node.                       *)
Seen == {deg[d] : d \in DOMAIN deg}
Unseen == RingSet(nodes, Linked, None) \ (Seen \cup {ri, RootIndex})

DegInv ==
  /\ DOMAIN deg \subseteq Nat
  /\ \A d \in DOMAIN deg : /\ deg[d] \in Linked /\ nodes[deg[d]].sup = None
                           /\ nodes[deg[d]].nSub = d /\ deg[d] # ri

PassInv ==
  IF fpc = "pass"
  THEN /\ ~minValid
       /\ DegInv
       /\ ri = RootIndex => Unseen = {}
       /\ ri # RootIndex =>
            /\ ri \in Linked /\ nodes[ri].sup = None
            /\ ni \in Unseen \cup {RootIndex}
            /\ \A y \in Unseen : nodes[y].next \in Unseen \cup {RootIndex}
            /\ \A y \in Unseen : nodes[y].prev \in Unseen <=> y # ni
  ELSE deg = <<>>

MinInv ==
  /\ minValid => \/ IsLeast(minIndex, Linked)
                 \/ fpc \in {"cut", "cutDone"} /\ minIndex = xi
  /\ fpc = "minDone" /\ ~minValid => Linked = {}

FibInv ==
  FibType /\ CallInv /\ HeapInv /\ ChainInv /\ PassInv /\ MinInv

LEMMA FibInitInv == FibInit => FibInv
<1> SUFFICES ASSUME FibInit PROVE FibInv
  OBVIOUS
<1>1. /\ minValid = FALSE /\ fired = <<>> /\ due = 0 /\ xi = None /\ deg = <<>>
      /\ \/ fpc = "idle" /\ op = "none"
         \/ fpc = "min" /\ op = "nextTime"
  BY DEF FibInit
<1>2. FibType
  <2>0. minValid \in BOOLEAN /\ fired \in Seq(Nat) /\ due \in Nat
    <3>1. <<>> \in Seq(Nat)
      OBVIOUS
    <3>2. fired \in Seq(Nat)
      BY <1>1, <3>1, Zenon
    <3>3. QED BY <1>1, <3>2
  <2>1. CASE events = <<>>
    <3>1. DOMAIN events = {} /\ events \in [{} -> Nat]
      BY <2>1
    <3>2. QED BY <2>0, <3>1 DEF FibType
  <2>2. CASE \E t \in FibTimes : events = [i \in FibIndex |-> t]
    <3>1. PICK t \in FibTimes : events = [i \in FibIndex |-> t]
      BY <2>2
    <3>2. t \in Nat
      BY FibAssumption
    <3>3. DOMAIN events = FibIndex /\ events \in [FibIndex -> Nat]
      BY <3>1, <3>2
    <3>4. QED BY <2>0, <3>3 DEF FibType
  <2>3. QED BY <2>1, <2>2 DEF FibInit
<1>3. CallInv
  BY <1>1 DEF CallInv, Deleting
<1>4. Linked = DOMAIN events
  BY <1>1, <1>2, IndexFacts DEF Linked, FibType
<1>5. HeapOK(nodes, Linked, {}, None, NextKid, events)
  <2>1. CASE events = <<>> /\ nodes = [i \in FibIndex \cup {RootIndex} |-> NewNode]
    <3>1. Linked = {}
      BY <1>4, <2>1
    <3>2. NewNode \in NodeRec
      BY Zenon DEF NewNode, NodeRec, AllNodes
    <3>3. nodes = [i \in AllNodes |-> NewNode]
      BY <2>1 DEF AllNodes
    <3>4. nodes \in [AllNodes -> NodeRec]
      BY <3>2, <3>3
    <3>5. nodes[RootIndex].next = RootIndex /\ nodes[RootIndex].prev = RootIndex
      BY <3>3, IndexFacts DEF NewNode
    <3>6. IsRing(nodes, {RootIndex})
      BY <3>5, RingAlone
    <3>7. {} \cup {RootIndex} = {RootIndex}
      OBVIOUS
    <3>8. IsRing(nodes, {} \cup {RootIndex})
      BY <3>6, <3>7
    <3>9. QED BY <3>1, <3>4, <3>8, HeapOfRoots
  <2>2. CASE /\ FibN > 0 /\ nodes = FullRing
             /\ \E t \in FibTimes : events = [i \in FibIndex |-> t]
    <3>1. Linked = FibIndex
      BY <1>4, <2>2
    <3>2. IsRing(nodes, FibIndex \cup {RootIndex})
      BY <2>2, FullRingIsRing DEF AllNodes
    <3>3. nodes \in [AllNodes -> NodeRec]
      BY <2>2, FullRingIsRing
    <3>4. \A y \in FibIndex : nodes[y].sup = None /\ nodes[y].sub = None
                              /\ nodes[y].nSub = 0
      BY <2>2, FullRingIsRing, IndexFacts
    <3>5. FibIndex \in SUBSET FibIndex
      OBVIOUS
    <3>6. QED BY <3>1, <3>2, <3>3, <3>4, <3>5, HeapOfRoots
  <2>3. QED BY <2>1, <2>2 DEF FibInit
<1>6. Orphans = {} /\ Adjusted = None
  BY <1>1 DEF Orphans, Adjusted
<1>7. HeapInv
  BY <1>5, <1>6 DEF HeapInv
<1>8. ChainInv /\ PassInv /\ MinInv
  BY <1>1 DEF ChainInv, PassInv, MinInv
<1>9. QED BY <1>2, <1>3, <1>7, <1>8 DEF FibInv

(* The heap while no parent waits to be adjusted.                          *)
LEMMA QuietHeap ==
  ASSUME HeapInv, fpc \notin {"cut", "cutDone", "adjust"}, NEW n
  PROVE  HeapOK(nodes, Linked, {}, None, n, events)
<1>1. Orphans = {} /\ Adjusted = None
  BY DEF Orphans, Adjusted
<1>2. HeapOK(nodes, Linked, {}, None, NextKid, events)
  BY <1>1 DEF HeapInv
<1>3. nodes \in [AllNodes -> NodeRec]
  BY <1>2 DEF HeapOK
<1>4. QED BY <1>2, <1>3, HeapSame

(* Del starts: of any event between calls, or of the least in advance.     *)
LEMMA StartDelKeeps ==
  ASSUME HeapInv, CallInv, FibType, MinInv, fpc \in {"idle", "minDone"},
         NEW i \in DOMAIN events, StartDel(i),
         DOMAIN events' = DOMAIN events,
         \A j \in DOMAIN events \ {i} : events'[j] = events[j]
  PROVE  /\ HeapInv' /\ ChainInv' /\ MinInv'
         /\ fpc' \in {"cut", "cutDone"} /\ xi' = i
<1>1. xi = None /\ Linked = DOMAIN events /\ Linked' = Linked \ {i}
  BY IndexFacts DEF CallInv, Deleting, FibType, Linked, StartDel
<1>2. HeapOK(nodes, Linked, {}, None, None, events)
  BY QuietHeap
<1>3. nodes' = Unlink(nodes, i) /\ xi' = i
  BY DEF StartDel
<1>4. /\ HeapOK(nodes', Linked \ {i}, {i}, nodes[i].sup, nodes[i].next, events)
      /\ nodes'[i].sup = nodes[i].sup /\ nodes'[i].sub = nodes[i].sub
      /\ nodes'[i].next = nodes[i].next
  BY <1>1, <1>2, <1>3, HeapUnlink
<1>5. HeapOK(nodes', Linked', {i}, nodes'[i].sup, nodes'[i].next, events')
  BY <1>1, <1>4, HeapOtherTimes
<1>6. i \in FibIndex
  BY DEF FibType
<1>7. KidsOK(nodes, Linked, None) /\ i # None /\ RingsOK(nodes, Linked, Linked)
  BY <1>2, <1>6, IndexFacts DEF HeapOK
<1>8. SubNamed(nodes, Linked, i, nodes[i].sub)
  BY <1>1, <1>7 DEF KidsOK
<1>9. PICK R : R = RingSet(nodes, Linked, i)
  OBVIOUS
<1>10. R \subseteq Linked /\ i \notin R
  <2>1. {i} \in SUBSET Linked /\ {i} # {} /\ Acyclic(nodes, Linked)
    BY <1>1, <1>2 DEF HeapOK, ForestOK
  <2>2. nodes[i].sup # i
    BY <2>1 DEF Acyclic
  <2>3. QED BY <1>7, <1>9, <2>2 DEF RingSet
<1>11. RingSet(nodes', Linked', i) = R
  <2>1. \A y \in Linked : nodes'[y].sup = nodes[y].sup
    <3>1. nodes \in [AllNodes -> NodeRec] /\ Linked \subseteq AllNodes /\ i \in AllNodes
      BY <1>2, <1>6, IndexFacts DEF HeapOK
    <3>2. QED BY <1>3, <3>1, UnlinkFacts DEF SameButLinks
  <2>2. QED BY <1>1, <1>7, <1>9, <1>10, <2>1 DEF RingSet
<1>12. MinInv'
  <2>1. /\ minValid' = minValid /\ minIndex' = minIndex
        /\ fpc' \in {"cut", "cutDone"}
    BY DEF StartDel
  <2>2. minValid => IsLeast(minIndex, Linked)
    BY DEF MinInv
  <2>3. minValid /\ minIndex # i => IsLeast(minIndex, Linked)'
    BY <1>1, <2>1, <2>2 DEF IsLeast
  <2>4. QED BY <1>3, <2>1, <2>3 DEF MinInv
<1>13. CASE nodes[i].sub = None
  <2>1. fpc' = "cutDone"
    BY <1>13 DEF StartDel
  <2>2. R = {}
    BY <1>2, <1>8, <1>9, <1>10, <1>13, IndexFacts DEF SubNamed, HeapOK
  <2>3. HeapOK(nodes', Linked', {}, nodes'[i].sup, nodes'[i].next, events')
    BY <1>5, <1>6, <1>11, <2>2, HeapAllCut
  <2>4. HeapInv'
    BY <1>3, <2>1, <2>3 DEF HeapInv, Orphans, Adjusted, NextKid
  <2>5. ChainInv'
    BY <2>1 DEF ChainInv
  <2>6. QED BY <1>3, <1>12, <2>1, <2>4, <2>5
<1>14. CASE nodes[i].sub # None
  <2>1. fpc' = "cut" /\ ci' = nodes[i].sub
    BY <1>14 DEF StartDel
  <2>2. nodes[i].sub \in R
    BY <1>8, <1>9, <1>14 DEF SubNamed
  <2>3. IsRing(nodes, R)
    BY <1>1, <1>7, <1>9, <2>2 DEF RingsOK
  <2>4. IsChain(nodes, R, nodes[i].sub, nodes[i].sub)
    BY <2>2, <2>3, RingIsChain
  <2>5. \A y \in R : nodes'[y].next = nodes[y].next /\ nodes'[y].prev = nodes[y].prev
    <3>1. PICK S : S = RingSet(nodes, Linked, nodes[i].sup)
      OBVIOUS
    <3>2. i \in S
      BY <1>1, <3>1 DEF RingSet
    <3>3. nodes[i].sup \in Linked \cup {None}
      BY <1>1, <1>2 DEF HeapOK, ForestOK
    <3>4. IsRing(nodes, S)
      BY <1>7, <3>1, <3>2, <3>3 DEF RingsOK
    <3>5. nodes[i].next \in S /\ nodes[i].prev \in S
      BY <3>2, <3>4 DEF IsRing
    <3>6. /\ nodes \in [AllNodes -> NodeRec] /\ i \in AllNodes
          /\ R \subseteq FibIndex /\ R \subseteq AllNodes
      BY <1>2, <1>6, <1>10, IndexFacts DEF HeapOK
    <3>7. \A y \in R : nodes[y].sup = i /\ y # RootIndex
      BY <1>7, <1>9, <3>6, IndexFacts DEF RingSet
    <3>8. nodes[i].sup # i
      BY <1>1, <1>7, <1>9, <1>10 DEF RingSet
    <3>9. \A y \in R : y \notin S
      BY <3>1, <3>7, <3>8 DEF RingSet
    <3>10. QED BY <1>3, <3>5, <3>6, <3>9, UnlinkFacts
  <2>6. IsChain(nodes', R, nodes[i].sub, nodes[i].sub)
    BY <2>4, <2>5, ChainSame
  <2>7. ChainInv'
    BY <1>3, <1>4, <1>11, <2>1, <2>6 DEF ChainInv
  <2>8. HeapInv'
    BY <1>3, <1>5, <2>1 DEF HeapInv, Orphans, Adjusted, NextKid
  <2>9. QED BY <1>3, <1>12, <2>1, <2>7, <2>8
<1>15. QED BY <1>13, <1>14

(* What an action leaves alone.                                            *)
LEMMA DeletedIsLeft ==
  ASSUME FibType
  PROVE  /\ xi = None => Linked = DOMAIN events
         /\ Linked \subseteq FibIndex
BY IndexFacts DEF FibType, Linked

LEMMA TimedAddKeeps ==
  ASSUME FibInv, NEW i \in FibIndex, NEW t \in FibTimes, TimedAdd(i, t)
  PROVE  FibInv'
<1>1. /\ fpc = "idle" /\ fpc' = "idle" /\ op' = op /\ due' = due /\ xi' = xi
      /\ deg' = deg /\ i \notin DOMAIN events /\ fired' = <<>>
      /\ events' = With(events, i, t) /\ minValid' = FALSE
  BY DEF TimedAdd, FibAdd, callVarsF, localVarsF
<1>2. t \in Nat
  BY FibAssumption
<1>3. /\ DOMAIN events' = DOMAIN events \cup {i}
      /\ events'[i] = t
      /\ \A j \in DOMAIN events : events'[j] = events[j]
  BY <1>1 DEF With
<1>4. FibType'
  <2>1. DOMAIN events' \subseteq FibIndex
    BY <1>3 DEF FibInv, FibType
  <2>2. events' \in [DOMAIN events' -> Nat]
    <3>1. \A j \in DOMAIN events : events[j] \in Nat
      BY DEF FibInv, FibType
    <3>2. \A j \in DOMAIN events' : events'[j] \in Nat
      BY <1>2, <1>3, <3>1
    <3>3. events' = [j \in DOMAIN events' |-> events'[j]]
      BY <1>1, <1>3 DEF With
    <3>4. QED BY <3>2, <3>3
  <2>3. <<>> \in Seq(Nat)
    OBVIOUS
  <2>4. fired' \in Seq(Nat)
    BY <1>1, <2>3, Zenon
  <2>5. due' \in Nat
    BY <1>1 DEF FibInv, FibType
  <2>6. QED BY <1>1, <2>1, <2>2, <2>4, <2>5 DEF FibType
<1>5. CallInv'
  BY <1>1 DEF FibInv, CallInv, Deleting
<1>6. xi = None /\ Linked = DOMAIN events
  BY <1>1, DeletedIsLeft DEF FibInv, CallInv, Deleting
<1>7. Linked' = Linked \cup {i}
  BY <1>1, <1>3, <1>6, IndexFacts DEF Linked
<1>8. HeapOK(nodes', Linked', {}, None, NextKid', events')
  <2>1. HeapOK(nodes, Linked, {}, None, None, events)
    BY <1>1, QuietHeap DEF FibInv
  <2>2. nodes' = AddRoot(Renew(nodes, i), i)
    BY DEF TimedAdd, FibAdd, Renew
  <2>3. i \in FibIndex \ Linked /\ events'[i] \in Nat
    BY <1>1, <1>2, <1>3, <1>6
  <2>4. \A y \in Linked : events'[y] = events[y]
    BY <1>3, <1>6
  <2>5. HeapOK(nodes', Linked \cup {i}, {}, None, NextKid', events')
    BY <2>1, <2>2, <2>3, <2>4, HeapAdd
  <2>6. QED BY <1>7, <2>5
<1>9. HeapInv' /\ ChainInv' /\ PassInv' /\ MinInv'
  <2>1. HeapInv'
    BY <1>1, <1>8 DEF HeapInv, Orphans, Adjusted
  <2>2. PassInv'
    BY <1>1 DEF FibInv, PassInv
  <2>3. QED BY <1>1, <2>1, <2>2 DEF ChainInv, MinInv
<1>10. QED BY <1>4, <1>5, <1>9 DEF FibInv

LEMMA TimedDelKeeps ==
  ASSUME FibInv, NEW i \in DOMAIN events, TimedDel(i)
  PROVE  FibInv'
<1>1. /\ fpc = "idle" /\ StartDel(i) /\ op' = "del" /\ fired' = <<>>
      /\ events' = events /\ minValid' = minValid /\ due' = due /\ deg' = deg
  BY DEF TimedDel, StartDel
<1>2. /\ HeapInv' /\ ChainInv' /\ MinInv'
      /\ fpc' \in {"cut", "cutDone"} /\ xi' = i
  BY <1>1, StartDelKeeps DEF FibInv
<1>3. FibType'
  <2>1. <<>> \in Seq(Nat)
    OBVIOUS
  <2>2. fired' \in Seq(Nat)
    BY <1>1, <2>1, Zenon
  <2>3. QED BY <1>1, <2>2 DEF FibInv, FibType
<1>4. CallInv'
  BY <1>1, <1>2 DEF CallInv, Deleting
<1>5. PassInv'
  BY <1>1, <1>2 DEF FibInv, PassInv
<1>6. QED BY <1>2, <1>3, <1>4, <1>5 DEF FibInv

LEMMA TimedUpdateKeeps ==
  ASSUME FibInv, NEW i \in DOMAIN events, NEW t \in FibTimes, TimedUpdate(i, t)
  PROVE  FibInv'
<1>1. /\ fpc = "idle" /\ StartDel(i) /\ op' = "update" /\ fired' = <<>>
      /\ events' = [events EXCEPT ![i] = t]
      /\ minValid' = minValid /\ due' = due /\ deg' = deg
  BY DEF TimedUpdate, StartDel
<1>2. /\ DOMAIN events' = DOMAIN events
      /\ \A j \in DOMAIN events \ {i} : events'[j] = events[j]
  BY <1>1
<1>3. /\ HeapInv' /\ ChainInv' /\ MinInv'
      /\ fpc' \in {"cut", "cutDone"} /\ xi' = i
  BY <1>1, <1>2, StartDelKeeps DEF FibInv
<1>4. FibType'
  <2>1. <<>> \in Seq(Nat)
    OBVIOUS
  <2>2. fired' \in Seq(Nat)
    BY <1>1, <2>1, Zenon
  <2>3. events' \in [DOMAIN events' -> Nat]
    BY <1>1, FibAssumption DEF FibInv, FibType
  <2>4. QED BY <1>1, <1>2, <2>2, <2>3 DEF FibInv, FibType
<1>5. CallInv'
  BY <1>1, <1>2, <1>3 DEF CallInv, Deleting
<1>6. PassInv'
  BY <1>1, <1>3 DEF FibInv, PassInv
<1>7. QED BY <1>3, <1>4, <1>5, <1>6 DEF FibInv

LEMMA TakeEventKeeps ==
  ASSUME FibInv, TakeEvent
  PROVE  /\ FibInv'
         /\ IsLeast(minIndex, DOMAIN events) /\ events[minIndex] <= due
<1>1. /\ fpc = "minDone" /\ op = "advance" /\ StartDel(minIndex) /\ op' = op
      /\ minValid /\ events[minIndex] <= due /\ fired' = fired
      /\ events' = events /\ minValid' = minValid /\ due' = due /\ deg' = deg
  BY DEF TakeEvent, StartDel, IsDue
<1>2. xi = None /\ Linked = DOMAIN events
  BY <1>1, DeletedIsLeft DEF FibInv, CallInv, Deleting
<1>3. IsLeast(minIndex, DOMAIN events)
  BY <1>1, <1>2 DEF FibInv, MinInv
<1>4. minIndex \in DOMAIN events
  BY <1>3 DEF IsLeast
<1>5. /\ HeapInv' /\ ChainInv' /\ MinInv'
      /\ fpc' \in {"cut", "cutDone"} /\ xi' = minIndex
  BY <1>1, <1>4, StartDelKeeps DEF FibInv
<1>6. FibType'
  BY <1>1 DEF FibInv, FibType
<1>7. CallInv'
  <2>1. IsLeast(xi, DOMAIN events)' /\ events'[xi'] <= due'
    BY <1>1, <1>3, <1>5 DEF IsLeast
  <2>2. QED BY <1>1, <1>4, <1>5, <2>1 DEF CallInv, Deleting
<1>8. PassInv'
  BY <1>1, <1>5 DEF FibInv, PassInv
<1>9. QED BY <1>1, <1>3, <1>5, <1>6, <1>7, <1>8 DEF FibInv

LEMMA AdvanceKeeps ==
  ASSUME FibInv, NEW t \in FibTimes, Advance(t)
  PROVE  FibInv'
<1>1. /\ fpc = "idle" /\ fpc' = "min" /\ op' = "advance" /\ due' = t
      /\ fired' = <<>> /\ events' = events /\ nodes' = nodes /\ xi' = xi
      /\ minIndex' = minIndex /\ minValid' = minValid /\ deg' = deg
  BY DEF Advance, heapVarsF, localVarsF
<1>2. FibType'
  <2>1. <<>> \in Seq(Nat)
    OBVIOUS
  <2>2. fired' \in Seq(Nat)
    BY <1>1, <2>1, Zenon
  <2>3. QED BY <1>1, <2>2, FibAssumption DEF FibInv, FibType
<1>3. CallInv'
  BY <1>1 DEF FibInv, CallInv, Deleting
<1>4. Linked' = Linked
  BY <1>1 DEF Linked
<1>5. HeapInv'
  BY <1>1, <1>4, QuietHeap DEF FibInv, HeapInv, Orphans, Adjusted
<1>6. ChainInv' /\ PassInv'
  BY <1>1 DEF FibInv, ChainInv, PassInv
<1>7. MinInv'
  BY <1>1, <1>4 DEF FibInv, MinInv, IsLeast
<1>8. QED BY <1>2, <1>3, <1>5, <1>6, <1>7 DEF FibInv

LEMMA NextTimeKeeps ==
  ASSUME FibInv, NextTime
  PROVE  FibInv'
<1>1. /\ fpc = "idle" /\ fpc' = "min" /\ op' = "nextTime" /\ due' = due
      /\ fired' = <<>> /\ events' = events /\ nodes' = nodes /\ xi' = xi
      /\ minIndex' = minIndex /\ minValid' = minValid /\ deg' = deg
  BY DEF NextTime, heapVarsF, localVarsF
<1>2. FibType'
  <2>1. <<>> \in Seq(Nat)
    OBVIOUS
  <2>2. fired' \in Seq(Nat)
    BY <1>1, <2>1, Zenon
  <2>3. QED BY <1>1, <2>2 DEF FibInv, FibType
<1>3. CallInv'
  BY <1>1 DEF FibInv, CallInv, Deleting
<1>4. Linked' = Linked
  BY <1>1 DEF Linked
<1>5. HeapInv'
  BY <1>1, <1>4, QuietHeap DEF FibInv, HeapInv, Orphans, Adjusted
<1>6. ChainInv' /\ PassInv'
  BY <1>1 DEF FibInv, ChainInv, PassInv
<1>7. MinInv'
  BY <1>1, <1>4 DEF FibInv, MinInv, IsLeast
<1>8. QED BY <1>2, <1>3, <1>5, <1>6, <1>7 DEF FibInv

LEMMA EndPoolCallKeeps ==
  ASSUME FibInv, EndPoolCall
  PROVE  FibInv'
<1>1. /\ fpc = "minDone" /\ fpc' = "idle" /\ op' = "none" /\ due' = 0
      /\ fired' = fired /\ events' = events /\ nodes' = nodes /\ xi' = xi
      /\ minIndex' = minIndex /\ minValid' = minValid /\ deg' = deg
  BY DEF EndPoolCall, Return, heapVarsF, localVarsF
<1>2. FibType'
  BY <1>1 DEF FibInv, FibType
<1>3. CallInv'
  BY <1>1 DEF FibInv, CallInv, Deleting
<1>4. Linked' = Linked
  BY <1>1 DEF Linked
<1>5. HeapInv'
  BY <1>1, <1>4, QuietHeap DEF FibInv, HeapInv, Orphans, Adjusted
<1>6. ChainInv' /\ PassInv'
  BY <1>1 DEF FibInv, ChainInv, PassInv
<1>7. MinInv'
  BY <1>1, <1>4 DEF FibInv, MinInv, IsLeast
<1>8. QED BY <1>2, <1>3, <1>5, <1>6, <1>7 DEF FibInv

LEMMA CutChildKeeps ==
  ASSUME FibInv, CutChild
  PROVE  FibInv'
<1>1. /\ fpc = "cut" /\ xi' = xi /\ events' = events /\ fired' = fired
      /\ due' = due /\ op' = op /\ minIndex' = minIndex /\ minValid' = minValid
      /\ deg' = deg /\ fpc' \in {"cut", "cutDone"}
      /\ nodes' = AddRoot([nodes EXCEPT ![ci].sup = None], ci)
  BY DEF CutChild
<1>2. xi \in DOMAIN events /\ xi \in FibIndex \ Linked
  BY <1>1 DEF FibInv, CallInv, Deleting, FibType, Linked
<1>3. HeapOK(nodes, Linked, {xi}, nodes[xi].sup, nodes[xi].next, events)
  BY <1>1 DEF FibInv, HeapInv, Orphans, Adjusted, NextKid
<1>4. PICK R : R = RingSet(nodes, Linked, xi)
  OBVIOUS
<1>5. IsChain(nodes, R, nodes[xi].sub, ci) /\ ci \in R
  BY <1>1, <1>4 DEF FibInv, ChainInv, IsChain
<1>6. nodes' = AddRoot(CutOff(nodes, ci), ci)
  BY <1>1 DEF CutOff
<1>7. Linked' = Linked
  BY <1>1 DEF Linked
<1>8. /\ HeapOK(nodes', Linked, {xi}, nodes[xi].sup, nodes[xi].next, events)
      /\ nodes'[xi].sup = nodes[xi].sup /\ nodes'[xi].sub = nodes[xi].sub
      /\ nodes'[xi].next = nodes[xi].next
      /\ RingSet(nodes', Linked, xi) = R \ {ci}
      /\ \A y \in R \ {ci} : nodes'[y].next = nodes[y].next
                             /\ nodes'[y].prev = nodes[y].prev
  <2>1. ci \in RingSet(nodes, Linked, xi)
    BY <1>4, <1>5
  <2>2. /\ HeapOK(nodes', Linked, {xi}, nodes[xi].sup, nodes[xi].next, events)
        /\ nodes'[xi].sup = nodes[xi].sup /\ nodes'[xi].sub = nodes[xi].sub
        /\ nodes'[xi].next = nodes[xi].next
        /\ RingSet(nodes', Linked, xi) = RingSet(nodes, Linked, xi) \ {ci}
        /\ \A y \in RingSet(nodes', Linked, xi) :
             nodes'[y].next = nodes[y].next /\ nodes'[y].prev = nodes[y].prev
    <3>1. xi \in FibIndex \ Linked
      BY <1>2
    <3>2. /\ HeapOK(nodes', Linked, {xi}, nodes[xi].sup, nodes[xi].next, events)
          /\ SameNode(nodes, nodes', xi)
          /\ RingSet(nodes', Linked, xi) = RingSet(nodes, Linked, xi) \ {ci}
          /\ SameLinks(nodes, nodes', RingSet(nodes', Linked, xi))
      BY <1>3, <1>6, <2>1, <3>1, HeapCutChild
    <3>3. QED BY <3>2 DEF SameNode, SameLinks
  <2>3. QED BY <1>4, <2>2
<1>9. HeapInv' /\ ChainInv'
  <2>1. CASE nodes[ci].next = nodes[xi].sub
    <3>1. fpc' = "cutDone"
      BY <2>1 DEF CutChild, LastChild
    <3>2. R = {ci}
      BY <1>5, <2>1, ChainLast
    <3>3. HeapOK(nodes', Linked, {}, nodes[xi].sup, nodes[xi].next, events)
      BY <1>2, <1>8, <3>2, HeapAllCut
    <3>4. HeapOK(nodes', Linked', {}, nodes'[xi'].sup, nodes'[xi'].next, events')
      BY <1>1, <1>7, <1>8, <3>3
    <3>5. HeapInv'
      BY <3>1, <3>4 DEF HeapInv, Orphans, Adjusted, NextKid
    <3>6. QED BY <3>1, <3>5 DEF ChainInv
  <2>2. CASE nodes[ci].next # nodes[xi].sub
    <3>1. fpc' = "cut" /\ ci' = nodes[ci].next
      BY <1>1, <2>2 DEF CutChild, LastChild
    <3>2. IsChain(nodes, R \ {ci}, nodes[xi].sub, nodes[ci].next)
      BY <1>5, <2>2, ChainCut
    <3>3. IsChain(nodes', R \ {ci}, nodes[xi].sub, nodes[ci].next)
      BY <1>8, <3>2, ChainSame
    <3>4. ChainInv'
      BY <1>1, <1>7, <1>8, <3>1, <3>3 DEF ChainInv
    <3>5. HeapOK(nodes', Linked', {xi'}, nodes'[xi'].sup, nodes'[xi'].next, events')
      BY <1>1, <1>7, <1>8
    <3>6. HeapInv'
      BY <3>1, <3>5 DEF HeapInv, Orphans, Adjusted, NextKid
    <3>7. QED BY <3>4, <3>6
  <2>3. QED BY <2>1, <2>2
<1>10. FibType'
  BY <1>1 DEF FibInv, FibType
<1>11. CallInv'
  BY <1>1 DEF FibInv, CallInv, Deleting, IsLeast
<1>12. PassInv'
  BY <1>1 DEF FibInv, PassInv
<1>13. MinInv'
  BY <1>1, <1>7 DEF FibInv, MinInv, IsLeast
<1>14. QED BY <1>9, <1>10, <1>11, <1>12, <1>13 DEF FibInv

LEMMA FindParentKeeps ==
  ASSUME FibInv, FindParent
  PROVE  FibInv'
<1>1. /\ fpc = "cutDone" /\ xi' = xi /\ events' = events /\ fired' = fired
      /\ due' = due /\ op' = op /\ minIndex' = minIndex /\ nodes' = nodes
      /\ deg' = deg /\ minValid' = (minValid /\ xi # minIndex)
      /\ \/ nodes[xi].sup = None /\ fpc' = "delDone"
         \/ /\ nodes[xi].sup # None /\ fpc' = "adjust"
            /\ supi' = nodes[xi].sup /\ ni' = nodes[xi].next
  BY DEF FindParent
<1>2. Linked' = Linked
  BY <1>1 DEF Linked
<1>3. HeapOK(nodes, Linked, {}, nodes[xi].sup, nodes[xi].next, events)
  BY <1>1 DEF FibInv, HeapInv, Orphans, Adjusted, NextKid
<1>4. HeapInv'
  BY <1>1, <1>2, <1>3 DEF HeapInv, Orphans, Adjusted, NextKid
<1>5. FibType'
  BY <1>1 DEF FibInv, FibType
<1>6. CallInv'
  BY <1>1 DEF FibInv, CallInv, Deleting, IsLeast
<1>7. PassInv' /\ ChainInv'
  BY <1>1 DEF FibInv, PassInv, ChainInv
<1>8. MinInv'
  BY <1>1, <1>2 DEF FibInv, MinInv, IsLeast
<1>9. QED BY <1>4, <1>5, <1>6, <1>7, <1>8 DEF FibInv

LEMMA AdjustParentKeeps ==
  ASSUME FibInv, AdjustParent
  PROVE  FibInv'
<1>1. /\ fpc = "adjust" /\ xi' = xi /\ events' = events /\ fired' = fired
      /\ due' = due /\ op' = op /\ minIndex' = minIndex /\ minValid' = minValid
      /\ deg' = deg
  BY DEF AdjustParent
<1>2. Linked' = Linked
  BY <1>1 DEF Linked
<1>3. HeapOK(nodes, Linked, {}, supi, ni, events) /\ supi # None
  BY <1>1 DEF FibInv, HeapInv, Orphans, Adjusted, NextKid, CallInv
<1>4. /\ op \in {"del", "update", "advance"} /\ xi \in DOMAIN events
      /\ op = "advance" => IsLeast(xi, DOMAIN events) /\ events[xi] <= due
  BY <1>1 DEF FibInv, CallInv, Deleting
<1>5. ASSUME fpc' \in {"adjust", "delDone"}, fpc' = "adjust" => supi' # None
      PROVE  CallInv'
  BY <1>1, <1>4, <1>5 DEF CallInv, Deleting, IsLeast
<1>6. HeapInv' /\ CallInv' /\ fpc' \in {"adjust", "delDone"}
  <2>1. CASE ~nodes[supi].isMarked \/ nodes[supi].sup = None
    <3>1. nodes' = LoseChild(nodes, supi, ni) /\ fpc' = "delDone"
      BY <2>1 DEF AdjustParent
    <3>2. HeapOK(nodes', Linked, {}, None, ni, events)
      BY <1>3, <3>1, HeapLoseChild
    <3>3. nodes' \in [AllNodes -> NodeRec]
      BY <3>2 DEF HeapOK
    <3>4. HeapOK(nodes', Linked, {}, None, NextKid', events)
      BY <3>2, <3>3, HeapSame
    <3>5. HeapInv'
      BY <1>1, <1>2, <3>1, <3>4 DEF HeapInv, Orphans, Adjusted
    <3>6. fpc' = "delDone"
      BY <3>1
    <3>7. CallInv'
      BY <1>5, <3>6
    <3>8. QED BY <3>5, <3>6, <3>7
  <2>2. CASE nodes[supi].isMarked /\ nodes[supi].sup # None
    <3>1. /\ nodes' = AddRoot(CutOff(Unlink(LoseChild(nodes, supi, ni), supi), supi),
                              supi)
          /\ supi' = nodes[supi].sup /\ ni' = nodes[supi].next /\ fpc' = "adjust"
      BY <1>1, <2>2 DEF AdjustParent, CutOff
    <3>2. HeapOK(nodes', Linked, {}, nodes[supi].sup, nodes[supi].next, events)
      BY <1>3, <2>2, <3>1, HeapCutParent
    <3>3. HeapInv'
      BY <1>1, <1>2, <3>1, <3>2 DEF HeapInv, Orphans, Adjusted, NextKid
    <3>4. fpc' = "adjust" /\ supi' # None
      BY <2>2, <3>1
    <3>5. CallInv'
      BY <1>5, <3>4
    <3>6. QED BY <3>3, <3>4, <3>5
  <2>3. QED BY <2>1, <2>2
<1>7. FibType'
  BY <1>1 DEF FibInv, FibType
<1>8. PassInv' /\ ChainInv'
  BY <1>1, <1>6 DEF FibInv, PassInv, ChainInv
<1>9. MinInv'
  BY <1>1, <1>2, <1>6 DEF FibInv, MinInv, IsLeast
<1>10. QED BY <1>6, <1>7, <1>8, <1>9 DEF FibInv

LEMMA RemoveEventKeeps ==
  ASSUME FibInv, RemoveEvent
  PROVE  /\ FibInv'
         /\ IF op = "advance"
            THEN /\ IsLeast(xi, DOMAIN events) /\ events[xi] <= due
                 /\ op' = op /\ events' = Without(events, xi)
                 /\ fired' = Append(fired, events[xi])
            ELSE fired' = fired
<1>1. /\ fpc = "delDone" /\ op \in {"del", "advance"}
      /\ events' = Without(events, xi) /\ xi' = None
      /\ nodes' = [nodes EXCEPT ![xi] = NewNode]
      /\ minIndex' = minIndex /\ minValid' = minValid /\ deg' = deg
      /\ IF op = "advance"
         THEN /\ fired' = Append(fired, events[xi]) /\ fpc' = "min"
              /\ op' = op /\ due' = due
         ELSE /\ fpc' = "idle" /\ op' = "none" /\ due' = 0 /\ fired' = fired
  BY DEF RemoveEvent, Return
<1>2. /\ xi \in DOMAIN events /\ xi \in FibIndex
      /\ op = "advance" => IsLeast(xi, DOMAIN events) /\ events[xi] <= due
  BY <1>1 DEF FibInv, CallInv, Deleting, FibType
<1>3. /\ DOMAIN events' = DOMAIN events \ {xi}
      /\ \A j \in DOMAIN events \ {xi} : events'[j] = events[j]
  BY <1>1 DEF Without
<1>4. FibType'
  <2>1. DOMAIN events' \subseteq FibIndex
    BY <1>3 DEF FibInv, FibType
  <2>2. \A j \in DOMAIN events : events[j] \in Nat
    BY DEF FibInv, FibType
  <2>3. events' \in [DOMAIN events' -> Nat]
    <3>1. events' = [j \in DOMAIN events' |-> events'[j]]
      BY <1>1, <1>3 DEF Without
    <3>2. \A j \in DOMAIN events' : events'[j] \in Nat
      BY <1>3, <2>2
    <3>3. QED BY <3>1, <3>2
  <2>4. fired' \in Seq(Nat)
    <3>1. fired \in Seq(Nat) /\ events[xi] \in Nat
      BY <1>2, <2>2 DEF FibInv, FibType
    <3>2. Append(fired, events[xi]) \in Seq(Nat)
      BY <3>1
    <3>3. QED BY <1>1, <3>1, <3>2, Zenon
  <2>5. due' \in Nat
    BY <1>1 DEF FibInv, FibType
  <2>6. minValid' \in BOOLEAN
    BY <1>1 DEF FibInv, FibType
  <2>7. QED BY <2>1, <2>3, <2>4, <2>5, <2>6 DEF FibType
<1>5. /\ fpc' \in {"min", "idle"}
      /\ \/ fpc' = "min" /\ op' = "advance"
         \/ fpc' = "idle" /\ op' = "none"
  BY <1>1
<1>6. CallInv'
  BY <1>1, <1>5 DEF CallInv, Deleting
<1>7. Linked' = Linked
  BY <1>1, <1>2, <1>3, IndexFacts DEF FibInv, FibType, Linked
<1>8. HeapOK(nodes, Linked, {}, None, None, events)
  BY <1>1, QuietHeap DEF FibInv
<1>9. HeapOK(nodes', Linked, {}, None, NextKid', events')
  <2>1. nodes \in [AllNodes -> NodeRec] /\ Linked \subseteq AllNodes /\ xi \in AllNodes
    BY <1>2, <1>8, IndexFacts DEF HeapOK
  <2>2. nodes' = Renew(nodes, xi)
    BY <1>1 DEF Renew
  <2>3. /\ nodes' \in [AllNodes -> NodeRec]
        /\ \A y \in AllNodes : y # xi => nodes'[y] = nodes[y]
    BY <2>1, <2>2, NewNodeFacts
  <2>4. \A y \in Linked \cup {RootIndex} : y \in AllNodes /\ y # xi
    BY <1>2, <2>1, IndexFacts DEF Linked
  <2>5. \A y \in Linked \cup {RootIndex} : nodes'[y] = nodes[y]
    BY <2>3, <2>4
  <2>6. \A y \in Linked : events'[y] = events[y]
    BY <1>3 DEF Linked
  <2>7. QED BY <1>8, <2>3, <2>5, <2>6, HeapSame
<1>10. HeapInv'
  <2>1. Orphans' = {} /\ Adjusted' = None
    BY <1>5 DEF Orphans, Adjusted
  <2>2. QED BY <1>7, <1>9, <2>1 DEF HeapInv
<1>11. ChainInv' /\ PassInv'
  BY <1>1, <1>5 DEF FibInv, ChainInv, PassInv
<1>12. MinInv'
  <2>1. \A y \in Linked : events'[y] = events[y]
    BY <1>3 DEF Linked
  <2>2. minValid => IsLeast(minIndex, Linked)
    BY <1>1 DEF FibInv, MinInv
  <2>3. minValid' => IsLeast(minIndex, Linked)'
    BY <1>1, <1>7, <2>1, <2>2 DEF IsLeast
  <2>4. QED BY <1>5, <2>3 DEF MinInv
<1>13. FibInv'
  BY <1>4, <1>6, <1>10, <1>11, <1>12 DEF FibInv
<1>14. QED BY <1>1, <1>2, <1>13

LEMMA AddAgainKeeps ==
  ASSUME FibInv, AddAgain
  PROVE  FibInv'
<1>1. /\ fpc = "delDone" /\ op = "update" /\ fpc' = "idle" /\ op' = "none"
      /\ events' = events /\ xi' = None /\ deg' = deg /\ fired' = fired
      /\ due' = 0 /\ minValid' = FALSE /\ nodes' = AddRoot(Renew(nodes, xi), xi)
  BY DEF AddAgain, FibAdd, Return, Renew
<1>2. xi \in DOMAIN events /\ xi \in FibIndex \ Linked /\ events[xi] \in Nat
  BY <1>1 DEF FibInv, CallInv, Deleting, FibType, Linked
<1>3. Linked' = Linked \cup {xi}
  BY <1>1, <1>2, IndexFacts DEF FibInv, FibType, Linked
<1>4. HeapOK(nodes', Linked', {}, None, NextKid', events')
  <2>1. HeapOK(nodes, Linked, {}, None, None, events)
    BY <1>1, QuietHeap DEF FibInv
  <2>2. \A y \in Linked : events'[y] = events[y]
    BY <1>1
  <2>3. nodes' = AddRoot(Renew(nodes, xi), xi) /\ events'[xi] \in Nat
    BY <1>1, <1>2
  <2>4. HeapOK(nodes', Linked \cup {xi}, {}, None, NextKid', events')
    BY <1>2, <2>1, <2>2, <2>3, HeapAdd
  <2>5. QED BY <1>3, <2>4
<1>5. FibType'
  BY <1>1 DEF FibInv, FibType
<1>6. CallInv'
  BY <1>1 DEF CallInv, Deleting
<1>7. HeapInv'
  BY <1>1, <1>4 DEF HeapInv, Orphans, Adjusted
<1>8. ChainInv' /\ PassInv' /\ MinInv'
  BY <1>1 DEF FibInv, ChainInv, PassInv, MinInv
<1>9. QED BY <1>5, <1>6, <1>7, <1>8 DEF FibInv
-----------------------------------------------------------------------------
(* Min.                                                                    *)
Roots == RingSet(nodes, Linked, None)

LEMMA RootsAreRing ==
  ASSUME HeapOK(nodes, Linked, {}, None, None, events)
  PROVE  /\ RootIndex \in Roots
         /\ \A y \in Roots : y # RootIndex => y \in Linked /\ nodes[y].sup = None
         /\ \A y \in Linked : nodes[y].sup = None => y \in Roots
         /\ IsRing(nodes, Roots)
         /\ \A y \in Roots : /\ nodes[y].next \in Roots /\ nodes[y].prev \in Roots
                             /\ nodes[nodes[y].next].prev = y
                             /\ nodes[nodes[y].prev].next = y
         /\ RootIndex \notin Linked
<1>1. RootIndex \in Roots
  BY DEF Roots, RingSet
<1>2. IsRing(nodes, Roots)
  BY <1>1 DEF Roots, HeapOK, RingsOK
<1>3. RootIndex \notin Linked
  BY IndexFacts DEF HeapOK
<1>4. /\ \A y \in Roots : y # RootIndex => y \in Linked /\ nodes[y].sup = None
      /\ \A y \in Linked : nodes[y].sup = None => y \in Roots
  BY DEF Roots, RingSet
<1>5. \A y \in Roots : /\ nodes[y].next \in Roots /\ nodes[y].prev \in Roots
                       /\ nodes[nodes[y].next].prev = y
                       /\ nodes[nodes[y].prev].next = y
  BY <1>2 DEF IsRing
<1>6. QED BY <1>1, <1>2, <1>3, <1>4, <1>5

(* Min's part of the invariant after a step that leaves the pool alone.    *)
LEMMA MinFrame ==
  ASSUME FibInv, fpc \in {"min", "pass"}, fpc' \in {"pass", "minDone"},
         events' = events, fired' = fired, op' = op, due' = due, xi' = xi
  PROVE  /\ fpc' = "minDone" \/ fpc' = "pass"
         /\ minValid' \in BOOLEAN => FibType'
         /\ CallInv' /\ ChainInv'
         /\ Linked' = Linked
         /\ HeapOK(nodes, Linked, {}, None, None, events)
         /\ xi = None /\ Linked = DOMAIN events
<1>1. minValid' \in BOOLEAN => FibType'
  BY DEF FibInv, FibType
<1>2. CallInv'
  BY DEF FibInv, CallInv, Deleting
<1>3. ChainInv'
  BY DEF ChainInv
<1>4. Linked' = Linked
  BY DEF Linked
<1>5. HeapOK(nodes, Linked, {}, None, None, events)
  BY QuietHeap DEF FibInv
<1>6. xi = None /\ Linked = DOMAIN events
  BY DeletedIsLeft DEF FibInv, CallInv, Deleting
<1>7. QED BY <1>1, <1>2, <1>3, <1>4, <1>5, <1>6

LEMMA StartMinKeeps ==
  ASSUME FibInv, StartMin
  PROVE  FibInv'
<1>1. /\ fpc = "min" /\ nodes' = nodes /\ minIndex' = minIndex
      /\ minValid' = minValid /\ events' = events /\ fired' = fired
      /\ op' = op /\ due' = due /\ xi' = xi /\ deg' = deg /\ deg = <<>>
      /\ fpc' \in {"pass", "minDone"}
  BY DEF StartMin, heapVarsF, FibInv, PassInv
<1>2. /\ FibType' /\ CallInv' /\ ChainInv' /\ Linked' = Linked
      /\ HeapOK(nodes, Linked, {}, None, None, events)
  BY <1>1, MinFrame DEF FibInv, FibType
<1>3. HeapInv'
  BY <1>1, <1>2, QuietHeap DEF FibInv, HeapInv, Orphans, Adjusted
<1>4. MinInv'
  <2>1. minValid => IsLeast(minIndex, Linked)
    BY <1>1 DEF FibInv, MinInv
  <2>2. minValid \/ fpc' = "pass"
    BY DEF StartMin
  <2>3. QED BY <1>1, <1>2, <2>1, <2>2 DEF MinInv, IsLeast
<1>5. PassInv'
  <2>1. CASE minValid
    BY <1>1, <2>1 DEF StartMin, PassInv
  <2>2. CASE ~minValid
    <3>1. PICK r, n : r = nodes[RootIndex].next /\ n = nodes[r].next
      OBVIOUS
    <3>2. ri' = r /\ ni' = n /\ fpc' = "pass"
      BY <2>2, <3>1 DEF StartMin
    <3>3. DOMAIN deg' = {} /\ Seen' = {}
      BY <1>1 DEF Seen
    <3>4. Unseen' = Roots \ {r, RootIndex}
      BY <1>1, <1>2, <3>2, <3>3 DEF Unseen, Roots
    <3>5. PICK U : U = Roots \ {r, RootIndex}
      OBVIOUS
    <3>6. r \in Roots /\ n \in Roots /\ RootIndex \in Roots
      BY <1>2, <3>1, RootsAreRing
    <3>7. CASE r = RootIndex
      <4>1. {RootIndex} \in SUBSET Roots /\ \A y \in {RootIndex} : nodes[y].next \in {RootIndex}
        BY <3>1, <3>6, <3>7
      <4>2. {RootIndex} = Roots
        BY <1>2, <4>1, RootsAreRing DEF IsRing
      <4>3. Unseen' = {}
        BY <3>4, <4>2
      <4>4. QED BY <1>1, <2>2, <3>2, <3>3, <3>7, <4>3 DEF PassInv, DegInv
    <3>8. CASE r # RootIndex
      <4>1. r \in Linked /\ nodes[r].sup = None
        BY <1>2, <3>6, <3>8, RootsAreRing
      <4>2. nodes[r].prev = RootIndex
        BY <1>2, <3>1, <3>6, RootsAreRing
      <4>3. n # r
        <5>1. Roots \ {r} # {}
          BY <3>6, <3>8
        <5>2. QED BY <1>2, <3>1, <3>6, <5>1, RootsAreRing, NextIsOther
      <4>4. n \in U \cup {RootIndex}
        BY <3>5, <3>6, <4>3
      <4>5. ASSUME NEW y \in U
            PROVE  /\ nodes[y].next \in U \cup {RootIndex}
                   /\ nodes[y].prev \in U <=> y # n
        <5>1. /\ y \in Roots /\ y # r /\ y # RootIndex
              /\ nodes[y].next \in Roots /\ nodes[y].prev \in Roots
              /\ nodes[nodes[y].next].prev = y /\ nodes[nodes[y].prev].next = y
          BY <1>2, <3>5, RootsAreRing
        <5>2. nodes[y].next # r
          BY <4>2, <5>1
        <5>3. nodes[y].prev # RootIndex
          BY <3>1, <5>1
        <5>4. nodes[y].prev = r <=> y = n
          <6>1. nodes[n].prev = r
            BY <1>2, <3>1, <3>6, RootsAreRing
          <6>2. QED BY <3>1, <5>1, <6>1
        <5>5. QED BY <3>5, <5>1, <5>2, <5>3, <5>4
      <4>6. QED BY <1>1, <1>2, <2>2, <3>2, <3>3, <3>4, <3>5, <3>8, <4>1, <4>4, <4>5
              DEF PassInv, DegInv
    <3>9. QED BY <3>7, <3>8
  <2>3. QED BY <2>1, <2>2
<1>6. QED BY <1>2, <1>3, <1>4, <1>5 DEF FibInv

(* What is known of a pass that looks at a root.                           *)
LEMMA PassFacts ==
  ASSUME FibInv, fpc = "pass", ri # RootIndex
  PROVE  /\ ~minValid /\ DOMAIN deg \subseteq Nat
         /\ \A d \in DOMAIN deg :
              /\ deg[d] \in Linked /\ nodes[deg[d]].sup = None
              /\ nodes[deg[d]].nSub = d /\ deg[d] # ri
         /\ ri \in Linked /\ nodes[ri].sup = None
         /\ ni \in Unseen \cup {RootIndex}
         /\ \A y \in Unseen : nodes[y].next \in Unseen \cup {RootIndex}
         /\ \A y \in Unseen : nodes[y].prev \in Unseen <=> y # ni
         /\ Unseen = Roots \ (Seen \cup {ri, RootIndex})
         /\ HeapOK(nodes, Linked, {}, None, None, events)
         /\ nodes[ri].nSub \in Nat
<1>1. HeapOK(nodes, Linked, {}, None, None, events)
  BY QuietHeap DEF FibInv
<1>2. /\ ~minValid /\ DegInv
      /\ ri \in Linked /\ nodes[ri].sup = None
      /\ ni \in Unseen \cup {RootIndex}
      /\ \A y \in Unseen : nodes[y].next \in Unseen \cup {RootIndex}
      /\ \A y \in Unseen : nodes[y].prev \in Unseen <=> y # ni
  BY DEF FibInv, PassInv
<1>3. nodes[ri].nSub \in Nat
  <2>1. ri \in AllNodes /\ nodes \in [AllNodes -> NodeRec]
    BY <1>1, <1>2, IndexFacts DEF HeapOK
  <2>2. QED BY <2>1 DEF NodeRec
<1>4. Unseen = Roots \ (Seen \cup {ri, RootIndex})
  BY DEF Unseen, Roots
<1>5. /\ DOMAIN deg \subseteq Nat
      /\ \A d \in DOMAIN deg :
           /\ deg[d] \in Linked /\ nodes[deg[d]].sup = None
           /\ nodes[deg[d]].nSub = d /\ deg[d] # ri
  BY <1>2 DEF DegInv
<1>6. QED BY <1>1, <1>2, <1>3, <1>4, <1>5

(* If the next root is the root node, no root is left to be seen: what is   *)
(* not unseen holds the root node and is closed under next.                 *)
LEMMA PassAtEnd ==
  ASSUME HeapOK(nodes, Linked, {}, None, None, events),
         NEW U \in SUBSET Roots, RootIndex \notin U,
         \A y \in U : nodes[y].prev \in U
  PROVE  U = {}
<1>1. \A y \in Roots \ U : nodes[y].next \in Roots \ U
  <2>1. SUFFICES ASSUME NEW y \in Roots \ U, nodes[y].next \in U PROVE FALSE
    BY RootsAreRing
  <2>2. nodes[nodes[y].next].prev = y
    BY RootsAreRing
  <2>3. QED BY <2>1, <2>2
<1>2. Roots \ U \in SUBSET Roots /\ Roots \ U # {}
  BY RootsAreRing
<1>3. Roots \ U = Roots
  BY <1>1, <1>2, RootsAreRing DEF IsRing
<1>4. QED BY <1>3

LEMMA SeeRootKeeps ==
  ASSUME FibInv, SeeRoot
  PROVE  FibInv'
<1>1. /\ fpc = "pass" /\ fpc' = "pass" /\ ri # RootIndex /\ nodes' = nodes
      /\ minIndex' = minIndex /\ minValid' = minValid /\ events' = events
      /\ fired' = fired /\ op' = op /\ due' = due /\ xi' = xi
      /\ ri' = ni /\ ni' = nodes[ni].next
      /\ nodes[ri].nSub \notin DOMAIN deg
      /\ deg' = With(deg, nodes[ri].nSub, ri)
  BY DEF SeeRoot, heapVarsF, callVarsF
<1>2. /\ FibType' /\ CallInv' /\ ChainInv' /\ Linked' = Linked
  BY <1>1, MinFrame DEF FibInv, FibType
<1>3. HeapInv'
  BY <1>1, <1>2, QuietHeap DEF FibInv, HeapInv, Orphans, Adjusted
<1>4. ~minValid /\ HeapOK(nodes, Linked, {}, None, None, events)
  BY <1>1, PassFacts
<1>5. MinInv'
  BY <1>1, <1>4 DEF MinInv
<1>6. PICK k : k = nodes[ri].nSub
  OBVIOUS
<1>7. /\ DOMAIN deg' = DOMAIN deg \cup {k}
      /\ deg'[k] = ri /\ \A d \in DOMAIN deg : deg'[d] = deg[d]
  BY <1>1, <1>6 DEF With
<1>8. Seen' = Seen \cup {ri}
  BY <1>7 DEF Seen
<1>9. Unseen' = Unseen \ {ni}
  <2>1. Unseen' = RingSet(nodes, Linked, None) \ ((Seen \cup {ri}) \cup {ni, RootIndex})
    BY <1>1, <1>2, <1>8 DEF Unseen
  <2>2. QED BY <2>1 DEF Unseen
<1>10. ni \notin Seen \cup {ri}
  <2>1. ni \in Unseen => ni \notin Seen \cup {ri}
    BY DEF Unseen
  <2>2. RootIndex \notin Seen \cup {ri}
    BY <1>1, <1>4, PassFacts, RootsAreRing DEF Seen
  <2>3. QED BY <1>1, <2>1, <2>2, PassFacts
<1>11. DegInv'
  <2>1. DOMAIN deg' \subseteq Nat
    BY <1>1, <1>6, <1>7, PassFacts
  <2>2. ASSUME NEW d \in DOMAIN deg'
        PROVE  /\ deg'[d] \in Linked' /\ nodes'[deg'[d]].sup = None
               /\ nodes'[deg'[d]].nSub = d /\ deg'[d] # ri'
    <3>1. CASE d = k
      BY <1>1, <1>2, <1>6, <1>7, <1>10, <3>1, PassFacts
    <3>2. CASE d \in DOMAIN deg
      <4>1. deg[d] \in Seen
        BY <3>2 DEF Seen
      <4>2. QED BY <1>1, <1>2, <1>7, <1>10, <3>2, <4>1, PassFacts
    <3>3. QED BY <1>7, <3>1, <3>2
  <2>3. QED BY <2>1, <2>2 DEF DegInv
<1>12. CASE ni = RootIndex
  <2>1. \A y \in Unseen : nodes[y].prev \in Unseen
    <3>1. RootIndex \notin Unseen
      BY DEF Unseen
    <3>2. QED BY <1>1, <1>12, <3>1, PassFacts
  <2>2. Unseen \in SUBSET Roots /\ RootIndex \notin Unseen
    BY DEF Unseen, Roots
  <2>3. Unseen = {}
    BY <1>4, <2>1, <2>2, PassAtEnd
  <2>4. PassInv'
    BY <1>1, <1>4, <1>9, <1>11, <1>12, <2>3 DEF PassInv
  <2>5. QED BY <1>2, <1>3, <1>5, <2>4 DEF FibInv
<1>13. CASE ni # RootIndex
  <2>1. ni \in Unseen
    BY <1>1, <1>13, PassFacts
  <2>2. ni \in Roots /\ ni \in Linked /\ nodes[ni].sup = None
    BY <1>4, <1>13, <2>1, RootsAreRing DEF Unseen, Roots
  <2>3. PICK m : m = nodes[ni].next
    OBVIOUS
  <2>4. m # ni
    <3>1. Roots \ {ni} # {} /\ IsRing(nodes, Roots)
      BY <1>4, <1>13, RootsAreRing
    <3>2. QED BY <2>2, <2>3, <3>1, NextIsOther
  <2>5. m \in (Unseen \ {ni}) \cup {RootIndex}
    BY <1>1, <2>1, <2>3, <2>4, PassFacts
  <2>6. nodes[m].prev = ni
    BY <1>4, <2>2, <2>3, RootsAreRing
  <2>7. ASSUME NEW y \in Unseen \ {ni}
        PROVE  /\ nodes[y].next \in (Unseen \ {ni}) \cup {RootIndex}
               /\ nodes[y].prev \in Unseen \ {ni} <=> y # m
    <3>1. y \in Roots
      BY DEF Unseen, Roots
    <3>2. nodes[nodes[y].next].prev = y /\ nodes[nodes[y].prev].next = y
      BY <1>4, <3>1, RootsAreRing
    <3>3. nodes[y].next \in Unseen \cup {RootIndex} /\ nodes[y].prev \in Unseen
      BY <1>1, PassFacts
    <3>4. nodes[y].next # ni
      <4>1. nodes[ni].prev \notin Unseen
        BY <1>1, <2>1, PassFacts
      <4>2. QED BY <3>2, <4>1
    <3>5. nodes[y].prev = ni <=> y = m
      BY <2>3, <2>6, <3>2
    <3>6. QED BY <3>3, <3>4, <3>5
  <2>8. PICK U : U = Unseen \ {ni}
    OBVIOUS
  <2>9. /\ m \in U \cup {RootIndex}
        /\ \A y \in U : nodes[y].next \in U \cup {RootIndex}
        /\ \A y \in U : nodes[y].prev \in U <=> y # m
    BY <2>5, <2>7, <2>8
  <2>10. Unseen' = U /\ ni' = m
    BY <1>1, <1>9, <2>3, <2>8
  <2>11. PassInv'
    BY <1>1, <1>2, <1>4, <1>11, <1>13, <2>2, <2>9, <2>10 DEF PassInv
  <2>12. QED BY <1>2, <1>3, <1>5, <2>11 DEF FibInv
<1>14. QED BY <1>12, <1>13

LEMMA LinkRootsKeeps ==
  ASSUME FibInv, LinkRoots
  PROVE  FibInv'
<1>1. PICK k, old : k = nodes[ri].nSub /\ old = deg[k]
  OBVIOUS
<1>2. PICK win, lose : /\ win = IF Wins(old, ri) THEN old ELSE ri
                       /\ lose = IF win = ri THEN old ELSE ri
  OBVIOUS
<1>3. /\ fpc = "pass" /\ fpc' = "pass" /\ ri # RootIndex /\ k \in DOMAIN deg
      /\ minIndex' = minIndex /\ minValid' = minValid /\ events' = events
      /\ fired' = fired /\ op' = op /\ due' = due /\ xi' = xi
      /\ ri' = win /\ ni' = ni /\ deg' = Without(deg, k)
      /\ nodes' = LinkUnder(nodes, win, lose)
  BY <1>1, <1>2 DEF LinkRoots, callVarsF
<1>4. /\ fpc = "pass" /\ fpc' = "pass" /\ ri # RootIndex /\ k \in DOMAIN deg
      /\ minIndex' = minIndex /\ minValid' = minValid /\ events' = events
      /\ fired' = fired /\ op' = op /\ due' = due /\ xi' = xi
      /\ ri' = win /\ ni' = ni /\ deg' = Without(deg, k)
  BY <1>3
<1>5. /\ FibType' /\ CallInv' /\ ChainInv' /\ Linked' = Linked
      /\ Linked = DOMAIN events
  BY <1>4, MinFrame DEF FibInv, FibType
<1>6. ~minValid /\ HeapOK(nodes, Linked, {}, None, None, events)
  BY <1>4, PassFacts
<1>7. /\ old \in Linked /\ old # ri /\ nodes[old].sup = None
      /\ nodes[old].nSub = k /\ ri \in Linked /\ nodes[ri].sup = None
  BY <1>1, <1>4, PassFacts
<1>8. \A y \in Linked : events[y] \in Nat
  BY <1>5 DEF FibInv, FibType
<1>9. /\ {win, lose} = {old, ri} /\ win # lose
      /\ win \in Linked /\ lose \in Linked
      /\ nodes[win].sup = None /\ nodes[lose].sup = None
      /\ events[win] <= events[lose]
  <2>1. events[old] \in Nat /\ events[ri] \in Nat
    BY <1>7, <1>8
  <2>2. CASE Wins(old, ri)
    BY <1>2, <1>7, <2>1, <2>2 DEF Wins
  <2>3. CASE ~Wins(old, ri)
    BY <1>2, <1>7, <2>1, <2>3 DEF Wins
  <2>4. QED BY <2>2, <2>3
<1>10. /\ HeapOK(nodes', Linked, {}, None, NextKid', events)
       /\ \A y \in Linked : nodes'[y].sup = IF y = lose THEN win ELSE nodes[y].sup
       /\ \A y \in Linked \ {win} : nodes'[y].nSub = nodes[y].nSub
       /\ \A y \in RingSet(nodes, Linked, None) \ {lose} :
            /\ nodes'[y].next = IF y = nodes[lose].prev THEN nodes[lose].next
                                ELSE nodes[y].next
            /\ nodes'[y].prev = IF y = nodes[lose].next THEN nodes[lose].prev
                                ELSE nodes[y].prev
  <2>1. nodes' = LinkUnder(nodes, win, lose)
    BY <1>3
  <2>2. QED BY <1>6, <1>9, <2>1, HeapLink
<1>11. HeapInv'
  <2>1. Orphans' = {} /\ Adjusted' = None
    BY <1>4 DEF Orphans, Adjusted
  <2>2. QED BY <1>4, <1>5, <1>10, <2>1 DEF HeapInv
<1>12. MinInv'
  BY <1>4, <1>6 DEF MinInv
<1>13. /\ DOMAIN deg' = DOMAIN deg \ {k}
       /\ \A d \in DOMAIN deg \ {k} : deg'[d] = deg[d]
  BY <1>4 DEF Without
<1>14. ASSUME NEW d \in DOMAIN deg \ {k} PROVE deg[d] # win /\ deg[d] # lose
  <2>1. nodes[deg[d]].nSub = d /\ d # k
    BY <1>4, PassFacts
  <2>2. deg[d] # old /\ deg[d] # ri
    BY <1>1, <1>7, <2>1
  <2>3. QED BY <1>9, <2>2
<1>15. Seen' = Seen \ {old}
  <2>1. Seen = {deg[d] : d \in DOMAIN deg \ {k}} \cup {old}
    BY <1>1, <1>4 DEF Seen
  <2>2. Seen' = {deg[d] : d \in DOMAIN deg \ {k}}
    BY <1>13 DEF Seen
  <2>3. old \notin {deg[d] : d \in DOMAIN deg \ {k}}
    BY <1>9, <1>14
  <2>4. QED BY <2>1, <2>2, <2>3
<1>16. old \in Seen
  BY <1>1, <1>4 DEF Seen
<1>17. Roots' = Roots \ {lose}
  <2>1. win # None
    BY <1>6, <1>9, IndexFacts DEF HeapOK
  <2>2. lose # RootIndex
    BY <1>6, <1>9, IndexFacts DEF HeapOK
  <2>3. QED BY <1>5, <1>10, <2>1, <2>2 DEF Roots, RingSet
<1>18. Unseen = Roots \ (Seen \cup {ri, RootIndex})
  BY <1>4, PassFacts
<1>19. Unseen' = Unseen
  <2>1. Unseen' = Roots' \ (Seen' \cup {win, RootIndex})
    BY <1>4 DEF Unseen, Roots
  <2>2. Unseen' = (Roots \ {lose}) \ ((Seen \ {old}) \cup {win, RootIndex})
    BY <1>15, <1>17, <2>1
  <2>3. QED BY <1>9, <1>16, <1>18, <2>2
<1>20. lose \notin Unseen \cup {RootIndex} /\ lose \in Roots
  <2>1. lose # RootIndex
    BY <1>6, <1>9, IndexFacts DEF HeapOK
  <2>2. lose \in Roots
    BY <1>6, <1>9, RootsAreRing
  <2>3. QED BY <1>9, <1>16, <1>18, <2>1, <2>2
<1>21. DegInv'
  <2>1. DOMAIN deg' \subseteq Nat
    BY <1>4, <1>13, PassFacts
  <2>2. ASSUME NEW d \in DOMAIN deg'
        PROVE  /\ deg'[d] \in Linked' /\ nodes'[deg'[d]].sup = None
               /\ nodes'[deg'[d]].nSub = d /\ deg'[d] # ri'
    <3>1. d \in DOMAIN deg \ {k} /\ deg'[d] = deg[d]
      BY <1>13
    <3>2. deg[d] \in Linked /\ nodes[deg[d]].sup = None /\ nodes[deg[d]].nSub = d
      BY <1>4, <3>1, PassFacts
    <3>3. deg[d] # win /\ deg[d] # lose
      BY <1>14, <3>1
    <3>4. nodes'[deg[d]].sup = None /\ nodes'[deg[d]].nSub = d
      BY <1>10, <3>2, <3>3
    <3>5. QED BY <1>4, <1>5, <3>1, <3>2, <3>3, <3>4
  <2>3. QED BY <2>1, <2>2 DEF DegInv
<1>22. ASSUME NEW y \in Unseen
       PROVE  /\ nodes'[y].next \in Unseen \cup {RootIndex}
              /\ nodes'[y].prev \in Unseen <=> y # ni
  <2>1. y \in Roots /\ y # lose
    BY <1>18, <1>20
  <2>2. /\ nodes[y].next \in Unseen \cup {RootIndex}
        /\ nodes[y].prev \in Unseen <=> y # ni
    BY <1>4, PassFacts
  <2>3. /\ nodes[nodes[y].next].prev = y /\ nodes[nodes[y].prev].next = y
        /\ nodes[nodes[lose].next].prev = lose /\ nodes[nodes[lose].prev].next = lose
        /\ nodes[lose].prev \in Roots
    BY <1>6, <1>20, <2>1, RootsAreRing
  <2>4. y # nodes[lose].prev
    BY <1>20, <2>2, <2>3
  <2>5. y \in RingSet(nodes, Linked, None) \ {lose}
    BY <2>1 DEF Roots
  <2>6. nodes'[y].next = nodes[y].next
    BY <1>10, <2>4, <2>5
  <2>7. CASE y = nodes[lose].next
    <3>1. nodes'[y].prev = nodes[lose].prev
      BY <1>10, <2>5, <2>7
    <3>2. nodes[y].prev = lose
      BY <2>3, <2>7
    <3>3. y = ni
      BY <1>20, <2>2, <3>2
    <3>4. nodes[lose].prev \notin Unseen
      <4>1. SUFFICES ASSUME nodes[lose].prev \in Unseen PROVE FALSE
        OBVIOUS
      <4>2. nodes[nodes[lose].prev].next \in Unseen \cup {RootIndex}
        BY <1>4, <4>1, PassFacts
      <4>3. QED BY <1>20, <2>3, <4>2
    <3>5. QED BY <2>2, <2>6, <3>1, <3>3, <3>4
  <2>8. CASE y # nodes[lose].next
    <3>1. nodes'[y].prev = nodes[y].prev
      BY <1>10, <2>5, <2>8
    <3>2. QED BY <2>2, <2>6, <3>1
  <2>9. QED BY <2>7, <2>8
<1>23. /\ ri' \in Linked' /\ nodes'[ri'].sup = None /\ ri' # RootIndex
  <2>1. nodes'[win].sup = None
    BY <1>9, <1>10
  <2>2. win # RootIndex
    BY <1>6, <1>9, IndexFacts DEF HeapOK
  <2>3. QED BY <1>4, <1>5, <1>9, <2>1, <2>2
<1>24. ni' \in Unseen' \cup {RootIndex}
  BY <1>4, <1>19, PassFacts
<1>25. \A y \in Unseen' : /\ nodes'[y].next \in Unseen' \cup {RootIndex}
                          /\ nodes'[y].prev \in Unseen' <=> y # ni'
  BY <1>4, <1>19, <1>22
<1>26. PassInv'
  <2>1. fpc' = "pass" /\ ~minValid'
    BY <1>4, <1>6
  <2>2. QED BY <1>21, <1>23, <1>24, <1>25, <2>1 DEF PassInv
<1>27. QED BY <1>5, <1>11, <1>12, <1>26 DEF FibInv

(* The root that Min chooses is least of all, and it chooses one if there   *)
(* is an event.                                                             *)
LEMMA LeastRootFacts ==
  ASSUME HeapOK(nodes, Linked, {}, None, None, events),
         \A y \in Linked : events[y] \in Nat,
         DegInv, Roots \subseteq Seen \cup {RootIndex}
  PROVE  IF Linked = {} THEN LeastRoot = None ELSE IsLeast(LeastRoot, Linked)
<1>1. /\ DOMAIN deg \subseteq Nat
      /\ \A d \in DOMAIN deg : deg[d] \in Linked /\ nodes[deg[d]].sup = None
  BY DEF DegInv
<1>2. PICK best : best = {d \in DOMAIN deg :
                            \A e \in DOMAIN deg : events[deg[d]] <= events[deg[e]]}
  OBVIOUS
<1>3. LeastRoot = IF best = {} THEN None
                  ELSE deg[CHOOSE d \in best : \A e \in best : d <= e]
  BY <1>2 DEF LeastRoot
<1>4. CASE Linked = {}
  <2>1. best = {}
    BY <1>1, <1>2, <1>4
  <2>2. QED BY <1>3, <1>4, <2>1
<1>5. CASE Linked # {}
  <2>1. PICK x \in Linked : nodes[x].sup = None
    BY <1>5, HeapLeast
  <2>2. \A y \in Linked : nodes[y].sup = None => \E d \in DOMAIN deg : y = deg[d]
    <3>1. SUFFICES ASSUME NEW y \in Linked, nodes[y].sup = None
                   PROVE  \E d \in DOMAIN deg : y = deg[d]
      OBVIOUS
    <3>2. y \in Roots /\ y # RootIndex
      BY <3>1, RootsAreRing
    <3>3. QED BY <3>2 DEF Seen
  <2>3. PICK a \in DOMAIN deg : x = deg[a]
    BY <2>1, <2>2
  <2>4. PICK T : T = {events[deg[d]] : d \in DOMAIN deg}
    OBVIOUS
  <2>5. T \in SUBSET Nat /\ T # {}
    BY <1>1, <2>3, <2>4
  <2>6. PICK t \in T : \A u \in T : t <= u
    BY <2>5, LeastOfNat
  <2>7. PICK b \in DOMAIN deg : t = events[deg[b]]
    BY <2>4, <2>6
  <2>8. b \in best
    BY <1>2, <2>4, <2>6, <2>7
  <2>9. best \in SUBSET Nat
    BY <1>1, <1>2
  <2>10. \E d \in best : \A e \in best : d <= e
    BY <2>8, <2>9, LeastOfNat
  <2>11. PICK c : c = CHOOSE d \in best : \A e \in best : d <= e
    OBVIOUS
  <2>12. c \in best
    BY <2>10, <2>11
  <2>13. LeastRoot = deg[c] /\ c \in DOMAIN deg
    BY <1>2, <1>3, <2>8, <2>11, <2>12
  <2>14. \A y \in Linked : nodes[y].sup = None => events[deg[c]] <= events[y]
    BY <1>2, <2>2, <2>12
  <2>15. deg[c] \in Linked
    BY <1>1, <2>13
  <2>16. \A y \in Linked : events[deg[c]] <= events[y]
    BY <1>5, <2>14, <2>15, HeapLeast
  <2>17. QED BY <1>5, <2>13, <2>15, <2>16 DEF IsLeast
<1>6. QED BY <1>4, <1>5

LEMMA EndMinKeeps ==
  ASSUME FibInv, EndMin
  PROVE  FibInv'
<1>1. /\ fpc = "pass" /\ ri = RootIndex /\ fpc' = "minDone" /\ nodes' = nodes
      /\ events' = events /\ fired' = fired /\ op' = op /\ due' = due
      /\ xi' = xi /\ deg' = <<>> /\ minIndex' = LeastRoot
      /\ minValid' = (LeastRoot # None)
  BY DEF EndMin
<1>2. /\ FibType' /\ CallInv' /\ ChainInv' /\ Linked' = Linked
      /\ HeapOK(nodes, Linked, {}, None, None, events) /\ Linked = DOMAIN events
  BY <1>1, MinFrame
<1>3. HeapInv'
  BY <1>1, <1>2, QuietHeap DEF FibInv, HeapInv, Orphans, Adjusted
<1>4. \A y \in Linked : events[y] \in Nat
  BY <1>2 DEF FibInv, FibType
<1>5. DegInv /\ Unseen = {}
  BY <1>1 DEF FibInv, PassInv
<1>6. Roots \subseteq Seen \cup {RootIndex}
  BY <1>1, <1>5 DEF Unseen, Roots
<1>7. IF Linked = {} THEN LeastRoot = None ELSE IsLeast(LeastRoot, Linked)
  BY <1>2, <1>4, <1>5, <1>6, LeastRootFacts
<1>8. MinInv'
  <2>1. CASE Linked = {}
    BY <1>1, <1>2, <1>7, <2>1 DEF MinInv
  <2>2. CASE Linked # {}
    <3>1. IsLeast(LeastRoot, Linked)
      BY <1>7, <2>2
    <3>2. LeastRoot # None
      BY <1>2, <3>1, IndexFacts DEF IsLeast, HeapOK
    <3>3. IsLeast(minIndex, Linked)'
      BY <1>1, <1>2, <3>1 DEF IsLeast
    <3>4. minValid'
      BY <1>1, <3>2
    <3>5. QED BY <3>3, <3>4 DEF MinInv
  <2>3. QED BY <2>1, <2>2
<1>9. PassInv'
  BY <1>1 DEF PassInv
<1>10. QED BY <1>2, <1>3, <1>8, <1>9 DEF FibInv
-----------------------------------------------------------------------------
LEMMA FibStepInv == FibInv /\ [FibNext]_fibVars => FibInv'
<1> SUFFICES ASSUME FibInv, [FibNext]_fibVars PROVE FibInv'
  OBVIOUS
<1>1. ASSUME NEW i \in FibIndex, NEW t \in FibTimes, TimedAdd(i, t) PROVE FibInv'
  BY <1>1, TimedAddKeeps
<1>2. ASSUME NEW i \in DOMAIN events, TimedDel(i) PROVE FibInv'
  BY <1>2, TimedDelKeeps
<1>3. ASSUME NEW i \in DOMAIN events, NEW t \in FibTimes, TimedUpdate(i, t)
      PROVE  FibInv'
  BY <1>3, TimedUpdateKeeps
<1>4. ASSUME NEW t \in FibTimes, Advance(t) PROVE FibInv'
  BY <1>4, AdvanceKeeps
<1>5. CASE NextTime
  BY <1>5, NextTimeKeeps
<1>6. CASE CutChild
  BY <1>6, CutChildKeeps
<1>7. CASE FindParent
  BY <1>7, FindParentKeeps
<1>8. CASE AdjustParent
  BY <1>8, AdjustParentKeeps
<1>9. CASE RemoveEvent
  BY <1>9, RemoveEventKeeps
<1>10. CASE AddAgain
  BY <1>10, AddAgainKeeps
<1>11. CASE StartMin
  BY <1>11, StartMinKeeps
<1>12. CASE SeeRoot
  BY <1>12, SeeRootKeeps
<1>13. CASE LinkRoots
  BY <1>13, LinkRootsKeeps
<1>14. CASE EndMin
  BY <1>14, EndMinKeeps
<1>15. CASE TakeEvent
  BY <1>15, TakeEventKeeps
<1>16. CASE EndPoolCall
  BY <1>16, EndPoolCallKeeps
<1>17. CASE UNCHANGED fibVars
  <2>1. /\ nodes' = nodes /\ minIndex' = minIndex /\ minValid' = minValid
        /\ events' = events /\ fired' = fired /\ fpc' = fpc /\ op' = op
        /\ due' = due /\ xi' = xi /\ ci' = ci /\ supi' = supi /\ ni' = ni
        /\ ri' = ri /\ deg' = deg
    BY <1>17 DEF fibVars, heapVarsF, callVarsF, localVarsF
  <2>2. /\ Linked' = Linked /\ Unseen' = Unseen /\ Orphans' = Orphans
        /\ Adjusted' = Adjusted /\ NextKid' = NextKid
    BY <2>1 DEF Linked, Unseen, Seen, Orphans, Adjusted, NextKid
  <2>3. FibType' /\ CallInv'
    BY <2>1 DEF FibInv, FibType, CallInv, Deleting, IsLeast
  <2>4. HeapInv' /\ ChainInv'
    BY <2>1, <2>2 DEF FibInv, HeapInv, ChainInv
  <2>5. PassInv' /\ MinInv'
    BY <2>1, <2>2 DEF FibInv, PassInv, DegInv, MinInv, IsLeast
  <2>6. QED BY <2>3, <2>4, <2>5 DEF FibInv
<1>18. QED BY <1>1, <1>2, <1>3, <1>4, <1>5, <1>6, <1>7, <1>8, <1>9, <1>10, <1>11,
              <1>12, <1>13, <1>14, <1>15, <1>16, <1>17 DEF FibNext

(* The invariant holds in every state of the pool and its heap, whatever    *)
(* adds, deletions, updates and advances came before.                       *)
THEOREM FibInvariant == FibSpec => []FibInv
BY FibInitInv, FibStepInv, PTL DEF FibSpec

(* The links are a consistent forest over the events of the pool whenever   *)
(* no call of fibheap.go is in progress: FibLinksConsistent for every size  *)
(* of the pool.                                                             *)
THEOREM FibLinksTheorem == FibSpec => []FibLinksConsistent
<1>1. FibInv => FibLinksConsistent
  <2>1. SUFFICES ASSUME FibInv, fpc = "idle"
                 PROVE  /\ IsForest(nodes, DOMAIN events)
                        /\ IsRing(nodes, Ring(None))
                        /\ \A p \in DOMAIN events :
                             /\ IF Children(p) = {} THEN nodes[p].sub = None
                                ELSE /\ nodes[p].sub \in Children(p)
                                     /\ IsRing(nodes, Children(p))
                             /\ nodes[p].nSub = Cardinality(Children(p))
    BY DEF FibLinksConsistent
  <2>2. Linked = DOMAIN events /\ HeapOK(nodes, Linked, {}, None, None, events)
    BY <2>1, DeletedIsLeft, QuietHeap DEF FibInv, CallInv, Deleting
  <2>3. IsForest(nodes, DOMAIN events)
    BY <2>2 DEF HeapOK, ForestOK, Acyclic, IsForest
  <2>4. Ring(None) = RingSet(nodes, Linked, None)
    BY DEF Ring, Children, RingSet
  <2>5. IsRing(nodes, Ring(None))
    <3>1. Ring(None) = Roots
      BY <2>4 DEF Roots
    <3>2. QED BY <2>2, <3>1, RootsAreRing
  <2>6. ASSUME NEW p \in DOMAIN events
        PROVE  /\ IF Children(p) = {} THEN nodes[p].sub = None
                  ELSE /\ nodes[p].sub \in Children(p)
                       /\ IsRing(nodes, Children(p))
               /\ nodes[p].nSub = Cardinality(Children(p))
    <3>1. p \in Linked /\ p # None /\ Linked \in SUBSET FibIndex
      BY <2>2, IndexFacts DEF HeapOK
    <3>2. Children(p) = RingSet(nodes, Linked, p)
      BY <3>1 DEF Children, RingSet
    <3>3. Counted(nodes, Linked, p, 0) /\ SubNamed(nodes, Linked, p, nodes[p].sub)
      BY <2>2, <3>1 DEF HeapOK, KidsOK
    <3>4. Cardinality(Children(p)) \in Nat
      BY <3>1, <3>2, RingSetFinite
    <3>5. nodes[p].nSub = Cardinality(Children(p))
      BY <3>2, <3>3, <3>4 DEF Counted
    <3>6. Children(p) # {} => IsRing(nodes, Children(p))
      BY <2>2, <3>1, <3>2 DEF HeapOK, RingsOK
    <3>7. QED BY <3>2, <3>3, <3>5, <3>6 DEF SubNamed
  <2>7. QED BY <2>3, <2>5, <2>6
<1>2. QED BY <1>1, FibInvariant, PTL

(* No event is due before its parent, and a valid minIndex names the event  *)
(* with the least time: FibMinIsLeast for every size of the pool.           *)
THEOREM FibMinTheorem == FibSpec => []FibMinIsLeast
<1>1. FibInv => FibMinIsLeast
  <2>1. SUFFICES ASSUME FibInv, fpc = "idle"
                 PROVE  /\ \A x \in DOMAIN events :
                             nodes[x].sup # None => events[nodes[x].sup] <= events[x]
                        /\ minValid => IsLeast(minIndex, DOMAIN events)
    BY DEF FibMinIsLeast
  <2>2. Linked = DOMAIN events /\ HeapOK(nodes, Linked, {}, None, None, events)
    BY <2>1, DeletedIsLeft, QuietHeap DEF FibInv, CallInv, Deleting
  <2>3. \A x \in Linked : nodes[x].sup \in Linked \cup {None}
    BY <2>2 DEF HeapOK, ForestOK
  <2>4. \A x \in Linked : nodes[x].sup \in Linked => events[nodes[x].sup] <= events[x]
    BY <2>2 DEF HeapOK, OrderOK
  <2>5. minValid => IsLeast(minIndex, Linked)
    BY <2>1 DEF FibInv, MinInv
  <2>6. QED BY <2>2, <2>3, <2>4, <2>5
<1>2. QED BY <1>1, FibInvariant, PTL

(* The steps of a call: what advance takes out is due and least of what is  *)
(* left, and it returns when nothing that is left is due.                   *)
LEMMA AdvanceStepHolds ==
  ASSUME FibInv, FibNext
  PROVE  AdvanceStep
<1>1. CASE \/ \E i \in FibIndex, t \in FibTimes : TimedAdd(i, t)
           \/ \E i \in DOMAIN events : TimedDel(i)
           \/ \E i \in DOMAIN events, t \in FibTimes : TimedUpdate(i, t)
           \/ \E t \in FibTimes : Advance(t)
           \/ NextTime
  <2>1. fpc = "idle" /\ fired' = <<>>
    BY <1>1 DEF TimedAdd, TimedDel, TimedUpdate, Advance, NextTime
  <2>2. op = "none"
    BY <2>1 DEF FibInv, CallInv, Deleting
  <2>3. QED BY <2>1, <2>2 DEF AdvanceStep
<1>2. CASE CutChild \/ FindParent \/ AdjustParent \/ StartMin \/ SeeRoot
           \/ LinkRoots \/ EndMin \/ TakeEvent
  <2>1. fired' = fired /\ op' = op
    BY <1>2 DEF CutChild, FindParent, AdjustParent, StartMin, SeeRoot, LinkRoots,
                EndMin, TakeEvent, callVarsF
  <2>2. QED BY <2>1 DEF AdvanceStep
<1>3. CASE RemoveEvent
  <2>1. CASE op = "advance"
    <3>1. /\ IsLeast(xi, DOMAIN events) /\ events[xi] <= due
          /\ op' = op /\ events' = Without(events, xi)
          /\ fired' = Append(fired, events[xi])
      BY <1>3, <2>1, RemoveEventKeeps
    <3>2. xi \in DOMAIN events
      BY <3>1 DEF IsLeast
    <3>3. QED BY <2>1, <3>1, <3>2 DEF AdvanceStep
  <2>2. CASE op # "advance"
    <3>1. fired' = fired
      BY <1>3, <2>2, RemoveEventKeeps
    <3>2. QED BY <2>2, <3>1 DEF AdvanceStep
  <2>3. QED BY <2>1, <2>2
<1>4. CASE AddAgain
  <2>1. fired' = fired /\ op = "update"
    BY <1>4 DEF AddAgain
  <2>2. QED BY <2>1 DEF AdvanceStep
<1>5. CASE EndPoolCall
  <2>1. fired' = fired /\ fpc = "minDone" /\ (op = "advance" => ~IsDue)
    BY <1>5 DEF EndPoolCall
  <2>2. Linked = DOMAIN events
    BY <2>1, DeletedIsLeft DEF FibInv, CallInv, Deleting
  <2>3. /\ \A y \in Linked : events[y] \in Nat
        /\ due \in Nat
    BY <2>2 DEF FibInv, FibType
  <2>4. ASSUME op = "advance", NEW i \in DOMAIN events PROVE events[i] > due
    <3>1. minValid
      BY <2>1, <2>2, <2>4 DEF FibInv, MinInv
    <3>2. IsLeast(minIndex, Linked)
      BY <2>1, <3>1 DEF FibInv, MinInv
    <3>3. ~(events[minIndex] <= due)
      BY <2>1, <2>4, <3>1 DEF IsDue
    <3>4. minIndex \in Linked /\ events[minIndex] <= events[i]
      BY <2>2, <2>4, <3>2 DEF IsLeast
    <3>5. QED BY <2>2, <2>3, <3>3, <3>4
  <2>5. QED BY <2>1, <2>4 DEF AdvanceStep
<1>6. QED BY <1>1, <1>2, <1>3, <1>4, <1>5 DEF FibNext

(* advance takes exactly the events that are due, in order of their times:  *)
(* AdvanceExact for every size of the pool and every set of times.          *)
THEOREM AdvanceExactTheorem == FibSpec => AdvanceExact
<1>1. FibInv /\ [FibNext]_fibVars => [AdvanceStep]_fibVars
  BY AdvanceStepHolds
<1>2. QED BY <1>1, FibInvariant, PTL DEF FibSpec, AdvanceExact
=============================================================================
