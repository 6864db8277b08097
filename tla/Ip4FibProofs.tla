---------------------------- MODULE Ip4FibProofs ----------------------------
(***************************************************************************)
(* Proofs about Ip4Fib for any finite set of prefixes, any next hops and   *)
(* any number of adjacencies; and, in the second half, about Mtrie for any *)
(* width of a byte, length of an address and set of prefixes.              *)
(*                                                                         *)
(* A change of one next hop of one route is a chain of operations on the   *)
(* tables: make or find a block, move the reference, free the old block,   *)
(* set the route and the neighbour's record.  Each has a lemma; the two    *)
(* loops over the routes of a neighbour are folds, and what they keep is   *)
(* proved by induction on the number of routes done.                       *)
(***************************************************************************)
EXTENDS Ip4Fib, Mtrie, FiniteSetTheorems, WellFoundedInduction, TLAPS

(* The specification of the tables by themselves.                          *)
FibTabSpec == FibTabInit /\ [][FibTabNext]_fibTabVars

(* t has the fields of the tables.                                         *)
IsTab(t) ==
  t = [adj |-> t.adj, hash |-> t.hash, route |-> t.route, nbr |-> t.nbr,
       nh |-> t.nh, unreach |-> t.unreach, glean |-> t.glean,
       panicked |-> t.panicked]

(* The adjacencies; a block has its next hops in normal form.              *)
AdjsOK(A) ==
  /\ A = [i \in 0 .. AdjMax - 1 |-> A[i]]
  /\ \A i \in DOMAIN A : A[i].kind = "multipath" =>
       /\ A[i] = [kind |-> "multipath", ref |-> A[i].ref, given |-> A[i].given,
                  norm |-> Normalize(A[i].given)]
       /\ A[i].ref \in Int

(* The multipath adjacencies.                                              *)
Blocks(A) == {i \in DOMAIN A : A[i].kind = "multipath"}

(* The hash and the blocks are one to one.                                 *)
HashOK(A, H) ==
  /\ \A i \in Blocks(A) : A[i].norm \in DOMAIN H /\ H[A[i].norm] = i
  /\ \A n \in DOMAIN H : H[n] \in Blocks(A) /\ A[H[n]].norm = n

(* The prefixes whose route is block i.                                    *)
Users(R, i) == {p \in DOMAIN R : R[p] = i}

(* Routes point to blocks, which are counted for them.                     *)
RoutesOK(A, R) ==
  /\ DOMAIN R \subseteq Prefixes
  /\ \A p \in DOMAIN R : R[p] \in Blocks(A)
  /\ \A i \in Blocks(A) : Cardinality(Users(R, i)) <= A[i].ref

(* Neighbours have rewrite adjacencies of their own.                       *)
NbrsOK(A, N) ==
  /\ DOMAIN N \subseteq Addrs
  /\ \A a \in DOMAIN N : N[a] \in DOMAIN A /\ A[N[a]].kind = "rewrite"
  /\ \A a, b \in DOMAIN N : N[a] = N[b] => a = b

(* The next hops of routes are neighbours, where the route is recorded,    *)
(* except those in X.                                                      *)
UsesOK(A, R, N, K, X) ==
  \A p \in DOMAIN R : \A x \in DOMAIN A[R[p]].given :
    \E a \in DOMAIN N : N[a] = x /\ (p \in DOMAIN K[a] \/ a \in X)

(* The tables are in order; the neighbours of X may have lost their record *)
(* of the routes.                                                          *)
TabOK(t, X) ==
  /\ IsTab(t)
  /\ AdjsOK(t.adj)
  /\ HashOK(t.adj, t.hash)
  /\ RoutesOK(t.adj, t.route)
  /\ NbrsOK(t.adj, t.nbr)
  /\ t.nh = [a \in Addrs |-> t.nh[a]]
  /\ UsesOK(t.adj, t.route, t.nbr, t.nh, X)
  /\ ~t.panicked

(* The next hops of prefix p.                                              *)
Via(t, p) ==
  IF p \in DOMAIN t.route THEN DOMAIN t.adj[t.route[p]].given ELSE {}

(* The addresses prefix p is reached through, and those it waits for.      *)
Using(t, p) == {a \in DOMAIN t.nbr : t.nbr[a] \in Via(t, p)}
Waiting(t, p) == {a \in Addrs : <<a, p>> \in DOMAIN t.unreach}

(* What is recorded for prefix p agrees with what the RIB gave, r, and     *)
(* with what replacing messages overrode, o.                               *)
PrefixOK(t, p, r, o) ==
  /\ r \subseteq Addrs
  /\ r \cap DOMAIN t.nbr \subseteq Using(t, p)
  /\ r \ DOMAIN t.nbr \subseteq Waiting(t, p)
  /\ Using(t, p) \cup Waiting(t, p) \subseteq r \cup o
  /\ Waiting(t, p) \cap DOMAIN t.nbr = {}
  /\ \A a \in Addrs : p \in DOMAIN t.nh[a] => a \in r \cup o

(* The records of all prefixes agree with the RIB.                         *)
RecordsOK(t, rb, ov) ==
  /\ DOMAIN t.unreach \subseteq Addrs \X Prefixes
  /\ \A a \in Addrs : DOMAIN t.nh[a] \subseteq Prefixes
  /\ \A a \in Addrs \ DOMAIN t.nbr : DOMAIN t.nh[a] = {}
  /\ \A p \in Prefixes : PrefixOK(t, p, rb[p], ov[p])

(* The inductive invariant.                                                *)
FibTabInv ==
  /\ TabOK(tab, {})
  /\ RecordsOK(tab, rib, overridden)
  /\ rib = [p \in Prefixes |-> rib[p]]
  /\ overridden = [p \in Prefixes |-> overridden[p]]
-----------------------------------------------------------------------------
(* A set of natural numbers has a least one.                               *)
LEMMA LeastOfNat ==
  ASSUME NEW S \in SUBSET Nat, S # {}
  PROVE  \E n \in S : \A m \in S : n <= m
<1> DEFINE R == {ss \in Nat \X Nat : ss[1] < ss[2]}
<1>1. IsWellFoundedOn(R, Nat)
  BY NatLessThanWellFounded DEF OpToRel
<1> HIDE DEF R
<1>2. PICK n \in S : \A m \in S : ~(<<m, n>> \in R)
  BY <1>1, WFMin
<1>3. ASSUME NEW m \in S PROVE n <= m
  <2>1. ~(<<m, n>> \in R)
    BY <1>2
  <2>2. QED BY <2>1 DEF R
<1>4. QED BY <1>3

(* A new adjacency is a free one.                                          *)
LEMMA NewAdjFree ==
  ASSUME NEW t, AdjsOK(t.adj), FreeAdjs(t) # {}
  PROVE  NewAdj(t) \in FreeAdjs(t)
<1>1. PICK S : S = FreeAdjs(t)
  OBVIOUS
<1>2. DOMAIN t.adj = 0 .. AdjMax - 1
  BY DEF AdjsOK
<1>3. S \in SUBSET Nat
  BY <1>1, <1>2 DEF FreeAdjs
<1>4. \E n \in S : \A m \in S : n <= m
  BY <1>1, <1>3, LeastOfNat
<1>5. Min(S) \in S
  BY <1>4 DEF Min
<1>6. QED BY <1>1, <1>5 DEF NewAdj

(* What operations on adjacencies leave alone.                             *)
SameRest(t, h) ==
  /\ h.route = t.route /\ h.nbr = t.nbr /\ h.nh = t.nh
  /\ h.unreach = t.unreach /\ h.glean = t.glean /\ h.panicked = t.panicked

(* From t to h, n is the block for the next hops given, found or made.     *)
Created(t, h, n, given) ==
  /\ IsTab(h) /\ SameRest(t, h)
  /\ AdjsOK(h.adj) /\ HashOK(h.adj, h.hash) /\ DOMAIN h.adj = DOMAIN t.adj
  /\ n \in Blocks(h.adj) /\ DOMAIN h.adj[n].given = DOMAIN given
  /\ \/ h.adj = t.adj
     \/ /\ t.adj[n].kind = "free" /\ h.adj[n].ref = 0
        /\ \A i \in DOMAIN t.adj \ {n} : h.adj[i] = t.adj[i]

(* createMpAdj finds or makes the block, and leaves the rest in order.     *)
LEMMA CreateOK ==
  ASSUME NEW t, NEW given, IsTab(t), AdjsOK(t.adj), HashOK(t.adj, t.hash),
         FreeAdjs(t) # {}, NEW c, c = CreateMpAdj(t, given)
  PROVE  Created(t, c.tab, c.adj, given)
<1>1. PICK norm, i, new : /\ norm = Normalize(given) /\ i = NewAdj(t)
                          /\ new = [kind |-> "multipath", ref |-> 0,
                                    given |-> given, norm |-> norm]
  OBVIOUS
<1>2. DOMAIN Normalize(given) = DOMAIN given
  BY DEF Normalize
<1>3. CASE norm \in DOMAIN t.hash
  <2>1. PICK n : n = t.hash[norm]
    OBVIOUS
  <2>2. c.tab = t /\ c.adj = n
    BY <1>1, <1>3, <2>1 DEF CreateMpAdj
  <2>3. n \in Blocks(t.adj) /\ t.adj[n].norm = norm
    BY <1>3, <2>1 DEF HashOK
  <2>4. t.adj[n].norm = Normalize(t.adj[n].given)
    <3>1. n \in DOMAIN t.adj /\ t.adj[n].kind = "multipath"
      BY <2>3 DEF Blocks
    <3>2. t.adj[n] = [kind |-> "multipath", ref |-> t.adj[n].ref,
                      given |-> t.adj[n].given, norm |-> Normalize(t.adj[n].given)]
      BY <3>1, Zenon DEF AdjsOK
    <3>3. QED BY <3>2
  <2>5. DOMAIN Normalize(t.adj[n].given) = DOMAIN t.adj[n].given
    BY DEF Normalize
  <2>6. DOMAIN t.adj[n].given = DOMAIN given
    BY <1>1, <1>2, <2>3, <2>4, <2>5
  <2>7. QED BY <2>2, <2>3, <2>6 DEF Created, SameRest
<1>4. CASE norm \notin DOMAIN t.hash
  <2>1. i \in FreeAdjs(t)
    BY <1>1, NewAdjFree
  <2>2. PICK A, H : A = [t.adj EXCEPT ![i] = new] /\ H = Bind(t.hash, norm, i)
    OBVIOUS
  <2>3. PICK h : h = [t EXCEPT !.adj = A, !.hash = H]
    OBVIOUS
  <2>4. c.tab = h /\ c.adj = i
    BY <1>1, <1>4, <2>2, <2>3 DEF CreateMpAdj
  <2>5. IsTab(h) /\ SameRest(t, h) /\ h.adj = A /\ h.hash = H
    BY <2>3 DEF IsTab, SameRest
  <2>6. /\ i \in DOMAIN t.adj /\ t.adj[i].kind = "free"
        /\ DOMAIN A = DOMAIN t.adj /\ A[i] = new
        /\ \A j \in DOMAIN t.adj \ {i} : A[j] = t.adj[j]
    BY <2>1, <2>2 DEF FreeAdjs, AdjsOK
  <2>7. AdjsOK(A)
    <3>1. DOMAIN t.adj = 0 .. AdjMax - 1
      BY DEF AdjsOK
    <3>2. A = [j \in 0 .. AdjMax - 1 |-> A[j]]
      BY <2>2, <3>1
    <3>3. ASSUME NEW j \in DOMAIN A, A[j].kind = "multipath"
          PROVE  /\ A[j] = [kind |-> "multipath", ref |-> A[j].ref,
                            given |-> A[j].given, norm |-> Normalize(A[j].given)]
                 /\ A[j].ref \in Int
      <4>1. CASE j = i
        BY <1>1, <2>6, <4>1
      <4>2. CASE j # i
        BY <2>6, <3>3, <4>2 DEF AdjsOK
      <4>3. QED BY <4>1, <4>2
    <3>4. QED BY <3>2, <3>3 DEF AdjsOK
  <2>8. Blocks(A) = Blocks(t.adj) \cup {i} /\ i \notin Blocks(t.adj)
    BY <1>1, <2>6 DEF Blocks
  <2>9. DOMAIN H = DOMAIN t.hash \cup {norm} /\ H[norm] = i
        /\ \A n \in DOMAIN t.hash : H[n] = t.hash[n]
    BY <1>4, <2>2 DEF Bind
  <2>10. HashOK(A, H)
    <3>1. ASSUME NEW j \in Blocks(A) PROVE A[j].norm \in DOMAIN H /\ H[A[j].norm] = j
      <4>1. CASE j = i
        BY <1>1, <2>6, <2>9, <4>1
      <4>2. CASE j # i
        <5>1. j \in Blocks(t.adj) /\ A[j] = t.adj[j]
          BY <2>6, <2>8, <4>2 DEF Blocks
        <5>2. t.adj[j].norm \in DOMAIN t.hash /\ t.hash[t.adj[j].norm] = j
          BY <5>1 DEF HashOK
        <5>3. QED BY <2>9, <5>1, <5>2
      <4>3. QED BY <4>1, <4>2
    <3>2. ASSUME NEW n \in DOMAIN H PROVE H[n] \in Blocks(A) /\ A[H[n]].norm = n
      <4>1. CASE n = norm
        BY <1>1, <2>6, <2>8, <2>9, <4>1
      <4>2. CASE n # norm
        <5>1. n \in DOMAIN t.hash /\ H[n] = t.hash[n]
          BY <2>9, <4>2
        <5>2. t.hash[n] \in Blocks(t.adj) /\ t.adj[t.hash[n]].norm = n
          BY <5>1 DEF HashOK
        <5>3. t.hash[n] # i /\ t.hash[n] \in DOMAIN t.adj
          BY <2>8, <5>2 DEF Blocks
        <5>4. QED BY <2>6, <2>8, <5>1, <5>2, <5>3
      <4>3. QED BY <4>1, <4>2
    <3>3. QED BY <3>1, <3>2 DEF HashOK
  <2>11. A[i].given = given /\ A[i].ref = 0
    BY <1>1, <2>6
  <2>12. QED BY <2>4, <2>5, <2>6, <2>7, <2>8, <2>10, <2>11 DEF Created
<1>5. QED BY <1>3, <1>4
-----------------------------------------------------------------------------
(* From t to h, the references of the blocks change as given by d.         *)
Recounted(t, h, d) ==
  /\ IsTab(h) /\ SameRest(t, h) /\ h.hash = t.hash
  /\ AdjsOK(h.adj) /\ DOMAIN h.adj = DOMAIN t.adj
  /\ Blocks(h.adj) = Blocks(t.adj)
  /\ \A i \in DOMAIN t.adj \ Blocks(t.adj) : h.adj[i] = t.adj[i]
  /\ \A i \in Blocks(t.adj) : /\ h.adj[i].given = t.adj[i].given
                              /\ h.adj[i].norm = t.adj[i].norm
                              /\ h.adj[i].ref = t.adj[i].ref + d[i]

(* What the fields of a block are.                                         *)
LEMMA BlockFacts ==
  ASSUME NEW A, AdjsOK(A), NEW i \in Blocks(A)
  PROVE  /\ i \in DOMAIN A /\ i \in Nat /\ i # NoAdj
         /\ A[i] = [kind |-> "multipath", ref |-> A[i].ref, given |-> A[i].given,
                    norm |-> Normalize(A[i].given)]
         /\ A[i].norm = Normalize(A[i].given)
         /\ A[i].ref \in Int
<1>1. i \in DOMAIN A /\ A[i].kind = "multipath"
  BY DEF Blocks
<1>2. DOMAIN A = 0 .. AdjMax - 1
  BY DEF AdjsOK
<1>3. /\ A[i] = [kind |-> "multipath", ref |-> A[i].ref, given |-> A[i].given,
                 norm |-> Normalize(A[i].given)]
      /\ A[i].ref \in Int
  BY <1>1, Zenon DEF AdjsOK
<1>4. A[i].norm = Normalize(A[i].given)
  BY <1>3
<1>5. QED BY <1>1, <1>2, <1>3, <1>4 DEF NoAdj

(* Counting a reference changes one count.                                 *)
LEMMA RefAddOK ==
  ASSUME NEW t, IsTab(t), AdjsOK(t.adj), NEW i \in Blocks(t.adj), NEW k \in Int
  PROVE  Recounted(t, RefAdd(t, i, k), [j \in Blocks(t.adj) |-> IF j = i THEN k ELSE 0])
<1>1. PICK A : A = [t.adj EXCEPT ![i].ref = @ + k]
  OBVIOUS
<1>2. PICK h : h = [t EXCEPT !.adj = A]
  OBVIOUS
<1>3. i \in DOMAIN t.adj /\ i # NoAdj /\ t.adj[i].ref \in Int
  BY BlockFacts
<1>4. RefAdd(t, i, k) = h
  <2>1. RefAdd(t, i, k) = [t EXCEPT !.adj[i].ref = @ + k]
    BY <1>3 DEF RefAdd
  <2>2. QED BY <1>1, <1>2, <2>1
<1>5. IsTab(h) /\ SameRest(t, h) /\ h.hash = t.hash /\ h.adj = A
  BY <1>2 DEF IsTab, SameRest
<1>6. PICK v : v = [t.adj[i] EXCEPT !.ref = @ + k]
  OBVIOUS
<1>7. DOMAIN A = DOMAIN t.adj /\ A[i] = v /\ \A j \in DOMAIN t.adj \ {i} : A[j] = t.adj[j]
  BY <1>1, <1>3, <1>6 DEF AdjsOK
<1>8. /\ v = [kind |-> "multipath", ref |-> v.ref, given |-> v.given,
              norm |-> Normalize(v.given)]
      /\ v.given = t.adj[i].given /\ v.norm = t.adj[i].norm
      /\ v.ref = t.adj[i].ref + k /\ v.ref \in Int /\ v.kind = "multipath"
  <2>1. PICK z : z = Normalize(t.adj[i].given)
    OBVIOUS
  <2>2. t.adj[i] = [kind |-> "multipath", ref |-> t.adj[i].ref, given |-> t.adj[i].given,
                    norm |-> z]
    BY <2>1, BlockFacts
  <2>3. /\ v = [kind |-> "multipath", ref |-> v.ref, given |-> v.given, norm |-> z]
        /\ v.given = t.adj[i].given /\ v.norm = t.adj[i].norm
        /\ v.ref = t.adj[i].ref + k /\ v.ref \in Int /\ v.kind = "multipath"
    BY <1>3, <1>6, <2>2
  <2>4. QED BY <2>1, <2>3
<1>9. AdjsOK(A)
  <2>1. A = [j \in 0 .. AdjMax - 1 |-> A[j]]
    BY <1>1, <1>7 DEF AdjsOK
  <2>2. ASSUME NEW j \in DOMAIN A, A[j].kind = "multipath"
        PROVE  /\ A[j] = [kind |-> "multipath", ref |-> A[j].ref,
                          given |-> A[j].given, norm |-> Normalize(A[j].given)]
               /\ A[j].ref \in Int
    <3>1. CASE j = i
      BY <1>7, <1>8, <3>1
    <3>2. CASE j # i
      <4>1. j \in Blocks(t.adj) /\ A[j] = t.adj[j]
        BY <1>7, <2>2, <3>2 DEF Blocks
      <4>2. QED BY <4>1, BlockFacts
    <3>3. QED BY <3>1, <3>2
  <2>3. QED BY <2>1, <2>2 DEF AdjsOK
<1>10. Blocks(A) = Blocks(t.adj)
  BY <1>3, <1>7, <1>8 DEF Blocks
<1>11. \A j \in DOMAIN t.adj \ Blocks(t.adj) : A[j] = t.adj[j]
  BY <1>7
<1>12. ASSUME NEW j \in Blocks(t.adj)
       PROVE  /\ A[j].given = t.adj[j].given
              /\ A[j].norm = t.adj[j].norm
              /\ A[j].ref = t.adj[j].ref + (IF j = i THEN k ELSE 0)
  <2>1. CASE j = i
    BY <1>7, <1>8, <2>1
  <2>2. CASE j # i
    <3>1. A[j] = t.adj[j] /\ t.adj[j].ref \in Int
      BY <1>7, <2>2, BlockFacts
    <3>2. QED BY <2>2, <3>1
  <2>3. QED BY <2>1, <2>2
<1>13. QED BY <1>4, <1>5, <1>7, <1>9, <1>10, <1>11, <1>12 DEF Recounted

(* Counting a reference does not disturb the hash.                         *)
LEMMA HashFrame ==
  ASSUME NEW t, NEW h, NEW d, Recounted(t, h, d), HashOK(t.adj, t.hash)
  PROVE  HashOK(h.adj, h.hash)
<1>1. PICK A, B, H : A = t.adj /\ B = h.adj /\ H = t.hash
  OBVIOUS
<1>2. h.hash = H /\ Blocks(B) = Blocks(A) /\ \A i \in Blocks(A) : B[i].norm = A[i].norm
  BY <1>1 DEF Recounted
<1>3. HashOK(A, H)
  BY <1>1
<1>4. HashOK(B, H)
  BY <1>2, <1>3 DEF HashOK
<1>5. QED BY <1>1, <1>2, <1>4

(* The reference moves from block old, if there is one, to block n.        *)
LEMMA RefsMoved ==
  ASSUME NEW t, IsTab(t), AdjsOK(t.adj), NEW old, NEW n, old # n,
         old \in Blocks(t.adj) \cup {NoAdj}, n \in Blocks(t.adj) \cup {NoAdj},
         NEW h, h = RefAdd(RefAdd(t, old, -1), n, 1)
  PROVE  Recounted(t, h, [i \in Blocks(t.adj) |-> IF i = old THEN -1
                                                  ELSE IF i = n THEN 1 ELSE 0])
<1>1. PICK g : g = RefAdd(t, old, -1)
  OBVIOUS
<1>2. Recounted(t, g, [i \in Blocks(t.adj) |-> IF i = old THEN -1 ELSE 0])
  <2>1. CASE old \in Blocks(t.adj)
    BY <1>1, <2>1, RefAddOK
  <2>2. CASE old = NoAdj
    <3>1. g = t
      BY <1>1, <2>2 DEF RefAdd
    <3>2. \A i \in Blocks(t.adj) : i # NoAdj /\ t.adj[i].ref \in Int
      BY BlockFacts
    <3>3. QED BY <2>2, <3>1, <3>2 DEF Recounted, SameRest
  <2>3. QED BY <2>1, <2>2
<1>3. IsTab(g) /\ AdjsOK(g.adj) /\ Blocks(g.adj) = Blocks(t.adj)
  BY <1>2 DEF Recounted
<1>4. Recounted(g, h, [i \in Blocks(t.adj) |-> IF i = n THEN 1 ELSE 0])
  <2>1. CASE n \in Blocks(t.adj)
    <3>1. h = RefAdd(g, n, 1) /\ n \in Blocks(g.adj)
      BY <1>1, <1>3, <2>1
    <3>2. Recounted(g, h, [j \in Blocks(g.adj) |-> IF j = n THEN 1 ELSE 0])
      BY <1>3, <3>1, RefAddOK
    <3>3. QED BY <1>3, <3>2
  <2>2. CASE n = NoAdj
    <3>1. h = g
      BY <1>1, <2>2 DEF RefAdd
    <3>2. \A i \in Blocks(g.adj) : i # NoAdj /\ g.adj[i].ref \in Int
      BY <1>3, BlockFacts
    <3>3. QED BY <1>3, <2>2, <3>1, <3>2 DEF Recounted, SameRest
  <2>3. QED BY <2>1, <2>2
<1>5. PICK d : d = [i \in Blocks(t.adj) |-> IF i = old THEN -1
                                            ELSE IF i = n THEN 1 ELSE 0]
  OBVIOUS
<1>6. ASSUME NEW i \in Blocks(t.adj)
      PROVE  /\ h.adj[i].given = t.adj[i].given
             /\ h.adj[i].norm = t.adj[i].norm
             /\ h.adj[i].ref = t.adj[i].ref + d[i]
  <2>1. t.adj[i].ref \in Int
    BY BlockFacts
  <2>2. g.adj[i].given = t.adj[i].given /\ g.adj[i].norm = t.adj[i].norm
        /\ g.adj[i].ref = t.adj[i].ref + (IF i = old THEN -1 ELSE 0)
    BY <1>2 DEF Recounted
  <2>3. h.adj[i].given = g.adj[i].given /\ h.adj[i].norm = g.adj[i].norm
        /\ h.adj[i].ref = g.adj[i].ref + (IF i = n THEN 1 ELSE 0)
    BY <1>3, <1>4 DEF Recounted
  <2>4. QED BY <1>5, <2>1, <2>2, <2>3
<1>7. /\ IsTab(h) /\ SameRest(t, h) /\ h.hash = t.hash
      /\ AdjsOK(h.adj) /\ DOMAIN h.adj = DOMAIN t.adj
      /\ Blocks(h.adj) = Blocks(t.adj)
      /\ \A i \in DOMAIN t.adj \ Blocks(t.adj) : h.adj[i] = t.adj[i]
  BY <1>2, <1>3, <1>4 DEF Recounted, SameRest
<1>8. QED BY <1>5, <1>6, <1>7 DEF Recounted
-----------------------------------------------------------------------------
(* From t to h, block i is freed.                                          *)
Freed(t, h, i) ==
  /\ IsTab(h) /\ SameRest(t, h)
  /\ AdjsOK(h.adj) /\ HashOK(h.adj, h.hash) /\ DOMAIN h.adj = DOMAIN t.adj
  /\ h.adj[i] = FreeAdj /\ \A j \in DOMAIN t.adj \ {i} : h.adj[j] = t.adj[j]

(* A block is known by its hash when it is freed: no panic.                *)
LEMMA FreeOK ==
  ASSUME NEW t, IsTab(t), AdjsOK(t.adj), HashOK(t.adj, t.hash),
         NEW i \in Blocks(t.adj)
  PROVE  Freed(t, FreeMpAdj(t, i), i)
<1>1. PICK norm : norm = t.adj[i].norm
  OBVIOUS
<1>2. norm \in DOMAIN t.hash /\ t.hash[norm] = i
  BY <1>1 DEF HashOK
<1>3. PICK A, H : A = [t.adj EXCEPT ![i] = FreeAdj] /\ H = Forget(t.hash, norm)
  OBVIOUS
<1>4. PICK h : h = [t EXCEPT !.adj = A, !.hash = H]
  OBVIOUS
<1>5. FreeMpAdj(t, i) = h
  BY <1>1, <1>2, <1>3, <1>4 DEF FreeMpAdj
<1>6. IsTab(h) /\ SameRest(t, h) /\ h.adj = A /\ h.hash = H
  BY <1>4 DEF IsTab, SameRest
<1>7. /\ i \in DOMAIN t.adj /\ DOMAIN A = DOMAIN t.adj /\ A[i] = FreeAdj
      /\ \A j \in DOMAIN t.adj \ {i} : A[j] = t.adj[j]
  BY <1>3, BlockFacts DEF AdjsOK
<1>8. Blocks(A) = Blocks(t.adj) \ {i}
  BY <1>7 DEF Blocks, FreeAdj
<1>9. AdjsOK(A)
  <2>1. A = [j \in 0 .. AdjMax - 1 |-> A[j]]
    BY <1>3, <1>7 DEF AdjsOK
  <2>2. ASSUME NEW j \in DOMAIN A, A[j].kind = "multipath"
        PROVE  /\ A[j] = [kind |-> "multipath", ref |-> A[j].ref,
                          given |-> A[j].given, norm |-> Normalize(A[j].given)]
               /\ A[j].ref \in Int
    <3>1. j \in Blocks(t.adj) /\ A[j] = t.adj[j]
      BY <1>7, <1>8, <2>2 DEF Blocks
    <3>2. QED BY <3>1, BlockFacts
  <2>3. QED BY <2>1, <2>2 DEF AdjsOK
<1>10. DOMAIN H = DOMAIN t.hash \ {norm} /\ \A n \in DOMAIN H : H[n] = t.hash[n]
  BY <1>3 DEF Forget
<1>11. HashOK(A, H)
  <2>1. ASSUME NEW j \in Blocks(A) PROVE A[j].norm \in DOMAIN H /\ H[A[j].norm] = j
    <3>1. j \in Blocks(t.adj) /\ j # i /\ A[j] = t.adj[j]
      BY <1>7, <1>8 DEF Blocks
    <3>2. t.adj[j].norm \in DOMAIN t.hash /\ t.hash[t.adj[j].norm] = j
      BY <3>1 DEF HashOK
    <3>3. QED BY <1>2, <1>10, <3>1, <3>2
  <2>2. ASSUME NEW n \in DOMAIN H PROVE H[n] \in Blocks(A) /\ A[H[n]].norm = n
    <3>1. n \in DOMAIN t.hash /\ n # norm /\ H[n] = t.hash[n]
      BY <1>10
    <3>2. t.hash[n] \in Blocks(t.adj) /\ t.adj[t.hash[n]].norm = n
      BY <3>1 DEF HashOK
    <3>3. t.hash[n] # i /\ t.hash[n] \in DOMAIN t.adj
      BY <1>1, <3>1, <3>2 DEF Blocks
    <3>4. QED BY <1>7, <1>8, <3>1, <3>2, <3>3
  <2>3. QED BY <2>1, <2>2 DEF HashOK
<1>12. QED BY <1>5, <1>6, <1>7, <1>9, <1>11 DEF Freed

(* The users of block i other than p.                                      *)
Others(R, i, p) == Users(R, i) \ {p}

(* Their number is finite and at most one less than that of the users.     *)
LEMMA OthersFacts ==
  ASSUME NEW A, NEW R, RoutesOK(A, R), AdjsOK(A), NEW p, NEW i \in Blocks(A)
  PROVE  /\ IsFiniteSet(Others(R, i, p)) /\ Cardinality(Others(R, i, p)) \in Nat
         /\ p \in DOMAIN R /\ R[p] = i => Cardinality(Others(R, i, p)) + 1 <= A[i].ref
         /\ Cardinality(Others(R, i, p)) <= A[i].ref
<1>1. PICK U, O : U = Users(R, i) /\ O = Others(R, i, p)
  OBVIOUS
<1>2. U \subseteq Prefixes /\ O = U \ {p}
  BY <1>1 DEF RoutesOK, Users, Others
<1>3. IsFiniteSet(U)
  BY <1>2, FS_Subset, FibTablesAssumption
<1>4. IsFiniteSet(O) /\ Cardinality(O) \in Nat /\ Cardinality(U) \in Nat
      /\ Cardinality(O) = (IF p \in U THEN Cardinality(U) - 1 ELSE Cardinality(U))
  BY <1>2, <1>3, FS_RemoveElement, FS_CardinalityType
<1>5. Cardinality(U) <= A[i].ref /\ A[i].ref \in Int
  BY <1>1, BlockFacts DEF RoutesOK
<1>6. p \in U <=> p \in DOMAIN R /\ R[p] = i
  BY <1>1 DEF Users
<1>7. QED BY <1>1, <1>4, <1>5, <1>6

(* From t to h, the route of p moves to block n for the next hops given;   *)
(* it remains to record that in the routes.                                *)
HelperOK(t, h, n, given, p) ==
  /\ IsTab(h) /\ SameRest(t, h)
  /\ AdjsOK(h.adj) /\ HashOK(h.adj, h.hash) /\ DOMAIN h.adj = DOMAIN t.adj
  /\ n = NoAdj <=> DOMAIN given = {}
  /\ n # NoAdj => /\ n \in Blocks(h.adj) /\ DOMAIN h.adj[n].given = DOMAIN given
                  /\ Cardinality(Others(t.route, n, p)) + 1 <= h.adj[n].ref
                  /\ n \in Blocks(t.adj) => h.adj[n].given = t.adj[n].given
  /\ \A i \in Blocks(h.adj) : Cardinality(Others(t.route, i, p)) <= h.adj[i].ref
  /\ \A i \in Blocks(t.adj) : Others(t.route, i, p) # {} =>
       i \in Blocks(h.adj) /\ h.adj[i].given = t.adj[i].given
  /\ \A i \in DOMAIN t.adj : t.adj[i].kind = "rewrite" => h.adj[i].kind = "rewrite"
  /\ FreeAdjs(t) \ {n} \subseteq FreeAdjs(h)
(* addDelHelper keeps the adjacencies, the hash and the counts in order.   *)
LEMMA AddDelHelperOK ==
  ASSUME NEW t, IsTab(t), AdjsOK(t.adj), HashOK(t.adj, t.hash),
         RoutesOK(t.adj, t.route), FreeAdjs(t) # {}, NEW p,
         NEW old, old = IF p \in DOMAIN t.route THEN t.route[p] ELSE NoAdj,
         NEW given, NEW r, r = AddDelHelper(t, given, old)
  PROVE  HelperOK(t, r.tab, r.adj, given, p) /\ r.ok = TRUE
<1>1. PICK A, R : A = t.adj /\ R = t.route
  OBVIOUS
<1>2. PICK made : made = IF DOMAIN given = {} THEN [tab |-> t, adj |-> NoAdj]
                         ELSE CreateMpAdj(t, given)
  OBVIOUS
<1>3. PICK m, n : m = made.tab /\ n = made.adj
  OBVIOUS
<1>4. PICK v : v = IF n = old THEN m ELSE RefAdd(RefAdd(m, old, -1), n, 1)
  OBVIOUS
<1>5. PICK h : h = IF old # NoAdj /\ v.adj[old].ref = 0 THEN FreeMpAdj(v, old) ELSE v
  OBVIOUS
<1>6. r = [tab |-> h, adj |-> n, ok |-> TRUE]
  BY <1>2, <1>3, <1>4, <1>5 DEF AddDelHelper
<1>7. /\ AdjsOK(A) /\ RoutesOK(A, R) /\ old \in Blocks(A) \cup {NoAdj}
      /\ old # NoAdj => p \in DOMAIN R /\ R[p] = old
  BY <1>1, BlockFacts DEF RoutesOK
<1>8. /\ IsTab(m) /\ SameRest(t, m) /\ AdjsOK(m.adj) /\ HashOK(m.adj, m.hash)
      /\ DOMAIN m.adj = DOMAIN A
      /\ n = NoAdj <=> DOMAIN given = {}
      /\ n # NoAdj => n \in Blocks(m.adj) /\ DOMAIN m.adj[n].given = DOMAIN given
      /\ \/ m.adj = A
         \/ /\ n # NoAdj /\ A[n].kind = "free" /\ m.adj[n].ref = 0
            /\ \A i \in DOMAIN A \ {n} : m.adj[i] = A[i]
  <2>1. CASE DOMAIN given = {}
    BY <1>1, <1>2, <1>3, <2>1 DEF SameRest
  <2>2. CASE DOMAIN given # {}
    <3>1. made = CreateMpAdj(t, given)
      BY <1>2, <2>2
    <3>2. Created(t, m, n, given)
      BY <1>3, <3>1, CreateOK
    <3>3. AdjsOK(m.adj) /\ n \in Blocks(m.adj)
      BY <3>2 DEF Created
    <3>4. n # NoAdj
      BY <3>3, BlockFacts
    <3>5. QED BY <1>1, <2>2, <3>2, <3>4 DEF Created
  <2>3. QED BY <2>1, <2>2
<1>9. /\ \A i \in Blocks(A) : i \in Blocks(m.adj) /\ m.adj[i] = A[i]
      /\ \A i \in Blocks(m.adj) \ Blocks(A) : i = n /\ m.adj[i].ref = 0 /\ A[n].kind = "free"
      /\ \A i \in DOMAIN A : A[i].kind = "rewrite" => m.adj[i].kind = "rewrite"
      /\ \A i \in DOMAIN A \ {n} : m.adj[i] = A[i]
  BY <1>8 DEF Blocks
<1>10. ASSUME NEW i \in Blocks(m.adj)
       PROVE  /\ Cardinality(Others(R, i, p)) \in Nat /\ IsFiniteSet(Others(R, i, p))
              /\ m.adj[i].ref \in Int
              /\ Cardinality(Others(R, i, p)) <= m.adj[i].ref
              /\ i = old => Cardinality(Others(R, i, p)) + 1 <= m.adj[i].ref
  <2>1. m.adj[i].ref \in Int
    BY <1>8, BlockFacts
  <2>2. CASE i \in Blocks(A)
    <3>1. m.adj[i] = A[i] /\ i # NoAdj
      BY <1>7, <1>9, <2>2, BlockFacts
    <3>2. QED BY <1>7, <2>1, <2>2, <3>1, OthersFacts
  <2>3. CASE i \notin Blocks(A)
    <3>1. m.adj[i].ref = 0 /\ i # old
      <4>1. i # NoAdj
        BY <1>8, BlockFacts
      <4>2. QED BY <1>7, <1>9, <2>3, <4>1
    <3>2. Others(R, i, p) = {}
      BY <1>7, <2>3 DEF Others, Users, RoutesOK
    <3>3. Cardinality(Others(R, i, p)) = 0 /\ IsFiniteSet(Others(R, i, p))
      BY <3>2, FS_EmptySet
    <3>4. QED BY <3>1, <3>3
  <2>4. QED BY <2>2, <2>3
<1>11. FreeAdjs(t) \ {n} \subseteq FreeAdjs(m)
  BY <1>1, <1>8, <1>9 DEF FreeAdjs
<1>12. CASE n = old
  <2>1. v = m
    BY <1>4, <1>12
  <2>2. ~(old # NoAdj /\ m.adj[old].ref = 0)
    <3>1. ASSUME old # NoAdj, m.adj[old].ref = 0 PROVE FALSE
      <4>1. old \in Blocks(m.adj)
        BY <1>7, <1>9, <3>1
      <4>2. QED BY <1>10, <3>1, <4>1
    <3>2. QED BY <3>1
  <2>3. h = m
    BY <1>5, <2>1, <2>2
  <2>4. n # NoAdj => /\ Cardinality(Others(R, n, p)) + 1 <= m.adj[n].ref
                     /\ n \in Blocks(A) => m.adj[n].given = A[n].given
    BY <1>8, <1>9, <1>10, <1>12
  <2>5. HelperOK(t, m, n, given, p)
    BY <1>1, <1>8, <1>9, <1>10, <1>11, <2>4 DEF HelperOK
  <2>6. QED BY <1>6, <2>3, <2>5
<1>13. CASE n # old
  <2>1. v = RefAdd(RefAdd(m, old, -1), n, 1)
    BY <1>4, <1>13
  <2>2. old \in Blocks(m.adj) \cup {NoAdj} /\ n \in Blocks(m.adj) \cup {NoAdj}
    BY <1>7, <1>8, <1>9
  <2>3. PICK d : d = [i \in Blocks(m.adj) |-> IF i = old THEN -1
                                              ELSE IF i = n THEN 1 ELSE 0]
    OBVIOUS
  <2>4. Recounted(m, v, d)
    BY <1>8, <1>13, <2>1, <2>2, <2>3, RefsMoved
  <2>5. /\ IsTab(v) /\ SameRest(t, v) /\ AdjsOK(v.adj) /\ HashOK(v.adj, v.hash)
        /\ DOMAIN v.adj = DOMAIN A /\ Blocks(v.adj) = Blocks(m.adj)
        /\ \A i \in DOMAIN A \ Blocks(m.adj) : v.adj[i] = m.adj[i]
    <3>1. HashOK(v.adj, v.hash)
      BY <1>8, <2>4, HashFrame
    <3>2. QED BY <1>8, <2>4, <3>1 DEF Recounted, SameRest
  <2>6. ASSUME NEW i \in Blocks(m.adj)
        PROVE  /\ v.adj[i].given = m.adj[i].given
               /\ Cardinality(Others(R, i, p)) <= v.adj[i].ref
               /\ i = n => Cardinality(Others(R, i, p)) + 1 <= v.adj[i].ref
    <3>1. PICK c, x, y : c = Cardinality(Others(R, i, p)) /\ x = m.adj[i].ref
                         /\ y = v.adj[i].ref
      OBVIOUS
    <3>2. v.adj[i].given = m.adj[i].given /\ y = x + d[i]
      BY <2>4, <3>1 DEF Recounted
    <3>3. c \in Nat /\ x \in Int /\ c <= x /\ (i = old => c + 1 <= x)
      BY <1>10, <3>1
    <3>4. d[i] = IF i = old THEN -1 ELSE IF i = n THEN 1 ELSE 0
      BY <2>3
    <3>5. CASE i = old
      BY <1>13, <3>1, <3>2, <3>3, <3>4, <3>5
    <3>6. CASE i # old /\ i = n
      BY <3>1, <3>2, <3>3, <3>4, <3>6
    <3>7. CASE i # old /\ i # n
      BY <3>1, <3>2, <3>3, <3>4, <3>7
    <3>8. QED BY <3>5, <3>6, <3>7
  <2>7. \A i \in DOMAIN A : A[i].kind = "rewrite" => v.adj[i].kind = "rewrite"
    <3>1. \A i \in DOMAIN A : A[i].kind = "rewrite" => i \notin Blocks(m.adj)
      BY <1>9 DEF Blocks
    <3>2. QED BY <1>9, <2>5, <3>1
  <2>8. FreeAdjs(t) \ {n} \subseteq FreeAdjs(v)
    <3>1. ASSUME NEW i \in FreeAdjs(m) PROVE i \in FreeAdjs(v)
      <4>1. i \in DOMAIN A /\ i \notin Blocks(m.adj) /\ m.adj[i].kind = "free"
        BY <1>8 DEF FreeAdjs, Blocks
      <4>2. QED BY <2>5, <4>1 DEF FreeAdjs
    <3>2. QED BY <1>11, <3>1
  <2>9. CASE old # NoAdj /\ v.adj[old].ref = 0
    <3>1. h = FreeMpAdj(v, old) /\ old \in Blocks(v.adj)
      BY <1>5, <2>2, <2>5, <2>9
    <3>2. Freed(v, h, old)
      BY <2>5, <3>1, FreeOK
    <3>3. Others(R, old, p) = {}
      <4>1. PICK O : O = Others(R, old, p)
        OBVIOUS
      <4>2. IsFiniteSet(O) /\ Cardinality(O) \in Nat /\ Cardinality(O) <= v.adj[old].ref
        BY <1>10, <2>5, <2>6, <3>1, <4>1
      <4>3. Cardinality(O) = 0
        BY <2>9, <4>2
      <4>4. QED BY <4>1, <4>2, <4>3, FS_EmptySet
    <3>4. /\ IsTab(h) /\ SameRest(t, h) /\ AdjsOK(h.adj) /\ HashOK(h.adj, h.hash)
          /\ DOMAIN h.adj = DOMAIN A /\ h.adj[old] = FreeAdj
          /\ \A i \in DOMAIN A \ {old} : h.adj[i] = v.adj[i]
      BY <2>5, <3>2 DEF Freed, SameRest
    <3>5. Blocks(h.adj) = Blocks(m.adj) \ {old}
      BY <2>5, <3>1, <3>4 DEF Blocks, FreeAdj
    <3>6. \A i \in DOMAIN A : A[i].kind = "rewrite" => h.adj[i].kind = "rewrite"
      BY <2>5, <2>7, <3>1, <3>4 DEF Blocks
    <3>7. FreeAdjs(v) \subseteq FreeAdjs(h)
      BY <2>5, <3>4 DEF FreeAdjs, FreeAdj
    <3>8. \A i \in Blocks(h.adj) : /\ i \in Blocks(m.adj) /\ i # old
                                   /\ h.adj[i] = v.adj[i]
      BY <2>5, <3>4, <3>5 DEF Blocks
    <3>9. n # NoAdj => /\ n \in Blocks(h.adj) /\ DOMAIN h.adj[n].given = DOMAIN given
                       /\ Cardinality(Others(R, n, p)) + 1 <= h.adj[n].ref
                       /\ n \in Blocks(A) => h.adj[n].given = A[n].given
      BY <1>8, <1>9, <1>13, <2>6, <3>5, <3>8
    <3>10. \A i \in Blocks(h.adj) : Cardinality(Others(R, i, p)) <= h.adj[i].ref
      BY <2>6, <3>8
    <3>11. \A i \in Blocks(A) : Others(R, i, p) # {} =>
             i \in Blocks(h.adj) /\ h.adj[i].given = A[i].given
      BY <1>9, <2>6, <3>3, <3>5, <3>8
    <3>12. HelperOK(t, h, n, given, p)
      BY <1>1, <1>8, <2>8, <3>4, <3>6, <3>7, <3>9, <3>10, <3>11 DEF HelperOK
    <3>13. QED BY <1>6, <3>12
  <2>10. CASE ~(old # NoAdj /\ v.adj[old].ref = 0)
    <3>1. h = v
      BY <1>5, <2>10
    <3>2. n # NoAdj => /\ n \in Blocks(v.adj) /\ DOMAIN v.adj[n].given = DOMAIN given
                       /\ Cardinality(Others(R, n, p)) + 1 <= v.adj[n].ref
                       /\ n \in Blocks(A) => v.adj[n].given = A[n].given
      BY <1>8, <1>9, <2>5, <2>6
    <3>3. \A i \in Blocks(v.adj) : Cardinality(Others(R, i, p)) <= v.adj[i].ref
      BY <2>5, <2>6
    <3>4. \A i \in Blocks(A) : i \in Blocks(v.adj) /\ v.adj[i].given = A[i].given
      BY <1>9, <2>5, <2>6
    <3>5. HelperOK(t, v, n, given, p)
      BY <1>1, <1>8, <2>5, <2>7, <2>8, <3>2, <3>3, <3>4 DEF HelperOK
    <3>6. QED BY <1>6, <3>1, <3>5
  <2>11. QED BY <2>9, <2>10
<1>14. QED BY <1>12, <1>13
-----------------------------------------------------------------------------
(* From R to S, the route of p is moved to block n, or removed.            *)
Rerouted(R, S, p, n) ==
  /\ DOMAIN S = IF n = NoAdj THEN DOMAIN R \ {p} ELSE DOMAIN R \cup {p}
  /\ n # NoAdj => S[p] = n
  /\ \A q \in DOMAIN R \ {p} : S[q] = R[q]

(* In h, with the routes S, the routes but that of p are those of t, with  *)
(* the same next hops.                                                     *)
OthersKept(t, h, S, p) ==
  \A q \in DOMAIN t.route \ {p} :
    /\ q \in DOMAIN S /\ S[q] = t.route[q]
    /\ h.adj[S[q]].given = t.adj[t.route[q]].given

(* The routes are in order when that of p is recorded, and the next hops   *)
(* of the others are as they were.                                         *)
LEMMA RouteMoved ==
  ASSUME NEW t, RoutesOK(t.adj, t.route), NEW h, NEW n, NEW given,
         NEW p \in Prefixes, HelperOK(t, h, n, given, p),
         NEW S, Rerouted(t.route, S, p, n)
  PROVE  RoutesOK(h.adj, S) /\ OthersKept(t, h, S, p)
<1>1. PICK A, B, R : A = t.adj /\ B = h.adj /\ R = t.route
  OBVIOUS
<1>2. RoutesOK(A, R) /\ AdjsOK(B)
  BY <1>1 DEF HelperOK
<1>3. ASSUME NEW q \in DOMAIN R \ {p}
      PROVE  /\ q \in DOMAIN S /\ S[q] = R[q] /\ S[q] \in Blocks(B)
             /\ B[S[q]].given = A[R[q]].given
  <2>1. q \in DOMAIN S /\ S[q] = R[q]
    BY <1>1 DEF Rerouted
  <2>2. R[q] \in Blocks(A) /\ q \in Others(R, R[q], p)
    BY <1>2 DEF RoutesOK, Others, Users
  <2>3. R[q] \in Blocks(B) /\ B[R[q]].given = A[R[q]].given
    BY <1>1, <2>2 DEF HelperOK
  <2>4. QED BY <2>1, <2>3
<1>4. DOMAIN S \subseteq Prefixes
  BY <1>1, <1>2 DEF RoutesOK, Rerouted
<1>5. ASSUME NEW q \in DOMAIN S PROVE S[q] \in Blocks(B)
  <2>1. CASE q = p
    <3>1. n # NoAdj /\ S[q] = n
      BY <2>1 DEF Rerouted
    <3>2. QED BY <1>1, <3>1 DEF HelperOK
  <2>2. CASE q # p
    <3>1. q \in DOMAIN R \ {p}
      BY <1>1, <2>2 DEF Rerouted
    <3>2. QED BY <1>3, <3>1
  <2>3. QED BY <2>1, <2>2
<1>6. ASSUME NEW i \in Blocks(B) PROVE Cardinality(Users(S, i)) <= B[i].ref
  <2>1. PICK O : O = Others(R, i, p)
    OBVIOUS
  <2>2. O \subseteq Prefixes /\ p \notin O
    BY <1>2, <2>1 DEF Others, Users, RoutesOK
  <2>3. IsFiniteSet(O) /\ Cardinality(O) \in Nat
    BY <2>2, FS_Subset, FS_CardinalityType, FibTablesAssumption
  <2>4. Cardinality(O) <= B[i].ref /\ B[i].ref \in Int
    BY <1>1, <1>2, <2>1, BlockFacts DEF HelperOK
  <2>5. i # NoAdj
    BY <1>2, BlockFacts
  <2>6. CASE i = n
    <3>1. Users(S, i) = O \cup {p}
      BY <1>1, <1>3, <2>1, <2>5, <2>6 DEF Others, Users, Rerouted
    <3>2. Cardinality(Users(S, i)) = Cardinality(O) + 1
      BY <2>2, <2>3, <3>1, FS_AddElement
    <3>3. Cardinality(O) + 1 <= B[i].ref
      BY <1>1, <2>1, <2>5, <2>6 DEF HelperOK
    <3>4. QED BY <3>2, <3>3
  <2>7. CASE i # n
    <3>1. Users(S, i) = O
      BY <1>1, <1>3, <2>1, <2>7 DEF Others, Users, Rerouted
    <3>2. QED BY <2>4, <3>1
  <2>8. QED BY <2>6, <2>7
<1>7. RoutesOK(B, S)
  BY <1>4, <1>5, <1>6 DEF RoutesOK
<1>8. QED BY <1>1, <1>3, <1>7 DEF OthersKept

(* From t to s, next hop a of prefix p is added or deleted.                *)
Changed(t, s, p, a, isDel, X) ==
  /\ TabOK(s, X)
  /\ s.nbr = t.nbr /\ s.unreach = t.unreach /\ s.glean = t.glean
  /\ \A q \in Prefixes \ {p} : /\ q \in DOMAIN s.route <=> q \in DOMAIN t.route
                               /\ Via(s, q) = Via(t, q)
  /\ Via(s, p) = IF isDel THEN Via(t, p) \ {t.nbr[a]} ELSE Via(t, p) \cup {t.nbr[a]}
  /\ \A b \in Addrs \ {a} : s.nh[b] = t.nh[b]
  /\ ~isDel => DOMAIN s.nh[a] \subseteq DOMAIN t.nh[a] \cup {p}
  /\ isDel => /\ DOMAIN s.nh[a] \subseteq DOMAIN t.nh[a]
              /\ t.nbr[a] \in Via(t, p) => p \notin DOMAIN s.nh[a]
  /\ \E n : FreeAdjs(t) \ {n} \subseteq FreeAdjs(s)
(* A route of a known neighbour: everything stays in order.                *)
LEMMA RouteChange ==
  ASSUME NEW t, NEW X, TabOK(t, X), FreeAdjs(t) # {}, NEW p \in Prefixes,
         NEW a \in DOMAIN t.nbr, NEW w, NEW isDel \in BOOLEAN,
         NEW s, s = AddDelRouteNextHop(t, p, a, w, isDel)
  PROVE  Changed(t, s, p, a, isDel, X)
<1>1. PICK A, R, N, K, x : /\ A = t.adj /\ R = t.route /\ N = t.nbr /\ K = t.nh
                           /\ x = N[a]
  OBVIOUS
<1>2. PICK old : old = IF p \in DOMAIN R THEN R[p] ELSE NoAdj
  OBVIOUS
<1>3. PICK given : given = IF old = NoAdj THEN <<>> ELSE A[old].given
  OBVIOUS
<1>4. PICK r : r = AddDelNextHop(t, old, x, w, isDel)
  OBVIOUS
<1>5. /\ isDel /\ x \notin DOMAIN given => r = [tab |-> t, adj |-> old, ok |-> FALSE]
      /\ isDel /\ x \in DOMAIN given => r = AddDelHelper(t, Forget(given, x), old)
      /\ ~isDel /\ x \in DOMAIN given /\ given[x] = w =>
           r = [tab |-> t, adj |-> old, ok |-> TRUE]
      /\ ~isDel /\ ~(x \in DOMAIN given /\ given[x] = w) =>
           r = AddDelHelper(t, Bind(given, x, w), old)
  <2>1. PICK q : q = [tab |-> t, adj |-> old, ok |-> FALSE]
    OBVIOUS
  <2>2. PICK u : u = [tab |-> t, adj |-> old, ok |-> TRUE]
    OBVIOUS
  <2>3. r = CASE isDel /\ ~(x \in DOMAIN given) -> q
              [] isDel /\ x \in DOMAIN given -> AddDelHelper(t, Forget(given, x), old)
              [] ~isDel /\ x \in DOMAIN given /\ given[x] = w -> u
              [] OTHER -> AddDelHelper(t, Bind(given, x, w), old)
    BY <1>1, <1>3, <1>4, <2>1, <2>2 DEF AddDelNextHop
  <2>4. QED BY <2>1, <2>2, <2>3
<1>6. /\ IsTab(t) /\ AdjsOK(A) /\ HashOK(A, t.hash) /\ RoutesOK(A, R) /\ NbrsOK(A, N)
      /\ K = [b \in Addrs |-> K[b]] /\ UsesOK(A, R, N, K, X) /\ ~t.panicked
  BY <1>1 DEF TabOK
<1>7. /\ old \in Blocks(A) \cup {NoAdj} /\ (p \in DOMAIN R <=> old # NoAdj)
      /\ DOMAIN given = Via(t, p)
  <2>1. p \in DOMAIN R => old = R[p] /\ old \in Blocks(A) /\ old # NoAdj
    BY <1>2, <1>6, BlockFacts DEF RoutesOK
  <2>2. DOMAIN <<>> = {}
    OBVIOUS
  <2>3. p \notin DOMAIN R => old = NoAdj
    BY <1>2
  <2>4. CASE p \in DOMAIN R
    BY <1>1, <1>3, <2>1, <2>4 DEF Via
  <2>5. CASE p \notin DOMAIN R
    BY <1>1, <1>3, <2>2, <2>3, <2>5 DEF Via
  <2>6. QED BY <2>4, <2>5
<1>8. s = IF isDel /\ p \notin DOMAIN R THEN t
          ELSE IF ~r.ok \/ r.adj = old THEN r.tab
          ELSE [r.tab EXCEPT !.route = IF r.adj = NoAdj THEN Forget(@, p)
                                       ELSE Bind(@, p, r.adj),
                             !.nh[a] = IF isDel THEN Forget(@, p) ELSE Bind(@, p, w)]
  BY <1>1, <1>2, <1>4 DEF AddDelRouteNextHop
<1>9. ASSUME s = t, isDel => x \notin Via(t, p), ~isDel => x \in Via(t, p)
      PROVE  Changed(t, s, p, a, isDel, X)
  <2>1. Via(s, p) = IF isDel THEN Via(t, p) \ {x} ELSE Via(t, p) \cup {x}
    BY <1>9
  <2>2. \E n : FreeAdjs(t) \ {n} \subseteq FreeAdjs(s)
    BY <1>9
  <2>3. QED BY <1>1, <1>9, <2>1, <2>2 DEF Changed
<1>10. CASE isDel /\ p \notin DOMAIN R
  BY <1>1, <1>8, <1>9, <1>10 DEF Via
<1>11. CASE isDel /\ p \in DOMAIN R /\ x \notin DOMAIN given
  <2>1. r = [tab |-> t, adj |-> old, ok |-> FALSE]
    BY <1>5, <1>11
  <2>2. s = t
    BY <1>8, <1>11, <2>1
  <2>3. QED BY <1>7, <1>9, <1>11, <2>2
<1>12. CASE ~isDel /\ x \in DOMAIN given /\ given[x] = w
  <2>1. r = [tab |-> t, adj |-> old, ok |-> TRUE]
    BY <1>5, <1>12
  <2>2. s = t
    BY <1>8, <1>12, <2>1
  <2>3. QED BY <1>7, <1>9, <1>12, <2>2
<1>13. CASE \/ isDel /\ p \in DOMAIN R /\ x \in DOMAIN given
            \/ ~isDel /\ ~(x \in DOMAIN given /\ given[x] = w)
  <2>1. PICK g : g = IF isDel THEN Forget(given, x) ELSE Bind(given, x, w)
    OBVIOUS
  <2>2. r = AddDelHelper(t, g, old)
    BY <1>5, <1>13, <2>1
  <2>3. PICK h, n : h = r.tab /\ n = r.adj
    OBVIOUS
  <2>4. HelperOK(t, h, n, g, p) /\ r.ok = TRUE
    BY <1>1, <1>2, <1>6, <2>2, <2>3, AddDelHelperOK
  <2>5. DOMAIN g = IF isDel THEN Via(t, p) \ {x} ELSE Via(t, p) \cup {x}
    BY <1>7, <2>1 DEF Forget, Bind
  <2>6. /\ IsTab(h) /\ SameRest(t, h) /\ AdjsOK(h.adj) /\ HashOK(h.adj, h.hash)
        /\ NbrsOK(h.adj, N)
    BY <1>6, <1>1, <2>4 DEF HelperOK, NbrsOK
  <2>7. s = IF n = old THEN h
            ELSE [h EXCEPT !.route = IF n = NoAdj THEN Forget(@, p) ELSE Bind(@, p, n),
                           !.nh[a] = IF isDel THEN Forget(@, p) ELSE Bind(@, p, w)]
    BY <1>8, <1>13, <2>3, <2>4
  <2>8. a \in Addrs
    BY <1>1, <1>6 DEF NbrsOK
  <2>9. /\ IsTab(s) /\ s.adj = h.adj /\ s.hash = h.hash /\ s.nbr = N
        /\ s.unreach = t.unreach /\ s.glean = t.glean /\ s.panicked = t.panicked
        /\ s.nh = [b \in Addrs |-> s.nh[b]]
        /\ \A b \in Addrs \ {a} : s.nh[b] = K[b]
        /\ n = old => s.route = R /\ s.nh = K
        /\ n # old => /\ s.route = IF n = NoAdj THEN Forget(R, p) ELSE Bind(R, p, n)
                      /\ s.nh[a] = IF isDel THEN Forget(K[a], p) ELSE Bind(K[a], p, w)
    <3>1. /\ h.route = R /\ h.nh = K /\ h.nbr = N /\ h.unreach = t.unreach
          /\ h.glean = t.glean /\ h.panicked = t.panicked
      BY <1>1, <2>6 DEF SameRest
    <3>2. CASE n = old
      BY <1>6, <2>6, <2>7, <3>1, <3>2
    <3>3. CASE n # old
      <4>1. PICK S, L : /\ S = IF n = NoAdj THEN Forget(R, p) ELSE Bind(R, p, n)
                        /\ L = IF isDel THEN Forget(K[a], p) ELSE Bind(K[a], p, w)
        OBVIOUS
      <4>2. PICK J : J = [K EXCEPT ![a] = L]
        OBVIOUS
      <4>3. s = [h EXCEPT !.route = S, !.nh = J]
        BY <2>7, <3>1, <3>3, <4>1, <4>2
      <4>4. /\ IsTab(s) /\ s.adj = h.adj /\ s.hash = h.hash /\ s.nbr = N
            /\ s.unreach = t.unreach /\ s.glean = t.glean /\ s.panicked = t.panicked
            /\ s.route = S /\ s.nh = J
        BY <2>6, <3>1, <4>3 DEF IsTab
      <4>5. /\ J = [b \in Addrs |-> J[b]] /\ J[a] = L
            /\ \A b \in Addrs \ {a} : J[b] = K[b]
        BY <1>6, <2>8, <4>2
      <4>6. QED BY <3>3, <4>1, <4>4, <4>5
    <3>4. QED BY <3>2, <3>3
  <2>10. n = old => old # NoAdj /\ ~isDel /\ x \in Via(t, p)
    <3>1. ASSUME n = old PROVE old # NoAdj /\ ~isDel /\ x \in Via(t, p)
      <4>1. n = NoAdj <=> DOMAIN g = {}
        BY <2>4 DEF HelperOK
      <4>2. old # NoAdj
        <5>1. ASSUME old = NoAdj PROVE FALSE
          <6>1. DOMAIN g = {} /\ ~isDel
            BY <1>7, <1>13, <3>1, <4>1, <5>1
          <6>2. QED BY <2>5, <6>1
        <5>2. QED BY <5>1
      <4>3. n \in Blocks(A) /\ given = A[n].given
        BY <1>3, <1>7, <3>1, <4>2
      <4>4. DOMAIN h.adj[n].given = DOMAIN g /\ h.adj[n].given = A[n].given
        BY <1>1, <2>4, <3>1, <4>2, <4>3 DEF HelperOK
      <4>5. DOMAIN g = Via(t, p)
        BY <1>7, <4>3, <4>4
      <4>6. QED BY <1>7, <1>13, <2>5, <4>2, <4>5
    <3>2. QED BY <3>1
  <2>11. Rerouted(R, s.route, p, n)
    <3>1. CASE n = old
      BY <1>2, <1>7, <2>9, <2>10, <3>1 DEF Rerouted
    <3>2. CASE n # old
      BY <2>9, <3>2 DEF Rerouted, Forget, Bind
    <3>3. QED BY <3>1, <3>2
  <2>12. /\ RoutesOK(h.adj, s.route)
         /\ \A q \in DOMAIN R \ {p} : /\ q \in DOMAIN s.route /\ s.route[q] = R[q]
                                      /\ h.adj[s.route[q]].given = A[R[q]].given
    <3>1. Rerouted(t.route, s.route, p, n) /\ RoutesOK(t.adj, t.route)
      BY <1>1, <1>6, <2>11
    <3>2. HelperOK(t, h, n, g, p)
      BY <2>4
    <3>3. RoutesOK(h.adj, s.route) /\ OthersKept(t, h, s.route, p)
      BY <3>1, <3>2, RouteMoved
    <3>4. QED BY <1>1, <3>3 DEF OthersKept
  <2>13. ASSUME NEW q \in Prefixes \ {p}
         PROVE  /\ q \in DOMAIN s.route <=> q \in DOMAIN t.route
                /\ Via(s, q) = Via(t, q)
    <3>1. q \in DOMAIN s.route <=> q \in DOMAIN R
      BY <2>11 DEF Rerouted
    <3>2. QED BY <1>1, <2>9, <2>12, <3>1 DEF Via
  <2>14. Via(s, p) = DOMAIN g
    <3>1. CASE n = NoAdj
      <4>1. p \notin DOMAIN s.route
        BY <2>11, <3>1 DEF Rerouted
      <4>2. QED BY <2>4, <3>1, <4>1 DEF Via, HelperOK
    <3>2. CASE n # NoAdj
      <4>1. p \in DOMAIN s.route /\ s.route[p] = n
        BY <2>11, <3>2 DEF Rerouted
      <4>2. DOMAIN h.adj[n].given = DOMAIN g
        BY <2>4, <3>2 DEF HelperOK
      <4>3. QED BY <2>9, <4>1, <4>2 DEF Via
    <3>3. QED BY <3>1, <3>2
  <2>15. /\ ~isDel => DOMAIN s.nh[a] \subseteq DOMAIN K[a] \cup {p}
         /\ isDel => DOMAIN s.nh[a] = DOMAIN K[a] \ {p}
         /\ n # old /\ ~isDel => p \in DOMAIN s.nh[a]
         /\ DOMAIN K[a] \ {p} \subseteq DOMAIN s.nh[a]
    <3>1. CASE n = old
      BY <2>9, <2>10, <3>1
    <3>2. CASE n # old
      BY <2>9, <3>2 DEF Forget, Bind
    <3>3. QED BY <3>1, <3>2
  <2>16. UsesOK(h.adj, s.route, N, s.nh, X)
    <3>1. ASSUME NEW q \in DOMAIN s.route, NEW y \in DOMAIN h.adj[s.route[q]].given
          PROVE  \E b \in DOMAIN N : N[b] = y /\ (q \in DOMAIN s.nh[b] \/ b \in X)
      <4>1. CASE q # p
        <5>1. q \in DOMAIN R \ {p}
          BY <2>11, <4>1 DEF Rerouted
        <5>2. y \in DOMAIN A[R[q]].given
          BY <2>12, <3>1, <5>1
        <5>3. PICK b \in DOMAIN N : N[b] = y /\ (q \in DOMAIN K[b] \/ b \in X)
          BY <1>6, <5>1, <5>2 DEF UsesOK
        <5>4. b \in Addrs
          BY <1>6 DEF NbrsOK
        <5>5. q \in DOMAIN K[b] => q \in DOMAIN s.nh[b]
          BY <2>9, <2>15, <4>1, <5>4
        <5>6. QED BY <5>3, <5>5
      <4>2. CASE q = p
        <5>1. y \in Via(s, p)
          BY <2>9, <3>1, <4>2 DEF Via
        <5>2. y \in DOMAIN g
          BY <2>14, <5>1
        <5>3. CASE y \in Via(t, p) /\ (y # x \/ n = old)
          <6>1. p \in DOMAIN R /\ y \in DOMAIN A[R[p]].given
            BY <1>1, <5>3 DEF Via
          <6>2. PICK b \in DOMAIN N : N[b] = y /\ (p \in DOMAIN K[b] \/ b \in X)
            BY <1>6, <6>1 DEF UsesOK
          <6>3. b \in Addrs
            BY <1>6 DEF NbrsOK
          <6>4. s.nh[b] = K[b]
            <7>1. CASE n = old
              BY <2>9, <7>1
            <7>2. CASE y # x
              BY <1>1, <2>9, <6>2, <6>3, <7>2
            <7>3. QED BY <5>3, <7>1, <7>2
          <6>5. QED BY <4>2, <6>2, <6>4
        <5>4. CASE y = x /\ n # old
          <6>1. ~isDel
            BY <2>5, <5>2, <5>4
          <6>2. QED BY <1>1, <2>15, <4>2, <5>4, <6>1
        <5>5. CASE y \notin Via(t, p)
          <6>1. y = x /\ ~isDel
            BY <2>5, <5>2, <5>5
          <6>2. n # old
            BY <2>10, <5>5, <6>1
          <6>3. QED BY <5>4, <6>1, <6>2
        <5>6. QED BY <5>3, <5>4, <5>5
      <4>3. QED BY <4>1, <4>2
    <3>2. QED BY <3>1 DEF UsesOK
  <2>17. TabOK(s, X)
    BY <1>6, <2>6, <2>9, <2>12, <2>16 DEF TabOK
  <2>18. FreeAdjs(t) \ {n} \subseteq FreeAdjs(s)
    BY <2>4, <2>9 DEF HelperOK, FreeAdjs
  <2>19. QED BY <1>1, <2>5, <2>9, <2>13, <2>14, <2>15, <2>17, <2>18 DEF Changed
<1>14. QED BY <1>10, <1>11, <1>12, <1>13
-----------------------------------------------------------------------------
(* The two folds: one step, where they start, and the prefixes done.       *)
One(lose, t, a, p, s) ==
  IF lose THEN LoseRoute(t, a, p, s) ELSE GainRoute(t, a, p, s)

(* What is unreachable through other addresses than a.                     *)
Left(t, a) ==
  [k \in {j \in DOMAIN t.unreach : j[1] # a} |-> t.unreach[k]]

(* The tables before the loop.                                             *)
Start(lose, t, a) ==
  IF lose THEN [t EXCEPT !.nh[a] = <<>>] ELSE [t EXCEPT !.unreach = Left(t, a)]

(* The prefixes the loop is over.                                          *)
Todo(lose, t, a) ==
  IF lose THEN DOMAIN t.nh[a] ELSE {p \in Prefixes : <<a, p>> \in DOMAIN t.unreach}

(* The prefix done last of those in D.                                     *)
Pick(D) == CHOOSE x \in D : TRUE

(* it gives the tables after the prefixes of each set have been done.      *)
FoldStep(f, base, lose, t, a, D) ==
  IF D = {} THEN base ELSE One(lose, t, a, Pick(D), f[D \ {Pick(D)}])

(* it is the function that FoldSet defines by recursion.                   *)
IsFold(it, S, base, lose, t, a) ==
  it = [D \in SUBSET S |-> FoldStep(it, base, lose, t, a, D)]

(* There is such a function, so the recursive definition means what it     *)
(* says.                                                                   *)
LEMMA FoldExists ==
  ASSUME NEW S, IsFiniteSet(S), NEW base, NEW lose, NEW t, NEW a
  PROVE  \E it : IsFold(it, S, base, lose, t, a)
<1> DEFINE Upto(n) == \E f : \A D \in SUBSET S : Cardinality(D) <= n =>
                               f[D] = FoldStep(f, base, lose, t, a, D)
           Bad == {n \in Nat : ~Upto(n)}
<1>1. ASSUME NEW D \in SUBSET S
      PROVE  /\ IsFiniteSet(D) /\ Cardinality(D) \in Nat
             /\ D # {} => /\ Pick(D) \in D /\ D \ {Pick(D)} \in SUBSET S
                          /\ Cardinality(D \ {Pick(D)}) = Cardinality(D) - 1
                          /\ Cardinality(D) # 0
  <2>1. IsFiniteSet(D) /\ Cardinality(D) \in Nat
    BY FS_Subset, FS_CardinalityType
  <2>2. D # {} => Pick(D) \in D
    BY DEF Pick
  <2>3. D # {} => Cardinality(D \ {Pick(D)}) = Cardinality(D) - 1
    BY <2>1, <2>2, FS_RemoveElement
  <2>4. D # {} => Cardinality(D) # 0
    BY <2>1, FS_EmptySet
  <2>5. QED BY <2>1, <2>2, <2>3, <2>4
<1>2. Upto(0)
  <2>1. PICK f : f = [D \in SUBSET S |-> base]
    OBVIOUS
  <2>2. ASSUME NEW D \in SUBSET S, Cardinality(D) <= 0
        PROVE  f[D] = FoldStep(f, base, lose, t, a, D)
    <3>1. Cardinality(D) \in Nat /\ (D # {} => Cardinality(D) # 0)
      BY <1>1
    <3>2. Cardinality(D) = 0
      BY <2>2, <3>1
    <3>3. D = {}
      BY <3>1, <3>2
    <3>4. QED BY <2>1, <3>3 DEF FoldStep
  <2>3. QED BY <2>2
<1>3. ASSUME NEW n \in Nat, n # 0, Upto(n - 1) PROVE Upto(n)
  <2>1. PICK f : \A D \in SUBSET S : Cardinality(D) <= n - 1 =>
                   f[D] = FoldStep(f, base, lose, t, a, D)
    BY <1>3
  <2>2. PICK g : g = [D \in SUBSET S |-> FoldStep(f, base, lose, t, a, D)]
    OBVIOUS
  <2>3. ASSUME NEW D \in SUBSET S, Cardinality(D) <= n
        PROVE  g[D] = FoldStep(g, base, lose, t, a, D)
    <3>1. g[D] = FoldStep(f, base, lose, t, a, D)
      BY <2>2
    <3>2. CASE D = {}
      BY <3>1, <3>2 DEF FoldStep
    <3>3. CASE D # {}
      <4>1. PICK C : C = D \ {Pick(D)}
        OBVIOUS
      <4>2. C \in SUBSET S /\ Cardinality(C) <= n - 1
        BY <1>1, <2>3, <3>3, <4>1
      <4>3. g[C] = f[C]
        BY <2>1, <2>2, <4>2
      <4>4. QED BY <3>1, <3>3, <4>1, <4>3 DEF FoldStep
    <3>4. QED BY <3>2, <3>3
  <2>4. QED BY <2>3
<1>4. Bad = {}
  <2>1. ASSUME Bad # {} PROVE FALSE
    <3>1. PICK n \in Bad : \A m \in Bad : n <= m
      BY <2>1, LeastOfNat
    <3>2. n \in Nat /\ ~Upto(n)
      OBVIOUS
    <3>3. n # 0
      BY <1>2, <3>2
    <3>4. n - 1 \in Nat /\ n - 1 \notin Bad
      BY <3>1, <3>2, <3>3
    <3>5. Upto(n - 1)
      BY <3>4
    <3>6. QED BY <1>3, <3>2, <3>3, <3>5
  <2>2. QED BY <2>1
<1>5. PICK c \in Nat : c = Cardinality(S)
  BY FS_CardinalityType
<1>6. PICK f : \A D \in SUBSET S : Cardinality(D) <= c =>
                 f[D] = FoldStep(f, base, lose, t, a, D)
  BY <1>4, <1>5
<1>7. PICK g : g = [D \in SUBSET S |-> f[D]]
  OBVIOUS
<1>8. ASSUME NEW D \in SUBSET S PROVE g[D] = FoldStep(g, base, lose, t, a, D)
  <2>1. Cardinality(D) <= c
    BY <1>5, FS_Subset
  <2>2. f[D] = FoldStep(f, base, lose, t, a, D)
    BY <1>6, <2>1
  <2>3. D # {} => g[D \ {Pick(D)}] = f[D \ {Pick(D)}]
    BY <1>1, <1>7
  <2>4. QED BY <1>7, <2>2, <2>3 DEF FoldStep
<1>9. IsFold(g, S, base, lose, t, a)
  BY <1>7, <1>8 DEF IsFold
<1>10. QED BY <1>9

(* The two loops are such folds.                                           *)
LEMMA LoseIs ==
  ASSUME NEW t, NEW a, IsFiniteSet(DOMAIN t.nh[a])
  PROVE  \E it : /\ IsFold(it, Todo(TRUE, t, a), Start(TRUE, t, a), TRUE, t, a)
                 /\ LoseNeighbor(t, a) = it[Todo(TRUE, t, a)]
<1> DEFINE Is(f) == f = [D \in SUBSET DOMAIN t.nh[a] |->
                       IF D = {} THEN [t EXCEPT !.nh[a] = <<>>]
                       ELSE LoseRoute(t, a, CHOOSE x \in D : TRUE,
                                      f[D \ {CHOOSE x \in D : TRUE}])]
<1>1. LoseNeighbor(t, a) = (CHOOSE f : Is(f))[DOMAIN t.nh[a]]
  BY Zenon DEF LoseNeighbor, FoldSet, MapThenFoldSet
<1>2. ASSUME NEW f
      PROVE Is(f) <=> IsFold(f, Todo(TRUE, t, a), Start(TRUE, t, a), TRUE, t, a)
  BY DEF IsFold, FoldStep, Todo, Start, One, Pick
<1> HIDE DEF Is
<1>3. \E f : Is(f)
  <2>1. \E f : IsFold(f, Todo(TRUE, t, a), Start(TRUE, t, a), TRUE, t, a)
    <3>1. IsFiniteSet(Todo(TRUE, t, a))
      BY DEF Todo
    <3>2. QED BY <3>1, FoldExists, Zenon
  <2>2. QED BY <1>2, <2>1
<1>4. Is(CHOOSE f : Is(f))
  BY <1>3
<1>5. DOMAIN t.nh[a] = Todo(TRUE, t, a)
  BY DEF Todo
<1>6. QED BY <1>1, <1>2, <1>4, <1>5

(* makeReachable's loop.                                                   *)
LEMMA GainIs ==
  ASSUME NEW t, NEW a
  PROVE  \E it : /\ IsFold(it, Todo(FALSE, t, a), Start(FALSE, t, a), FALSE, t, a)
                 /\ MakeReachable(t, a) = it[Todo(FALSE, t, a)]
<1> DEFINE Is(f) == f = [D \in SUBSET {p \in Prefixes : <<a, p>> \in DOMAIN t.unreach} |->
                       IF D = {}
                       THEN [t EXCEPT !.unreach =
                               [k \in {j \in DOMAIN t.unreach : j[1] # a} |->
                                  t.unreach[k]]]
                       ELSE GainRoute(t, a, CHOOSE x \in D : TRUE,
                                      f[D \ {CHOOSE x \in D : TRUE}])]
<1>1. MakeReachable(t, a) =
        (CHOOSE f : Is(f))[{p \in Prefixes : <<a, p>> \in DOMAIN t.unreach}]
  BY Zenon DEF MakeReachable, FoldSet, MapThenFoldSet
<1>2. ASSUME NEW f
      PROVE Is(f) <=> IsFold(f, Todo(FALSE, t, a), Start(FALSE, t, a), FALSE, t, a)
  BY DEF IsFold, FoldStep, Todo, Start, One, Pick, Left
<1> HIDE DEF Is
<1>3. \E f : Is(f)
  <2>1. \E f : IsFold(f, Todo(FALSE, t, a), Start(FALSE, t, a), FALSE, t, a)
    <3>1. Todo(FALSE, t, a) \subseteq Prefixes
      BY DEF Todo
    <3>2. IsFiniteSet(Todo(FALSE, t, a))
      BY <3>1, FS_Subset, FibTablesAssumption
    <3>3. QED BY <3>2, FoldExists, Zenon
  <2>2. QED BY <1>2, <2>1
<1>4. Is(CHOOSE f : Is(f))
  BY <1>3
<1>5. {p \in Prefixes : <<a, p>> \in DOMAIN t.unreach} = Todo(FALSE, t, a)
  BY DEF Todo
<1>6. QED BY <1>1, <1>2, <1>4, <1>5

-----------------------------------------------------------------------------
(* The number of free adjacencies.                                         *)
FreeCount(t) == Cardinality(FreeAdjs(t))

(* Few adjacencies, of which some are free.                                *)
LEMMA FreeFinite ==
  ASSUME NEW t, AdjsOK(t.adj)
  PROVE  /\ IsFiniteSet(FreeAdjs(t)) /\ FreeCount(t) \in Nat
         /\ FreeCount(t) > 0 => FreeAdjs(t) # {}
<1>1. FreeAdjs(t) \subseteq 0 .. AdjMax - 1
  BY DEF FreeAdjs, AdjsOK
<1>2. IsFiniteSet(0 .. AdjMax - 1)
  BY FS_Interval, FibTablesAssumption
<1>3. IsFiniteSet(FreeAdjs(t))
  BY <1>1, <1>2, FS_Subset
<1>4. FreeCount(t) \in Nat
  BY <1>3, FS_CardinalityType DEF FreeCount
<1>5. FreeAdjs(t) = {} => FreeCount(t) = 0
  BY FS_EmptySet DEF FreeCount
<1>6. QED BY <1>3, <1>4, <1>5

(* A change of a route takes at most one of them.                          *)
LEMMA OneLess ==
  ASSUME NEW t, NEW s, AdjsOK(t.adj), AdjsOK(s.adj), NEW n,
         FreeAdjs(t) \ {n} \subseteq FreeAdjs(s)
  PROVE  FreeCount(s) >= FreeCount(t) - 1
<1>1. PICK F, G : F = FreeAdjs(t) /\ G = FreeAdjs(s)
  OBVIOUS
<1>2. /\ IsFiniteSet(F) /\ IsFiniteSet(G) /\ FreeCount(s) = Cardinality(G)
      /\ Cardinality(F) \in Nat /\ Cardinality(G) \in Nat
      /\ FreeCount(t) = Cardinality(F)
  BY <1>1, FreeFinite DEF FreeCount
<1>3. IsFiniteSet(F \ {n})
  BY <1>2, FS_Subset
<1>4. Cardinality(F \ {n}) <= Cardinality(G)
  <2>1. PICK E : E = F \ {n}
    OBVIOUS
  <2>2. E \in SUBSET G
    BY <1>1, <2>1
  <2>3. IsFiniteSet(G)
    BY <1>2
  <2>4. Cardinality(E) <= Cardinality(G)
    BY <2>2, <2>3, FS_Subset
  <2>5. QED BY <2>1, <2>4
<1>5. Cardinality(F \ {n}) >= Cardinality(F) - 1
  <2>1. CASE n \in F
    <3>1. IsFiniteSet(F)
      BY <1>2
    <3>2. Cardinality(F \ {n}) = Cardinality(F) - 1
      BY <2>1, <3>1, FS_RemoveElement
    <3>3. QED BY <1>2, <3>2
  <2>2. CASE n \notin F
    <3>1. F \ {n} = F
      BY <2>2
    <3>2. QED BY <1>2, <3>1
  <2>3. QED BY <2>1, <2>2
<1>6. Cardinality(F \ {n}) \in Nat
  BY <1>3, FS_CardinalityType
<1>7. QED BY <1>2, <1>4, <1>5, <1>6

(* s is m but for what is unreachable.                                     *)
AsBefore(m, s) ==
  /\ s.adj = m.adj /\ s.hash = m.hash /\ s.route = m.route /\ s.nbr = m.nbr
  /\ s.nh = m.nh /\ s.glean = m.glean /\ s.panicked = m.panicked
  /\ FreeAdjs(s) = FreeAdjs(m) /\ \A q : Via(s, q) = Via(m, q)

(* Changing what is unreachable leaves the tables in order.                *)
LEMMA SetUnreach ==
  ASSUME NEW m, NEW X, TabOK(m, X), NEW U, NEW s, s = [m EXCEPT !.unreach = U]
  PROVE  TabOK(s, X) /\ AsBefore(m, s) /\ s.unreach = U
<1>1. IsTab(m)
  BY DEF TabOK
<1>2. /\ IsTab(s) /\ s.unreach = U
      /\ s.adj = m.adj /\ s.hash = m.hash /\ s.route = m.route /\ s.nbr = m.nbr
      /\ s.nh = m.nh /\ s.glean = m.glean /\ s.panicked = m.panicked
  BY <1>1 DEF IsTab
<1>3. FreeAdjs(s) = FreeAdjs(m) /\ \A q : Via(s, q) = Via(m, q)
  BY <1>2 DEF FreeAdjs, Via
<1>4. TabOK(s, X)
  BY <1>2 DEF TabOK
<1>5. QED BY <1>2, <1>3, <1>4 DEF AsBefore

(* s is t after the routes to the prefixes of D have lost next hop a.      *)
LostOK(t, s, a, D) ==
  /\ TabOK(s, {a}) /\ s.nbr = t.nbr /\ s.glean = t.glean
  /\ \A q \in Prefixes :
       Via(s, q) = IF q \in D THEN Via(t, q) \ {t.nbr[a]} ELSE Via(t, q)
  /\ \A q \in Prefixes \ D : q \in DOMAIN s.route <=> q \in DOMAIN t.route
  /\ \A b \in Addrs \ {a} : s.nh[b] = t.nh[b]
  /\ DOMAIN s.nh[a] = {}
  /\ DOMAIN t.unreach \subseteq DOMAIN s.unreach
  /\ DOMAIN s.unreach \subseteq DOMAIN t.unreach \cup {<<a, q>> : q \in D}
  /\ \A q \in D : t.nbr[a] \in Via(t, q) => <<a, q>> \in DOMAIN s.unreach
  /\ FreeCount(s) + Cardinality(D) >= FreeCount(t)

(* s is t after the routes to the prefixes of D have got next hop a.       *)
GainedOK(t, s, a, D) ==
  /\ TabOK(s, {}) /\ s.nbr = t.nbr /\ s.glean = t.glean
  /\ s.unreach = Left(t, a)
  /\ \A q \in Prefixes :
       Via(s, q) = IF q \in D THEN Via(t, q) \cup {t.nbr[a]} ELSE Via(t, q)
  /\ \A b \in Addrs \ {a} : s.nh[b] = t.nh[b]
  /\ DOMAIN s.nh[a] \subseteq DOMAIN t.nh[a] \cup D
  /\ FreeCount(s) + Cardinality(D) >= FreeCount(t)

(* One more prefix.                                                        *)
LEMMA LoseStep ==
  ASSUME NEW t, NEW s, NEW a \in DOMAIN t.nbr, NEW C \in SUBSET Prefixes,
         IsFiniteSet(C), NEW p \in Prefixes \ C,
         LostOK(t, s, a, C), FreeCount(s) > 0, AdjsOK(t.adj),
         NEW s1, s1 = LoseRoute(t, a, p, s)
  PROVE  LostOK(t, s1, a, C \cup {p})
<1>1. TabOK(s, {a}) /\ s.nbr = t.nbr /\ a \in DOMAIN s.nbr
  BY DEF LostOK
<1>2. /\ AdjsOK(s.adj) /\ FreeAdjs(s) # {} /\ a \in Addrs
      /\ FreeCount(s) \in Nat /\ FreeCount(t) \in Nat
  BY <1>1, FreeFinite DEF TabOK, NbrsOK
<1>3. Cardinality(C \cup {p}) = Cardinality(C) + 1 /\ Cardinality(C) \in Nat
  BY FS_AddElement, FS_CardinalityType
<1>4. CASE t.glean /\ p \notin DOMAIN s.route
  <2>1. s1 = s
    BY <1>4 DEF LoseRoute
  <2>2. Via(s, p) = {} /\ Via(t, p) = {}
    BY <1>4 DEF LostOK, Via
  <2>3. \A q \in Prefixes :
          Via(s, q) = IF q \in C \cup {p} THEN Via(t, q) \ {t.nbr[a]} ELSE Via(t, q)
    BY <2>2 DEF LostOK
  <2>4. DOMAIN s.unreach \subseteq DOMAIN t.unreach \cup {<<a, q>> : q \in C \cup {p}}
    BY DEF LostOK
  <2>5. FreeCount(s) + Cardinality(C \cup {p}) >= FreeCount(t)
    BY <1>2, <1>3 DEF LostOK
  <2>6. QED BY <2>1, <2>2, <2>3, <2>4, <2>5 DEF LostOK
<1>5. CASE ~(t.glean /\ p \notin DOMAIN s.route)
  <2>1. PICK m, w : w = t.nh[a][p] /\ m = AddDelRouteNextHop(s, p, a, w, TRUE)
    OBVIOUS
  <2>2. PICK U : U = Bind(m.unreach, <<a, p>>, w)
    OBVIOUS
  <2>3. s1 = [m EXCEPT !.unreach = U]
    BY <1>5, <2>1, <2>2 DEF LoseRoute, AddDelUnreachable
  <2>4. Changed(s, m, p, a, TRUE, {a})
    BY <1>1, <1>2, <2>1, RouteChange
  <2>5. TabOK(m, {a})
    BY <2>4 DEF Changed
  <2>6. TabOK(s1, {a}) /\ AsBefore(m, s1) /\ s1.unreach = U
    BY <2>3, <2>5, SetUnreach
  <2>7. DOMAIN U = DOMAIN s.unreach \cup {<<a, p>>}
    BY <2>2, <2>4 DEF Changed, Bind
  <2>8. s1.nbr = t.nbr /\ s1.glean = t.glean
    BY <2>4, <2>6 DEF LostOK, Changed, AsBefore
  <2>9. ASSUME NEW q \in Prefixes
        PROVE  Via(s1, q) = IF q \in C \cup {p} THEN Via(t, q) \ {t.nbr[a]}
                            ELSE Via(t, q)
    <3>1. Via(s1, q) = Via(m, q)
      BY <2>6 DEF AsBefore
    <3>2. Via(m, q) = IF q = p THEN Via(s, q) \ {t.nbr[a]} ELSE Via(s, q)
      BY <1>1, <2>4 DEF Changed
    <3>3. Via(s, q) = IF q \in C THEN Via(t, q) \ {t.nbr[a]} ELSE Via(t, q)
      BY DEF LostOK
    <3>4. QED BY <3>1, <3>2, <3>3
  <2>10. \A q \in Prefixes \ (C \cup {p}) : q \in DOMAIN s1.route <=> q \in DOMAIN t.route
    BY <2>4, <2>6 DEF LostOK, Changed, AsBefore
  <2>11. \A b \in Addrs \ {a} : s1.nh[b] = t.nh[b]
    BY <2>4, <2>6 DEF LostOK, Changed, AsBefore
  <2>12. DOMAIN s1.nh[a] = {}
    BY <2>4, <2>6 DEF LostOK, Changed, AsBefore
  <2>13. /\ DOMAIN t.unreach \subseteq DOMAIN s1.unreach
         /\ DOMAIN s1.unreach \subseteq
              DOMAIN t.unreach \cup {<<a, q>> : q \in C \cup {p}}
         /\ \A q \in C \cup {p} :
              t.nbr[a] \in Via(t, q) => <<a, q>> \in DOMAIN s1.unreach
    BY <2>6, <2>7 DEF LostOK
  <2>14. FreeCount(s1) + Cardinality(C \cup {p}) >= FreeCount(t)
    <3>1. PICK n : FreeAdjs(s) \ {n} \subseteq FreeAdjs(s1)
      BY <2>4, <2>6 DEF Changed, AsBefore
    <3>2. AdjsOK(s1.adj)
      BY <2>6 DEF TabOK
    <3>3. FreeCount(s1) >= FreeCount(s) - 1
      BY <1>2, <3>1, <3>2, OneLess
    <3>4. FreeCount(s1) \in Nat
      BY <3>2, FreeFinite
    <3>5. FreeCount(s) + Cardinality(C) >= FreeCount(t)
      BY DEF LostOK
    <3>6. QED BY <1>2, <1>3, <3>3, <3>4, <3>5
  <2>15. QED BY <2>6, <2>8, <2>9, <2>10, <2>11, <2>12, <2>13, <2>14 DEF LostOK
<1>6. QED BY <1>4, <1>5

(* One more prefix that gets the next hop.                                 *)
LEMMA GainStep ==
  ASSUME NEW t, NEW s, NEW a \in DOMAIN t.nbr, NEW C \in SUBSET Prefixes,
         IsFiniteSet(C), NEW p \in Prefixes \ C,
         GainedOK(t, s, a, C), FreeCount(s) > 0, AdjsOK(t.adj),
         NEW s1, s1 = GainRoute(t, a, p, s)
  PROVE  GainedOK(t, s1, a, C \cup {p})
<1>1. TabOK(s, {}) /\ s.nbr = t.nbr /\ a \in DOMAIN s.nbr
  BY DEF GainedOK
<1>2. /\ AdjsOK(s.adj) /\ FreeAdjs(s) # {} /\ a \in Addrs
      /\ FreeCount(s) \in Nat /\ FreeCount(t) \in Nat
  BY <1>1, FreeFinite DEF TabOK, NbrsOK
<1>3. Cardinality(C \cup {p}) = Cardinality(C) + 1 /\ Cardinality(C) \in Nat
  BY FS_AddElement, FS_CardinalityType
<1>4. PICK w : s1 = AddDelRouteNextHop(s, p, a, w, FALSE)
  BY DEF GainRoute
<1>5. Changed(s, s1, p, a, FALSE, {})
  BY <1>1, <1>2, <1>4, RouteChange
<1>6. /\ TabOK(s1, {}) /\ s1.nbr = t.nbr /\ s1.glean = t.glean
      /\ s1.unreach = Left(t, a)
  BY <1>5 DEF GainedOK, Changed
<1>7. ASSUME NEW q \in Prefixes
      PROVE  Via(s1, q) = IF q \in C \cup {p} THEN Via(t, q) \cup {t.nbr[a]}
                          ELSE Via(t, q)
  <2>1. Via(s1, q) = IF q = p THEN Via(s, q) \cup {t.nbr[a]} ELSE Via(s, q)
    BY <1>1, <1>5 DEF Changed
  <2>2. Via(s, q) = IF q \in C THEN Via(t, q) \cup {t.nbr[a]} ELSE Via(t, q)
    BY DEF GainedOK
  <2>3. QED BY <2>1, <2>2
<1>8. \A b \in Addrs \ {a} : s1.nh[b] = t.nh[b]
  BY <1>5 DEF GainedOK, Changed
<1>9. DOMAIN s1.nh[a] \subseteq DOMAIN t.nh[a] \cup (C \cup {p})
  BY <1>5 DEF GainedOK, Changed
<1>10. FreeCount(s1) + Cardinality(C \cup {p}) >= FreeCount(t)
  <2>1. PICK n : FreeAdjs(s) \ {n} \subseteq FreeAdjs(s1)
    BY <1>5 DEF Changed
  <2>2. AdjsOK(s1.adj)
    BY <1>6 DEF TabOK
  <2>3. FreeCount(s1) >= FreeCount(s) - 1
    BY <1>2, <2>1, <2>2, OneLess
  <2>4. FreeCount(s1) \in Nat
    BY <2>2, FreeFinite
  <2>5. FreeCount(s) + Cardinality(C) >= FreeCount(t)
    BY DEF GainedOK
  <2>6. QED BY <1>2, <1>3, <2>3, <2>4, <2>5
<1>11. QED BY <1>6, <1>7, <1>8, <1>9, <1>10 DEF GainedOK

(* Before the first prefix.                                                *)
LEMMA LoseStart ==
  ASSUME NEW t, TabOK(t, {}), NEW a \in DOMAIN t.nbr
  PROVE  LostOK(t, Start(TRUE, t, a), a, {})
<1>1. PICK K : K = [t.nh EXCEPT ![a] = <<>>]
  OBVIOUS
<1>2. PICK s : s = [t EXCEPT !.nh = K]
  OBVIOUS
<1>3. Start(TRUE, t, a) = s
  BY <1>1, <1>2 DEF Start
<1>4. IsTab(t) /\ a \in Addrs /\ t.nh = [b \in Addrs |-> t.nh[b]]
  BY DEF TabOK, NbrsOK
<1>5. /\ IsTab(s) /\ s.adj = t.adj /\ s.hash = t.hash /\ s.route = t.route
      /\ s.nbr = t.nbr /\ s.nh = K /\ s.unreach = t.unreach /\ s.glean = t.glean
      /\ s.panicked = t.panicked
  BY <1>2, <1>4 DEF IsTab
<1>6. /\ K = [b \in Addrs |-> K[b]] /\ K[a] = <<>>
      /\ \A b \in Addrs \ {a} : K[b] = t.nh[b]
  BY <1>1, <1>4
<1>7. DOMAIN K[a] = {}
  BY <1>6
<1>8. UsesOK(s.adj, s.route, s.nbr, s.nh, {a})
  <2>1. ASSUME NEW p \in DOMAIN t.route, NEW x \in DOMAIN t.adj[t.route[p]].given
        PROVE  \E b \in DOMAIN t.nbr : t.nbr[b] = x /\ (p \in DOMAIN K[b] \/ b \in {a})
    <3>1. PICK b \in DOMAIN t.nbr : t.nbr[b] = x /\ p \in DOMAIN t.nh[b]
      BY DEF TabOK, UsesOK
    <3>2. b \in Addrs
      BY DEF TabOK, NbrsOK
    <3>3. b # a => K[b] = t.nh[b]
      BY <1>6, <3>2
    <3>4. p \in DOMAIN K[b] \/ b \in {a}
      BY <3>1, <3>3
    <3>5. QED BY <3>1, <3>4
  <2>2. QED BY <1>5, <2>1 DEF UsesOK
<1>9. TabOK(s, {a})
  BY <1>5, <1>6, <1>8 DEF TabOK
<1>10. \A q : Via(s, q) = Via(t, q)
  BY <1>5 DEF Via
<1>11. FreeCount(s) + Cardinality({}) >= FreeCount(t)
  <2>1. FreeCount(s) = FreeCount(t)
    BY <1>5 DEF FreeCount, FreeAdjs
  <2>2. FreeCount(t) \in Nat
    BY FreeFinite DEF TabOK
  <2>3. Cardinality({}) = 0
    BY FS_EmptySet
  <2>4. QED BY <2>1, <2>2, <2>3
<1>12. LostOK(t, s, a, {})
  BY <1>5, <1>6, <1>7, <1>9, <1>10, <1>11 DEF LostOK
<1>13. QED BY <1>3, <1>12

(* Before the first prefix that gets the next hop.                         *)
LEMMA GainStart ==
  ASSUME NEW t, TabOK(t, {}), NEW a
  PROVE  GainedOK(t, Start(FALSE, t, a), a, {})
<1>1. PICK s : s = [t EXCEPT !.unreach = Left(t, a)]
  OBVIOUS
<1>2. Start(FALSE, t, a) = s
  BY <1>1 DEF Start
<1>3. TabOK(s, {}) /\ AsBefore(t, s) /\ s.unreach = Left(t, a)
  BY <1>1, SetUnreach
<1>4. FreeCount(s) + Cardinality({}) >= FreeCount(t)
  <2>1. FreeCount(s) = FreeCount(t)
    BY <1>3 DEF FreeCount, AsBefore
  <2>2. FreeCount(t) \in Nat
    BY FreeFinite DEF TabOK
  <2>3. Cardinality({}) = 0
    BY FS_EmptySet
  <2>4. QED BY <2>1, <2>2, <2>3
<1>5. GainedOK(t, s, a, {})
  BY <1>3, <1>4 DEF GainedOK, AsBefore
<1>6. QED BY <1>2, <1>5

(* A fold keeps what its steps keep: by induction on the prefixes done.    *)
DoneOK(lose, t, s, a, D) == IF lose THEN LostOK(t, s, a, D) ELSE GainedOK(t, s, a, D)

(* All prefixes are done as each one is.                                   *)
LEMMA FoldKeeps ==
  ASSUME NEW t, TabOK(t, {}), NEW a \in DOMAIN t.nbr, NEW lose \in BOOLEAN,
         FreeCount(t) >= Cardinality(Prefixes),
         NEW S, S = Todo(lose, t, a), S \subseteq Prefixes,
         NEW it, IsFold(it, S, Start(lose, t, a), lose, t, a)
  PROVE  DoneOK(lose, t, it[S], a, S)
<1> DEFINE Bad == {n \in Nat : \E D \in SUBSET S :
                     Cardinality(D) = n /\ ~DoneOK(lose, t, it[D], a, D)}
<1>1. ASSUME NEW D \in SUBSET S PROVE IsFiniteSet(D) /\ Cardinality(D) \in Nat
  <2>1. D \in SUBSET Prefixes
    OBVIOUS
  <2>2. QED BY <2>1, FS_Subset, FS_CardinalityType, FibTablesAssumption
<1>2. ASSUME NEW D \in SUBSET S
      PROVE  it[D] = FoldStep(it, Start(lose, t, a), lose, t, a, D)
  BY DEF IsFold
<1>3. DoneOK(lose, t, it[{}], a, {})
  <2>1. it[{}] = Start(lose, t, a)
    BY <1>2 DEF FoldStep
  <2>2. CASE lose
    <3>1. LostOK(t, Start(TRUE, t, a), a, {})
      BY LoseStart
    <3>2. Start(lose, t, a) = Start(TRUE, t, a)
      BY <2>2 DEF Start
    <3>3. QED BY <2>1, <2>2, <3>1, <3>2 DEF DoneOK
  <2>3. CASE ~lose
    <3>1. GainedOK(t, Start(FALSE, t, a), a, {})
      BY GainStart
    <3>2. Start(lose, t, a) = Start(FALSE, t, a)
      BY <2>3 DEF Start
    <3>3. QED BY <2>1, <2>3, <3>1, <3>2 DEF DoneOK
  <2>4. QED BY <2>2, <2>3
<1>4. ASSUME NEW D \in SUBSET S, D # {},
             DoneOK(lose, t, it[D \ {Pick(D)}], a, D \ {Pick(D)})
      PROVE  DoneOK(lose, t, it[D], a, D)
  <2>1. PICK p, C : p = Pick(D) /\ C = D \ {p}
    OBVIOUS
  <2>2. p \in D /\ D = C \cup {p} /\ C \in SUBSET S /\ p \notin C
    BY <1>4, <2>1 DEF Pick
  <2>3. /\ IsFiniteSet(C) /\ Cardinality(C) \in Nat /\ C \in SUBSET Prefixes
        /\ p \in Prefixes \ C
    BY <1>1, <2>2
  <2>4. it[D] = One(lose, t, a, p, it[C])
    BY <1>2, <1>4, <2>1 DEF FoldStep
  <2>5. AdjsOK(t.adj) /\ FreeCount(t) \in Nat
    BY FreeFinite DEF TabOK
  <2>6. Cardinality(C) + 1 <= Cardinality(Prefixes)
    <3>1. Cardinality(D) = Cardinality(C) + 1
      BY <2>2, <2>3, FS_AddElement
    <3>2. D \in SUBSET Prefixes
      OBVIOUS
    <3>3. Cardinality(D) <= Cardinality(Prefixes)
      BY <3>2, FS_Subset, FibTablesAssumption
    <3>4. QED BY <3>1, <3>3
  <2>7. PICK s : s = it[C]
    OBVIOUS
  <2>8. Cardinality(Prefixes) \in Nat
    BY FS_CardinalityType, FibTablesAssumption
  <2>9. CASE lose
    <3>1. LostOK(t, s, a, C)
      BY <1>4, <2>1, <2>7, <2>9 DEF DoneOK
    <3>2. FreeCount(s) > 0
      <4>1. FreeCount(s) + Cardinality(C) >= FreeCount(t) /\ TabOK(s, {a})
        BY <3>1 DEF LostOK
      <4>2. FreeCount(s) \in Nat
        BY <4>1, FreeFinite DEF TabOK
      <4>3. QED BY <2>3, <2>5, <2>6, <2>8, <4>1, <4>2
    <3>3. PICK s1 : s1 = LoseRoute(t, a, p, s)
      OBVIOUS
    <3>4. LostOK(t, s1, a, C \cup {p})
      BY <2>3, <2>5, <3>1, <3>2, <3>3, LoseStep
    <3>5. it[D] = s1
      BY <2>4, <2>7, <2>9, <3>3 DEF One
    <3>6. QED BY <2>2, <2>9, <3>4, <3>5 DEF DoneOK
  <2>10. CASE ~lose
    <3>1. GainedOK(t, s, a, C)
      BY <1>4, <2>1, <2>7, <2>10 DEF DoneOK
    <3>2. FreeCount(s) > 0
      <4>1. FreeCount(s) + Cardinality(C) >= FreeCount(t) /\ TabOK(s, {})
        BY <3>1 DEF GainedOK
      <4>2. FreeCount(s) \in Nat
        BY <4>1, FreeFinite DEF TabOK
      <4>3. QED BY <2>3, <2>5, <2>6, <2>8, <4>1, <4>2
    <3>3. PICK s1 : s1 = GainRoute(t, a, p, s)
      OBVIOUS
    <3>4. GainedOK(t, s1, a, C \cup {p})
      BY <2>3, <2>5, <3>1, <3>2, <3>3, GainStep
    <3>5. it[D] = s1
      BY <2>4, <2>7, <2>10, <3>3 DEF One
    <3>6. QED BY <2>2, <2>10, <3>4, <3>5 DEF DoneOK
  <2>11. QED BY <2>9, <2>10
<1>5. Bad = {}
  <2>1. ASSUME Bad # {} PROVE FALSE
    <3>1. PICK n \in Bad : \A m \in Bad : n <= m
      BY <2>1, LeastOfNat
    <3>2. PICK D \in SUBSET S : Cardinality(D) = n /\ ~DoneOK(lose, t, it[D], a, D)
      OBVIOUS
    <3>3. D # {}
      BY <1>3, <3>2
    <3>4. PICK C : C = D \ {Pick(D)}
      OBVIOUS
    <3>5. Pick(D) \in D /\ C \in SUBSET S
      BY <3>3, <3>4 DEF Pick
    <3>6. Cardinality(C) = n - 1 /\ Cardinality(C) \in Nat
      <4>1. IsFiniteSet(D) /\ Cardinality(C) \in Nat
        BY <1>1, <3>5
      <4>2. QED BY <3>2, <3>4, <3>5, <4>1, FS_RemoveElement
    <3>7. n - 1 \notin Bad
      BY <3>1
    <3>8. DoneOK(lose, t, it[C], a, C)
      BY <3>5, <3>6, <3>7
    <3>9. DoneOK(lose, t, it[D], a, D)
      BY <1>4, <3>3, <3>4, <3>8
    <3>10. QED BY <3>2, <3>9
  <2>2. QED BY <2>1
<1>6. Cardinality(S) \in Nat /\ Cardinality(S) \notin Bad
  BY <1>1, <1>5
<1>7. QED BY <1>6

(* The two loops as a whole.                                               *)
LEMMA LoseNeighborOK ==
  ASSUME NEW t, TabOK(t, {}), NEW a \in DOMAIN t.nbr, DOMAIN t.nh[a] \subseteq Prefixes,
         FreeCount(t) >= Cardinality(Prefixes)
  PROVE  LostOK(t, LoseNeighbor(t, a), a, DOMAIN t.nh[a])
<1>1. IsFiniteSet(DOMAIN t.nh[a])
  BY FS_Subset, FibTablesAssumption
<1>2. PICK it : /\ IsFold(it, Todo(TRUE, t, a), Start(TRUE, t, a), TRUE, t, a)
                /\ LoseNeighbor(t, a) = it[Todo(TRUE, t, a)]
  BY <1>1, LoseIs
<1>3. PICK S : S = Todo(TRUE, t, a)
  OBVIOUS
<1>4. S = DOMAIN t.nh[a]
  BY <1>3 DEF Todo
<1>5. DoneOK(TRUE, t, it[S], a, S)
  <2>1. IsFold(it, S, Start(TRUE, t, a), TRUE, t, a) /\ S \subseteq Prefixes
    BY <1>2, <1>3, <1>4
  <2>2. QED BY <1>3, <2>1, FoldKeeps
<1>6. QED BY <1>2, <1>3, <1>4, <1>5 DEF DoneOK

(* The loop of makeReachable.                                              *)
LEMMA MakeReachableOK ==
  ASSUME NEW t, TabOK(t, {}), NEW a \in DOMAIN t.nbr,
         FreeCount(t) >= Cardinality(Prefixes)
  PROVE  GainedOK(t, MakeReachable(t, a), a, {p \in Prefixes : <<a, p>> \in DOMAIN t.unreach})
<1>1. PICK it : /\ IsFold(it, Todo(FALSE, t, a), Start(FALSE, t, a), FALSE, t, a)
                /\ MakeReachable(t, a) = it[Todo(FALSE, t, a)]
  BY GainIs
<1>2. PICK S : S = Todo(FALSE, t, a)
  OBVIOUS
<1>3. S = {p \in Prefixes : <<a, p>> \in DOMAIN t.unreach}
  BY <1>2 DEF Todo
<1>4. DoneOK(FALSE, t, it[S], a, S)
  <2>1. IsFold(it, S, Start(FALSE, t, a), FALSE, t, a) /\ S \subseteq Prefixes
    BY <1>1, <1>2, <1>3
  <2>2. QED BY <1>2, <2>1, FoldKeeps
<1>5. QED BY <1>1, <1>2, <1>3, <1>4 DEF DoneOK
-----------------------------------------------------------------------------
(* A prefix that is left alone keeps its records.                          *)
LEMMA PrefixSame ==
  ASSUME NEW t, NEW s, NEW q, NEW r, NEW o, PrefixOK(t, q, r, o),
         s.nbr = t.nbr, Via(s, q) = Via(t, q), Waiting(s, q) = Waiting(t, q),
         \A b \in Addrs : q \in DOMAIN s.nh[b] => q \in DOMAIN t.nh[b]
  PROVE  PrefixOK(s, q, r, o)
<1>1. Using(s, q) = Using(t, q)
  BY DEF Using
<1>2. QED BY <1>1 DEF PrefixOK

(* A route message is about one prefix and one address.                    *)
LEMMA RecordsMoved ==
  ASSUME NEW t, NEW s, NEW rb, NEW ov, NEW rb2, NEW ov2, RecordsOK(t, rb, ov),
         NEW p \in Prefixes, NEW a \in Addrs, s.nbr = t.nbr,
         \A q \in Prefixes \ {p} : /\ rb2[q] = rb[q] /\ ov2[q] = ov[q]
                                   /\ Via(s, q) = Via(t, q)
                                   /\ Waiting(s, q) = Waiting(t, q),
         DOMAIN s.unreach \subseteq Addrs \X Prefixes,
         \A b \in Addrs \ {a} : s.nh[b] = t.nh[b],
         DOMAIN s.nh[a] \subseteq DOMAIN t.nh[a] \cup {p},
         a \notin DOMAIN t.nbr => DOMAIN s.nh[a] = {},
         PrefixOK(s, p, rb2[p], ov2[p])
  PROVE  RecordsOK(s, rb2, ov2)
<1>1. ASSUME NEW b \in Addrs PROVE DOMAIN s.nh[b] \subseteq DOMAIN t.nh[b] \cup {p}
  <2>1. CASE b = a
    BY <2>1
  <2>2. CASE b # a
    <3>1. s.nh[b] = t.nh[b]
      BY <2>2
    <3>2. QED BY <3>1
  <2>3. QED BY <2>1, <2>2
<1>2. \A b \in Addrs : DOMAIN s.nh[b] \subseteq Prefixes
  BY <1>1 DEF RecordsOK
<1>3. ASSUME NEW b \in Addrs \ DOMAIN s.nbr PROVE DOMAIN s.nh[b] = {}
  <2>1. CASE b = a
    BY <1>3, <2>1
  <2>2. CASE b # a
    <3>1. s.nh[b] = t.nh[b]
      BY <2>2
    <3>2. DOMAIN t.nh[b] = {}
      BY <1>3 DEF RecordsOK
    <3>3. QED BY <3>1, <3>2
  <2>3. QED BY <2>1, <2>2
<1>4. ASSUME NEW q \in Prefixes PROVE PrefixOK(s, q, rb2[q], ov2[q])
  <2>1. CASE q = p
    BY <2>1
  <2>2. CASE q # p
    <3>1. PrefixOK(t, q, rb[q], ov[q])
      BY DEF RecordsOK
    <3>2. \A b \in Addrs : q \in DOMAIN s.nh[b] => q \in DOMAIN t.nh[b]
      BY <1>1, <2>2
    <3>3. Via(s, q) = Via(t, q) /\ Waiting(s, q) = Waiting(t, q)
      BY <2>2
    <3>4. PrefixOK(s, q, rb[q], ov[q])
      BY <3>1, <3>2, <3>3, PrefixSame
    <3>5. rb2[q] = rb[q] /\ ov2[q] = ov[q]
      BY <2>2
    <3>6. QED BY <3>4, <3>5
  <2>3. QED BY <2>1, <2>2
<1>5. QED BY <1>2, <1>3, <1>4 DEF RecordsOK

(* What the RIB and the replacing messages say is only read at prefixes.   *)
InvOf(t, rb, ov) ==
  /\ TabOK(t, {}) /\ RecordsOK(t, rb, ov)
  /\ rb = [p \in Prefixes |-> rb[p]] /\ ov = [p \in Prefixes |-> ov[p]]

(* The invariant, said of the state.                                       *)
LEMMA InvIs == FibTabInv <=> InvOf(tab, rib, overridden)
BY DEF FibTabInv, InvOf

(* u is t, but route p may have been forgotten.                            *)
Cleared(t, u, p) ==
  /\ TabOK(u, {}) /\ u.nbr = t.nbr /\ u.nh = t.nh /\ u.unreach = t.unreach
  /\ \A q \in Prefixes \ {p} : Via(u, q) = Via(t, q)
  /\ Via(u, p) \subseteq Via(t, p)

(* A known neighbour gets or loses a route.  From t, route p of which may  *)
(* have been replaced by nothing in u first.                               *)
LEMMA KnownKeeps ==
  ASSUME NEW t, NEW u, NEW rb, NEW ov, InvOf(t, rb, ov), NEW p \in Prefixes,
         NEW a \in DOMAIN t.nbr, NEW w, NEW isDel \in BOOLEAN,
         Cleared(t, u, p), FreeAdjs(u) # {},
         NEW s, s = AddDelRouteNextHop(u, p, a, w, isDel),
         NEW r, NEW o, r \subseteq Addrs,
         r \cap DOMAIN t.nbr \subseteq
           {b \in DOMAIN t.nbr : t.nbr[b] \in Via(u, p)} \cup {a},
         r \ DOMAIN t.nbr \subseteq rb[p],
         isDel => a \notin r /\ rb[p] \cup ov[p] \subseteq r \cup o \cup {a}
                  /\ t.nbr[a] \in Via(u, p),
         ~isDel => a \in r /\ rb[p] \cup ov[p] \subseteq r \cup o
  PROVE  InvOf(s, [rb EXCEPT ![p] = r], [ov EXCEPT ![p] = o])
<1>1. /\ TabOK(u, {}) /\ u.nbr = t.nbr /\ u.nh = t.nh /\ u.unreach = t.unreach
      /\ \A q \in Prefixes \ {p} : Via(u, q) = Via(t, q)
      /\ Via(u, p) \subseteq Via(t, p) /\ a \in DOMAIN u.nbr
  BY DEF Cleared
<1>2. Changed(u, s, p, a, isDel, {})
  BY <1>1, RouteChange
<1>3. /\ TabOK(s, {}) /\ s.nbr = t.nbr /\ s.unreach = t.unreach
      /\ \A b \in Addrs \ {a} : s.nh[b] = t.nh[b]
      /\ DOMAIN s.nh[a] \subseteq DOMAIN t.nh[a] \cup {p}
      /\ isDel => /\ DOMAIN s.nh[a] \subseteq DOMAIN t.nh[a]
                  /\ p \notin DOMAIN s.nh[a]
      /\ \A q \in Prefixes \ {p} : Via(s, q) = Via(t, q)
      /\ Via(s, p) = IF isDel THEN Via(u, p) \ {t.nbr[a]} ELSE Via(u, p) \cup {t.nbr[a]}
  BY <1>1, <1>2 DEF Changed
<1>4. TabOK(t, {}) /\ RecordsOK(t, rb, ov) /\ a \in Addrs
      /\ DOMAIN rb = Prefixes /\ DOMAIN ov = Prefixes
  <2>1. TabOK(t, {}) /\ RecordsOK(t, rb, ov)
        /\ DOMAIN rb = Prefixes /\ DOMAIN ov = Prefixes
    BY DEF InvOf
  <2>2. NbrsOK(t.adj, t.nbr)
    BY <2>1 DEF TabOK
  <2>3. QED BY <2>1, <2>2 DEF NbrsOK
<1>5. \A b \in DOMAIN t.nbr : t.nbr[b] = t.nbr[a] => b = a
  BY <1>4 DEF TabOK, NbrsOK
<1>6. \A q \in Prefixes : Waiting(s, q) = Waiting(t, q)
  BY <1>3 DEF Waiting
<1>7. PICK V : V = {b \in DOMAIN t.nbr : t.nbr[b] \in Via(u, p)}
  OBVIOUS
<1>8. Using(s, p) = IF isDel THEN V \ {a} ELSE V \cup {a}
  BY <1>3, <1>5, <1>7 DEF Using
<1>9. V \subseteq Using(t, p)
  BY <1>1, <1>7 DEF Using
<1>10. PrefixOK(t, p, rb[p], ov[p])
  BY <1>4 DEF RecordsOK
<1>11. PrefixOK(s, p, r, o)
  <2>1. r \cap DOMAIN s.nbr \subseteq Using(s, p)
    BY <1>3, <1>7, <1>8
  <2>2. r \ DOMAIN s.nbr \subseteq Waiting(s, p)
    BY <1>3, <1>6, <1>10 DEF PrefixOK
  <2>3. a \notin Waiting(s, p)
    BY <1>6, <1>10 DEF PrefixOK
  <2>4. Using(t, p) \cup Waiting(s, p) \subseteq rb[p] \cup ov[p]
    BY <1>6, <1>10 DEF PrefixOK
  <2>5. Using(s, p) \cup Waiting(s, p) \subseteq r \cup o
    BY <1>8, <1>9, <2>3, <2>4
  <2>6. Waiting(s, p) \cap DOMAIN s.nbr = {}
    BY <1>3, <1>6, <1>10 DEF PrefixOK
  <2>7. ASSUME NEW b \in Addrs, p \in DOMAIN s.nh[b] PROVE b \in r \cup o
    <3>1. CASE b = a
      BY <1>3, <2>7, <3>1
    <3>2. CASE b # a
      <4>1. p \in DOMAIN t.nh[b]
        BY <1>3, <2>7, <3>2
      <4>2. b \in rb[p] \cup ov[p]
        BY <1>10, <4>1 DEF PrefixOK
      <4>3. QED BY <3>2, <4>2
    <3>3. QED BY <3>1, <3>2
  <2>8. QED BY <2>1, <2>2, <2>5, <2>6, <2>7 DEF PrefixOK
<1>12. PICK rb2, ov2 : rb2 = [rb EXCEPT ![p] = r] /\ ov2 = [ov EXCEPT ![p] = o]
  OBVIOUS
<1>13. /\ rb2 = [q \in Prefixes |-> rb2[q]] /\ ov2 = [q \in Prefixes |-> ov2[q]]
       /\ rb2[p] = r /\ ov2[p] = o
       /\ \A q \in Prefixes \ {p} : rb2[q] = rb[q] /\ ov2[q] = ov[q]
  BY <1>4, <1>12
<1>14. DOMAIN s.unreach \subseteq Addrs \X Prefixes
  BY <1>3, <1>4 DEF RecordsOK
<1>15. PrefixOK(s, p, rb2[p], ov2[p])
  BY <1>11, <1>13
<1>16. \A q \in Prefixes \ {p} : /\ rb2[q] = rb[q] /\ ov2[q] = ov[q]
                                 /\ Via(s, q) = Via(t, q)
                                 /\ Waiting(s, q) = Waiting(t, q)
  BY <1>3, <1>6, <1>13
<1>17. RecordsOK(s, rb2, ov2)
  BY <1>3, <1>4, <1>14, <1>15, <1>16, RecordsMoved
<1>18. QED BY <1>3, <1>12, <1>13, <1>17 DEF InvOf

(* The same for an address that is no known neighbour: it waits, or no     *)
(* longer does.                                                            *)
LEMMA UnknownKeeps ==
  ASSUME NEW t, NEW u, NEW rb, NEW ov, InvOf(t, rb, ov), NEW p \in Prefixes,
         NEW a \in Addrs \ DOMAIN t.nbr, NEW w, NEW isDel \in BOOLEAN,
         Cleared(t, u, p),
         NEW s, s = AddDelRouteNextHop(u, p, a, w, isDel),
         NEW r, NEW o, r \subseteq Addrs,
         r \cap DOMAIN t.nbr \subseteq {b \in DOMAIN t.nbr : t.nbr[b] \in Via(u, p)},
         r \ DOMAIN t.nbr \subseteq rb[p] \cup {a},
         isDel => a \notin r /\ rb[p] \cup ov[p] \subseteq r \cup o \cup {a},
         ~isDel => a \in r /\ rb[p] \cup ov[p] \subseteq r \cup o
  PROVE  InvOf(s, [rb EXCEPT ![p] = r], [ov EXCEPT ![p] = o])
<1>1. /\ TabOK(u, {}) /\ u.nbr = t.nbr /\ u.nh = t.nh /\ u.unreach = t.unreach
      /\ \A q \in Prefixes \ {p} : Via(u, q) = Via(t, q)
      /\ Via(u, p) \subseteq Via(t, p)
  BY DEF Cleared
<1>2. PICK U : U = IF isDel THEN Forget(t.unreach, <<a, p>>)
                   ELSE Bind(t.unreach, <<a, p>>, w)
  OBVIOUS
<1>3. s = [u EXCEPT !.unreach = U]
  <2>1. s = AddDelUnreachable(u, p, a, w, isDel)
    BY <1>1 DEF AddDelRouteNextHop
  <2>2. QED BY <1>1, <1>2, <2>1 DEF AddDelUnreachable
<1>4. TabOK(s, {}) /\ AsBefore(u, s) /\ s.unreach = U
  BY <1>1, <1>3, SetUnreach
<1>5. /\ s.nbr = t.nbr /\ s.nh = t.nh
      /\ \A q \in Prefixes \ {p} : Via(s, q) = Via(t, q)
      /\ Via(s, p) = Via(u, p)
  BY <1>1, <1>4 DEF AsBefore
<1>6. /\ TabOK(t, {}) /\ RecordsOK(t, rb, ov) /\ a \in Addrs
      /\ DOMAIN rb = Prefixes /\ DOMAIN ov = Prefixes
  BY DEF InvOf
<1>7. DOMAIN U = IF isDel THEN DOMAIN t.unreach \ {<<a, p>>}
                 ELSE DOMAIN t.unreach \cup {<<a, p>>}
  BY <1>2 DEF Forget, Bind
<1>8. /\ \A q \in Prefixes \ {p} : Waiting(s, q) = Waiting(t, q)
      /\ Waiting(s, p) = IF isDel THEN Waiting(t, p) \ {a} ELSE Waiting(t, p) \cup {a}
  BY <1>4, <1>7 DEF Waiting
<1>9. PICK V : V = {b \in DOMAIN t.nbr : t.nbr[b] \in Via(u, p)}
  OBVIOUS
<1>10. Using(s, p) = V /\ V \subseteq Using(t, p) /\ a \notin V
  BY <1>1, <1>5, <1>9 DEF Using
<1>11. PrefixOK(t, p, rb[p], ov[p]) /\ DOMAIN t.nh[a] = {}
  BY <1>6 DEF RecordsOK
<1>12. PrefixOK(s, p, r, o)
  <2>1. r \cap DOMAIN s.nbr \subseteq Using(s, p)
    BY <1>5, <1>9, <1>10
  <2>2. r \ DOMAIN s.nbr \subseteq Waiting(s, p)
    BY <1>5, <1>8, <1>11 DEF PrefixOK
  <2>3. Using(t, p) \cup Waiting(t, p) \subseteq rb[p] \cup ov[p]
    BY <1>11 DEF PrefixOK
  <2>4. Using(s, p) \cup Waiting(s, p) \subseteq r \cup o
    BY <1>8, <1>10, <2>3
  <2>5. Waiting(s, p) \cap DOMAIN s.nbr = {}
    BY <1>5, <1>8, <1>11 DEF PrefixOK
  <2>6. ASSUME NEW b \in Addrs, p \in DOMAIN s.nh[b] PROVE b \in r \cup o
    <3>1. b # a /\ p \in DOMAIN t.nh[b]
      BY <1>5, <1>11, <2>6
    <3>2. b \in rb[p] \cup ov[p]
      BY <1>11, <3>1 DEF PrefixOK
    <3>3. QED BY <3>1, <3>2
  <2>7. QED BY <2>1, <2>2, <2>4, <2>5, <2>6 DEF PrefixOK
<1>13. PICK rb2, ov2 : rb2 = [rb EXCEPT ![p] = r] /\ ov2 = [ov EXCEPT ![p] = o]
  OBVIOUS
<1>14. /\ rb2 = [q \in Prefixes |-> rb2[q]] /\ ov2 = [q \in Prefixes |-> ov2[q]]
       /\ rb2[p] = r /\ ov2[p] = o
       /\ \A q \in Prefixes \ {p} : rb2[q] = rb[q] /\ ov2[q] = ov[q]
  BY <1>6, <1>13
<1>15. DOMAIN s.unreach \subseteq Addrs \X Prefixes
  BY <1>4, <1>6, <1>7 DEF RecordsOK
<1>16. PrefixOK(s, p, rb2[p], ov2[p])
  BY <1>12, <1>14
<1>17. \A q \in Prefixes \ {p} : /\ rb2[q] = rb[q] /\ ov2[q] = ov[q]
                                 /\ Via(s, q) = Via(t, q)
                                 /\ Waiting(s, q) = Waiting(t, q)
  BY <1>5, <1>8, <1>14
<1>18. /\ \A b \in Addrs \ {a} : s.nh[b] = t.nh[b]
       /\ DOMAIN s.nh[a] \subseteq DOMAIN t.nh[a] \cup {p}
       /\ DOMAIN s.nh[a] = {}
  BY <1>5, <1>11
<1>19. RecordsOK(s, rb2, ov2)
  BY <1>5, <1>6, <1>15, <1>16, <1>17, <1>18, RecordsMoved
<1>20. QED BY <1>4, <1>13, <1>14, <1>19 DEF InvOf

(* A replacing message forgets the route first.                            *)
LEMMA RouteForgotten ==
  ASSUME NEW t, TabOK(t, {}), NEW p, NEW u, u = [t EXCEPT !.route = Forget(@, p)]
  PROVE  /\ TabOK(u, {}) /\ u.nbr = t.nbr /\ u.nh = t.nh /\ u.unreach = t.unreach
         /\ FreeAdjs(u) = FreeAdjs(t) /\ Via(u, p) = {}
         /\ \A q \in Prefixes \ {p} : Via(u, q) = Via(t, q)
<1>1. PICK R : R = Forget(t.route, p)
  OBVIOUS
<1>2. IsTab(t) /\ u = [t EXCEPT !.route = R]
  BY <1>1 DEF TabOK
<1>3. /\ IsTab(u) /\ u.adj = t.adj /\ u.hash = t.hash /\ u.route = R
      /\ u.nbr = t.nbr /\ u.nh = t.nh /\ u.unreach = t.unreach
      /\ u.glean = t.glean /\ u.panicked = t.panicked
  BY <1>2 DEF IsTab
<1>4. /\ DOMAIN R = DOMAIN t.route \ {p}
      /\ \A q \in DOMAIN R : R[q] = t.route[q]
  BY <1>1 DEF Forget
<1>5. RoutesOK(t.adj, t.route)
  BY DEF TabOK
<1>6. ASSUME NEW i \in Blocks(t.adj)
      PROVE  Cardinality(Users(R, i)) <= t.adj[i].ref
  <2>1. PICK S, T : S = Users(t.route, i) /\ T = Users(R, i)
    OBVIOUS
  <2>2. T \in SUBSET S /\ S \in SUBSET Prefixes
    BY <1>4, <1>5, <2>1 DEF Users, RoutesOK
  <2>3. IsFiniteSet(S)
    BY <2>2, FS_Subset, FibTablesAssumption
  <2>4. IsFiniteSet(T) /\ Cardinality(T) <= Cardinality(S)
    BY <2>2, <2>3, FS_Subset
  <2>5. Cardinality(S) \in Nat /\ Cardinality(T) \in Nat
    BY <2>3, <2>4, FS_CardinalityType
  <2>6. Cardinality(S) <= t.adj[i].ref
    BY <1>5, <2>1 DEF RoutesOK
  <2>7. t.adj[i].ref \in Int
    BY BlockFacts DEF TabOK
  <2>8. QED BY <2>1, <2>4, <2>5, <2>6, <2>7
<1>7. RoutesOK(t.adj, R)
  <2>1. DOMAIN R \subseteq Prefixes /\ \A q \in DOMAIN R : R[q] \in Blocks(t.adj)
    BY <1>4, <1>5 DEF RoutesOK
  <2>2. QED BY <1>6, <2>1 DEF RoutesOK
<1>8. UsesOK(t.adj, R, t.nbr, t.nh, {})
  <2>1. ASSUME NEW q \in DOMAIN R, NEW x \in DOMAIN t.adj[R[q]].given
        PROVE  \E b \in DOMAIN t.nbr : t.nbr[b] = x /\ (q \in DOMAIN t.nh[b] \/ b \in {})
    <3>1. q \in DOMAIN t.route /\ x \in DOMAIN t.adj[t.route[q]].given
      BY <1>4, <2>1
    <3>2. QED BY <3>1 DEF TabOK, UsesOK
  <2>2. QED BY <2>1 DEF UsesOK
<1>9. TabOK(u, {})
  BY <1>3, <1>7, <1>8 DEF TabOK
<1>10. FreeAdjs(u) = FreeAdjs(t) /\ Via(u, p) = {}
       /\ \A q \in Prefixes \ {p} : Via(u, q) = Via(t, q)
  BY <1>3, <1>4 DEF FreeAdjs, Via
<1>11. QED BY <1>3, <1>9, <1>10
-----------------------------------------------------------------------------
(* The invariant, said of the next state.                                  *)
LEMMA InvIsNext == FibTabInv' <=> InvOf(tab', rib', overridden')
BY DEF FibTabInv, InvOf

(* The bound of the model leaves enough adjacencies for a step.            *)
LEMMA RoomFree ==
  ASSUME FibTabInv, NEW n \in Nat, Room(n)
  PROVE  /\ FreeCount(tab) >= n /\ FreeCount(tab) \in Nat
         /\ n > 0 => FreeAdjs(tab) # {}
<1>1. AdjsOK(tab.adj)
  BY DEF FibTabInv, TabOK
<1>2. QED BY <1>1, FreeFinite DEF Room, FreeCount

(* Main.AddDelRouteNextHop for a route that is added ...                   *)
LEMMA RouteAddKeeps ==
  ASSUME FibTabInv, NEW p \in Prefixes, NEW a \in Addrs, NEW w, RouteAdd(p, a, w)
  PROVE  FibTabInv'
<1>1. PICK t, rb, ov, s : t = tab /\ rb = rib /\ ov = overridden /\ s = tab'
  OBVIOUS
<1>2. PICK r : r = rb[p] \cup {a}
  OBVIOUS
<1>3. InvOf(t, rb, ov)
  BY <1>1, InvIs
<1>4. /\ s = AddDelRouteNextHop(t, p, a, w, FALSE)
      /\ rib' = [rb EXCEPT ![p] = r] /\ overridden' = ov
  BY <1>1, <1>2 DEF RouteAdd
<1>5. FreeAdjs(t) # {}
  BY <1>1, RoomFree DEF RouteAdd
<1>6. /\ TabOK(t, {}) /\ PrefixOK(t, p, rb[p], ov[p]) /\ DOMAIN ov = Prefixes
      /\ ov = [q \in Prefixes |-> ov[q]]
  BY <1>3 DEF InvOf, RecordsOK
<1>7. /\ r \subseteq Addrs /\ a \in r
      /\ r \cap DOMAIN t.nbr \subseteq
           {b \in DOMAIN t.nbr : t.nbr[b] \in Via(t, p)} \cup {a}
      /\ r \ DOMAIN t.nbr \subseteq rb[p] \cup {a}
      /\ rb[p] \cup ov[p] \subseteq r \cup ov[p]
  BY <1>2, <1>6 DEF PrefixOK, Using
<1>8. Cleared(t, t, p)
  BY <1>6 DEF Cleared
<1>9. InvOf(s, [rb EXCEPT ![p] = r], [ov EXCEPT ![p] = ov[p]])
  <2>1. CASE a \in DOMAIN t.nbr
    <3>1. r \ DOMAIN t.nbr \subseteq rb[p]
      BY <1>7, <2>1
    <3>2. QED BY <1>3, <1>4, <1>5, <1>7, <1>8, <2>1, <3>1, KnownKeeps, ZenonT(30)
  <2>2. CASE a \notin DOMAIN t.nbr
    <3>1. r \cap DOMAIN t.nbr \subseteq {b \in DOMAIN t.nbr : t.nbr[b] \in Via(t, p)}
      BY <1>7, <2>2
    <3>2. QED BY <1>3, <1>4, <1>7, <1>8, <2>2, <3>1, UnknownKeeps, ZenonT(30)
  <2>3. QED BY <2>1, <2>2
<1>10. [ov EXCEPT ![p] = ov[p]] = ov
  BY <1>6
<1>11. InvOf(tab', rib', overridden')
  BY <1>1, <1>4, <1>9, <1>10
<1>12. QED BY <1>11, InvIsNext

(* ... for one that is deleted ...                                         *)
LEMMA RouteDelKeeps ==
  ASSUME FibTabInv, NEW p \in Prefixes, NEW a \in Addrs, RouteDel(p, a)
  PROVE  FibTabInv'
<1>1. PICK t, rb, ov, s : t = tab /\ rb = rib /\ ov = overridden /\ s = tab'
  OBVIOUS
<1>2. PICK r, o : r = rb[p] \ {a} /\ o = ov[p] \ {a}
  OBVIOUS
<1>3. InvOf(t, rb, ov)
  BY <1>1, InvIs
<1>4. /\ s = AddDelRouteNextHop(t, p, a, 0, TRUE) /\ a \in rb[p]
      /\ rib' = [rb EXCEPT ![p] = r] /\ overridden' = [ov EXCEPT ![p] = o]
  BY <1>1, <1>2 DEF RouteDel
<1>5. FreeAdjs(t) # {}
  BY <1>1, RoomFree DEF RouteDel
<1>6. TabOK(t, {}) /\ PrefixOK(t, p, rb[p], ov[p])
  BY <1>3 DEF InvOf, RecordsOK
<1>7. /\ r \subseteq Addrs /\ a \notin r
      /\ r \cap DOMAIN t.nbr \subseteq {b \in DOMAIN t.nbr : t.nbr[b] \in Via(t, p)}
      /\ r \ DOMAIN t.nbr \subseteq rb[p]
      /\ rb[p] \cup ov[p] \subseteq r \cup o \cup {a}
      /\ a \in DOMAIN t.nbr => t.nbr[a] \in Via(t, p)
  BY <1>2, <1>4, <1>6 DEF PrefixOK, Using
<1>8. Cleared(t, t, p)
  BY <1>6 DEF Cleared
<1>9. InvOf(s, [rb EXCEPT ![p] = r], [ov EXCEPT ![p] = o])
  <2>1. CASE a \in DOMAIN t.nbr
    <3>1. r \cap DOMAIN t.nbr \subseteq
            {b \in DOMAIN t.nbr : t.nbr[b] \in Via(t, p)} \cup {a}
      BY <1>7
    <3>2. QED BY <1>3, <1>4, <1>5, <1>7, <1>8, <2>1, <3>1, KnownKeeps, ZenonT(30)
  <2>2. CASE a \notin DOMAIN t.nbr
    <3>1. r \ DOMAIN t.nbr \subseteq rb[p] \cup {a}
      BY <1>7
    <3>2. QED BY <1>3, <1>4, <1>7, <1>8, <2>2, <3>1, UnknownKeeps, ZenonT(30)
  <2>3. QED BY <2>1, <2>2
<1>10. InvOf(tab', rib', overridden')
  BY <1>1, <1>4, <1>9
<1>11. QED BY <1>10, InvIsNext

(* ... and for one that is replaced.                                       *)
LEMMA RouteReplaceKeeps ==
  ASSUME FibTabInv, NEW p \in Prefixes, NEW a \in Addrs, NEW w, RouteReplace(p, a, w)
  PROVE  FibTabInv'
<1>1. PICK t, rb, ov, s : t = tab /\ rb = rib /\ ov = overridden /\ s = tab'
  OBVIOUS
<1>2. PICK r, o : r = {a} /\ o = ov[p] \cup (rb[p] \ {a})
  OBVIOUS
<1>3. InvOf(t, rb, ov)
  BY <1>1, InvIs
<1>4. PICK u : u = [t EXCEPT !.route = Forget(@, p)]
  OBVIOUS
<1>5. /\ s = AddDelRouteNextHop(u, p, a, w, FALSE)
      /\ rib' = [rb EXCEPT ![p] = r] /\ overridden' = [ov EXCEPT ![p] = o]
  BY <1>1, <1>2, <1>4 DEF RouteReplace
<1>6. TabOK(t, {})
  BY <1>3 DEF InvOf
<1>7. /\ TabOK(u, {}) /\ u.nbr = t.nbr /\ u.nh = t.nh /\ u.unreach = t.unreach
      /\ FreeAdjs(u) = FreeAdjs(t) /\ Via(u, p) = {}
      /\ \A q \in Prefixes \ {p} : Via(u, q) = Via(t, q)
  BY <1>4, <1>6, RouteForgotten
<1>8. FreeAdjs(u) # {}
  BY <1>1, <1>7, RoomFree DEF RouteReplace
<1>9. /\ r \subseteq Addrs /\ a \in r /\ Via(u, p) \subseteq Via(t, p)
      /\ r \ DOMAIN t.nbr \subseteq rb[p] \cup {a}
      /\ rb[p] \cup ov[p] \subseteq r \cup o
  BY <1>2, <1>7
<1>10. Cleared(t, u, p)
  BY <1>7, <1>9 DEF Cleared
<1>11. InvOf(s, [rb EXCEPT ![p] = r], [ov EXCEPT ![p] = o])
  <2>1. CASE a \in DOMAIN t.nbr
    <3>1. /\ r \ DOMAIN t.nbr \subseteq rb[p]
          /\ r \cap DOMAIN t.nbr \subseteq
               {b \in DOMAIN t.nbr : t.nbr[b] \in Via(u, p)} \cup {a}
      BY <1>2, <2>1
    <3>2. QED BY <1>3, <1>5, <1>8, <1>9, <1>10, <2>1, <3>1, KnownKeeps, ZenonT(30)
  <2>2. CASE a \notin DOMAIN t.nbr
    <3>1. r \cap DOMAIN t.nbr \subseteq {b \in DOMAIN t.nbr : t.nbr[b] \in Via(u, p)}
      BY <1>2, <2>2
    <3>2. QED BY <1>3, <1>5, <1>9, <1>10, <2>2, <3>1, UnknownKeeps, ZenonT(30)
  <2>3. QED BY <2>1, <2>2
<1>12. InvOf(tab', rib', overridden')
  BY <1>1, <1>5, <1>11
<1>13. QED BY <1>12, InvIsNext

(* The adjacency of a new or known neighbour: blocks are left alone.       *)
WithNbr(t, a, i) ==
  [t EXCEPT !.adj[i] = [kind |-> "rewrite"], !.nbr = Bind(@, a, i)]

(* Setting it leaves blocks and routes as they are.                        *)
LEMMA NeighborSet ==
  ASSUME NEW t, TabOK(t, {}), NEW a \in Addrs, NEW i,
         \/ a \in DOMAIN t.nbr /\ i = t.nbr[a]
         \/ a \notin DOMAIN t.nbr /\ i \in FreeAdjs(t),
         NEW u, u = WithNbr(t, a, i)
  PROVE  /\ TabOK(u, {}) /\ u.nh = t.nh /\ u.unreach = t.unreach
         /\ DOMAIN u.nbr = DOMAIN t.nbr \cup {a} /\ u.nbr[a] = i
         /\ \A b \in DOMAIN t.nbr : u.nbr[b] = t.nbr[b]
         /\ \A q : Via(u, q) = Via(t, q)
         /\ FreeAdjs(t) \ {i} \subseteq FreeAdjs(u)
<1>1. PICK A, N : /\ A = [t.adj EXCEPT ![i] = [kind |-> "rewrite"]]
                  /\ N = Bind(t.nbr, a, i)
  OBVIOUS
<1>2. IsTab(t) /\ u = [t EXCEPT !.adj = A, !.nbr = N]
  BY <1>1 DEF TabOK, WithNbr
<1>3. /\ IsTab(u) /\ u.adj = A /\ u.hash = t.hash /\ u.route = t.route
      /\ u.nbr = N /\ u.nh = t.nh /\ u.unreach = t.unreach
      /\ u.glean = t.glean /\ u.panicked = t.panicked
  BY <1>2 DEF IsTab
<1>4. /\ AdjsOK(t.adj) /\ HashOK(t.adj, t.hash) /\ RoutesOK(t.adj, t.route)
      /\ NbrsOK(t.adj, t.nbr) /\ UsesOK(t.adj, t.route, t.nbr, t.nh, {})
  BY DEF TabOK
<1>5. i \in DOMAIN t.adj /\ t.adj[i].kind # "multipath"
  BY <1>4 DEF NbrsOK, FreeAdjs
<1>6. /\ DOMAIN A = DOMAIN t.adj /\ A[i] = [kind |-> "rewrite"]
      /\ \A j \in DOMAIN t.adj \ {i} : A[j] = t.adj[j]
  BY <1>1, <1>4, <1>5 DEF AdjsOK
<1>7. A[i].kind = "rewrite"
  BY <1>6
<1>8. Blocks(A) = Blocks(t.adj) /\ \A j \in Blocks(A) : A[j] = t.adj[j]
  BY <1>5, <1>6, <1>7 DEF Blocks
<1>9. AdjsOK(A)
  <2>1. A = [j \in 0 .. AdjMax - 1 |-> A[j]]
    BY <1>1, <1>4, <1>6 DEF AdjsOK
  <2>2. ASSUME NEW j \in DOMAIN A, A[j].kind = "multipath"
        PROVE  /\ A[j] = [kind |-> "multipath", ref |-> A[j].ref,
                          given |-> A[j].given, norm |-> Normalize(A[j].given)]
               /\ A[j].ref \in Int
    <3>1. j \in Blocks(t.adj) /\ A[j] = t.adj[j]
      BY <1>8, <2>2 DEF Blocks
    <3>2. QED BY <1>4, <3>1, BlockFacts
  <2>3. QED BY <2>1, <2>2 DEF AdjsOK
<1>10. HashOK(A, t.hash)
  BY <1>4, <1>8 DEF HashOK
<1>11. RoutesOK(A, t.route)
  BY <1>4, <1>8 DEF RoutesOK
<1>12. /\ DOMAIN N = DOMAIN t.nbr \cup {a} /\ N[a] = i
       /\ \A b \in DOMAIN t.nbr : N[b] = t.nbr[b]
  BY <1>1 DEF Bind
<1>13. NbrsOK(A, N)
  <2>1. DOMAIN N \subseteq Addrs
    BY <1>4, <1>12 DEF NbrsOK
  <2>2. ASSUME NEW b \in DOMAIN N PROVE N[b] \in DOMAIN A /\ A[N[b]].kind = "rewrite"
    <3>1. CASE N[b] = i
      BY <1>5, <1>6, <1>7, <3>1
    <3>2. CASE N[b] # i
      <4>1. b \in DOMAIN t.nbr /\ N[b] = t.nbr[b]
        BY <1>12, <3>2
      <4>2. t.nbr[b] \in DOMAIN t.adj /\ t.adj[t.nbr[b]].kind = "rewrite"
        BY <1>4, <4>1 DEF NbrsOK
      <4>3. QED BY <1>6, <3>2, <4>1, <4>2
    <3>3. QED BY <3>1, <3>2
  <2>3. ASSUME NEW b \in DOMAIN t.nbr, t.nbr[b] = i PROVE b = a
    <3>1. t.adj[i].kind = "rewrite"
      BY <1>4, <2>3 DEF NbrsOK
    <3>2. i \notin FreeAdjs(t)
      BY <3>1 DEF FreeAdjs
    <3>3. a \in DOMAIN t.nbr /\ i = t.nbr[a]
      BY <3>2
    <3>4. QED BY <1>4, <2>3, <3>3 DEF NbrsOK
  <2>4. ASSUME NEW b \in DOMAIN N, NEW c \in DOMAIN N, N[b] = N[c] PROVE b = c
    <3>1. CASE b = a /\ c = a
      BY <3>1
    <3>2. CASE b = a /\ c # a
      BY <1>12, <2>3, <2>4, <3>2
    <3>3. CASE b # a /\ c = a
      BY <1>12, <2>3, <2>4, <3>3
    <3>4. CASE b # a /\ c # a
      <4>1. b \in DOMAIN t.nbr /\ c \in DOMAIN t.nbr /\ t.nbr[b] = t.nbr[c]
        BY <1>12, <2>4, <3>4
      <4>2. QED BY <1>4, <4>1 DEF NbrsOK
    <3>5. QED BY <3>1, <3>2, <3>3, <3>4
  <2>5. QED BY <2>1, <2>2, <2>4 DEF NbrsOK
<1>14. UsesOK(A, t.route, N, t.nh, {})
  <2>1. ASSUME NEW p \in DOMAIN t.route, NEW x \in DOMAIN A[t.route[p]].given
        PROVE  \E b \in DOMAIN N : N[b] = x /\ (p \in DOMAIN t.nh[b] \/ b \in {})
    <3>1. t.route[p] \in Blocks(A)
      BY <1>11 DEF RoutesOK
    <3>2. x \in DOMAIN t.adj[t.route[p]].given
      BY <1>8, <2>1, <3>1
    <3>3. PICK b \in DOMAIN t.nbr : t.nbr[b] = x /\ p \in DOMAIN t.nh[b]
      BY <1>4, <3>2 DEF UsesOK
    <3>4. QED BY <1>12, <3>3
  <2>2. QED BY <2>1 DEF UsesOK
<1>15. TabOK(u, {})
  BY <1>3, <1>9, <1>10, <1>11, <1>13, <1>14 DEF TabOK
<1>16. ASSUME NEW q PROVE Via(u, q) = Via(t, q)
  <2>1. CASE q \in DOMAIN t.route
    <3>1. t.route[q] \in Blocks(A)
      BY <1>11, <2>1 DEF RoutesOK
    <3>2. A[t.route[q]] = t.adj[t.route[q]]
      BY <1>8, <3>1
    <3>3. QED BY <1>3, <2>1, <3>2 DEF Via
  <2>2. CASE q \notin DOMAIN t.route
    BY <1>3, <2>2 DEF Via
  <2>3. QED BY <2>1, <2>2
<1>17. FreeAdjs(t) \ {i} \subseteq FreeAdjs(u)
  BY <1>3, <1>6 DEF FreeAdjs
<1>18. QED BY <1>3, <1>12, <1>15, <1>16, <1>17

(* AddDelIpNeighbor for a new or changed neighbour: the routes that wait   *)
(* for it get it.                                                          *)
LEMMA NeighborAddKeeps ==
  ASSUME FibTabInv, NEW a \in Addrs, NeighborAdd(a)
  PROVE  FibTabInv'
<1>1. PICK t, rb, ov, s : t = tab /\ rb = rib /\ ov = overridden /\ s = tab'
  OBVIOUS
<1>2. InvOf(t, rb, ov)
  BY <1>1, InvIs
<1>3. /\ TabOK(t, {}) /\ RecordsOK(t, rb, ov) /\ NbrsOK(t.adj, t.nbr)
      /\ rb = [p \in Prefixes |-> rb[p]] /\ ov = [p \in Prefixes |-> ov[p]]
  BY <1>2 DEF InvOf, TabOK
<1>4. PICK i : i = IF a \in DOMAIN t.nbr THEN t.nbr[a] ELSE NewAdj(t)
  OBVIOUS
<1>5. PICK u : u = WithNbr(t, a, i)
  OBVIOUS
<1>6. s = MakeReachable(u, a) /\ rib' = rb /\ overridden' = ov
  BY <1>1, <1>4, <1>5 DEF NeighborAdd, WithNbr
<1>7. PICK c \in Nat : c = Cardinality(Prefixes)
  BY FS_CardinalityType, FibTablesAssumption
<1>8. FreeCount(t) >= 1 + c /\ FreeCount(t) \in Nat /\ FreeAdjs(t) # {}
  <2>1. Room(1 + c)
    BY <1>7 DEF NeighborAdd
  <2>2. 1 + c \in Nat /\ 1 + c > 0
    OBVIOUS
  <2>3. QED BY <1>1, <2>1, <2>2, RoomFree
<1>9. \/ a \in DOMAIN t.nbr /\ i = t.nbr[a]
      \/ a \notin DOMAIN t.nbr /\ i \in FreeAdjs(t)
  BY <1>3, <1>4, <1>8, NewAdjFree DEF TabOK
<1>10. /\ TabOK(u, {}) /\ u.nh = t.nh /\ u.unreach = t.unreach
       /\ DOMAIN u.nbr = DOMAIN t.nbr \cup {a} /\ u.nbr[a] = i
       /\ \A b \in DOMAIN t.nbr : u.nbr[b] = t.nbr[b]
       /\ \A q : Via(u, q) = Via(t, q)
       /\ FreeAdjs(t) \ {i} \subseteq FreeAdjs(u)
  BY <1>3, <1>5, <1>9, NeighborSet
<1>11. FreeCount(u) >= Cardinality(Prefixes)
  <2>1. AdjsOK(t.adj) /\ AdjsOK(u.adj)
    BY <1>3, <1>10 DEF TabOK
  <2>2. FreeCount(u) >= FreeCount(t) - 1
    BY <1>10, <2>1, OneLess
  <2>3. FreeCount(u) \in Nat
    BY <2>1, FreeFinite
  <2>4. QED BY <1>7, <1>8, <2>2, <2>3
<1>12. PICK D : D = {p \in Prefixes : <<a, p>> \in DOMAIN u.unreach}
  OBVIOUS
<1>13. GainedOK(u, s, a, D)
  <2>1. a \in DOMAIN u.nbr
    BY <1>10
  <2>2. QED BY <1>6, <1>10, <1>11, <1>12, <2>1, MakeReachableOK
<1>14. /\ TabOK(s, {}) /\ s.nbr = u.nbr
       /\ DOMAIN s.unreach = {j \in DOMAIN t.unreach : j[1] # a}
       /\ \A q \in Prefixes : Via(s, q) = IF q \in D THEN Via(t, q) \cup {i} ELSE Via(t, q)
       /\ \A b \in Addrs \ {a} : s.nh[b] = t.nh[b]
       /\ DOMAIN s.nh[a] \subseteq DOMAIN t.nh[a] \cup D
  BY <1>10, <1>13 DEF GainedOK, Left
<1>15. \A q \in Prefixes : Waiting(s, q) = Waiting(t, q) \ {a}
  BY <1>14 DEF Waiting
<1>16. \A q \in Prefixes : q \in D <=> a \in Waiting(t, q)
  BY <1>10, <1>12 DEF Waiting
<1>17. D \subseteq Prefixes
  BY <1>12
<1>18. \A b \in DOMAIN u.nbr : u.nbr[b] = i => b = a
  <2>1. NbrsOK(u.adj, u.nbr)
    BY <1>10 DEF TabOK
  <2>2. QED BY <1>10, <2>1 DEF NbrsOK
<1>19. ASSUME NEW q \in Prefixes, NEW b \in DOMAIN u.nbr, u.nbr[b] \in Via(t, q)
       PROVE  b \in Using(t, q)
  <2>1. CASE b \in DOMAIN t.nbr
    BY <1>10, <1>19, <2>1 DEF Using
  <2>2. CASE b \notin DOMAIN t.nbr
    <3>1. b = a /\ i \in FreeAdjs(t)
      BY <1>9, <1>10, <2>2
    <3>2. q \in DOMAIN t.route /\ i \in DOMAIN t.adj[t.route[q]].given
      BY <1>10, <1>19, <3>1 DEF Via
    <3>3. PICK d \in DOMAIN t.nbr : t.nbr[d] = i
      BY <1>3, <3>2 DEF TabOK, UsesOK
    <3>4. t.adj[i].kind = "rewrite"
      BY <1>3, <3>3 DEF NbrsOK
    <3>5. QED BY <3>1, <3>4 DEF FreeAdjs
  <2>3. QED BY <2>1, <2>2
<1>20. ASSUME NEW q \in Prefixes PROVE PrefixOK(s, q, rb[q], ov[q])
  <2>1. PrefixOK(t, q, rb[q], ov[q])
    BY <1>3 DEF RecordsOK
  <2>2. PICK r, o : r = rb[q] /\ o = ov[q]
    OBVIOUS
  <2>3. /\ r \subseteq Addrs /\ r \cap DOMAIN t.nbr \subseteq Using(t, q)
        /\ r \ DOMAIN t.nbr \subseteq Waiting(t, q)
        /\ Using(t, q) \cup Waiting(t, q) \subseteq r \cup o
        /\ Waiting(t, q) \cap DOMAIN t.nbr = {}
        /\ \A b \in Addrs : q \in DOMAIN t.nh[b] => b \in r \cup o
    BY <2>1, <2>2 DEF PrefixOK
  <2>4. ASSUME NEW b \in r \cap DOMAIN s.nbr PROVE b \in Using(s, q)
    <3>1. CASE b \in DOMAIN t.nbr
      <4>1. b \in Using(t, q)
        BY <2>3, <2>4, <3>1
      <4>2. t.nbr[b] \in Via(t, q)
        BY <4>1 DEF Using
      <4>3. s.nbr[b] \in Via(s, q)
        BY <1>10, <1>14, <3>1, <4>2
      <4>4. QED BY <2>4, <4>3 DEF Using
    <3>2. CASE b \notin DOMAIN t.nbr
      <4>1. b = a
        BY <1>10, <1>14, <2>4, <3>2
      <4>2. a \in Waiting(t, q)
        BY <2>3, <2>4, <3>2, <4>1
      <4>3. i \in Via(s, q)
        BY <1>14, <1>16, <4>2
      <4>4. s.nbr[b] = i
        BY <1>10, <1>14, <4>1
      <4>5. QED BY <2>4, <4>3, <4>4 DEF Using
    <3>3. QED BY <3>1, <3>2
  <2>5. r \ DOMAIN s.nbr \subseteq Waiting(s, q)
    BY <1>10, <1>14, <1>15, <2>3
  <2>6. ASSUME NEW b \in Using(s, q) PROVE b \in r \cup o
    <3>1. b \in DOMAIN u.nbr /\ u.nbr[b] \in Via(s, q)
      BY <1>14, <2>6 DEF Using
    <3>2. CASE u.nbr[b] \in Via(t, q)
      <4>1. b \in Using(t, q)
        BY <1>19, <3>1, <3>2
      <4>2. QED BY <2>3, <4>1
    <3>3. CASE u.nbr[b] \notin Via(t, q)
      <4>1. q \in D /\ u.nbr[b] = i
        BY <1>14, <3>1, <3>3
      <4>2. b = a /\ a \in Waiting(t, q)
        BY <1>16, <1>18, <3>1, <4>1
      <4>3. QED BY <2>3, <4>2
    <3>4. QED BY <3>2, <3>3
  <2>7. Waiting(s, q) \subseteq r \cup o /\ Waiting(s, q) \cap DOMAIN s.nbr = {}
    BY <1>10, <1>14, <1>15, <2>3
  <2>8. ASSUME NEW b \in Addrs, q \in DOMAIN s.nh[b] PROVE b \in r \cup o
    <3>1. CASE q \in DOMAIN t.nh[b]
      BY <2>3, <3>1
    <3>2. CASE q \notin DOMAIN t.nh[b]
      <4>1. b = a
        BY <1>14, <2>8, <3>2
      <4>2. q \in D
        BY <1>14, <2>8, <3>2, <4>1
      <4>3. a \in Waiting(t, q)
        BY <1>16, <4>2
      <4>4. QED BY <2>3, <4>1, <4>3
    <3>3. QED BY <3>1, <3>2
  <2>9. PrefixOK(s, q, r, o)
    BY <2>3, <2>4, <2>5, <2>6, <2>7, <2>8 DEF PrefixOK
  <2>10. QED BY <2>2, <2>9
<1>21. /\ DOMAIN s.unreach \subseteq Addrs \X Prefixes
       /\ \A b \in Addrs : DOMAIN s.nh[b] \subseteq Prefixes
       /\ \A b \in Addrs \ DOMAIN s.nbr : DOMAIN s.nh[b] = {}
  <2>1. DOMAIN s.unreach \subseteq Addrs \X Prefixes
    BY <1>3, <1>14 DEF RecordsOK
  <2>2. ASSUME NEW b \in Addrs PROVE DOMAIN s.nh[b] \subseteq Prefixes
    <3>1. DOMAIN t.nh[b] \subseteq Prefixes
      BY <1>3 DEF RecordsOK
    <3>2. CASE b = a
      BY <1>14, <1>17, <3>1, <3>2
    <3>3. CASE b # a
      <4>1. s.nh[b] = t.nh[b]
        BY <1>14, <3>3
      <4>2. QED BY <3>1, <4>1
    <3>4. QED BY <3>2, <3>3
  <2>3. ASSUME NEW b \in Addrs \ DOMAIN s.nbr PROVE DOMAIN s.nh[b] = {}
    <3>1. b # a /\ b \notin DOMAIN t.nbr
      BY <1>10, <1>14
    <3>2. s.nh[b] = t.nh[b]
      BY <1>14, <3>1
    <3>3. DOMAIN t.nh[b] = {}
      BY <1>3, <3>1 DEF RecordsOK
    <3>4. QED BY <3>2, <3>3
  <2>4. QED BY <2>1, <2>2, <2>3
<1>22. RecordsOK(s, rb, ov)
  BY <1>20, <1>21 DEF RecordsOK
<1>23. InvOf(tab', rib', overridden')
  <2>1. InvOf(s, rb, ov)
    BY <1>3, <1>14, <1>22 DEF InvOf
  <2>2. QED BY <1>1, <1>6, <2>1
<1>24. QED BY <1>23, InvIsNext

(* The adjacency of a neighbour that no route uses any more is freed.      *)
WithoutNbr(t, a, i) ==
  [t EXCEPT !.nbr = Forget(@, a), !.nh[a] = <<>>, !.adj[i] = FreeAdj]

(* u is t without neighbour a.                                             *)
Gone(t, u, a) ==
  /\ TabOK(u, {}) /\ u.unreach = t.unreach
  /\ DOMAIN u.nbr = DOMAIN t.nbr \ {a}
  /\ \A b \in DOMAIN t.nbr \ {a} : u.nbr[b] = t.nbr[b]
  /\ DOMAIN u.nh[a] = {} /\ \A b \in Addrs \ {a} : u.nh[b] = t.nh[b]
  /\ \A q : Via(u, q) = Via(t, q)

(* Freeing it leaves blocks and routes as they are.                        *)
LEMMA NeighborGone ==
  ASSUME NEW t, NEW a \in DOMAIN t.nbr, TabOK(t, {a}), NEW i, i = t.nbr[a],
         \A q \in DOMAIN t.route : i \notin Via(t, q),
         NEW u, u = WithoutNbr(t, a, i)
  PROVE  Gone(t, u, a)
<1>1. PICK A, N, K : /\ A = [t.adj EXCEPT ![i] = FreeAdj]
                     /\ N = Forget(t.nbr, a) /\ K = [t.nh EXCEPT ![a] = <<>>]
  OBVIOUS
<1>2. IsTab(t) /\ u = [t EXCEPT !.adj = A, !.nbr = N, !.nh = K]
  BY <1>1 DEF TabOK, WithoutNbr
<1>3. /\ IsTab(u) /\ u.adj = A /\ u.hash = t.hash /\ u.route = t.route
      /\ u.nbr = N /\ u.nh = K /\ u.unreach = t.unreach
      /\ u.glean = t.glean /\ u.panicked = t.panicked
  BY <1>2 DEF IsTab
<1>4. /\ AdjsOK(t.adj) /\ HashOK(t.adj, t.hash) /\ RoutesOK(t.adj, t.route)
      /\ NbrsOK(t.adj, t.nbr) /\ UsesOK(t.adj, t.route, t.nbr, t.nh, {a})
      /\ t.nh = [b \in Addrs |-> t.nh[b]]
  BY DEF TabOK
<1>5. i \in DOMAIN t.adj /\ t.adj[i].kind = "rewrite" /\ a \in Addrs
  BY <1>4 DEF NbrsOK
<1>6. /\ DOMAIN A = DOMAIN t.adj /\ A[i] = FreeAdj
      /\ \A j \in DOMAIN t.adj \ {i} : A[j] = t.adj[j]
  BY <1>1, <1>4, <1>5 DEF AdjsOK
<1>7. A[i].kind = "free"
  BY <1>6 DEF FreeAdj
<1>8. Blocks(A) = Blocks(t.adj) /\ \A j \in Blocks(A) : A[j] = t.adj[j]
  BY <1>5, <1>6, <1>7 DEF Blocks
<1>9. AdjsOK(A)
  <2>1. A = [j \in 0 .. AdjMax - 1 |-> A[j]]
    BY <1>1, <1>4, <1>6 DEF AdjsOK
  <2>2. ASSUME NEW j \in DOMAIN A, A[j].kind = "multipath"
        PROVE  /\ A[j] = [kind |-> "multipath", ref |-> A[j].ref,
                          given |-> A[j].given, norm |-> Normalize(A[j].given)]
               /\ A[j].ref \in Int
    <3>1. j \in Blocks(t.adj) /\ A[j] = t.adj[j]
      BY <1>8, <2>2 DEF Blocks
    <3>2. QED BY <1>4, <3>1, BlockFacts
  <2>3. QED BY <2>1, <2>2 DEF AdjsOK
<1>10. HashOK(A, t.hash)
  BY <1>4, <1>8 DEF HashOK
<1>11. RoutesOK(A, t.route)
  BY <1>4, <1>8 DEF RoutesOK
<1>12. /\ DOMAIN N = DOMAIN t.nbr \ {a}
       /\ \A b \in DOMAIN N : N[b] = t.nbr[b]
  BY <1>1 DEF Forget
<1>13. NbrsOK(A, N)
  <2>1. DOMAIN N \subseteq Addrs
    BY <1>4, <1>12 DEF NbrsOK
  <2>2. ASSUME NEW b \in DOMAIN N PROVE N[b] \in DOMAIN A /\ A[N[b]].kind = "rewrite"
    <3>1. b \in DOMAIN t.nbr /\ b # a /\ N[b] = t.nbr[b]
      BY <1>12
    <3>2. t.nbr[b] # i /\ t.nbr[b] \in DOMAIN t.adj /\ t.adj[t.nbr[b]].kind = "rewrite"
      BY <1>4, <3>1 DEF NbrsOK
    <3>3. QED BY <1>6, <3>1, <3>2
  <2>3. \A b, c \in DOMAIN N : N[b] = N[c] => b = c
    BY <1>4, <1>12 DEF NbrsOK
  <2>4. QED BY <2>1, <2>2, <2>3 DEF NbrsOK
<1>14. /\ K = [b \in Addrs |-> K[b]] /\ K[a] = <<>>
       /\ \A b \in Addrs \ {a} : K[b] = t.nh[b]
  BY <1>1, <1>4, <1>5
<1>15. DOMAIN K[a] = {}
  BY <1>14
<1>16. UsesOK(A, t.route, N, K, {})
  <2>1. ASSUME NEW p \in DOMAIN t.route, NEW x \in DOMAIN A[t.route[p]].given
        PROVE  \E b \in DOMAIN N : N[b] = x /\ (p \in DOMAIN K[b] \/ b \in {})
    <3>1. t.route[p] \in Blocks(A)
      BY <1>11 DEF RoutesOK
    <3>2. x \in DOMAIN t.adj[t.route[p]].given
      BY <1>8, <2>1, <3>1
    <3>3. PICK b \in DOMAIN t.nbr : t.nbr[b] = x /\ (p \in DOMAIN t.nh[b] \/ b \in {a})
      BY <1>4, <3>2 DEF UsesOK
    <3>4. x \in Via(t, p)
      BY <3>2 DEF Via
    <3>5. b # a
      BY <3>3, <3>4
    <3>6. b \in Addrs
      BY <1>4 DEF NbrsOK
    <3>7. b \in DOMAIN N /\ N[b] = x /\ p \in DOMAIN K[b]
      BY <1>12, <1>14, <3>3, <3>5, <3>6
    <3>8. QED BY <3>7
  <2>2. QED BY <2>1 DEF UsesOK
<1>17. TabOK(u, {})
  BY <1>3, <1>9, <1>10, <1>11, <1>13, <1>14, <1>16 DEF TabOK
<1>18. ASSUME NEW q PROVE Via(u, q) = Via(t, q)
  <2>1. CASE q \in DOMAIN t.route
    <3>1. t.route[q] \in Blocks(A)
      BY <1>11, <2>1 DEF RoutesOK
    <3>2. A[t.route[q]] = t.adj[t.route[q]]
      BY <1>8, <3>1
    <3>3. QED BY <1>3, <2>1, <3>2 DEF Via
  <2>2. CASE q \notin DOMAIN t.route
    BY <1>3, <2>2 DEF Via
  <2>3. QED BY <2>1, <2>2
<1>19. QED BY <1>3, <1>12, <1>14, <1>15, <1>17, <1>18 DEF Gone

(* AddDelIpNeighbor for a neighbour that goes: no route uses it            *)
(* afterwards, so its adjacency can be freed.                              *)
LEMMA NeighborDelKeeps ==
  ASSUME FibTabInv, NEW a \in Addrs, NeighborDel(a)
  PROVE  FibTabInv'
<1>1. PICK t, rb, ov, s : t = tab /\ rb = rib /\ ov = overridden /\ s = tab'
  OBVIOUS
<1>2. InvOf(t, rb, ov)
  BY <1>1, InvIs
<1>3. /\ TabOK(t, {}) /\ RecordsOK(t, rb, ov) /\ NbrsOK(t.adj, t.nbr)
      /\ rb = [p \in Prefixes |-> rb[p]] /\ ov = [p \in Prefixes |-> ov[p]]
  BY <1>2 DEF InvOf, TabOK
<1>4. a \in DOMAIN t.nbr
  BY <1>1 DEF NeighborDel
<1>5. PICK i, m, D : i = t.nbr[a] /\ m = LoseNeighbor(t, a) /\ D = DOMAIN t.nh[a]
  OBVIOUS
<1>6. s = WithoutNbr(m, a, i) /\ rib' = rb /\ overridden' = ov
  BY <1>1, <1>5 DEF NeighborDel, WithoutNbr
<1>7. FreeCount(t) >= Cardinality(Prefixes)
  <2>1. PICK c \in Nat : c = Cardinality(Prefixes)
    BY FS_CardinalityType, FibTablesAssumption
  <2>2. Room(c)
    BY <2>1 DEF NeighborDel
  <2>3. QED BY <1>1, <2>1, <2>2, RoomFree
<1>8. D \subseteq Prefixes
  BY <1>3, <1>5 DEF RecordsOK
<1>9. LostOK(t, m, a, D)
  BY <1>3, <1>4, <1>5, <1>7, <1>8, LoseNeighborOK
<1>10. /\ TabOK(m, {a}) /\ m.nbr = t.nbr
       /\ \A q \in Prefixes : Via(m, q) = IF q \in D THEN Via(t, q) \ {i} ELSE Via(t, q)
       /\ \A b \in Addrs \ {a} : m.nh[b] = t.nh[b]
       /\ DOMAIN t.unreach \subseteq DOMAIN m.unreach
       /\ DOMAIN m.unreach \subseteq DOMAIN t.unreach \cup {<<a, q>> : q \in D}
       /\ \A q \in D : i \in Via(t, q) => <<a, q>> \in DOMAIN m.unreach
  BY <1>5, <1>9 DEF LostOK
<1>11. ASSUME NEW q \in Prefixes, i \in Via(t, q) PROVE q \in D
  <2>1. q \in DOMAIN t.route /\ i \in DOMAIN t.adj[t.route[q]].given
    BY <1>11 DEF Via
  <2>2. PICK b \in DOMAIN t.nbr : t.nbr[b] = i /\ q \in DOMAIN t.nh[b]
    BY <1>3, <2>1 DEF TabOK, UsesOK
  <2>3. b = a
    BY <1>3, <1>4, <1>5, <2>2 DEF NbrsOK
  <2>4. QED BY <1>5, <2>2, <2>3
<1>12. \A q \in Prefixes : Via(m, q) = Via(t, q) \ {i}
  BY <1>10, <1>11
<1>13. \A q \in DOMAIN m.route : i \notin Via(m, q)
  <2>1. DOMAIN m.route \subseteq Prefixes
    BY <1>10 DEF TabOK, RoutesOK
  <2>2. QED BY <1>12, <2>1
<1>14. /\ TabOK(s, {}) /\ s.unreach = m.unreach
       /\ DOMAIN s.nbr = DOMAIN t.nbr \ {a}
       /\ \A b \in DOMAIN t.nbr \ {a} : s.nbr[b] = t.nbr[b]
       /\ DOMAIN s.nh[a] = {} /\ \A b \in Addrs \ {a} : s.nh[b] = t.nh[b]
       /\ \A q \in Prefixes : Via(s, q) = Via(t, q) \ {i}
  <2>1. /\ a \in DOMAIN m.nbr /\ i = m.nbr[a] /\ TabOK(m, {a})
        /\ \A q \in DOMAIN m.route : i \notin Via(m, q)
        /\ s = WithoutNbr(m, a, i)
    BY <1>4, <1>5, <1>6, <1>10, <1>13
  <2>2. Gone(m, s, a)
    BY <2>1, NeighborGone
  <2>3. QED BY <1>10, <1>12, <2>2 DEF Gone
<1>15. ASSUME NEW q \in Prefixes
       PROVE  /\ Waiting(t, q) \subseteq Waiting(s, q)
              /\ Waiting(s, q) \subseteq Waiting(t, q) \cup {a}
              /\ a \in Waiting(s, q) => a \in Waiting(t, q) \/ q \in D
              /\ i \in Via(t, q) => a \in Waiting(s, q)
  <2>1. Waiting(t, q) \subseteq Waiting(s, q)
    BY <1>10, <1>14 DEF Waiting
  <2>2. ASSUME NEW b \in Waiting(s, q) PROVE b \in Waiting(t, q) \/ (b = a /\ q \in D)
    <3>1. b \in Addrs /\ <<b, q>> \in DOMAIN m.unreach
      BY <1>14 DEF Waiting
    <3>2. <<b, q>> \in DOMAIN t.unreach \/ \E d \in D : <<b, q>> = <<a, d>>
      BY <1>10, <3>1
    <3>3. QED BY <3>1, <3>2 DEF Waiting
  <2>3. i \in Via(t, q) => a \in Waiting(s, q)
    BY <1>10, <1>11, <1>14 DEF Waiting
  <2>4. QED BY <2>1, <2>2, <2>3
<1>16. ASSUME NEW q \in Prefixes PROVE PrefixOK(s, q, rb[q], ov[q])
  <2>1. PrefixOK(t, q, rb[q], ov[q])
    BY <1>3 DEF RecordsOK
  <2>2. PICK r, o : r = rb[q] /\ o = ov[q]
    OBVIOUS
  <2>3. /\ r \subseteq Addrs /\ r \cap DOMAIN t.nbr \subseteq Using(t, q)
        /\ r \ DOMAIN t.nbr \subseteq Waiting(t, q)
        /\ Using(t, q) \cup Waiting(t, q) \subseteq r \cup o
        /\ Waiting(t, q) \cap DOMAIN t.nbr = {}
        /\ \A b \in Addrs : q \in DOMAIN t.nh[b] => b \in r \cup o
    BY <2>1, <2>2 DEF PrefixOK
  <2>4. ASSUME NEW b \in r \cap DOMAIN s.nbr PROVE b \in Using(s, q)
    <3>1. b \in DOMAIN t.nbr /\ b # a /\ s.nbr[b] = t.nbr[b]
      BY <1>14
    <3>2. b \in Using(t, q)
      BY <2>3, <3>1
    <3>3. t.nbr[b] \in Via(t, q)
      BY <3>2 DEF Using
    <3>4. t.nbr[b] # i
      BY <1>3, <1>4, <1>5, <3>1 DEF NbrsOK
    <3>5. s.nbr[b] \in Via(s, q)
      BY <1>14, <3>1, <3>3, <3>4
    <3>6. QED BY <3>5 DEF Using
  <2>5. ASSUME NEW b \in r \ DOMAIN s.nbr PROVE b \in Waiting(s, q)
    <3>1. CASE b \in DOMAIN t.nbr
      <4>1. b = a
        BY <1>14, <3>1
      <4>2. a \in Using(t, q)
        BY <2>3, <3>1, <4>1
      <4>3. i \in Via(t, q)
        BY <1>5, <4>2 DEF Using
      <4>4. QED BY <1>15, <4>1, <4>3
    <3>2. CASE b \notin DOMAIN t.nbr
      BY <1>15, <2>3, <3>2
    <3>3. QED BY <3>1, <3>2
  <2>6. Using(s, q) \subseteq Using(t, q)
    BY <1>14 DEF Using
  <2>7. ASSUME NEW b \in Waiting(s, q) PROVE b \in r \cup o
    <3>1. CASE b \in Waiting(t, q)
      BY <2>3, <3>1
    <3>2. CASE b \notin Waiting(t, q)
      <4>1. b = a /\ q \in D
        BY <1>15, <3>2
      <4>2. q \in DOMAIN t.nh[b]
        BY <1>5, <4>1
      <4>3. b \in Addrs
        BY <4>1
      <4>4. QED BY <2>3, <4>2, <4>3
    <3>3. QED BY <3>1, <3>2
  <2>8. Waiting(s, q) \cap DOMAIN s.nbr = {}
    BY <1>14, <1>15, <2>3
  <2>9. ASSUME NEW b \in Addrs, q \in DOMAIN s.nh[b] PROVE b \in r \cup o
    <3>1. b # a
      BY <1>14, <2>9
    <3>2. q \in DOMAIN t.nh[b]
      BY <1>14, <2>9, <3>1
    <3>3. QED BY <2>3, <3>2
  <2>10. PrefixOK(s, q, r, o)
    BY <2>3, <2>4, <2>5, <2>6, <2>7, <2>8, <2>9 DEF PrefixOK
  <2>11. QED BY <2>2, <2>10
<1>17. /\ DOMAIN s.unreach \subseteq Addrs \X Prefixes
       /\ \A b \in Addrs : DOMAIN s.nh[b] \subseteq Prefixes
       /\ \A b \in Addrs \ DOMAIN s.nbr : DOMAIN s.nh[b] = {}
  <2>1. DOMAIN s.unreach \subseteq Addrs \X Prefixes
    <3>1. DOMAIN t.unreach \subseteq Addrs \X Prefixes
      BY <1>3 DEF RecordsOK
    <3>2. {<<a, q>> : q \in D} \subseteq Addrs \X Prefixes
      BY <1>8
    <3>3. QED BY <1>10, <1>14, <3>1, <3>2
  <2>2. ASSUME NEW b \in Addrs, b # a
        PROVE  /\ DOMAIN s.nh[b] \subseteq Prefixes
               /\ b \notin DOMAIN s.nbr => DOMAIN s.nh[b] = {}
    <3>1. s.nh[b] = t.nh[b]
      BY <1>14, <2>2
    <3>2. b \in DOMAIN s.nbr <=> b \in DOMAIN t.nbr
      BY <1>14, <2>2
    <3>3. /\ DOMAIN t.nh[b] \subseteq Prefixes
          /\ b \notin DOMAIN t.nbr => DOMAIN t.nh[b] = {}
      BY <1>3 DEF RecordsOK
    <3>4. QED BY <3>1, <3>2, <3>3
  <2>3. DOMAIN s.nh[a] = {}
    BY <1>14
  <2>4. QED BY <2>1, <2>2, <2>3
<1>18. RecordsOK(s, rb, ov)
  BY <1>16, <1>17 DEF RecordsOK
<1>19. InvOf(tab', rib', overridden')
  <2>1. InvOf(s, rb, ov)
    BY <1>3, <1>14, <1>18 DEF InvOf
  <2>2. QED BY <1>1, <1>6, <2>1
<1>20. QED BY <1>19, InvIsNext

(* The interface's prefix is only read by the loops.                       *)
LEMMA InterfaceKeeps ==
  ASSUME FibTabInv, InterfaceAdd \/ InterfaceDel
  PROVE  FibTabInv'
<1>1. PICK t, rb, ov, s : t = tab /\ rb = rib /\ ov = overridden /\ s = tab'
  OBVIOUS
<1>2. InvOf(t, rb, ov)
  BY <1>1, InvIs
<1>3. PICK g : s = [t EXCEPT !.glean = g]
  BY <1>1 DEF InterfaceAdd, InterfaceDel
<1>4. rib' = rb /\ overridden' = ov
  BY <1>1 DEF InterfaceAdd, InterfaceDel
<1>5. IsTab(t)
  BY <1>2 DEF InvOf, TabOK
<1>6. /\ IsTab(s) /\ s.adj = t.adj /\ s.hash = t.hash /\ s.route = t.route
      /\ s.nbr = t.nbr /\ s.nh = t.nh /\ s.unreach = t.unreach
      /\ s.panicked = t.panicked
  BY <1>3, <1>5 DEF IsTab
<1>7. TabOK(s, {})
  BY <1>2, <1>6 DEF InvOf, TabOK
<1>8. \A q : Via(s, q) = Via(t, q) /\ Waiting(s, q) = Waiting(t, q)
  BY <1>6 DEF Via, Waiting
<1>9. RecordsOK(t, rb, ov)
  BY <1>2 DEF InvOf
<1>10. ASSUME NEW q \in Prefixes PROVE PrefixOK(s, q, rb[q], ov[q])
  <2>1. PrefixOK(t, q, rb[q], ov[q])
    BY <1>9 DEF RecordsOK
  <2>2. QED BY <1>6, <1>8, <2>1, PrefixSame
<1>11. RecordsOK(s, rb, ov)
  BY <1>6, <1>9, <1>10 DEF RecordsOK
<1>12. InvOf(s, rb, ov)
  BY <1>2, <1>7, <1>11 DEF InvOf
<1>13. QED BY <1>1, <1>4, <1>12, InvIsNext

(* The invariant holds at first ...                                        *)
LEMMA FibTabStarts == FibTabInit => FibTabInv
<1>1. SUFFICES ASSUME FibTabInit PROVE FibTabInv
  OBVIOUS
<1>2. PICK t, rb, ov : t = tab /\ rb = rib /\ ov = overridden
  OBVIOUS
<1>3. /\ t = [adj |-> [i \in 0 .. AdjMax - 1 |-> FreeAdj], hash |-> <<>>,
              route |-> <<>>, nbr |-> <<>>, nh |-> [a \in Addrs |-> <<>>],
              unreach |-> <<>>, glean |-> FALSE, panicked |-> FALSE]
      /\ rb = [p \in Prefixes |-> {}] /\ ov = [p \in Prefixes |-> {}]
  BY <1>1, <1>2 DEF FibTabInit
<1>4. PICK A, K : /\ A = [i \in 0 .. AdjMax - 1 |-> FreeAdj]
                  /\ K = [a \in Addrs |-> <<>>]
  OBVIOUS
<1>5. /\ t.adj = A /\ t.hash = <<>> /\ t.route = <<>> /\ t.nbr = <<>> /\ t.nh = K
      /\ t.unreach = <<>> /\ t.glean = FALSE /\ t.panicked = FALSE
  BY <1>3, <1>4
<1>6. /\ DOMAIN t.hash = {} /\ DOMAIN t.route = {} /\ DOMAIN t.nbr = {}
      /\ DOMAIN t.unreach = {}
  BY <1>5
<1>7. IsTab(t)
  BY <1>3, <1>4, <1>5 DEF IsTab
<1>8. \A i \in DOMAIN A : A[i].kind # "multipath"
  BY <1>4 DEF FreeAdj
<1>9. AdjsOK(t.adj) /\ Blocks(t.adj) = {}
  <2>1. A = [i \in 0 .. AdjMax - 1 |-> A[i]]
    BY <1>4
  <2>2. QED BY <1>5, <1>8, <2>1 DEF AdjsOK, Blocks
<1>10. HashOK(t.adj, t.hash) /\ RoutesOK(t.adj, t.route) /\ NbrsOK(t.adj, t.nbr)
  BY <1>6, <1>9 DEF HashOK, RoutesOK, NbrsOK
<1>11. UsesOK(t.adj, t.route, t.nbr, t.nh, {})
  BY <1>6 DEF UsesOK
<1>12. /\ t.nh = [a \in Addrs |-> t.nh[a]]
       /\ \A a \in Addrs : DOMAIN t.nh[a] = {}
  BY <1>4, <1>5
<1>13. TabOK(t, {})
  BY <1>5, <1>7, <1>9, <1>10, <1>11, <1>12 DEF TabOK
<1>14. ASSUME NEW p \in Prefixes PROVE PrefixOK(t, p, rb[p], ov[p])
  <2>1. rb[p] = {}
    BY <1>3
  <2>2. Using(t, p) = {} /\ Waiting(t, p) = {}
    BY <1>6 DEF Using, Waiting
  <2>3. QED BY <1>12, <2>1, <2>2 DEF PrefixOK
<1>15. RecordsOK(t, rb, ov)
  BY <1>6, <1>12, <1>14 DEF RecordsOK
<1>16. /\ rb = [p \in Prefixes |-> rb[p]]
       /\ ov = [p \in Prefixes |-> ov[p]]
  BY <1>3
<1>17. QED BY <1>2, <1>13, <1>15, <1>16 DEF FibTabInv

(* ... and every step keeps it.                                            *)
LEMMA FibTabKeeps == FibTabInv /\ [FibTabNext]_fibTabVars => FibTabInv'
<1>1. SUFFICES ASSUME FibTabInv, [FibTabNext]_fibTabVars PROVE FibTabInv'
  OBVIOUS
<1>2. \A h \in Hops : h[1] \in Addrs
  BY FibTablesAssumption
<1>3. ASSUME NEW p \in Prefixes, NEW h \in Hops, RouteAdd(p, h[1], h[2])
      PROVE  FibTabInv'
  BY <1>1, <1>2, <1>3, RouteAddKeeps
<1>4. ASSUME NEW p \in Prefixes, NEW a \in Addrs, RouteDel(p, a) PROVE FibTabInv'
  BY <1>1, <1>4, RouteDelKeeps
<1>5. ASSUME NEW p \in Prefixes, NEW h \in Hops, RouteReplace(p, h[1], h[2])
      PROVE  FibTabInv'
  BY <1>1, <1>2, <1>5, RouteReplaceKeeps
<1>6. ASSUME NEW a \in Addrs, NeighborAdd(a) PROVE FibTabInv'
  BY <1>1, <1>6, NeighborAddKeeps
<1>7. ASSUME NEW a \in Addrs, NeighborDel(a) PROVE FibTabInv'
  BY <1>1, <1>7, NeighborDelKeeps
<1>8. CASE InterfaceAdd \/ InterfaceDel
  BY <1>1, <1>8, InterfaceKeeps
<1>9. CASE UNCHANGED fibTabVars
  BY <1>1, <1>9 DEF FibTabInv, fibTabVars
<1>10. QED BY <1>1, <1>3, <1>4, <1>5, <1>6, <1>7, <1>8, <1>9 DEF FibTabNext
-----------------------------------------------------------------------------
(* What the invariant says of the tables.                                  *)
LEMMA InvRoutes == FibTabInv => RoutesUseLiveNeighbors
<1>1. SUFFICES ASSUME FibTabInv PROVE RoutesUseLiveNeighbors
  OBVIOUS
<1>2. /\ RoutesOK(tab.adj, tab.route)
      /\ UsesOK(tab.adj, tab.route, tab.nbr, tab.nh, {})
  BY <1>1 DEF FibTabInv, TabOK
<1>3. Blocks(tab.adj) = MultipathAdjs(tab)
  BY DEF Blocks, MultipathAdjs
<1>4. ASSUME NEW p \in DOMAIN tab.route
      PROVE  /\ tab.route[p] \in MultipathAdjs(tab)
             /\ \A x \in DOMAIN tab.adj[tab.route[p]].given :
                  \E a \in DOMAIN tab.nbr : tab.nbr[a] = x /\ p \in DOMAIN tab.nh[a]
  <2>1. tab.route[p] \in MultipathAdjs(tab)
    BY <1>2, <1>3 DEF RoutesOK
  <2>2. QED BY <1>2, <2>1 DEF UsesOK
<1>5. QED BY <1>4 DEF RoutesUseLiveNeighbors

(* Blocks are counted and known to the hash.                               *)
LEMMA InvBlocks == FibTabInv => BlocksShared
<1>1. SUFFICES ASSUME FibTabInv PROVE BlocksShared
  OBVIOUS
<1>2. /\ RoutesOK(tab.adj, tab.route) /\ HashOK(tab.adj, tab.hash)
      /\ ~tab.panicked
  BY <1>1 DEF FibTabInv, TabOK
<1>3. Blocks(tab.adj) = MultipathAdjs(tab)
  BY DEF Blocks, MultipathAdjs
<1>4. ASSUME NEW i \in MultipathAdjs(tab)
      PROVE  /\ Cardinality({p \in DOMAIN tab.route : tab.route[p] = i})
                  <= tab.adj[i].ref
             /\ tab.adj[i].norm \in DOMAIN tab.hash
  BY <1>2, <1>3 DEF RoutesOK, HashOK, Users
<1>5. ASSUME NEW n \in DOMAIN tab.hash
      PROVE  tab.hash[n] \in MultipathAdjs(tab) /\ tab.adj[tab.hash[n]].norm = n
  BY <1>2, <1>3 DEF HashOK
<1>6. QED BY <1>2, <1>4, <1>5 DEF BlocksShared

(* What is used or waits is what the RIB gave.                             *)
LEMMA InvRecords == FibTabInv => NextHopsAccounted
<1>1. SUFFICES ASSUME FibTabInv PROVE NextHopsAccounted
  OBVIOUS
<1>2. ASSUME NEW p \in Prefixes
      PROVE  /\ rib[p] \cap DOMAIN tab.nbr \subseteq Using(tab, p)
             /\ rib[p] \ DOMAIN tab.nbr \subseteq Waiting(tab, p)
             /\ Using(tab, p) \cup Waiting(tab, p) \subseteq rib[p] \cup overridden[p]
  BY <1>1 DEF FibTabInv, RecordsOK, PrefixOK
<1>3. QED BY <1>2 DEF NextHopsAccounted, Using, Via, Waiting

(* Whatever the order of route, replace, neighbour and interface events, a *)
(* route leads through neighbours that exist and to blocks in use.         *)
THEOREM RoutesLive == FibTabSpec => []RoutesUseLiveNeighbors
<1>1. FibTabSpec => []FibTabInv
  BY FibTabStarts, FibTabKeeps, PTL DEF FibTabSpec
<1>2. QED BY <1>1, InvRoutes, PTL

(* A block is counted for its users, known to the hash while it is used    *)
(* and not after; multipathAdjacency.free never panics.                    *)
THEOREM BlocksCounted == FibTabSpec => []BlocksShared
<1>1. FibTabSpec => []FibTabInv
  BY FibTabStarts, FibTabKeeps, PTL DEF FibTabSpec
<1>2. QED BY <1>1, InvBlocks, PTL

(* A next hop of the RIB is used when its neighbour is known and waits     *)
(* when it is not; one that was withdrawn is neither used nor kept.        *)
THEOREM NextHopsKept == FibTabSpec => []NextHopsAccounted
<1>1. FibTabSpec => []FibTabInv
  BY FibTabStarts, FibTabKeeps, PTL DEF FibTabSpec
<1>2. QED BY <1>1, InvRecords, PTL
-----------------------------------------------------------------------------
(* The trie by itself.                                                     *)
TrieSpec == TrieInit /\ [][TrieNext]_trieVars

(* Leaves are results or pointers.                                         *)
LEMMA LeafForms ==
  ASSUME NEW x
  PROVE  /\ IsTerminal(SetResult(x)) /\ SetResult(x).adj = x
         /\ ~IsTerminal(PlyLeaf(x)) /\ PlyLeaf(x).ply = x
BY DEF IsTerminal, SetResult, PlyLeaf

LEMMA EmptyForm == IsTerminal(EmptyLeaf)
BY LeafForms DEF EmptyLeaf

(* What the operations put in the leaves of a ply.                         *)
LEMMA LeavesOfWith ==
  ASSUME NEW ply, NEW S, NEW l, NEW n, NEW count, NEW b \in Bytes
  PROVE  /\ WithLeaves(ply, S, l, n, count).leaves[b]
              = IF b \in S THEN l ELSE ply.leaves[b]
         /\ WithLeaves(ply, S, l, n, count).lens[b]
              = IF b \in S THEN n ELSE ply.lens[b]
BY DEF WithLeaves

LEMMA LeavesOfPut ==
  ASSUME NEW ply, NEW S, NEW l, NEW n, NEW b \in Bytes
  PROVE  LET put == b \in S /\ IsTerminal(ply.leaves[b]) /\ n >= ply.lens[b]
         IN /\ PutLeaves(ply, S, l, n).leaves[b]
                 = IF put THEN l ELSE ply.leaves[b]
            /\ PutLeaves(ply, S, l, n).lens[b]
                 = IF put THEN n ELSE ply.lens[b]
<1> DEFINE P == {c \in S : IsTerminal(ply.leaves[c]) /\ MoreSpecific(n, ply.lens[c])}
<1>1. PICK count : PutLeaves(ply, S, l, n) = WithLeaves(ply, P, l, n, count)
  BY Zenon DEF PutLeaves
<1>2. b \in P <=> b \in S /\ IsTerminal(ply.leaves[b]) /\ n >= ply.lens[b]
  BY DEF MoreSpecific
<1> HIDE DEF P
<1>3. /\ PutLeaves(ply, S, l, n).leaves[b]
           = IF b \in P THEN l ELSE ply.leaves[b]
      /\ PutLeaves(ply, S, l, n).lens[b] = IF b \in P THEN n ELSE ply.lens[b]
  BY <1>1, LeavesOfWith
<1>4. QED BY <1>2, <1>3

LEMMA LeavesOfClear ==
  ASSUME NEW ply, NEW S, NEW b \in Bytes
  PROVE  ClearLeaves(ply, S).leaves[b] = IF b \in S THEN EmptyLeaf ELSE ply.leaves[b]
BY LeavesOfWith DEF ClearLeaves

LEMMA LeavesOfInit ==
  ASSUME NEW l, NEW n, NEW b \in Bytes
  PROVE  InitPly(l, n).leaves[b] = l /\ InitPly(l, n).lens[b] = n
BY DEF InitPly
-----------------------------------------------------------------------------
(* Leaf b of ply i points to ply c.                                        *)
Points(t, i, b, c) == t[i].leaves[b] = PlyLeaf(c)

(* Every pointer is to a ply of its own, which is not the root.            *)
TreeOK(t) ==
  /\ IsFiniteSet(DOMAIN t) /\ 0 \in DOMAIN t
  /\ \A i \in DOMAIN t, b \in Bytes :
       \/ IsTerminal(t[i].leaves[b])
       \/ \E c \in DOMAIN t \ {0} : Points(t, i, b, c)
  /\ \A i, j \in DOMAIN t, b, d \in Bytes, c \in DOMAIN t :
       Points(t, i, b, c) /\ Points(t, j, d, c) => i = j /\ b = d

(* A pointer's ply.                                                        *)
LEMMA PointerForm ==
  ASSUME NEW t, TreeOK(t), NEW i \in DOMAIN t, NEW b \in Bytes,
         ~IsTerminal(t[i].leaves[b])
  PROVE  /\ t[i].leaves[b].ply \in DOMAIN t \ {0}
         /\ Points(t, i, b, t[i].leaves[b].ply)
<1>1. PICK c \in DOMAIN t \ {0} : Points(t, i, b, c)
  BY DEF TreeOK
<1>2. t[i].leaves[b].ply = c
  BY <1>1, LeafForms DEF Points
<1>3. QED BY <1>1, <1>2

(* If leaves only become results or keep plys that stay, the tree stays.   *)
LEMMA TreeKept ==
  ASSUME NEW t, TreeOK(t), NEW u, DOMAIN u \subseteq DOMAIN t, 0 \in DOMAIN u,
         \A i \in DOMAIN u, b \in Bytes :
           \/ IsTerminal(u[i].leaves[b])
           \/ /\ u[i].leaves[b] = t[i].leaves[b]
              /\ t[i].leaves[b].ply \in DOMAIN u
  PROVE  TreeOK(u)
<1>1. IsFiniteSet(DOMAIN u)
  BY FS_Subset DEF TreeOK
<1>2. ASSUME NEW i \in DOMAIN u, NEW b \in Bytes, ~IsTerminal(u[i].leaves[b])
      PROVE  \E c \in DOMAIN u \ {0} : Points(u, i, b, c)
  <2>1. u[i].leaves[b] = t[i].leaves[b] /\ t[i].leaves[b].ply \in DOMAIN u
    BY <1>2
  <2>2. t[i].leaves[b].ply # 0 /\ Points(t, i, b, t[i].leaves[b].ply)
    BY <1>2, <2>1, PointerForm
  <2>3. QED BY <2>1, <2>2 DEF Points
<1>3. ASSUME NEW i \in DOMAIN u, NEW j \in DOMAIN u, NEW b \in Bytes,
             NEW d \in Bytes, NEW c \in DOMAIN u,
             Points(u, i, b, c), Points(u, j, d, c)
      PROVE  i = j /\ b = d
  <2>1. ~IsTerminal(u[i].leaves[b]) /\ ~IsTerminal(u[j].leaves[d])
    BY <1>3, LeafForms DEF Points
  <2>2. Points(t, i, b, c) /\ Points(t, j, d, c)
    BY <1>3, <2>1 DEF Points
  <2>3. QED BY <2>2 DEF TreeOK
<1>4. QED BY <1>1, <1>2, <1>3 DEF TreeOK

(* The index of a new ply is free.                                         *)
LEMMA NewPlyIndexFree ==
  ASSUME NEW t, IsFiniteSet(DOMAIN t)
  PROVE  /\ NewPlyIndex(t) \notin DOMAIN t
         /\ DOMAIN t = {} => NewPlyIndex(t) = 0
<1>1. PICK n \in Nat : n = Cardinality(DOMAIN t)
  BY FS_CardinalityType
<1>2. ASSUME 0 .. n \subseteq DOMAIN t PROVE FALSE
  <2>1. Cardinality(0 .. n) = n + 1
    BY FS_Interval
  <2>2. Cardinality(0 .. n) <= Cardinality(DOMAIN t)
    BY <1>2, FS_Subset
  <2>3. QED BY <1>1, <2>1, <2>2
<1>3. \E i \in 0 .. n : i \notin DOMAIN t
  BY <1>2
<1>4. NewPlyIndex(t) \in 0 .. n /\ NewPlyIndex(t) \notin DOMAIN t
  BY <1>1, <1>3 DEF NewPlyIndex
<1>5. DOMAIN t = {} => n = 0
  BY <1>1, FS_EmptySet
<1>6. QED BY <1>4, <1>5
-----------------------------------------------------------------------------
(* Painting a span keeps the tree.                                         *)
LEMMA LeavesOfSpan ==
  ASSUME NEW t, NEW pi, NEW S, NEW l, NEW n, NEW i \in DOMAIN t, NEW b \in Bytes
  PROVE  LET range == IF i = pi THEN b \in S
                      ELSE i \in PliesBelow(t, PliesAt(t[pi], S))
             put == range /\ IsTerminal(t[i].leaves[b]) /\ n >= t[i].lens[b]
             u == SetSpan(t, pi, S, l, n)
         IN /\ u[i].leaves[b] = IF put THEN l ELSE t[i].leaves[b]
            /\ u[i].lens[b] = IF put THEN n ELSE t[i].lens[b]
<1>1. PICK below : below = PliesBelow(t, PliesAt(t[pi], S))
  OBVIOUS
<1>2. PICK u : u = SetSpan(t, pi, S, l, n)
  OBVIOUS
<1>3. u[i] = IF i = pi THEN PutLeaves(t[i], S, l, n)
             ELSE IF i \in below THEN PutLeaves(t[i], Bytes, l, n) ELSE t[i]
  BY <1>1, <1>2 DEF SetSpan
<1>4. CASE i = pi
  <2>1. u[i] = PutLeaves(t[i], S, l, n)
    BY <1>3, <1>4
  <2>2. QED BY <1>2, <1>4, <2>1, LeavesOfPut
<1>5. CASE i # pi /\ i \in below
  <2>1. u[i] = PutLeaves(t[i], Bytes, l, n)
    BY <1>3, <1>5
  <2>2. QED BY <1>1, <1>2, <1>5, <2>1, LeavesOfPut
<1>6. CASE i # pi /\ i \notin below
  <2>1. u[i] = t[i]
    BY <1>3, <1>6
  <2>2. QED BY <1>1, <1>2, <1>6, <2>1
<1>7. QED BY <1>4, <1>5, <1>6

LEMMA SetSpanTree ==
  ASSUME NEW t, TreeOK(t), NEW pi, NEW S, NEW l, IsTerminal(l), NEW n
  PROVE  /\ DOMAIN SetSpan(t, pi, S, l, n) = DOMAIN t
         /\ TreeOK(SetSpan(t, pi, S, l, n))
<1>1. PICK u : u = SetSpan(t, pi, S, l, n)
  OBVIOUS
<1>2. DOMAIN u = DOMAIN t
  BY <1>1 DEF SetSpan
<1>3. ASSUME NEW i \in DOMAIN u, NEW b \in Bytes, ~IsTerminal(u[i].leaves[b])
      PROVE  /\ u[i].leaves[b] = t[i].leaves[b]
             /\ t[i].leaves[b].ply \in DOMAIN u
  <2>1. u[i].leaves[b] = l \/ u[i].leaves[b] = t[i].leaves[b]
    BY <1>1, <1>2, LeavesOfSpan
  <2>2. u[i].leaves[b] = t[i].leaves[b]
    BY <1>3, <2>1
  <2>3. t[i].leaves[b].ply \in DOMAIN t
    BY <1>2, <1>3, <2>2, PointerForm
  <2>4. QED BY <1>2, <2>2, <2>3
<1>4. 0 \in DOMAIN u
  BY <1>2 DEF TreeOK
<1>5. TreeOK(u)
  BY <1>2, <1>3, <1>4, TreeKept
<1>6. QED BY <1>1, <1>2, <1>5

(* What Enter leads to: the ply the leaf points to, or a new one with the  *)
(* leaf in all places.                                                     *)
LEMMA EnterOld ==
  ASSUME NEW t, NEW pi, NEW k, ~IsTerminal(t[pi].leaves[k])
  PROVE  /\ Enter(t, pi, k).plys = t
         /\ Enter(t, pi, k).at = t[pi].leaves[k].ply
BY DEF Enter

LEMMA EnterNew ==
  ASSUME NEW t, IsFiniteSet(DOMAIN t), NEW pi \in DOMAIN t, NEW k \in Bytes,
         IsTerminal(t[pi].leaves[k])
  PROVE  \E np : np \notin DOMAIN t /\ LET e == Enter(t, pi, k) IN
    /\ e.at = np /\ DOMAIN e.plys = DOMAIN t \cup {np}
    /\ \A b \in Bytes :
         /\ e.plys[np].leaves[b] = t[pi].leaves[k]
         /\ e.plys[np].lens[b] = t[pi].lens[k]
    /\ \A i \in DOMAIN t, b \in Bytes :
         /\ e.plys[i].leaves[b] = IF i = pi /\ b = k THEN PlyLeaf(np)
                                  ELSE t[i].leaves[b]
         /\ e.plys[i].lens[b] = IF i = pi /\ b = k THEN 0 ELSE t[i].lens[b]
<1>1. PICK np : np = NewPlyIndex(t)
  OBVIOUS
<1>2. np \notin DOMAIN t
  BY <1>1, NewPlyIndexFree
<1>3. PICK u, count :
        /\ u = [i \in DOMAIN t \cup {np} |->
                  IF i = np THEN InitPly(t[pi].leaves[k], t[pi].lens[k])
                  ELSE IF i = pi
                    THEN WithLeaves(t[i], {k}, PlyLeaf(np), 0, count)
                  ELSE t[i]]
        /\ Enter(t, pi, k) = [plys |-> u, at |-> np]
  BY <1>1, Zenon DEF Enter
<1>4. Enter(t, pi, k).plys = u /\ Enter(t, pi, k).at = np
  BY <1>3
<1>5. DOMAIN u = DOMAIN t \cup {np} /\ u[np] = InitPly(t[pi].leaves[k], t[pi].lens[k])
  BY <1>3
<1>6. ASSUME NEW b \in Bytes
      PROVE u[np].leaves[b] = t[pi].leaves[k] /\ u[np].lens[b] = t[pi].lens[k]
  BY <1>5, LeavesOfInit
<1>7. ASSUME NEW i \in DOMAIN t, NEW b \in Bytes
      PROVE  /\ u[i].leaves[b] = IF i = pi /\ b = k THEN PlyLeaf(np)
                                 ELSE t[i].leaves[b]
             /\ u[i].lens[b] = IF i = pi /\ b = k THEN 0 ELSE t[i].lens[b]
  <2>1. u[i] = IF i = pi THEN WithLeaves(t[i], {k}, PlyLeaf(np), 0, count) ELSE t[i]
    BY <1>2, <1>3
  <2>2. CASE i = pi
    <3>1. u[i] = WithLeaves(t[i], {k}, PlyLeaf(np), 0, count)
      BY <2>1, <2>2
    <3>2. QED BY <2>2, <3>1, LeavesOfWith
  <2>3. CASE i # pi
    BY <2>1, <2>3
  <2>4. QED BY <2>2, <2>3
<1>8. QED BY <1>2, <1>4, <1>5, <1>6, <1>7

(* Entering a ply keeps the tree.                                          *)
LEMMA EnterTree ==
  ASSUME NEW t, TreeOK(t), NEW pi \in DOMAIN t, NEW k \in Bytes
  PROVE  LET e == Enter(t, pi, k) IN TreeOK(e.plys) /\ e.at \in DOMAIN e.plys
<1>1. CASE ~IsTerminal(t[pi].leaves[k])
  BY <1>1, EnterOld, PointerForm
<1>2. CASE IsTerminal(t[pi].leaves[k])
  <2>1. PICK e : e = Enter(t, pi, k)
    OBVIOUS
  <2>2. PICK u : u = e.plys
    OBVIOUS
  <2>3. PICK np :
          /\ np \notin DOMAIN t /\ e.at = np /\ DOMAIN u = DOMAIN t \cup {np}
          /\ \A b \in Bytes : u[np].leaves[b] = t[pi].leaves[k]
          /\ \A i \in DOMAIN t, b \in Bytes :
               u[i].leaves[b] = IF i = pi /\ b = k THEN PlyLeaf(np)
                                ELSE t[i].leaves[b]
    <3>1. IsFiniteSet(DOMAIN t)
      BY DEF TreeOK
    <3>2. QED BY <1>2, <2>1, <2>2, <3>1, EnterNew
  <2>4. IsFiniteSet(DOMAIN u) /\ 0 \in DOMAIN u /\ np # 0
    BY <2>3, FS_AddElement DEF TreeOK
  <2>5. ASSUME NEW i \in DOMAIN u, NEW b \in Bytes, ~IsTerminal(u[i].leaves[b])
        PROVE  \/ i = pi /\ b = k /\ Points(u, i, b, np)
               \/ /\ i \in DOMAIN t /\ ~(i = pi /\ b = k)
                  /\ u[i].leaves[b] = t[i].leaves[b]
    BY <1>2, <2>3, <2>5 DEF Points
  <2>6. ASSUME NEW i \in DOMAIN u, NEW b \in Bytes, ~IsTerminal(u[i].leaves[b])
        PROVE  \E c \in DOMAIN u \ {0} : Points(u, i, b, c)
    <3>1. CASE i = pi /\ b = k /\ Points(u, i, b, np)
      BY <2>3, <2>4, <3>1
    <3>2. CASE i \in DOMAIN t /\ u[i].leaves[b] = t[i].leaves[b]
      <4>1. PICK c \in DOMAIN t \ {0} : Points(t, i, b, c)
        BY <2>6, <3>2 DEF TreeOK
      <4>2. QED BY <2>3, <3>2, <4>1 DEF Points
    <3>3. QED BY <2>5, <2>6, <3>1, <3>2
  <2>7. ASSUME NEW i \in DOMAIN u, NEW j \in DOMAIN u, NEW b \in Bytes,
               NEW d \in Bytes, NEW c \in DOMAIN u,
               Points(u, i, b, c), Points(u, j, d, c)
        PROVE  i = j /\ b = d
    <3>1. ~IsTerminal(u[i].leaves[b]) /\ ~IsTerminal(u[j].leaves[d])
      BY <2>7, LeafForms DEF Points
    <3>2. ASSUME NEW x \in DOMAIN t, NEW y \in Bytes, Points(t, x, y, np)
          PROVE  FALSE
      <4>1. ~IsTerminal(t[x].leaves[y]) /\ t[x].leaves[y].ply = np
        BY <3>2, LeafForms DEF Points
      <4>2. QED BY <2>3, <4>1, PointerForm
    <3>3. ASSUME NEW x, NEW y, Points(u, x, y, c), Points(u, x, y, np) PROVE c = np
      BY <3>3, LeafForms DEF Points
    <3>4. CASE c = np
      BY <2>5, <2>7, <3>1, <3>2, <3>4 DEF Points
    <3>5. CASE c # np
      <4>1. /\ i \in DOMAIN t /\ Points(t, i, b, c)
            /\ j \in DOMAIN t /\ Points(t, j, d, c)
        BY <2>5, <2>7, <3>1, <3>3, <3>5 DEF Points
      <4>2. c \in DOMAIN t
        BY <2>3, <3>5
      <4>3. QED BY <4>1, <4>2 DEF TreeOK
    <3>6. QED BY <3>4, <3>5
  <2>8. TreeOK(u)
    BY <2>4, <2>6, <2>7 DEF TreeOK
  <2>9. QED BY <2>1, <2>2, <2>3, <2>8
<1>3. QED BY <1>1, <1>2

(* Spans are of bytes.                                                     *)
LEMMA ByteFacts ==
  /\ Byte \in Nat \ {0} /\ AddrBits \in Nat
  /\ ByteBits \in 0 .. AddrBits
<1>1. PICK w \in Nat \ {0}, n \in Nat \ {0} : w = ByteBits /\ n = AddrBytes
  BY TrieAssumption
<1>2. w * n \in Nat /\ w <= w * n
  <2>1. n - 1 \in Nat
    BY <1>1
  <2>2. w * n = w * (n - 1) + w /\ w * (n - 1) \in Nat
    BY <1>1, <2>1
  <2>3. QED BY <1>1, <2>2
<1>3. AddrBits \in Nat /\ ByteBits \in 0 .. AddrBits
  BY <1>1, <1>2 DEF AddrBits
<1>4. 2 ^ ByteBits \in Nat \ {0}
  BY <1>3, TrieAssumption
<1>5. QED BY <1>3, <1>4 DEF Byte

LEMMA SpanInBytes ==
  ASSUME NEW k \in Nat, NEW n, 2 ^ n \in Nat
  PROVE  Span(k, n) \subseteq Bytes
<1>1. PICK w \in Nat : w = 2 ^ n
  OBVIOUS
<1>2. PICK e : e = (k + (w % Byte)) % Byte
  OBVIOUS
<1>3. e \in 0 .. Byte - 1
  BY <1>2, ByteFacts
<1>4. Span(k, n) = k .. e - 1
  BY <1>1, <1>2 DEF Span
<1>5. QED BY <1>3, <1>4, ByteFacts DEF Bytes

LEMMA RangeInBytes ==
  ASSUME NEW s, s.key \in Addresses, s.len \in 1 .. AddrBits
  PROVE  UnsetRange(s, 1) \subseteq Bytes
<1>1. PICK n : n = s.len - ByteBits
  OBVIOUS
<1>2. PICK m : m = IF -n > ByteBits THEN ByteBits ELSE -n
  OBVIOUS
<1>3. PICK k \in Bytes : k = s.key[1]
  BY TrieAssumption DEF Addresses
<1>4. n \in Int /\ n <= AddrBits /\ k \in Nat /\ s.len \in Int
  BY <1>1, <1>3, TrieAssumption, ByteFacts DEF Bytes
<1>5. UnsetRange(s, 1) = IF n > 0 THEN Span(k, n) ELSE Span(k - (k % 2 ^ m), m)
  BY <1>1, <1>2, <1>3, <1>4, TrieAssumption DEF UnsetRange
<1>6. CASE n > 0
  <2>1. n \in 0 .. AddrBits
    BY <1>4, <1>6, ByteFacts
  <2>2. QED BY <1>4, <1>5, <1>6, <2>1, SpanInBytes, TrieAssumption
<1>7. CASE ~(n > 0)
  <2>1. m \in 0 .. ByteBits
    BY <1>2, <1>4, <1>7, TrieAssumption
  <2>2. PICK w \in Nat \ {0} : w = 2 ^ m
    BY <2>1, ByteFacts, TrieAssumption
  <2>3. k - (k % w) \in Nat
    BY <1>4
  <2>4. QED BY <1>5, <1>7, <2>2, <2>3, SpanInBytes
<1>8. QED BY <1>6, <1>7

(* Unsetting keeps the tree: the pointers to freed plys are cleared.       *)
LEMMA UnsetTree ==
  ASSUME NEW t, TreeOK(t),
         NEW s, s.key \in Addresses, s.len \in 1 .. AddrBits
  PROVE  TreeOK(UnsetLeaf(t, s))
<1>1. PICK next : next = PliesAt(t[0], UnsetRange(s, 1))
  OBVIOUS
<1>2. PICK gone, u :
        /\ gone \subseteq next
        /\ u = UnsetLeaf(t, s) /\ DOMAIN u = DOMAIN t \ gone
        /\ 0 \notin gone => u[0] = ClearLeaves(t[0], Matches(t[0], s, 1, gone))
        /\ \A i \in DOMAIN u \ {0} : \/ u[i] = t[i]
                                     \/ \E S : u[i] = ClearLeaves(t[i], S)
  <2> DEFINE M(i) == Matches(t[i], s, 2, {})
             Dropped == {i \in next : t[i].nNonEmpty \in 1 .. Cardinality(M(i))}
             U == [i \in DOMAIN t \ Dropped |->
                    IF i = 0 THEN ClearLeaves(t[i], Matches(t[i], s, 1, Dropped))
                    ELSE IF i \in next THEN ClearLeaves(t[i], M(i))
                    ELSE t[i]]
  <2>1. UnsetLeaf(t, s) = U
    BY <1>1, Zenon DEF UnsetLeaf
  <2>2. Dropped \subseteq next
    OBVIOUS
  <2> HIDE DEF M, Dropped
  <2>3. DOMAIN U = DOMAIN t \ Dropped
    OBVIOUS
  <2>4. 0 \notin Dropped => U[0] = ClearLeaves(t[0], Matches(t[0], s, 1, Dropped))
    BY DEF TreeOK
  <2>5. \A i \in DOMAIN U \ {0} : \/ U[i] = t[i]
                                  \/ U[i] = ClearLeaves(t[i], M(i))
    OBVIOUS
  <2> HIDE DEF U
  <2>6. QED BY <2>1, <2>2, <2>3, <2>4, <2>5
<1>3. ASSUME NEW i \in gone
      PROVE  /\ i # 0
             /\ \E b \in Bytes : b \in UnsetRange(s, 1) /\ Points(t, 0, b, i)
  <2>1. PICK b \in UnsetRange(s, 1) :
          ~IsTerminal(t[0].leaves[b]) /\ i = t[0].leaves[b].ply
    BY <1>1, <1>2 DEF PliesAt
  <2>2. b \in Bytes
    BY RangeInBytes
  <2>3. QED BY <2>1, <2>2, PointerForm DEF TreeOK
<1>4. 0 \in DOMAIN u
  BY <1>2, <1>3 DEF TreeOK
<1>5. ASSUME NEW i \in DOMAIN u, NEW b \in Bytes
      PROVE  \/ IsTerminal(u[i].leaves[b])
             \/ /\ u[i].leaves[b] = t[i].leaves[b]
                /\ t[i].leaves[b].ply \in DOMAIN u
  <2>1. ASSUME ~IsTerminal(u[i].leaves[b])
        PROVE  u[i].leaves[b] = t[i].leaves[b]
    <3>1. CASE u[i] = t[i]
      BY <3>1
    <3>2. ASSUME NEW S, u[i] = ClearLeaves(t[i], S)
          PROVE  u[i].leaves[b] = t[i].leaves[b]
      BY <2>1, <3>2, LeavesOfClear, EmptyForm
    <3>3. QED BY <1>2, <1>3, <3>1, <3>2
  <2>2. ASSUME ~IsTerminal(u[i].leaves[b]), t[i].leaves[b].ply \notin DOMAIN u
        PROVE  FALSE
    <3>1. ~IsTerminal(t[i].leaves[b])
      BY <2>1, <2>2
    <3>2. PICK c : c = t[i].leaves[b].ply
      OBVIOUS
    <3>3. c \in DOMAIN t /\ Points(t, i, b, c)
      BY <1>2, <3>1, <3>2, PointerForm
    <3>4. c \in gone
      BY <1>2, <2>2, <3>2, <3>3
    <3>5. PICK d \in Bytes : d \in UnsetRange(s, 1) /\ Points(t, 0, d, c)
      BY <1>3, <3>4
    <3>6. i = 0 /\ b = d
      BY <1>2, <3>3, <3>5 DEF TreeOK
    <3>7. b \in Matches(t[0], s, 1, gone)
      BY <3>4, <3>5, <3>6 DEF Matches, Points
    <3>8. u[0] = ClearLeaves(t[0], Matches(t[0], s, 1, gone))
      BY <1>2, <1>3
    <3>9. u[i].leaves[b] = EmptyLeaf
      BY <3>6, <3>7, <3>8, LeavesOfClear
    <3>10. QED BY <2>2, <3>9, EmptyForm
  <2>3. QED BY <2>1, <2>2
<1>6. TreeOK(u)
  BY <1>2, <1>4, <1>5, TreeKept
<1>7. QED BY <1>2, <1>6
-----------------------------------------------------------------------------
(* One step of the descent along a key.                                    *)
PathStep(f, t, s, j) ==
  IF j = 1 THEN [plys |-> t, at |-> 0]
  ELSE Enter(f[j - 1].plys, f[j - 1].at, s.key[j - 1])

IsPath(f, t, s, n) == f = [j \in 1 .. n |-> PathStep(f, t, s, j)]

(* There is such a function, so the recursive definition means what it     *)
(* says.                                                                   *)
LEMMA PathExists ==
  ASSUME NEW t, NEW s, NEW last \in Nat
  PROVE  \E f : IsPath(f, t, s, last)
<1> DEFINE Bad == {n \in Nat : ~ \E f : IsPath(f, t, s, n)}
<1>1. \E f : IsPath(f, t, s, 0)
  <2>1. PICK f : f = [j \in 1 .. 0 |-> 0]
    OBVIOUS
  <2>2. f = [j \in 1 .. 0 |-> PathStep(f, t, s, j)]
    BY <2>1
  <2>3. QED BY <2>2 DEF IsPath
<1>2. ASSUME NEW n \in Nat, NEW f, IsPath(f, t, s, n)
      PROVE  \E g : IsPath(g, t, s, n + 1)
  <2>1. PICK g : g = [j \in 1 .. n + 1 |->
                        IF j = n + 1 THEN PathStep(f, t, s, j) ELSE f[j]]
    OBVIOUS
  <2>2. ASSUME NEW j \in 1 .. n PROVE g[j] = f[j] /\ f[j] = PathStep(f, t, s, j)
    <3>1. g[j] = f[j]
      BY <2>1
    <3>2. f[j] = PathStep(f, t, s, j)
      BY <1>2 DEF IsPath
    <3>3. QED BY <3>1, <3>2
  <2>3. ASSUME NEW j \in 1 .. n + 1 PROVE g[j] = PathStep(f, t, s, j)
    BY <2>1, <2>2
  <2>4. ASSUME NEW j \in 1 .. n + 1
        PROVE  PathStep(f, t, s, j) = PathStep(g, t, s, j)
    <3>1. CASE j = 1
      BY <3>1 DEF PathStep
    <3>2. CASE j # 1
      <4>1. g[j - 1] = f[j - 1]
        BY <2>2, <3>2
      <4>2. QED BY <3>2, <4>1 DEF PathStep
    <3>3. QED BY <3>1, <3>2
  <2>5. g = [j \in 1 .. n + 1 |-> g[j]]
    BY <2>1
  <2>6. g = [j \in 1 .. n + 1 |-> PathStep(g, t, s, j)]
    BY <2>3, <2>4, <2>5
  <2>7. QED BY <2>6 DEF IsPath
<1>3. Bad = {}
  <2>1. ASSUME Bad # {} PROVE FALSE
    <3>1. PICK n \in Bad : \A m \in Bad : n <= m
      BY <2>1, LeastOfNat
    <3>2. n \in Nat /\ n # 0
      BY <1>1
    <3>3. n - 1 \in Nat /\ n - 1 \notin Bad
      BY <3>1, <3>2
    <3>4. PICK f : IsPath(f, t, s, n - 1)
      BY <3>3
    <3>5. \E g : IsPath(g, t, s, n - 1 + 1)
      BY <1>2, <3>3, <3>4
    <3>6. n - 1 + 1 = n
      BY <3>2
    <3>7. QED BY <3>5, <3>6
  <2>2. QED BY <2>1
<1>4. QED BY <1>3

LEMMA DescendStep ==
  ASSUME NEW t, NEW s, LastByte(s.len) \in Nat
  PROVE  \A j \in 1 .. LastByte(s.len) :
           Descend(t, s)[j] = PathStep(Descend(t, s), t, s, j)
<1>1. PICK f : IsPath(f, t, s, LastByte(s.len))
  BY PathExists
<1>2. Descend(t, s) = CHOOSE g : IsPath(g, t, s, LastByte(s.len))
  BY DEF Descend, IsPath, PathStep
<1>3. IsPath(Descend(t, s), t, s, LastByte(s.len))
  BY <1>1, <1>2
<1>4. QED BY <1>3 DEF IsPath

(* The byte in which a key of this length ends.                            *)
LEMMA LastByteFacts ==
  ASSUME NEW len \in 1 .. AddrBits
  PROVE  /\ LastByte(len) \in 1 .. AddrBytes
         /\ ByteBits * LastByte(len) - len \in 0 .. ByteBits - 1
<1>1. PICK w \in Nat \ {0}, n \in Nat \ {0} : w = ByteBits /\ n = AddrBytes
  BY TrieAssumption
<1>2. PICK q : q = (len - 1) \div w
  OBVIOUS
<1>3. len - 1 \in Nat /\ len - 1 < w * n /\ w * n \in Nat
  BY <1>1, ByteFacts DEF AddrBits
<1>4. q \in Int /\ w * q <= len - 1 /\ len - 1 < w * q + w
  BY <1>1, <1>2, <1>3
<1>5. q >= 0
  <2>1. ASSUME q <= -1 PROVE FALSE
    <3>1. w * q + w = w * (q + 1) /\ w * (q + 1) <= 0
      BY <1>1, <1>4, <2>1
    <3>2. QED BY <1>3, <1>4, <3>1
  <2>2. QED BY <1>4, <2>1
<1>6. q < n
  <2>1. ASSUME q >= n PROVE FALSE
    <3>1. w * n <= w * q
      BY <1>1, <1>4, <2>1
    <3>2. QED BY <1>3, <1>4, <3>1
  <2>2. QED BY <1>1, <1>4, <2>1
<1>7. w * (q + 1) = w * q + w
  BY <1>1, <1>4
<1>8. LastByte(len) = q + 1
  BY <1>1, <1>2 DEF LastByte
<1>9. QED BY <1>1, <1>4, <1>5, <1>6, <1>7, <1>8

(* Setting keeps the tree.                                                 *)
LEMMA SetTree ==
  ASSUME NEW t, TreeOK(t),
         NEW s, s.key \in Addresses, s.len \in 1 .. AddrBits
  PROVE  TreeOK(SetLeaf(t, s))
<1>1. PICK last : last = LastByte(s.len)
  OBVIOUS
<1>2. last \in 1 .. AddrBytes /\ last \in Nat
  BY <1>1, LastByteFacts, TrieAssumption
<1>3. PICK f : f = Descend(t, s)
  OBVIOUS
<1>4. \A j \in 1 .. last : f[j] = PathStep(f, t, s, j)
  BY <1>1, <1>2, <1>3, DescendStep
<1> DEFINE OK(j) == TreeOK(f[j].plys) /\ f[j].at \in DOMAIN f[j].plys
           Bad == {j \in 1 .. last : ~OK(j)}
<1>5. OK(1)
  <2>1. f[1] = [plys |-> t, at |-> 0]
    BY <1>2, <1>4 DEF PathStep
  <2>2. f[1].plys = t /\ f[1].at = 0
    BY <2>1
  <2>3. QED BY <2>2 DEF TreeOK
<1>6. ASSUME NEW j \in 1 .. last, j # 1, OK(j - 1) PROVE OK(j)
  <2>1. f[j] = Enter(f[j - 1].plys, f[j - 1].at, s.key[j - 1])
    BY <1>4, <1>6 DEF PathStep
  <2>2. s.key[j - 1] \in Bytes
    <3>1. j - 1 \in 1 .. AddrBytes
      BY <1>2, <1>6, TrieAssumption
    <3>2. QED BY <3>1 DEF Addresses
  <2>3. QED BY <1>6, <2>1, <2>2, EnterTree
<1> HIDE DEF OK
<1>7. Bad = {}
  <2>1. ASSUME Bad # {} PROVE FALSE
    <3>1. PICK j \in Bad : \A m \in Bad : j <= m
      <4>1. Bad \in SUBSET Nat
        BY <1>2
      <4> HIDE DEF Bad
      <4>2. QED BY <2>1, <4>1, LeastOfNat
    <3>2. j \in 1 .. last /\ ~OK(j)
      OBVIOUS
    <3>3. j # 1
      BY <1>5, <3>2
    <3>4. j - 1 \in 1 .. last
      BY <1>2, <3>2, <3>3
    <3>5. j - 1 \notin Bad
      <4>1. j \in Int /\ ~(j <= j - 1)
        BY <1>2, <3>2
      <4>2. QED BY <3>1, <4>1
    <3>6. QED BY <1>6, <3>2, <3>3, <3>4, <3>5
  <2>2. QED BY <2>1
<1>8. OK(last)
  BY <1>2, <1>7
<1> HIDE DEF OK, Bad
<1>9. SetLeaf(t, s) = SetSpan(f[last].plys, f[last].at,
                              Span(s.key[last], ByteBits * last - s.len),
                              SetResult(s.adj), s.len)
  BY <1>1, <1>3 DEF SetLeaf
<1>10. QED BY <1>8, <1>9, SetSpanTree, LeafForms DEF OK
-----------------------------------------------------------------------------
(* The byte of an address that ply i is about.                             *)
ByteAt(d, i, a) == a[d[i] + 1]

(* Ply i is for byte d[i] + 1 of the addresses R[i]: all for the root, and *)
(* for other plys those that go through the one leaf that points to them.  *)
Shape(t, R, d) ==
  /\ TreeOK(t)
  /\ \A i \in DOMAIN t : R[i] \subseteq Addresses /\ d[i] \in 0 .. AddrBytes - 1
  /\ R[0] = Addresses /\ d[0] = 0
  /\ \A i, c \in DOMAIN t, b \in Bytes : Points(t, i, b, c) =>
       /\ d[c] = d[i] + 1
       /\ R[c] = {a \in R[i] : ByteAt(d, i, a) = b}
  /\ \A c \in DOMAIN t \ {0} : \E i \in DOMAIN t, b \in Bytes : Points(t, i, b, c)

(* The plys below a set of plys.                                           *)
LEMMA BelowStep ==
  ASSUME NEW t, NEW P, NEW i \in PliesBelow(t, P), NEW b \in Bytes,
         NEW c \in DOMAIN t, Points(t, i, b, c)
  PROVE  c \in PliesBelow(t, P)
<1>1. ASSUME NEW Q \in SUBSET DOMAIN t, P \subseteq Q, Closed(t, Q)
      PROVE  c \in Q
  <2>1. i \in Q
    BY <1>1 DEF PliesBelow
  <2>2. ~IsTerminal(t[i].leaves[b]) /\ t[i].leaves[b].ply = c
    BY LeafForms DEF Points
  <2>3. c \in PliesAt(t[i], Bytes)
    BY <2>2 DEF PliesAt
  <2>4. QED BY <1>1, <2>1, <2>3 DEF Closed
<1>2. QED BY <1>1 DEF PliesBelow

LEMMA BelowBase ==
  ASSUME NEW t, NEW P, NEW c \in DOMAIN t, c \in P
  PROVE  c \in PliesBelow(t, P)
BY DEF PliesBelow

LEMMA BelowWithin ==
  ASSUME NEW t, NEW P, NEW Q \in SUBSET DOMAIN t, P \subseteq Q, Closed(t, Q)
  PROVE  PliesBelow(t, P) \subseteq Q
BY DEF PliesBelow

LEMMA BelowGrows ==
  ASSUME NEW t, NEW P, NEW Q, P \subseteq Q
  PROVE  PliesBelow(t, P) \subseteq PliesBelow(t, Q)
BY DEF PliesBelow

(* Ply i is where the path of a goes through on its way to ply j.          *)
Through(t, d, i, j, a) ==
  /\ ~IsTerminal(t[i].leaves[ByteAt(d, i, a)])
  /\ j \in PliesBelow(t, {t[i].leaves[ByteAt(d, i, a)].ply})

(* Plys that share an address are one above the other, on its path.        *)
Apart(t, R, d, n) ==
  \A i, j \in DOMAIN t, a \in Addresses :
    (a \in R[i] /\ a \in R[j] /\ d[i] <= d[j] /\ d[j] = n) =>
      i = j \/ (d[i] < d[j] /\ Through(t, d, i, j, a))

LEMMA ApartStep ==
  ASSUME NEW t, NEW R, NEW d, Shape(t, R, d), NEW n \in Nat,
         n # 0 => Apart(t, R, d, n - 1)
  PROVE  Apart(t, R, d, n)
<1>1. ASSUME NEW i \in DOMAIN t, NEW j \in DOMAIN t, NEW a \in Addresses,
             a \in R[i], a \in R[j], d[i] <= d[j], d[j] = n
      PROVE  i = j \/ (d[i] < d[j] /\ Through(t, d, i, j, a))
  <2>1. d[i] \in Nat /\ d[j] \in Nat /\ d[0] = 0
    BY TrieAssumption DEF Shape
  <2>2. CASE j = 0
    <3>1. d[i] = 0
      BY <1>1, <2>1, <2>2
    <3>2. ASSUME i # 0 PROVE FALSE
      <4>1. PICK h \in DOMAIN t, b \in Bytes : Points(t, h, b, i)
        BY <3>2 DEF Shape
      <4>2. d[i] = d[h] + 1 /\ d[h] \in Nat
        BY <4>1, TrieAssumption DEF Shape
      <4>3. QED BY <3>1, <4>2
    <3>3. QED BY <2>2, <3>2
  <2>3. CASE j # 0
    <3>1. PICK q \in DOMAIN t, b \in Bytes : Points(t, q, b, j)
      BY <2>3 DEF Shape
    <3>2. /\ d[j] = d[q] + 1 /\ d[q] \in Nat
          /\ a \in R[q] /\ ByteAt(d, q, a) = b
      BY <1>1, <3>1, TrieAssumption DEF Shape
    <3>3. n # 0 /\ d[q] = n - 1
      BY <1>1, <3>2
    <3>4. /\ ~IsTerminal(t[q].leaves[b]) /\ t[q].leaves[b].ply = j
      BY <3>1, LeafForms DEF Points
    <3>5. Apart(t, R, d, n - 1)
      BY <3>3
    <3>6. CASE d[i] = n
      <4>1. i # 0
        BY <2>1, <3>3, <3>6
      <4>2. PICK r \in DOMAIN t, c \in Bytes : Points(t, r, c, i)
        BY <4>1 DEF Shape
      <4>3. /\ d[i] = d[r] + 1 /\ d[r] \in Nat
            /\ a \in R[r] /\ ByteAt(d, r, a) = c
        BY <1>1, <4>2, TrieAssumption DEF Shape
      <4>4. d[r] = n - 1
        BY <3>6, <4>3
      <4>5. r = q
        BY <3>2, <3>3, <3>5, <4>3, <4>4 DEF Apart
      <4>6. b = c
        BY <3>2, <4>3, <4>5
      <4>7. t[q].leaves[b].ply = i
        BY <4>2, <4>5, <4>6, LeafForms DEF Points
      <4>8. QED BY <3>4, <4>7
    <3>7. CASE d[i] # n
      <4>1. d[i] <= d[q] /\ d[i] < d[j]
        BY <1>1, <2>1, <3>2, <3>3, <3>7
      <4>2. i = q \/ (d[i] < d[q] /\ Through(t, d, i, q, a))
        BY <1>1, <3>2, <3>3, <3>5, <4>1 DEF Apart
      <4>3. CASE i = q
        <5>1. j \in PliesBelow(t, {j})
          BY BelowBase
        <5>2. QED BY <3>2, <3>4, <4>1, <4>3, <5>1 DEF Through
      <4>4. CASE Through(t, d, i, q, a)
        <5>1. j \in PliesBelow(t, {t[i].leaves[ByteAt(d, i, a)].ply})
          BY <3>1, <4>4, BelowStep DEF Through
        <5>2. QED BY <4>1, <4>4, <5>1 DEF Through
      <4>5. QED BY <4>2, <4>3, <4>4
    <3>8. QED BY <3>6, <3>7
  <2>4. QED BY <2>2, <2>3
<1>2. QED BY <1>1 DEF Apart

LEMMA OnePath ==
  ASSUME NEW t, NEW R, NEW d, Shape(t, R, d),
         NEW i \in DOMAIN t, NEW j \in DOMAIN t, NEW a,
         a \in R[i], a \in R[j], d[i] <= d[j]
  PROVE  i = j \/ (d[i] < d[j] /\ Through(t, d, i, j, a))
<1> DEFINE Bad == {n \in Nat : ~Apart(t, R, d, n)}
<1>1. Bad = {}
  <2>1. ASSUME Bad # {} PROVE FALSE
    <3>1. PICK n \in Bad : \A m \in Bad : n <= m
      BY <2>1, LeastOfNat
    <3>2. n \in Nat /\ ~Apart(t, R, d, n)
      OBVIOUS
    <3>3. ASSUME n # 0 PROVE Apart(t, R, d, n - 1)
      <4>1. n - 1 \in Nat /\ ~(n <= n - 1)
        BY <3>2, <3>3
      <4>2. n - 1 \notin Bad
        BY <3>1, <4>1
      <4>3. QED BY <4>1, <4>2
    <3>4. QED BY <3>2, <3>3, ApartStep
  <2>2. QED BY <2>1
<1>2. d[j] \in Nat /\ a \in Addresses
  BY TrieAssumption DEF Shape
<1>3. Apart(t, R, d, d[j])
  BY <1>1, <1>2
<1>4. QED BY <1>2, <1>3 DEF Apart

(* The plys below leaves S of ply pi are for addresses that go through     *)
(* these leaves.                                                           *)
LEMMA BelowSpan ==
  ASSUME NEW t, NEW R, NEW d, Shape(t, R, d), NEW pi \in DOMAIN t,
         NEW S \in SUBSET Bytes, NEW i \in PliesBelow(t, PliesAt(t[pi], S))
  PROVE  \A a \in R[i] : a \in R[pi] /\ ByteAt(d, pi, a) \in S
<1> DEFINE Q == {j \in DOMAIN t : \A a \in R[j] : a \in R[pi] /\ ByteAt(d, pi, a) \in S}
<1>1. TreeOK(t)
  BY DEF Shape
<1>2. ASSUME NEW j \in DOMAIN t, NEW c \in PliesAt(t[j], Bytes)
      PROVE  \E b \in Bytes : c \in DOMAIN t /\ Points(t, j, b, c)
  <2>1. PICK b \in Bytes : ~IsTerminal(t[j].leaves[b]) /\ c = t[j].leaves[b].ply
    BY <1>2 DEF PliesAt
  <2>2. QED BY <1>1, <2>1, PointerForm
<1>3. PliesAt(t[pi], S) \subseteq Q
  <2>1. ASSUME NEW c \in PliesAt(t[pi], S) PROVE c \in Q
    <3>1. PICK b \in S : ~IsTerminal(t[pi].leaves[b]) /\ c = t[pi].leaves[b].ply
      BY DEF PliesAt
    <3>2. c \in DOMAIN t /\ Points(t, pi, b, c)
      BY <1>1, <3>1, PointerForm
    <3>3. R[c] = {a \in R[pi] : ByteAt(d, pi, a) = b}
      BY <3>2 DEF Shape
    <3>4. QED BY <3>2, <3>3
  <2>2. QED BY <2>1
<1>4. Closed(t, Q)
  <2>1. ASSUME NEW j \in Q, NEW c \in PliesAt(t[j], Bytes) PROVE c \in Q
    <3>1. PICK b \in Bytes : c \in DOMAIN t /\ Points(t, j, b, c)
      BY <1>2
    <3>2. R[c] \subseteq R[j]
      BY <3>1 DEF Shape
    <3>3. QED BY <3>1, <3>2
  <2>2. QED BY <2>1 DEF Closed
<1>5. i \in Q
  BY <1>3, <1>4, BelowWithin
<1>6. QED BY <1>5
-----------------------------------------------------------------------------
(* p is painted, and for addresses that it covers.                         *)
Paints(p, a) == p[2] > 0 /\ Covers(p, a) /\ ~Unpainted(p)

(* The prefixes of a map that are painted for an address.                  *)
Painted(m, a) == {p \in DOMAIN m : Paints(p, a)}

(* A leaf and its length are those of the longest of them.                 *)
Best(m, a, l, n) ==
  /\ Painted(m, a) = {} => l = EmptyLeaf /\ n = 0
  /\ Painted(m, a) # {} =>
       \E p \in Painted(m, a) :
         /\ l = SetResult(m[p]) /\ n = p[2]
         /\ \A q \in Painted(m, a) : q[2] <= n

(* A map of prefixes.                                                      *)
IsMap(m) == DOMAIN m \subseteq TriePrefixes

(* m2 is m with adj for p.                                                 *)
IsAdded(m2, m, p, adj) ==
  /\ DOMAIN m2 = DOMAIN m \cup {p} /\ m2[p] = adj
  /\ \A q \in DOMAIN m \ {p} : m2[q] = m[q]

(* The leaf on the path of every address is the best for it.               *)
Good(t, R, d, m) ==
  /\ Shape(t, R, d)
  /\ \A i \in DOMAIN t, b \in Bytes : t[i].lens[b] \in Nat
  /\ \A i \in DOMAIN t, b \in Bytes : IsTerminal(t[i].leaves[b]) =>
       \A a \in R[i] : ByteAt(d, i, a) = b =>
         Best(m, a, t[i].leaves[b], t[i].lens[b])

LEMMA PrefixType ==
  ASSUME NEW p \in TriePrefixes
  PROVE  p[1] \in Addresses /\ p[2] \in 0 .. AddrBits /\ p[2] \in Nat
BY TrieAssumption, ByteFacts

(* The best leaf after one more prefix is in the map.                      *)
LEMMA BestKept ==
  ASSUME NEW m, NEW p, NEW adj, NEW m2, IsAdded(m2, m, p, adj),
         NEW a, ~Paints(p, a), NEW l, NEW n, Best(m, a, l, n)
  PROVE  Best(m2, a, l, n)
<1>1. Painted(m2, a) = Painted(m, a)
  BY DEF Painted, IsAdded
<1>2. \A q \in Painted(m, a) : m2[q] = m[q]
  BY DEF Painted, IsAdded
<1>3. QED BY <1>1, <1>2 DEF Best

LEMMA BestPut ==
  ASSUME NEW m, IsMap(m), NEW p \in TriePrefixes, NEW adj,
         NEW m2, IsAdded(m2, m, p, adj),
         NEW a, Paints(p, a), NEW l, NEW n \in Nat, Best(m, a, l, n)
  PROVE  /\ p[2] >= n => Best(m2, a, SetResult(adj), p[2])
         /\ ~(p[2] >= n) => Best(m2, a, l, n)
<1>1. Painted(m2, a) = Painted(m, a) \cup {p}
  BY DEF Painted, IsAdded
<1>2. \A q \in Painted(m, a) : q[2] \in Nat /\ q[2] <= n
  <2>1. \A q \in Painted(m, a) : q \in TriePrefixes
    BY DEF Painted, IsMap
  <2>2. \A q \in Painted(m, a) : q[2] <= n
    BY DEF Best
  <2>3. QED BY <2>1, <2>2, PrefixType
<1>3. p[2] \in Nat /\ m2[p] = adj
  BY PrefixType DEF IsAdded
<1>4. CASE p[2] >= n
  <2>1. \A q \in Painted(m2, a) : q[2] <= p[2]
    BY <1>1, <1>2, <1>3, <1>4
  <2>2. QED BY <1>1, <1>3, <1>4, <2>1 DEF Best
<1>5. CASE ~(p[2] >= n)
  <2>1. Painted(m, a) # {}
    BY <1>3, <1>5 DEF Best, Paints
  <2>2. PICK q \in Painted(m, a) :
          l = SetResult(m[q]) /\ n = q[2] /\ \A r \in Painted(m, a) : r[2] <= n
    BY <2>1 DEF Best
  <2>3. q # p /\ m2[q] = m[q]
    BY <1>5, <1>3, <2>2 DEF IsAdded, Painted
  <2>4. \A r \in Painted(m2, a) : r[2] <= n
    BY <1>1, <1>3, <1>5, <2>2
  <2>5. QED BY <1>1, <1>5, <2>1, <2>2, <2>3, <2>4 DEF Best
<1>6. QED BY <1>4, <1>5

(* Painting a span changes the leaves of the addresses that go through it. *)
LEMMA InSpan ==
  ASSUME NEW t, NEW R, NEW d, Shape(t, R, d), NEW pi \in DOMAIN t,
         NEW S \in SUBSET Bytes, NEW i \in DOMAIN t, NEW a \in R[i],
         IsTerminal(t[i].leaves[ByteAt(d, i, a)])
  PROVE  (a \in R[pi] /\ ByteAt(d, pi, a) \in S)
           <=> IF i = pi THEN ByteAt(d, i, a) \in S
               ELSE i \in PliesBelow(t, PliesAt(t[pi], S))
<1>1. CASE i = pi
  BY <1>1
<1>2. ASSUME i # pi, a \in R[pi], ByteAt(d, pi, a) \in S
      PROVE  i \in PliesBelow(t, PliesAt(t[pi], S))
  <2>1. d[i] \in Nat /\ d[pi] \in Nat
    BY TrieAssumption DEF Shape
  <2>2. ~(d[i] <= d[pi])
    BY <1>2, OnePath DEF Through
  <2>3. Through(t, d, pi, i, a)
    BY <1>2, <2>1, <2>2, OnePath
  <2>4. {t[pi].leaves[ByteAt(d, pi, a)].ply} \subseteq PliesAt(t[pi], S)
    BY <1>2, <2>3 DEF Through, PliesAt
  <2>5. QED BY <2>3, <2>4, BelowGrows DEF Through
<1>3. ASSUME i # pi, i \in PliesBelow(t, PliesAt(t[pi], S))
      PROVE  a \in R[pi] /\ ByteAt(d, pi, a) \in S
  BY <1>3, BelowSpan
<1>4. QED BY <1>1, <1>2, <1>3

LEMMA SetSpanGood ==
  ASSUME NEW t, NEW R, NEW d, NEW m, IsMap(m), Good(t, R, d, m),
         NEW pi \in DOMAIN t, NEW S \in SUBSET Bytes,
         NEW p \in TriePrefixes, NEW adj, NEW m2, IsAdded(m2, m, p, adj),
         \A a \in Addresses : Paints(p, a) <=> a \in R[pi] /\ ByteAt(d, pi, a) \in S
  PROVE  Good(SetSpan(t, pi, S, SetResult(adj), p[2]), R, d, m2)
<1>1. PICK l : l = SetResult(adj)
  OBVIOUS
<1>2. PICK u : u = SetSpan(t, pi, S, l, p[2])
  OBVIOUS
<1>3. Shape(t, R, d) /\ IsTerminal(l) /\ p[2] \in Nat
  BY <1>1, LeafForms, PrefixType DEF Good
<1>4. DOMAIN u = DOMAIN t /\ TreeOK(u)
  BY <1>2, <1>3, SetSpanTree DEF Shape
<1> DEFINE Ranges(i, b) == IF i = pi THEN b \in S
                           ELSE i \in PliesBelow(t, PliesAt(t[pi], S))
           Puts(i, b) == /\ Ranges(i, b) /\ IsTerminal(t[i].leaves[b])
                         /\ p[2] >= t[i].lens[b]
<1>5. \A i \in DOMAIN t, b \in Bytes :
        /\ u[i].leaves[b] = IF Puts(i, b) THEN l ELSE t[i].leaves[b]
        /\ u[i].lens[b] = IF Puts(i, b) THEN p[2] ELSE t[i].lens[b]
  BY <1>2, LeavesOfSpan
<1>6. ASSUME NEW i \in DOMAIN t, NEW b \in Bytes, NEW c
      PROVE  Points(u, i, b, c) <=> Points(t, i, b, c)
  <2>1. CASE Puts(i, b)
    BY <1>3, <1>5, <2>1, LeafForms DEF Points
  <2>2. CASE ~Puts(i, b)
    BY <1>5, <2>2 DEF Points
  <2>3. QED BY <2>1, <2>2
<1>7. Shape(u, R, d)
  BY <1>3, <1>4, <1>6 DEF Shape
<1>8. ASSUME NEW i \in DOMAIN t, NEW b \in Bytes PROVE u[i].lens[b] \in Nat
  BY <1>3, <1>5 DEF Good
<1>9. ASSUME NEW i \in DOMAIN t, NEW b \in Bytes, IsTerminal(u[i].leaves[b]),
             NEW a \in R[i], ByteAt(d, i, a) = b
      PROVE  Best(m2, a, u[i].leaves[b], u[i].lens[b])
  <2>1. IsTerminal(t[i].leaves[b])
    BY <1>5, <1>9
  <2>2. a \in Addresses
    BY <1>3 DEF Shape
  <2>3. Paints(p, a) <=> Ranges(i, b)
    BY <1>3, <1>9, <2>1, <2>2, InSpan
  <2>4. /\ Best(m, a, t[i].leaves[b], t[i].lens[b])
        /\ t[i].lens[b] \in Nat
    BY <1>9, <2>1 DEF Good
  <2> HIDE DEF Ranges
  <2>5. CASE ~Ranges(i, b)
    <3>1. u[i].leaves[b] = t[i].leaves[b] /\ u[i].lens[b] = t[i].lens[b]
      BY <1>5, <2>5
    <3>2. QED BY <2>3, <2>4, <2>5, <3>1, BestKept
  <2>6. CASE Ranges(i, b) /\ p[2] >= t[i].lens[b]
    <3>1. u[i].leaves[b] = l /\ u[i].lens[b] = p[2]
      BY <1>5, <2>1, <2>6
    <3>2. QED BY <1>1, <2>3, <2>4, <2>6, <3>1, BestPut
  <2>7. CASE Ranges(i, b) /\ ~(p[2] >= t[i].lens[b])
    <3>1. u[i].leaves[b] = t[i].leaves[b] /\ u[i].lens[b] = t[i].lens[b]
      BY <1>5, <2>7
    <3>2. QED BY <2>3, <2>4, <2>7, <3>1, BestPut
  <2>8. QED BY <2>5, <2>6, <2>7
<1>10. Good(u, R, d, m2)
  BY <1>4, <1>7, <1>8, <1>9 DEF Good
<1>11. QED BY <1>1, <1>2, <1>10
-----------------------------------------------------------------------------
(* Entering a ply keeps the leaves good.                                   *)
LEMMA EnterGood ==
  ASSUME NEW t, NEW R, NEW d, NEW m, Good(t, R, d, m),
         NEW pi \in DOMAIN t, NEW k \in Bytes, d[pi] + 1 < AddrBytes
  PROVE  \E R2, d2 : LET e == Enter(t, pi, k) IN
           /\ Good(e.plys, R2, d2, m) /\ e.at \in DOMAIN e.plys
           /\ d2[e.at] = d[pi] + 1
           /\ R2[e.at] = {a \in R[pi] : ByteAt(d, pi, a) = k}
<1>1. Shape(t, R, d) /\ TreeOK(t) /\ IsFiniteSet(DOMAIN t) /\ 0 \in DOMAIN t
  BY DEF Good, Shape, TreeOK
<1>2. CASE ~IsTerminal(t[pi].leaves[k])
  <2>1. PICK c : c = t[pi].leaves[k].ply
    OBVIOUS
  <2>2. c \in DOMAIN t /\ Points(t, pi, k, c)
    BY <1>1, <1>2, <2>1, PointerForm
  <2>3. d[c] = d[pi] + 1 /\ R[c] = {a \in R[pi] : ByteAt(d, pi, a) = k}
    BY <1>1, <2>2 DEF Shape
  <2>4. Enter(t, pi, k).plys = t /\ Enter(t, pi, k).at = c
    BY <1>2, <2>1, EnterOld
  <2>5. QED BY <2>2, <2>3, <2>4
<1>3. CASE IsTerminal(t[pi].leaves[k])
  <2>1. PICK e : e = Enter(t, pi, k)
    OBVIOUS
  <2>2. PICK u : u = e.plys
    OBVIOUS
  <2>3. PICK np :
          /\ np \notin DOMAIN t /\ e.at = np /\ DOMAIN u = DOMAIN t \cup {np}
          /\ \A b \in Bytes : /\ u[np].leaves[b] = t[pi].leaves[k]
                              /\ u[np].lens[b] = t[pi].lens[k]
          /\ \A i \in DOMAIN t, b \in Bytes :
               /\ u[i].leaves[b] = IF i = pi /\ b = k THEN PlyLeaf(np)
                                   ELSE t[i].leaves[b]
               /\ u[i].lens[b] = IF i = pi /\ b = k THEN 0 ELSE t[i].lens[b]
    BY <1>1, <1>3, <2>1, <2>2, EnterNew
  <2>4. PICK Rn : Rn = {a \in R[pi] : ByteAt(d, pi, a) = k}
    OBVIOUS
  <2>5. PICK R2, d2 :
          /\ R2 = [i \in DOMAIN u |-> IF i = np THEN Rn ELSE R[i]]
          /\ d2 = [i \in DOMAIN u |-> IF i = np THEN d[pi] + 1 ELSE d[i]]
    OBVIOUS
  <2>6. R2[np] = Rn /\ d2[np] = d[pi] + 1
    BY <2>3, <2>5
  <2>7. \A i \in DOMAIN t : R2[i] = R[i] /\ d2[i] = d[i] /\ i # np
    BY <2>3, <2>5
  <2>8. TreeOK(u)
    BY <1>1, <2>1, <2>2, EnterTree
  <2>9. d[pi] \in Nat /\ AddrBytes \in Nat /\ R[pi] \subseteq Addresses
    BY <1>1, TrieAssumption DEF Shape
  <2>10. \A i \in DOMAIN u : R2[i] \subseteq Addresses /\ d2[i] \in 0 .. AddrBytes - 1
    <3>1. Rn \subseteq Addresses /\ d[pi] + 1 \in 0 .. AddrBytes - 1
      BY <2>4, <2>9
    <3>2. \A i \in DOMAIN t : R[i] \subseteq Addresses /\ d[i] \in 0 .. AddrBytes - 1
      BY <1>1 DEF Shape
    <3>3. QED BY <2>3, <2>6, <2>7, <3>1, <3>2
  <2>11. R2[0] = Addresses /\ d2[0] = 0
    BY <1>1, <2>7 DEF Shape
  <2>12. ASSUME NEW x \in DOMAIN t, NEW y \in Bytes, NEW c, Points(t, x, y, c)
         PROVE  c \in DOMAIN t
    <3>1. ~IsTerminal(t[x].leaves[y]) /\ t[x].leaves[y].ply = c
      BY <2>12, LeafForms DEF Points
    <3>2. QED BY <1>1, <3>1, PointerForm
  <2>13. ASSUME NEW i \in DOMAIN u, NEW b \in Bytes, NEW c, Points(u, i, b, c)
         PROVE  \/ i = pi /\ b = k /\ c = np
                \/ i \in DOMAIN t /\ c \in DOMAIN t /\ Points(t, i, b, c)
    <3>1. ~IsTerminal(u[i].leaves[b]) /\ u[i].leaves[b].ply = c
      BY <2>13, LeafForms DEF Points
    <3>2. i # np
      BY <1>3, <2>3, <3>1
    <3>3. i \in DOMAIN t
      BY <2>3, <3>2
    <3>4. CASE i = pi /\ b = k
      BY <2>3, <3>1, <3>4, LeafForms
    <3>5. CASE ~(i = pi /\ b = k)
      <4>1. Points(t, i, b, c)
        BY <2>3, <2>13, <3>3, <3>5 DEF Points
      <4>2. QED BY <2>12, <3>3, <4>1
    <3>6. QED BY <3>4, <3>5
  <2>14. \A i, c \in DOMAIN u, b \in Bytes : Points(u, i, b, c) =>
           /\ d2[c] = d2[i] + 1
           /\ R2[c] = {a \in R2[i] : ByteAt(d2, i, a) = b}
    <3>1. ASSUME NEW i \in DOMAIN u, NEW c \in DOMAIN u, NEW b \in Bytes,
                 Points(u, i, b, c)
          PROVE  /\ d2[c] = d2[i] + 1
                 /\ R2[c] = {a \in R2[i] : ByteAt(d2, i, a) = b}
      <4>1. CASE i = pi /\ b = k /\ c = np
        BY <2>4, <2>6, <2>7, <4>1 DEF ByteAt
      <4>2. CASE i \in DOMAIN t /\ c \in DOMAIN t /\ Points(t, i, b, c)
        <5>1. d[c] = d[i] + 1 /\ R[c] = {a \in R[i] : ByteAt(d, i, a) = b}
          BY <1>1, <4>2 DEF Shape
        <5>2. d2[c] = d[c] /\ d2[i] = d[i] /\ R2[c] = R[c] /\ R2[i] = R[i]
          BY <2>7, <4>2
        <5>3. QED BY <5>1, <5>2 DEF ByteAt
      <4>3. QED BY <2>13, <3>1, <4>1, <4>2
    <3>2. QED BY <3>1
  <2>15. \A c \in DOMAIN u \ {0} : \E i \in DOMAIN u, b \in Bytes : Points(u, i, b, c)
    <3>1. Points(u, pi, k, np)
      BY <2>3 DEF Points
    <3>2. ASSUME NEW c \in DOMAIN t \ {0}
          PROVE  \E i \in DOMAIN u, b \in Bytes : Points(u, i, b, c)
      <4>1. PICK i \in DOMAIN t, b \in Bytes : Points(t, i, b, c)
        BY <1>1 DEF Shape
      <4>2. ~(i = pi /\ b = k)
        BY <1>3, <4>1, LeafForms DEF Points
      <4>3. QED BY <2>3, <4>1, <4>2 DEF Points
    <3>3. QED BY <2>3, <3>1, <3>2
  <2>16. Shape(u, R2, d2)
    BY <2>8, <2>10, <2>11, <2>14, <2>15 DEF Shape
  <2>17. \A i \in DOMAIN u, b \in Bytes : u[i].lens[b] \in Nat
    <3>1. \A i \in DOMAIN t, b \in Bytes : t[i].lens[b] \in Nat
      BY DEF Good
    <3>2. QED BY <2>3, <3>1
  <2>18. ASSUME NEW i \in DOMAIN u, NEW b \in Bytes, IsTerminal(u[i].leaves[b]),
                NEW a \in R2[i], ByteAt(d2, i, a) = b
         PROVE  Best(m, a, u[i].leaves[b], u[i].lens[b])
    <3>1. CASE i = np
      <4>1. a \in R[pi] /\ ByteAt(d, pi, a) = k
        BY <2>4, <2>6, <2>18, <3>1
      <4>2. Best(m, a, t[pi].leaves[k], t[pi].lens[k])
        BY <1>3, <4>1 DEF Good
      <4>3. QED BY <2>3, <3>1, <4>2
    <3>2. CASE i # np
      <4>1. i \in DOMAIN t /\ ~(i = pi /\ b = k)
        BY <2>3, <2>18, <3>2, LeafForms
      <4>2. u[i].leaves[b] = t[i].leaves[b] /\ u[i].lens[b] = t[i].lens[b]
        BY <2>3, <4>1
      <4>3. a \in R[i] /\ ByteAt(d, i, a) = b
        BY <2>7, <2>18, <4>1 DEF ByteAt
      <4>4. QED BY <2>18, <4>1, <4>2, <4>3 DEF Good
    <3>3. QED BY <3>1, <3>2
  <2>19. Good(u, R2, d2, m)
    BY <2>16, <2>17, <2>18 DEF Good
  <2>20. QED BY <2>1, <2>2, <2>3, <2>4, <2>6, <2>19
<1>4. QED BY <1>2, <1>3
-----------------------------------------------------------------------------
(* A byte of an address agrees with a masked byte.                         *)
LEMMA MaskedByte ==
  ASSUME NEW x \in Nat, NEW k \in Nat, NEW w \in Nat \ {0}, k % w = 0
  PROVE  x - (x % w) = k <=> x \in k .. k + w - 1
<1>1. PICK q \in Int : k = w * q
  <2>1. PICK q : q = k \div w
    OBVIOUS
  <2>2. k = w * q + (k % w) /\ q \in Int
    BY <2>1
  <2>3. k = w * q
    BY <2>2
  <2>4. QED BY <2>2, <2>3
<1>2. PICK r \in Int, e \in Int :
        r = x \div w /\ e = x % w /\ x = w * r + e /\ 0 <= e /\ e < w
  <2>1. /\ x = w * (x \div w) + (x % w) /\ x \div w \in Int
        /\ x % w \in Int /\ 0 <= x % w /\ x % w < w
    OBVIOUS
  <2>2. QED BY <2>1
<1>3. x - (x % w) = k => x \in k .. k + w - 1
  BY <1>2
<1>4. ASSUME x \in k .. k + w - 1 PROVE x - (x % w) = k
  <2>1. w * q <= w * r + e /\ w * r + e < w * q + w
    BY <1>1, <1>2, <1>4
  <2>2. ~(r < q)
    <3>1. ASSUME r < q PROVE FALSE
      <4>1. w * r + w = w * (r + 1) /\ w * (r + 1) <= w * q
        BY <1>1, <1>2, <3>1
      <4>2. QED BY <1>1, <1>2, <2>1, <4>1
    <3>2. QED BY <3>1
  <2>3. ~(r > q)
    <3>1. ASSUME r > q PROVE FALSE
      <4>1. w * q + w = w * (q + 1) /\ w * (q + 1) <= w * r
        BY <1>1, <1>2, <3>1
      <4>2. QED BY <1>1, <1>2, <2>1, <4>1
    <3>2. QED BY <3>1
  <2>4. r = q
    BY <1>1, <1>2, <2>2, <2>3
  <2>5. QED BY <1>1, <1>2, <2>4
<1>5. QED BY <1>3, <1>4
-----------------------------------------------------------------------------
(* The bits that a prefix leaves out of each byte.                         *)
LEMMA HostBitsFacts ==
  ASSUME NEW len \in 1 .. AddrBits, NEW j \in 1 .. AddrBytes
  PROVE  HostBits(len, j) =
           IF j < LastByte(len) THEN 0
           ELSE IF j = LastByte(len) THEN ByteBits * LastByte(len) - len
           ELSE ByteBits
<1>1. PICK w \in Nat \ {0}, last \in Nat : w = ByteBits /\ last = LastByte(len)
  BY LastByteFacts, TrieAssumption
<1>2. w * last - len \in 0 .. w - 1 /\ len \in Nat /\ j \in Nat
  BY <1>1, LastByteFacts, TrieAssumption
<1>3. w * (j - 1) = w * j - w
  BY <1>1, <1>2
<1>4. HostBits(len, j) = IF len >= w * j THEN 0
                         ELSE IF len <= w * (j - 1) THEN w ELSE w * j - len
  BY <1>1, <1>2 DEF HostBits
<1>5. CASE j < last
  <2>1. w * j <= w * (last - 1) /\ w * (last - 1) = w * last - w
    BY <1>1, <1>2, <1>5
  <2>2. len >= w * j
    BY <1>1, <1>2, <2>1
  <2>3. QED BY <1>1, <1>4, <1>5, <2>2
<1>6. CASE j = last
  BY <1>1, <1>2, <1>3, <1>4, <1>6
<1>7. CASE j > last
  <2>1. w * last <= w * (j - 1) /\ w * last \in Int /\ w * j \in Int
    BY <1>1, <1>2, <1>7
  <2>2. len <= w * (j - 1) /\ ~(len >= w * j)
    BY <1>1, <1>2, <1>3, <2>1
  <2>3. QED BY <1>1, <1>2, <1>4, <1>7, <2>2
<1>8. QED BY <1>1, <1>2, <1>5, <1>6, <1>7

(* A span ends before the end of the ply, or is empty.                     *)
LEMMA SpanForm ==
  ASSUME NEW k \in Bytes, NEW n \in 0 .. ByteBits - 1, k % 2 ^ n = 0
  PROVE  Span(k, n) = {} \/ Span(k, n) = k .. k + 2 ^ n - 1
<1>1. PICK w \in Nat \ {0} : w = 2 ^ n
  BY ByteFacts, TrieAssumption
<1>2. w < Byte /\ Byte % w = 0 /\ k % w = 0
  BY <1>1, ByteFacts, TrieAssumption
<1>3. PICK b \in Nat \ {0} : b = Byte /\ k \in 0 .. b - 1
  BY ByteFacts DEF Bytes
<1>4. k + w <= b
  <2>1. PICK q, r : q = k \div w /\ r = b \div w
    OBVIOUS
  <2>2. /\ q \in Int /\ k = w * q + (k % w)
        /\ r \in Int /\ b = w * r + (b % w)
    BY <1>3, <2>1
  <2>3. k = w * q /\ b = w * r
    BY <1>2, <1>3, <2>2
  <2>4. q < r
    <3>1. ASSUME r <= q PROVE FALSE
      <4>1. w * r <= w * q
        BY <2>2, <3>1
      <4>2. QED BY <1>3, <2>3, <4>1
    <3>2. QED BY <2>2, <3>1
  <2>5. w * (q + 1) <= w * r /\ w * (q + 1) = w * q + w
    BY <2>2, <2>4
  <2>6. QED BY <2>3, <2>5
<1>5. w % b = w
  BY <1>2, <1>3
<1>6. Span(k, n) = k .. ((k + w) % b) - 1
  BY <1>1, <1>3, <1>5 DEF Span
<1>7. CASE k + w = b
  <2>1. (k + w) % b = 0
    BY <1>3, <1>7
  <2>2. QED BY <1>3, <1>6, <2>1
<1>8. CASE k + w < b
  <2>1. (k + w) % b = k + w
    BY <1>3, <1>8
  <2>2. k \in Nat /\ ((k + w) % b) - 1 = k + w - 1
    BY <1>3, <2>1
  <2>3. Span(k, n) = k .. k + w - 1
    BY <1>6, <2>2
  <2>4. QED BY <1>1, <2>3
<1>9. QED BY <1>3, <1>4, <1>7, <1>8

(* The addresses a prefix is painted for: they agree with it before the    *)
(* byte in which it ends, and this byte is in its span.                    *)
LEMMA PaintsSpan ==
  ASSUME NEW p \in TriePrefixes, p[2] > 0
  PROVE  LET last == LastByte(p[2])
             S == Span(p[1][last], ByteBits * last - p[2])
         IN /\ S \subseteq Bytes
            /\ \A a \in Addresses :
                 Paints(p, a) <=> /\ \A j \in 1 .. last - 1 : a[j] = p[1][j]
                                  /\ a[last] \in S
<1>1. PICK key, len : key = p[1] /\ len = p[2]
  OBVIOUS
<1>2. key \in Addresses /\ len \in 1 .. AddrBits /\ Covers(p, key)
  BY <1>1, PrefixType, TrieAssumption
<1>3. PICK last : last = LastByte(len)
  OBVIOUS
<1>4. PICK n : n = ByteBits * last - len
  OBVIOUS
<1>5. last \in 1 .. AddrBytes /\ n \in 0 .. ByteBits - 1
  BY <1>2, <1>3, <1>4, LastByteFacts
<1>6. PICK k \in Bytes : k = key[last]
  BY <1>2, <1>5 DEF Addresses
<1>7. PICK S : S = Span(k, n)
  OBVIOUS
<1>8. PICK w \in Nat \ {0} : w = 2 ^ n
  BY <1>5, ByteFacts, TrieAssumption
<1>9. S \subseteq Bytes
  <2>1. k \in Nat
    BY ByteFacts DEF Bytes
  <2>2. QED BY <1>7, <1>8, <2>1, SpanInBytes
<1>10. ASSUME NEW a \in Addresses
       PROVE  Covers(p, a) <=>
                \A j \in 1 .. AddrBytes : a[j] - (a[j] % 2 ^ HostBits(len, j)) = key[j]
  <2>1. key = [j \in 1 .. AddrBytes |-> key[j]]
    BY <1>2 DEF Addresses
  <2>2. QED BY <1>1, <2>1 DEF Covers, Mask
<1>11. ASSUME NEW a \in Addresses, NEW j \in 1 .. AddrBytes
       PROVE  /\ j < last => a[j] - (a[j] % 2 ^ HostBits(len, j)) = a[j]
              /\ j = last => a[j] - (a[j] % 2 ^ HostBits(len, j)) = a[j] - (a[j] % w)
              /\ j > last => a[j] - (a[j] % 2 ^ HostBits(len, j)) = 0
  <2>1. a[j] \in Nat /\ a[j] \in 0 .. Byte - 1
    BY ByteFacts DEF Addresses, Bytes
  <2>2. HostBits(len, j) = IF j < last THEN 0 ELSE IF j = last THEN n ELSE ByteBits
    BY <1>2, <1>3, <1>4, HostBitsFacts
  <2>3. CASE j < last
    <3>1. 2 ^ HostBits(len, j) = 1
      BY <2>2, <2>3, TrieAssumption
    <3>2. a[j] % 1 = 0
      BY <2>1
    <3>3. QED BY <1>5, <2>1, <2>3, <3>1, <3>2
  <2>4. CASE j = last
    BY <1>5, <1>8, <2>2, <2>4
  <2>5. CASE j > last
    <3>1. HostBits(len, j) = ByteBits
      BY <1>5, <2>2, <2>5
    <3>2. a[j] % Byte = a[j]
      BY <2>1, ByteFacts
    <3>3. QED BY <1>5, <2>1, <2>5, <3>1, <3>2 DEF Byte
  <2>6. QED BY <1>5, <2>3, <2>4, <2>5
<1>12. k % w = 0
  <2>1. k - (k % w) = k
    BY <1>2, <1>5, <1>6, <1>10, <1>11
  <2>2. QED BY <2>1, ByteFacts DEF Bytes
<1>13. \A j \in 1 .. AddrBytes : j > last => key[j] = 0
  BY <1>2, <1>10, <1>11
<1>14. ASSUME NEW a \in Addresses
       PROVE  Covers(p, a) <=> /\ \A j \in 1 .. last - 1 : a[j] = key[j]
                               /\ a[last] \in k .. k + w - 1
  <2>1. Covers(p, a) <=> /\ \A j \in 1 .. AddrBytes : j < last => a[j] = key[j]
                         /\ a[last] - (a[last] % w) = k
    BY <1>5, <1>6, <1>10, <1>11, <1>13
  <2>2. a[last] \in Nat /\ k \in Nat
    BY <1>5, ByteFacts DEF Addresses, Bytes
  <2>3. a[last] - (a[last] % w) = k <=> a[last] \in k .. k + w - 1
    BY <1>12, <2>2, MaskedByte
  <2>4. \A j : j \in 1 .. last - 1 <=> j \in 1 .. AddrBytes /\ j < last
    BY <1>5, TrieAssumption
  <2>5. QED BY <2>1, <2>3, <2>4
<1>15. Unpainted(p) <=> S = {}
  BY <1>1, <1>3, <1>4, <1>6, <1>7 DEF Unpainted
<1>16. S = {} \/ S = k .. k + w - 1
  BY <1>5, <1>7, <1>8, <1>12, SpanForm
<1>17. ASSUME NEW a \in Addresses
       PROVE  Paints(p, a) <=> /\ \A j \in 1 .. last - 1 : a[j] = key[j]
                               /\ a[last] \in S
  BY <1>14, <1>15, <1>16 DEF Paints
<1>18. QED BY <1>1, <1>3, <1>4, <1>6, <1>7, <1>9, <1>17
-----------------------------------------------------------------------------
(* Setting a prefix that is in the map makes all leaves good for it.       *)
LEMMA SetGood ==
  ASSUME NEW t, NEW R, NEW d, NEW m, IsMap(m), Good(t, R, d, m),
         NEW p \in TriePrefixes, p[2] > 0, NEW adj,
         NEW m2, IsAdded(m2, m, p, adj)
  PROVE  \E R2, d2 :
           Good(SetLeaf(t, [key |-> p[1], len |-> p[2], adj |-> adj]), R2, d2, m2)
<1>1. PICK s : s = [key |-> p[1], len |-> p[2], adj |-> adj]
  OBVIOUS
<1>2. /\ s.key = p[1] /\ s.len = p[2] /\ s.adj = adj
      /\ s.key \in Addresses /\ s.len \in 1 .. AddrBits
  BY <1>1, PrefixType
<1>3. PICK last : last = LastByte(s.len)
  OBVIOUS
<1>4. last \in 1 .. AddrBytes /\ last \in Nat /\ AddrBytes \in Nat
  BY <1>2, <1>3, LastByteFacts, TrieAssumption
<1>5. PICK f : f = Descend(t, s)
  OBVIOUS
<1>6. \A j \in 1 .. last : f[j] = PathStep(f, t, s, j)
  BY <1>3, <1>4, <1>5, DescendStep
<1> DEFINE On(j) == {a \in Addresses : \A x \in 1 .. j - 1 : a[x] = s.key[x]}
           OK(j) == \E R2, d2 :
                      /\ Good(f[j].plys, R2, d2, m) /\ f[j].at \in DOMAIN f[j].plys
                      /\ d2[f[j].at] = j - 1 /\ R2[f[j].at] = On(j)
           Bad == {j \in 1 .. last : ~OK(j)}
<1>7. OK(1)
  <2>1. f[1] = [plys |-> t, at |-> 0]
    BY <1>4, <1>6 DEF PathStep
  <2>2. f[1].plys = t /\ f[1].at = 0
    BY <2>1
  <2>3. On(1) = Addresses
    OBVIOUS
  <2>4. 0 \in DOMAIN t /\ d[0] = 0 /\ R[0] = Addresses
    BY DEF Good, Shape, TreeOK
  <2> HIDE DEF On
  <2>5. QED BY <2>2, <2>3, <2>4
<1>8. ASSUME NEW j \in 1 .. last, j # 1, OK(j - 1) PROVE OK(j)
  <2>1. f[j] = Enter(f[j - 1].plys, f[j - 1].at, s.key[j - 1])
    BY <1>6, <1>8 DEF PathStep
  <2>2. PICK g, pi, k : g = f[j - 1].plys /\ pi = f[j - 1].at /\ k = s.key[j - 1]
    OBVIOUS
  <2>3. j - 1 \in 1 .. AddrBytes /\ j \in Nat /\ j <= AddrBytes
    BY <1>4, <1>8
  <2>4. k \in Bytes
    BY <1>2, <2>2, <2>3 DEF Addresses
  <2>5. PICK R1, d1 : /\ Good(g, R1, d1, m) /\ pi \in DOMAIN g
                      /\ d1[pi] = j - 1 - 1 /\ R1[pi] = On(j - 1)
    BY <1>8, <2>2
  <2> HIDE DEF On
  <2>6. d1[pi] + 1 = j - 1 /\ d1[pi] + 1 < AddrBytes
    <3>1. d1[pi] = j - 1 - 1 /\ j \in Int /\ AddrBytes \in Int
      BY <1>4, <2>3, <2>5
    <3>2. QED BY <2>3, <3>1
  <2>7. PICK R2, d2 :
          /\ Good(f[j].plys, R2, d2, m) /\ f[j].at \in DOMAIN f[j].plys
          /\ d2[f[j].at] = d1[pi] + 1
          /\ R2[f[j].at] = {a \in R1[pi] : ByteAt(d1, pi, a) = k}
    BY <2>1, <2>2, <2>4, <2>5, <2>6, EnterGood
  <2>8. {a \in R1[pi] : ByteAt(d1, pi, a) = k} = On(j)
    <3>1. \A a : ByteAt(d1, pi, a) = a[j - 1]
      BY <2>6 DEF ByteAt
    <3>2. \A x : x \in 1 .. j - 1 <=> x \in 1 .. j - 1 - 1 \/ x = j - 1
      BY <2>3
    <3>3. ASSUME NEW a \in Addresses
          PROVE  a \in On(j) <=> a \in On(j - 1) /\ a[j - 1] = s.key[j - 1]
      BY <3>2 DEF On
    <3>4. On(j) \subseteq Addresses /\ On(j - 1) \subseteq Addresses
      BY DEF On
    <3>5. QED BY <2>2, <2>5, <3>1, <3>3, <3>4
  <2>9. QED BY <2>6, <2>7, <2>8
<1> HIDE DEF OK
<1>9. Bad = {}
  <2>1. ASSUME Bad # {} PROVE FALSE
    <3>1. PICK j \in Bad : \A x \in Bad : j <= x
      <4>1. Bad \in SUBSET Nat
        BY <1>4
      <4> HIDE DEF Bad
      <4>2. QED BY <2>1, <4>1, LeastOfNat
    <3>2. j \in 1 .. last /\ ~OK(j)
      OBVIOUS
    <3>3. j # 1
      BY <1>7, <3>2
    <3>4. j - 1 \in 1 .. last
      BY <1>4, <3>2, <3>3
    <3>5. j - 1 \notin Bad
      <4>1. j \in Int /\ ~(j <= j - 1)
        BY <1>4, <3>2
      <4>2. QED BY <3>1, <4>1
    <3>6. QED BY <1>8, <3>2, <3>3, <3>4, <3>5
  <2>2. QED BY <2>1
<1>10. OK(last)
  BY <1>4, <1>9
<1> HIDE DEF Bad
<1>11. PICK g, pi : g = f[last].plys /\ pi = f[last].at
  OBVIOUS
<1>12. PICK R2, d2 : /\ Good(g, R2, d2, m) /\ pi \in DOMAIN g
                     /\ d2[pi] = last - 1 /\ R2[pi] = On(last)
  BY <1>10, <1>11 DEF OK
<1>13. PICK S : S = Span(p[1][last], ByteBits * last - p[2])
  OBVIOUS
<1>14. /\ S \subseteq Bytes
       /\ \A a \in Addresses :
            Paints(p, a) <=> /\ \A j \in 1 .. last - 1 : a[j] = p[1][j]
                             /\ a[last] \in S
  BY <1>2, <1>3, <1>13, PaintsSpan
<1>15. d2[pi] + 1 = last
  BY <1>4, <1>12
<1>16. \A a \in Addresses : Paints(p, a) <=> a \in R2[pi] /\ ByteAt(d2, pi, a) \in S
  BY <1>2, <1>12, <1>14, <1>15 DEF ByteAt
<1>17. SetLeaf(t, s) = SetSpan(g, pi, S, SetResult(adj), p[2])
  BY <1>2, <1>3, <1>5, <1>11, <1>13 DEF SetLeaf
<1>18. Good(SetSpan(g, pi, S, SetResult(adj), p[2]), R2, d2, m2)
  <2> HIDE DEF On
  <2>1. QED BY <1>12, <1>14, <1>16, SetSpanGood
<1>19. QED BY <1>1, <1>17, <1>18
-----------------------------------------------------------------------------
(* The first ply is the root, and good for a map without prefixes.         *)
LEMMA RootGood ==
  ASSUME NEW t, t = [i \in {0} |-> InitPly(EmptyLeaf, 0)]
  PROVE  /\ TreeOK(t)
         /\ \A m : DOMAIN m = {} => \E R, d : Good(t, R, d, m)
<1>1. DOMAIN t = {0} /\ 0 \in DOMAIN t /\ IsFiniteSet(DOMAIN t)
  BY FS_Singleton
<1>2. ASSUME NEW i \in DOMAIN t, NEW b \in Bytes
      PROVE  t[i].leaves[b] = EmptyLeaf /\ t[i].lens[b] = 0
  <2>1. t[i] = InitPly(EmptyLeaf, 0)
    OBVIOUS
  <2>2. QED BY <2>1, LeavesOfInit
<1>3. ASSUME NEW i \in DOMAIN t, NEW b \in Bytes
      PROVE  IsTerminal(t[i].leaves[b]) /\ \A c : ~Points(t, i, b, c)
  BY <1>2, EmptyForm, LeafForms DEF Points
<1>4. TreeOK(t)
  BY <1>1, <1>3 DEF TreeOK
<1>5. ASSUME NEW m, DOMAIN m = {} PROVE \E R, d : Good(t, R, d, m)
  <2>1. PICK R, d : R = [i \in {0} |-> Addresses] /\ d = [i \in {0} |-> 0]
    OBVIOUS
  <2>2. R[0] = Addresses /\ d[0] = 0 /\ 0 \in 0 .. AddrBytes - 1
    BY <2>1, TrieAssumption
  <2>3. Shape(t, R, d)
    BY <1>1, <1>3, <1>4, <2>2 DEF Shape
  <2>4. \A a : Painted(m, a) = {}
    BY <1>5 DEF Painted
  <2>5. \A a : Best(m, a, EmptyLeaf, 0)
    BY <2>4 DEF Best
  <2>6. Good(t, R, d, m)
    BY <1>2, <2>3, <2>5 DEF Good
  <2>7. QED BY <2>6
<1>6. QED BY <1>4, <1>5

(* A prefix that is not painted for any address changes nothing.           *)
LEMMA GoodKept ==
  ASSUME NEW t, NEW R, NEW d, NEW m, Good(t, R, d, m),
         NEW p, NEW adj, NEW m2, IsAdded(m2, m, p, adj), \A a : ~Paints(p, a)
  PROVE  Good(t, R, d, m2)
BY BestKept DEF Good
-----------------------------------------------------------------------------
(* One step of a lookup.                                                   *)
WalkStep(f, t, a, j) ==
  IF j = 0 THEN PlyLeaf(0) ELSE LookupStep(t, f[j - 1], a[j])

IsWalk(f, t, a, n) == f = [j \in 0 .. n |-> WalkStep(f, t, a, j)]

(* There is such a function, so the recursive definition means what it     *)
(* says.                                                                   *)
LEMMA WalkExists ==
  ASSUME NEW t, NEW a, NEW last \in Nat
  PROVE  \E f : IsWalk(f, t, a, last)
<1> DEFINE Bad == {n \in Nat : ~ \E f : IsWalk(f, t, a, n)}
<1>1. \E f : IsWalk(f, t, a, 0)
  <2>1. PICK f : f = [j \in 0 .. 0 |-> PlyLeaf(0)]
    OBVIOUS
  <2>2. \A j \in 0 .. 0 : WalkStep(f, t, a, j) = PlyLeaf(0)
    BY DEF WalkStep
  <2>3. f = [j \in 0 .. 0 |-> WalkStep(f, t, a, j)]
    BY <2>1, <2>2
  <2>4. QED BY <2>3 DEF IsWalk
<1>2. ASSUME NEW n \in Nat, NEW f, IsWalk(f, t, a, n)
      PROVE  \E g : IsWalk(g, t, a, n + 1)
  <2>1. PICK g : g = [j \in 0 .. n + 1 |->
                        IF j = n + 1 THEN WalkStep(f, t, a, j) ELSE f[j]]
    OBVIOUS
  <2>2. ASSUME NEW j \in 0 .. n PROVE g[j] = f[j] /\ f[j] = WalkStep(f, t, a, j)
    <3>1. g[j] = f[j]
      BY <2>1
    <3>2. f[j] = WalkStep(f, t, a, j)
      BY <1>2 DEF IsWalk
    <3>3. QED BY <3>1, <3>2
  <2>3. ASSUME NEW j \in 0 .. n + 1 PROVE g[j] = WalkStep(f, t, a, j)
    BY <2>1, <2>2
  <2>4. ASSUME NEW j \in 0 .. n + 1
        PROVE  WalkStep(f, t, a, j) = WalkStep(g, t, a, j)
    <3>1. CASE j = 0
      BY <3>1 DEF WalkStep
    <3>2. CASE j # 0
      <4>1. g[j - 1] = f[j - 1]
        BY <2>2, <3>2
      <4>2. QED BY <3>2, <4>1 DEF WalkStep
    <3>3. QED BY <3>1, <3>2
  <2>5. g = [j \in 0 .. n + 1 |-> g[j]]
    BY <2>1
  <2>6. g = [j \in 0 .. n + 1 |-> WalkStep(g, t, a, j)]
    BY <2>3, <2>4, <2>5
  <2>7. QED BY <2>6 DEF IsWalk
<1>3. Bad = {}
  <2>1. ASSUME Bad # {} PROVE FALSE
    <3>1. PICK n \in Bad : \A m \in Bad : n <= m
      BY <2>1, LeastOfNat
    <3>2. n \in Nat /\ n # 0
      BY <1>1
    <3>3. n - 1 \in Nat /\ n - 1 \notin Bad
      BY <3>1, <3>2
    <3>4. PICK f : IsWalk(f, t, a, n - 1)
      BY <3>3
    <3>5. \E g : IsWalk(g, t, a, n - 1 + 1)
      BY <1>2, <3>3, <3>4
    <3>6. n - 1 + 1 = n
      BY <3>2
    <3>7. QED BY <3>5, <3>6
  <2>2. QED BY <2>1
<1>4. QED BY <1>3

LEMMA WalkIs ==
  ASSUME NEW a
  PROVE  \A j \in 0 .. AddrBytes : Walk(a)[j] = WalkStep(Walk(a), plys, a, j)
<1>1. PICK f : IsWalk(f, plys, a, AddrBytes)
  BY WalkExists, TrieAssumption
<1>2. Walk(a) = CHOOSE g : IsWalk(g, plys, a, AddrBytes)
  BY DEF Walk, IsWalk, WalkStep
<1>3. IsWalk(Walk(a), plys, a, AddrBytes)
  BY <1>1, <1>2
<1>4. QED BY <1>3 DEF IsWalk

(* A lookup finds the best leaf.                                           *)
LEMMA WalkGood ==
  ASSUME NEW R, NEW d, NEW m, Good(plys, R, d, m), NEW a \in Addresses
  PROVE  \E l, n : Walk(a)[AddrBytes] = l /\ Best(m, a, l, n)
<1>1. PICK f : f = Walk(a)
  OBVIOUS
<1>2. \A j \in 0 .. AddrBytes : f[j] = WalkStep(f, plys, a, j)
  BY <1>1, WalkIs
<1>3. Shape(plys, R, d) /\ TreeOK(plys) /\ AddrBytes \in Nat
  BY TrieAssumption DEF Good, Shape
<1> DEFINE At(j) == \E i \in DOMAIN plys :
                      f[j] = PlyLeaf(i) /\ d[i] = j /\ a \in R[i]
           OK(j) == At(j) \/ (IsTerminal(f[j]) /\ \E n : Best(m, a, f[j], n))
           Bad == {j \in 0 .. AddrBytes : ~OK(j)}
<1>4. OK(0)
  <2>1. f[0] = PlyLeaf(0)
    BY <1>2, <1>3 DEF WalkStep
  <2>2. QED BY <1>3, <2>1 DEF Shape, TreeOK
<1>5. ASSUME NEW j \in 0 .. AddrBytes, j # 0, OK(j - 1) PROVE OK(j)
  <2>1. f[j] = LookupStep(plys, f[j - 1], a[j]) /\ j \in Nat
    BY <1>2, <1>3, <1>5 DEF WalkStep
  <2>2. CASE IsTerminal(f[j - 1])
    <3>1. f[j] = f[j - 1]
      BY <2>1, <2>2 DEF LookupStep
    <3>2. ~At(j - 1)
      BY <2>2, LeafForms
    <3>3. QED BY <1>5, <2>2, <3>1, <3>2
  <2>3. CASE ~IsTerminal(f[j - 1])
    <3>1. PICK i \in DOMAIN plys :
            f[j - 1] = PlyLeaf(i) /\ d[i] = j - 1 /\ a \in R[i]
      BY <1>5, <2>3
    <3>2. f[j] = plys[i].leaves[a[j]]
      BY <2>1, <2>3, <3>1, LeafForms DEF LookupStep
    <3>3. a[j] \in Bytes
      BY <1>3, <1>5, <2>1 DEF Addresses
    <3>4. d[i] + 1 = j
      BY <2>1, <3>1
    <3>5. ByteAt(d, i, a) = a[j]
      BY <3>4 DEF ByteAt
    <3>6. CASE IsTerminal(f[j])
      <4>1. Best(m, a, f[j], plys[i].lens[a[j]])
        BY <3>1, <3>2, <3>3, <3>5, <3>6 DEF Good
      <4>2. QED BY <3>6, <4>1
    <3>7. CASE ~IsTerminal(f[j])
      <4>1. PICK c : c = f[j].ply
        OBVIOUS
      <4>2. c \in DOMAIN plys /\ Points(plys, i, a[j], c)
        BY <1>3, <3>2, <3>3, <3>7, <4>1, PointerForm
      <4>3. d[c] = d[i] + 1 /\ R[c] = {x \in R[i] : ByteAt(d, i, x) = a[j]}
        BY <1>3, <3>3, <4>2 DEF Shape
      <4>4. f[j] = PlyLeaf(c) /\ d[c] = j /\ a \in R[c]
        BY <3>1, <3>2, <3>4, <3>5, <4>2, <4>3 DEF Points
      <4>5. QED BY <4>2, <4>4
    <3>8. QED BY <3>6, <3>7
  <2>4. QED BY <2>2, <2>3
<1> HIDE DEF OK
<1>6. Bad = {}
  <2>1. ASSUME Bad # {} PROVE FALSE
    <3>1. PICK j \in Bad : \A x \in Bad : j <= x
      <4>1. Bad \in SUBSET Nat
        BY <1>3
      <4> HIDE DEF Bad
      <4>2. QED BY <2>1, <4>1, LeastOfNat
    <3>2. j \in 0 .. AddrBytes /\ ~OK(j)
      OBVIOUS
    <3>3. j # 0
      BY <1>4, <3>2
    <3>4. j - 1 \in 0 .. AddrBytes
      BY <1>3, <3>2, <3>3
    <3>5. j - 1 \notin Bad
      <4>1. j \in Int /\ ~(j <= j - 1)
        BY <1>3, <3>2
      <4>2. QED BY <3>1, <4>1
    <3>6. QED BY <1>5, <3>2, <3>3, <3>4, <3>5
  <2>2. QED BY <2>1
<1>7. OK(AddrBytes)
  BY <1>3, <1>6
<1>8. ~At(AddrBytes)
  <2>1. ASSUME NEW i \in DOMAIN plys, d[i] = AddrBytes PROVE FALSE
    <3>1. d[i] \in 0 .. AddrBytes - 1
      BY <1>3 DEF Shape
    <3>2. QED BY <1>3, <2>1, <3>1
  <2>2. QED BY <2>1
<1> HIDE DEF At, Bad
<1>9. QED BY <1>1, <1>7, <1>8 DEF OK

(* Prefixes of the same length that cover an address are the same.         *)
LEMMA SamePrefix ==
  ASSUME NEW p \in TriePrefixes, NEW q \in TriePrefixes, NEW a,
         Covers(p, a), Covers(q, a), p[2] = q[2]
  PROVE  p = q
<1>1. p[1] = q[1]
  BY DEF Covers
<1>2. p = <<p[1], p[2]>> /\ q = <<q[1], q[2]>>
  BY TrieAssumption
<1>3. QED BY <1>1, <1>2

LEMMA BestIsLongest ==
  ASSUME IsMap(reachable), NEW a, NEW l, NEW n, Best(reachable, a, l, n),
         \A p \in DOMAIN reachable : Covers(p, a) => ~Unpainted(p)
  PROVE  l.adj = LongestMatch(a)
<1>1. PICK C : C = {p \in DOMAIN reachable : p[2] > 0 /\ Covers(p, a)}
  OBVIOUS
<1>2. C = Painted(reachable, a)
  BY <1>1 DEF Painted, Paints
<1>3. C \subseteq TriePrefixes /\ \A p \in C : Covers(p, a) /\ p[2] \in Nat
  BY <1>1, PrefixType DEF IsMap
<1>4. PICK M : M = CHOOSE p \in C : \A q \in C : q[2] <= p[2]
  OBVIOUS
<1>5. LongestMatch(a) = IF C = {} THEN AdjMiss ELSE reachable[M]
  BY <1>1, <1>4 DEF LongestMatch
<1>6. CASE C = {}
  <2>1. l = EmptyLeaf
    BY <1>2, <1>6 DEF Best
  <2>2. QED BY <1>5, <1>6, <2>1, LeafForms DEF EmptyLeaf
<1>7. CASE C # {}
  <2>1. PICK p \in C : l = SetResult(reachable[p]) /\ \A q \in C : q[2] <= p[2]
    BY <1>2, <1>7 DEF Best
  <2>2. M \in C /\ \A q \in C : q[2] <= M[2]
    BY <1>4, <2>1
  <2>3. p[2] <= M[2] /\ M[2] <= p[2]
    BY <2>1, <2>2
  <2>4. p[2] = M[2]
    BY <1>3, <2>1, <2>2, <2>3
  <2>5. M = p
    BY <1>3, <2>1, <2>2, <2>4, SamePrefix
  <2>6. QED BY <1>5, <1>7, <2>1, <2>5, LeafForms
<1>8. QED BY <1>6, <1>7
-----------------------------------------------------------------------------
(* The inductive invariant: the plys are a tree, and while nothing was     *)
(* deleted, every leaf is the best for the addresses that go through it.   *)
TrieInv ==
  /\ IsMap(reachable) /\ reachable = [p \in DOMAIN reachable |-> reachable[p]]
  /\ DOMAIN plys # {} => TreeOK(plys)
  /\ ~deletes => IF DOMAIN plys = {} THEN DOMAIN reachable = {}
                 ELSE \E R, d : Good(plys, R, d, reachable)

LEMMA EmptyMap == DOMAIN << >> = {} /\ << >> = [p \in {} |-> << >>[p]]
OBVIOUS

LEMMA NoPlies ==
  ASSUME plys = << >>, reachable = << >>
  PROVE  TrieInv
BY EmptyMap, Zenon DEF TrieInv, IsMap

(* The plys after mtrie.init, if it was called.                            *)
LEMMA WithRootOK ==
  ASSUME TrieInv
  PROVE  /\ TreeOK(WithRoot)
         /\ ~deletes => \E R, d : Good(WithRoot, R, d, reachable)
<1>1. CASE DOMAIN plys = {}
  <2>1. IsFiniteSet(DOMAIN plys)
    BY <1>1, FS_EmptySet
  <2>2. NewPlyIndex(plys) = 0
    BY <1>1, <2>1, NewPlyIndexFree
  <2>3. WithRoot = [i \in {0} |-> InitPly(EmptyLeaf, 0)]
    BY <1>1, <2>2 DEF WithRoot
  <2>4. QED BY <1>1, <2>3, RootGood DEF TrieInv
<1>2. CASE DOMAIN plys # {}
  <2>1. WithRoot = plys
    BY <1>2 DEF WithRoot
  <2>2. QED BY <1>2, <2>1 DEF TrieInv
<1>3. QED BY <1>1, <1>2

LEMMA AddOK ==
  ASSUME TrieInv, NEW p \in TriePrefixes, NEW adj \in TrieAdjs, TrieAdd(p, adj)
  PROVE  TrieInv'
<1>1. PICK t : t = WithRoot
  OBVIOUS
<1>2. TreeOK(t) /\ (~deletes => \E R, d : Good(t, R, d, reachable))
  BY <1>1, WithRootOK
<1>3. PICK s : s = [key |-> p[1], len |-> p[2], adj |-> adj]
  OBVIOUS
<1>4. PICK m2 : m2 = reachable'
  OBVIOUS
<1>5. m2 = [q \in DOMAIN reachable \cup {p} |->
              IF q = p THEN adj ELSE reachable[q]]
  BY <1>4 DEF TrieAdd
<1>6. IsAdded(m2, reachable, p, adj) /\ m2 = [q \in DOMAIN m2 |-> m2[q]]
  BY <1>5 DEF IsAdded
<1>7. IsMap(m2) /\ IsMap(reachable)
  BY <1>6 DEF IsMap, IsAdded, TrieInv
<1>8. deletes' = deletes
  BY DEF TrieAdd
<1>9. PICK u : u = plys'
  OBVIOUS
<1>10. TreeOK(u) /\ (~deletes => \E R, d : Good(u, R, d, m2))
  <2>1. CASE p[2] = 0
    <3>1. u = t
      BY <1>1, <1>9, <2>1 DEF TrieAdd
    <3>2. \A a : ~Paints(p, a)
      BY <2>1 DEF Paints
    <3>3. QED BY <1>2, <1>6, <3>1, <3>2, GoodKept
  <2>2. CASE p[2] # 0
    <3>1. u = SetLeaf(t, s)
      BY <1>1, <1>3, <1>9, <2>2 DEF TrieAdd
    <3>2. p[2] \in Nat /\ p[2] > 0 /\ p[2] \in 1 .. AddrBits /\ p[1] \in Addresses
      BY <2>2, PrefixType, ByteFacts
    <3>3. s.key = p[1] /\ s.len = p[2]
      BY <1>3
    <3>4. TreeOK(u)
      BY <1>2, <3>1, <3>2, <3>3, SetTree
    <3>5. ASSUME ~deletes PROVE \E R, d : Good(u, R, d, m2)
      <4>1. PICK R, d : Good(t, R, d, reachable)
        BY <1>2, <3>5
      <4>2. QED BY <1>3, <1>6, <1>7, <3>1, <3>2, <4>1, SetGood
    <3>6. QED BY <3>4, <3>5
  <2>3. QED BY <2>1, <2>2
<1>11. DOMAIN u # {}
  BY <1>10 DEF TreeOK
<1>12. QED BY <1>4, <1>6, <1>7, <1>8, <1>9, <1>10, <1>11 DEF TrieInv

(* There is a longest prefix shorter than p.                               *)
LEMMA LongestExists ==
  ASSUME NEW p, p[2] \in Nat, NEW map, LessSpecific(p, map) # {}
  PROVE  LET less == LessSpecific(p, map)
         IN (CHOOSE x \in less : \A y \in less : y[2] <= x[2]) \in less
<1>1. PICK less : less = LessSpecific(p, map)
  OBVIOUS
<1>2. PICK n \in Nat : n = p[2]
  OBVIOUS
<1>3. \A x \in less : x[2] \in 1 .. n - 1
  BY <1>1, <1>2 DEF LessSpecific
<1> DEFINE Gaps == {g \in Nat : \E x \in less : x[2] = n - g}
<1>4. Gaps # {}
  <2>1. PICK x \in less : x[2] \in 1 .. n - 1
    BY <1>1, <1>3
  <2>2. n - x[2] \in Nat /\ x[2] = n - (n - x[2])
    BY <2>1
  <2>3. QED BY <2>2
<1>5. PICK g \in Gaps : \A h \in Gaps : g <= h
  <2>1. Gaps \in SUBSET Nat
    OBVIOUS
  <2> HIDE DEF Gaps
  <2>2. QED BY <1>4, <2>1, LeastOfNat
<1>6. PICK x \in less : x[2] = n - g /\ g \in Nat
  OBVIOUS
<1>7. ASSUME NEW y \in less PROVE y[2] <= x[2]
  <2>1. y[2] \in 1 .. n - 1
    BY <1>3
  <2>2. n - y[2] \in Nat /\ y[2] = n - (n - y[2])
    BY <2>1
  <2>3. n - y[2] \in Gaps
    BY <2>2
  <2>4. g <= n - y[2]
    BY <1>5, <2>3
  <2>5. QED BY <1>6, <2>1, <2>4
<1>8. QED BY <1>1, <1>7

LEMMA DelOK ==
  ASSUME TrieInv, NEW p \in TriePrefixes, NEW adj, TrieDel(p, adj)
  PROVE  TrieInv'
<1>1. PICK t : t = WithRoot
  OBVIOUS
<1>2. TreeOK(t)
  BY <1>1, WithRootOK
<1>3. PICK s : s = [key |-> p[1], len |-> p[2], adj |-> adj]
  OBVIOUS
<1>4. PICK map : map = [q \in DOMAIN reachable \ {p} |-> reachable[q]]
  OBVIOUS
<1>5. reachable' = map /\ deletes' = TRUE
  BY <1>4 DEF TrieDel
<1>6. IsMap(map) /\ map = [q \in DOMAIN map |-> map[q]]
  BY <1>4 DEF IsMap, TrieInv
<1>7. PICK u : u = plys'
  OBVIOUS
<1>8. TreeOK(u)
  <2>1. CASE p[2] = 0
    <3>1. u = t
      BY <1>1, <1>7, <2>1 DEF TrieDel
    <3>2. QED BY <1>2, <3>1
  <2>2. CASE p[2] # 0
    <3>1. PICK v : v = UnsetLeaf(t, s)
      OBVIOUS
    <3>2. u = SetLessSpecific(v, p, map)
      BY <1>1, <1>3, <1>4, <1>7, <2>2, <3>1 DEF TrieDel
    <3>3. p[2] \in Nat /\ p[2] \in 1 .. AddrBits /\ p[1] \in Addresses
      BY <2>2, PrefixType, ByteFacts
    <3>4. s.key = p[1] /\ s.len = p[2]
      BY <1>3
    <3>5. TreeOK(v)
      BY <1>2, <3>1, <3>3, <3>4, UnsetTree
    <3>6. PICK less, q : /\ less = LessSpecific(p, map)
                         /\ q = CHOOSE x \in less : \A y \in less : y[2] <= x[2]
      OBVIOUS
    <3>7. CASE less = {}
      <4>1. u = v
        BY <3>2, <3>6, <3>7 DEF SetLessSpecific
      <4>2. QED BY <3>5, <4>1
    <3>8. CASE less # {}
      <4>1. PICK r : r = [key |-> p[1], len |-> q[2], adj |-> map[q]]
        OBVIOUS
      <4>2. u = SetLeaf(v, r)
        BY <3>2, <3>6, <3>8, <4>1 DEF SetLessSpecific
      <4>3. q \in less
        BY <3>3, <3>6, <3>8, LongestExists
      <4>4. q[2] \in 1 .. p[2] - 1
        BY <3>6, <4>3 DEF LessSpecific
      <4>5. r.key \in Addresses /\ r.len \in 1 .. AddrBits
        BY <3>3, <4>1, <4>4, ByteFacts
      <4>6. QED BY <3>5, <4>2, <4>5, SetTree
    <3>9. QED BY <3>7, <3>8
  <2>3. QED BY <2>1, <2>2
<1>9. QED BY <1>5, <1>6, <1>7, <1>8 DEF TrieInv

LEMMA TrieInvInductive ==
  ASSUME TrieInv, [TrieNext]_trieVars
  PROVE  TrieInv'
<1>1. CASE UNCHANGED trieVars
  BY <1>1 DEF trieVars, TrieInv
<1>2. ASSUME NEW p \in TriePrefixes, NEW adj \in TrieAdjs, TrieAdd(p, adj)
      PROVE  TrieInv'
  BY <1>2, AddOK
<1>3. ASSUME NEW p \in TriePrefixes, NEW adj, TrieDel(p, adj)
      PROVE  TrieInv'
  BY <1>3, DelOK
<1>4. CASE TrieReset
  <2>1. plys' = << >> /\ reachable' = << >>
    BY <1>4 DEF TrieReset
  <2>2. IsMap(reachable)' /\ (reachable = [p \in DOMAIN reachable |-> reachable[p]])'
    BY <2>1, EmptyMap, Zenon DEF IsMap
  <2>3. DOMAIN plys' = {} /\ DOMAIN reachable' = {}
    BY <2>1, EmptyMap
  <2>4. QED BY <2>2, <2>3 DEF TrieInv
<1>5. QED BY <1>1, <1>2, <1>3, <1>4 DEF TrieNext

(* What the invariant means for PliesAreATree and for lookups.             *)
LEMMA TrieInvTree ==
  ASSUME TrieInv
  PROVE  PliesAreATree
<1>1. ASSUME NEW x \in Pointers, NEW y \in Pointers
      PROVE  LET l == plys[x[1]].leaves[x[2]]
             IN /\ l.ply \in DOMAIN plys \ {0}
                /\ l = plys[y[1]].leaves[y[2]] => x = y
  <2>1. PICK i, b, j, e : i = x[1] /\ b = x[2] /\ j = y[1] /\ e = y[2]
    OBVIOUS
  <2>2. /\ i \in DOMAIN plys /\ b \in Bytes /\ x = <<i, b>>
        /\ j \in DOMAIN plys /\ e \in Bytes /\ y = <<j, e>>
        /\ ~IsTerminal(plys[i].leaves[b]) /\ ~IsTerminal(plys[j].leaves[e])
    BY <2>1 DEF Pointers
  <2>3. TreeOK(plys)
    BY <2>2 DEF TrieInv
  <2>4. PICK c : c = plys[i].leaves[b].ply
    OBVIOUS
  <2>5. c \in DOMAIN plys \ {0} /\ Points(plys, i, b, c)
    BY <2>2, <2>3, <2>4, PointerForm
  <2>6. ASSUME plys[i].leaves[b] = plys[j].leaves[e] PROVE x = y
    <3>1. Points(plys, j, e, c)
      BY <2>5, <2>6 DEF Points
    <3>2. i = j /\ b = e
      BY <2>2, <2>3, <2>5, <3>1 DEF TreeOK
    <3>3. QED BY <2>2, <3>2
  <2>7. QED BY <2>1, <2>4, <2>5, <2>6
<1>2. QED BY <1>1 DEF PliesAreATree

LEMMA TrieInvLookup ==
  ASSUME TrieInv, ~deletes
  PROVE  LookupIsLongestMatch
<1>1. ASSUME NEW a \in Addresses,
             \A p \in DOMAIN reachable : Covers(p, a) => ~Unpainted(p)
      PROVE  Lookup(a) = LongestMatch(a)
  <2>1. CASE DOMAIN plys = {}
    <3>1. DOMAIN reachable = {}
      BY <2>1 DEF TrieInv
    <3>2. QED BY <2>1, <3>1 DEF Lookup, LongestMatch
  <2>2. CASE DOMAIN plys # {}
    <3>1. PICK R, d : Good(plys, R, d, reachable)
      BY <2>2 DEF TrieInv
    <3>2. PICK l, n : Walk(a)[AddrBytes] = l /\ Best(reachable, a, l, n)
      BY <3>1, WalkGood
    <3>3. l.adj = LongestMatch(a)
      BY <1>1, <3>2, BestIsLongest DEF TrieInv
    <3>4. QED BY <2>2, <3>2, <3>3 DEF Lookup
  <2>3. QED BY <2>1, <2>2
<1>2. QED BY <1>1 DEF LookupIsLongestMatch

(* No pointer of mtrie.go leads to a freed ply, to the root or to the ply  *)
(* of another pointer, and while nothing was deleted lookups find the      *)
(* longest match: for any width of a byte, length of an address and        *)
(* prefixes.                                                               *)
THEOREM TrieStaysConsistent == TrieSpec => []TrieConsistent
<1>1. TrieInit => TrieInv
  BY NoPlies DEF TrieInit
<1>2. TrieInv /\ [TrieNext]_trieVars => TrieInv'
  BY TrieInvInductive
<1>3. TrieInv => TrieConsistent
  BY TrieInvTree, TrieInvLookup DEF TrieConsistent
<1>4. QED BY <1>1, <1>2, <1>3, PTL DEF TrieSpec
=============================================================================
