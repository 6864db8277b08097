-------------------------------- MODULE Mtrie --------------------------------
(***************************************************************************)
(* The trie of vnet/ip4/mtrie.go that Fib.addDel keeps beside its map of   *)
(* prefixes (vnet/ip4/fib.go).  A ply has a leaf for every value of one    *)
(* address byte; a leaf is a result or points to the ply of the next byte. *)
(*                                                                         *)
(* The width of a byte and the length of an address are constants (8 and 4 *)
(* in the code); sums of bytes wrap as they do in the code.  An address is *)
(* a sequence of bytes, a prefix its masked address and length.            *)
(***************************************************************************)
EXTENDS Integers, Sequences, FiniteSets

CONSTANTS
  ByteBits,      \* bits of an address byte
  AddrBytes,     \* bytes of an address
  TriePrefixes,  \* the prefixes that get routes, as <<address, length>>
  TrieAdjs,      \* adjacencies of routes
  TrieMax        \* bound of the model on the changes of a behaviour

Byte == 2 ^ ByteBits
AddrBits == ByteBits * AddrBytes
Bytes == 0 .. Byte - 1
Addresses == [1 .. AddrBytes -> Bytes]

(* The bits of byte j that a prefix of this length leaves out.             *)
HostBits(len, j) ==
  CASE len >= ByteBits * j -> 0
    [] len <= ByteBits * (j - 1) -> ByteBits
    [] OTHER -> ByteBits * j - len

Mask(a, len) == [j \in 1 .. AddrBytes |-> a[j] - (a[j] % 2 ^ HostBits(len, j))]
Covers(p, a) == Mask(a, p[2]) = p[1]

ASSUME TrieAssumption ==
  /\ ByteBits \in Nat \ {0} /\ AddrBytes \in Nat \ {0} /\ TrieMax \in Nat
  /\ TrieAdjs \subseteq Nat \ {0}
  /\ TriePrefixes \subseteq Addresses \X (0 .. AddrBits)
  /\ \A p \in TriePrefixes : Covers(p, p[1])
  (* which the provers do not know of powers *)
  /\ 2 ^ 0 = 1
  /\ \A m \in 0 .. AddrBits : 2 ^ m \in Nat \ {0}
  /\ \A m \in 0 .. ByteBits : Byte % 2 ^ m = 0
  /\ \A m \in 0 .. ByteBits - 1 : 2 ^ m < Byte

VARIABLES
  plys,         \* index -> ply, for the indices of plyPool in use
  defaultLeaf,  \* the leaf of 0/0, which is not in the plys
  reachable,    \* Fib.reachable: prefix -> adjacency
  changes,      \* history: number of changes so far
  deletes       \* history: some of them were deletions

trieVars == <<plys, defaultLeaf, reachable, changes, deletes>>

AdjMiss == 0
AdjNil == -1
SetResult(adj) == [adj |-> adj]
PlyLeaf(i) == [ply |-> i]
EmptyLeaf == SetResult(AdjMiss)
IsTerminal(l) == "adj" \in DOMAIN l

(* The leaves of for i := k; i < k + 1 << n: the sum is a byte.            *)
Span(k, n) == k .. ((k + (2 ^ n % Byte)) % Byte) - 1

(* ply.init                                                                *)
InitPly(l, n) ==
  [leaves |-> [b \in Bytes |-> l], lens |-> [b \in Bytes |-> n],
   nNonEmpty |-> IF l # EmptyLeaf THEN Byte ELSE 0]

(* newPly: a free index of plyPool, 0 for the first.                       *)
NewPlyIndex(t) ==
  CHOOSE i \in 0 .. Cardinality(DOMAIN t) : i \notin DOMAIN t

(* Bug form: only a strictly more specific leaf is inserted.               *)
MoreSpecificStrictly(n, old) == n > old

(* Is the leaf to be inserted at least as specific as the one there?       *)
MoreSpecific(n, old) == n >= old

(* A ply with another leaf, of prefix length n, in the places S.           *)
WithLeaves(ply, S, l, n, count) ==
  [leaves |-> [b \in Bytes |-> IF b \in S THEN l ELSE ply.leaves[b]],
   lens |-> [b \in Bytes |-> IF b \in S THEN n ELSE ply.lens[b]],
   nNonEmpty |-> count]

(* Results among the leaves S of a ply are replaced.  The count of leaves  *)
(* that are not empty grows for those that were not, as in replaceLeaf.    *)
PutLeaves(ply, S, l, n) ==
  LET put == {b \in S : IsTerminal(ply.leaves[b]) /\ MoreSpecific(n, ply.lens[b])}
      full == {b \in put : ply.leaves[b] # EmptyLeaf}
  IN WithLeaves(ply, put, l, n, ply.nNonEmpty + Cardinality(full))

(* The plys that the leaves S of a ply point to, and those below them.     *)
PliesAt(ply, S) == {ply.leaves[b].ply : b \in {c \in S : ~IsTerminal(ply.leaves[c])}}
Closed(t, P) == \A i \in P : PliesAt(t[i], Bytes) \subseteq P
PliesBelow(t, P) ==
  {i \in DOMAIN t :
     \A Q \in SUBSET DOMAIN t : P \subseteq Q /\ Closed(t, Q) => i \in Q}

(* The loop of setLeafHelper over the leaves S of the ply in which the key *)
(* ends, and setPlyWithMoreSpecificLeaf for the plys below them.  (The     *)
(* length of a pointer is 0, so its last branch is never taken.)           *)
SetSpan(t, pi, S, l, n) ==
  LET below == PliesBelow(t, PliesAt(t[pi], S))
  IN [i \in DOMAIN t |->
        IF i = pi THEN PutLeaves(t[i], S, l, n)
        ELSE IF i \in below THEN PutLeaves(t[i], Bytes, l, n)
        ELSE t[i]]

(* setLeafHelper where the key goes on: the ply of the next byte, made if  *)
(* there is none.                                                          *)
Enter(t, pi, k) ==
  LET here == t[pi].leaves[k]
      np == NewPlyIndex(t)
      count == t[pi].nNonEmpty + (IF here # EmptyLeaf THEN 0 ELSE 1)
  IN IF IsTerminal(here)
     THEN [plys |-> [i \in DOMAIN t \cup {np} |->
                       IF i = np THEN InitPly(here, t[pi].lens[k])
                       ELSE IF i = pi
                         THEN WithLeaves(t[i], {k}, PlyLeaf(np), 0, count)
                       ELSE t[i]],
           at |-> np]
     ELSE [plys |-> t, at |-> here.ply]

(* The calls of setLeafHelper for one byte of the key after another, to    *)
(* the byte in which it ends, and addDelLeaf.set.                          *)
LastByte(len) == ((len - 1) \div ByteBits) + 1

Descend(t, s) ==
  LET path[j \in 1 .. LastByte(s.len)] ==
        IF j = 1 THEN [plys |-> t, at |-> 0]
        ELSE Enter(path[j - 1].plys, path[j - 1].at, s.key[j - 1])
  IN path

SetLeaf(t, s) ==
  LET last == LastByte(s.len)
      end == Descend(t, s)[last]
  IN SetSpan(end.plys, end.at, Span(s.key[last], ByteBits * last - s.len),
             SetResult(s.adj), s.len)

(* The leaves of the ply of byte j that unsetLeafHelper is about: it does  *)
(* not follow the key where it goes on.                                    *)
UnsetRange(s, j) ==
  LET n == s.len - ByteBits * j
      m == IF -n > ByteBits THEN ByteBits ELSE -n
  IN IF n > 0 THEN Span(s.key[j], n)
     ELSE Span(s.key[j] - (s.key[j] % 2 ^ m), m)

(* Leaves with the result to delete, and those of freed plys, are cleared. *)
Matches(ply, s, j, gone) ==
  {b \in UnsetRange(s, j) : \/ ply.leaves[b] = SetResult(s.adj)
                            \/ \E i \in gone : ply.leaves[b] = PlyLeaf(i)}

ClearLeaves(ply, S) ==
  WithLeaves(ply, S, EmptyLeaf, 0, ply.nNonEmpty - Cardinality(S))

(* unsetLeafHelper for the root and the plys in its range; two bytes on it *)
(* does nothing, as the width of its range is a whole byte, which wraps.   *)
(* A ply that is not the root is freed when its count comes to zero.       *)
UnsetLeaf(t, s) ==
  LET next == PliesAt(t[0], UnsetRange(s, 1))
      M(i) == Matches(t[i], s, 2, {})
      gone == {i \in next : t[i].nNonEmpty \in 1 .. Cardinality(M(i))}
  IN [i \in DOMAIN t \ gone |->
        IF i = 0 THEN ClearLeaves(t[i], Matches(t[i], s, 1, gone))
        ELSE IF i \in next THEN ClearLeaves(t[i], M(i))
        ELSE t[i]]

(* mtrie.init, when there is no root ply yet.                              *)
WithRoot ==
  IF DOMAIN plys = {} THEN [i \in {NewPlyIndex(plys)} |-> InitPly(EmptyLeaf, 0)]
  ELSE plys

(* setLessSpecific: the next shorter prefix in the map is set again, with  *)
(* the address of the deleted one as key.                                  *)
LessSpecific(p, map) ==
  {q \in DOMAIN map : q[2] \in 1 .. p[2] - 1 /\ Covers(q, p[1])}

SetLessSpecific(t, p, map) ==
  LET less == LessSpecific(p, map)
      q == CHOOSE x \in less : \A y \in less : y[2] <= x[2]
  IN IF less = {} THEN t
     ELSE SetLeaf(t, [key |-> p[1], len |-> q[2], adj |-> map[q]])

(* lookup, one byte after another; it does not look at the default leaf.   *)
LookupStep(t, l, b) == IF IsTerminal(l) THEN l ELSE t[l.ply].leaves[b]

Walk(a) ==
  LET leaf[j \in 0 .. AddrBytes] ==
        IF j = 0 THEN PlyLeaf(0) ELSE LookupStep(plys, leaf[j - 1], a[j])
  IN leaf

Lookup(a) == IF DOMAIN plys = {} THEN AdjMiss ELSE Walk(a)[AddrBytes].adj
-----------------------------------------------------------------------------
TrieInit ==
  /\ plys = <<>>
  /\ defaultLeaf = EmptyLeaf
  /\ reachable = <<>>
  /\ changes = 0
  /\ deletes = FALSE

Change == changes < TrieMax /\ changes' = changes + 1

(* Fib.addDel, without the next hops that module Ip4Fib is about.          *)
TrieAdd(p, adj) ==
  /\ Change
  /\ reachable' = [q \in DOMAIN reachable \cup {p} |->
                   IF q = p THEN adj ELSE reachable[q]]
  /\ IF p[2] = 0
     THEN defaultLeaf' = SetResult(adj) /\ plys' = WithRoot
     ELSE /\ plys' = SetLeaf(WithRoot,
                             [key |-> p[1], len |-> p[2], adj |-> adj])
          /\ UNCHANGED defaultLeaf
  /\ UNCHANGED deletes

(* Callers pass the route's own adjacency, AdjMiss or AdjNil.              *)
TrieDel(p, adj) ==
  LET map == [q \in DOMAIN reachable \ {p} |-> reachable[q]]
      s == [key |-> p[1], len |-> p[2], adj |-> adj]
  IN /\ Change
     /\ reachable' = map
     /\ IF p[2] = 0
        THEN defaultLeaf' = EmptyLeaf /\ plys' = WithRoot
        ELSE /\ plys' = SetLessSpecific(UnsetLeaf(WithRoot, s),
                                        p, map)
             /\ UNCHANGED defaultLeaf
     /\ deletes' = TRUE

(* FibReset                                                                *)
TrieReset ==
  /\ Change
  /\ plys' = <<>>
  /\ defaultLeaf' = EmptyLeaf
  /\ reachable' = <<>>
  /\ deletes' = FALSE

TrieNext ==
  \/ \E p \in TriePrefixes, adj \in TrieAdjs : TrieAdd(p, adj)
  \/ \E p \in TriePrefixes :
       \E adj \in {AdjMiss, AdjNil} \cup
                  {reachable[q] : q \in DOMAIN reachable \cap {p}} :
         TrieDel(p, adj)
  \/ TrieReset
-----------------------------------------------------------------------------
LongestMatch(a) ==
  LET covering == {p \in DOMAIN reachable : p[2] > 0 /\ Covers(p, a)}
  IN IF covering = {} THEN AdjMiss
     ELSE reachable[CHOOSE p \in covering : \A q \in covering : q[2] <= p[2]]

(* Prefixes that end at the end of a ply: the byte sum wraps to 0 and      *)
(* nothing is painted.                                                     *)
Unpainted(p) ==
  LET j == LastByte(p[2])
  IN p[2] > 0 /\ Span(p[1][j], ByteBits * j - p[2]) = {}

LookupIsLongestMatch ==
  \A a \in Addresses :
    (\A p \in DOMAIN reachable : Covers(p, a) => ~Unpainted(p)) =>
      Lookup(a) = LongestMatch(a)

Pointers ==
  {x \in (DOMAIN plys) \X Bytes :
     ~IsTerminal(plys[x[1]].leaves[x[2]])}

PliesAreATree ==
  \A x, y \in Pointers :
    LET l == plys[x[1]].leaves[x[2]]
    IN /\ l.ply \in DOMAIN plys \ {0}
       /\ l = plys[y[1]].leaves[y[2]] => x = y

(* No leaf points to a freed ply, to the root or to the ply of another     *)
(* leaf, whatever was added and deleted.  And while routes are only added, *)
(* changed and reset, in whatever order prefixes overlap, a lookup finds   *)
(* the longest match, except below a prefix that ends at the end of a ply, *)
(* where the byte sum wraps and nothing is painted.  (A deletion loses     *)
(* this: its byte sum is 0 for all prefixes that go on for a byte or more, *)
(* and most callers name another result than the leaf has.)                *)
TrieConsistent ==
  PliesAreATree /\ (changes > 0 /\ ~deletes => LookupIsLongestMatch)
=============================================================================
