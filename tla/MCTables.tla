------------------------------ MODULE MCTables ------------------------------
(* The tables that are changed by one call at a time: index pools, the     *)
(* timed event heap, the block allocator, the ip4 forwarding tables and    *)
(* the trie.                                                               *)
(* They share no state, so a run checks each by itself: subject says which *)
(* one this behaviour is about, and the others stay empty.                 *)
EXTENDS Pool, FibHeap, Heap, Ip4Fib, Mtrie

CONSTANTS
  Subjects,  \* the tables the run checks
  a1, a2     \* next hop addresses

VARIABLE subject

(* Two next hops, and a second weight for one of them.                     *)
TwoHops == {<<a1, 1>>, <<a2, 1>>, <<a2, 2>>}

(* Prefixes of three 2 bit bytes: nested within and across bytes, 0/0, and *)
(* one that ends at the end of its ply.                                    *)
NestedPrefixes ==
  {<<<<0, 0, 0>>, 0>>, <<<<0, 0, 0>>, 1>>, <<<<1, 0, 0>>, 2>>,
   <<<<1, 0, 0>>, 3>>, <<<<1, 1, 0>>, 4>>, <<<<1, 1, 0>>, 5>>,
   <<<<1, 1, 1>>, 6>>, <<<<1, 1, 3>>, 6>>}

TablesInit ==
  /\ subject \in Subjects
  /\ Init
  /\ FibInit
  /\ HeapInit
  /\ FibTabInit
  /\ TrieInit
  /\ subject # "fibheap" => events = <<>>

poolVars == vars

TablesNext ==
  /\ UNCHANGED subject
  /\ \/ /\ subject = "pool" /\ Next
        /\ UNCHANGED <<fibVars, heapVars, fibTabVars, trieVars>>
     \/ /\ subject = "fibheap" /\ FibNext
        /\ UNCHANGED <<poolVars, heapVars, fibTabVars, trieVars>>
     \/ /\ subject = "heap" /\ HeapNext
        /\ UNCHANGED <<poolVars, fibVars, fibTabVars, trieVars>>
     \/ /\ subject = "ip4" /\ FibTabNext
        /\ UNCHANGED <<poolVars, fibVars, heapVars, trieVars>>
     \/ /\ subject = "mtrie" /\ TrieNext
        /\ UNCHANGED <<poolVars, fibVars, heapVars, fibTabVars>>

tableVars == <<subject, poolVars, fibVars, heapVars, fibTabVars, trieVars>>

TablesSpec == TablesInit /\ [][TablesNext]_tableVars
=============================================================================
