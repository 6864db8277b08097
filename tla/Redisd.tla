------------------------------- MODULE Redisd -------------------------------
(***************************************************************************)
(* The redis server daemon of goes/cmd/redisd: the hashes other daemons    *)
(* publish through a datagram socket, the channels of subscribers, the     *)
(* caches of key and field names, and the prefixes that daemons assigned   *)
(* to themselves for hset.                                                 *)
(*                                                                         *)
(* Each handler holds the one mutex from its first access to its last, so  *)
(* it is one step.  A name is a sequence of segments; the sorted lists of  *)
(* names in the caches are sets.                                           *)
(***************************************************************************)
EXTENDS Integers, Sequences, SequencesExt, FiniteSets

CONSTANTS
  OtherFields,  \* fields of the hash that fspd and others publish
  Publishers,   \* daemons with a publisher's socket
  Subscribers,  \* connections that may subscribe to it
  SubDepth,     \* depth of a subscriber's channel (1024)
  SockDepth,    \* bound of the model on the datagrams in the socket
  Updates,      \* bound of the model on the datagrams of other daemons
  Restarts,     \* bound of the model on the restarts of redisd
  Shed,         \* the prefix whose fields other daemons delete
  Assigns       \* prefixes that daemons assign to themselves

ASSUME RedisdAssumption == SubDepth \in Nat \ {0} /\ SockDepth \in Nat \ {0}

VARIABLES
  sock,         \* datagrams of pubconn not yet read
  published,    \* Redisd.published[key]: field -> value
  chans,        \* Redisd.sub[key].Chans: the subscribers, in order
  queue,        \* subscriber -> messages in its channel
  reader,       \* subscriber -> "new", "open" or "closed" (culled)
  cachedSubkeys,  \* Redisd.cachedSubkeys[key]; {} when flushed
  cachedKeys,     \* Redisd.cachedKeys; {} when flushed
  assignments,    \* Redisd.assignments
  broken,       \* publishers whose socket gave an error (Accumulator.err)
  updates,      \* history: datagrams of other daemons so far
  restarts,     \* history: restarts of redisd so far
  sent,         \* history: the messages sent to subscribers so far
  taken         \* history: subscriber -> messages before it subscribed and
                \* those it took from its channel

redisdVars == <<sock, published, chans, queue, reader, cachedSubkeys,
                cachedKeys, assignments, broken, updates, restarts, sent,
                taken>>

Hash == <<"platina">>

RedisdInit ==
  /\ sock = <<>>
  /\ published = <<>>
  /\ chans = <<>>
  /\ queue = [s \in Subscribers |-> <<>>]
  /\ reader = [s \in Subscribers |-> "new"]
  /\ cachedSubkeys = {}
  /\ cachedKeys = {}
  /\ assignments = <<>>
  /\ broken = {}
  /\ updates = 0
  /\ restarts = 0
  /\ sent = <<>>
  /\ taken = [s \in Subscribers |-> 0]

(* Datagrams "field: value" and "delete: prefix".                          *)
Update(field, value) == [field |-> field, value |-> value]
Deletion(prefix) == [delete |-> prefix]

(* Publisher.Print: a full socket makes the publisher wait; after the      *)
(* first error everything is thrown away.                                  *)
PubPrint(p, m) ==
  \/ /\ p \in broken
     /\ UNCHANGED sock
  \/ /\ p \notin broken
     /\ Len(sock) < SockDepth
     /\ sock' = Append(sock, m)
-----------------------------------------------------------------------------
HasRoom(s) == Len(queue[s]) < SubDepth

(* Bug form: the subscriber behind a culled one is passed over.            *)
ReceivesSkipping(i) ==
  HasRoom(chans[i]) /\ (i > 1 => HasRoom(chans[i - 1]))

(* Subscriber number i of Chans gets the message; otherwise it is culled   *)
(* and the loop looks at the one that moved into its place.                *)
Receives(i) == HasRoom(chans[i])

(* The k-th smallest of a set of positions.                                *)
Kth(K, k) == CHOOSE i \in K : Cardinality({j \in K : j <= i}) = k

Tell(msg) ==
  LET kept == {i \in 1 .. Len(chans) : HasRoom(chans[i])}
      told == {chans[i] : i \in {j \in 1 .. Len(chans) : Receives(j)}}
      culled == {s \in Range(chans) : ~HasRoom(s)}
  IN /\ queue' = [s \in Subscribers |->
                    IF s \in told THEN Append(queue[s], msg) ELSE queue[s]]
     /\ reader' = [s \in Subscribers |->
                    IF s \in culled THEN "closed" ELSE reader[s]]
     /\ chans' = [k \in 1 .. Cardinality(kept) |-> chans[Kth(kept, k)]]
     /\ sent' = IF chans = <<>> THEN sent ELSE Append(sent, msg)

(* Bug form: the cache keeps the names it had.                             *)
FlushSubkeysNot == cachedSubkeys

(* flushSubkeyCache                                                        *)
FlushSubkeys == {}

(* gopub: one datagram; a delete is not told to subscribers.               *)
Gopub ==
  /\ sock # <<>>
  /\ sock' = Tail(sock)
  /\ LET m == Head(sock)
     IN \/ /\ "delete" \in DOMAIN m
           /\ published' = [f \in {g \in DOMAIN published :
                                     ~IsPrefix(m.delete, g)} |-> published[f]]
           /\ UNCHANGED <<queue, reader, chans, sent>>
        \/ /\ "field" \in DOMAIN m
           /\ published' = [f \in DOMAIN published \cup {m.field} |->
                             IF f = m.field THEN m.value ELSE published[f]]
           /\ Tell(m)
  /\ cachedSubkeys' = FlushSubkeys
  /\ UNCHANGED <<cachedKeys, assignments, broken, updates, restarts, taken>>

Subscribe(s) ==
  /\ reader[s] = "new"
  /\ reader' = [reader EXCEPT ![s] = "open"]
  /\ chans' = Append(chans, s)
  /\ taken' = [taken EXCEPT ![s] = Len(sent)]
  /\ UNCHANGED <<sock, published, queue, cachedSubkeys, cachedKeys,
                 assignments, broken, updates, restarts, sent>>

(* The connection writes the next message of its channel to the client; a  *)
(* closed channel still yields what it holds.                              *)
Deliver(s) ==
  /\ queue[s] # <<>>
  /\ queue' = [queue EXCEPT ![s] = Tail(@)]
  /\ taken' = [taken EXCEPT ![s] = @ + 1]
  /\ UNCHANGED <<sock, published, chans, reader, cachedSubkeys, cachedKeys,
                 assignments, broken, updates, restarts, sent>>

(* Hkeys and Hgetall: the cached names are used while they are as many as  *)
(* the fields.                                                             *)
Hkeys ==
  /\ cachedSubkeys' =
       IF Cardinality(cachedSubkeys) # Cardinality(DOMAIN published)
       THEN DOMAIN published ELSE cachedSubkeys
  /\ UNCHANGED <<sock, published, chans, queue, reader, cachedKeys,
                 assignments, broken, updates, restarts, sent, taken>>

(* Keys: the hashes and the first segments of the assigned prefixes.       *)
AllKeys ==
  {Hash} \cup {<<assignments[i].prefix[1]>> : i \in DOMAIN assignments}

Keys ==
  /\ cachedKeys' = IF cachedKeys = {} THEN AllKeys ELSE cachedKeys
  /\ UNCHANGED <<sock, published, chans, queue, reader, cachedSubkeys,
                 assignments, broken, updates, restarts, sent, taken>>

(* Assignments.Insert: longest first, a new one behind its equals.  (The   *)
(* code also sorts equally long prefixes, of which no two match one name.) *)
Insert(as, p) ==
  LET longer == SelectSeq(as, LAMBDA a : Len(a.prefix) >= Len(p.prefix))
      shorter == SelectSeq(as, LAMBDA a : Len(a.prefix) < Len(p.prefix))
  IN Append(longer, p) \o shorter

(* Assignments.Find and Delete look from the end: the shortest match.      *)
Matches(as, name) == {i \in DOMAIN as : IsPrefix(as[i].prefix, name)}
LastMatch(as, name) ==
  CHOOSE i \in Matches(as, name) : \A j \in Matches(as, name) : j <= i

Find(as, name) ==
  IF Matches(as, name) = {} THEN "none" ELSE as[LastMatch(as, name)].v

(* flushKeyCache                                                           *)
FlushKeys == {}

Assign(prefix, v) ==
  /\ assignments' = Insert(assignments, [prefix |-> prefix, v |-> v])
  /\ cachedKeys' = FlushKeys
  /\ UNCHANGED <<sock, published, chans, queue, reader, cachedSubkeys,
                 broken, updates, restarts, sent, taken>>

(* An unknown name is no error: Find never returns nil.                    *)
Unassign(name) ==
  /\ assignments' = IF Matches(assignments, name) = {} THEN assignments
                    ELSE RemoveAt(assignments, LastMatch(assignments, name))
  /\ cachedKeys' = FlushKeys
  /\ UNCHANGED <<sock, published, chans, queue, reader, cachedSubkeys,
                 broken, updates, restarts, sent, taken>>

(* A daemon such as fspd publishes a field or deletes fields by prefix.    *)
OtherPrint(p, m) ==
  /\ updates < Updates
  /\ updates' = updates + 1
  /\ PubPrint(p, m)
  /\ UNCHANGED <<published, chans, queue, reader, cachedSubkeys, cachedKeys,
                 assignments, broken, restarts, sent, taken>>

(* redisd is killed and started again: everything it had is gone, and the  *)
(* daemons' sockets are connected to nothing.                              *)
RedisdRestart ==
  /\ restarts < Restarts
  /\ restarts' = restarts + 1
  /\ broken' = Publishers
  /\ sock' = <<>>
  /\ published' = <<>>
  /\ chans' = <<>>
  /\ queue' = [s \in Subscribers |-> <<>>]
  /\ reader' = [s \in Subscribers |->
                  IF reader[s] = "new" THEN "new" ELSE "closed"]
  /\ cachedSubkeys' = {}
  /\ cachedKeys' = {}
  /\ assignments' = <<>>
  /\ UNCHANGED <<updates, sent, taken>>

(* What redisd does whoever uses it; what its other users do.  Every       *)
(* published value is a new one.  Bound: no more assignments at a time     *)
(* than there are prefixes.                                                *)
RedisdNext == Gopub \/ RedisdRestart

UsersNext ==
  \/ \E p \in Publishers, f \in OtherFields :
       OtherPrint(p, Update(f, updates + 1))
  \/ \E p \in Publishers : OtherPrint(p, Deletion(Shed))
  \/ \E s \in Subscribers : Subscribe(s) \/ Deliver(s)
  \/ Hkeys
  \/ Keys
  \/ \E prefix \in Assigns :
       Len(assignments) < Cardinality(Assigns) /\ Assign(prefix, "other")
  \/ \E name \in Assigns : Unassign(name)
-----------------------------------------------------------------------------
(* A subscriber misses nothing and gets nothing twice: its channel holds   *)
(* exactly the messages sent since it subscribed that it has not taken, in *)
(* order, however slow the other subscribers are and whichever of them     *)
(* were culled; a culled subscriber saw an unbroken part.                  *)
SubscribersInOrder ==
  \A s \in Subscribers :
    LET to == taken[s] + Len(queue[s])
    IN reader[s] # "new" =>
         /\ to <= Len(sent)
         /\ queue[s] = SubSeq(sent, taken[s] + 1, to)
         /\ reader[s] = "open" => to = Len(sent) /\ s \in Range(chans)

(* What hkeys answers from its cache is what is published now, though the  *)
(* cache is only compared by its length; a key that keys answers exists.   *)
CachesCurrent ==
  /\ Cardinality(cachedSubkeys) = Cardinality(DOMAIN published)
       => cachedSubkeys = DOMAIN published
  /\ cachedKeys \subseteq AllKeys
=============================================================================
