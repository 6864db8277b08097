---------------------------- MODULE RedisdProofs ----------------------------
(***************************************************************************)
(* Proofs about redisd together with vnetd and the other daemons that use  *)
(* it, for every set of publishers, subscribers, fields and clients and    *)
(* every depth of the channels.                                            *)
(***************************************************************************)
EXTENDS Vnetd, FiniteSetTheorems, FunctionTheorems, TLAPS

(* redisd with all its users at once.                                      *)
PathNext ==
  \/ RedisdNext /\ UNCHANGED vnetdVars
  \/ UsersNext /\ UNCHANGED vnetdVars
  \/ VnetdNext

PathSpec == RedisdInit /\ VnetdInit /\ [][PathNext]_pathVars
-----------------------------------------------------------------------------
(* The cached names of the fields were those of now, or were flushed.      *)
CacheInv ==
  /\ IsFiniteSet(DOMAIN published)
  /\ cachedSubkeys \in {{}, DOMAIN published}
  /\ cachedKeys \subseteq AllKeys

(* What vnetd's steps do to redisd.                                        *)
LEMMA VnetdFrame ==
  ASSUME VnetdNext
  PROVE  \/ Assign(VnetPrefix, "vnetd")
         \/ UNCHANGED <<published, chans, queue, reader, cachedSubkeys, cachedKeys,
                        assignments, sent, taken>>
BY DEF VnetdNext, VnetdStart, Hset, TakeErr, TakeNewValue, Publish, EventAction,
       SendNewValue, SendErr, PutEvent, Poll, Gopublish, redisdVars

(* Every step keeps the caches: what changes the fields flushes the names  *)
(* of the fields, what changes the assignments flushes the keys.           *)
LEMMA CacheStep == CacheInv /\ [PathNext]_pathVars => CacheInv'
<1> SUFFICES ASSUME CacheInv, [PathNext]_pathVars PROVE CacheInv'
  OBVIOUS
<1>1. CASE UNCHANGED <<published, cachedSubkeys, cachedKeys, assignments>>
  BY <1>1 DEF CacheInv, AllKeys
<1>2. CASE Gopub
  <2>1. cachedSubkeys' = {} /\ UNCHANGED <<cachedKeys, assignments>>
    BY <1>2 DEF Gopub, FlushSubkeys
  <2>2. IsFiniteSet(DOMAIN published')
    <3>0. PICK m : m = Head(sock)
      OBVIOUS
    <3>1. ASSUME published' = [f \in {g \in DOMAIN published : ~IsPrefix(m.delete, g)}
                                 |-> published[f]]
          PROVE  IsFiniteSet(DOMAIN published')
      <4>1. DOMAIN published' \subseteq DOMAIN published
        BY <3>1
      <4>2. QED BY <4>1, FS_Subset DEF CacheInv
    <3>2. ASSUME published' = [f \in DOMAIN published \cup {m.field} |->
                                 IF f = m.field THEN m.value ELSE published[f]]
          PROVE  IsFiniteSet(DOMAIN published')
      <4>1. DOMAIN published' = DOMAIN published \cup {m.field}
        BY <3>2
      <4>2. IsFiniteSet(DOMAIN published \cup {m.field})
        BY FS_AddElement DEF CacheInv
      <4>3. QED BY <4>1, <4>2
    <3>3. QED BY <1>2, <3>0, <3>1, <3>2 DEF Gopub
  <2>3. QED BY <2>1, <2>2 DEF CacheInv, AllKeys
<1>3. CASE Hkeys
  BY <1>3 DEF Hkeys, CacheInv, AllKeys
<1>4. CASE Keys
  BY <1>4 DEF Keys, CacheInv, AllKeys
<1>5. ASSUME NEW p, NEW v, Assign(p, v) PROVE CacheInv'
  BY <1>5 DEF Assign, FlushKeys, CacheInv, AllKeys
<1>6. ASSUME NEW p, Unassign(p) PROVE CacheInv'
  BY <1>6 DEF Unassign, FlushKeys, CacheInv, AllKeys
<1>7. CASE RedisdRestart
  <2>1. DOMAIN published' = {} /\ cachedSubkeys' = {} /\ cachedKeys' = {}
    BY <1>7 DEF RedisdRestart
  <2>2. QED BY <2>1, FS_EmptySet DEF CacheInv
<1>8. CASE VnetdNext
  BY <1>1, <1>5, <1>8, VnetdFrame
<1>9. CASE RedisdNext
  BY <1>2, <1>7, <1>9 DEF RedisdNext
<1>10. CASE UsersNext
  BY <1>1, <1>3, <1>4, <1>5, <1>6, <1>10 DEF UsersNext, OtherPrint, Subscribe, Deliver
<1>11. CASE UNCHANGED pathVars
  BY <1>1, <1>11 DEF pathVars, redisdVars
<1>12. QED BY <1>8, <1>9, <1>10, <1>11 DEF PathNext

(* What hkeys and keys answer from the caches of redisd is current,        *)
(* although the cached names are only compared by their number, whatever   *)
(* is published, deleted, assigned and unassigned between two answers.     *)
THEOREM CachesCorrect == PathSpec => []CachesCurrent
<1>1. RedisdInit => CacheInv
  <2> SUFFICES ASSUME RedisdInit PROVE CacheInv
    OBVIOUS
  <2>1. DOMAIN published = {} /\ cachedSubkeys = {} /\ cachedKeys = {}
    BY DEF RedisdInit
  <2>2. QED BY <2>1, FS_EmptySet DEF CacheInv
<1>2. CacheInv => CachesCurrent
  <2> SUFFICES ASSUME CacheInv,
                      Cardinality(cachedSubkeys) = Cardinality(DOMAIN published)
               PROVE  cachedSubkeys = DOMAIN published
    BY DEF CacheInv, CachesCurrent
  <2>1. CASE cachedSubkeys = {}
    BY <2>1, FS_EmptySet DEF CacheInv
  <2>2. QED BY <2>1 DEF CacheInv
<1>3. QED BY <1>1, <1>2, CacheStep, PTL DEF PathSpec

-----------------------------------------------------------------------------
(* The positions a culling leaves are renumbered without gap.              *)
LEMMA KthFacts ==
  ASSUME NEW n \in Nat, NEW K \in SUBSET (1 .. n)
  PROVE  /\ Cardinality(K) \in Nat
         /\ \A k \in 1 .. Cardinality(K) : Kth(K, k) \in K
         /\ \A i \in K : \E k \in 1 .. Cardinality(K) : Kth(K, k) = i
<1> DEFINE Below(i) == {j \in K : j <= i}
           N == Cardinality(K)
           rank == [i \in K |-> Cardinality(Below(i))]
<1>1. IsFiniteSet(K) /\ N \in Nat
  <2>1. IsFiniteSet(1 .. n)
    BY FS_Interval
  <2>2. QED BY <2>1, FS_Subset, FS_CardinalityType
<1>2. ASSUME NEW i \in K
      PROVE  /\ IsFiniteSet(Below(i)) /\ Cardinality(Below(i)) \in 1 .. N
  <2>1. Below(i) \in SUBSET K /\ i \in Below(i)
    OBVIOUS
  <2> HIDE DEF Below, N
  <2>2. IsFiniteSet(Below(i)) /\ Cardinality(Below(i)) <= N /\ Cardinality(Below(i)) \in Nat
    BY <1>1, <2>1, FS_Subset, FS_CardinalityType DEF N
  <2>3. Cardinality(Below(i)) # 0
    BY <2>1, <2>2, FS_EmptySet
  <2>4. QED BY <1>1, <2>2, <2>3
<1>3. ASSUME NEW i \in K, NEW j \in K, i < j
      PROVE  Cardinality(Below(i)) # Cardinality(Below(j))
  <2>0. i \in Int /\ j \in Int /\ \A x \in K : x \in Int
    OBVIOUS
  <2>1. Below(i) \in SUBSET Below(j) /\ j \in Below(j) /\ j \notin Below(i)
    <3>1. \A x \in Int : x <= i => x <= j
      BY <1>3, <2>0
    <3>2. j <= j /\ ~(j <= i)
      BY <1>3, <2>0
    <3>3. QED BY <2>0, <3>1, <3>2
  <2> HIDE DEF Below
  <2>2. Below(i) # Below(j)
    BY <2>1
  <2>3. QED BY <1>2, <2>1, <2>2, FS_Subset
<1>4. ASSUME NEW i \in K, NEW j \in K, Cardinality(Below(i)) = Cardinality(Below(j))
      PROVE  i = j
  <2>1. i \in Int /\ j \in Int
    OBVIOUS
  <2> HIDE DEF Below
  <2>2. i < j \/ j < i \/ i = j
    BY <2>1
  <2>3. QED BY <1>3, <1>4, <2>2
<1>5. rank \in [K -> 1 .. N]
  BY <1>2
<1>6. \A i \in K : rank[i] = Cardinality(Below(i))
  OBVIOUS
<1>7. \A i, j \in K : rank[i] = rank[j] => i = j
  BY <1>4, <1>6
<1> HIDE DEF rank, Below, N
<1>8. rank \in Injection(K, 1 .. N)
  BY <1>5, <1>7, Fun_IsInj
<1>9. IsFiniteSet(1 .. N) /\ Cardinality(1 .. N) = N
  BY <1>1, FS_Interval
<1>10. rank \in Surjection(K, 1 .. N)
  BY <1>8, <1>9, FS_Injection DEF N
<1>11. \A k \in 1 .. N : \E i \in K : rank[i] = k
  BY <1>10, Fun_SurjectionProperties
<1>12. ASSUME NEW k PROVE Kth(K, k) = CHOOSE i \in K : Cardinality(Below(i)) = k
  BY DEF Kth, Below
<1>13. ASSUME NEW k \in 1 .. N PROVE Kth(K, k) \in K
  BY <1>6, <1>11, <1>12
<1>14. ASSUME NEW i \in K PROVE Kth(K, rank[i]) = i /\ rank[i] \in 1 .. N
  BY <1>4, <1>5, <1>6, <1>12
<1>15. QED BY <1>1, <1>13, <1>14 DEF N

(* A sequence of whatever it holds.                                        *)
IsSeq(q) == q \in Seq({q[k] : k \in 1 .. Len(q)})

(* A sequence of any kind is one of what it holds.                         *)
LEMMA SeqIsSeq == ASSUME NEW S, NEW q \in Seq(S) PROVE IsSeq(q)
<1>1. Len(q) \in Nat /\ q = [k \in 1 .. Len(q) |-> q[k]]
  OBVIOUS
<1>2. QED BY <1>1 DEF IsSeq

(* Sends and receives on a channel.                                        *)
LEMMA SeqFacts ==
  ASSUME NEW q, IsSeq(q), NEW m
  PROVE  /\ Len(q) \in Nat
         /\ IsSeq(Append(q, m)) /\ Len(Append(q, m)) = Len(q) + 1
         /\ \A k \in 1 .. Len(q) : Append(q, m)[k] = q[k]
         /\ Append(q, m)[Len(q) + 1] = m
         /\ q # <<>> => /\ Len(q) # 0 /\ IsSeq(Tail(q)) /\ Len(Tail(q)) = Len(q) - 1
                        /\ \A k \in 1 .. Len(q) - 1 : Tail(q)[k] = q[k + 1]
<1> DEFINE S == {q[k] : k \in 1 .. Len(q)}
           T == S \cup {m}
<1>1. q \in Seq(S) /\ q \in Seq(T) /\ m \in T
  <2>1. q \in Seq(S)
    BY DEF IsSeq
  <2> HIDE DEF S
  <2>2. QED BY <2>1
<1> HIDE DEF S, T
<1>2. /\ Len(q) \in Nat /\ Append(q, m) \in Seq(T) /\ Len(Append(q, m)) = Len(q) + 1
      /\ \A k \in 1 .. Len(q) : Append(q, m)[k] = q[k]
      /\ Append(q, m)[Len(q) + 1] = m
  BY <1>1
<1>3. q # <<>> => /\ Len(q) # 0 /\ Tail(q) \in Seq(S) /\ Len(Tail(q)) = Len(q) - 1
                  /\ \A k \in 1 .. Len(q) - 1 : Tail(q)[k] = q[k + 1]
  BY <1>1
<1>4. IsSeq(Append(q, m)) /\ (q # <<>> => IsSeq(Tail(q)))
  BY <1>2, <1>3, SeqIsSeq
<1>5. QED BY <1>2, <1>3, <1>4

(* q is what t holds after its first a entries, or a part of it.           *)
Window(q, t, a) ==
  a + Len(q) <= Len(t) /\ \A k \in 1 .. Len(q) : q[k] = t[a + k]

(* The subscribers of Chans are those that are open; one that has not      *)
(* subscribed has an empty channel; a channel is a window of what was sent,*)
(* which reaches to the end while the subscriber is open.                  *)
SubscriberInv ==
  /\ chans \in Seq(Subscribers)
  /\ reader \in [Subscribers -> {"new", "open", "closed"}]
  /\ taken \in [Subscribers -> Nat]
  /\ queue = [s \in Subscribers |-> queue[s]]
  /\ IsSeq(sent) /\ \A s \in Subscribers : IsSeq(queue[s])
  /\ \A s \in Subscribers :
       reader[s] = "open" <=> \E i \in 1 .. Len(chans) : chans[i] = s
  /\ \A s \in Subscribers : reader[s] = "new" => queue[s] = <<>>
  /\ \A s \in Subscribers : reader[s] # "new" => Window(queue[s], sent, taken[s])
  /\ \A s \in Subscribers :
       reader[s] = "open" => taken[s] + Len(queue[s]) = Len(sent)

(* The windows after a message was sent.                                   *)
LEMMA WindowSend ==
  ASSUME NEW q, IsSeq(q), NEW t, IsSeq(t), NEW a \in Nat, Window(q, t, a), NEW m
  PROVE  /\ Window(q, Append(t, m), a)
         /\ a + Len(q) = Len(t) => /\ Window(Append(q, m), Append(t, m), a)
                                   /\ a + Len(Append(q, m)) = Len(Append(t, m))
<1>1. /\ Len(q) \in Nat /\ Len(t) \in Nat /\ a + Len(q) <= Len(t)
      /\ Len(Append(q, m)) = Len(q) + 1 /\ Len(Append(t, m)) = Len(t) + 1
  BY SeqFacts DEF Window
<1>2. ASSUME NEW k \in 1 .. Len(q)
      PROVE  /\ q[k] = Append(t, m)[a + k]
             /\ Append(q, m)[k] = Append(t, m)[a + k]
  <2>1. a + k \in 1 .. Len(t)
    BY <1>1
  <2>2. q[k] = t[a + k] /\ Append(q, m)[k] = q[k] /\ Append(t, m)[a + k] = t[a + k]
    BY <2>1, SeqFacts DEF Window
  <2>3. QED BY <2>2
<1>3. Window(q, Append(t, m), a)
  BY <1>1, <1>2 DEF Window
<1>4. ASSUME a + Len(q) = Len(t) PROVE Window(Append(q, m), Append(t, m), a)
  <2>1. ASSUME NEW k \in 1 .. Len(q) + 1 PROVE Append(q, m)[k] = Append(t, m)[a + k]
    <3>1. CASE k = Len(q) + 1
      <4>1. a + k = Len(t) + 1
        BY <1>1, <1>4, <3>1
      <4>2. QED BY <3>1, <4>1, SeqFacts
    <3>2. CASE k # Len(q) + 1
      <4>1. k \in 1 .. Len(q)
        BY <1>1, <3>2
      <4>2. QED BY <1>2, <4>1
    <3>3. QED BY <3>1, <3>2
  <2>2. a + Len(Append(q, m)) <= Len(Append(t, m))
    BY <1>1, <1>4
  <2>3. 1 .. Len(Append(q, m)) = 1 .. Len(q) + 1
    BY <1>1
  <2>4. QED BY <2>1, <2>2, <2>3, Zenon DEF Window
<1>5. QED BY <1>1, <1>3, <1>4


(* A subscriber without room leaves Chans and no other does; the others    *)
(* get the message, and only they.                                         *)
LEMMA TellFacts ==
  ASSUME SubscriberInv, NEW msg, Tell(msg)
  PROVE  /\ chans' \in Seq(Subscribers)
         /\ \A s \in Subscribers :
              (\E i \in 1 .. Len(chans') : chans'[i] = s)
                <=> reader[s] = "open" /\ HasRoom(s)
         /\ reader' = [s \in Subscribers |->
                         IF reader[s] = "open" /\ ~HasRoom(s) THEN "closed" ELSE reader[s]]
         /\ queue' = [s \in Subscribers |->
                        IF reader[s] = "open" /\ HasRoom(s)
                        THEN Append(queue[s], msg) ELSE queue[s]]
         /\ sent' = Append(sent, msg)
              \/ (sent' = sent /\ \A s \in Subscribers : reader[s] # "open")
<1>0. PICK kept : kept = {i \in 1 .. Len(chans) : HasRoom(chans[i])}
  OBVIOUS
<1>1. /\ chans \in Seq(Subscribers) /\ Len(chans) \in Nat
      /\ \A i \in 1 .. Len(chans) : chans[i] \in Subscribers
      /\ \A s \in Subscribers : reader[s] = "open" <=> \E i \in 1 .. Len(chans) : chans[i] = s
  BY DEF SubscriberInv
<1>2. kept \in SUBSET (1 .. Len(chans))
  BY <1>0
<1>3. /\ Cardinality(kept) \in Nat
      /\ \A k \in 1 .. Cardinality(kept) : Kth(kept, k) \in kept
      /\ \A i \in kept : \E k \in 1 .. Cardinality(kept) : Kth(kept, k) = i
  BY <1>1, <1>2, KthFacts
<1>4. chans' = [k \in 1 .. Cardinality(kept) |-> chans[Kth(kept, k)]]
  BY <1>0 DEF Tell
<1>5. \A k \in 1 .. Cardinality(kept) : chans[Kth(kept, k)] \in Subscribers
  BY <1>1, <1>2, <1>3
<1>6. PICK c : c = Cardinality(kept)
  OBVIOUS
<1>7. chans' \in Seq(Subscribers) /\ Len(chans') = c
      /\ \A k \in 1 .. c : chans'[k] = chans[Kth(kept, k)]
  <2> DEFINE g(k) == chans[Kth(kept, k)]
  <2>1. c \in Nat /\ chans' = [k \in 1 .. c |-> g(k)] /\ \A k \in 1 .. c : g(k) \in Subscribers
    BY <1>3, <1>4, <1>5, <1>6
  <2> HIDE DEF g
  <2>2. QED
    <3>1. chans' \in Seq(Subscribers) /\ Len(chans') = c /\ \A k \in 1 .. c : chans'[k] = g(k)
      BY <2>1
    <3>2. QED BY <3>1 DEF g
<1>8. ASSUME NEW s \in Subscribers
      PROVE  (\E i \in 1 .. Len(chans') : chans'[i] = s) <=> reader[s] = "open" /\ HasRoom(s)
  <2>1. ASSUME NEW i \in 1 .. Len(chans'), chans'[i] = s PROVE reader[s] = "open" /\ HasRoom(s)
    <3>1. i \in 1 .. c /\ Kth(kept, i) \in kept /\ chans[Kth(kept, i)] = s
      BY <1>3, <1>6, <1>7, <2>1
    <3>2. QED BY <1>0, <1>1, <3>1
  <2>2. ASSUME reader[s] = "open", HasRoom(s) PROVE \E i \in 1 .. Len(chans') : chans'[i] = s
    <3>1. PICK i \in 1 .. Len(chans) : chans[i] = s
      BY <1>1, <2>2
    <3>2. i \in kept
      BY <1>0, <2>2, <3>1
    <3>3. PICK k \in 1 .. c : Kth(kept, k) = i
      BY <1>3, <1>6, <3>2
    <3>4. chans'[k] = s /\ k \in 1 .. Len(chans')
      BY <1>7, <3>1, <3>3
    <3>5. QED BY <3>4
  <2>3. QED BY <2>1, <2>2
<1>9. Range(chans) = {chans[i] : i \in 1 .. Len(chans)}
  BY <1>1 DEF Range
<1>10. ASSUME NEW s \in Subscribers
       PROVE  /\ s \in {chans[i] : i \in {j \in 1 .. Len(chans) : Receives(j)}}
                   <=> reader[s] = "open" /\ HasRoom(s)
              /\ s \in {z \in Range(chans) : ~HasRoom(z)} <=> reader[s] = "open" /\ ~HasRoom(s)
  BY <1>1, <1>9, Zenon DEF Receives
<1>11. reader' = [s \in Subscribers |->
                    IF reader[s] = "open" /\ ~HasRoom(s) THEN "closed" ELSE reader[s]]
  <2>1. reader' = [s \in Subscribers |->
                    IF s \in {z \in Range(chans) : ~HasRoom(z)} THEN "closed" ELSE reader[s]]
    BY DEF Tell
  <2>2. QED BY <1>10, <2>1
<1>12. queue' = [s \in Subscribers |->
                   IF reader[s] = "open" /\ HasRoom(s)
                   THEN Append(queue[s], msg) ELSE queue[s]]
  <2>1. queue' = [s \in Subscribers |->
                   IF s \in {chans[i] : i \in {j \in 1 .. Len(chans) : Receives(j)}}
                   THEN Append(queue[s], msg) ELSE queue[s]]
    BY DEF Tell
  <2> HIDE DEF Receives
  <2>2. QED BY <1>10, <2>1, Zenon
<1>13. sent' = Append(sent, msg)
         \/ (sent' = sent /\ \A s \in Subscribers : reader[s] # "open")
  <2>1. CASE chans = <<>>
    <3>1. sent' = sent /\ Len(chans) = 0
      BY <2>1 DEF Tell
    <3>2. QED BY <1>1, <3>1
  <2>2. CASE chans # <<>>
    BY <2>2 DEF Tell
  <2>3. QED BY <2>1, <2>2
<1>14. QED BY <1>7, <1>8, <1>11, <1>12, <1>13

(* Telling the subscribers keeps their invariant.                          *)
LEMMA TellStep ==
  ASSUME SubscriberInv, NEW msg, Tell(msg), taken' = taken
  PROVE  SubscriberInv'
<1>1. chans' \in Seq(Subscribers)
  BY TellFacts
<1>2. ASSUME NEW s \in Subscribers
      PROVE  /\ reader'[s] = IF reader[s] = "open" /\ ~HasRoom(s) THEN "closed" ELSE reader[s]
             /\ queue'[s] = IF reader[s] = "open" /\ HasRoom(s)
                            THEN Append(queue[s], msg) ELSE queue[s]
  BY TellFacts
<1>3. reader' \in [Subscribers -> {"new", "open", "closed"}]
  BY TellFacts DEF SubscriberInv
<1>4. taken' \in [Subscribers -> Nat] /\ queue' = [s \in Subscribers |-> queue'[s]]
  BY TellFacts DEF SubscriberInv
<1>5. IsSeq(sent) /\ IsSeq(Append(sent, msg)) /\ IsSeq(sent')
  <2>1. IsSeq(sent)
    BY DEF SubscriberInv
  <2>2. IsSeq(Append(sent, msg))
    BY <2>1, SeqFacts
  <2>3. sent' = sent \/ sent' = Append(sent, msg)
    BY TellFacts
  <2>4. QED BY <2>1, <2>2, <2>3
<1>6. ASSUME NEW s \in Subscribers PROVE IsSeq(queue[s]) /\ IsSeq(queue'[s])
  <2>1. IsSeq(queue[s])
    BY DEF SubscriberInv
  <2>2. IsSeq(Append(queue[s], msg))
    BY <2>1, SeqFacts
  <2>3. QED BY <1>2, <2>1, <2>2
<1>7. ASSUME NEW s \in Subscribers
      PROVE  reader'[s] = "open" <=> \E i \in 1 .. Len(chans') : chans'[i] = s
  <2>1. (\E i \in 1 .. Len(chans') : chans'[i] = s) <=> reader[s] = "open" /\ HasRoom(s)
    BY TellFacts
  <2>2. QED BY <1>2, <2>1
<1>8. ASSUME NEW s \in Subscribers, reader'[s] = "new" PROVE queue'[s] = <<>>
  BY <1>2, <1>8 DEF SubscriberInv
<1>9. ASSUME NEW s \in Subscribers, reader'[s] # "new"
      PROVE  /\ Window(queue'[s], sent', taken'[s])
             /\ reader'[s] = "open" => taken'[s] + Len(queue'[s]) = Len(sent')
  <2>1. /\ reader[s] # "new" /\ Window(queue[s], sent, taken[s]) /\ taken[s] \in Nat
        /\ reader[s] = "open" => taken[s] + Len(queue[s]) = Len(sent)
    BY <1>2, <1>9 DEF SubscriberInv
  <2>2. /\ Window(queue[s], Append(sent, msg), taken[s])
        /\ taken[s] + Len(queue[s]) = Len(sent) =>
             /\ Window(Append(queue[s], msg), Append(sent, msg), taken[s])
             /\ taken[s] + Len(Append(queue[s], msg)) = Len(Append(sent, msg))
    BY <1>5, <1>6, <2>1, WindowSend
  <2>3. CASE reader[s] = "open" /\ HasRoom(s)
    <3>1. sent' = Append(sent, msg) /\ queue'[s] = Append(queue[s], msg)
      BY <1>2, <2>3, TellFacts
    <3>2. QED BY <2>1, <2>2, <2>3, <3>1
  <2>4. CASE ~(reader[s] = "open" /\ HasRoom(s))
    <3>1. queue'[s] = queue[s] /\ reader'[s] # "open"
      BY <1>2, <2>4
    <3>2. sent' = sent \/ sent' = Append(sent, msg)
      BY TellFacts
    <3>3. QED BY <2>1, <2>2, <3>1, <3>2
  <2>5. QED BY <2>3, <2>4
<1>10. QED BY <1>1, <1>3, <1>4, <1>5, <1>6, <1>7, <1>8, <1>9 DEF SubscriberInv


(* Every step keeps the subscribers' invariant.                            *)
LEMMA SubscriberStep == SubscriberInv /\ [PathNext]_pathVars => SubscriberInv'
<1> SUFFICES ASSUME SubscriberInv, [PathNext]_pathVars PROVE SubscriberInv'
  OBVIOUS
<1>1. CASE UNCHANGED <<chans, queue, reader, sent, taken>>
  BY <1>1, Zenon DEF SubscriberInv
<1>2. CASE Gopub
  <2>1. CASE UNCHANGED <<queue, reader, chans, sent>>
    BY <1>1, <1>2, <2>1 DEF Gopub
  <2>2. CASE Tell(Head(sock))
    BY <1>2, <2>2, TellStep DEF Gopub
  <2>3. QED BY <1>2, <2>1, <2>2 DEF Gopub
<1>3. ASSUME NEW s \in Subscribers, Subscribe(s) PROVE SubscriberInv'
  <2>1. /\ reader[s] = "new" /\ reader' = [reader EXCEPT ![s] = "open"]
        /\ chans' = Append(chans, s) /\ taken' = [taken EXCEPT ![s] = Len(sent)]
        /\ queue' = queue /\ sent' = sent
    BY <1>3 DEF Subscribe
  <2>2. /\ chans' \in Seq(Subscribers) /\ Len(chans') = Len(chans) + 1 /\ Len(chans) \in Nat
        /\ \A i \in 1 .. Len(chans) : chans'[i] = chans[i]
        /\ chans'[Len(chans) + 1] = s
    BY <2>1 DEF SubscriberInv
  <2>3. Len(sent) \in Nat /\ IsSeq(sent)
    BY SeqFacts DEF SubscriberInv
  <2>4. /\ reader' \in [Subscribers -> {"new", "open", "closed"}] /\ taken' \in [Subscribers -> Nat]
        /\ reader'[s] = "open" /\ taken'[s] = Len(sent)
        /\ \A z \in Subscribers \ {s} : reader'[z] = reader[z] /\ taken'[z] = taken[z]
    BY <2>1, <2>3 DEF SubscriberInv
  <2>5. ASSUME NEW z \in Subscribers
        PROVE  reader'[z] = "open" <=> \E i \in 1 .. Len(chans') : chans'[i] = z
    <3>1. CASE z = s
      <4>1. Len(chans) + 1 \in 1 .. Len(chans')
        BY <2>2
      <4>2. QED BY <2>2, <2>4, <3>1, <4>1
    <3>2. CASE z # s
      <4>1. reader[z] = "open" <=> \E i \in 1 .. Len(chans) : chans[i] = z
        BY DEF SubscriberInv
      <4>2. ASSUME NEW i \in 1 .. Len(chans'), chans'[i] = z
            PROVE  i \in 1 .. Len(chans) /\ chans[i] = z
        BY <2>2, <3>2, <4>2
      <4>3. ASSUME NEW i \in 1 .. Len(chans), chans[i] = z
            PROVE  i \in 1 .. Len(chans') /\ chans'[i] = z
        BY <2>2, <4>3
      <4>4. QED BY <2>4, <3>2, <4>1, <4>2, <4>3
    <3>3. QED BY <3>1, <3>2
  <2>6. Window(queue'[s], sent', taken'[s]) /\ taken'[s] + Len(queue'[s]) = Len(sent')
    <3>1. queue'[s] = <<>> /\ taken'[s] = Len(sent) /\ sent' = sent
      BY <2>1, <2>4 DEF SubscriberInv
    <3>2. Len(queue'[s]) = 0
      BY <3>1
    <3>3. QED BY <2>3, <3>1, <3>2 DEF Window
  <2>7. ASSUME NEW z \in Subscribers
        PROVE  /\ reader'[z] = "new" => queue'[z] = <<>>
               /\ reader'[z] # "new" => Window(queue'[z], sent', taken'[z])
               /\ reader'[z] = "open" => taken'[z] + Len(queue'[z]) = Len(sent')
    <3>1. CASE z = s
      BY <2>4, <2>6, <3>1
    <3>2. CASE z # s
      <4>1. reader'[z] = reader[z] /\ taken'[z] = taken[z] /\ queue'[z] = queue[z] /\ sent' = sent
        BY <2>1, <2>4, <3>2
      <4>2. QED BY <4>1 DEF SubscriberInv
    <3>3. QED BY <3>1, <3>2
  <2>8. /\ queue' = [z \in Subscribers |-> queue'[z]]
        /\ IsSeq(sent') /\ \A z \in Subscribers : IsSeq(queue'[z])
    BY <2>1 DEF SubscriberInv
  <2>9. QED BY <2>2, <2>4, <2>5, <2>7, <2>8 DEF SubscriberInv
<1>4. ASSUME NEW s \in Subscribers, Deliver(s) PROVE SubscriberInv'
  <2>1. /\ queue[s] # <<>> /\ queue' = [queue EXCEPT ![s] = Tail(queue[s])]
        /\ taken' = [taken EXCEPT ![s] = taken[s] + 1]
        /\ chans' = chans /\ reader' = reader /\ sent' = sent
    BY <1>4 DEF Deliver
  <2>2. queue = [z \in Subscribers |-> queue[z]] /\ taken \in [Subscribers -> Nat]
    BY DEF SubscriberInv
  <2>3. /\ queue' = [z \in Subscribers |-> queue'[z]] /\ taken' \in [Subscribers -> Nat]
        /\ queue'[s] = Tail(queue[s]) /\ taken'[s] = taken[s] + 1
        /\ \A z \in Subscribers \ {s} : queue'[z] = queue[z] /\ taken'[z] = taken[z]
    <3>1. queue' = [z \in Subscribers |-> IF z = s THEN Tail(queue[s]) ELSE queue[z]]
      <4>1. queue' = [[z \in Subscribers |-> queue[z]] EXCEPT ![s] = Tail(queue[s])]
        BY <2>1, <2>2, Zenon
      <4>2. QED BY <4>1
    <3>2. /\ queue' = [z \in Subscribers |-> queue'[z]]
          /\ queue'[s] = Tail(queue[s])
          /\ \A z \in Subscribers \ {s} : queue'[z] = queue[z]
      <4> DEFINE g(z) == IF z = s THEN Tail(queue[s]) ELSE queue[z]
      <4>1. queue' = [z \in Subscribers |-> g(z)]
        BY <3>1
      <4>2. g(s) = Tail(queue[s]) /\ \A z \in Subscribers \ {s} : g(z) = queue[z]
        OBVIOUS
      <4> HIDE DEF g
      <4>3. QED BY <4>1, <4>2
    <3>3. /\ taken' \in [Subscribers -> Nat] /\ taken'[s] = taken[s] + 1
          /\ \A z \in Subscribers \ {s} : taken'[z] = taken[z]
      BY <2>1, <2>2
    <3>4. QED BY <3>2, <3>3
  <2>4. /\ IsSeq(queue[s]) /\ IsSeq(sent)
    BY DEF SubscriberInv
  <2>5. /\ Len(queue[s]) \in Nat /\ Len(queue[s]) # 0 /\ IsSeq(queue'[s])
        /\ Len(queue'[s]) = Len(queue[s]) - 1
        /\ \A k \in 1 .. Len(queue[s]) - 1 : queue'[s][k] = queue[s][k + 1]
    <3>1. PICK q : q = queue[s]
      OBVIOUS
    <3>2. IsSeq(q) /\ q # <<>> /\ queue'[s] = Tail(q)
      BY <2>1, <2>3, <2>4, <3>1
    <3>3. /\ Len(q) \in Nat /\ Len(q) # 0 /\ IsSeq(Tail(q)) /\ Len(Tail(q)) = Len(q) - 1
          /\ \A k \in 1 .. Len(q) - 1 : Tail(q)[k] = q[k + 1]
      BY <3>2, SeqFacts
    <3>4. QED BY <3>1, <3>2, <3>3
  <2>6. reader[s] # "new"
    BY <2>1 DEF SubscriberInv
  <2>7. Window(queue'[s], sent, taken[s] + 1)
    <3>1. Len(sent) \in Nat
      BY <2>4, SeqFacts
    <3>2. /\ taken[s] + Len(queue[s]) <= Len(sent)
          /\ \A k \in 1 .. Len(queue[s]) : queue[s][k] = sent[taken[s] + k]
      BY <2>6 DEF SubscriberInv, Window
    <3>3. taken[s] \in Nat
      BY <2>2
    <3>4. taken[s] + 1 + Len(queue'[s]) <= Len(sent)
      BY <2>5, <3>1, <3>2, <3>3
    <3>5. ASSUME NEW k \in 1 .. Len(queue'[s]) PROVE queue'[s][k] = sent[taken[s] + 1 + k]
      <4>1. k \in 1 .. Len(queue[s]) - 1 /\ k + 1 \in 1 .. Len(queue[s])
        BY <2>5
      <4>2. queue'[s][k] = sent[taken[s] + (k + 1)]
        BY <2>5, <3>2, <4>1
      <4>3. taken[s] + (k + 1) = taken[s] + 1 + k
        BY <3>3, <4>1
      <4>4. QED BY <4>2, <4>3
    <3>6. QED BY <3>4, <3>5 DEF Window
  <2>8. reader[s] = "open" => taken'[s] + Len(queue'[s]) = Len(sent)
    BY <2>2, <2>3, <2>5 DEF SubscriberInv
  <2>9. ASSUME NEW z \in Subscribers
        PROVE  /\ reader'[z] = "new" => queue'[z] = <<>>
               /\ reader'[z] # "new" => Window(queue'[z], sent', taken'[z])
               /\ reader'[z] = "open" => taken'[z] + Len(queue'[z]) = Len(sent')
               /\ IsSeq(queue'[z])
    <3>1. CASE z = s
      BY <2>1, <2>3, <2>5, <2>6, <2>7, <2>8, <3>1
    <3>2. CASE z # s
      <4>1. reader'[z] = reader[z] /\ taken'[z] = taken[z] /\ queue'[z] = queue[z] /\ sent' = sent
        BY <2>1, <2>3, <3>2
      <4>2. QED BY <4>1 DEF SubscriberInv
    <3>3. QED BY <3>1, <3>2
  <2>10. /\ chans' \in Seq(Subscribers) /\ reader' \in [Subscribers -> {"new", "open", "closed"}]
         /\ IsSeq(sent')
         /\ \A z \in Subscribers :
              reader'[z] = "open" <=> \E i \in 1 .. Len(chans') : chans'[i] = z
    BY <2>1 DEF SubscriberInv
  <2>11. QED BY <2>3, <2>9, <2>10 DEF SubscriberInv
<1>5. CASE RedisdRestart
  <2>1. /\ chans' = <<>> /\ queue' = [s \in Subscribers |-> <<>>]
        /\ reader' = [s \in Subscribers |-> IF reader[s] = "new" THEN "new" ELSE "closed"]
        /\ sent' = sent /\ taken' = taken
    BY <1>5 DEF RedisdRestart
  <2>2. chans' \in Seq(Subscribers) /\ Len(chans') = 0
    BY <2>1
  <2>3. /\ reader' \in [Subscribers -> {"new", "open", "closed"}]
        /\ \A s \in Subscribers : reader'[s] # "open" /\ (reader'[s] # "new" => reader[s] # "new")
    BY <2>1
  <2>4. /\ queue' = [s \in Subscribers |-> queue'[s]]
        /\ \A s \in Subscribers : queue'[s] = <<>>
    BY <2>1
  <2>5. IsSeq(sent') /\ taken' \in [Subscribers -> Nat]
    BY <2>1 DEF SubscriberInv
  <2>6. IsSeq(<<>>) /\ Len(<<>>) = 0
    BY DEF IsSeq
  <2>7. ASSUME NEW s \in Subscribers, reader'[s] # "new"
        PROVE  Window(queue'[s], sent', taken'[s])
    <3>1. taken[s] + Len(queue[s]) <= Len(sent) /\ taken[s] \in Nat /\ IsSeq(sent) /\ IsSeq(queue[s])
      BY <2>3, <2>7 DEF SubscriberInv, Window
    <3>2. Len(sent) \in Nat /\ Len(queue[s]) \in Nat
      BY <3>1, SeqFacts
    <3>3. taken[s] + 0 <= Len(sent)
      BY <3>1, <3>2
    <3>4. Len(queue'[s]) = 0
      BY <2>4, <2>6
    <3>5. QED BY <2>1, <3>3, <3>4 DEF Window
  <2>8. QED BY <2>2, <2>3, <2>4, <2>5, <2>6, <2>7 DEF SubscriberInv
<1>6. CASE VnetdNext
  BY <1>1, <1>6, VnetdFrame DEF Assign
<1>7. CASE RedisdNext
  BY <1>2, <1>5, <1>7 DEF RedisdNext
<1>8. CASE UsersNext
  BY <1>1, <1>3, <1>4, <1>8 DEF UsersNext, OtherPrint, Hkeys, Keys, Assign, Unassign
<1>9. CASE UNCHANGED pathVars
  BY <1>1, <1>9 DEF pathVars, redisdVars
<1>10. QED BY <1>6, <1>7, <1>8, <1>9 DEF PathNext

(* A window is a subsequence.                                              *)
LEMMA WindowIsSubSeq ==
  ASSUME NEW q, IsSeq(q), NEW t, IsSeq(t), NEW a \in Nat, Window(q, t, a)
  PROVE  q = SubSeq(t, a + 1, a + Len(q))
<1>1. Len(q) \in Nat /\ Len(t) \in Nat
  BY SeqFacts
<1>2. q = [k \in 1 .. Len(q) |-> q[k]]
  BY DEF IsSeq
<1>3. SubSeq(t, a + 1, a + Len(q)) = [k \in 1 .. Len(q) |-> t[a + k]]
  <2> DEFINE T == {t[k] : k \in 1 .. Len(t)}
  <2>1. t \in Seq(T)
    BY DEF IsSeq
  <2> HIDE DEF T
  <2>2. a + Len(q) <= Len(t)
    BY DEF Window
  <2> DEFINE u == SubSeq(t, a + 1, a + Len(q))
  <2>3. u \in Seq(T) /\ Len(u) = Len(q) /\ \A k \in 1 .. Len(q) : u[k] = t[a + k]
    BY <1>1, <2>1, <2>2
  <2> HIDE DEF u
  <2>4. u = [k \in 1 .. Len(u) |-> u[k]]
    BY <2>3
  <2>5. QED BY <2>3, <2>4 DEF u
<1>4. QED BY <1>2, <1>3 DEF Window

(* A subscriber misses no message and gets none twice while it is open,    *)
(* and a culled one saw an unbroken part, however many subscribers the     *)
(* loop over Chans culls for the same message.                             *)
THEOREM SubscribersServed == PathSpec => []SubscribersInOrder
<1>1. RedisdInit => SubscriberInv
  <2> SUFFICES ASSUME RedisdInit PROVE SubscriberInv
    OBVIOUS
  <2>1. IsSeq(<<>>) /\ Len(<<>>) = 0
    BY DEF IsSeq
  <2>2. /\ chans = <<>> /\ sent = <<>> /\ queue = [s \in Subscribers |-> <<>>]
        /\ reader = [s \in Subscribers |-> "new"] /\ taken = [s \in Subscribers |-> 0]
    BY DEF RedisdInit
  <2>3. chans \in Seq(Subscribers) /\ Len(chans) = 0
    BY <2>2
  <2>4. QED BY <2>1, <2>2, <2>3 DEF SubscriberInv
<1>2. SubscriberInv => SubscribersInOrder
  <2> SUFFICES ASSUME SubscriberInv, NEW s \in Subscribers, reader[s] # "new"
               PROVE  /\ taken[s] + Len(queue[s]) <= Len(sent)
                      /\ queue[s] = SubSeq(sent, taken[s] + 1, taken[s] + Len(queue[s]))
                      /\ reader[s] = "open" =>
                           taken[s] + Len(queue[s]) = Len(sent) /\ s \in Range(chans)
    BY DEF SubscribersInOrder
  <2>1. /\ Window(queue[s], sent, taken[s]) /\ IsSeq(sent) /\ IsSeq(queue[s]) /\ taken[s] \in Nat
        /\ reader[s] = "open" => taken[s] + Len(queue[s]) = Len(sent)
    BY DEF SubscriberInv
  <2>2. queue[s] = SubSeq(sent, taken[s] + 1, taken[s] + Len(queue[s]))
    BY <2>1, WindowIsSubSeq
  <2>3. reader[s] = "open" => s \in Range(chans)
    BY DEF SubscriberInv, Range
  <2>4. QED BY <2>1, <2>2, <2>3 DEF Window
<1>3. QED BY <1>1, <1>2, SubscriberStep, PTL DEF PathSpec
=============================================================================
