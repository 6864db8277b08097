--------------------------- MODULE ServicesProofs ---------------------------
(***************************************************************************)
(* Proofs about Daemons, for every set of process ids and of rpc           *)
(* goroutines, and about Socket, for every set of sockets, every pool of   *)
(* indices and any amount of output: goes-daemons always knows its running *)
(* daemons; Write and the poller, which share no lock for the renewal of   *)
(* the interest in a socket, neither lose nor strand output.               *)
(***************************************************************************)
EXTENDS Daemons, Socket, SequenceTheorems, TLAPS

(* goes-daemons by itself; fairness is not needed for what follows.        *)
DaemonsSpec == DaemonsInit /\ [][DaemonsNext]_daemonVars

DaemonsTypeOK ==
  /\ proc \in [Pids -> {"none", "running", "exited", "reaped"}]
  /\ waiter \in [Pids -> {"none", "wait", "delete", "send"}]
  /\ cmdsByPid \in SUBSET Pids
  /\ rpc \in [Rpcs -> [at : {"idle", "register", "stop", "restart"},
                       pid : Pids \cup {0}]]
  /\ server \in {"recv", "sleep", "done"}

(* The table holds exactly the daemons whose waiter has not deleted them.  *)
TableMatchesWaiters ==
  \A p \in Pids : p \in cmdsByPid <=> waiter[p] \in {"wait", "delete"}

(* A waiter that has returned from p.Wait belongs to a dead process.       *)
WaitedIsDead ==
  \A p \in Pids : waiter[p] \in {"delete", "send"} => proc[p] # "running"

Registering(r, p) == rpc[r] = [at |-> "register", pid |-> p]

(* An rpc about to enter a pid in the table is the only one for that pid,  *)
(* and the pid has no waiter yet.                                          *)
RegisterIsFresh ==
  \A r \in Rpcs : rpc[r].at = "register" =>
    /\ rpc[r].pid \in Pids
    /\ waiter[rpc[r].pid] = "none"
    /\ \A x \in Rpcs \ {r} :
         rpc[x].at = "register" => rpc[x].pid # rpc[r].pid

(* Stop and Restart were called with a pid of the table.                   *)
StopHasPid ==
  \A r \in Rpcs : rpc[r].at \in {"stop", "restart"} => rpc[r].pid \in Pids

(* A running daemon has a waiter that waits for it, or will have one.      *)
RunningIsWaitedFor ==
  \A p \in Pids : proc[p] = "running" =>
    waiter[p] = "wait" \/ \E r \in Rpcs : Registering(r, p)

EndedIsEmpty == server = "done" => cmdsByPid = {}

DaemonsInv ==
  /\ DaemonsTypeOK /\ TableMatchesWaiters /\ WaitedIsDead /\ RegisterIsFresh
  /\ StopHasPid /\ RunningIsWaitedFor /\ EndedIsEmpty

USE DEF Registering
-----------------------------------------------------------------------------
LEMMA DaemonsInvInit == DaemonsInit => DaemonsInv
<1> SUFFICES ASSUME DaemonsInit PROVE DaemonsInv
  OBVIOUS
<1> USE DaemonsAssumption DEF DaemonsInit, NoRpc
<1>1. DaemonsTypeOK
  BY DEF DaemonsTypeOK
<1>2. TableMatchesWaiters /\ WaitedIsDead /\ EndedIsEmpty
  BY DEF TableMatchesWaiters, WaitedIsDead, EndedIsEmpty
<1>3. RegisterIsFresh /\ StopHasPid /\ RunningIsWaitedFor
  BY DEF RegisterIsFresh, StopHasPid, RunningIsWaitedFor
<1>4. QED BY <1>1, <1>2, <1>3 DEF DaemonsInv

(* A process that the rpc forks is fresh: nothing in the table, no waiter. *)
LEMMA ForkKeeps ==
  ASSUME DaemonsInv, NEW r \in Rpcs, NEW p \in Pids, Fork(r, p),
         rpc[r].at \in {"idle", "restart"},
         UNCHANGED <<waiter, cmdsByPid, server>>
  PROVE  DaemonsInv'
<1> USE DEF DaemonsInv, DaemonsTypeOK, Fork
<1>1. DaemonsTypeOK'
  OBVIOUS
<1>2. TableMatchesWaiters' /\ WaitedIsDead' /\ EndedIsEmpty'
  BY DEF TableMatchesWaiters, WaitedIsDead, EndedIsEmpty
<1>3. RegisterIsFresh' /\ StopHasPid'
  BY DEF RegisterIsFresh, StopHasPid
<1>4. RunningIsWaitedFor'
  <2> SUFFICES ASSUME NEW q \in Pids, proc'[q] = "running",
                      waiter'[q] # "wait"
               PROVE  \E x \in Rpcs : Registering(x, q)'
    BY DEF RunningIsWaitedFor
  <2>1. CASE q = p
    BY <2>1
  <2>2. CASE q # p
    <3>1. PICK x \in Rpcs : Registering(x, q)
      BY <2>2 DEF RunningIsWaitedFor
    <3>2. x # r
      BY <3>1
    <3>3. QED BY <3>1, <3>2
  <2>3. QED BY <2>1, <2>2
<1>5. QED BY <1>1, <1>2, <1>3, <1>4

(* An rpc that ends, or begins a stop or a restart of a pid of the table,  *)
(* disturbs nothing.                                                       *)
LEMMA RpcKeeps ==
  ASSUME DaemonsInv, NEW r \in Rpcs, rpc[r].at # "register",
         NEW a \in {"idle", "stop", "restart"}, NEW p \in Pids \cup {0},
         a # "idle" => p \in Pids,
         rpc' = [rpc EXCEPT ![r] = [at |-> a, pid |-> p]],
         UNCHANGED <<proc, waiter, cmdsByPid, server>>
  PROVE  DaemonsInv'
<1> USE DEF DaemonsInv, DaemonsTypeOK
<1>1. DaemonsTypeOK'
  OBVIOUS
<1>2. TableMatchesWaiters' /\ WaitedIsDead' /\ EndedIsEmpty'
  BY DEF TableMatchesWaiters, WaitedIsDead, EndedIsEmpty
<1>3. RegisterIsFresh' /\ StopHasPid'
  BY DEF RegisterIsFresh, StopHasPid
<1>4. \A q \in Pids, x \in Rpcs : Registering(x, q) => Registering(x, q)'
  OBVIOUS
<1>5. RunningIsWaitedFor'
  BY <1>4 DEF RunningIsWaitedFor
<1>6. QED BY <1>1, <1>2, <1>3, <1>5

(* A process that dies or is reaped, its waiter going on.                  *)
LEMMA ExitKeeps ==
  ASSUME DaemonsInv, NEW p \in Pids, Exit(p) \/ Reap(p) \/ Done(p)
  PROVE  DaemonsInv'
<1> USE DEF DaemonsInv, DaemonsTypeOK
<1>1. /\ proc'[p] # "running" /\ \A q \in Pids \ {p} : proc'[q] = proc[q]
      /\ \A q \in Pids \ {p} : waiter'[q] = waiter[q]
      /\ \/ waiter'[p] = waiter[p]
         \/ waiter[p] = "wait" /\ waiter'[p] = "delete"
         \/ waiter[p] = "send" /\ waiter'[p] = "none"
      /\ UNCHANGED <<cmdsByPid, rpc>>
      /\ server' \in {"recv", "sleep", "done"}
      /\ server' = "done" => server = "done"
      /\ DaemonsTypeOK'
  BY DEF Exit, Reap, Reapable, Done, WaitedIsDead
<1>2. TableMatchesWaiters' /\ WaitedIsDead' /\ EndedIsEmpty'
  BY <1>1 DEF TableMatchesWaiters, WaitedIsDead, EndedIsEmpty
<1>3. RegisterIsFresh' /\ StopHasPid'
  BY <1>1 DEF RegisterIsFresh, StopHasPid
<1>4. RunningIsWaitedFor'
  BY <1>1 DEF RunningIsWaitedFor
<1>5. QED BY <1>1, <1>2, <1>3, <1>4

(* The exit of a daemon deletes exactly its own entry of the table.        *)
LEMMA DeleteKeeps ==
  ASSUME DaemonsInv, NEW p \in Pids, Delete(p) PROVE DaemonsInv'
<1> USE DEF DaemonsInv, DaemonsTypeOK, Delete, TableWrite
<1>1. DaemonsTypeOK'
  OBVIOUS
<1>2. TableMatchesWaiters' /\ WaitedIsDead' /\ EndedIsEmpty'
  BY DEF TableMatchesWaiters, WaitedIsDead, EndedIsEmpty
<1>3. RegisterIsFresh' /\ StopHasPid'
  BY DEF RegisterIsFresh, StopHasPid
<1>4. RunningIsWaitedFor'
  BY DEF RunningIsWaitedFor, WaitedIsDead
<1>5. QED BY <1>1, <1>2, <1>3, <1>4

(* The goroutine that started a daemon registers it under its own pid.     *)
LEMMA RegisterKeeps ==
  ASSUME DaemonsInv, NEW r \in Rpcs, Register(r) PROVE DaemonsInv'
<1> USE DEF DaemonsInv, DaemonsTypeOK
<1> DEFINE p == rpc[r].pid
<1>1. /\ p \in Pids /\ waiter[p] = "none" /\ server # "done"
      /\ waiter' = [waiter EXCEPT ![p] = "wait"]
      /\ rpc' = [rpc EXCEPT ![r] = NoRpc]
      /\ cmdsByPid' = cmdsByPid \cup {p}
      /\ UNCHANGED <<proc, server>>
  BY DEF Register, RegisterIsFresh, TableWrite, Up
<1> HIDE DEF p
<1>2. DaemonsTypeOK'
  BY <1>1 DEF NoRpc
<1>3. TableMatchesWaiters' /\ WaitedIsDead' /\ EndedIsEmpty'
  BY <1>1 DEF TableMatchesWaiters, WaitedIsDead, EndedIsEmpty
<1>4. \A x \in Rpcs : /\ rpc'[x].at # "idle" => x # r /\ rpc'[x] = rpc[x]
                      /\ rpc'[x].at = "register" => rpc[x].pid # p
  BY <1>1 DEF RegisterIsFresh, NoRpc, p, Register
<1>5. RegisterIsFresh' /\ StopHasPid'
  BY <1>1, <1>4 DEF RegisterIsFresh, StopHasPid
<1>6. RunningIsWaitedFor'
  <2> SUFFICES ASSUME NEW q \in Pids, proc'[q] = "running",
                      waiter'[q] # "wait"
               PROVE  \E x \in Rpcs : Registering(x, q)'
    BY DEF RunningIsWaitedFor
  <2>1. q # p /\ waiter[q] # "wait"
    BY <1>1
  <2>2. PICK x \in Rpcs : Registering(x, q)
    BY <1>1, <2>1 DEF RunningIsWaitedFor
  <2>3. x # r
    BY <2>1, <2>2 DEF p
  <2>4. QED BY <1>1, <2>2, <2>3
<1>7. QED BY <1>2, <1>3, <1>5, <1>6

(* Kill of a process that is still there.                                  *)
LEMMA KilledKeeps ==
  ASSUME DaemonsInv, NEW r \in Rpcs, Killed(r) PROVE DaemonsInv'
<1> USE DEF DaemonsInv, DaemonsTypeOK, Killed
<1>1. rpc[r].pid \in Pids
  BY DEF StopHasPid
<1>2. DaemonsTypeOK' /\ \A q \in Pids : proc'[q] = "running" => proc[q] = "running"
  BY <1>1
<1>3. TableMatchesWaiters' /\ WaitedIsDead' /\ EndedIsEmpty'
  BY <1>2 DEF TableMatchesWaiters, WaitedIsDead, EndedIsEmpty
<1>4. RegisterIsFresh' /\ StopHasPid' /\ RunningIsWaitedFor'
  BY <1>2 DEF RegisterIsFresh, StopHasPid, RunningIsWaitedFor
<1>5. QED BY <1>2, <1>3, <1>4

(* Steps that touch no process, waiter, table entry or rpc.                *)
LEMMA OthersKeep ==
  ASSUME DaemonsInv, UNCHANGED <<proc, waiter, cmdsByPid, rpc>>,
         server' = server \/ Check
  PROVE  DaemonsInv'
<1> USE DEF DaemonsInv, DaemonsTypeOK
<1>1. DaemonsTypeOK' /\ EndedIsEmpty'
  BY DEF Check, EndedIsEmpty
<1>2. TableMatchesWaiters' /\ WaitedIsDead'
  BY DEF TableMatchesWaiters, WaitedIsDead
<1>3. RegisterIsFresh' /\ StopHasPid' /\ RunningIsWaitedFor'
  BY DEF RegisterIsFresh, StopHasPid, RunningIsWaitedFor
<1>4. QED BY <1>1, <1>2, <1>3

(* Every step of the daemons, the shell and the signals keeps the          *)
(* invariant.                                                              *)
LEMMA DaemonsInvStep == DaemonsInv /\ [DaemonsNext]_daemonVars => DaemonsInv'
<1> SUFFICES ASSUME DaemonsInv, [DaemonsNext]_daemonVars PROVE DaemonsInv'
  OBVIOUS
<1>0. \A p \in cmdsByPid : p \in Pids
  BY DEF DaemonsInv, DaemonsTypeOK
<1>1. ASSUME NEW p \in Pids, Exit(p) \/ Reap(p) \/ Done(p) PROVE DaemonsInv'
  BY <1>1, ExitKeeps
<1>2. ASSUME NEW p \in Pids, Delete(p) PROVE DaemonsInv'
  BY <1>2, DeleteKeeps
<1>3. CASE Check \/ ListBegin \/ ListEnd \/ UNCHANGED daemonVars
  BY <1>3, OthersKeep DEF Check, ListBegin, ListEnd, daemonVars
<1>4. ASSUME NEW r \in Rpcs, NEW p \in Pids, Start(r, p) PROVE DaemonsInv'
  BY <1>4, ForkKeeps DEF Start, Begin
<1>5. ASSUME NEW r \in Rpcs, NEW p \in Pids, Stop(r, p) \/ Restart(r, p)
      PROVE  DaemonsInv'
  BY <1>5, RpcKeeps DEF Stop, Restart, Begin
<1>6. ASSUME NEW r \in Rpcs, Register(r) \/ Killed(r) PROVE DaemonsInv'
  BY <1>6, RegisterKeeps, KilledKeeps
<1>7. ASSUME NEW r \in Rpcs, Stopped(r) PROVE DaemonsInv'
  BY <1>7, RpcKeeps DEF Stopped, NoRpc
<1>8. ASSUME NEW r \in Rpcs, Restarted(r) PROVE DaemonsInv'
  BY <1>8, ForkKeeps, RpcKeeps DEF Restarted, NoRpc
<1>9. QED
  BY <1>1, <1>2, <1>3, <1>4, <1>5, <1>6, <1>7, <1>8 DEF DaemonsNext

(* A daemon that runs is in the table or about to be registered.           *)
LEMMA DaemonsInvImplies == DaemonsInv => RunningIsKnown
<1> SUFFICES ASSUME DaemonsInv, NEW p \in Pids, proc[p] = "running"
             PROVE  /\ \/ p \in cmdsByPid
                       \/ \E r \in Rpcs : Registering(r, p)
                    /\ server = "done" =>
                         \E r \in Rpcs : rpc[r].at = "register"
  BY DEF RunningIsKnown
<1>1. \/ p \in cmdsByPid
      \/ \E r \in Rpcs : Registering(r, p)
  BY DEF DaemonsInv, TableMatchesWaiters, RunningIsWaitedFor
<1>2. \A r \in Rpcs : Registering(r, p) => rpc[r].at = "register"
  OBVIOUS
<1>3. QED BY <1>1, <1>2 DEF DaemonsInv, EndedIsEmpty

(* goes-daemons never loses sight of a daemon (daemons.go, start, Stop,    *)
(* Restart and the waiter goroutines): whatever exits, stops and restarts  *)
(* interleave, a running daemon is in cmdsByPid or about to be entered,    *)
(* and the server does not end while one is left in the table.             *)
THEOREM DaemonsKnown == DaemonsSpec => []RunningIsKnown
BY DaemonsInvInit, DaemonsInvStep, DaemonsInvImplies, PTL DEF DaemonsSpec
-----------------------------------------------------------------------------

SockSpec == SockInit /\ [][SockNext]_sockVars

Registered == [interest : SUBSET {"r", "w"}, index : Indices]

SockTypeOK ==
  /\ added \in [Socks -> Indices \cup {-1}]
  /\ DOMAIN epoll \subseteq Socks
  /\ epoll \in [DOMAIN epoll -> Registered]
  /\ poll = [at |-> poll.at, sock |-> poll.sock, events |-> poll.events]
  /\ txBuffer \in [Socks -> Seq(Nat)]
  /\ txLock \in [Socks -> {"free", "writer", "lost"}]
  /\ closed \in [Socks -> BOOLEAN]
  /\ wrote \in [Socks -> Nat]
  /\ out \in [Socks -> Seq(Nat)]

Numbered(w) == [k \in 1 .. w |-> k]

(* Bytes leave in the order in which Write took them.                      *)
Kept(s) == out[s] \o txBuffer[s] = Numbered(wrote[s])

(* An Update of s is under way.                                            *)
Updating(s) == txLock[s] = "writer" \/ (poll.at = "update" /\ poll.sock = s)

(* The interest registered is the one that the buffer calls for.           *)
InterestInv ==
  \A s \in Socks : s \in DOMAIN epoll /\ ~Updating(s) => epoll[s].interest = Interest(s)

(* A socket that can be accepted has never been written to.                *)
FreshInv ==
  \A s \in Socks :
    added[s] = -1 /\ ~closed[s] /\ ~(poll.at = "close" /\ poll.sock = s) => wrote[s] = 0

SockInv == SockTypeOK /\ (\A s \in Socks : Kept(s)) /\ InterestInv /\ FreshInv
-----------------------------------------------------------------------------
(* The bytes taken by one more Write.                                      *)
LEMMA NumberedAppend ==
  ASSUME NEW p \in Seq(Nat), NEW b \in Seq(Nat), NEW w \in Nat,
         p \o b = Numbered(w)
  PROVE  p \o Append(b, w + 1) = Numbered(w + 1)
<1> DEFINE x == p \o Append(b, w + 1)
           y == [k \in 1 .. w + 1 |-> k]
<1>1. /\ Len(p) \in Nat /\ Len(b) \in Nat /\ Append(b, w + 1) \in Seq(Nat)
      /\ Len(Append(b, w + 1)) = Len(b) + 1
      /\ Append(b, w + 1)[Len(b) + 1] = w + 1
      /\ \A i \in 1 .. Len(b) : Append(b, w + 1)[i] = b[i]
  OBVIOUS
<1>2. /\ p \o b \in Seq(Nat) /\ Len(p \o b) = Len(p) + Len(b)
      /\ \A i \in 1 .. Len(p) + Len(b) : (p \o b)[i] =
           IF i <= Len(p) THEN p[i] ELSE b[i - Len(p)]
  BY ConcatProperties
<1>3. Len(p) + Len(b) = w /\ \A i \in 1 .. w : (p \o b)[i] = i
  <2>1. DOMAIN (p \o b) = 1 .. w /\ DOMAIN (p \o b) = 1 .. Len(p) + Len(b)
    BY <1>2, LenProperties DEF Numbered
  <2>2. Len(p) + Len(b) = w
    BY <1>1, <2>1
  <2>3. QED BY <2>2 DEF Numbered
<1>4. /\ x \in Seq(Nat) /\ Len(x) = Len(p) + (Len(b) + 1)
      /\ \A i \in 1 .. Len(p) + (Len(b) + 1) : x[i] =
           IF i <= Len(p) THEN p[i] ELSE Append(b, w + 1)[i - Len(p)]
  <2>1. PICK q \in Seq(Nat) : q = Append(b, w + 1) BY <1>1
  <2>2. /\ p \o q \in Seq(Nat) /\ Len(p \o q) = Len(p) + Len(q)
        /\ \A i \in 1 .. Len(p) + Len(q) : (p \o q)[i] =
             IF i <= Len(p) THEN p[i] ELSE q[i - Len(p)]
    BY ConcatProperties
  <2>3. Len(q) = Len(b) + 1 /\ x = p \o q BY <1>1, <2>1
  <2>4. QED BY <2>1, <2>2, <2>3, Zenon
<1>5. y \in Seq(Nat) /\ Len(y) = w + 1 /\ \A i \in 1 .. w + 1 : y[i] = i
  OBVIOUS
<1> HIDE DEF x, y
<1>6. ASSUME NEW i \in 1 .. w + 1 PROVE x[i] = i
  <2>1. CASE i = w + 1
    <3>1. /\ i \in 1 .. Len(p) + (Len(b) + 1) /\ ~(i <= Len(p))
          /\ i - Len(p) = Len(b) + 1
      BY <1>1, <1>3, <2>1
    <3>2. x[i] = Append(b, w + 1)[i - Len(p)]
      BY <1>4, <3>1
    <3>3. QED BY <1>1, <2>1, <3>1, <3>2
  <2>2. CASE i # w + 1
    <3>1. i \in 1 .. w
      BY <2>2
    <3>2. x[i] = (p \o b)[i]
      <4>1. CASE i <= Len(p)
        <5>1. i \in 1 .. Len(p) + Len(b) /\ i \in 1 .. Len(p) + (Len(b) + 1)
          BY <1>1, <1>3, <3>1
        <5>2. x[i] = p[i] /\ (p \o b)[i] = p[i]
          BY <1>2, <1>4, <4>1, <5>1
        <5>3. QED BY <5>2
      <4>2. CASE ~(i <= Len(p))
        <5>1. i - Len(p) \in 1 .. Len(b) /\ i \in 1 .. Len(p) + Len(b)
              /\ i \in 1 .. Len(p) + (Len(b) + 1)
          BY <1>1, <1>3, <3>1, <4>2
        <5>2. x[i] = Append(b, w + 1)[i - Len(p)] /\ (p \o b)[i] = b[i - Len(p)]
          BY <1>2, <1>4, <4>2, <5>1
        <5>3. Append(b, w + 1)[i - Len(p)] = b[i - Len(p)]
          BY <1>1, <5>1
        <5>4. QED BY <5>2, <5>3
      <4>3. QED BY <4>1, <4>2
    <3>3. QED BY <1>3, <3>1, <3>2
  <2>3. QED BY <2>1, <2>2
<1>7. x = y
  BY <1>1, <1>3, <1>4, <1>5, <1>6, SeqEqual
<1>8. QED BY <1>7 DEF x, y, Numbered

(* Bytes given to the kernel are the first of those in the buffer.         *)
LEMMA MovedFront ==
  ASSUME NEW p \in Seq(Nat), NEW b \in Seq(Nat), NEW n \in 0 .. Len(b)
  PROVE  /\ SubSeq(b, 1, n) \in Seq(Nat) /\ SubSeq(b, n + 1, Len(b)) \in Seq(Nat)
         /\ p \o SubSeq(b, 1, n) \in Seq(Nat)
         /\ (p \o SubSeq(b, 1, n)) \o SubSeq(b, n + 1, Len(b)) = p \o b
<1> DEFINE f == SubSeq(b, 1, n)
           g == SubSeq(b, n + 1, Len(b))
<1>1. Len(b) \in Nat /\ n \in Nat /\ n <= Len(b)
  OBVIOUS
<1>2. /\ f \in Seq(Nat) /\ Len(f) = n
      /\ \A i \in 1 .. n : f[i] = b[i]
  BY <1>1
<1>3. /\ g \in Seq(Nat) /\ Len(g) = Len(b) - n
      /\ \A i \in 1 .. Len(b) - n : g[i] = b[n + i]
  BY <1>1
<1> HIDE DEF f, g
<1>4. f \o g = b
  <2>1. /\ f \o g \in Seq(Nat) /\ Len(f \o g) = n + (Len(b) - n)
        /\ \A i \in 1 .. n + (Len(b) - n) : (f \o g)[i] =
             IF i <= n THEN f[i] ELSE g[i - n]
    <3>1. /\ f \o g \in Seq(Nat) /\ Len(f \o g) = Len(f) + Len(g)
          /\ \A i \in 1 .. Len(f) + Len(g) : (f \o g)[i] =
               IF i <= Len(f) THEN f[i] ELSE g[i - Len(f)]
      BY <1>2, <1>3, ConcatProperties, Zenon
    <3>2. QED BY <1>2, <1>3, <3>1
  <2>2. n + (Len(b) - n) = Len(b)
    BY <1>1
  <2>3. ASSUME NEW i \in 1 .. Len(b) PROVE (f \o g)[i] = b[i]
    <3>1. CASE i <= n
      BY <1>1, <1>2, <2>1, <2>2, <3>1
    <3>2. CASE ~(i <= n)
      <4>1. i - n \in 1 .. Len(b) - n /\ n + (i - n) = i
        BY <1>1, <3>2
      <4>2. (f \o g)[i] = g[i - n]
        BY <2>1, <2>2, <3>2
      <4>3. QED BY <1>3, <4>1, <4>2
    <3>3. QED BY <3>1, <3>2
  <2>4. QED BY <2>1, <2>2, <2>3, SeqEqual
<1>5. (p \o f) \o g = p \o (f \o g)
  <2>1. f \in Seq(Nat) /\ g \in Seq(Nat)
    BY <1>2, <1>3
  <2>2. \A S : \A s, t, u \in Seq(S) : (s \o t) \o u = s \o (t \o u)
    BY ConcatAssociative, Zenon
  <2>3. p \in Seq(Nat)
    OBVIOUS
  <2>4. QED BY <2>1, <2>2, <2>3, SMTT(40)
<1>6. p \o f \in Seq(Nat)
  BY <1>2, ConcatProperties
<1>7. QED BY <1>2, <1>3, <1>4, <1>5, <1>6 DEF f, g

-----------------------------------------------------------------------------
LEMMA SockFacts ==
  ASSUME SockInv
  PROVE  /\ poll = [at |-> poll.at, sock |-> poll.sock, events |-> poll.events]
         /\ \A s \in Socks : out[s] \in Seq(Nat) /\ txBuffer[s] \in Seq(Nat) /\ wrote[s] \in Nat
         /\ \A s \in Socks : Interest(s) \in SUBSET {"r", "w"}
         /\ epoll \in [DOMAIN epoll -> Registered] /\ DOMAIN epoll \subseteq Socks
BY DEF SockInv, SockTypeOK, Interest

(* After ClientWriteReady the poller updates, reads, or takes the next.    *)
LEMMA PollFacts ==
  ASSUME SockInv
  PROVE  /\ AtRest.at = "next"
         /\ AtRest = [at |-> AtRest.at, sock |-> AtRest.sock, events |-> AtRest.events]
         /\ AfterWrite.at \in {"read", "next"}
         /\ AfterWrite = [at |-> AfterWrite.at, sock |-> AfterWrite.sock,
                          events |-> AfterWrite.events]
         /\ \A a : LET q == [poll EXCEPT !.at = a]
                   IN  /\ q.at = a /\ q.sock = poll.sock
                       /\ q = [at |-> q.at, sock |-> q.sock, events |-> q.events]
<1>1. AtRest.at = "next"
      /\ AtRest = [at |-> AtRest.at, sock |-> AtRest.sock, events |-> AtRest.events]
  BY DEF AtRest
<1>2. ASSUME NEW a
      PROVE  LET q == [poll EXCEPT !.at = a]
             IN  /\ q.at = a /\ q.sock = poll.sock
                 /\ q = [at |-> q.at, sock |-> q.sock, events |-> q.events]
  <2>1. [poll EXCEPT !.at = a] = [at |-> a, sock |-> poll.sock, events |-> poll.events]
    BY SockFacts
  <2>2. QED BY <2>1
<1>3. QED BY <1>1, <1>2 DEF AfterWrite

(* Mux.Update renews the interest of one registered socket.                *)
LEMMA UpdateFacts ==
  ASSUME SockInv, NEW s, MuxUpdate(s)
  PROVE  /\ DOMAIN epoll' = DOMAIN epoll
         /\ epoll' \in [DOMAIN epoll -> Registered]
         /\ s \in DOMAIN epoll => epoll'[s].interest = Interest(s)
         /\ \A x \in DOMAIN epoll : x # s => epoll'[x] = epoll[x]
<1>1. CASE s \notin DOMAIN epoll
  BY <1>1, SockFacts DEF MuxUpdate
<1>2. CASE s \in DOMAIN epoll
  <2>1. /\ epoll' = [epoll EXCEPT ![s].interest = Interest(s)]
        /\ epoll \in [DOMAIN epoll -> Registered] /\ s \in Socks
        /\ Interest(s) \in SUBSET {"r", "w"}
    BY <1>2, SockFacts DEF MuxUpdate
  <2>2. epoll[s] \in Registered
    BY <1>2, <2>1
  <2>3. /\ epoll'[s] = [epoll[s] EXCEPT !.interest = Interest(s)]
        /\ \A x \in DOMAIN epoll : x # s => epoll'[x] = epoll[x]
        /\ DOMAIN epoll' = DOMAIN epoll
    BY <1>2, <2>1
  <2>4. epoll'[s] \in Registered /\ epoll'[s].interest = Interest(s)
    BY <2>1, <2>2, <2>3 DEF Registered
  <2>5. epoll' \in [DOMAIN epoll -> Registered]
    BY <2>1, <2>4
  <2>6. QED BY <2>3, <2>4, <2>5
<1>3. QED BY <1>1, <1>2

(* Del and close forget one socket.                                        *)
LEMMA UnregisterFacts ==
  ASSUME SockInv, NEW s, epoll' = Unregister(s)
  PROVE  /\ DOMAIN epoll' = DOMAIN epoll \ {s}
         /\ epoll' \in [DOMAIN epoll' -> Registered]
         /\ \A x \in DOMAIN epoll' : epoll'[x] = epoll[x]
<1>1. epoll' = [x \in DOMAIN epoll \ {s} |-> epoll[x]]
  BY DEF Unregister
<1>2. QED BY <1>1, SockFacts

-----------------------------------------------------------------------------
LEMMA AcceptKeeps ==
  ASSUME SockInv, NEW s \in Socks, NEW i \in Indices, Accept(s, i)
  PROVE  SockInv'
<1>0. /\ SockTypeOK /\ added[s] = -1 /\ ~closed[s] /\ poll.at = "next"
      /\ added' = [added EXCEPT ![s] = i]
      /\ epoll' = [x \in DOMAIN epoll \cup {s} |->
                     IF x = s THEN [interest |-> {"r"}, index |-> i] ELSE epoll[x]]
      /\ UNCHANGED <<poll, txBuffer, txLock, closed, wrote, out>>
  BY DEF Accept, SockInv
<1>1. wrote[s] = 0 /\ txBuffer[s] = <<>>
  <2>1. wrote[s] = 0 /\ Kept(s)
    BY <1>0 DEF SockInv, FreshInv
  <2>2. out[s] \o txBuffer[s] = [k \in 1 .. 0 |-> k]
    BY <2>1 DEF Kept, Numbered
  <2>3. DOMAIN (out[s] \o txBuffer[s]) = 1 .. 0
    BY <2>2
  <2>4. out[s] \in Seq(Nat) /\ txBuffer[s] \in Seq(Nat)
    BY SockFacts
  <2>5. Len(txBuffer[s]) = 0
    <3>1. /\ out[s] \o txBuffer[s] \in Seq(Nat)
          /\ Len(out[s] \o txBuffer[s]) = Len(out[s]) + Len(txBuffer[s])
      BY <2>4, ConcatProperties, Zenon
    <3>2. DOMAIN (out[s] \o txBuffer[s]) = 1 .. Len(out[s]) + Len(txBuffer[s])
      BY <3>1, LenProperties
    <3>3. Len(out[s]) \in Nat /\ Len(txBuffer[s]) \in Nat
      BY <2>4
    <3>4. ASSUME Len(txBuffer[s]) # 0 PROVE FALSE
      <4>0. \A a, b \in Nat : b # 0 => 1 \in 1 .. a + b
        OBVIOUS
      <4>1. 1 \in 1 .. Len(out[s]) + Len(txBuffer[s])
        BY <3>3, <3>4, <4>0, Zenon
      <4>2. 1 \in 1 .. 0
        BY <2>3, <3>2, <4>1, Zenon
      <4>3. QED BY <4>2
    <3>5. QED BY <3>4
  <2>6. QED BY <2>1, <2>4, <2>5
<1>2. [interest |-> {"r"}, index |-> i] \in Registered
  BY DEF Registered
<1>3. /\ DOMAIN epoll' = DOMAIN epoll \cup {s}
      /\ epoll' \in [DOMAIN epoll' -> Registered]
      /\ epoll'[s] = [interest |-> {"r"}, index |-> i]
      /\ \A x \in DOMAIN epoll : x # s => epoll'[x] = epoll[x]
  BY <1>0, <1>2, SockFacts
<1>4. SockTypeOK'
  <2>1. DOMAIN epoll' \subseteq Socks
    BY <1>3, SockFacts
  <2>2. added' \in [Socks -> Indices \cup {-1}]
    BY <1>0 DEF SockTypeOK
  <2>3. QED BY <1>0, <1>3, <2>1, <2>2 DEF SockTypeOK
<1>5. (\A x \in Socks : Kept(x))'
  BY <1>0 DEF SockInv, Kept
<1>6. InterestInv'
  <2>1. ASSUME NEW x \in Socks, x \in DOMAIN epoll', ~Updating(x)'
        PROVE  epoll'[x].interest = Interest(x)'
    <3>1. CASE x = s
      <4>1. Interest(s)' = {"r"}
        BY <1>0, <1>1 DEF Interest
      <4>2. QED BY <1>3, <3>1, <4>1
    <3>2. CASE x # s
      <4>1. x \in DOMAIN epoll /\ ~Updating(x) /\ epoll'[x] = epoll[x]
        BY <1>0, <1>3, <2>1, <3>2 DEF Updating
      <4>2. QED BY <1>0, <4>1 DEF SockInv, InterestInv, Interest
    <3>3. QED BY <3>1, <3>2
  <2>2. QED BY <2>1 DEF InterestInv
<1>7. FreshInv'
  <2>1. \A x \in Socks \ {s} : added'[x] = added[x]
    BY <1>0 DEF SockTypeOK
  <2>2. QED BY <1>0, <1>1, <2>1 DEF SockInv, FreshInv
<1>8. QED BY <1>4, <1>5, <1>6, <1>7 DEF SockInv

(* The steps that move only the peer, or a poller that neither updates nor *)
(* closes.                                                                 *)
LEMMA QuietKeeps ==
  ASSUME SockInv, UNCHANGED <<added, epoll, txBuffer, closed, wrote, out>>,
         \/ poll' = poll
         \/ /\ poll.at \notin {"update", "close"}
            /\ poll' = [at |-> poll'.at, sock |-> poll'.sock, events |-> poll'.events],
         txLock' \in [Socks -> {"free", "writer", "lost"}],
         \A s \in Socks : txLock[s] = "writer" => txLock'[s] = "writer"
  PROVE  SockInv'
<1>1. SockTypeOK'
  BY DEF SockInv, SockTypeOK
<1>2. (\A s \in Socks : Kept(s))'
  BY DEF SockInv, Kept
<1>3. InterestInv'
  <2>1. \A s \in Socks : (Updating(s) => Updating(s)') /\ Interest(s)' = Interest(s)
    BY DEF Updating, Interest
  <2>2. QED BY <2>1 DEF SockInv, InterestInv
<1>4. FreshInv'
  BY DEF SockInv, FreshInv
<1>5. QED BY <1>1, <1>2, <1>3, <1>4 DEF SockInv

(* The steps that change neither the buffers nor the poll interest.        *)
LEMMA QuietSteps ==
  ASSUME SockInv,
         (\E s \in Socks : HangUp(s)) \/ EventPoll \/ Do \/ WriteFails \/ WriteReadyClosed
  PROVE  SockInv'
<1>0. txLock \in [Socks -> {"free", "writer", "lost"}]
  BY DEF SockInv, SockTypeOK
<1>1. CASE \E s \in Socks : HangUp(s)
  BY <1>0, <1>1, QuietKeeps DEF HangUp
<1>2. CASE EventPoll
  BY <1>0, <1>2, QuietKeeps DEF EventPoll
<1>3. CASE Do
  <2>1. poll' = [at |-> poll'.at, sock |-> poll'.sock, events |-> poll'.events]
    BY <1>3, PollFacts DEF Do
  <2>2. QED BY <1>0, <1>3, <2>1, QuietKeeps DEF Do
<1>4. CASE WriteFails
  BY <1>0, <1>4, PollFacts, QuietKeeps DEF WriteFails
<1>5. CASE WriteReadyClosed
  <2>1. /\ txLock' \in [Socks -> {"free", "writer", "lost"}]
        /\ \A s \in Socks : txLock[s] = "writer" => txLock'[s] = "writer"
    BY <1>0, <1>5 DEF WriteReadyClosed
  <2>2. QED BY <1>5, <2>1, PollFacts, QuietKeeps DEF WriteReadyClosed
<1>6. QED BY <1>1, <1>2, <1>3, <1>4, <1>5

(* Some of the buffer goes to the kernel; unless it was empty an Update of *)
(* the socket follows.                                                     *)
LEMMA WriteReadyKeeps ==
  ASSUME SockInv, WriteReady PROVE SockInv'
<1>a. PICK s : s = poll.sock
  OBVIOUS
<1>0. /\ SockTypeOK /\ poll.at = "write"
      /\ UNCHANGED <<added, epoll, txLock, closed, wrote>>
  BY DEF SockInv, WriteReady
<1>1. PICK n \in 0 .. Len(txBuffer[s]) :
        /\ n > 0 \/ txBuffer[s] = <<>>
        /\ out' = [out EXCEPT ![s] = @ \o SubSeq(txBuffer[s], 1, n)]
        /\ txBuffer' = [txBuffer EXCEPT ![s] = SubSeq(@, n + 1, Len(@))]
        /\ poll' = IF NeedUpdate(s, n) THEN [poll EXCEPT !.at = "update"]
                   ELSE AfterWrite
  BY <1>a DEF WriteReady
<1>2. /\ poll' = [at |-> poll'.at, sock |-> poll'.sock, events |-> poll'.events]
      /\ txBuffer[s] # <<>> => poll'.at = "update" /\ poll'.sock = s
  BY <1>a, <1>1, PollFacts DEF NeedUpdate
<1>3. \A x \in Socks : x # s => out'[x] = out[x] /\ txBuffer'[x] = txBuffer[x]
  BY <1>0, <1>1 DEF SockTypeOK
<1>4. s \in Socks =>
        /\ out'[s] = out[s] \o SubSeq(txBuffer[s], 1, n)
        /\ txBuffer'[s] = SubSeq(txBuffer[s], n + 1, Len(txBuffer[s]))
        /\ out'[s] \in Seq(Nat) /\ txBuffer'[s] \in Seq(Nat)
        /\ out'[s] \o txBuffer'[s] = out[s] \o txBuffer[s]
  <2> SUFFICES ASSUME s \in Socks
               PROVE  /\ out'[s] = out[s] \o SubSeq(txBuffer[s], 1, n)
                      /\ txBuffer'[s] = SubSeq(txBuffer[s], n + 1, Len(txBuffer[s]))
                      /\ out'[s] \in Seq(Nat) /\ txBuffer'[s] \in Seq(Nat)
                      /\ out'[s] \o txBuffer'[s] = out[s] \o txBuffer[s]
    OBVIOUS
  <2>1. /\ out'[s] = out[s] \o SubSeq(txBuffer[s], 1, n)
        /\ txBuffer'[s] = SubSeq(txBuffer[s], n + 1, Len(txBuffer[s]))
    BY <1>0, <1>1 DEF SockTypeOK
  <2>2. out[s] \in Seq(Nat) /\ txBuffer[s] \in Seq(Nat)
    BY <1>0 DEF SockTypeOK
  <2>3. /\ SubSeq(txBuffer[s], n + 1, Len(txBuffer[s])) \in Seq(Nat)
        /\ out[s] \o SubSeq(txBuffer[s], 1, n) \in Seq(Nat)
        /\ (out[s] \o SubSeq(txBuffer[s], 1, n))
             \o SubSeq(txBuffer[s], n + 1, Len(txBuffer[s])) = out[s] \o txBuffer[s]
    BY <1>1, <2>2, MovedFront
  <2>4. QED BY <2>1, <2>3
<1>5. SockTypeOK'
  <2>1. out' \in [Socks -> Seq(Nat)] /\ txBuffer' \in [Socks -> Seq(Nat)]
    <3>1. /\ out' = [x \in Socks |-> out'[x]]
          /\ txBuffer' = [x \in Socks |-> txBuffer'[x]]
      BY <1>0, <1>1 DEF SockTypeOK
    <3>2. \A x \in Socks : out'[x] \in Seq(Nat) /\ txBuffer'[x] \in Seq(Nat)
      BY <1>0, <1>3, <1>4 DEF SockTypeOK
    <3>3. QED BY <3>1, <3>2
  <2>2. QED BY <1>0, <1>2, <2>1 DEF SockTypeOK
<1>6. (\A x \in Socks : Kept(x))'
  <2>1. \A x \in Socks : out'[x] \o txBuffer'[x] = out[x] \o txBuffer[x]
    BY <1>3, <1>4
  <2>2. QED BY <1>0, <2>1 DEF SockInv, Kept
<1>7. InterestInv'
  <2>1. ASSUME NEW x \in Socks, x \in DOMAIN epoll', ~Updating(x)'
        PROVE  epoll'[x].interest = Interest(x)'
    <3>1. ~Updating(x) /\ x \in DOMAIN epoll
      BY <1>0, <2>1 DEF Updating
    <3>2. epoll[x].interest = Interest(x)
      BY <3>1 DEF SockInv, InterestInv
    <3>3. txBuffer'[x] = <<>> <=> txBuffer[x] = <<>>
      <4>1. CASE x # s
        BY <1>3, <4>1
      <4>2. CASE x = s
        <5>1. txBuffer[s] = <<>>
          BY <1>2, <2>1, <4>2 DEF Updating
        <5>2. n = 0 /\ Len(txBuffer[s]) = 0
          BY <1>1, <5>1
        <5>3. txBuffer'[s] = SubSeq(<<>>, 1, 0)
          BY <1>4, <4>2, <5>1, <5>2
        <5>4. SubSeq(<<>>, 1, 0) = <<>>
          BY SubSeqEmpty
        <5>5. QED BY <4>2, <5>1, <5>3, <5>4
      <4>3. QED BY <4>1, <4>2
    <3>4. QED BY <1>0, <3>2, <3>3 DEF Interest
  <2>2. QED BY <2>1 DEF InterestInv
<1>8. FreshInv'
  BY <1>0 DEF SockInv, FreshInv
<1>9. QED BY <1>5, <1>6, <1>7, <1>8 DEF SockInv

(* An Update by the poller or by Write, which ends the exception.          *)
LEMMA UpdateKeeps ==
  ASSUME SockInv, PollUpdate \/ (\E s \in Socks : WriteUpdate(s)) PROVE SockInv'
<1>1. PICK s : /\ MuxUpdate(s)
               /\ \A x \in Socks : x # s => (Updating(x) => Updating(x)')
  <2>1. CASE PollUpdate
    <3>1. PICK s : s = poll.sock
      OBVIOUS
    <3>2. \A x \in Socks : x # s => (Updating(x) => Updating(x)')
      BY <2>1, <3>1 DEF PollUpdate, Updating
    <3>3. QED BY <2>1, <3>1, <3>2 DEF PollUpdate
  <2>2. CASE \E s \in Socks : WriteUpdate(s)
    <3>1. PICK s \in Socks : WriteUpdate(s)
      BY <2>2
    <3>2. \A x \in Socks : x # s => (Updating(x) => Updating(x)')
      BY <3>1 DEF WriteUpdate, Updating, SockInv, SockTypeOK
    <3>3. QED BY <3>1, <3>2 DEF WriteUpdate
  <2>3. QED BY <2>1, <2>2
<1>2. /\ DOMAIN epoll' = DOMAIN epoll
      /\ epoll' \in [DOMAIN epoll -> Registered]
      /\ s \in DOMAIN epoll => epoll'[s].interest = Interest(s)
      /\ \A x \in DOMAIN epoll : x # s => epoll'[x] = epoll[x]
  BY <1>1, UpdateFacts
<1>3. UNCHANGED <<added, txBuffer, closed, wrote, out>>
  BY DEF PollUpdate, WriteUpdate
<1>4. SockTypeOK'
  <2>1. poll' = [at |-> poll'.at, sock |-> poll'.sock, events |-> poll'.events]
    BY PollFacts, SockFacts DEF PollUpdate, WriteUpdate
  <2>2. txLock' \in [Socks -> {"free", "writer", "lost"}]
    BY DEF PollUpdate, WriteUpdate, SockInv, SockTypeOK
  <2>3. QED BY <1>2, <1>3, <2>1, <2>2 DEF SockInv, SockTypeOK
<1>5. (\A x \in Socks : Kept(x))'
  BY <1>3 DEF SockInv, Kept
<1>6. InterestInv'
  <2>1. \A x \in Socks : Interest(x)' = Interest(x)
    BY <1>3 DEF Interest
  <2>2. QED BY <1>1, <1>2, <2>1 DEF SockInv, InterestInv
<1>7. FreshInv'
  BY <1>3 DEF SockInv, FreshInv, PollUpdate, WriteUpdate
<1>8. QED BY <1>4, <1>5, <1>6, <1>7 DEF SockInv


(* ReadReady at the end of file deletes the file, and the close follows.   *)
LEMMA ReadReadyKeeps ==
  ASSUME SockInv, ReadReady PROVE SockInv'
<1>a. PICK s : s = poll.sock
  OBVIOUS
<1>0. /\ SockTypeOK /\ poll.at = "read"
      /\ UNCHANGED <<txBuffer, txLock, closed, wrote, out>>
  BY DEF SockInv, ReadReady
<1>1. /\ \/ /\ epoll' = Unregister(s)
            /\ added' = [added EXCEPT ![s] = -1]
            /\ poll' = [poll EXCEPT !.at = "close"]
         \/ /\ UNCHANGED <<epoll, added>>
            /\ poll' = [poll EXCEPT !.at = "close"] \/ poll' = AtRest
  BY <1>a DEF ReadReady
<1>2. /\ poll' = [at |-> poll'.at, sock |-> poll'.sock, events |-> poll'.events]
      /\ poll' = [poll EXCEPT !.at = "close"] => poll'.at = "close" /\ poll'.sock = s
  <2>1. poll' = [poll EXCEPT !.at = "close"] \/ poll' = AtRest
    BY <1>1
  <2>2. QED BY <1>a, <2>1, PollFacts
<1>3. /\ DOMAIN epoll' \subseteq DOMAIN epoll
      /\ epoll' \in [DOMAIN epoll' -> Registered]
      /\ \A x \in DOMAIN epoll' : epoll'[x] = epoll[x]
  <2>1. CASE epoll' = Unregister(s)
    BY <2>1, UnregisterFacts
  <2>2. CASE epoll' = epoll
    BY <2>2, SockFacts
  <2>3. QED BY <1>1, <2>1, <2>2
<1>4. /\ added' \in [Socks -> Indices \cup {-1}]
      /\ \A x \in Socks : added'[x] # added[x] =>
           x = s /\ poll' = [poll EXCEPT !.at = "close"]
  BY <1>0, <1>1 DEF SockTypeOK
<1>5. SockTypeOK'
  BY <1>0, <1>2, <1>3, <1>4, SockFacts DEF SockTypeOK
<1>6. (\A x \in Socks : Kept(x))'
  BY <1>0 DEF SockInv, Kept
<1>7. InterestInv'
  <2>1. \A x \in Socks : (Updating(x) => Updating(x)') /\ Interest(x)' = Interest(x)
    BY <1>0 DEF Updating, Interest
  <2>2. QED BY <1>3, <2>1 DEF SockInv, InterestInv
<1>8. FreshInv'
  <2>1. ASSUME NEW x \in Socks, added'[x] = -1, ~closed'[x],
               ~(poll'.at = "close" /\ poll'.sock = x)
        PROVE  wrote'[x] = 0
    <3>1. added[x] = -1
      BY <1>2, <1>4, <2>1
    <3>2. QED BY <1>0, <2>1, <3>1 DEF SockInv, FreshInv
  <2>2. QED BY <2>1 DEF FreshInv
<1>9. QED BY <1>5, <1>6, <1>7, <1>8 DEF SockInv

(* Close by the poller, and by Exit or a client that quit.                 *)
LEMMA CloseKeeps ==
  ASSUME SockInv, PollClose \/ (\E s \in Socks : Close(s)) PROVE SockInv'
<1>1. PICK s : /\ closed' = [closed EXCEPT ![s] = TRUE]
               /\ epoll' = epoll \/ epoll' = Unregister(s)
               /\ \/ poll' = poll
                  \/ poll.at = "close" /\ poll.sock = s /\ poll' = AtRest
  BY DEF PollClose, Close
<1>2. UNCHANGED <<added, txBuffer, txLock, wrote, out>> /\ SockTypeOK
  BY DEF PollClose, Close, SockInv
<1>3. /\ DOMAIN epoll' \subseteq DOMAIN epoll
      /\ epoll' \in [DOMAIN epoll' -> Registered]
      /\ \A x \in DOMAIN epoll' : epoll'[x] = epoll[x]
  <2>1. CASE epoll' = Unregister(s)
    BY <2>1, UnregisterFacts
  <2>2. CASE epoll' = epoll
    BY <2>2, SockFacts
  <2>3. QED BY <1>1, <2>1, <2>2
<1>4. poll' = [at |-> poll'.at, sock |-> poll'.sock, events |-> poll'.events]
  BY <1>1, PollFacts, SockFacts
<1>5. closed' \in [Socks -> BOOLEAN] /\ \A x \in Socks : ~closed'[x] => ~closed[x] /\ x # s
  BY <1>1, <1>2 DEF SockTypeOK
<1>6. SockTypeOK'
  BY <1>2, <1>3, <1>4, <1>5, SockFacts DEF SockTypeOK
<1>7. (\A x \in Socks : Kept(x))'
  BY <1>2 DEF SockInv, Kept
<1>8. InterestInv'
  <2>1. \A x \in Socks : (Updating(x) => Updating(x)') /\ Interest(x)' = Interest(x)
    BY <1>1, <1>2, PollFacts DEF Updating, Interest
  <2>2. QED BY <1>3, <2>1 DEF SockInv, InterestInv
<1>9. FreshInv'
  <2>1. ASSUME NEW x \in Socks, added'[x] = -1, ~closed'[x],
               ~(poll'.at = "close" /\ poll'.sock = x)
        PROVE  wrote'[x] = 0
    <3>1. added[x] = -1 /\ ~closed[x] /\ x # s
      BY <1>2, <1>5, <2>1
    <3>2. ~(poll.at = "close" /\ poll.sock = x)
      BY <1>1, <2>1, <3>1
    <3>3. QED BY <1>2, <3>1, <3>2 DEF SockInv, FreshInv
  <2>2. QED BY <2>1 DEF FreshInv
<1>10. QED BY <1>6, <1>7, <1>8, <1>9 DEF SockInv

(* Write appends; its Update is to come.                                   *)
LEMMA WriteKeeps ==
  ASSUME SockInv, NEW s \in Socks, Write(s) PROVE SockInv'
<1>0. /\ SockTypeOK /\ added[s] # -1
      /\ txLock' = [txLock EXCEPT ![s] = "writer"]
      /\ wrote' = [wrote EXCEPT ![s] = @ + 1]
      /\ txBuffer' = [txBuffer EXCEPT ![s] = Append(@, wrote'[s])]
      /\ UNCHANGED <<added, epoll, poll, closed, out>>
  BY DEF SockInv, Write
<1>1. wrote[s] \in Nat /\ out[s] \in Seq(Nat) /\ txBuffer[s] \in Seq(Nat)
  BY SockFacts
<1>2. /\ wrote'[s] = wrote[s] + 1 /\ wrote' \in [Socks -> Nat]
      /\ \A x \in Socks : x # s => wrote'[x] = wrote[x]
  BY <1>0, <1>1 DEF SockTypeOK
<1>3. /\ txBuffer'[s] = Append(txBuffer[s], wrote[s] + 1)
      /\ \A x \in Socks : x # s => txBuffer'[x] = txBuffer[x]
  BY <1>0, <1>2 DEF SockTypeOK
<1>4. txBuffer' \in [Socks -> Seq(Nat)]
  <2>1. Append(txBuffer[s], wrote[s] + 1) \in Seq(Nat)
    BY <1>1
  <2>2. txBuffer' = [x \in Socks |-> txBuffer'[x]]
    BY <1>0 DEF SockTypeOK
  <2>3. \A x \in Socks : txBuffer'[x] \in Seq(Nat)
    BY <1>3, <2>1, SockFacts
  <2>4. QED BY <2>2, <2>3
<1>5. /\ txLock' \in [Socks -> {"free", "writer", "lost"}] /\ txLock'[s] = "writer"
      /\ \A x \in Socks : x # s => txLock'[x] = txLock[x]
  BY <1>0 DEF SockTypeOK
<1>6. SockTypeOK'
  BY <1>0, <1>2, <1>4, <1>5 DEF SockTypeOK
<1>7. (\A x \in Socks : Kept(x))'
  <2>1. ASSUME NEW x \in Socks
        PROVE  out'[x] \o txBuffer'[x] = Numbered(wrote'[x])
    <3>0. out[x] \o txBuffer[x] = Numbered(wrote[x])
      BY DEF SockInv, Kept
    <3>1. CASE x = s
      <4>1. out[s] \o Append(txBuffer[s], wrote[s] + 1) = Numbered(wrote[s] + 1)
        <5>1. out[s] \o txBuffer[s] = Numbered(wrote[s])
          BY <3>0, <3>1
        <5>2. QED BY <1>1, <5>1, NumberedAppend, Zenon
      <4>2. QED BY <1>0, <1>2, <1>3, <3>1, <4>1
    <3>2. CASE x # s
      BY <1>0, <1>2, <1>3, <3>0, <3>2
    <3>3. QED BY <3>1, <3>2
  <2>2. QED BY <2>1 DEF Kept
<1>8. InterestInv'
  <2>1. ASSUME NEW x \in Socks, x \in DOMAIN epoll', ~Updating(x)'
        PROVE  epoll'[x].interest = Interest(x)'
    <3>1. x # s
      BY <1>5, <2>1 DEF Updating
    <3>2. ~Updating(x) /\ x \in DOMAIN epoll
      BY <1>0, <1>5, <2>1, <3>1 DEF Updating
    <3>3. QED BY <1>0, <1>3, <3>1, <3>2 DEF SockInv, InterestInv, Interest
  <2>2. QED BY <2>1 DEF InterestInv
<1>9. FreshInv'
  BY <1>0, <1>2 DEF SockInv, FreshInv
<1>10. QED BY <1>6, <1>7, <1>8, <1>9 DEF SockInv
-----------------------------------------------------------------------------
LEMMA SockInvInit == SockInit => SockInv
<1> SUFFICES ASSUME SockInit PROVE SockInv
  OBVIOUS
<1>1. DOMAIN epoll = {} /\ epoll \in [DOMAIN epoll -> Registered]
  BY DEF SockInit
<1>2. poll = [at |-> poll.at, sock |-> poll.sock, events |-> poll.events]
  BY DEF SockInit, AtRest
<1>3. /\ added \in [Socks -> Indices \cup {-1}]
      /\ txBuffer \in [Socks -> Seq(Nat)]
      /\ txLock \in [Socks -> {"free", "writer", "lost"}]
      /\ wrote \in [Socks -> Nat]
      /\ out \in [Socks -> Seq(Nat)]
  BY DEF SockInit
<1>4. closed \in [Socks -> BOOLEAN]
  BY DEF SockInit
<1>5. SockTypeOK
  BY <1>1, <1>2, <1>3, <1>4 DEF SockTypeOK
<1>6. \A s \in Socks : Kept(s)
  <2>1. ASSUME NEW s \in Socks PROVE out[s] \o txBuffer[s] = Numbered(wrote[s])
    <3>1. out[s] = <<>> /\ txBuffer[s] = <<>> /\ wrote[s] = 0
      BY DEF SockInit
    <3>2. <<>> \o <<>> = <<>>
      OBVIOUS
    <3>3. [k \in 1 .. 0 |-> k] = <<>>
      OBVIOUS
    <3>4. QED BY <3>1, <3>2, <3>3 DEF Numbered
  <2>2. QED BY <2>1 DEF Kept
<1>7. InterestInv /\ FreshInv
  BY <1>1 DEF SockInit, InterestInv, FreshInv
<1>8. QED BY <1>5, <1>6, <1>7 DEF SockInv

(* Every step of the poller goroutine, the writers and the closers keeps   *)
(* the invariant.                                                          *)
LEMMA SockInvStep == SockInv /\ [SockNext]_sockVars => SockInv'
<1> SUFFICES ASSUME SockInv, [SockNext]_sockVars PROVE SockInv'
  OBVIOUS
<1>1. CASE UNCHANGED sockVars
  BY <1>1 DEF sockVars, SockInv, SockTypeOK, Kept, InterestInv, Updating, Interest, FreshInv
<1>2. CASE \E s \in Socks, i \in Indices : Accept(s, i)
  BY <1>2, AcceptKeeps
<1>3. CASE (\E s \in Socks : HangUp(s)) \/ EventPoll \/ Do \/ WriteFails \/ WriteReadyClosed
  BY <1>3, QuietSteps
<1>4. CASE \E s \in Socks : Write(s)
  BY <1>4, WriteKeeps
<1>5. CASE PollUpdate \/ \E s \in Socks : WriteUpdate(s)
  BY <1>5, UpdateKeeps
<1>6. CASE PollClose \/ \E s \in Socks : Close(s)
  BY <1>6, CloseKeeps
<1>7. CASE WriteReady
  BY <1>7, WriteReadyKeeps
<1>8. CASE ReadReady
  BY <1>8, ReadReadyKeeps
<1>9. QED
  BY <1>1, <1>2, <1>3, <1>4, <1>5, <1>6, <1>7, <1>8 DEF SockNext

(* Write and ClientWriteReady (elib/socket) lose, double or reorder no     *)
(* byte, and while no Update is under way the poller waits for a socket to *)
(* be writable exactly when there is output for it: no output is stranded, *)
(* for any number of sockets and writers and any amount of output.         *)
THEOREM SocketOutput == SockSpec => []OutputKept
<1>1. SockInv => OutputKept
  BY DEF SockInv, OutputKept, Kept, Numbered, InterestInv, Updating
<1>2. QED BY <1>1, SockInvInit, SockInvStep, PTL DEF SockSpec
=============================================================================
