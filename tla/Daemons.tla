------------------------------ MODULE Daemons -------------------------------
(***************************************************************************)
(* goes-daemons (goes/cmd/daemons): starts the configured daemons, lets an *)
(* administrator start, stop and restart them by rpc, and ends when none   *)
(* is left.                                                                *)
(*                                                                         *)
(* Goroutines: the server, one waiter per daemon, one per rpc.  The table  *)
(* cmdsByPid is protected by a mutex, except in List.  A process id is not *)
(* used again before its waiter and every rpc that names it are through    *)
(* with it.                                                                *)
(***************************************************************************)
EXTENDS Integers, FiniteSets

CONSTANTS
  Pids,      \* process ids
  InitPids,  \* the daemons started by server
  Rpcs,      \* rpc goroutines
  RpcMax     \* bound of the model on the rpcs of a behaviour

ASSUME DaemonsAssumption == InitPids \subseteq Pids /\ RpcMax \in Nat

VARIABLES
  proc,       \* pid -> "none", "running", "exited" (not reaped) or "reaped"
  waiter,     \* pid -> where its waiter is
  cmdsByPid,  \* Daemons.cmdsByPid: the pids it holds
  mutex,      \* the rpc that holds the mutex over several steps, or "free"
  rpc,        \* rpc -> where it is, with which pid
  server,     \* "recv", "sleep" or "done"
  listing,    \* List is reading the table
  crashed,    \* the process died of a nil pointer or a concurrent map access
  rpcs        \* history: number of rpcs so far

daemonVars == <<proc, waiter, cmdsByPid, mutex, rpc, server, listing, crashed,
                rpcs>>

NoRpc == [at |-> "idle", pid |-> 0]
Up == server # "done" /\ ~crashed

(* server has started the configured daemons and serves rpcs.              *)
DaemonsInit ==
  /\ proc = [p \in Pids |-> IF p \in InitPids THEN "running" ELSE "none"]
  /\ waiter = [p \in Pids |-> IF p \in InitPids THEN "wait" ELSE "none"]
  /\ cmdsByPid = InitPids
  /\ mutex = "free"
  /\ rpc = [r \in Rpcs |-> NoRpc]
  /\ server = "recv"
  /\ listing = FALSE
  /\ crashed = FALSE
  /\ rpcs = 0

(* A write of the table while List walks it may be noticed by the runtime, *)
(* which then ends the process.                                            *)
TableWrite(table) ==
  /\ cmdsByPid' = table
  /\ \/ UNCHANGED crashed
     \/ listing /\ crashed' = TRUE
-----------------------------------------------------------------------------
(* A daemon exits by itself, or of the SIGTERM it was sent.                *)
Exit(p) ==
  /\ proc[p] = "running"
  /\ proc' = [proc EXCEPT ![p] = "exited"]
  /\ UNCHANGED <<waiter, cmdsByPid, mutex, rpc, server, listing, crashed,
                 rpcs>>

(* Bug form: the waiter does not wait.                                     *)
ReapableAlways(p) == TRUE

(* p.Wait returns                                                          *)
Reapable(p) == proc[p] = "exited"

Reap(p) ==
  /\ Up
  /\ waiter[p] = "wait"
  /\ Reapable(p)
  /\ proc' = [proc EXCEPT ![p] = IF @ = "exited" THEN "reaped" ELSE @]
  /\ waiter' = [waiter EXCEPT ![p] = "delete"]
  /\ UNCHANGED <<cmdsByPid, mutex, rpc, server, listing, crashed, rpcs>>

(* Bug form: the entry stays in the table.                                 *)
DeleteForgotten(p) ==
  /\ Up
  /\ waiter[p] = "delete"
  /\ waiter' = [waiter EXCEPT ![p] = "send"]
  /\ UNCHANGED <<proc, cmdsByPid, mutex, rpc, server, listing, crashed, rpcs>>

Delete(p) ==
  /\ Up
  /\ waiter[p] = "delete"
  /\ mutex = "free"
  /\ TableWrite(cmdsByPid \ {p})
  /\ waiter' = [waiter EXCEPT ![p] = "send"]
  /\ UNCHANGED <<proc, mutex, rpc, server, listing, rpcs>>

(* done <- struct{}{}, taken by the server.                                *)
Done(p) ==
  /\ Up
  /\ waiter[p] = "send"
  /\ server = "recv"
  /\ server' = "sleep"
  /\ waiter' = [waiter EXCEPT ![p] = "none"]
  /\ proc' = [proc EXCEPT ![p] = IF @ = "reaped" THEN "none" ELSE @]
  /\ UNCHANGED <<cmdsByPid, mutex, rpc, listing, crashed, rpcs>>

(* After its sleep the server looks whether any daemon is left.            *)
Check ==
  /\ Up
  /\ server = "sleep"
  /\ mutex = "free"
  /\ server' = IF cmdsByPid # {} THEN "recv" ELSE "done"
  /\ UNCHANGED <<proc, waiter, cmdsByPid, mutex, rpc, listing, crashed, rpcs>>
-----------------------------------------------------------------------------
Begin(r) == Up /\ rpc[r].at = "idle" /\ rpcs < RpcMax /\ rpcs' = rpcs + 1

(* start: the process runs before it is in the table.  (When the process   *)
(* cannot be started, nothing changes.)                                    *)
Fork(r, p) ==
  /\ proc[p] = "none" /\ waiter[p] = "none"
  /\ \A x \in Rpcs : rpc[x].pid # p
  /\ proc' = [proc EXCEPT ![p] = "running"]
  /\ rpc' = [rpc EXCEPT ![r] = [at |-> "register", pid |-> p]]

Start(r, p) ==
  /\ Begin(r)
  /\ Fork(r, p)
  /\ UNCHANGED <<waiter, cmdsByPid, mutex, server, listing, crashed>>

Register(r) ==
  /\ Up
  /\ rpc[r].at = "register"
  /\ mutex = "free"
  /\ TableWrite(cmdsByPid \cup {rpc[r].pid})
  /\ waiter' = [waiter EXCEPT ![rpc[r].pid] = "wait"]
  /\ rpc' = [rpc EXCEPT ![r] = NoRpc]
  /\ UNCHANGED <<proc, mutex, server, listing, rpcs>>

(* Stop holds the mutex from here until it returns; Restart gives it back. *)
(* A pid that is not in the table is an error.                             *)
Stop(r, p) ==
  /\ Begin(r)
  /\ mutex = "free"
  /\ p \in cmdsByPid
  /\ mutex' = r
  /\ rpc' = [rpc EXCEPT ![r] = [at |-> "stop", pid |-> p]]
  /\ UNCHANGED <<proc, waiter, cmdsByPid, server, listing, crashed>>

Restart(r, p) ==
  /\ Begin(r)
  /\ mutex = "free"
  /\ p \in cmdsByPid
  /\ rpc' = [rpc EXCEPT ![r] = [at |-> "restart", pid |-> p]]
  /\ UNCHANGED <<proc, waiter, cmdsByPid, mutex, server, listing, crashed>>

(* One second after SIGTERM: Kill of a process that was reaped returns     *)
(* "process already finished".  Of any other it returns nil, and the use   *)
(* of that nil error ends goes-daemons.                                    *)
Finished(p) == proc[p] \notin {"running", "exited"}

Killed(r) ==
  /\ Up
  /\ rpc[r].at \in {"stop", "restart"}
  /\ ~Finished(rpc[r].pid)
  /\ proc' = [proc EXCEPT ![rpc[r].pid] = "exited"]
  /\ crashed' = TRUE
  /\ UNCHANGED <<waiter, cmdsByPid, mutex, rpc, server, listing, rpcs>>

Stopped(r) ==
  /\ Up
  /\ rpc[r].at = "stop"
  /\ Finished(rpc[r].pid)
  /\ mutex' = "free"
  /\ rpc' = [rpc EXCEPT ![r] = NoRpc]
  /\ UNCHANGED <<proc, waiter, cmdsByPid, server, listing, crashed, rpcs>>

(* The new process may fail to start.                                      *)
Restarted(r) ==
  /\ Up
  /\ rpc[r].at = "restart"
  /\ Finished(rpc[r].pid)
  /\ \/ \E p \in Pids : Fork(r, p)
     \/ rpc' = [rpc EXCEPT ![r] = NoRpc] /\ UNCHANGED proc
  /\ UNCHANGED <<waiter, cmdsByPid, mutex, server, listing, crashed, rpcs>>

(* List takes no mutex.                                                    *)
ListBegin ==
  /\ Up /\ ~listing /\ rpcs < RpcMax
  /\ rpcs' = rpcs + 1
  /\ listing' = TRUE
  /\ UNCHANGED <<proc, waiter, cmdsByPid, mutex, rpc, server, crashed>>

ListEnd ==
  /\ Up /\ listing
  /\ listing' = FALSE
  /\ UNCHANGED <<proc, waiter, cmdsByPid, mutex, rpc, server, crashed, rpcs>>

DaemonsNext ==
  \/ \E p \in Pids : Exit(p) \/ Reap(p) \/ Delete(p) \/ Done(p)
  \/ Check
  \/ \E r \in Rpcs, p \in Pids : Start(r, p) \/ Stop(r, p) \/ Restart(r, p)
  \/ \E r \in Rpcs : Register(r) \/ Killed(r) \/ Stopped(r) \/ Restarted(r)
  \/ ListBegin
  \/ ListEnd

(* Goroutines that can run do run.  Nothing makes a daemon exit, or an     *)
(* administrator call.                                                     *)
DaemonsFairness ==
  /\ \A p \in Pids : WF_daemonVars(Reap(p) \/ Delete(p) \/ Done(p))
  /\ WF_daemonVars(Check)
  /\ \A r \in Rpcs :
       WF_daemonVars(Register(r) \/ Killed(r) \/ Stopped(r) \/ Restarted(r))
  /\ WF_daemonVars(ListEnd)
-----------------------------------------------------------------------------
(* A daemon that runs is in the table, where it can be listed and stopped  *)
(* and keeps the server up, or an rpc is about to put it there; and the    *)
(* server ends only when none is left but one just started, whatever exits *)
(* stops and restarts went before.                                         *)
RunningIsKnown ==
  /\ Up => \A p \in Pids : proc[p] = "running" =>
             \/ p \in cmdsByPid
             \/ \E r \in Rpcs : rpc[r] = [at |-> "register", pid |-> p]
  /\ server = "done" => \A p \in Pids : proc[p] = "running" =>
                          \E r \in Rpcs : rpc[r].at = "register"

(* "start daemons and wait for their exit": once every daemon has exited,  *)
(* and none is being started, goes-daemons ends (a daemon's entry is gone  *)
(* before its waiter reports it).                                          *)
AllGone ==
  /\ \A p \in Pids : proc[p] # "running"
  /\ \A r \in Rpcs : rpc[r].at \notin {"register", "restart"}

ServerEnds == AllGone ~> (server = "done" \/ crashed \/ ~AllGone)
=============================================================================
