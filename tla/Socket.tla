------------------------------- MODULE Socket -------------------------------
(***************************************************************************)
(* Buffered sockets of elib/socket and the file poller of elib/iomux that  *)
(* drives them; the command line of vnetd talks to its clients over them.  *)
(*                                                                         *)
(* Goroutines: the poller, which takes a batch of events from epoll and    *)
(* calls the files' callbacks one after the other; a writer per socket     *)
(* (the command that prints); and Exit, which closes sockets.  Add, Del    *)
(* and Update hold the pool lock throughout and are one step.  The kernel  *)
(* reports a file as long as it is ready (level triggered).                *)
(***************************************************************************)
EXTENDS Integers, Sequences, SequencesExt, FiniteSets

CONSTANTS
  Socks,      \* accepted client sockets
  Indices,    \* bound of the model: indices of Mux.filePool
  Bytes,      \* bound of the model: bytes a socket's writer writes
  NoSock      \* no socket

ASSUME SocketAssumption == Bytes \in Nat /\ NoSock \notin Socks

VARIABLES
  files,      \* Mux.files: index -> socket or NoSock
  added,      \* socket -> File.poolIndex while File.added, else -1
  epoll,      \* kernel: registered socket -> interest and index
  batch,      \* events of epoll_pwait that are still to be done
  poll,       \* where the poller goroutine is, with which socket
  txBuffer,   \* socket -> bytes to be written
  txLock,     \* socket -> holder of txBufLock: "free", "writer", "lost"
  closed,     \* socket -> socket.flags has Closed
  hungUp,     \* socket -> the peer has closed its end
  muxPanic,   \* panic("epoll_ctl: mod ...")
  wrote,      \* history: socket -> number of bytes taken by Write
  out         \* history: socket -> bytes given to the kernel

sockVars == <<files, added, epoll, batch, poll, txBuffer, txLock, closed,
              hungUp, muxPanic, wrote, out>>

AtRest == [at |-> "next", sock |-> NoSock, events |-> {}]

SockInit ==
  /\ files = [i \in Indices |-> NoSock]
  /\ added = [s \in Socks |-> -1]
  /\ epoll = <<>>
  /\ batch = <<>>
  /\ poll = AtRest
  /\ txBuffer = [s \in Socks |-> <<>>]
  /\ txLock = [s \in Socks |-> "free"]
  /\ closed = [s \in Socks |-> FALSE]
  /\ hungUp = [s \in Socks |-> FALSE]
  /\ muxPanic = FALSE
  /\ wrote = [s \in Socks |-> 0]
  /\ out = [s \in Socks |-> <<>>]

(* File.event: read is always wanted, write while there is output.         *)
Interest(s) == {"r"} \cup (IF txBuffer[s] # <<>> THEN {"w"} ELSE {})

(* Mux.Update.  epoll_ctl fails for a file that is not registered.         *)
MuxUpdate(s) ==
  IF s \in DOMAIN epoll
  THEN /\ epoll' = [epoll EXCEPT ![s].interest = Interest(s)]
       /\ UNCHANGED muxPanic
  ELSE /\ muxPanic' = TRUE
       /\ UNCHANGED epoll

Unregister(s) == [x \in DOMAIN epoll \ {s} |-> epoll[x]]
-----------------------------------------------------------------------------
(* Server.ReadReady, a callback of the poller: a client is accepted and    *)
(* added.                                                                  *)
Accept(s, i) ==
  /\ ~muxPanic
  /\ poll.at = "next"
  /\ added[s] = -1 /\ ~closed[s]
  /\ files[i] = NoSock
  /\ files' = [files EXCEPT ![i] = s]
  /\ added' = [added EXCEPT ![s] = i]
  /\ epoll' = [x \in DOMAIN epoll \cup {s} |->
                 IF x = s THEN [interest |-> {"r"}, index |-> i] ELSE epoll[x]]
  /\ UNCHANGED <<batch, poll, txBuffer, txLock, closed, hungUp, muxPanic,
                 wrote, out>>

(* The peer closes its end: the socket stays readable from now on.         *)
HangUp(s) ==
  /\ added[s] # -1
  /\ ~hungUp[s]
  /\ hungUp' = [hungUp EXCEPT ![s] = TRUE]
  /\ UNCHANGED <<files, added, epoll, batch, poll, txBuffer, txLock, closed,
                 muxPanic, wrote, out>>

Ready(s) ==
  (IF hungUp[s] THEN {"r"} ELSE {}) \cup (epoll[s].interest \cap {"w"})

(* EventPoll: all ready files, in some order.                              *)
EventPoll ==
  LET ready == {s \in DOMAIN epoll : Ready(s) # {}}
  IN /\ ~muxPanic
     /\ poll.at = "next" /\ batch = <<>>
     /\ ready # {}
     /\ \E order \in SetToSeqs(ready) :
          batch' = [k \in DOMAIN order |->
                      [index |-> epoll[order[k]].index,
                       events |-> Ready(order[k])]]
     /\ UNCHANGED <<files, added, epoll, poll, txBuffer, txLock, closed,
                    hungUp, muxPanic, wrote, out>>

(* Mux.do: the file that has the index now; a deleted file is passed over. *)
Do ==
  LET e == Head(batch)
      s == files[e.index]
  IN /\ ~muxPanic
     /\ poll.at = "next" /\ batch # <<>>
     /\ batch' = Tail(batch)
     /\ poll' = IF s = NoSock THEN AtRest
                ELSE [at |-> IF "w" \in e.events THEN "write" ELSE "read",
                      sock |-> s, events |-> e.events]
     /\ UNCHANGED <<files, added, epoll, txBuffer, txLock, closed, hungUp,
                    muxPanic, wrote, out>>

AfterWrite ==
  IF "r" \in poll.events THEN [poll EXCEPT !.at = "read"] ELSE AtRest

(* Bug form: the interest is renewed only when output is left.             *)
NeedUpdateLeft(s, n) == n < Len(txBuffer[s])

(* ClientWriteReady sets needUpdate whenever something was to be written.  *)
NeedUpdate(s, n) == txBuffer[s] # <<>>

(* ClientWriteReady: some of the output is written under the lock, the     *)
(* interest is renewed after it.                                           *)
WriteReady ==
  LET s == poll.sock
  IN /\ ~muxPanic
     /\ poll.at = "write"
     /\ txLock[s] = "free" /\ ~closed[s]
     /\ \E n \in 0 .. Len(txBuffer[s]) :
          /\ n > 0 \/ txBuffer[s] = <<>>
          /\ out' = [out EXCEPT ![s] = @ \o SubSeq(txBuffer[s], 1, n)]
          /\ txBuffer' = [txBuffer EXCEPT ![s] = SubSeq(@, n + 1, Len(@))]
          /\ poll' = IF NeedUpdate(s, n) THEN [poll EXCEPT !.at = "update"]
                     ELSE AfterWrite
     /\ UNCHANGED <<files, added, epoll, batch, txLock, closed, hungUp,
                    muxPanic, wrote>>

(* The write fails (EAGAIN too): no update.                                *)
WriteFails ==
  /\ ~muxPanic
  /\ poll.at = "write"
  /\ txLock[poll.sock] = "free" /\ ~closed[poll.sock]
  /\ poll' = AfterWrite
  /\ UNCHANGED <<files, added, epoll, batch, txBuffer, txLock, closed, hungUp,
                 muxPanic, wrote, out>>

(* On a closed socket ClientWriteReady returns with the lock held.         *)
WriteReadyClosed ==
  /\ ~muxPanic
  /\ poll.at = "write"
  /\ txLock[poll.sock] = "free" /\ closed[poll.sock]
  /\ txLock' = [txLock EXCEPT ![poll.sock] = "lost"]
  /\ poll' = AfterWrite
  /\ UNCHANGED <<files, added, epoll, batch, txBuffer, closed, hungUp,
                 muxPanic, wrote, out>>

PollUpdate ==
  /\ ~muxPanic
  /\ poll.at = "update"
  /\ MuxUpdate(poll.sock)
  /\ poll' = AfterWrite
  /\ UNCHANGED <<files, added, batch, txBuffer, txLock, closed, hungUp, wrote,
                 out>>

(* ReadReady with nothing to read (EAGAIN), with an error on a closed      *)
(* descriptor, or at the end of file: then Del, and Close takes the lock.  *)
ReadReady ==
  LET s == poll.sock
      eof == hungUp[s] /\ ~closed[s]
  IN /\ ~muxPanic
     /\ poll.at = "read"
     /\ IF eof /\ added[s] # -1
        THEN /\ epoll' = Unregister(s)
             /\ files' = [files EXCEPT ![added[s]] = NoSock]
             /\ added' = [added EXCEPT ![s] = -1]
        ELSE UNCHANGED <<epoll, files, added>>
     /\ poll' = IF eof THEN [poll EXCEPT !.at = "close"] ELSE AtRest
     /\ UNCHANGED <<batch, txBuffer, txLock, closed, hungUp, muxPanic, wrote,
                    out>>

PollClose ==
  /\ ~muxPanic
  /\ poll.at = "close"
  /\ txLock[poll.sock] = "free"
  /\ closed' = [closed EXCEPT ![poll.sock] = TRUE]
  /\ poll' = AtRest
  /\ UNCHANGED <<files, added, epoll, batch, txBuffer, txLock, hungUp,
                 muxPanic, wrote, out>>

(* Close by Exit, or of a client that quit: the kernel forgets the         *)
(* descriptor, the pool does not.                                          *)
Close(s) ==
  /\ ~muxPanic
  /\ added[s] # -1 /\ ~closed[s]
  /\ txLock[s] = "free"
  /\ closed' = [closed EXCEPT ![s] = TRUE]
  /\ epoll' = Unregister(s)
  /\ UNCHANGED <<files, added, batch, poll, txBuffer, txLock, hungUp, muxPanic,
                 wrote, out>>
-----------------------------------------------------------------------------
(* Write: under the lock the output is appended, then Update is called.    *)
(* On a closed socket nothing is written.                                  *)
Write(s) ==
  /\ ~muxPanic
  /\ wrote[s] < Bytes
  /\ added[s] # -1
  /\ txLock[s] = "free" /\ ~closed[s]
  /\ txLock' = [txLock EXCEPT ![s] = "writer"]
  /\ wrote' = [wrote EXCEPT ![s] = @ + 1]
  /\ txBuffer' = [txBuffer EXCEPT ![s] = Append(@, wrote'[s])]
  /\ UNCHANGED <<files, added, epoll, batch, poll, closed, hungUp, muxPanic,
                 out>>

WriteUpdate(s) ==
  /\ ~muxPanic
  /\ txLock[s] = "writer"
  /\ MuxUpdate(s)
  /\ txLock' = [txLock EXCEPT ![s] = "free"]
  /\ UNCHANGED <<files, added, batch, poll, txBuffer, closed, hungUp, wrote,
                 out>>

SockNext ==
  \/ \E s \in Socks, i \in Indices : Accept(s, i)
  \/ \E s \in Socks : HangUp(s) \/ Close(s) \/ Write(s) \/ WriteUpdate(s)
  \/ EventPoll
  \/ Do
  \/ WriteReady
  \/ WriteFails
  \/ WriteReadyClosed
  \/ PollUpdate
  \/ ReadReady
  \/ PollClose
-----------------------------------------------------------------------------
(* Output is neither lost, doubled nor reordered on its way, and it is not *)
(* stranded: while no Update is under way the poller waits for a socket to *)
(* be writable exactly when there is output for it, though Write and the   *)
(* poller change the buffer and renew the interest without a common lock.  *)
OutputKept ==
  \A s \in Socks :
    /\ out[s] \o txBuffer[s] = [k \in 1 .. wrote[s] |-> k]
    /\ (/\ s \in DOMAIN epoll
        /\ txLock[s] # "writer"
        /\ ~(poll.at = "update" /\ poll.sock = s)) =>
          epoll[s].interest = Interest(s)

(* Update of a file that was just removed does nothing ("very small window *)
(* of possibility, but in case so, just ignore and don't actually          *)
(* update").                                                               *)
RemovedIgnored == ~muxPanic
=============================================================================
