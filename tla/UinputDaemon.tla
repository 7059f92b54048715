---------------------------- MODULE UinputDaemon -----------------------------
(***************************************************************************)
(* The uinput daemons of one user (pinakey-server) and the addon's         *)
(* connection to them (UinputClient): starting under the lock file, one of *)
(* several instances, the loop around ppoll with its two signals, the hello*)
(* behind a connection, requests, and a connection that is given up and    *)
(* tried again.                                                            *)
(*                                                                         *)
(* A daemon that is restarted is another instance. fcitx5 is the only      *)
(* program that connects; it may be restarted (fcitx5 -r) and its          *)
(* connections are then closed for it.                                     *)
(***************************************************************************)
EXTENDS Naturals, Sequences, FiniteSets

CONSTANTS
  Daemons,      \* instances of pinakey-server, each started at most once
  Nobody,
  Conns,        \* connections that may exist at one time
  NoConn,
  Backlog,      \* listen(fd, 4)
  Capacity,     \* requests that fit into a connection
  Counts,       \* Backspaces asked for in a request
  Limit,        \* the daemon serves requests below it: 1000
  Retry,        \* retryInterval_, in ticks
  Budgets       \* bounds of a behaviour: lock files made, requests, restarts of fcitx5

ASSUME DaemonAssumption ==
  /\ Nobody \notin Daemons /\ NoConn \notin Conns
  /\ Backlog \in Nat /\ Capacity \in Nat \ {0} /\ Counts \subseteq Nat \ {0} /\ Limit \in Nat
  /\ Retry \in Nat \ {0}
  /\ Budgets \subseteq [locks : Nat, requests : Nat, restarts : Nat]

VARIABLES
  lockFile,  \* the inode at the path of the lock file, 0 for none
  inodes,    \* history: lock files made
  lockFd,    \* the inode of the lock file that each daemon has opened
  path,      \* whose socket stands at the path
  order,     \* history: the daemons in the order in which they unlinked the socket
  pc,        \* each daemon's place in main
  sig,       \* SIGTERM: not sent, pending, or handled (g_running is false)
  backlog,   \* connections each daemon has still to accept
  client,    \* the connection it serves
  revents,   \* what its last ppoll has found
  left,      \* Backspaces it has still to inject
  conn,      \* each connection: its daemon, the client's end, hello, requests
  fd,        \* UinputClient.fd_
  greeted,   \* the connection whose hello tryConnect waits for
  failed,    \* failedOnce_
  age,       \* ticks since lastAttempt_, up to Retry
  budget     \* what may still happen

startVars == <<lockFile, inodes, lockFd, path, order>>
loopVars == <<backlog, client, revents, left>>
clientVars == <<fd, greeted, failed, age, budget>>
vars == <<startVars, pc, sig, loopVars, conn, clientVars>>

Loop == {"test", "wait", "accept", "read", "inject"}
Bound == Loop \cup {"init", "sigprocmask"}   \* it listens
Locked == Bound \cup {"unlink", "bind"}                   \* it holds its lock
Places == Locked \cup {"off", "open", "flock", "gone"}

NoInode == 0
Unused == [to |-> Nobody, open |-> FALSE, hello |-> FALSE, reqs |-> <<>>]

Init ==
  /\ lockFile = NoInode /\ inodes = 0 /\ lockFd = [d \in Daemons |-> NoInode]
  /\ path = Nobody /\ order = <<>>
  /\ pc = [d \in Daemons |-> "off"] /\ sig = [d \in Daemons |-> "none"]
  /\ backlog = [d \in Daemons |-> <<>>] /\ client = [d \in Daemons |-> NoConn]
  /\ revents = [d \in Daemons |-> {}] /\ left = [d \in Daemons |-> 0]
  /\ conn = [k \in Conns |-> Unused]
  /\ fd = NoConn /\ greeted = NoConn /\ failed = FALSE /\ age = 0
  /\ budget \in Budgets

-----------------------------------------------------------------------------
(* bindUinputServerSocket.                                                 *)

GoTo(d, from, to) == pc[d] = from /\ pc' = [pc EXCEPT ![d] = to]

\* A process ends: what it held is closed, its lock with it. The socket stays.
Ends(d) ==
  /\ pc' = [pc EXCEPT ![d] = "gone"]
  /\ lockFd' = [lockFd EXCEPT ![d] = NoInode]
  /\ backlog' = [backlog EXCEPT ![d] = <<>>] /\ client' = [client EXCEPT ![d] = NoConn]
  /\ revents' = [revents EXCEPT ![d] = {}] /\ left' = [left EXCEPT ![d] = 0]
  /\ conn' = [k \in Conns |-> IF conn[k].to = d /\ ~conn[k].open THEN Unused ELSE conn[k]]
  /\ UNCHANGED <<lockFile, inodes, order, sig, clientVars>>

LockHeld(i) == \E e \in Daemons : pc[e] \in Locked /\ lockFd[e] = i

OpenLock(d) ==
  /\ GoTo(d, "open", "flock")
  /\ IF lockFile = NoInode
       THEN lockFile' = inodes + 1 /\ inodes' = inodes + 1
       ELSE UNCHANGED <<lockFile, inodes>>
  /\ lockFd' = [lockFd EXCEPT ![d] = lockFile']
  /\ UNCHANGED <<path, order, sig, loopVars, conn, clientVars>>

\* EADDRINUSE, an exit with 0, if another daemon has the lock.
Flock(d) ==
  /\ pc[d] = "flock"
  /\ \/ LockHeld(lockFd[d]) /\ Ends(d) /\ UNCHANGED path
     \/ /\ ~LockHeld(lockFd[d])
        /\ GoTo(d, "flock", "unlink")
        /\ UNCHANGED <<startVars, sig, loopVars, conn, clientVars>>

Unlink(d) ==
  /\ GoTo(d, "unlink", "bind")
  /\ path' = Nobody /\ order' = Append(order, d)
  /\ UNCHANGED <<lockFile, inodes, lockFd, sig, loopVars, conn, clientVars>>

\* bind fails where a socket stands; otherwise it listens.
Bind(d) ==
  /\ pc[d] = "bind"
  /\ \/ path # Nobody /\ Ends(d) /\ UNCHANGED path
     \/ /\ path = Nobody /\ path' = d
        /\ GoTo(d, "bind", "init")
        /\ UNCHANGED <<lockFile, inodes, lockFd, order, sig, loopVars, conn, clientVars>>

StartUp(d) == OpenLock(d) \/ Flock(d) \/ Unlink(d) \/ Bind(d)

-----------------------------------------------------------------------------
(* main, behind it.                                                        *)

\* kbd.init, which may fail, and sigaction; then sigprocmask.
Prepare(d) ==
  \/ /\ GoTo(d, "init", "sigprocmask") \/ GoTo(d, "sigprocmask", "test")
     /\ UNCHANGED <<startVars, sig, loopVars, conn, clientVars>>
  \/ pc[d] = "init" /\ Ends(d) /\ UNCHANGED path

Stopped(d) == sig[d] = "handled"

\* Mutant: the socket is unlinked at the end (#113).
UnlinksSocket(d) == pc[d] = "test" /\ Stopped(d) /\ Ends(d) /\ path' = Nobody

\* The socket stays where it is.
Exit(d) == pc[d] = "test" /\ Stopped(d) /\ Ends(d) /\ UNCHANGED path

Test(d) ==
  /\ ~Stopped(d) /\ GoTo(d, "test", "wait")
  /\ UNCHANGED <<startVars, sig, loopVars, conn, clientVars>>

Ready(d) ==
  {e \in {"POLLIN"} : backlog[d] # <<>>} \cup
  {e \in {"DATA"} : client[d] # NoConn /\ (conn[client[d]].reqs # <<>> \/ ~conn[client[d]].open)}

\* Mutant: poll, and a signal that comes right before it is only noted (#157).
MaySleepOn(d) == {pc, [pc EXCEPT ![d] = "test"]}

\* ppoll returns EINTR.
Woken(d) == {[pc EXCEPT ![d] = "test"]}

\* ppoll: what is ready comes before a signal that is pending.
Wait(d) ==
  /\ Ready(d) # {}
  /\ GoTo(d, "wait", "accept")
  /\ revents' = [revents EXCEPT ![d] = Ready(d)]
  /\ UNCHANGED <<startVars, sig, backlog, client, left, conn, clientVars>>

\* A signal kills before sigaction; later the handler runs, up to sigprocmask
\* and then while ppoll sleeps.
Handle(d) ==
  /\ sig[d] = "pending"
  /\ \/ /\ pc[d] \in Places \ (Loop \cup {"off", "sigprocmask", "gone"})
        /\ Ends(d) /\ UNCHANGED path
     \/ /\ \/ pc[d] = "sigprocmask" /\ UNCHANGED pc
           \/ pc[d] = "wait" /\ Ready(d) = {} /\ pc' \in Woken(d)
        /\ sig' = [sig EXCEPT ![d] = "handled"]
        /\ UNCHANGED <<startVars, loopVars, conn, clientVars>>

\* Both ends of a connection are closed.
Drop(k) == [conn EXCEPT ![k] = Unused]
\* The daemon closes its end.
Left(k) == IF k # NoConn /\ ~conn[k].open THEN Drop(k) ELSE conn

\* accept4, with whatever was ready besides. The hello goes out if the client
\* is still there; the connection served so far is closed.
Accept(d) ==
  LET k == Head(backlog[d]) IN
  /\ GoTo(d, "accept", "read")
  /\ \/ /\ "POLLIN" \notin revents[d]
        /\ UNCHANGED <<backlog, client, conn>>
     \/ /\ "POLLIN" \in revents[d]
        /\ backlog' = [backlog EXCEPT ![d] = Tail(@)]
        /\ IF conn[k].open
             THEN /\ client' = [client EXCEPT ![d] = k]
                  /\ conn' = [Left(client[d]) EXCEPT ![k].hello = TRUE]
             ELSE conn' = Drop(k) /\ UNCHANGED client
  /\ UNCHANGED <<startVars, sig, revents, left, clientVars>>

\* Mutant: recv returns -1, so the client must be dead.
ErrorCloses(k) == conn[k].reqs = <<>>

\* recv has returned 0; EAGAIN is no reason.
PeerClosed(k) == conn[k].reqs = <<>> /\ ~conn[k].open

\* recv, on what may be a newer connection than the one that ppoll has seen.
Read(d) ==
  LET k == client[d]
      looks == k # NoConn /\ "DATA" \in revents[d]
      n == Head(conn[k].reqs)
  IN
  /\ revents' = [revents EXCEPT ![d] = {}]
  /\ \/ /\ ~looks
        /\ GoTo(d, "read", "test")
        /\ UNCHANGED <<client, left, conn>>
     \/ /\ looks /\ conn[k].reqs = <<>>
        /\ GoTo(d, "read", "test")
        /\ client' = IF PeerClosed(k) THEN [client EXCEPT ![d] = NoConn] ELSE client
        /\ conn' = IF PeerClosed(k) THEN Left(k) ELSE conn
        /\ UNCHANGED left
     \/ /\ looks /\ conn[k].reqs # <<>>
        /\ GoTo(d, "read", "inject")
        /\ left' = [left EXCEPT ![d] = IF n < Limit THEN n ELSE 0]
        /\ conn' = [conn EXCEPT ![k].reqs = Tail(@)]
        /\ UNCHANGED client
  /\ UNCHANGED <<startVars, sig, backlog, clientVars>>

\* One Backspace, or the end of the burst. Signals are blocked meanwhile.
Inject(d) ==
  /\ \/ /\ pc[d] = "inject" /\ left[d] > 0 /\ ~Stopped(d)
        /\ left' = [left EXCEPT ![d] = @ - 1] /\ UNCHANGED pc
     \/ /\ left[d] = 0 \/ Stopped(d)
        /\ GoTo(d, "inject", "test")
        /\ left' = [left EXCEPT ![d] = 0]
  /\ UNCHANGED <<startVars, sig, backlog, client, revents, conn, clientVars>>

Serve(d) == Prepare(d) \/ Test(d) \/ Exit(d) \/ Wait(d) \/ Accept(d) \/ Read(d) \/ Inject(d)
Work(d) == StartUp(d) \/ Serve(d)

-----------------------------------------------------------------------------
(* UinputClient.                                                           *)

Alive(d) == d # Nobody /\ pc[d] \in Bound
Closed(k) == ~Alive(conn[k].to) \/ (k # client[conn[k].to] /\ conn[k].hello)
\* The client closes its end.
Shut(k) == IF Closed(k) THEN Unused ELSE [conn[k] EXCEPT !.open = FALSE]

\* Mutant: a client that has failed once never tries again.
GivesUp == ~failed

MayTry == ~failed \/ age = Retry

\* available, with tryConnect up to the hello. Behind a full backlog connect
\* would block.
TryConnect ==
  /\ fd = NoConn /\ greeted = NoConn /\ MayTry
  /\ age' = 0
  /\ IF Alive(path)
       THEN /\ Len(backlog[path]) <= Backlog
            /\ \E k \in Conns :
                 /\ conn[k] = Unused
                 /\ conn' = [conn EXCEPT ![k] = [Unused EXCEPT !.to = path, !.open = TRUE]]
                 /\ backlog' = [backlog EXCEPT ![path] = Append(@, k)]
                 /\ greeted' = k
            /\ UNCHANGED failed
       ELSE failed' = TRUE /\ UNCHANGED <<conn, backlog, greeted>>
  /\ UNCHANGED <<startVars, pc, sig, client, revents, left, fd, budget>>

\* The hello has come.
Connected ==
  /\ greeted # NoConn /\ conn[greeted].hello
  /\ fd' = greeted /\ greeted' = NoConn /\ failed' = FALSE
  /\ UNCHANGED <<startVars, pc, sig, loopVars, conn, age, budget>>

\* It has not come within 200 ms: the daemon is starting, injects or is gone.
Late(d) == ~Alive(d) \/ pc[d] \in {"init", "inject"}
HelloFails ==
  /\ greeted # NoConn /\ ~conn[greeted].hello /\ Late(conn[greeted].to)
  /\ conn' = [conn EXCEPT ![greeted] = Shut(greeted)]
  /\ greeted' = NoConn /\ failed' = TRUE
  /\ UNCHANGED <<startVars, pc, sig, loopVars, fd, age, budget>>

Full(k) == Len(conn[k].reqs) >= Capacity

\* sendBackspaces
Send(n) ==
  /\ fd # NoConn /\ ~Closed(fd) /\ ~Full(fd)
  /\ budget.requests > 0 /\ budget' = [budget EXCEPT !.requests = @ - 1]
  /\ conn' = [conn EXCEPT ![fd].reqs = Append(@, n)]
  /\ UNCHANGED <<startVars, pc, sig, loopVars, fd, greeted, failed, age>>

\* The daemon has gone, or is busy for 50 ms.
SendFails ==
  /\ fd # NoConn /\ (Closed(fd) \/ Full(fd))
  /\ conn' = [conn EXCEPT ![fd] = Shut(fd)]
  /\ fd' = NoConn /\ failed' = TRUE /\ age' = 0
  /\ UNCHANGED <<startVars, pc, sig, loopVars, greeted, budget>>

-----------------------------------------------------------------------------
(* Everybody else.                                                         *)

Start(d) ==
  /\ GoTo(d, "off", "open")
  /\ UNCHANGED <<startVars, sig, loopVars, conn, clientVars>>

\* systemctl stop, the end of the session.
Terminate(d) ==
  /\ pc[d] \notin {"off", "gone"} /\ sig[d] = "none"
  /\ sig' = [sig EXCEPT ![d] = "pending"]
  /\ UNCHANGED <<startVars, pc, loopVars, conn, clientVars>>

\* SIGKILL, a crash.
Kill(d) ==
  /\ pc[d] \notin {"off", "gone"}
  /\ Ends(d) /\ UNCHANGED path

\* Somebody removes the lock file under the daemons.
RemoveLock ==
  /\ lockFile # NoInode /\ inodes < budget.locks
  /\ lockFile' = NoInode
  /\ UNCHANGED <<inodes, lockFd, path, order, pc, sig, loopVars, conn, clientVars>>

RestartFcitx ==
  /\ budget.restarts > 0 /\ budget' = [budget EXCEPT !.restarts = @ - 1]
  /\ conn' = [k \in Conns |-> IF conn[k].open THEN Shut(k) ELSE conn[k]]
  /\ fd' = NoConn /\ greeted' = NoConn /\ failed' = FALSE /\ age' = 0
  /\ UNCHANGED <<startVars, pc, sig, loopVars>>

Tick ==
  /\ failed /\ age < Retry /\ age' = age + 1
  /\ UNCHANGED <<startVars, pc, sig, loopVars, conn, fd, greeted, failed, budget>>

Next ==
  \/ \E d \in Daemons : Work(d) \/ Handle(d) \/ Start(d) \/ Terminate(d) \/ Kill(d)
  \/ RemoveLock
  \/ TryConnect \/ Connected \/ HelloFails \/ SendFails \/ RestartFcitx \/ Tick
  \/ \E n \in Counts : Send(n)

\* Threads run, signals that are not blocked are delivered, and somebody types:
\* every key asks for the connection.
Fairness ==
  /\ \A d \in Daemons : WF_vars(Work(d) \/ Handle(d))
  /\ WF_vars(TryConnect \/ Connected \/ HelloFails \/ Tick)

Spec == Init /\ [][Next]_vars
FairSpec == Spec /\ Fairness

-----------------------------------------------------------------------------
\* The lock file that was made first is still there.
LockKept == inodes = lockFile /\ inodes <= 1
Newest == order[Len(order)]

\* A daemon that listens is the one the path leads to, and so there is only
\* one: flock decides who starts, for life (#107). If somebody removes the lock
\* file it gives way to a daemon that starts later, never to one that ends (#113).
NewestServes ==
  \A d \in Daemons : Alive(d) => path = d \/ (~LockKept /\ Newest # d)

\* SIGTERM ends a daemon, whenever it comes: it does not sleep on (#157).
TermExits == \A d \in Daemons : sig[d] # "none" ~> pc[d] = "gone"

\* The connection that the addon relies on is the one that the daemon serves,
\* as long as that daemon runs (#105): also when the daemon has looked at it
\* with the poll result of the connection before it, or has dropped others.
HelloIsKept == fd # NoConn => LET d == conn[fd].to IN Alive(d) => client[d] = fd

\* A daemon that starts late, or again, is found without a restart of fcitx5
\* (uinputclient.h).
PickedUp ==
  <>[](Alive(path) /\ sig[path] = "none") => <>[](fd # NoConn)
==============================================================================
