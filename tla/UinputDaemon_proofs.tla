------------------------- MODULE UinputDaemon_proofs --------------------------
(***************************************************************************)
(* Who serves, for any number of daemons that start, end and are killed in *)
(* any order. Two daemons that are past flock hold different lock files    *)
(* (Apart), so while the first lock file stays there is only one; and a    *)
(* socket is unlinked only by a daemon on its way to its own bind.         *)
(***************************************************************************)
EXTENDS UinputDaemon, SequenceTheorems, TLAPS

StartTypes ==
  /\ inodes \in Nat /\ lockFile \in 0 .. inodes
  /\ lockFd \in [Daemons -> 0 .. inodes]
  /\ path \in Daemons \cup {Nobody} /\ order \in Seq(Daemons)
  /\ pc \in [Daemons -> Places]

HasOpened == \A d \in Daemons : pc[d] \in Locked \cup {"flock"} => lockFd[d] # NoInode

Apart ==
  \A d, e \in Daemons :
    pc[d] \in Locked /\ pc[e] \in Locked /\ lockFd[d] = lockFd[e] => d = e

IInv == StartTypes /\ HasOpened /\ Apart /\ NewestServes

LEMMA InitInv == ASSUME Init PROVE IInv
BY DaemonAssumption
DEF Init, IInv, StartTypes, HasOpened, Apart, NewestServes, Alive, Places, Locked, Bound, Loop, NoInode

\* A process that ends disturbs nobody.
LEMMA EndsInv ==
  ASSUME IInv, NEW d \in Daemons, Ends(d), path' = path
  PROVE IInv'
<1>1. /\ pc' = [pc EXCEPT ![d] = "gone"] /\ lockFd' = [lockFd EXCEPT ![d] = NoInode]
      /\ lockFile' = lockFile /\ inodes' = inodes /\ order' = order /\ path' = path
  BY DEF Ends
<1>2. StartTypes' BY <1>1 DEF IInv, StartTypes, Places, NoInode
<1>3. \A e \in Daemons : e # d => pc'[e] = pc[e] /\ lockFd'[e] = lockFd[e]
  BY <1>1 DEF IInv, StartTypes
<1>4. pc'[d] = "gone" BY <1>1 DEF IInv, StartTypes
<1>5. pc'[d] \notin Locked \cup {"flock"} BY <1>4 DEF Locked, Bound, Loop
<1>6. HasOpened' BY <1>3, <1>5 DEF IInv, HasOpened
<1>7. Apart' BY <1>3, <1>5 DEF IInv, Apart
<1>8. NewestServes'
  <2>1. LockKept' = LockKept /\ Newest' = Newest BY <1>1 DEF LockKept, Newest
  <2> QED BY <1>1, <1>3, <1>5, <2>1 DEF IInv, NewestServes, Alive, Locked
<1> QED BY <1>2, <1>6, <1>7, <1>8 DEF IInv

\* Nor does one that goes on without touching the files.
LEMMA GoesOnInv ==
  ASSUME IInv, NEW d \in Daemons, NEW p \in Places, pc' = [pc EXCEPT ![d] = p],
         p \in Locked \cup {"flock"} => pc[d] \in Locked \cup {"flock"},
         p \in Locked => pc[d] \in Locked,
         p \in Bound => pc[d] \in Bound,
         UNCHANGED startVars
  PROVE IInv'
<1>1. lockFile' = lockFile /\ inodes' = inodes /\ lockFd' = lockFd /\ order' = order /\ path' = path
  BY DEF startVars
<1>2. StartTypes' BY <1>1 DEF IInv, StartTypes
<1>3. \A e \in Daemons :
        /\ pc'[e] \in Locked \cup {"flock"} => pc[e] \in Locked \cup {"flock"}
        /\ pc'[e] \in Locked => pc[e] \in Locked
        /\ pc'[e] \in Bound => pc[e] \in Bound
  BY DEF IInv, StartTypes
<1>4. HasOpened' BY <1>1, <1>3 DEF IInv, HasOpened
<1>5. Apart' BY <1>1, <1>3 DEF IInv, Apart
<1>6. NewestServes'
  <2>1. LockKept' = LockKept /\ Newest' = Newest BY <1>1 DEF LockKept, Newest
  <2> QED BY <1>1, <1>3, <2>1 DEF IInv, NewestServes, Alive
<1> QED BY <1>2, <1>4, <1>5, <1>6 DEF IInv

LEMMA RestsInv == ASSUME IInv, UNCHANGED <<startVars, pc>> PROVE IInv'
<1>1. /\ lockFile' = lockFile /\ inodes' = inodes /\ lockFd' = lockFd /\ order' = order
      /\ path' = path /\ pc' = pc
  BY DEF startVars
<1> QED
  BY <1>1 DEF IInv, StartTypes, HasOpened, Apart, NewestServes, Alive, LockKept, Newest

LEMMA OpenLockInv == ASSUME IInv, NEW d \in Daemons, OpenLock(d) PROVE IInv'
<1>1. /\ pc[d] = "open" /\ pc' = [pc EXCEPT ![d] = "flock"] /\ path' = path /\ order' = order
      /\ lockFd' = [lockFd EXCEPT ![d] = lockFile']
      /\ \/ lockFile = 0 /\ lockFile' = inodes + 1 /\ inodes' = inodes + 1
         \/ lockFile # 0 /\ lockFile' = lockFile /\ inodes' = inodes
  BY DEF OpenLock, GoTo, NoInode
<1>2. inodes \in Nat /\ lockFile \in 0 .. inodes /\ lockFd \in [Daemons -> 0 .. inodes]
  BY DEF IInv, StartTypes
<1>3. inodes' \in Nat /\ lockFile' \in 1 .. inodes' /\ inodes <= inodes'
  BY <1>1, <1>2
<1>4. \A e \in Daemons : lockFd'[e] \in 0 .. inodes'
  BY <1>1, <1>2, <1>3
<1>5. StartTypes'
  BY <1>1, <1>3, <1>4 DEF IInv, StartTypes, Places
<1>6. \A e \in Daemons : e # d => pc'[e] = pc[e] /\ lockFd'[e] = lockFd[e]
  BY <1>1 DEF IInv, StartTypes
<1>7. pc'[d] = "flock" /\ pc'[d] \notin Locked /\ lockFd'[d] = lockFile'
  BY <1>1 DEF IInv, StartTypes, Locked, Bound, Loop
<1>8. HasOpened' BY <1>3, <1>6, <1>7 DEF IInv, HasOpened, NoInode
<1>9. Apart' BY <1>6, <1>7 DEF IInv, Apart
<1>10. NewestServes'
  <2>1. ~LockKept => ~LockKept' BY <1>1, <1>2 DEF LockKept
  <2>2. Newest' = Newest BY <1>1 DEF Newest
  <2> QED BY <1>1, <1>6, <1>7, <2>1, <2>2 DEF IInv, NewestServes, Alive, Locked
<1> QED BY <1>5, <1>8, <1>9, <1>10 DEF IInv

LEMMA FlockInv == ASSUME IInv, NEW d \in Daemons, Flock(d) PROVE IInv'
<1>1. CASE LockHeld(lockFd[d]) /\ Ends(d) /\ UNCHANGED path
  BY <1>1, EndsInv
<1>2. CASE ~LockHeld(lockFd[d]) /\ GoTo(d, "flock", "unlink") /\ UNCHANGED startVars
  <2>1. /\ pc[d] = "flock" /\ pc' = [pc EXCEPT ![d] = "unlink"]
        /\ lockFile' = lockFile /\ inodes' = inodes /\ lockFd' = lockFd /\ order' = order /\ path' = path
    BY <1>2 DEF GoTo, startVars
  <2>2. StartTypes' BY <2>1 DEF IInv, StartTypes, Places, Locked
  <2>3. \A e \in Daemons : e # d => pc'[e] = pc[e] BY <2>1 DEF IInv, StartTypes
  <2>4. pc'[d] = "unlink" /\ pc'[d] \notin Bound BY <2>1 DEF IInv, StartTypes, Bound, Loop
  <2>5. HasOpened' BY <2>1, <2>3 DEF IInv, HasOpened
  <2>6. \A e \in Daemons : pc[e] \in Locked => lockFd[e] # lockFd[d]
    BY <1>2 DEF LockHeld
  <2>7. Apart' BY <2>1, <2>3, <2>6 DEF IInv, Apart
  <2>8. LockKept' = LockKept /\ Newest' = Newest BY <2>1 DEF LockKept, Newest
  <2>9. NewestServes' BY <2>1, <2>3, <2>4, <2>8 DEF IInv, NewestServes, Alive
  <2> QED BY <2>2, <2>5, <2>7, <2>9 DEF IInv
<1> QED BY <1>1, <1>2 DEF Flock

\* Who unlinks the socket of a daemon that listens has another lock file.
LEMMA UnlinkInv == ASSUME IInv, NEW d \in Daemons, Unlink(d) PROVE IInv'
<1>1. /\ pc[d] = "unlink" /\ pc' = [pc EXCEPT ![d] = "bind"]
      /\ lockFile' = lockFile /\ inodes' = inodes /\ lockFd' = lockFd
      /\ order' = Append(order, d) /\ path' = Nobody
  BY DEF Unlink, GoTo
<1>2. StartTypes'
  <2>1. order' \in Seq(Daemons) BY <1>1 DEF IInv, StartTypes
  <2> QED BY <1>1, <2>1 DEF IInv, StartTypes, Places, Locked
<1>3. \A e \in Daemons : e # d => pc'[e] = pc[e] BY <1>1 DEF IInv, StartTypes
<1>4. pc[d] \in Locked /\ pc'[d] = "bind" /\ pc'[d] \notin Bound
  BY <1>1 DEF IInv, StartTypes, Locked, Bound, Loop
<1>5. HasOpened' BY <1>1, <1>3, <1>4 DEF IInv, HasOpened
<1>6. Apart' BY <1>1, <1>3, <1>4 DEF IInv, Apart
<1>7. Newest' = d
  <2>1. order \in Seq(Daemons) BY DEF IInv, StartTypes
  <2> QED BY <1>1, <2>1 DEF Newest
<1>8. ASSUME NEW e \in Daemons, e # d, pc[e] \in Bound PROVE ~LockKept
  <2>1. lockFd[d] # lockFd[e] BY <1>4, <1>8 DEF IInv, Apart, Locked
  <2>2. lockFd[d] \in 1 .. inodes /\ lockFd[e] \in 1 .. inodes
    BY <1>4, <1>8 DEF IInv, StartTypes, HasOpened, Locked, NoInode
  <2> QED BY <2>1, <2>2 DEF IInv, StartTypes, LockKept
<1>9. LockKept' = LockKept BY <1>1 DEF LockKept
<1>10. NewestServes' BY <1>3, <1>4, <1>7, <1>8, <1>9 DEF NewestServes, Alive
<1> QED BY <1>2, <1>5, <1>6, <1>10 DEF IInv

LEMMA BindInv == ASSUME IInv, NEW d \in Daemons, Bind(d) PROVE IInv'
<1>1. CASE Ends(d) /\ UNCHANGED path
  BY <1>1, EndsInv
<1>2. CASE path = Nobody /\ path' = d /\ GoTo(d, "bind", "init") /\ UNCHANGED <<lockFile, inodes, lockFd, order>>
  <2>1. /\ pc[d] = "bind" /\ pc' = [pc EXCEPT ![d] = "init"] /\ path = Nobody /\ path' = d
        /\ lockFile' = lockFile /\ inodes' = inodes /\ lockFd' = lockFd /\ order' = order
    BY <1>2 DEF GoTo
  <2>2. StartTypes' BY <2>1 DEF IInv, StartTypes, Places, Locked, Bound
  <2>3. \A e \in Daemons : e # d => pc'[e] = pc[e] BY <2>1 DEF IInv, StartTypes
  <2>4. pc[d] \in Locked BY <2>1 DEF Locked
  <2>5. HasOpened' BY <2>1, <2>3, <2>4 DEF IInv, HasOpened
  <2>6. Apart' BY <2>1, <2>3, <2>4 DEF IInv, Apart
  <2>7. LockKept' = LockKept /\ Newest' = Newest BY <2>1 DEF LockKept, Newest
  <2>8. \A e \in Daemons : path # e BY <2>1, DaemonAssumption
  <2>9. NewestServes' BY <2>1, <2>3, <2>7, <2>8 DEF IInv, NewestServes, Alive
  <2> QED BY <2>2, <2>5, <2>6, <2>9 DEF IInv
<1> QED BY <1>1, <1>2 DEF Bind

LEMMA ServeInv == ASSUME IInv, NEW d \in Daemons, Serve(d) PROVE IInv'
<1> USE DEF Places, Locked, Bound, Loop
<1>1. CASE Prepare(d)
  BY <1>1, EndsInv, GoesOnInv DEF Prepare, GoTo
<1>2. CASE Exit(d)
  BY <1>2, EndsInv DEF Exit
<1>3. CASE Test(d)
  BY <1>3, GoesOnInv DEF Test, GoTo
<1>4. CASE Wait(d)
  BY <1>4, GoesOnInv DEF Wait, GoTo
<1>5. CASE Accept(d)
  BY <1>5, GoesOnInv DEF Accept, GoTo
<1>6. CASE Read(d)
  BY <1>6, GoesOnInv DEF Read, GoTo
<1>7. CASE Inject(d)
  BY <1>7, GoesOnInv, RestsInv DEF Inject, GoTo
<1> QED BY <1>1, <1>2, <1>3, <1>4, <1>5, <1>6, <1>7 DEF Serve

LEMMA HandleInv == ASSUME IInv, NEW d \in Daemons, Handle(d) PROVE IInv'
<1> USE DEF Places, Locked, Bound, Loop
<1>1. CASE Ends(d) /\ UNCHANGED path BY <1>1, EndsInv
<1>2. CASE pc[d] = "sigprocmask" /\ UNCHANGED <<startVars, pc>> BY <1>2, RestsInv
<1>3. CASE pc[d] = "wait" /\ pc' \in Woken(d) /\ UNCHANGED startVars
  BY <1>3, GoesOnInv DEF Woken
<1> QED BY <1>1, <1>2, <1>3 DEF Handle

\* Only those who hold a lock file see it go.
LEMMA RemoveLockInv == ASSUME IInv, RemoveLock PROVE IInv'
<1>1. /\ lockFile # 0 /\ lockFile' = 0 /\ inodes' = inodes /\ lockFd' = lockFd /\ path' = path
      /\ order' = order /\ pc' = pc
  BY DEF RemoveLock, NoInode
<1>2. StartTypes' BY <1>1 DEF IInv, StartTypes
<1>3. HasOpened' /\ Apart' BY <1>1 DEF IInv, HasOpened, Apart
<1>4. ~LockKept' BY <1>1 DEF IInv, StartTypes, LockKept
<1>5. NewestServes'
  BY <1>1, <1>4 DEF IInv, NewestServes, Alive, Newest, LockKept
<1> QED BY <1>2, <1>3, <1>5 DEF IInv

LEMMA StepInv == ASSUME IInv, [Next]_vars PROVE IInv'
<1>1. ASSUME NEW d \in Daemons, Work(d) PROVE IInv'
  BY <1>1, OpenLockInv, FlockInv, UnlinkInv, BindInv, ServeInv DEF Work, StartUp
<1>2. ASSUME NEW d \in Daemons, Handle(d) PROVE IInv'
  BY <1>2, HandleInv
<1>3. ASSUME NEW d \in Daemons, Start(d) PROVE IInv'
  BY <1>3, GoesOnInv DEF Start, GoTo, Places, Locked, Bound, Loop
<1>4. ASSUME NEW d \in Daemons, Terminate(d) \/ Kill(d) PROVE IInv'
  BY <1>4, RestsInv, EndsInv DEF Terminate, Kill
<1>5. CASE TryConnect \/ Connected \/ HelloFails \/ SendFails \/ RestartFcitx \/ Tick
  BY <1>5, RestsInv DEF TryConnect, Connected, HelloFails, SendFails, RestartFcitx, Tick
<1>6. ASSUME NEW n \in Counts, Send(n) PROVE IInv'
  BY <1>6, RestsInv DEF Send
<1>7. CASE UNCHANGED vars
  BY <1>7, RestsInv DEF vars
<1> QED BY <1>1, <1>2, <1>3, <1>4, <1>5, <1>6, <1>7, RemoveLockInv DEF Next

\* The inductive invariant of the daemons' start: no two of them hold one lock
\* file.
THEOREM Invariance == Spec => []IInv
BY InitInv, StepInv, PTL DEF Spec

\* For any number of daemons: the path leads to every daemon that listens, and
\* there is one such daemon at most, unless the lock file was removed (#107);
\* then a daemon gives way to one that starts later, never to one that ends
\* (#113).
THEOREM PathLeadsToNewest == Spec => []NewestServes
<1>1. IInv => NewestServes BY DEF IInv
<1> QED BY <1>1, Invariance, PTL

\* While nobody removes the lock file, two daemons never listen at once.
THEOREM OneDaemon == Spec => [](LockKept => \A d, e \in Daemons : Alive(d) /\ Alive(e) => d = e)
<1>1. IInv => (LockKept => \A d, e \in Daemons : Alive(d) /\ Alive(e) => d = e)
  BY DEF IInv, NewestServes
<1> QED BY <1>1, Invariance, PTL

-----------------------------------------------------------------------------
(***************************************************************************)
(* The connection the addon relies on is the one the daemon serves. A      *)
(* connection is either in the backlog of its daemon, without a hello, or  *)
(* it has one and is, or was, that daemon's client; and the addon has only *)
(* one connection open, so a daemon that is alive cannot have turned to    *)
(* another one that the addon means.                                       *)
(***************************************************************************)
Connection ==
  [to : Daemons \cup {Nobody}, open : BOOLEAN, hello : BOOLEAN, reqs : Seq(Nat)]

LinkTypes ==
  /\ backlog \in [Daemons -> Seq(Conns)]
  /\ client \in [Daemons -> Conns \cup {NoConn}]
  /\ revents \in [Daemons -> SUBSET {"POLLIN", "DATA"}]
  /\ conn \in [Conns -> Connection]
  /\ fd \in Conns \cup {NoConn} /\ greeted \in Conns \cup {NoConn}

\* A daemon that does not listen has no connection; a poll result outlives
\* no connection it has reported.
OnlyListenersHave ==
  /\ \A d \in Daemons : pc[d] \notin Bound => backlog[d] = <<>> /\ client[d] = NoConn
  /\ \A d \in Daemons : pc[d] = "accept" /\ "POLLIN" \in revents[d] => backlog[d] # <<>>
  /\ \A k \in Conns : conn[k].to # Nobody => pc[conn[k].to] \in Bound \cup {"gone"}

\* The two ends of a connection agree.
EndsAgree ==
  /\ \A d \in Daemons : \A i \in DOMAIN backlog[d] :
       conn[backlog[d][i]].to = d /\ ~conn[backlog[d][i]].hello
  /\ \A d \in Daemons : \A i, j \in DOMAIN backlog[d] : backlog[d][i] = backlog[d][j] => i = j
  /\ \A d \in Daemons : client[d] # NoConn => conn[client[d]].to = d /\ conn[client[d]].hello

\* The addon has one connection open at most.
OneOpen ==
  /\ \A k \in Conns : conn[k].open => k \in {fd, greeted}
  /\ fd # NoConn => greeted = NoConn /\ conn[fd].open /\ conn[fd].hello
  /\ greeted # NoConn => conn[greeted].open

\* It is served from its hello on.
GreetedIsServed ==
  \A k \in Conns :
    conn[k].open /\ conn[k].hello /\ Alive(conn[k].to) => client[conn[k].to] = k

Linked == LinkTypes /\ OnlyListenersHave /\ EndsAgree /\ OneOpen /\ GreetedIsServed

LEMMA UnusedConnection ==
  /\ Unused \in Connection
  /\ Unused.to = Nobody /\ ~Unused.open /\ ~Unused.hello /\ Unused.reqs = <<>>
<1>1. <<>> \in Seq(Nat)
  BY EmptySeq
<1>. QED  BY <1>1 DEF Unused, Connection

LEMMA ConnectionFields ==
  ASSUME LinkTypes, NEW k \in Conns
  PROVE  /\ conn[k].to \in Daemons \cup {Nobody} /\ conn[k].open \in BOOLEAN
         /\ conn[k].hello \in BOOLEAN /\ conn[k].reqs \in Seq(Nat)
  BY DEF LinkTypes, Connection

LEMMA WaitingConnections ==
  ASSUME LinkTypes, NEW d \in Daemons
  PROVE  /\ DOMAIN backlog[d] = 1 .. Len(backlog[d]) /\ Len(backlog[d]) \in Nat
         /\ \A i \in DOMAIN backlog[d] : backlog[d][i] \in Conns
<1>1. backlog[d] \in Seq(Conns)
  BY DEF LinkTypes
<1>. QED  BY <1>1, LenProperties, ElementOfSeq

LEMMA InitLinked == Init => Linked
<1>. SUFFICES ASSUME Init PROVE Linked
  OBVIOUS
<1>1. LinkTypes
  <2>1. <<>> \in Seq(Conns)
    BY EmptySeq
  <2>. QED  BY <2>1, UnusedConnection DEF Init, LinkTypes
<1>2. \A d \in Daemons : DOMAIN backlog[d] = {}
  BY EmptySeq, LenProperties DEF Init
<1>3. \A k \in Conns : conn[k] = Unused /\ ~conn[k].open /\ conn[k].to = Nobody
  BY DEF Init, Unused
<1>. QED  BY <1>1, <1>2, <1>3 DEF Init, Linked, OnlyListenersHave, EndsAgree, OneOpen,
                                 GreetedIsServed, Bound, Loop

\* A process that ends takes its connections with it, but for the end that
\* the addon still holds.
LEMMA EndsLinked ==
  ASSUME IInv, Linked, NEW d \in Daemons, Ends(d)
  PROVE  Linked'
<1>. USE DEF Linked
<1>1. /\ pc'[d] = "gone" /\ backlog'[d] = <<>> /\ client'[d] = NoConn /\ revents'[d] = {}
      /\ \A e \in Daemons : e # d => /\ pc'[e] = pc[e] /\ backlog'[e] = backlog[e]
                                     /\ client'[e] = client[e] /\ revents'[e] = revents[e]
      /\ \A k \in Conns :
           conn'[k] = IF conn[k].to = d /\ ~conn[k].open THEN Unused ELSE conn[k]
      /\ fd' = fd /\ greeted' = greeted
  BY DEF Ends, LinkTypes, IInv, StartTypes, clientVars
<1>2. LinkTypes'
  <2>1. <<>> \in Seq(Conns)
    BY EmptySeq
  <2>. QED  BY <1>1, <2>1, UnusedConnection DEF Ends, LinkTypes
<1>3. \A k \in Conns : (conn'[k].open <=> conn[k].open) /\ (conn'[k].open => conn'[k] = conn[k])
  BY <1>1, UnusedConnection, ConnectionFields
<1>4. \A k \in Conns : conn[k].to # d => conn'[k] = conn[k]
  BY <1>1
<1>5. "gone" \notin Bound /\ DOMAIN <<>> = {}
  BY DEF Bound, Loop
<1>6. \A k \in Conns : conn'[k].to # Nobody => conn'[k] = conn[k]
  BY <1>1, UnusedConnection
<1>7. OnlyListenersHave'
  <2>1. \A e \in Daemons : pc'[e] \notin Bound => backlog'[e] = <<>> /\ client'[e] = NoConn
    BY <1>1 DEF OnlyListenersHave
  <2>2. \A e \in Daemons : pc'[e] = "accept" /\ "POLLIN" \in revents'[e] => backlog'[e] # <<>>
    BY <1>1 DEF OnlyListenersHave
  <2>3. ASSUME NEW k \in Conns, conn'[k].to # Nobody
        PROVE  pc'[conn'[k].to] \in Bound \cup {"gone"}
    <3>1. conn'[k] = conn[k] /\ conn[k].to \in Daemons
      BY <1>6, <2>3, ConnectionFields
    <3>. QED  BY <1>1, <2>3, <3>1 DEF OnlyListenersHave
  <2>. QED  BY <2>1, <2>2, <2>3 DEF OnlyListenersHave
<1>8. EndsAgree'
  <2>1. ASSUME NEW e \in Daemons, NEW i \in DOMAIN backlog'[e]
        PROVE  conn'[backlog'[e][i]].to = e /\ ~conn'[backlog'[e][i]].hello
    <3>1. e # d /\ backlog'[e] = backlog[e]
      BY <1>1, <1>5, <2>1
    <3>2. backlog[e][i] \in Conns /\ conn[backlog[e][i]].to = e /\ ~conn[backlog[e][i]].hello
      BY <2>1, <3>1, WaitingConnections DEF EndsAgree
    <3>. QED  BY <1>4, <3>1, <3>2
  <2>2. \A e \in Daemons : \A i, j \in DOMAIN backlog'[e] : backlog'[e][i] = backlog'[e][j] => i = j
    BY <1>1, <1>5 DEF EndsAgree
  <2>3. ASSUME NEW e \in Daemons, client'[e] # NoConn
        PROVE  conn'[client'[e]].to = e /\ conn'[client'[e]].hello
    <3>1. e # d /\ client'[e] = client[e]
      BY <1>1, <2>3
    <3>2. client[e] \in Conns /\ conn[client[e]].to = e /\ conn[client[e]].hello
      BY <2>3, <3>1 DEF EndsAgree, LinkTypes
    <3>. QED  BY <1>4, <3>1, <3>2
  <2>. QED  BY <2>1, <2>2, <2>3 DEF EndsAgree
<1>9. OneOpen'
  BY <1>1, <1>3 DEF OneOpen, LinkTypes
<1>10. GreetedIsServed'
  <2>1. ASSUME NEW k \in Conns, conn'[k].open, conn'[k].hello, Alive(conn[k].to)', conn[k].to \in Daemons
        PROVE  client'[conn'[k].to] = k
    <3>1. conn'[k] = conn[k] /\ conn[k].to # d
      BY <1>1, <1>3, <1>5, <2>1 DEF Alive
    <3>2. Alive(conn[k].to)
      BY <1>1, <2>1, <3>1 DEF Alive
    <3>. QED  BY <1>1, <2>1, <3>1, <3>2 DEF GreetedIsServed
  <2>2. ASSUME NEW k \in Conns, conn'[k].open, Alive(conn[k].to)'
        PROVE  conn[k].to \in Daemons
    BY <1>3, <2>2, ConnectionFields DEF Alive
  <2>. QED  BY <2>1, <2>2 DEF GreetedIsServed
<1>. QED  BY <1>2, <1>7, <1>8, <1>9, <1>10

\* A process that goes on elsewhere in main, and has no result of ppoll.
LEMMA MovesLinked ==
  ASSUME IInv, Linked, NEW d \in Daemons, NEW p \in Places,
         pc' = [pc EXCEPT ![d] = p] \/ pc' = pc,
         p # "accept", p # "gone", pc[d] # "gone",
         p \in Bound => pc[d] \in Bound \cup {"bind"},
         pc[d] \in Bound => p \in Bound,
         revents' = revents \/ revents' = [revents EXCEPT ![d] = {}],
         UNCHANGED <<backlog, client, conn, fd, greeted>>
  PROVE  Linked'
<1>. USE DEF Linked
<1>1. /\ \A e \in Daemons : e # d => pc'[e] = pc[e]
      /\ pc'[d] = p \/ pc'[d] = pc[d]
      /\ \A e \in Daemons : revents'[e] \in {revents[e], {}}
      /\ backlog' = backlog /\ client' = client /\ conn' = conn /\ fd' = fd /\ greeted' = greeted
  BY DEF LinkTypes, IInv, StartTypes
<1>2. "bind" \notin Bound /\ "gone" \notin Bound /\ "bind" # "gone"
  BY DEF Bound, Loop
<1>3. LinkTypes'
  BY <1>1 DEF LinkTypes
<1>4. OnlyListenersHave'
  <2>1. \A e \in Daemons : pc'[e] \notin Bound => backlog'[e] = <<>> /\ client'[e] = NoConn
    BY <1>1, <1>2 DEF OnlyListenersHave
  <2>2. \A e \in Daemons : pc'[e] = "accept" /\ "POLLIN" \in revents'[e] => backlog'[e] # <<>>
    BY <1>1 DEF OnlyListenersHave
  <2>3. ASSUME NEW k \in Conns, conn'[k].to # Nobody
        PROVE  pc'[conn'[k].to] \in Bound \cup {"gone"}
    <3>1. conn'[k] = conn[k] /\ conn[k].to \in Daemons
      BY <1>1, <2>3, ConnectionFields
    <3>2. pc[conn[k].to] \in Bound \cup {"gone"}
      BY <2>3, <3>1 DEF OnlyListenersHave
    <3>. QED  BY <1>1, <3>1, <3>2
  <2>. QED  BY <2>1, <2>2, <2>3 DEF OnlyListenersHave
<1>5. EndsAgree' /\ OneOpen'
  BY <1>1 DEF EndsAgree, OneOpen
<1>6. GreetedIsServed'
  <2>1. ASSUME NEW k \in Conns, Alive(conn[k].to)'
        PROVE  Alive(conn[k].to)
    <3>1. conn'[k] = conn[k] /\ conn[k].to \in Daemons
      BY <1>1, <2>1, ConnectionFields DEF Alive
    <3>2. pc[conn[k].to] \in Bound \cup {"gone"}
      BY <2>1, <3>1 DEF OnlyListenersHave, Alive
    <3>. QED  BY <1>1, <1>2, <2>1, <3>1, <3>2 DEF Alive
  <2>. QED  BY <1>1, <2>1 DEF GreetedIsServed
<1>. QED  BY <1>3, <1>4, <1>5, <1>6

LEMMA RestsLinked ==
  ASSUME Linked, UNCHANGED <<pc, backlog, client, revents, conn, fd, greeted>>
  PROVE  Linked'
  BY DEF Linked, LinkTypes, OnlyListenersHave, EndsAgree, OneOpen, GreetedIsServed, Alive

LEMMA StartLinked ==
  ASSUME IInv, Linked, NEW d \in Daemons, StartUp(d) \/ Start(d)
  PROVE  Linked'
<1>. USE DEF Places, Locked, Bound, Loop
<1>1. CASE Ends(d)
  BY <1>1, EndsLinked
<1>2. CASE ~Ends(d)
  <2>1. /\ UNCHANGED <<backlog, client, revents, conn, fd, greeted>>
        /\ \/ \E p \in {"open", "flock", "unlink", "bind"} :
                pc[d] \notin Bound \cup {"gone"} /\ pc' = [pc EXCEPT ![d] = p]
           \/ pc[d] = "bind" /\ pc' = [pc EXCEPT ![d] = "init"]
    BY <1>2 DEF StartUp, Start, OpenLock, Flock, Unlink, Bind, GoTo, loopVars, clientVars
  <2>. QED  BY <2>1, MovesLinked
<1>. QED  BY <1>1, <1>2

\* A daemon's turn in its loop leaves it listening.
LEMMA TurnOfLoop ==
  ASSUME IInv, NEW d \in Daemons, pc[d] \in Bound, NEW p \in Bound, pc' = [pc EXCEPT ![d] = p]
  PROVE  /\ pc'[d] = p
         /\ \A e \in Daemons : /\ e # d => pc'[e] = pc[e]
                               /\ pc'[e] \in Bound <=> pc[e] \in Bound
                               /\ pc'[e] = "gone" <=> pc[e] = "gone"
<1>1. "gone" \notin Bound
  BY DEF Bound, Loop
<1>. QED  BY <1>1 DEF IInv, StartTypes

LEMMA WaitLinked ==
  ASSUME IInv, Linked, NEW d \in Daemons, Wait(d)
  PROVE  Linked'
<1>. USE DEF Linked
<1>1. /\ pc[d] = "wait" /\ pc' = [pc EXCEPT ![d] = "accept"]
      /\ revents' = [revents EXCEPT ![d] = Ready(d)]
      /\ UNCHANGED <<backlog, client, conn, fd, greeted>>
  BY DEF Wait, GoTo, clientVars
<1>2. /\ pc'[d] = "accept"
      /\ \A e \in Daemons : /\ e # d => pc'[e] = pc[e]
                            /\ pc'[e] \in Bound <=> pc[e] \in Bound
                            /\ pc'[e] = "gone" <=> pc[e] = "gone"
  BY <1>1, TurnOfLoop DEF Bound, Loop
<1>3. Ready(d) \subseteq {"POLLIN", "DATA"} /\ ("POLLIN" \in Ready(d) => backlog[d] # <<>>)
  BY DEF Ready
<1>4. LinkTypes'
  BY <1>1, <1>3 DEF LinkTypes
<1>5. \A e \in Daemons : revents'[e] = IF e = d THEN Ready(d) ELSE revents[e]
  BY <1>1 DEF LinkTypes
<1>6. OnlyListenersHave'
  <2>1. \A e \in Daemons : pc'[e] \notin Bound => backlog'[e] = <<>> /\ client'[e] = NoConn
    BY <1>1, <1>2 DEF OnlyListenersHave
  <2>2. \A e \in Daemons : pc'[e] = "accept" /\ "POLLIN" \in revents'[e] => backlog'[e] # <<>>
    BY <1>1, <1>2, <1>3, <1>5 DEF OnlyListenersHave
  <2>3. ASSUME NEW k \in Conns, conn'[k].to # Nobody
        PROVE  pc'[conn'[k].to] \in Bound \cup {"gone"}
    <3>1. conn'[k] = conn[k] /\ conn[k].to \in Daemons
      BY <1>1, <2>3, ConnectionFields
    <3>. QED  BY <1>2, <2>3, <3>1 DEF OnlyListenersHave
  <2>. QED  BY <2>1, <2>2, <2>3 DEF OnlyListenersHave
<1>7. EndsAgree' /\ OneOpen'
  BY <1>1 DEF EndsAgree, OneOpen
<1>8. GreetedIsServed'
  <2>1. ASSUME NEW k \in Conns, Alive(conn[k].to)'
        PROVE  Alive(conn[k].to)
    <3>1. conn'[k] = conn[k] /\ conn[k].to \in Daemons
      BY <1>1, <2>1, ConnectionFields DEF Alive
    <3>. QED  BY <1>2, <2>1, <3>1 DEF Alive
  <2>. QED  BY <1>1, <2>1 DEF GreetedIsServed
<1>. QED  BY <1>4, <1>6, <1>7, <1>8

\* A turn of the loop that opens no connection, and keeps the two ends of
\* those it leaves open.
LEMMA TurnLinked ==
  ASSUME IInv, Linked, LinkTypes',
         NEW d \in Daemons, pc[d] \in Bound, NEW p \in Bound, p # "accept",
         pc' = [pc EXCEPT ![d] = p], UNCHANGED <<fd, greeted>>,
         \A e \in Daemons : e # d => /\ backlog'[e] = backlog[e] /\ client'[e] = client[e]
                                     /\ revents'[e] = revents[e],
         \A k \in Conns : conn'[k].open <=> conn[k].open,
         \A k \in Conns : conn[k].open => /\ conn'[k].to = conn[k].to
                                          /\ conn[k].hello => conn'[k].hello,
         \A k \in Conns : conn'[k].to \in {conn[k].to, Nobody},
         \A k \in Conns : conn[k].to # d => conn'[k] = conn[k],
         \A i \in DOMAIN backlog'[d] :
           conn'[backlog'[d][i]].to = d /\ ~conn'[backlog'[d][i]].hello,
         \A i, j \in DOMAIN backlog'[d] : backlog'[d][i] = backlog'[d][j] => i = j,
         client'[d] # NoConn => conn'[client'[d]].to = d /\ conn'[client'[d]].hello,
         \A k \in Conns : conn'[k].open /\ conn'[k].hello /\ conn'[k].to = d => client'[d] = k
  PROVE  Linked'
<1>. USE DEF Linked
<1>1. /\ pc'[d] = p
      /\ \A e \in Daemons : /\ e # d => pc'[e] = pc[e]
                            /\ pc'[e] \in Bound <=> pc[e] \in Bound
                            /\ pc'[e] = "gone" <=> pc[e] = "gone"
  BY TurnOfLoop
<1>2. OnlyListenersHave'
  <2>1. \A e \in Daemons : pc'[e] \notin Bound => backlog'[e] = <<>> /\ client'[e] = NoConn
    BY <1>1 DEF OnlyListenersHave
  <2>2. \A e \in Daemons : pc'[e] = "accept" /\ "POLLIN" \in revents'[e] => backlog'[e] # <<>>
    BY <1>1 DEF OnlyListenersHave
  <2>3. ASSUME NEW k \in Conns, conn'[k].to # Nobody
        PROVE  pc'[conn'[k].to] \in Bound \cup {"gone"}
    <3>1. conn'[k].to = conn[k].to /\ conn[k].to \in Daemons
      BY <2>3, ConnectionFields
    <3>. QED  BY <1>1, <2>3, <3>1 DEF OnlyListenersHave
  <2>. QED  BY <2>1, <2>2, <2>3 DEF OnlyListenersHave
<1>3. EndsAgree'
  <2>1. ASSUME NEW e \in Daemons, NEW i \in DOMAIN backlog'[e], e # d
        PROVE  conn'[backlog'[e][i]].to = e /\ ~conn'[backlog'[e][i]].hello
    <3>1. backlog[e][i] \in Conns /\ conn[backlog[e][i]].to = e /\ ~conn[backlog[e][i]].hello
      BY <2>1, WaitingConnections DEF EndsAgree
    <3>. QED  BY <2>1, <3>1
  <2>2. ASSUME NEW e \in Daemons, e # d, client'[e] # NoConn
        PROVE  conn'[client'[e]].to = e /\ conn'[client'[e]].hello
    <3>1. client[e] \in Conns /\ conn[client[e]].to = e /\ conn[client[e]].hello
      BY <2>2 DEF EndsAgree, LinkTypes
    <3>. QED  BY <2>2, <3>1
  <2>3. \A e \in Daemons : \A i, j \in DOMAIN backlog'[e] :
          backlog'[e][i] = backlog'[e][j] => i = j
    BY DEF EndsAgree
  <2>. QED  BY <2>1, <2>2, <2>3 DEF EndsAgree
<1>4. OneOpen'
  <2>1. \A k \in Conns : conn'[k].open => k \in {fd', greeted'}
    BY DEF OneOpen
  <2>2. fd' # NoConn => greeted' = NoConn /\ conn'[fd'].open /\ conn'[fd'].hello
    BY DEF OneOpen, LinkTypes
  <2>3. greeted' # NoConn => conn'[greeted'].open
    BY DEF OneOpen, LinkTypes
  <2>. QED  BY <2>1, <2>2, <2>3 DEF OneOpen
<1>5. GreetedIsServed'
  <2>1. ASSUME NEW k \in Conns, conn'[k].open, conn'[k].hello, Alive(conn[k].to)', conn'[k].to # d
        PROVE  client'[conn'[k].to] = k
    <3>1. conn'[k] = conn[k] /\ conn[k].to \in Daemons
      BY <2>1, ConnectionFields DEF Alive
    <3>2. Alive(conn[k].to)
      BY <1>1, <2>1, <3>1 DEF Alive
    <3>. QED  BY <2>1, <3>1, <3>2 DEF GreetedIsServed
  <2>. QED  BY <2>1 DEF GreetedIsServed
<1>. QED  BY <1>2, <1>3, <1>4, <1>5

\* The next connection of a backlog.
LEMMA NextInBacklog ==
  ASSUME Linked, NEW d \in Daemons, backlog[d] # <<>>
  PROVE  LET k == Head(backlog[d])
             rest == Tail(backlog[d]) IN
         /\ k \in Conns /\ conn[k].to = d /\ ~conn[k].hello /\ client[d] # k
         /\ rest \in Seq(Conns)
         /\ \A i \in DOMAIN rest :
              /\ rest[i] \in Conns /\ rest[i] # k /\ rest[i] # client[d]
              /\ conn[rest[i]].to = d /\ ~conn[rest[i]].hello
         /\ \A i, j \in DOMAIN rest : rest[i] = rest[j] => i = j
<1>. USE DEF Linked
<1>. DEFINE q == backlog[d]
            n == Len(q)
<1>1. /\ q \in Seq(Conns) /\ n \in Nat /\ n >= 1 /\ DOMAIN q = 1 .. n
      /\ \A i \in 1 .. n : q[i] \in Conns
  BY WaitingConnections, EmptySeq, LenProperties DEF LinkTypes
<1>2. /\ Head(q) = q[1] /\ Tail(q) \in Seq(Conns) /\ DOMAIN Tail(q) = 1 .. n - 1
      /\ \A i \in 1 .. n - 1 : Tail(q)[i] = q[i + 1]
  BY <1>1, HeadTailProperties, LenProperties
<1>3. /\ \A i \in 1 .. n : conn[q[i]].to = d /\ ~conn[q[i]].hello /\ q[i] # client[d]
      /\ \A i, j \in 1 .. n : q[i] = q[j] => i = j
  <2>1. \A i \in 1 .. n : conn[q[i]].to = d /\ ~conn[q[i]].hello
    BY <1>1 DEF EndsAgree
  <2>2. \A i \in 1 .. n : q[i] # client[d]
    BY <1>1, <2>1, DaemonAssumption DEF EndsAgree
  <2>. QED  BY <1>1, <2>1, <2>2 DEF EndsAgree
<1>. HIDE DEF q, n
<1>4. 1 \in 1 .. n /\ \A i \in 1 .. n - 1 : i + 1 \in 1 .. n /\ i + 1 # 1
  BY <1>1
<1>5. \A i \in 1 .. n - 1 : q[i + 1] # q[1]
  BY <1>3, <1>4
<1>6. \A i, j \in 1 .. n - 1 : q[i + 1] = q[j + 1] => i = j
  BY <1>1, <1>3, <1>4
<1>. QED  BY <1>1, <1>2, <1>3, <1>4, <1>5, <1>6 DEF q, n

LEMMA AcceptLinked ==
  ASSUME IInv, Linked, NEW d \in Daemons, Accept(d)
  PROVE  Linked'
<1>. USE DEF Linked
<1>. DEFINE q == backlog[d]
            k == Head(q)
            m == client[d]
<1>1. /\ pc[d] = "accept" /\ pc' = [pc EXCEPT ![d] = "read"]
      /\ UNCHANGED <<revents, fd, greeted>>
  BY DEF Accept, GoTo, clientVars
<1>2. pc[d] \in Bound /\ "read" \in Bound /\ "read" # "accept" /\ "read" # "gone" /\ "read" \in Places
  BY <1>1 DEF Bound, Loop, Places, Locked
<1>3. CASE UNCHANGED <<backlog, client, conn>>
  BY <1>1, <1>2, <1>3, MovesLinked DEF Bound, Loop
<1>4. CASE "POLLIN" \in revents[d] /\ backlog' = [backlog EXCEPT ![d] = Tail(@)]
  <2>1. q # <<>>
    BY <1>1, <1>4 DEF OnlyListenersHave
  <2>2. /\ k \in Conns /\ conn[k].to = d /\ ~conn[k].hello /\ m # k
        /\ Tail(q) \in Seq(Conns)
        /\ \A i \in DOMAIN Tail(q) :
             /\ Tail(q)[i] \in Conns /\ Tail(q)[i] # k /\ Tail(q)[i] # m
             /\ conn[Tail(q)[i]].to = d /\ ~conn[Tail(q)[i]].hello
        /\ \A i, j \in DOMAIN Tail(q) : Tail(q)[i] = Tail(q)[j] => i = j
    BY <2>1, NextInBacklog
  <2>3. /\ backlog'[d] = Tail(q) /\ backlog' \in [Daemons -> Seq(Conns)]
        /\ \A e \in Daemons : e # d => backlog'[e] = backlog[e]
    BY <1>4, <2>2 DEF LinkTypes
  <2>4. m # NoConn => m \in Conns /\ conn[m].to = d /\ conn[m].hello
    BY DEF EndsAgree, LinkTypes
  <2>5. CASE conn[k].open
    <3>1. /\ client' = [client EXCEPT ![d] = k]
          /\ conn' = [Left(m) EXCEPT ![k].hello = TRUE]
      BY <1>3, <1>4, <2>5 DEF Accept
    <3>2. /\ client'[d] = k /\ client' \in [Daemons -> Conns \cup {NoConn}]
          /\ \A e \in Daemons : e # d => client'[e] = client[e]
      BY <2>2, <3>1 DEF LinkTypes
    <3>3. /\ Left(m) \in [Conns -> Connection]
          /\ \A j \in Conns : Left(m)[j] = IF j = m /\ ~conn[m].open THEN Unused ELSE conn[j]
      BY <2>4, UnusedConnection, DaemonAssumption DEF Left, Drop, LinkTypes
    <3>4. /\ [Left(m)[k] EXCEPT !.hello = TRUE] \in Connection
          /\ [Left(m)[k] EXCEPT !.hello = TRUE].to = d
          /\ [Left(m)[k] EXCEPT !.hello = TRUE].hello
          /\ [Left(m)[k] EXCEPT !.hello = TRUE].open
      <4>1. Left(m)[k] = conn[k] /\ conn[k] \in Connection
        BY <2>2, <3>3 DEF LinkTypes
      <4>. QED  BY <2>2, <2>5, <4>1 DEF Connection
    <3>5. /\ conn' \in [Conns -> Connection]
          /\ \A j \in Conns : j # k => conn'[j] = Left(m)[j]
          /\ conn'[k].to = d /\ conn'[k].hello /\ conn'[k].open
      BY <2>2, <3>1, <3>3, <3>4
    <3>6. ASSUME NEW j \in Conns
          PROVE  /\ conn'[j].open <=> conn[j].open
                 /\ conn[j].open => /\ conn'[j].to = conn[j].to
                                    /\ conn[j].hello => conn'[j].hello
                 /\ conn'[j].to \in {conn[j].to, Nobody}
                 /\ conn[j].to # d => conn'[j] = conn[j]
      <4>1. CASE j = k
        BY <2>2, <2>5, <3>5, <4>1
      <4>2. CASE j # k /\ j = m /\ ~conn[m].open
        <5>1. conn'[j] = Unused
          BY <3>3, <3>5, <4>2
        <5>. QED  BY <2>4, <4>2, <5>1, UnusedConnection, DaemonAssumption
      <4>3. CASE j # k /\ ~(j = m /\ ~conn[m].open)
        BY <3>3, <3>5, <4>3
      <4>. QED  BY <4>1, <4>2, <4>3
    <3>7. \A i \in DOMAIN backlog'[d] :
            conn'[backlog'[d][i]].to = d /\ ~conn'[backlog'[d][i]].hello
      BY <2>2, <2>3, <3>3, <3>5
    <3>8. ASSUME NEW j \in Conns, conn'[j].open, conn'[j].hello
          PROVE  j = k
      <4>1. conn[j].open
        BY <3>6, <3>8
      <4>2. k # fd /\ fd \in Conns \cup {NoConn}
        BY <2>2, DaemonAssumption DEF OneOpen, LinkTypes
      <4>3. k = greeted /\ greeted # NoConn
        BY <2>2, <2>5, <4>2, DaemonAssumption DEF OneOpen
      <4>4. fd = NoConn
        BY <4>3 DEF OneOpen
      <4>. QED  BY <4>1, <4>3, <4>4, DaemonAssumption DEF OneOpen
    <3>9. LinkTypes'
      BY <1>1, <2>3, <3>2, <3>5 DEF LinkTypes
    <3>10. \A e \in Daemons : e # d => /\ backlog'[e] = backlog[e] /\ client'[e] = client[e]
                                       /\ revents'[e] = revents[e]
      BY <1>1, <2>3, <3>2
    <3>11. \A i, j \in DOMAIN backlog'[d] : backlog'[d][i] = backlog'[d][j] => i = j
      BY <2>2, <2>3
    <3>12. client'[d] # NoConn => conn'[client'[d]].to = d /\ conn'[client'[d]].hello
      BY <3>2, <3>5
    <3>13. \A j \in Conns : conn'[j].open /\ conn'[j].hello /\ conn'[j].to = d => client'[d] = j
      BY <3>2, <3>8
    <3>. QED  BY <1>1, <1>2, <3>6, <3>7, <3>9, <3>10, <3>11, <3>12, <3>13, TurnLinked
  <2>6. CASE ~conn[k].open
    <3>1. client' = client /\ conn' = Drop(k)
      BY <1>3, <1>4, <2>6 DEF Accept
    <3>2. /\ conn' \in [Conns -> Connection]
          /\ \A j \in Conns : conn'[j] = IF j = k THEN Unused ELSE conn[j]
      BY <2>2, <3>1, UnusedConnection DEF Drop, LinkTypes
    <3>3. /\ \A j \in Conns : conn'[j].open <=> conn[j].open
          /\ \A j \in Conns : conn[j].open => conn'[j] = conn[j]
          /\ \A j \in Conns : conn'[j].to \in {conn[j].to, Nobody}
          /\ \A j \in Conns : conn[j].to # d => conn'[j] = conn[j]
      BY <2>2, <2>6, <3>2, UnusedConnection, ConnectionFields
    <3>4. \A i \in DOMAIN backlog'[d] :
            conn'[backlog'[d][i]].to = d /\ ~conn'[backlog'[d][i]].hello
      BY <2>2, <2>3, <3>2, SMTT(30)
    <3>5. m # NoConn => conn'[m].to = d /\ conn'[m].hello
      BY <2>2, <2>4, <3>2
    <3>6. ASSUME NEW j \in Conns, conn'[j].open, conn'[j].hello, conn'[j].to = d
          PROVE  m = j
      <4>1. conn'[j] = conn[j]
        BY <3>3, <3>6
      <4>2. Alive(d)
        BY <1>2, DaemonAssumption DEF Alive
      <4>. QED  BY <3>6, <4>1, <4>2 DEF GreetedIsServed
    <3>7. LinkTypes'
      BY <1>1, <2>3, <3>1, <3>2 DEF LinkTypes
    <3>8. \A e \in Daemons : e # d => /\ backlog'[e] = backlog[e] /\ client'[e] = client[e]
                                      /\ revents'[e] = revents[e]
      BY <1>1, <2>3, <3>1
    <3>9. \A i, j \in DOMAIN backlog'[d] : backlog'[d][i] = backlog'[d][j] => i = j
      BY <2>2, <2>3
    <3>10. client'[d] # NoConn => conn'[client'[d]].to = d /\ conn'[client'[d]].hello
      BY <3>1, <3>5
    <3>11. \A j \in Conns : conn'[j].open /\ conn'[j].hello /\ conn'[j].to = d => client'[d] = j
      BY <3>1, <3>6
    <3>12. \A j \in Conns : conn[j].open => /\ conn'[j].to = conn[j].to
                                            /\ conn[j].hello => conn'[j].hello
      BY <3>3
    <3>. QED
      BY <1>1, <1>2, <3>3, <3>4, <3>7, <3>8, <3>9, <3>10, <3>11, <3>12, TurnLinked
  <2>. QED  BY <2>5, <2>6
<1>. QED  BY <1>3, <1>4 DEF Accept

LEMMA ReadLinked ==
  ASSUME IInv, Linked, NEW d \in Daemons, Read(d)
  PROVE  Linked'
<1>. USE DEF Linked
<1>. DEFINE k == client[d]
<1>1. /\ pc[d] = "read" /\ \E p \in {"test", "inject"} : pc' = [pc EXCEPT ![d] = p]
      /\ revents' = [revents EXCEPT ![d] = {}] /\ UNCHANGED <<backlog, fd, greeted>>
  BY DEF Read, GoTo, clientVars
<1>2. PICK p \in {"test", "inject"} : pc' = [pc EXCEPT ![d] = p]
  BY <1>1
<1>3. /\ pc[d] \in Bound /\ p \in Bound /\ p # "accept" /\ p # "gone" /\ p \in Places
      /\ pc[d] # "gone"
  BY <1>1, <1>2 DEF Bound, Loop, Places, Locked
<1>4. CASE UNCHANGED <<client, conn>>
  BY <1>1, <1>2, <1>3, <1>4, MovesLinked
<1>5. CASE k # NoConn /\ ~(UNCHANGED <<client, conn>>)
  <2>1. k \in Conns /\ conn[k].to = d /\ conn[k].hello /\ Alive(d)
    BY <1>3, <1>5, DaemonAssumption DEF EndsAgree, LinkTypes, Alive
  <2>2. /\ revents' \in [Daemons -> SUBSET {"POLLIN", "DATA"}]
        /\ \A e \in Daemons : e # d => revents'[e] = revents[e]
    BY <1>1 DEF LinkTypes
  <2>3. \A i \in DOMAIN backlog[d] :
          /\ backlog[d][i] \in Conns /\ backlog[d][i] # k
          /\ conn[backlog[d][i]].to = d /\ ~conn[backlog[d][i]].hello
    BY <2>1, WaitingConnections DEF EndsAgree
  <2>4. \A i, j \in DOMAIN backlog[d] : backlog[d][i] = backlog[d][j] => i = j
    BY DEF EndsAgree
  <2>5. \A j \in Conns : conn[j].open /\ conn[j].hello /\ conn[j].to = d => j = k
    BY <2>1 DEF GreetedIsServed
  <2>6. CASE PeerClosed(k) /\ client' = [client EXCEPT ![d] = NoConn] /\ conn' = Left(k)
    <3>1. ~conn[k].open
      BY <2>6 DEF PeerClosed
    <3>2. /\ conn' \in [Conns -> Connection]
          /\ \A j \in Conns : conn'[j] = IF j = k THEN Unused ELSE conn[j]
      BY <1>5, <2>1, <2>6, <3>1, UnusedConnection DEF Left, Drop, LinkTypes
    <3>3. /\ client' \in [Daemons -> Conns \cup {NoConn}] /\ client'[d] = NoConn
          /\ \A e \in Daemons : e # d => client'[e] = client[e]
      BY <2>6 DEF LinkTypes
    <3>4. /\ \A j \in Conns : conn'[j].open <=> conn[j].open
          /\ \A j \in Conns : conn[j].open => conn'[j] = conn[j]
          /\ \A j \in Conns : conn'[j].to \in {conn[j].to, Nobody}
          /\ \A j \in Conns : conn[j].to # d => conn'[j] = conn[j]
      BY <2>1, <3>1, <3>2, UnusedConnection, ConnectionFields
    <3>5. \A i \in DOMAIN backlog'[d] :
            conn'[backlog'[d][i]].to = d /\ ~conn'[backlog'[d][i]].hello
      BY <1>1, <2>3, <3>2
    <3>6. \A j \in Conns : ~(conn'[j].open /\ conn'[j].hello /\ conn'[j].to = d)
      BY <2>5, <3>1, <3>4
    <3>7. LinkTypes'
      BY <1>1, <2>2, <3>2, <3>3 DEF LinkTypes
    <3>8. \A e \in Daemons : e # d => /\ backlog'[e] = backlog[e] /\ client'[e] = client[e]
                                      /\ revents'[e] = revents[e]
      BY <1>1, <2>2, <3>3
    <3>9. \A i, j \in DOMAIN backlog'[d] : backlog'[d][i] = backlog'[d][j] => i = j
      BY <1>1, <2>4
    <3>10. \A j \in Conns : conn[j].open => /\ conn'[j].to = conn[j].to
                                            /\ conn[j].hello => conn'[j].hello
      BY <3>4
    <3>11. client'[d] # NoConn => conn'[client'[d]].to = d /\ conn'[client'[d]].hello
      BY <3>3
    <3>12. \A j \in Conns : conn'[j].open /\ conn'[j].hello /\ conn'[j].to = d => client'[d] = j
      BY <3>6
    <3>. QED
      BY <1>1, <1>2, <1>3, <3>4, <3>5, <3>7, <3>8, <3>9, <3>10, <3>11, <3>12, TurnLinked
  <2>7. CASE conn[k].reqs # <<>> /\ conn' = [conn EXCEPT ![k].reqs = Tail(@)] /\ client' = client
    <3>. DEFINE c == [conn[k] EXCEPT !.reqs = Tail(conn[k].reqs)]
    <3>1. /\ c \in Connection /\ c.to = conn[k].to /\ (c.open <=> conn[k].open)
          /\ (c.hello <=> conn[k].hello)
      <4>1. conn[k] \in Connection /\ conn[k].reqs \in Seq(Nat)
        BY <2>1, ConnectionFields DEF LinkTypes
      <4>2. Tail(conn[k].reqs) \in Seq(Nat)
        BY <2>7, <4>1, HeadTailProperties
      <4>. QED  BY <4>1, <4>2 DEF Connection
    <3>2. conn' = [conn EXCEPT ![k] = c]
      BY <2>1, <2>7 DEF LinkTypes
    <3>. HIDE DEF c
    <3>3. /\ conn' \in [Conns -> Connection]
          /\ \A j \in Conns : conn'[j] = IF j = k THEN c ELSE conn[j]
      BY <2>1, <3>1, <3>2 DEF LinkTypes
    <3>4. /\ \A j \in Conns : conn'[j].open <=> conn[j].open
          /\ \A j \in Conns : conn'[j].hello <=> conn[j].hello
          /\ \A j \in Conns : conn'[j].to = conn[j].to
          /\ \A j \in Conns : conn[j].to # d => conn'[j] = conn[j]
      BY <2>1, <3>1, <3>3
    <3>5. \A i \in DOMAIN backlog'[d] :
            conn'[backlog'[d][i]].to = d /\ ~conn'[backlog'[d][i]].hello
      BY <1>1, <2>3, <3>4
    <3>6. LinkTypes'
      BY <1>1, <2>2, <2>7, <3>3 DEF LinkTypes
    <3>7. \A e \in Daemons : e # d => /\ backlog'[e] = backlog[e] /\ client'[e] = client[e]
                                      /\ revents'[e] = revents[e]
      BY <1>1, <2>2, <2>7
    <3>8. \A i, j \in DOMAIN backlog'[d] : backlog'[d][i] = backlog'[d][j] => i = j
      BY <1>1, <2>4
    <3>9. client'[d] # NoConn => conn'[client'[d]].to = d /\ conn'[client'[d]].hello
      BY <2>1, <2>7, <3>4
    <3>10. \A j \in Conns : conn'[j].open /\ conn'[j].hello /\ conn'[j].to = d => client'[d] = j
      BY <2>5, <2>7, <3>4
    <3>11. \A j \in Conns : conn[j].open => /\ conn'[j].to = conn[j].to
                                            /\ conn[j].hello => conn'[j].hello
      BY <3>4
    <3>12. \A j \in Conns : conn'[j].to \in {conn[j].to, Nobody}
      BY <3>4
    <3>. QED
      BY <1>1, <1>2, <1>3, <3>4, <3>5, <3>6, <3>7, <3>8, <3>9, <3>10, <3>11, <3>12, TurnLinked
  <2>. QED  BY <1>4, <2>6, <2>7 DEF Read
<1>. QED  BY <1>4, <1>5 DEF Read

LEMMA ServeLinked ==
  ASSUME IInv, Linked, NEW d \in Daemons, Serve(d) \/ Handle(d)
  PROVE  Linked'
<1>. USE DEF Places, Locked, Bound, Loop
<1>1. CASE Ends(d)
  BY <1>1, EndsLinked
<1>2. CASE Prepare(d) /\ ~Ends(d)
  BY <1>2, MovesLinked DEF Prepare, GoTo, loopVars, clientVars
<1>3. CASE Test(d)
  BY <1>3, MovesLinked DEF Test, GoTo, loopVars, clientVars
<1>4. CASE Inject(d)
  BY <1>4, MovesLinked, RestsLinked DEF Inject, GoTo, clientVars
<1>5. CASE Handle(d) /\ ~Ends(d)
  BY <1>5, MovesLinked, RestsLinked DEF Handle, Woken, loopVars, clientVars
<1>. QED  BY <1>1, <1>2, <1>3, <1>4, <1>5, WaitLinked, AcceptLinked, ReadLinked DEF Serve, Exit

\* The client's close: nobody has the connection when both ends are closed.
LEMMA ShutConnection ==
  ASSUME Linked, NEW k \in Conns
  PROVE  /\ Shut(k) \in Connection /\ ~Shut(k).open
         /\ Shut(k).to \in {conn[k].to, Nobody}
         /\ \/ Shut(k).to = conn[k].to /\ (Shut(k).hello <=> conn[k].hello)
            \/ \A d \in Daemons :
                 client[d] # k /\ \A i \in DOMAIN backlog[d] : backlog[d][i] # k
<1>. USE DEF Linked
<1>1. conn[k] \in Connection
  BY DEF LinkTypes
<1>2. CASE ~Closed(k)
  <2>1. Shut(k) = [conn[k] EXCEPT !.open = FALSE]
    BY <1>2 DEF Shut
  <2>. QED  BY <1>1, <2>1 DEF Connection
<1>3. CASE Closed(k)
  <2>1. Shut(k) = Unused
    BY <1>3 DEF Shut
  <2>2. ASSUME NEW d \in Daemons
        PROVE  client[d] # k /\ \A i \in DOMAIN backlog[d] : backlog[d][i] # k
    <3>1. d # Nobody /\ k # NoConn
      BY DaemonAssumption
    <3>2. CASE ~Alive(conn[k].to)
      <4>1. \A e \in Daemons : e = conn[k].to => backlog[e] = <<>> /\ client[e] = NoConn
        BY <3>2, DaemonAssumption DEF Alive, OnlyListenersHave
      <4>2. \A e \in Daemons : e = conn[k].to => DOMAIN backlog[e] = {}
        BY <4>1, WaitingConnections
      <4>. QED  BY <3>1, <4>1, <4>2 DEF EndsAgree
    <3>3. CASE k # client[conn[k].to] /\ conn[k].hello
      BY <3>1, <3>3 DEF EndsAgree
    <3>. QED  BY <1>3, <3>2, <3>3 DEF Closed
  <2>. QED  BY <2>1, <2>2, UnusedConnection
<1>. QED  BY <1>2, <1>3

\* The addon closes the connections of a set, the one it relies on or waits
\* for among them if it forgets that.
LEMMA ShutsLinked ==
  ASSUME Linked, NEW S \in SUBSET Conns,
         \A k \in Conns : conn'[k] = IF k \in S THEN Shut(k) ELSE conn[k],
         conn' = [k \in Conns |-> conn'[k]],
         UNCHANGED <<pc, backlog, client, revents>>,
         fd' \in {fd, NoConn}, greeted' \in {greeted, NoConn},
         fd' \notin S, greeted' \notin S,
         \A k \in Conns : conn[k].open => k \in S \cup {fd', greeted'}
  PROVE  Linked'
<1>. USE DEF Linked
<1>1. \A k \in S : /\ Shut(k) \in Connection /\ ~Shut(k).open
                   /\ Shut(k).to \in {conn[k].to, Nobody}
                   /\ \/ Shut(k).to = conn[k].to /\ (Shut(k).hello <=> conn[k].hello)
                      \/ \A d \in Daemons :
                           client[d] # k /\ \A i \in DOMAIN backlog[d] : backlog[d][i] # k
  BY ShutConnection
<1>2. /\ \A k \in Conns : k \notin S => conn'[k] = conn[k]
      /\ \A k \in Conns : conn'[k].open => k \notin S /\ conn'[k] = conn[k]
      /\ \A k \in Conns : conn'[k].to \in {conn[k].to, Nobody}
  BY <1>1
<1>3. LinkTypes'
  <2>1. \A k \in Conns : conn'[k] \in Connection
    BY <1>1 DEF LinkTypes
  <2>2. conn' \in [Conns -> Connection]
    BY <2>1
  <2>. QED  BY <2>2 DEF LinkTypes
<1>4. OnlyListenersHave'
  <2>1. ASSUME NEW k \in Conns, conn'[k].to # Nobody
        PROVE  pc'[conn'[k].to] \in Bound \cup {"gone"}
    BY <1>2, <2>1 DEF OnlyListenersHave
  <2>. QED  BY <2>1 DEF OnlyListenersHave
<1>5. EndsAgree'
  <2>1. ASSUME NEW d \in Daemons, NEW k \in Conns,
               client[d] = k \/ \E i \in DOMAIN backlog[d] : backlog[d][i] = k
        PROVE  conn'[k].to = conn[k].to /\ (conn'[k].hello <=> conn[k].hello)
    BY <1>1, <2>1
  <2>2. ASSUME NEW d \in Daemons, NEW i \in DOMAIN backlog[d]
        PROVE  conn'[backlog[d][i]].to = d /\ ~conn'[backlog[d][i]].hello
    BY <2>1, WaitingConnections DEF EndsAgree
  <2>3. ASSUME NEW d \in Daemons, client[d] # NoConn
        PROVE  conn'[client[d]].to = d /\ conn'[client[d]].hello
    <3>1. client[d] \in Conns
      BY <2>3 DEF LinkTypes
    <3>. QED  BY <2>1, <2>3, <3>1 DEF EndsAgree
  <2>. QED  BY <2>2, <2>3 DEF EndsAgree
<1>6. OneOpen'
  <2>1. \A k \in Conns : conn'[k].open => k \in {fd', greeted'}
    BY <1>2
  <2>2. fd' # NoConn => greeted' = NoConn /\ conn'[fd'].open /\ conn'[fd'].hello
    BY <1>2 DEF OneOpen, LinkTypes
  <2>3. greeted' # NoConn => conn'[greeted'].open
    BY <1>2 DEF OneOpen, LinkTypes
  <2>. QED  BY <2>1, <2>2, <2>3 DEF OneOpen
<1>7. GreetedIsServed'
  BY <1>2 DEF GreetedIsServed, Alive
<1>. QED  BY <1>3, <1>4, <1>5, <1>6, <1>7

LEMMA GivenUpLinked ==
  ASSUME IInv, Linked, HelloFails \/ SendFails \/ RestartFcitx
  PROVE  Linked'
<1>. USE DEF Linked
<1>0. UNCHANGED <<pc, backlog, client, revents>> /\ NoConn \notin Conns
  BY DaemonAssumption DEF HelloFails, SendFails, RestartFcitx, loopVars
<1>1. CASE HelloFails
  <2>1. /\ greeted # NoConn /\ conn' = [conn EXCEPT ![greeted] = Shut(greeted)]
        /\ greeted' = NoConn /\ fd' = fd
    BY <1>1 DEF HelloFails
  <2>2. greeted \in Conns /\ fd = NoConn /\ {greeted} \in SUBSET Conns
    BY <2>1 DEF LinkTypes, OneOpen
  <2>3. /\ \A k \in Conns : conn'[k] = IF k \in {greeted} THEN Shut(k) ELSE conn[k]
        /\ conn' = [k \in Conns |-> conn'[k]]
    BY <2>1, <2>2 DEF LinkTypes
  <2>4. \A k \in Conns : conn[k].open => k \in {greeted} \cup {fd', greeted'}
    BY <2>1 DEF OneOpen
  <2>5. fd' \notin {greeted} /\ greeted' \notin {greeted}
    BY <2>1, <2>2
  <2>. QED  BY <1>0, <2>1, <2>2, <2>3, <2>4, <2>5, ShutsLinked
<1>2. CASE SendFails
  <2>1. /\ fd # NoConn /\ conn' = [conn EXCEPT ![fd] = Shut(fd)]
        /\ fd' = NoConn /\ greeted' = greeted
    BY <1>2 DEF SendFails
  <2>2. fd \in Conns /\ greeted = NoConn /\ {fd} \in SUBSET Conns
    BY <2>1 DEF LinkTypes, OneOpen
  <2>3. /\ \A k \in Conns : conn'[k] = IF k \in {fd} THEN Shut(k) ELSE conn[k]
        /\ conn' = [k \in Conns |-> conn'[k]]
    BY <2>1, <2>2 DEF LinkTypes
  <2>4. \A k \in Conns : conn[k].open => k \in {fd} \cup {fd', greeted'}
    BY <2>1 DEF OneOpen
  <2>5. fd' \notin {fd} /\ greeted' \notin {fd}
    BY <2>1, <2>2
  <2>. QED  BY <1>0, <2>1, <2>2, <2>3, <2>4, <2>5, ShutsLinked
<1>3. CASE RestartFcitx
  <2>. DEFINE S == {k \in Conns : conn[k].open}
  <2>1. /\ conn' = [k \in Conns |-> IF conn[k].open THEN Shut(k) ELSE conn[k]]
        /\ fd' = NoConn /\ greeted' = NoConn
    BY <1>3 DEF RestartFcitx
  <2>2. S \in SUBSET Conns /\ NoConn \notin S
    BY <1>0
  <2>3. /\ \A k \in Conns : conn'[k] = IF k \in S THEN Shut(k) ELSE conn[k]
        /\ conn' = [k \in Conns |-> conn'[k]]
    BY <2>1
  <2>4. \A k \in Conns : conn[k].open => k \in S \cup {fd', greeted'}
    OBVIOUS
  <2>. HIDE DEF S
  <2>. QED  BY <1>0, <2>1, <2>2, <2>3, <2>4, ShutsLinked
<1>. QED  BY <1>1, <1>2, <1>3

LEMMA TryConnectLinked ==
  ASSUME IInv, Linked, TryConnect
  PROVE  Linked'
<1>. USE DEF Linked
<1>1. fd = NoConn /\ greeted = NoConn /\ UNCHANGED <<pc, client, revents, fd>>
  BY DEF TryConnect
<1>2. CASE ~Alive(path)
  BY <1>1, <1>2, RestsLinked DEF TryConnect
<1>3. CASE Alive(path)
  <2>. DEFINE d == path
              c == [Unused EXCEPT !.to = d, !.open = TRUE]
  <2>1. d \in Daemons /\ pc[d] \in Bound
    BY <1>3 DEF Alive, IInv, StartTypes
  <2>2. PICK k \in Conns :
          /\ conn[k] = Unused
          /\ conn' = [conn EXCEPT ![k] = c]
          /\ backlog' = [backlog EXCEPT ![d] = Append(@, k)]
          /\ greeted' = k
    BY <1>3 DEF TryConnect
  <2>3. c \in Connection /\ c.to = d /\ c.open /\ ~c.hello
    BY <2>1, EmptySeq DEF Unused, Connection
  <2>. HIDE DEF c
  <2>4. /\ conn' \in [Conns -> Connection]
        /\ \A j \in Conns : conn'[j] = IF j = k THEN c ELSE conn[j]
    BY <2>2, <2>3 DEF LinkTypes
  <2>5. /\ Append(backlog[d], k) \in Seq(Conns)
        /\ DOMAIN Append(backlog[d], k) = 1 .. Len(backlog[d]) + 1
        /\ DOMAIN backlog[d] = 1 .. Len(backlog[d]) /\ Len(backlog[d]) \in Nat
        /\ \A i \in 1 .. Len(backlog[d]) : Append(backlog[d], k)[i] = backlog[d][i]
        /\ Append(backlog[d], k)[Len(backlog[d]) + 1] = k
        /\ Append(backlog[d], k) # <<>>
    BY <2>1, AppendProperties, LenProperties DEF LinkTypes
  <2>6. /\ backlog' \in [Daemons -> Seq(Conns)] /\ backlog'[d] = Append(backlog[d], k)
        /\ \A e \in Daemons : e # d => backlog'[e] = backlog[e]
    BY <2>1, <2>2, <2>5 DEF LinkTypes
  <2>7. conn[k].to = Nobody /\ ~conn[k].open /\ k # NoConn
    BY <2>2, UnusedConnection, DaemonAssumption
  <2>8. \A e \in Daemons : /\ client[e] # k
                           /\ \A i \in DOMAIN backlog[e] : /\ backlog[e][i] # k
                                                           /\ backlog[e][i] \in Conns
    BY <2>7, WaitingConnections, DaemonAssumption DEF EndsAgree
  <2>9. LinkTypes'
    BY <1>1, <2>2, <2>4, <2>6 DEF LinkTypes
  <2>10. OnlyListenersHave'
    <3>1. \A e \in Daemons : pc'[e] \notin Bound => backlog'[e] = <<>> /\ client'[e] = NoConn
      BY <1>1, <2>1, <2>6 DEF OnlyListenersHave
    <3>2. \A e \in Daemons : pc'[e] = "accept" /\ "POLLIN" \in revents'[e] => backlog'[e] # <<>>
      BY <1>1, <2>5, <2>6 DEF OnlyListenersHave
    <3>3. \A j \in Conns : conn'[j].to # Nobody => pc'[conn'[j].to] \in Bound \cup {"gone"}
      BY <1>1, <2>1, <2>3, <2>4 DEF OnlyListenersHave
    <3>. QED  BY <3>1, <3>2, <3>3 DEF OnlyListenersHave
  <2>11. EndsAgree'
    <3>1. ASSUME NEW e \in Daemons, NEW i \in DOMAIN backlog'[e]
          PROVE  conn'[backlog'[e][i]].to = e /\ ~conn'[backlog'[e][i]].hello
      <4>1. CASE e # d
        BY <2>4, <2>6, <2>8, <3>1, <4>1 DEF EndsAgree
      <4>2. CASE e = d /\ i \in 1 .. Len(backlog[d])
        BY <2>1, <2>4, <2>5, <2>6, <2>8, <4>2 DEF EndsAgree
      <4>3. CASE e = d /\ i = Len(backlog[d]) + 1
        BY <2>3, <2>4, <2>5, <2>6, <4>3
      <4>. QED  BY <2>5, <2>6, <3>1, <4>1, <4>2, <4>3
    <3>2. ASSUME NEW e \in Daemons, NEW i \in DOMAIN backlog'[e], NEW j \in DOMAIN backlog'[e],
                 backlog'[e][i] = backlog'[e][j]
          PROVE  i = j
      <4>1. CASE e # d
        BY <2>6, <3>2, <4>1 DEF EndsAgree
      <4>2. CASE e = d
        <5>1. \A h \in 1 .. Len(backlog[d]) : backlog'[e][h] = backlog[d][h] /\ backlog'[e][h] # k
          BY <2>1, <2>5, <2>6, <2>8, <4>2
        <5>2. backlog'[e][Len(backlog[d]) + 1] = k
          BY <2>5, <2>6, <4>2
        <5>3. i \in 1 .. Len(backlog[d]) \/ i = Len(backlog[d]) + 1
          BY <2>5, <2>6, <3>2, <4>2
        <5>4. j \in 1 .. Len(backlog[d]) \/ j = Len(backlog[d]) + 1
          BY <2>5, <2>6, <3>2, <4>2
        <5>. QED  BY <2>1, <2>5, <3>2, <5>1, <5>2, <5>3, <5>4 DEF EndsAgree
      <4>. QED  BY <4>1, <4>2
    <3>3. ASSUME NEW e \in Daemons, client'[e] # NoConn
          PROVE  conn'[client'[e]].to = e /\ conn'[client'[e]].hello
      <4>1. client[e] \in Conns /\ client[e] # k
        BY <1>1, <2>8, <3>3 DEF LinkTypes
      <4>. QED  BY <1>1, <2>4, <3>3, <4>1 DEF EndsAgree
    <3>. QED  BY <3>1, <3>2, <3>3 DEF EndsAgree
  <2>12. OneOpen'
    BY <1>1, <2>2, <2>3, <2>4, DaemonAssumption DEF OneOpen
  <2>13. GreetedIsServed'
    BY <1>1, <2>3, <2>4 DEF GreetedIsServed, Alive
  <2>. QED  BY <2>9, <2>10, <2>11, <2>12, <2>13
<1>. QED  BY <1>2, <1>3

\* The hello has come, or a request goes out.
LEMMA ConnectedLinked ==
  ASSUME Linked, Connected
  PROVE  Linked'
<1>1. /\ greeted # NoConn /\ conn[greeted].hello /\ fd' = greeted /\ greeted' = NoConn
      /\ UNCHANGED <<pc, backlog, client, revents, conn>>
  BY DEF Connected, loopVars
<1>2. LinkTypes' /\ OnlyListenersHave' /\ EndsAgree' /\ GreetedIsServed'
  BY <1>1 DEF Linked, LinkTypes, OnlyListenersHave, EndsAgree, GreetedIsServed, Alive
<1>3. fd = NoConn
  BY <1>1 DEF Linked, OneOpen
<1>4. OneOpen'
  BY <1>1, <1>3, DaemonAssumption DEF Linked, OneOpen
<1>. QED  BY <1>2, <1>4 DEF Linked

LEMMA SendLinked ==
  ASSUME Linked, NEW n \in Counts, Send(n)
  PROVE  Linked'
<1>. USE DEF Linked
<1>. DEFINE c == [conn[fd] EXCEPT !.reqs = Append(conn[fd].reqs, n)]
<1>1. /\ fd # NoConn /\ fd \in Conns /\ conn' = [conn EXCEPT ![fd].reqs = Append(@, n)]
      /\ UNCHANGED <<pc, backlog, client, revents, fd, greeted>>
  BY DEF Send, loopVars, LinkTypes
<1>2. /\ c \in Connection /\ c.to = conn[fd].to /\ (c.open <=> conn[fd].open)
      /\ (c.hello <=> conn[fd].hello)
  <2>1. conn[fd] \in Connection /\ conn[fd].reqs \in Seq(Nat) /\ n \in Nat
    BY <1>1, ConnectionFields, DaemonAssumption DEF LinkTypes
  <2>2. Append(conn[fd].reqs, n) \in Seq(Nat)
    BY <2>1, AppendProperties
  <2>. QED  BY <2>1, <2>2 DEF Connection
<1>3. conn' = [conn EXCEPT ![fd] = c]
  BY <1>1 DEF LinkTypes
<1>. HIDE DEF c
<1>4. /\ conn' \in [Conns -> Connection]
      /\ \A j \in Conns : /\ conn'[j].open <=> conn[j].open
                          /\ conn'[j].hello <=> conn[j].hello
                          /\ conn'[j].to = conn[j].to
  BY <1>1, <1>2, <1>3 DEF LinkTypes
<1>5. LinkTypes'
  BY <1>1, <1>4 DEF LinkTypes
<1>6. OnlyListenersHave'
  BY <1>1, <1>4 DEF OnlyListenersHave
<1>7. EndsAgree'
  <2>1. \A d \in Daemons : \A i \in DOMAIN backlog[d] : backlog[d][i] \in Conns
    BY WaitingConnections
  <2>. QED  BY <1>1, <1>4, <2>1 DEF EndsAgree, LinkTypes
<1>8. OneOpen'
  BY <1>1, <1>4 DEF OneOpen, LinkTypes
<1>9. GreetedIsServed'
  BY <1>1, <1>4 DEF GreetedIsServed, Alive
<1>. QED  BY <1>5, <1>6, <1>7, <1>8, <1>9

LEMMA LinksHold == Spec => []Linked
<1>1. ASSUME IInv, Linked, [Next]_vars
      PROVE  Linked'
  <2>1. ASSUME NEW d \in Daemons, Work(d) \/ Handle(d) \/ Start(d)
        PROVE  Linked'
    BY <1>1, <2>1, StartLinked, ServeLinked DEF Work
  <2>2. ASSUME NEW d \in Daemons, Kill(d)
        PROVE  Linked'
    BY <1>1, <2>2, EndsLinked DEF Kill
  <2>3. CASE RemoveLock \/ Tick \/ UNCHANGED vars \/ \E d \in Daemons : Terminate(d)
    BY <1>1, <2>3, RestsLinked
       DEF RemoveLock, Tick, Terminate, vars, loopVars, clientVars
  <2>4. CASE TryConnect \/ Connected \/ HelloFails \/ SendFails \/ RestartFcitx
    BY <1>1, <2>4, TryConnectLinked, ConnectedLinked, GivenUpLinked
  <2>5. CASE \E n \in Counts : Send(n)
    BY <1>1, <2>5, SendLinked
  <2>. QED  BY <1>1, <2>1, <2>2, <2>3, <2>4, <2>5 DEF Next
<1>. QED  BY <1>1, InitLinked, Invariance, PTL DEF Spec

\* For any number of connections, daemons and restarts of fcitx5: the
\* connection that the addon relies on is the one its daemon serves, as long
\* as that daemon runs (#105).
THEOREM HelloKept == Spec => []HelloIsKept
<1>1. Linked => HelloIsKept
  BY DEF Linked, LinkTypes, OneOpen, GreetedIsServed, HelloIsKept
<1>. QED  BY <1>1, LinksHold, PTL
==============================================================================
