------------------------------ MODULE HubProofs ------------------------------
(***************************************************************************)
(* Proofs about Hub for every set of connections and keys and every number *)
(* of edits of authorized_keys.                                            *)
(***************************************************************************)
EXTENDS Hub, TLAPS

Early == {"none", "greeted", "proving", "register", "starting"}
Owning == {"starting", "serving", "waitReader", "unregister"}

\* What IInv says of one connection.
Good(r) ==
  /\ r \in ConnRecord
  /\ r.slot => r.handler \in Owning /\ r.reader # "done"
  /\ r.handler \in Early => r.reader = "off"

\* The part of IInv that is not about connections.
Lists ==
  /\ authorized \in SUBSET Key /\ unnotified \in Nat /\ changes \in 0..MaxChange
  /\ enf \in [pc : {"seed", "loop", "waiting", "woken", "drop", "done"}, list : SUBSET Key]
  /\ server \in {"up", "told", "gone"} /\ acceptor \in {"loop", "accepted", "ended"}
  /\ Kept \subseteq authorized
  /\ enf.pc = "drop" => Kept \subseteq enf.list

Conns == conn \in [Conn -> ConnRecord] /\ \A c \in Conn : Good(conn[c])

\* IInv is its two halves.
LEMMA Halves == IInv <=> Lists /\ Conns
BY DEF IInv, Lists, Conns, Good, Early, Owning, TypeOK, NoOrphanSlot

\* A step that gives one connection a good record keeps all of them good.
LEMMA OneConn ==
  ASSUME NEW c \in Conn, NEW r, Good(r), Conns, Upd(c, r)
  PROVE  Conns'
<1>1. r \in ConnRecord BY DEF Good
<1>2. conn' \in [Conn -> ConnRecord] BY <1>1 DEF Conns, Upd
<1>3. \A d \in Conn : conn'[d] = IF d = c THEN r ELSE conn[d] BY DEF Conns, Upd
<1> QED BY <1>2, <1>3 DEF Conns, Good

\* A handler in the handshake, and its registration.
LEMMA HandshakeGood ==
  ASSUME NEW c \in Conn, Conns, Handshake(c) \/ register_peer(c) \/ StartTasks(c)
  PROVE  Conns'
<1>0. Good(conn[c]) BY DEF Conns
<1>1. ASSUME NEW k \in Key, HelloPeer(c, k) PROVE Conns'
  <2> DEFINE r == [conn[c] EXCEPT !.key = k,
               !.handler = IF k \in authorized THEN "proving" ELSE "ended",
               !.hubClosed = k \notin authorized]
  <2>1. Good(r) BY <1>0, <1>1 DEF HelloPeer,
                              Good, ConnRecord, HandlerPc, TaskPc, Early, Owning
  <2>2. Upd(c, r) BY <1>1 DEF HelloPeer
  <2> HIDE DEF r
  <2> QED BY <2>1, <2>2, OneConn
<1>2. CASE ProofPeer(c)
  <2> DEFINE r == [conn[c] EXCEPT !.handler = "register"]
  <2>1. Good(r) BY <1>0, <1>2 DEF ProofPeer,
                              Good, ConnRecord, HandlerPc, TaskPc, Early, Owning
  <2>2. Upd(c, r) BY <1>2 DEF ProofPeer
  <2> HIDE DEF r
  <2> QED BY <2>1, <2>2, OneConn
<1>3. CASE HandshakeFails(c)
  <2> DEFINE r == [conn[c] EXCEPT !.handler = "ended", !.hubClosed = TRUE]
  <2>1. Good(r) BY <1>0, <1>3 DEF HandshakeFails,
                              Good, ConnRecord, HandlerPc, TaskPc, Early, Owning
  <2>2. Upd(c, r) BY <1>3 DEF HandshakeFails
  <2> HIDE DEF r
  <2> QED BY <2>1, <2>2, OneConn
<1>4. CASE register_peer(c)
  <2> DEFINE r == [conn[c] EXCEPT !.handler = "starting", !.slot = TRUE]
  <2>1. Good(r) BY <1>0, <1>4 DEF register_peer,
                              Good, ConnRecord, HandlerPc, TaskPc, Early, Owning
  <2>2. Upd(c, r) BY <1>4 DEF register_peer
  <2> HIDE DEF r
  <2> QED BY <2>1, <2>2, OneConn
<1>5. CASE StartTasks(c)
  <2> DEFINE r == [conn[c] EXCEPT !.handler = "serving", !.queued = conn[c].slot,
               !.writer = "on", !.reader = "on", !.notif = "on"]
  <2>1. Good(r) BY <1>0, <1>5 DEF StartTasks,
                              Good, ConnRecord, HandlerPc, TaskPc, Early, Owning
  <2>2. Upd(c, r) BY <1>5 DEF StartTasks
  <2> HIDE DEF r
  <2> QED BY <2>1, <2>2, OneConn
<1> QED BY <1>1, <1>2, <1>3, <1>4, <1>5 DEF Handshake

\* The writer, the notification task and the frames that the reader handles.
LEMMA TrafficGood ==
  ASSUME NEW c \in Conn, Conns,
         \/ WriterStops(c) \/ WriterSends(c) \/ receive_sync_message(c)
         \/ AnswerRequest(c) \/ Notif(c) \/ PeerCloses(c)
  PROVE  Conns'
<1>0. Good(conn[c]) BY DEF Conns
<1>1. CASE WriterStops(c)
  <2> DEFINE r == [conn[c] EXCEPT !.writer = "done", !.hubClosed = TRUE]
  <2>1. Good(r) BY <1>0 DEF Good, ConnRecord, TaskPc, Early, Owning
  <2>2. Upd(c, r) BY <1>1 DEF WriterStops
  <2> HIDE DEF r
  <2> QED BY <2>1, <2>2, OneConn
<1>2. CASE WriterSends(c)
  <2> DEFINE r == [conn[c] EXCEPT !.queued = FALSE]
             s == [conn[c] EXCEPT !.writer = "done"]
  <2>0. Good(r) BY <1>0 DEF Good, ConnRecord, Early, Owning
  <2>1. Good(s) BY <1>0 DEF Good, ConnRecord, TaskPc, Early, Owning
  <2>2. Upd(c, r) \/ Upd(c, s) BY <1>2 DEF WriterSends
  <2> HIDE DEF r, s
  <2>3. CASE Upd(c, r) BY <2>0, <2>3, OneConn
  <2>4. CASE Upd(c, s) BY <2>1, <2>4, OneConn
  <2> QED BY <2>2, <2>3, <2>4
<1>3. CASE receive_sync_message(c) \/ AnswerRequest(c)
  <2> DEFINE r == [conn[c] EXCEPT !.queued = (conn[c].writer = "on")]
  <2>1. Good(r) BY <1>0 DEF Good, ConnRecord, HandlerPc, TaskPc, Early, Owning
  <2>2. Upd(c, r) BY <1>3 DEF receive_sync_message, AnswerRequest
  <2> HIDE DEF r
  <2> QED BY <2>1, <2>2, OneConn
<1>4. CASE Notif(c)
  <2> DEFINE r == [conn[c] EXCEPT !.queued = TRUE]
             s == [conn[c] EXCEPT !.notif = "done"]
  <2>0. Good(r) BY <1>0 DEF Good, ConnRecord, Early, Owning
  <2>1. Good(s) BY <1>0 DEF Good, ConnRecord, TaskPc, Early, Owning
  <2>2. Upd(c, r) \/ Upd(c, s) BY <1>4 DEF Notif
  <2> HIDE DEF r, s
  <2>3. CASE Upd(c, r) BY <2>0, <2>3, OneConn
  <2>4. CASE Upd(c, s) BY <2>1, <2>4, OneConn
  <2> QED BY <2>2, <2>3, <2>4
<1>5. CASE PeerCloses(c)
  <2> DEFINE r == [conn[c] EXCEPT !.peerGone = TRUE]
  <2>1. Good(r) BY <1>0 DEF Good, ConnRecord, HandlerPc, TaskPc, Early, Owning
  <2>2. Upd(c, r) BY <1>5 DEF PeerCloses
  <2> HIDE DEF r
  <2> QED BY <2>1, <2>2, OneConn
<1> QED BY <1>1, <1>2, <1>3, <1>4, <1>5

\* The two ways in which a connection ends, each taking the slot along.
LEMMA EndGood ==
  ASSUME NEW c \in Conn, Conns,
         \/ ReaderEnds(c) \/ ReaderUnregisters(c) \/ Teardown(c) \/ ReaderAwaited(c)
         \/ HandlerUnregisters(c)
  PROVE  Conns'
<1>0. Good(conn[c]) BY DEF Conns
<1>1. CASE ReaderEnds(c)
  <2> DEFINE r == [conn[c] EXCEPT !.reader = "unregister"]
  <2>1. Good(r) BY <1>0, <1>1 DEF ReaderEnds,
                              Good, ConnRecord, HandlerPc, TaskPc, Early, Owning
  <2>2. Upd(c, r) BY <1>1 DEF ReaderEnds
  <2> HIDE DEF r
  <2> QED BY <2>1, <2>2, OneConn
<1>2. CASE ReaderUnregisters(c)
  <2> DEFINE r == [conn[c] EXCEPT !.reader = "done", !.slot = FALSE]
  <2>1. Good(r) BY <1>0, <1>2 DEF ReaderUnregisters,
                              Good, ConnRecord, HandlerPc, TaskPc, Early, Owning
  <2>2. Upd(c, r) BY <1>2 DEF ReaderUnregisters
  <2> HIDE DEF r
  <2> QED BY <2>1, <2>2, OneConn
<1>3. CASE Teardown(c)
  <2> DEFINE r == [conn[c] EXCEPT !.handler = "waitReader", !.notif = "done"]
  <2>1. Good(r) BY <1>0, <1>3 DEF Teardown,
                              Good, ConnRecord, HandlerPc, TaskPc, Early, Owning
  <2>2. Upd(c, r) BY <1>3 DEF Teardown
  <2> HIDE DEF r
  <2> QED BY <2>1, <2>2, OneConn
<1>4. CASE ReaderAwaited(c)
  <2> DEFINE r == [conn[c] EXCEPT !.handler = "unregister"]
  <2>1. Good(r) BY <1>0, <1>4 DEF ReaderAwaited,
                              Good, ConnRecord, HandlerPc, TaskPc, Early, Owning
  <2>2. Upd(c, r) BY <1>4 DEF ReaderAwaited
  <2> HIDE DEF r
  <2> QED BY <2>1, <2>2, OneConn
<1>5. CASE HandlerUnregisters(c)
  <2> DEFINE r == [conn[c] EXCEPT !.handler = "ended", !.slot = FALSE]
  <2>1. Good(r) BY <1>0, <1>5 DEF HandlerUnregisters,
                              Good, ConnRecord, HandlerPc, TaskPc, Early, Owning
  <2>2. Upd(c, r) BY <1>5 DEF HandlerUnregisters
  <2> HIDE DEF r
  <2> QED BY <2>1, <2>2, OneConn
<1> QED BY <1>1, <1>2, <1>3, <1>4, <1>5

\* The enforcer only takes slots away.
LEMMA DropGood ==
  ASSUME Conns, disconnect_unauthorized_peers
  PROVE  Conns'
<1>1. \A c \in Conn : Good([conn[c] EXCEPT !.slot = FALSE])
  BY DEF Conns, Good, ConnRecord
<1>2. \A c \in Conn : conn'[c] = conn[c] \/ conn'[c] = [conn[c] EXCEPT !.slot = FALSE]
  BY DEF disconnect_unauthorized_peers
<1>3. \A c \in Conn : Good(conn'[c]) BY <1>1, <1>2 DEF Conns
<1>4. conn' \in [Conn -> ConnRecord]
  BY <1>3 DEF disconnect_unauthorized_peers, Good
<1> QED BY <1>3, <1>4 DEF Conns, Good

\* A new connection has its handler and no task.
LEMMA SpawnGood ==
  ASSUME NEW c \in Conn, Conns, Spawn(c)
  PROVE  Conns'
<1> DEFINE r == [conn[c] EXCEPT !.handler = "greeted", !.missed = (server # "up")]
<1>0. Good(conn[c]) /\ conn[c].handler = "none" BY DEF Conns, Spawn
<1>1. Good(r) BY <1>0 DEF Good, ConnRecord, HandlerPc, Early, Owning
<1>2. Upd(c, r) BY DEF Spawn
<1> HIDE DEF r
<1> QED BY <1>1, <1>2, OneConn

\* The enforcer's lists and the document's keep the kept keys.
LEMMA ListsStep == Lists /\ [Next]_vars => Lists'
<1> SUFFICES ASSUME Lists, [Next]_vars PROVE Lists' OBVIOUS
<1> USE HubAssumption DEF Lists
<1>1. CASE LocalChange BY <1>1 DEF LocalChange, ChangeKeys
<1>2. CASE notify_waiters BY <1>2 DEF notify_waiters, Woken
<1>3. CASE OtherChange BY <1>3 DEF OtherChange, Woken
<1>4. CASE Enforcer
  BY <1>4 DEF Enforcer, EnfSeed, EnfWait, EnfStop, EnfRead,
              disconnect_unauthorized_peers, EnfUnchanged
<1>5. CASE Accept BY <1>5 DEF Accept, AcceptReady, AcceptStop, Spawn
<1>6. ASSUME NEW c \in Conn, Handshake(c) \/ Tasks(c) \/ PeerCloses(c) \/ AnswerRequest(c) \/ Notif(c)
      PROVE  Lists'
  <2>1. ConnUnchanged
    BY <1>6 DEF Handshake, HelloPeer, ProofPeer, HandshakeFails, Tasks, register_peer,
         StartTasks, WriterStops, WriterSends, ReaderEnds, ReaderUnregisters, Teardown,
         ReaderAwaited, HandlerUnregisters, PeerCloses, AnswerRequest, Notif
  <2> QED BY <2>1 DEF ConnUnchanged
<1>7. ASSUME NEW c \in Conn, receive_sync_message(c) PROVE Lists'
  BY <1>7 DEF receive_sync_message, ChangeKeys
<1>8. CASE shutdown \/ ShutdownReturns \/ DropServer
  BY <1>8 DEF shutdown, ShutdownReturns, DropServer
<1>9. CASE UNCHANGED vars BY <1>9 DEF vars
<1> QED BY <1>1, <1>2, <1>3, <1>4, <1>5, <1>6, <1>7, <1>8, <1>9 DEF Next

\* No step leaves a slot without its owners.
LEMMA ConnsStep == Conns /\ [Next]_vars => Conns'
<1> SUFFICES ASSUME Conns, [Next]_vars PROVE Conns' OBVIOUS
<1>1. CASE UNCHANGED conn BY <1>1 DEF Conns, Good
<1>2. CASE disconnect_unauthorized_peers BY <1>2, DropGood
<1>3. ASSUME NEW c \in Conn, Spawn(c) PROVE Conns' BY <1>3, SpawnGood
<1>4. ASSUME NEW c \in Conn, Handshake(c) PROVE Conns' BY <1>4, HandshakeGood
<1>5. ASSUME NEW c \in Conn, Tasks(c) PROVE Conns'
  BY <1>5, HandshakeGood, TrafficGood, EndGood DEF Tasks
<1>6. ASSUME NEW c \in Conn,
             PeerCloses(c) \/ receive_sync_message(c) \/ AnswerRequest(c) \/ Notif(c)
      PROVE  Conns'
  BY <1>6, TrafficGood
<1>7. CASE \/ LocalChange \/ notify_waiters \/ OtherChange \/ EnfSeed \/ EnfWait \/ EnfStop
           \/ EnfRead \/ AcceptReady \/ AcceptStop \/ shutdown \/ ShutdownReturns \/ DropServer
  <2>1. UNCHANGED conn
    BY <1>7 DEF LocalChange, notify_waiters, OtherChange, EnfSeed, EnfWait, EnfStop, EnfRead,
         AcceptReady, AcceptStop, shutdown, ShutdownReturns, DropServer
  <2> QED BY <2>1, <1>1
<1>8. CASE UNCHANGED vars BY <1>1, <1>8 DEF vars
<1> QED BY <1>2, <1>3, <1>4, <1>5, <1>6, <1>7, <1>8 DEF Next, Enforcer, Accept

\* The inductive invariant holds in every reachable state of the hub.
THEOREM HubInductive == Spec => []IInv
<1>1. Init => IInv
  BY HubAssumption DEF Init, IInv, TypeOK, NoOrphanSlot, NewConn, ConnRecord, HandlerPc, TaskPc
<1>2. IInv /\ [Next]_vars => IInv' 
  <2> SUFFICES ASSUME IInv, [Next]_vars PROVE IInv' OBVIOUS
  <2>1. Lists /\ Conns BY Halves
  <2>2. Lists' /\ Conns' BY <2>1, ListsStep, ConnsStep
  <2>3. (IInv <=> Lists /\ Conns)' BY Halves, PTL
  <2> QED BY <2>2, <2>3
<1> QED BY <1>1, <1>2, PTL DEF Spec

\* No slot outlives its handler or its reader, for any number of connections.
THEOREM SlotsAreOwned == Spec => []NoOrphanSlot
<1>1. IInv => NoOrphanSlot BY DEF IInv
<1> QED BY <1>1, HubInductive, PTL

\* A device that stays in authorized_keys is never dropped by the enforcer,
\* whatever the number of edits between its read of the list and its use.
THEOREM KeptStay == Spec => KeptAreNotDropped
<1>1. IInv /\ [Next]_vars =>
        [\A c \in Conn : enf.pc = "drop" /\ enf' # enf /\ conn[c].slot /\ ~conn'[c].slot
           => conn[c].key \notin Kept]_vars
  <2> SUFFICES ASSUME IInv, Next, NEW c \in Conn, enf.pc = "drop", enf' # enf,
                      conn[c].slot, ~conn'[c].slot
               PROVE  conn[c].key \notin Kept
    OBVIOUS
  <2>1. Kept \subseteq enf.list BY DEF IInv
  <2>2. CASE disconnect_unauthorized_peers
    BY <2>1, <2>2 DEF disconnect_unauthorized_peers, ToDrop
  <2>3. CASE ~disconnect_unauthorized_peers
    <3>1. conn' = conn \/ enf' = enf
      BY <2>3 DEF Next, LocalChange, notify_waiters, OtherChange, Enforcer, EnfSeed, EnfWait,
           EnfStop, EnfRead, Accept, AcceptReady, AcceptStop, Spawn, Handshake, HelloPeer,
           ProofPeer, HandshakeFails, Tasks, register_peer, StartTasks, WriterStops,
           WriterSends, ReaderEnds, ReaderUnregisters, Teardown, ReaderAwaited,
           HandlerUnregisters, PeerCloses, AnswerRequest, Notif, receive_sync_message,
           shutdown, ShutdownReturns, DropServer, ConnUnchanged
    <3> QED BY <3>1
  <2> QED BY <2>2, <2>3
<1> QED BY <1>1, HubInductive, PTL DEF Spec, KeptAreNotDropped
=============================================================================
