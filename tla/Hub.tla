--------------------------------- MODULE Hub ---------------------------------
(***************************************************************************)
(* The rendezvous server (net/server.rs) and the peer slots it keeps in the *)
(* vault (vault.rs, SyncHandle): the accept loop, one handler per          *)
(* connection with its writer, reader and notification tasks, the enforcer *)
(* that drops peers removed from authorized_keys, and the shutdown.        *)
(*                                                                         *)
(* Of the document only the parsed authorized_keys list matters here.  The *)
(* Notify behind wait_doc_changed stores no permit: notify_waiters wakes   *)
(* the tasks that wait at that moment and nobody else.                     *)
(***************************************************************************)
EXTENDS Naturals

CONSTANTS
  Conn,       \* connections, one per accepted socket
  Key,        \* device public keys
  Kept,       \* keys that no edit ever removes from authorized_keys
  NoKey,      \* before HelloPeer
  MaxChange   \* bound on edits of authorized_keys

ASSUME HubAssumption ==
  /\ Kept \subseteq Key /\ NoKey \notin Key
  /\ MaxChange \in Nat

VARIABLES
  authorized,  \* keys of authorized_keys in the hub's document
  unnotified,  \* edits whose notify_waiters is still to come
  changes,     \* edits made
  enf,         \* the enforcer task and the list it has read
  server,      \* "up", "told" (shutdown message sent), "gone" (Server dropped)
  acceptor,    \* the accept loop
  conn         \* per connection: handler, tasks, slot, channel and socket

vars == <<authorized, unnotified, changes, enf, server, acceptor, conn>>

HandlerPc == {"none", "greeted", "proving", "register", "starting", "serving",
              "waitReader", "unregister", "ended"}
TaskPc == {"off", "on", "unregister", "done"}

NewConn == [handler |-> "none", key |-> NoKey, slot |-> FALSE, writer |-> "off",
            reader |-> "off", notif |-> "off", queued |-> FALSE, missed |-> FALSE,
            hubClosed |-> FALSE, peerGone |-> FALSE]

Upd(c, r) == conn' = [conn EXCEPT ![c] = r]

-----------------------------------------------------------------------------
(* Edits of authorized_keys: made by the hub's own user, or merged from a   *)
(* peer.  The document is changed first, the waiters are notified later.   *)

ChangeKeys ==
  /\ changes < MaxChange /\ changes' = changes + 1
  /\ \E S \in SUBSET Key : Kept \subseteq S /\ S # authorized /\ authorized' = S
  /\ unnotified' = unnotified + 1

LocalChange ==
  /\ ChangeKeys
  /\ UNCHANGED <<enf, server, acceptor, conn>>

Woken == [enf EXCEPT !.pc = IF @ = "waiting" THEN "woken" ELSE @]

notify_waiters ==
  /\ unnotified > 0 /\ unnotified' = unnotified - 1
  /\ enf' = Woken
  /\ UNCHANGED <<authorized, changes, server, acceptor, conn>>

\* Some other file changes: its notification wakes the enforcer too.
OtherChange ==
  /\ enf' = Woken
  /\ UNCHANGED <<authorized, unnotified, changes, server, acceptor, conn>>

-----------------------------------------------------------------------------
(* The enforcer.                                                           *)

EnfUnchanged == UNCHANGED <<authorized, unnotified, changes, server, acceptor>>

\* The first list only seeds the log of additions and removals.
EnfSeed ==
  /\ enf.pc = "seed"
  /\ enf' = [pc |-> "loop", list |-> authorized]
  /\ UNCHANGED conn
  /\ EnfUnchanged

\* select!: the shutdown message first, then a new Notified.
EnfWait ==
  /\ enf.pc = "loop"
  /\ enf' = [enf EXCEPT !.pc = IF server = "up" THEN "waiting" ELSE "done"]
  /\ UNCHANGED conn
  /\ EnfUnchanged

EnfStop ==
  /\ enf.pc \in {"waiting", "woken"} /\ server # "up"
  /\ enf' = [enf EXCEPT !.pc = "done"]
  /\ UNCHANGED conn
  /\ EnfUnchanged

EnfReadKnown ==  \* mutant: goes on with the list it knows
  /\ enf.pc = "woken" /\ server = "up"
  /\ enf' = [enf EXCEPT !.pc = "drop"]
  /\ UNCHANGED conn
  /\ EnfUnchanged

EnfRead ==
  /\ enf.pc = "woken" /\ server = "up"
  /\ enf' = [pc |-> "drop", list |-> authorized]
  /\ UNCHANGED conn
  /\ EnfUnchanged

ToDropUnnamed(c) ==  \* mutant: drops a peer that is not the first on the list
  conn[c].slot /\ \E k \in enf.list : k # conn[c].key

ToDrop(c) == conn[c].slot /\ conn[c].key \notin enf.list

\* Removing a slot drops its sender of the peer's outbound channel.
disconnect_unauthorized_peers ==
  /\ enf.pc = "drop"
  /\ conn' = [c \in Conn |-> IF ToDrop(c) THEN [conn[c] EXCEPT !.slot = FALSE] ELSE conn[c]]
  /\ enf' = [enf EXCEPT !.pc = "loop"]
  /\ EnfUnchanged

Enforcer == EnfSeed \/ EnfWait \/ EnfStop \/ EnfRead \/ disconnect_unauthorized_peers

-----------------------------------------------------------------------------
(* The accept loop, and a connection's handler up to its registration.     *)

ConnUnchanged == UNCHANGED <<authorized, unnotified, changes, enf, server, acceptor>>

\* A socket is ready when the shutdown message is not.
AcceptReady ==
  /\ acceptor = "loop" /\ server = "up"
  /\ \E c \in Conn : conn[c].handler = "none"
  /\ acceptor' = "accepted"
  /\ UNCHANGED <<authorized, unnotified, changes, enf, server, conn>>

\* The handler subscribes to the shutdown channel: a message sent before is
\* missed.  It sends HelloHub.
Spawn(c) ==
  /\ acceptor = "accepted" /\ conn[c].handler = "none"
  /\ acceptor' = "loop"
  /\ Upd(c, [conn[c] EXCEPT !.handler = "greeted", !.missed = (server # "up")])
  /\ UNCHANGED <<authorized, unnotified, changes, enf, server>>

AcceptStop ==
  /\ acceptor = "loop" /\ server # "up"
  /\ acceptor' = "ended"
  /\ UNCHANGED <<authorized, unnotified, changes, enf, server, conn>>

\* HelloPeer arrives; its key is looked up in authorized_keys, once.
HelloPeer(c, k) ==
  /\ conn[c].handler = "greeted"
  /\ Upd(c, [conn[c] EXCEPT !.key = k,
               !.handler = IF k \in authorized THEN "proving" ELSE "ended",
               !.hubClosed = k \notin authorized])
  /\ ConnUnchanged

ProofPeer(c) ==
  /\ conn[c].handler = "proving"
  /\ Upd(c, [conn[c] EXCEPT !.handler = "register"])
  /\ ConnUnchanged

\* A wrong frame, a wrong signature or a socket that ends.
HandshakeFails(c) ==
  /\ conn[c].handler \in {"greeted", "proving"}
  /\ Upd(c, [conn[c] EXCEPT !.handler = "ended", !.hubClosed = TRUE])
  /\ ConnUnchanged

register_peer(c) ==
  /\ conn[c].handler = "register"
  /\ Upd(c, [conn[c] EXCEPT !.handler = "starting", !.slot = TRUE])
  /\ ConnUnchanged

\* The first sync message is queued and the three tasks are spawned.
StartTasks(c) ==
  /\ conn[c].handler = "starting"
  /\ Upd(c, [conn[c] EXCEPT !.handler = "serving", !.queued = conn[c].slot,
               !.writer = "on", !.reader = "on", !.notif = "on"])
  /\ ConnUnchanged

Accept == AcceptReady \/ AcceptStop \/ \E c \in Conn : Spawn(c)
Handshake(c) == (\E k \in Key : HelloPeer(c, k)) \/ ProofPeer(c) \/ HandshakeFails(c)

-----------------------------------------------------------------------------
(* The writer.                                                             *)

ToldOnce(c) == server # "up" /\ ~conn[c].missed  \* mutant: the drop does not send again

\* The message of shutdown, or the one that the drop of Server sends again.
Told(c) == (server = "told" /\ ~conn[c].missed) \/ server = "gone"

\* The holders of a sender of the outbound channel.
Senders(c) ==
  {h \in {"slot", "handler", "reader", "notif"} :
     \/ h = "slot" /\ conn[c].slot
     \/ h = "handler" /\ conn[c].handler \in {"starting", "serving", "waitReader", "unregister"}
     \/ h = "reader" /\ conn[c].reader \in {"on", "unregister"}
     \/ h = "notif" /\ conn[c].notif = "on"}

\* Told to stop, or the channel is closed and drained: Close, and the loop ends.
WriterStops(c) ==
  /\ conn[c].writer = "on"
  /\ Told(c) \/ (~conn[c].queued /\ Senders(c) = {})
  /\ Upd(c, [conn[c] EXCEPT !.writer = "done", !.hubClosed = TRUE])
  /\ ConnUnchanged

\* A send to a peer that is gone may fail: the loop ends without a Close.
WriterSends(c) ==
  /\ conn[c].writer = "on" /\ conn[c].queued /\ ~Told(c)
  /\ \/ Upd(c, [conn[c] EXCEPT !.queued = FALSE])
     \/ conn[c].peerGone /\ Upd(c, [conn[c] EXCEPT !.writer = "done"])
  /\ ConnUnchanged

-----------------------------------------------------------------------------
(* The reader, the notification task, and the end of the handler.          *)

\* Close or the end of the stream.  Before the tasks run it fails the handshake,
\* or waits for the reader.
PeerCloses(c) ==
  /\ conn[c].reader = "on" /\ ~conn[c].peerGone
  /\ Upd(c, [conn[c] EXCEPT !.peerGone = TRUE])
  /\ ConnUnchanged

\* handle_inbound of a Sync frame: without a slot it is ignored.
receive_sync_message(c) ==
  /\ conn[c].reader = "on" /\ ~conn[c].peerGone /\ conn[c].slot
  /\ Upd(c, [conn[c] EXCEPT !.queued = (conn[c].writer = "on")])
  /\ ChangeKeys \/ UNCHANGED <<authorized, unnotified, changes>>
  /\ UNCHANGED <<enf, server, acceptor>>

\* handle_inbound of BlobFetch and Ping: answered with or without a slot.
AnswerRequest(c) ==
  /\ conn[c].reader = "on" /\ ~conn[c].peerGone
  /\ Upd(c, [conn[c] EXCEPT !.queued = (conn[c].writer = "on")])
  /\ ConnUnchanged

ReaderEnds(c) ==
  /\ conn[c].reader = "on" /\ conn[c].peerGone
  /\ Upd(c, [conn[c] EXCEPT !.reader = "unregister"])
  /\ ConnUnchanged

ReaderForgets(c) ==  \* mutant: leaves the slot to the handler
  /\ conn[c].reader = "unregister"
  /\ Upd(c, [conn[c] EXCEPT !.reader = "done"])
  /\ ConnUnchanged

ReaderUnregisters(c) ==
  /\ conn[c].reader = "unregister"
  /\ Upd(c, [conn[c] EXCEPT !.reader = "done", !.slot = FALSE])
  /\ ConnUnchanged

\* A document change to send; the loop ends when the channel's receiver is gone.
Notif(c) ==
  /\ conn[c].notif = "on" /\ conn[c].slot
  /\ Upd(c, IF conn[c].writer = "done" THEN [conn[c] EXCEPT !.notif = "done"]
            ELSE [conn[c] EXCEPT !.queued = TRUE])
  /\ ConnUnchanged

\* writer_task.await, notif_task.abort
Teardown(c) ==
  /\ conn[c].handler = "serving" /\ conn[c].writer = "done"
  /\ Upd(c, [conn[c] EXCEPT !.handler = "waitReader", !.notif = "done"])
  /\ ConnUnchanged

\* The reader has ended, or 500 ms have passed and it goes on by itself.
ReaderAwaited(c) ==
  /\ conn[c].handler = "waitReader"
  /\ Upd(c, [conn[c] EXCEPT !.handler = "unregister"])
  /\ ConnUnchanged

HandlerForgets(c) ==  \* mutant: leaves the slot to the reader
  /\ conn[c].handler = "unregister"
  /\ Upd(c, [conn[c] EXCEPT !.handler = "ended"])
  /\ ConnUnchanged

HandlerUnregisters(c) ==
  /\ conn[c].handler = "unregister"
  /\ Upd(c, [conn[c] EXCEPT !.handler = "ended", !.slot = FALSE])
  /\ ConnUnchanged

\* What a handler and its tasks do on their own.
Tasks(c) ==
  \/ register_peer(c) \/ StartTasks(c) \/ WriterStops(c) \/ WriterSends(c)
  \/ ReaderEnds(c) \/ ReaderUnregisters(c) \/ Teardown(c) \/ ReaderAwaited(c)
  \/ HandlerUnregisters(c)

-----------------------------------------------------------------------------
(* The end of the server.                                                  *)

shutdown ==
  /\ server = "up"
  /\ server' = "told"
  /\ UNCHANGED <<authorized, unnotified, changes, enf, acceptor, conn>>

\* Every wait of shutdown has a timeout; then Server is dropped.
ShutdownReturns ==
  /\ server = "told"
  /\ server' = "gone"
  /\ UNCHANGED <<authorized, unnotified, changes, enf, acceptor, conn>>

\* Dropped without shutdown: the accept loop and the enforcer are aborted.
DropServer ==
  /\ server = "up"
  /\ server' = "gone" /\ acceptor' = "ended" /\ enf' = [enf EXCEPT !.pc = "done"]
  /\ UNCHANGED <<authorized, unnotified, changes, conn>>

-----------------------------------------------------------------------------
Init ==
  /\ authorized = Kept
  /\ unnotified = 0 /\ changes = 0
  /\ enf = [pc |-> "seed", list |-> {}]
  /\ server = "up" /\ acceptor = "loop"
  /\ conn = [c \in Conn |-> NewConn]

Next ==
  \/ LocalChange \/ notify_waiters \/ OtherChange
  \/ Enforcer \/ Accept
  \/ \E c \in Conn :
       \/ Handshake(c) \/ Tasks(c) \/ PeerCloses(c)
       \/ receive_sync_message(c) \/ AnswerRequest(c) \/ Notif(c)
  \/ shutdown \/ ShutdownReturns \/ DropServer

Spec == Init /\ [][Next]_vars

\* The tasks run; peers, users and the decision to shut down are not assumed.
Fairness ==
  /\ WF_vars(notify_waiters) /\ WF_vars(Enforcer) /\ WF_vars(Accept)
  /\ WF_vars(ShutdownReturns)
  /\ \A c \in Conn :
       /\ WF_vars(register_peer(c)) /\ WF_vars(StartTasks(c))
       /\ WF_vars(WriterStops(c)) /\ WF_vars(WriterSends(c))
       /\ WF_vars(ReaderEnds(c)) /\ WF_vars(ReaderUnregisters(c))
       /\ WF_vars(Teardown(c)) /\ WF_vars(ReaderAwaited(c))
       /\ WF_vars(HandlerUnregisters(c))

FairSpec == Spec /\ Fairness

-----------------------------------------------------------------------------
(* Properties.                                                             *)

ConnRecord ==
  [handler : HandlerPc, key : Key \cup {NoKey}, slot : BOOLEAN, writer : TaskPc,
   reader : TaskPc, notif : TaskPc, queued : BOOLEAN, missed : BOOLEAN,
   hubClosed : BOOLEAN, peerGone : BOOLEAN]

TypeOK ==
  /\ authorized \in SUBSET Key /\ unnotified \in Nat /\ changes \in 0..MaxChange
  /\ enf \in [pc : {"seed", "loop", "waiting", "woken", "drop", "done"}, list : SUBSET Key]
  /\ server \in {"up", "told", "gone"} /\ acceptor \in {"loop", "accepted", "ended"}
  /\ conn \in [Conn -> ConnRecord]

\* No slot is left behind: a slot belongs to a handler that still has its
\* unregister to do and to a reader that has not finished, so whichever of the
\* two ends -- in any order, by timeout or by the peer -- takes the slot along.
NoOrphanSlot ==
  \A c \in Conn : conn[c].slot =>
    /\ conn[c].handler \in {"starting", "serving", "waitReader", "unregister"}
    /\ conn[c].reader # "done"

\* A device that is never removed from authorized_keys never loses its slot to
\* the enforcer, however stale the list is that the enforcer has read.
KeptAreNotDropped ==
  [][\A c \in Conn : enf.pc = "drop" /\ enf' # enf /\ conn[c].slot /\ ~conn'[c].slot
       => conn[c].key \notin Kept]_vars

\* After shutdown or drop every slot is released, that of a handshake which ends
\* only then and that of a socket accepted while the message was sent included.
ShutdownReleasesSlots ==
  \A c \in Conn : (server # "up" /\ conn[c].slot) ~> ~conn[c].slot

Unlisted(c) == server = "up" /\ conn[c].slot /\ conn[c].key \notin authorized

\* In a vault whose files go on changing a device removed from authorized_keys
\* loses its slot, whatever notifications the enforcer has missed.
RevokedIsDroppedWhenBusy ==
  WF_vars(OtherChange) => \A c \in Conn : Unlisted(c) ~> ~Unlisted(c)

-----------------------------------------------------------------------------
\* The inductive invariant behind NoOrphanSlot and KeptAreNotDropped: a reader
\* exists from StartTasks on, and no list lacks a kept key.
IInv ==
  /\ TypeOK /\ NoOrphanSlot
  /\ \A c \in Conn : conn[c].handler \in {"none", "greeted", "proving", "register", "starting"}
       => conn[c].reader = "off"
  /\ Kept \subseteq authorized
  /\ enf.pc = "drop" => Kept \subseteq enf.list
=============================================================================
