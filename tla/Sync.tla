-------------------------------- MODULE Sync --------------------------------
(***************************************************************************)
(* The sync sessions between the devices and their hub: VaultSyncHandle    *)
(* (vault.rs), the reader and notifier tasks of both ends (net/client.rs,  *)
(* net/server.rs), the loss of a connection, and a device that crashes and *)
(* comes back with the document it saved.                                  *)
(*                                                                         *)
(* A document is the set of its changes; the heads of automerge determine  *)
(* that set.  automerge's sync protocol is external: a message carries the *)
(* sender's heads and the changes it believes the other end to lack.       *)
(* Authentication is the Hub's and the Supervisor's.                       *)
(***************************************************************************)
EXTENDS Naturals, Sequences, FiniteSets

CONSTANTS
  Client,     \* the devices
  hub,        \* the device that listens
  MaxChange,  \* bound: changes made
  MaxFault,   \* bound: lost connections and crashes
  None        \* no session, no message

\* Changes are numbered as they are made.
Change == 1..MaxChange

Node == Client \cup {hub}

\* The two ends of each session: <<n, m>> is n's end of its session with m.
End == ({hub} \X Client) \cup (Client \X {hub})

Other(e) == <<e[2], e[1]>>

Message == [heads: SUBSET Change, ch: SUBSET Change]

\* amsync::State, the state of one end of a session.
State == [known: BOOLEAN,         \* a message was received
          their: SUBSET Change,   \* the heads of the last one
          last: SUBSET Change,    \* heads of the last message sent
          sent: SUBSET Change,    \* changes sent, not known to be there
          inflight: BOOLEAN]      \* no answer to it yet

ASSUME SyncAssumption ==
  /\ hub \notin Client
  /\ MaxChange \in Nat /\ MaxFault \in Nat
  /\ None \notin State /\ None \notin Message

VARIABLES
  doc,        \* [Node -> the changes of its document]
  queue,      \* [Node -> changes received before those they depend on]
  saved,      \* [Node -> the changes in its doc.bin]
  deps,       \* [Change -> the changes its author had]
  made,       \* how many changes were made
  up,         \* the clients whose connection is up
  slot,       \* [End -> the State of PeerSlot, or None]
  net,        \* [End -> messages under way from this end]
  due,        \* the ends whose reader has received and is to reply
  reader,     \* [End -> the reply the reader is to send, or None]
  notif,      \* [End -> the message the notifier is to send, or None]
  faults      \* losses and crashes so far

vars == <<doc, queue, saved, deps, made, up, slot, net, due, reader,
          notif, faults>>

docVars == <<doc, queue, saved, deps, made>>
linkVars == <<up, slot, net, due, reader, notif>>

TypeOK ==
  /\ doc \in [Node -> SUBSET Change]
  /\ queue \in [Node -> SUBSET Change]
  /\ saved \in [Node -> SUBSET Change]
  /\ deps \in [Change -> SUBSET Change]
  /\ made \in 0..MaxChange
  /\ up \subseteq Client
  /\ slot \in [End -> State \cup {None}]
  /\ net \in [End -> Seq(Message)]
  /\ due \subseteq End
  /\ reader \in [End -> Message \cup {None}]
  /\ notif \in [End -> Message \cup {None}]
  /\ faults \in 0..MaxFault
  /\ \A e \in End : slot[e] = None =>
       e \notin due /\ reader[e] = None /\ notif[e] = None

Init ==
  /\ doc = [n \in Node |-> {}]
  /\ queue = [n \in Node |-> {}]
  /\ saved = [n \in Node |-> {}]
  /\ deps = [c \in Change |-> {}]
  /\ made = 0
  /\ up = {}
  /\ slot = [e \in End |-> None]
  /\ net = [e \in End |-> <<>>]
  /\ due = {}
  /\ reader = [e \in End |-> None]
  /\ notif = [e \in End |-> None]
  /\ faults = 0

-----------------------------------------------------------------------------
(* automerge (external).                                                   *)

NewState == [known |-> FALSE, their |-> {}, last |-> {}, sent |-> {}, inflight |-> FALSE]

\* The changes of s that can join the document d: those whose dependencies
\* are there or can join too.
Ready(d, s) ==
  UNION {t \in SUBSET s : \A c \in t : deps[c] \subseteq d \cup t}

\* generate_sync_message of sync::SyncDoc: the changes the other end lacks
\* and was not sent; nothing, if our heads were sent before and either both
\* ends are equal or the answer is awaited.
ToSend(d, s) == IF s.known THEN (d \ s.their) \ s.sent ELSE {}

NothingToSay(d, s) ==
  /\ s.last = d
  /\ s.inflight \/ (s.known /\ s.their = d /\ ToSend(d, s) = {})

AfterSend(d, s) ==
  [s EXCEPT !.last = d, !.sent = @ \cup ToSend(d, s), !.inflight = TRUE]

\* receive_sync_message of sync::SyncDoc: what it makes of the State, given
\* the document before.
AfterReceive(d, s, m) ==
  [known |-> TRUE,
   their |-> m.heads,
   last |-> IF m.heads = {} THEN {}
            ELSE IF m.ch = {} /\ m.heads = d THEN d ELSE s.last,
   sent |-> IF m.heads = {} THEN {} ELSE s.sent \ m.heads,
   inflight |-> FALSE]

-----------------------------------------------------------------------------
(* VaultSyncHandle.                                                        *)

\* A fresh State for every session.
register_peer(e) == slot' = [slot EXCEPT ![e] = NewState]

\* Generating and putting the message into the channel are two steps: the
\* reader and the notifier of one end may overtake each other in between.
\* None if there is no slot or nothing to say.
generate_sync_message(e) ==
  IF slot[e] = None THEN None
  ELSE IF NothingToSay(doc[e[1]], slot[e]) THEN None
  ELSE [heads |-> doc[e[1]], ch |-> ToSend(doc[e[1]], slot[e])]

SlotGenerated(e) ==
  IF generate_sync_message(e) = None THEN slot
  ELSE [slot EXCEPT ![e] = AfterSend(doc[e[1]], @)]

\* Mutant of receive_sync_message: changes are applied as they come.
ReceiveUnordered(e, m) ==
  IF slot[e] = None
  THEN UNCHANGED <<doc, queue, slot>>
  ELSE /\ doc' = [doc EXCEPT ![e[1]] = @ \cup m.ch]
       /\ slot' = [slot EXCEPT ![e] = AfterReceive(doc[e[1]], @, m)]
       /\ UNCHANGED queue

\* A message for a slot that is gone is dropped without an error.
receive_sync_message(e, m) ==
  IF slot[e] = None
  THEN UNCHANGED <<doc, queue, slot>>
  ELSE LET n == e[1]
           s == (queue[n] \cup m.ch) \ doc[n]
           joined == Ready(doc[n], s)
       IN  /\ doc' = [doc EXCEPT ![n] = @ \cup joined]
           /\ queue' = [queue EXCEPT ![n] = s \ joined]
           /\ slot' = [slot EXCEPT ![e] = AfterReceive(doc[n], @, m)]

-----------------------------------------------------------------------------
(* The tasks of a session.                                                 *)

\* The connection is made; each end registers when its handshake is over.
Connect(k) ==
  /\ k \notin up
  /\ up' = up \cup {k}
  /\ UNCHANGED <<docVars, slot, net, due, reader, notif, faults>>

LinkOf(e) == IF e[1] = hub THEN e[2] ELSE e[1]

\* Mutant of Register: the first message is generated and not sent.
RegisterUnsent(e) ==
  /\ LinkOf(e) \in up
  /\ slot[e] = None
  /\ slot' = [slot EXCEPT ![e] = AfterSend(doc[e[1]], NewState)]
  /\ UNCHANGED <<docVars, up, net, due, reader, notif, faults>>

\* register_peer and the first message, before the tasks are spawned.
Register(e) ==
  /\ LinkOf(e) \in up
  /\ slot[e] = None
  /\ slot' = [slot EXCEPT ![e] = AfterSend(doc[e[1]], NewState)]
  /\ net' = [net EXCEPT ![e] = Append(@, [heads |-> doc[e[1]], ch |-> {}])]
  /\ UNCHANGED <<docVars, up, due, reader, notif, faults>>

\* The reader takes the next message: handle_inbound, first half.
Receive(e) ==
  /\ e \notin due
  /\ reader[e] = None
  /\ slot[e] # None
  /\ net[Other(e)] # <<>>
  /\ receive_sync_message(e, Head(net[Other(e)]))
  /\ net' = [net EXCEPT ![Other(e)] = Tail(@)]
  /\ due' = due \cup {e}
  /\ UNCHANGED <<saved, deps, made, up, reader, notif, faults>>

\* Mutant of Reply: every message is answered.
ReplyAlways(e) ==
  /\ e \in due
  /\ due' = due \ {e}
  /\ slot' = [slot EXCEPT ![e] = AfterSend(doc[e[1]], @)]
  /\ reader' = [reader EXCEPT ![e] = [heads |-> doc[e[1]],
                                      ch |-> ToSend(doc[e[1]], slot[e])]]
  /\ UNCHANGED <<docVars, up, net, notif, faults>>

\* handle_inbound, second half: generate the reply ...
Reply(e) ==
  /\ e \in due
  /\ due' = due \ {e}
  /\ slot' = SlotGenerated(e)
  /\ reader' = [reader EXCEPT ![e] = generate_sync_message(e)]
  /\ UNCHANGED <<docVars, up, net, notif, faults>>

\* ... and send it.
SendReply(e) ==
  /\ reader[e] # None
  /\ net' = [net EXCEPT ![e] = Append(@, reader[e])]
  /\ reader' = [reader EXCEPT ![e] = None]
  /\ UNCHANGED <<docVars, up, slot, due, notif, faults>>

\* The notifier wakes up, by doc_changed or after 100 ms, and generates.
Notice(e) ==
  /\ notif[e] = None
  /\ generate_sync_message(e) # None
  /\ slot' = SlotGenerated(e)
  /\ notif' = [notif EXCEPT ![e] = generate_sync_message(e)]
  /\ UNCHANGED <<docVars, up, net, due, reader, faults>>

SendNotice(e) ==
  /\ notif[e] # None
  /\ net' = [net EXCEPT ![e] = Append(@, notif[e])]
  /\ notif' = [notif EXCEPT ![e] = None]
  /\ UNCHANGED <<docVars, up, slot, due, reader, faults>>

\* Mutants of Ended: the notifier survives; the slot survives.
EndedKeepsNotifier(ks) ==
  LET ends == {e \in End : LinkOf(e) \in ks} IN
  /\ up' = up \ ks
  /\ slot' = [e \in End |-> IF e \in ends THEN None ELSE slot[e]]
  /\ net' = [e \in End |-> IF e \in ends THEN <<>> ELSE net[e]]
  /\ due' = due \ ends
  /\ reader' = [e \in End |-> IF e \in ends THEN None ELSE reader[e]]
  /\ UNCHANGED notif

EndedKeepsSlot(ks) ==
  LET ends == {e \in End : LinkOf(e) \in ks} IN
  /\ up' = up \ ks
  /\ net' = [e \in End |-> IF e \in ends THEN <<>> ELSE net[e]]
  /\ due' = due \ ends
  /\ reader' = [e \in End |-> IF e \in ends THEN None ELSE reader[e]]
  /\ notif' = [e \in End |-> IF e \in ends THEN None ELSE notif[e]]
  /\ UNCHANGED slot

\* The connections of the clients ks end: what is under way is lost, and
\* both ends unregister.
Ended(ks) ==
  LET ends == {e \in End : LinkOf(e) \in ks} IN
  /\ up' = up \ ks
  /\ slot' = [e \in End |-> IF e \in ends THEN None ELSE slot[e]]
  /\ net' = [e \in End |-> IF e \in ends THEN <<>> ELSE net[e]]
  /\ due' = due \ ends
  /\ reader' = [e \in End |-> IF e \in ends THEN None ELSE reader[e]]
  /\ notif' = [e \in End |-> IF e \in ends THEN None ELSE notif[e]]

Lose(k) ==
  /\ k \in up
  /\ faults < MaxFault
  /\ faults' = faults + 1
  /\ Ended({k})
  /\ UNCHANGED docVars

-----------------------------------------------------------------------------
(* The document.                                                           *)

\* A local change: write_text_file and the other operations of the vault.
Edit(n) ==
  /\ made < MaxChange
  /\ made' = made + 1
  /\ deps' = [deps EXCEPT ![made + 1] = doc[n]]
  /\ doc' = [doc EXCEPT ![n] = @ \cup {made + 1}]
  /\ UNCHANGED <<queue, saved, linkVars, faults>>

\* One tick of the save loop, or a flush.
Save(n) ==
  /\ saved[n] # doc[n]
  /\ saved' = [saved EXCEPT ![n] = doc[n]]
  /\ UNCHANGED <<doc, queue, deps, made, linkVars, faults>>

\* The process dies and is started again: the document is the saved one,
\* every session is gone.
Crash(n) ==
  /\ faults < MaxFault
  /\ faults' = faults + 1
  /\ doc' = [doc EXCEPT ![n] = saved[n]]
  /\ queue' = [queue EXCEPT ![n] = {}]
  /\ Ended(IF n = hub THEN up ELSE {n})
  /\ UNCHANGED <<saved, deps, made>>

Next ==
  \/ \E k \in Client : Connect(k) \/ Lose(k)
  \/ \E e \in End : \/ Register(e) \/ Receive(e) \/ Reply(e) \/ SendReply(e)
                    \/ Notice(e) \/ SendNotice(e)
  \/ \E n \in Node : Edit(n) \/ Save(n) \/ Crash(n)

Spec == Init /\ [][Next]_vars

\* Tasks are scheduled, the supervisor reconnects, the save loop ticks.
Fairness ==
  /\ \A k \in Client : WF_vars(Connect(k))
  /\ \A e \in End :
       /\ WF_vars(Register(e))
       /\ WF_vars(Receive(e))
       /\ WF_vars(Reply(e) \/ SendReply(e))
       /\ WF_vars(Notice(e) \/ SendNotice(e))
  /\ \A n \in Node : WF_vars(Save(n))

FairSpec == Spec /\ Fairness

-----------------------------------------------------------------------------
\* No document ever holds a change without those it depends on, although
\* replies and notices overtake each other in the channel.
CausallyClosed ==
  \A n \in Node : \A c \in doc[n] : deps[c] \subseteq doc[n]

\* What an end believes the other to have, by its last heads or by what it
\* was sent and will still receive, the other has or will have: no change is
\* skipped because of a message lost with an earlier session or of a crash.
BeliefsAreTrue ==
  \A e \in End : slot[e] # None =>
     slot[e].their \subseteq doc[e[2]] \cup queue[e[2]]

SentArrives ==
  \A e \in End : slot[e] # None =>
     \A c \in slot[e].sent :
        \/ c \in doc[e[2]] \cup queue[e[2]]
        \/ \E i \in DOMAIN net[e] : c \in net[e][i].ch
        \/ reader[e] # None /\ c \in reader[e].ch
        \/ notif[e] # None /\ c \in notif[e].ch

\* A session in which nothing is under way and neither end has anything to say
\* has done its work: it never stops, each end waiting for the other, while one
\* of them lacks a change, although changes wait for those they depend on and
\* are never sent twice (generate_sync_message, receive_sync_message).
Quiet(e) ==
  /\ slot[e] # None /\ generate_sync_message(e) = None
  /\ net[e] = <<>> /\ reader[e] = None /\ notif[e] = None

QuietMeansEqual ==
  \A e \in End : Quiet(e) /\ Quiet(Other(e)) => doc[e[1]] = doc[e[2]]

\* After the last loss and crash every device gets every change that any
\* device kept, and has it saved.
Converges ==
  <>[](\A n, m \in Node : doc[n] = doc[m] /\ saved[n] = doc[n])

\* Once the devices are equal the sessions fall silent: no two ends answer
\* each other, nor does the 100 ms tick repeat itself, for ever.
FallsSilent ==
  <>[](\A e \in End : net[e] = <<>> /\ notif[e] = None /\ reader[e] = None)
=============================================================================
