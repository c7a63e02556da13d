------------------------------ MODULE Supervisor ------------------------------
(***************************************************************************)
(* The client side of a vault's networking: Vault::connect, disconnect and *)
(* connect_with_reconnect (vault.rs), the reconnect supervisor that the    *)
(* last one spawns, and the connections they make (net/client.rs).         *)
(*                                                                         *)
(* The methods of Vault take &mut self, so there is one caller and its     *)
(* calls do not overlap; supervisors and the reader task of every          *)
(* connection run beside it.  Dialling and the handshake have no timeout   *)
(* and are not cancelled: they may end at any moment, or never.  Time is   *)
(* not modelled: a back-off or a two-second wait may end at any moment.    *)
(***************************************************************************)
EXTENDS Naturals

CONSTANTS
  Conn,         \* peer ids, one per completed handshake
  Sup,          \* supervisor tasks, numbered as they are spawned
  NoConn, NoSup,
  MaxAttempts,  \* ReconnectOptions::max_attempts
  MaxOps        \* bound on the caller's calls

ASSUME SupervisorAssumption ==
  /\ Conn \subseteq Nat /\ NoConn \notin Conn
  /\ Sup \subseteq Nat /\ NoSup \notin Sup
  /\ MaxAttempts \in Nat /\ MaxOps \in Nat

VARIABLES
  caller,     \* the caller: position, operation, supervisor awaited, connection held
  client,     \* VaultInner::client
  handle,     \* VaultInner::reconnect_supervisor
  sup,        \* per supervisor: position, shutdown message, attempt, connection, wake-up
  conn,       \* per connection: peer slot, reader task, closed flag, abort requested
  ops,        \* calls made
  lapsed,     \* a disconnect stopped waiting for its supervisor
  overlapped  \* connect was called while a session or a supervisor was alive

vars == <<caller, client, handle, sup, conn, ops, lapsed, overlapped>>

\* Positions of a supervisor at which it watches its connection.
Watching == {"enable", "check", "waiting"}
SupPc == {"none", "dialling", "delay", "registered", "publish", "lost", "closing",
          "done"} \cup Watching
CallerPc == {"idle", "awaitSup", "takeClient", "closing", "spawn", "dialling",
             "registered", "install"}
ReaderPc == {"off", "on", "unregister", "store", "notify", "done"}

\* ReconnectOptions with zero attempts still dials once.
LastAttempt == IF MaxAttempts = 0 THEN 1 ELSE MaxAttempts

Alive(s) == sup[s].pc \notin {"none", "done"}

\* register_peer counts peer ids upwards.
Unused == {c \in Conn : conn[c].reader = "off" /\ ~conn[c].slot}
next_peer_id(c) == c \in Unused /\ \A d \in Unused : c <= d

-----------------------------------------------------------------------------
(* A connection.                                                           *)

\* Dropping a ClientConn, or the first half of its close(), asks the reader to
\* stop; the peer slot stays.
Aborted(C, d) == IF d = NoConn THEN C ELSE [C EXCEPT ![d].aborted = TRUE]

WithSlot(C, c) == [C EXCEPT ![c].slot = TRUE]
WithTasks(C, c) == [C EXCEPT ![c].reader = "on"]
Unregistered(C, c) == IF c = NoConn THEN C ELSE [C EXCEPT ![c].slot = FALSE]

ReaderUnchanged == UNCHANGED <<caller, client, handle, ops, lapsed, overlapped>>

\* The hub closes, or the socket fails.
ReaderEnds(c) ==
  /\ conn[c].reader = "on"
  /\ conn' = [conn EXCEPT ![c].reader = "unregister"]
  /\ UNCHANGED sup /\ ReaderUnchanged

\* An abort takes effect at an await: in the loop, or on the lock of the slots.
ReaderAborts(c) ==
  /\ conn[c].aborted /\ conn[c].reader \in {"on", "unregister"}
  /\ conn' = [conn EXCEPT ![c].reader = "done"]
  /\ UNCHANGED sup /\ ReaderUnchanged

ReaderUnregisters(c) ==
  /\ conn[c].reader = "unregister"
  /\ conn' = [conn EXCEPT ![c].reader = "store", ![c].slot = FALSE]
  /\ UNCHANGED sup /\ ReaderUnchanged

StoreClosed(c) ==
  /\ conn[c].reader = "store"
  /\ conn' = [conn EXCEPT ![c].reader = "notify", ![c].flag = TRUE]
  /\ UNCHANGED sup /\ ReaderUnchanged

\* Who is registered with the connection's Notify.
Waiters(c) == {s \in Sup : sup[s].conn = c /\ sup[s].pc \in {"check", "waiting"}}

NotifyClosed(c) ==
  /\ conn[c].reader = "notify"
  /\ conn' = [conn EXCEPT ![c].reader = "done"]
  /\ sup' = [s \in Sup |-> IF s \in Waiters(c) THEN [sup[s] EXCEPT !.woken = TRUE] ELSE sup[s]]
  /\ ReaderUnchanged

ReaderStep(c) ==
  ReaderAborts(c) \/ ReaderUnregisters(c) \/ StoreClosed(c) \/ NotifyClosed(c)

-----------------------------------------------------------------------------
(* A supervisor.                                                           *)

SupUnchanged == UNCHANGED <<caller, handle, ops, lapsed, overlapped>>
Go(s, pc) == sup' = [sup EXCEPT ![s].pc = pc]
Hold(s, pc, c) == sup' = [sup EXCEPT ![s].pc = pc, ![s].conn = c]

\* The task returns, and what it held is gone.
Ended == [pc |-> "done", told |-> FALSE, attempt |-> 0, conn |-> NoConn, woken |-> FALSE]
Return(s) == sup' = [sup EXCEPT ![s] = Ended]

\* connect_with_backoff starts to count anew.
Redial(s) ==
  sup' = [sup EXCEPT ![s].pc = "dialling", ![s].attempt = 1, ![s].conn = NoConn,
                     ![s].woken = FALSE]

DialFailsOffByOne(s) ==  \* mutant: compares before it counts
  /\ sup[s].pc = "dialling"
  /\ IF sup[s].attempt > LastAttempt THEN Return(s) ELSE Go(s, "delay")
  /\ UNCHANGED <<client, conn>> /\ SupUnchanged

\* Any error of ClientConn::connect, an authentication error included.
DialFails(s) ==
  /\ sup[s].pc = "dialling"
  /\ IF sup[s].attempt >= MaxAttempts THEN Return(s) ELSE Go(s, "delay")
  /\ UNCHANGED <<client, conn>> /\ SupUnchanged

DelayEnds(s) ==
  /\ sup[s].pc = "delay"
  /\ sup' = [sup EXCEPT ![s].pc = "dialling", ![s].attempt = @ + 1]
  /\ UNCHANGED <<client, conn>> /\ SupUnchanged

\* select!: either branch when both are ready.
DelayShutdown(s) ==
  /\ sup[s].pc = "delay" /\ sup[s].told
  /\ Return(s)
  /\ UNCHANGED <<client, conn>> /\ SupUnchanged

Register(s, c) ==
  /\ sup[s].pc = "dialling" /\ next_peer_id(c)
  /\ Hold(s, "registered", c)
  /\ conn' = WithSlot(conn, c)
  /\ UNCHANGED client /\ SupUnchanged

StartTasks(s) ==
  /\ sup[s].pc = "registered"
  /\ Go(s, "publish")
  /\ conn' = WithTasks(conn, sup[s].conn)
  /\ UNCHANGED client /\ SupUnchanged

\* The connection that was in the client slot is dropped.
Publish(s) ==
  /\ sup[s].pc = "publish"
  /\ Go(s, "enable")
  /\ client' = sup[s].conn
  /\ conn' = Aborted(conn, client)
  /\ SupUnchanged

\* ClosedSignal::wait: enable, then look at the flag, then wait.
EnableNotified(s) ==
  /\ sup[s].pc = "enable"
  /\ Go(s, "check")
  /\ UNCHANGED <<client, conn>> /\ SupUnchanged

WaitUnchecked(s) ==  \* mutant: waits without a look at the flag
  /\ sup[s].pc = "check"
  /\ Go(s, "waiting")
  /\ UNCHANGED <<client, conn>> /\ SupUnchanged

CheckClosed(s) ==
  /\ sup[s].pc = "check"
  /\ Go(s, IF conn[sup[s].conn].flag THEN "lost" ELSE "waiting")
  /\ UNCHANGED <<client, conn>> /\ SupUnchanged

Woken(s) ==
  /\ sup[s].pc = "waiting" /\ sup[s].woken
  /\ Go(s, "lost")
  /\ UNCHANGED <<client, conn>> /\ SupUnchanged

WatchShutdown(s) ==
  /\ sup[s].pc \in {"enable", "waiting"} /\ sup[s].told
  /\ Return(s)
  /\ UNCHANGED <<client, conn>> /\ SupUnchanged

\* Takes whatever is in the client slot, and closes it.
TakeDead(s) ==
  /\ sup[s].pc = "lost"
  /\ Hold(s, "closing", client)
  /\ client' = NoConn
  /\ conn' = Aborted(conn, client)
  /\ SupUnchanged

\* close() waits at most two seconds for the writer, then unregisters.
CloseDead(s) ==
  /\ sup[s].pc = "closing"
  /\ Redial(s)
  /\ conn' = Unregistered(conn, sup[s].conn)
  /\ UNCHANGED client /\ SupUnchanged

SupStep(s) ==
  \/ DelayEnds(s) \/ DelayShutdown(s) \/ StartTasks(s) \/ Publish(s)
  \/ EnableNotified(s) \/ CheckClosed(s) \/ Woken(s) \/ WatchShutdown(s)
  \/ TakeDead(s) \/ CloseDead(s)

SupDial(s) == DialFails(s) \/ \E c \in Conn : Register(s, c)

-----------------------------------------------------------------------------
(* The caller.                                                             *)

Move(pc) == caller' = [caller EXCEPT !.pc = pc]
MoveWith(pc, c) == caller' = [caller EXCEPT !.pc = pc, !.conn = c]

Call(op, pc) ==
  /\ caller.pc = "idle" /\ ops < MaxOps /\ ops' = ops + 1
  /\ caller' = [caller EXCEPT !.pc = pc, !.op = op, !.sup = handle]

connect ==
  /\ Call("connect", "dialling")
  /\ overlapped' =
       (overlapped \/ (\E s \in Sup : Alive(s)) \/ (client # NoConn /\ conn[client].slot))
  /\ UNCHANGED <<client, handle, sup, conn, lapsed>>

ConnectFails ==
  /\ caller.pc = "dialling"
  /\ Move("idle")
  /\ UNCHANGED <<client, handle, sup, conn, ops, lapsed, overlapped>>

ConnectRegisters(c) ==
  /\ caller.pc = "dialling" /\ next_peer_id(c)
  /\ MoveWith("registered", c)
  /\ conn' = WithSlot(conn, c)
  /\ UNCHANGED <<client, handle, sup, ops, lapsed, overlapped>>

ConnectStartsTasks ==
  /\ caller.pc = "registered"
  /\ Move("install")
  /\ conn' = WithTasks(conn, caller.conn)
  /\ UNCHANGED <<client, handle, sup, ops, lapsed, overlapped>>

ConnectInstalls ==
  /\ caller.pc = "install"
  /\ MoveWith("idle", NoConn)
  /\ client' = caller.conn
  /\ conn' = Aborted(conn, client)
  /\ UNCHANGED <<handle, sup, ops, lapsed, overlapped>>

\* disconnect, alone or as the first step of connect_with_reconnect: takes the
\* supervisor and sends it the shutdown message.
disconnect(op) ==
  /\ Call(op, IF handle = NoSup THEN "takeClient" ELSE "awaitSup")
  /\ handle' = NoSup
  /\ sup' = [s \in Sup |-> IF s = handle THEN [sup[s] EXCEPT !.told = TRUE] ELSE sup[s]]
  /\ UNCHANGED <<client, conn, lapsed, overlapped>>

SupervisorJoined ==
  /\ caller.pc = "awaitSup" /\ sup[caller.sup].pc = "done"
  /\ Move("takeClient")
  /\ UNCHANGED <<client, handle, sup, conn, ops, lapsed, overlapped>>

JoinNeverLapses ==  \* mutant: waits for the supervisor without a timeout
  /\ caller.pc = "awaitSup" /\ sup[caller.sup].pc = "none"
  /\ UNCHANGED vars

JoinLapses ==
  /\ caller.pc = "awaitSup" /\ sup[caller.sup].pc # "done"
  /\ Move("takeClient")
  /\ lapsed' = TRUE
  /\ UNCHANGED <<client, handle, sup, conn, ops, overlapped>>

TakeClientEarly ==  \* mutant: takes the connection before the supervisor has ended
  /\ caller.pc \in {"awaitSup", "takeClient"}
  /\ MoveWith("closing", client)
  /\ client' = NoConn
  /\ conn' = Aborted(conn, client)
  /\ UNCHANGED <<handle, sup, ops, lapsed, overlapped>>

TakeClient ==
  /\ caller.pc = "takeClient"
  /\ MoveWith("closing", client)
  /\ client' = NoConn
  /\ conn' = Aborted(conn, client)
  /\ UNCHANGED <<handle, sup, ops, lapsed, overlapped>>

CloseWithoutUnregister ==  \* mutant: leaves the slot to the aborted reader
  /\ caller.pc = "closing"
  /\ MoveWith(IF caller.op = "disconnect" THEN "idle" ELSE "spawn", NoConn)
  /\ UNCHANGED <<client, handle, sup, conn, ops, lapsed, overlapped>>

CloseClient ==
  /\ caller.pc = "closing"
  /\ MoveWith(IF caller.op = "disconnect" THEN "idle" ELSE "spawn", NoConn)
  /\ conn' = Unregistered(conn, caller.conn)
  /\ UNCHANGED <<client, handle, sup, ops, lapsed, overlapped>>

\* The rest of connect_with_reconnect.
SpawnSupervisor(s) ==
  /\ caller.pc = "spawn"
  /\ sup[s].pc = "none" /\ \A t \in Sup : sup[t].pc = "none" => s <= t
  /\ Move("idle")
  /\ handle' = s
  /\ Redial(s)
  /\ UNCHANGED <<client, conn, ops, lapsed, overlapped>>

\* What the caller does on its own, dialling apart.
CallerStep ==
  \/ ConnectStartsTasks \/ ConnectInstalls \/ SupervisorJoined \/ JoinLapses
  \/ TakeClient \/ CloseClient \/ \E s \in Sup : SpawnSupervisor(s)

CallerDial == ConnectFails \/ \E c \in Conn : ConnectRegisters(c)

\* connect_with_reconnect, while there are tasks left in Sup.
connect_with_reconnect ==
  /\ \E s \in Sup : sup[s].pc = "none"
  /\ disconnect("supervise")

Calls == connect \/ disconnect("disconnect") \/ connect_with_reconnect

-----------------------------------------------------------------------------
Init ==
  /\ caller = [pc |-> "idle", op |-> "none", sup |-> NoSup, conn |-> NoConn]
  /\ client = NoConn /\ handle = NoSup
  /\ sup = [s \in Sup |-> [pc |-> "none", told |-> FALSE, attempt |-> 0,
                           conn |-> NoConn, woken |-> FALSE]]
  /\ conn = [c \in Conn |-> [slot |-> FALSE, reader |-> "off", flag |-> FALSE,
                             aborted |-> FALSE]]
  /\ ops = 0 /\ lapsed = FALSE /\ overlapped = FALSE

Next ==
  \/ Calls \/ CallerStep \/ CallerDial
  \/ \E s \in Sup : SupStep(s) \/ SupDial(s)
  \/ \E c \in Conn : ReaderEnds(c) \/ ReaderStep(c)

Spec == Init /\ [][Next]_vars

\* tokio runs every ready task, and the waits of disconnect and of the back-off
\* are timed.  Nothing makes a hub answer, or close.
FairSpec ==
  /\ Spec
  /\ WF_vars(CallerStep)
  /\ \A s \in Sup : WF_vars(SupStep(s))
  /\ \A c \in Conn : WF_vars(ReaderStep(c))

-----------------------------------------------------------------------------
CallerType ==
  [pc : CallerPc, op : {"none", "connect", "disconnect", "supervise"},
   sup : Sup \cup {NoSup}, conn : Conn \cup {NoConn}]
SupType ==
  [pc : SupPc, told : BOOLEAN, attempt : 0..LastAttempt, conn : Conn \cup {NoConn},
   woken : BOOLEAN]
ConnType == [slot : BOOLEAN, reader : ReaderPc, flag : BOOLEAN, aborted : BOOLEAN]

TypeOK ==
  /\ caller \in CallerType
  /\ client \in Conn \cup {NoConn} /\ handle \in Sup \cup {NoSup}
  /\ sup \in [Sup -> SupType] /\ conn \in [Conn -> ConnType]
  /\ ops \in 0..MaxOps /\ lapsed \in BOOLEAN /\ overlapped \in BOOLEAN

\* Who may be at work while no disconnect has lapsed: the only live supervisor is
\* the one in the handle, or the one that disconnect waits for; from the moment
\* that disconnect has taken the client there is none.
CallerInv ==
  /\ caller.pc \in {"awaitSup", "takeClient", "closing", "spawn"}
       => caller.op \in {"disconnect", "supervise"}
  /\ caller.pc \in {"dialling", "registered", "install"} => caller.op = "connect"
  /\ caller.pc = "spawn" => caller.op = "supervise"
  /\ caller.pc = "awaitSup" => caller.sup \in Sup
  /\ caller.op = "disconnect" \/ caller.pc \in {"awaitSup", "takeClient", "closing", "spawn"}
       => handle = NoSup

\* The back-off is left for another attempt only.
DelayInv == \A s \in Sup : sup[s].pc = "delay" => sup[s].attempt < MaxAttempts

AliveInv ==
  ~lapsed => \A s \in Sup :
    Alive(s) => s = handle \/ (caller.pc = "awaitSup" /\ caller.sup = s)

TakenInv ==
  /\ ~lapsed /\ caller.pc \in {"closing", "spawn"} => client = NoConn
  /\ ~lapsed /\ caller.pc = "idle" /\ caller.op = "disconnect" => client = NoConn

SlotsWithin(S) == \A c \in Conn : conn[c].slot => c \in S

\* The one connection that may have a slot, by the position of the supervisor
\* while one is alive and by that of the caller otherwise.
SupSession(s) ==
  /\ caller.pc \in {"idle", "awaitSup"}
  /\ sup[s].pc \in {"dialling", "delay"} => client = NoConn /\ SlotsWithin({})
  /\ sup[s].pc \in {"registered", "publish", "closing"}
       => client = NoConn /\ SlotsWithin({sup[s].conn})
  /\ sup[s].pc \in Watching \cup {"lost"} => client = sup[s].conn /\ SlotsWithin({client})

CallerSession ==
  /\ caller.pc \in {"idle", "awaitSup", "takeClient"} => SlotsWithin({client})
  /\ caller.pc \in {"registered", "install", "closing"} => SlotsWithin({caller.conn})
  /\ caller.pc \in {"dialling", "spawn"} => SlotsWithin({})

SessionInv ==
  ~lapsed /\ ~overlapped =>
    /\ \A s \in Sup : Alive(s) => SupSession(s)
    /\ (\A s \in Sup : ~Alive(s)) => CallerSession

\* The inductive invariant of the proofs.
IInv == TypeOK /\ DelayInv /\ CallerInv /\ AliveInv /\ TakenInv /\ SessionInv

\* When disconnect has returned, having seen its supervisor end, the vault is
\* quiet: no supervisor can dial again, there is no connection and, unless
\* connect was called over a live session, no peer slot.
DisconnectIsFinal ==
  caller.pc = "idle" /\ caller.op = "disconnect" /\ ~lapsed =>
    /\ client = NoConn
    /\ \A s \in Sup : ~Alive(s)
    /\ ~overlapped => \A c \in Conn : ~conn[c].slot

\* A vault has at most one session with its hub, through reconnects, repeated
\* calls and connections that are lost while they are being published.
OneSession ==
  ~lapsed /\ ~overlapped => \A c, d \in Conn : conn[c].slot /\ conn[d].slot => c = d

\* A supervisor whose connection has been lost notices it, whatever the order of
\* the reader's flag and notification and the supervisor's enable and check.
LostIsNoticed ==
  \A s \in Sup :
    (sup[s].pc \in Watching /\ conn[sup[s].conn].flag) ~> sup[s].pc \notin Watching

\* disconnect and connect_with_reconnect return, even when a supervisor is stuck
\* in a handshake that the hub never finishes.
DisconnectReturns ==
  (caller.op \in {"disconnect", "supervise"}) ~> (caller.pc = "idle")
=============================================================================
