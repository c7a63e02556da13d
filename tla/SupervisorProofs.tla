--------------------------- MODULE SupervisorProofs ---------------------------
(***************************************************************************)
(* Theorems about Supervisor for any number of connections, supervisors,   *)
(* attempts and calls.                                                     *)
(***************************************************************************)
EXTENDS Supervisor, TLAPS

(* What the assignments of the actions do to the types of the records.      *)

LEMMA GoTyped ==
  ASSUME sup \in [Sup -> SupType], NEW s \in Sup, NEW p \in SupPc, Go(s, p)
  PROVE  sup' \in [Sup -> SupType]
<1> DEFINE r == [sup[s] EXCEPT !.pc = p]
<1>1. r \in SupType BY DEF SupType
<1>2. sup' = [sup EXCEPT ![s] = r] BY DEF Go
<1> HIDE DEF r
<1> QED BY <1>1, <1>2

LEMMA HoldTyped ==
  ASSUME sup \in [Sup -> SupType], NEW s \in Sup, NEW p \in SupPc,
         NEW c \in Conn \cup {NoConn}, Hold(s, p, c)
  PROVE  sup' \in [Sup -> SupType]
<1> DEFINE r == [sup[s] EXCEPT !.pc = p, !.conn = c]
<1>1. r \in SupType BY DEF SupType
<1>2. sup' = [sup EXCEPT ![s] = r] BY DEF Hold
<1> HIDE DEF r
<1> QED BY <1>1, <1>2

LEMMA ReturnTyped ==
  ASSUME sup \in [Sup -> SupType], NEW s \in Sup, Return(s)
  PROVE  sup' \in [Sup -> SupType]
<1>1. 0 \in 0..LastAttempt BY SupervisorAssumption DEF LastAttempt
<1>2. Ended \in SupType BY <1>1 DEF SupType, SupPc, Ended
<1> QED BY <1>2 DEF Return

LEMMA RedialTyped ==
  ASSUME sup \in [Sup -> SupType], NEW s \in Sup, Redial(s)
  PROVE  sup' \in [Sup -> SupType]
<1> DEFINE r == [sup[s] EXCEPT !.pc = "dialling", !.attempt = 1, !.conn = NoConn,
                               !.woken = FALSE]
<1>1. 1 \in 0..LastAttempt BY SupervisorAssumption DEF LastAttempt
<1>2. r \in SupType BY <1>1 DEF SupType, SupPc
<1>3. sup' = [sup EXCEPT ![s] = r] BY DEF Redial
<1> HIDE DEF r
<1> QED BY <1>2, <1>3

\* A supervisor waits only before its last attempt, so the next one is in range.
LEMMA DelayTyped ==
  ASSUME sup \in [Sup -> SupType], NEW s \in Sup, DelayEnds(s), DelayInv
  PROVE  sup' \in [Sup -> SupType]
<1> DEFINE r == [sup[s] EXCEPT !.pc = "dialling", !.attempt = @ + 1]
<1>1. sup[s].attempt + 1 \in 0..LastAttempt
  BY SupervisorAssumption DEF DelayEnds, DelayInv, SupType, LastAttempt
<1>2. r \in SupType BY <1>1 DEF SupType, SupPc
<1>3. sup' = [sup EXCEPT ![s] = r] BY DEF DelayEnds
<1> HIDE DEF r
<1> QED BY <1>2, <1>3

LEMMA MoveTyped ==
  ASSUME caller \in CallerType, NEW p \in CallerPc, Move(p)
  PROVE  caller' \in CallerType
BY DEF CallerType, Move

LEMMA MoveWithTyped ==
  ASSUME caller \in CallerType, NEW p \in CallerPc, NEW c \in Conn \cup {NoConn},
         MoveWith(p, c)
  PROVE  caller' \in CallerType
BY DEF CallerType, MoveWith

LEMMA AbortedTyped ==
  ASSUME conn \in [Conn -> ConnType], NEW d, conn' = Aborted(conn, d)
  PROVE  conn' \in [Conn -> ConnType]
BY DEF ConnType, Aborted

LEMMA UnregisteredTyped ==
  ASSUME conn \in [Conn -> ConnType], NEW d, conn' = Unregistered(conn, d)
  PROVE  conn' \in [Conn -> ConnType]
BY DEF ConnType, Unregistered

\* The shutdown message changes one field of one supervisor.
LEMMA ToldTyped ==
  ASSUME TypeOK, NEW op, disconnect(op)
  PROVE  sup' \in [Sup -> SupType]
<1>1. ASSUME NEW s \in Sup PROVE [sup[s] EXCEPT !.told = TRUE] \in SupType
  BY DEF TypeOK, SupType
<1> QED
  BY <1>1 DEF TypeOK, disconnect

LEMMA Initially == Init => IInv
<1> SUFFICES ASSUME Init PROVE IInv
  OBVIOUS
<1>1. 0 \in 0..LastAttempt /\ 0 \in 0..MaxOps
  BY SupervisorAssumption DEF LastAttempt
<1>2. caller \in CallerType
  BY DEF Init, CallerType, CallerPc
<1>3. sup \in [Sup -> SupType] /\ conn \in [Conn -> ConnType]
  BY <1>1 DEF Init, SupType, SupPc, ConnType, ReaderPc
<1>4. TypeOK
  BY <1>1, <1>2, <1>3 DEF Init, TypeOK
<1>5. DelayInv /\ CallerInv /\ AliveInv /\ TakenInv
  BY DEF Init, DelayInv, CallerInv, AliveInv, Alive, TakenInv
<1>6. SessionInv
  BY DEF Init, SessionInv, CallerSession, SlotsWithin, Alive
<1> QED
  BY <1>4, <1>5, <1>6 DEF IInv

(* What a step of each task does to the invariant, one step per action.    *)
LEMMA StepKeepsIInv == IInv /\ [Next]_vars => IInv'
<1> SUFFICES ASSUME IInv, [Next]_vars PROVE IInv'
  OBVIOUS
<1> USE SupervisorAssumption
<1> USE DEF IInv
<1>1. ASSUME connect PROVE IInv'
  <2>1. TypeOK'
    <3>1. caller' \in CallerType
      BY <1>1 DEF TypeOK, connect, Call, CallerType, CallerPc
    <3>2. ops' \in 0..MaxOps
      BY <1>1 DEF TypeOK, connect, Call
    <3>3. overlapped' \in BOOLEAN
      BY <1>1 DEF TypeOK, connect, Call
    <3> QED BY <1>1, <3>1, <3>2, <3>3 DEF TypeOK, connect
  <2>2. CallerInv'
    BY <1>1 DEF connect, Call, CallerInv
  <2>3. AliveInv'
    BY <1>1 DEF connect, Call, TypeOK, CallerType, AliveInv, Alive
  <2>4. TakenInv'
    BY <1>1 DEF connect, Call, TypeOK, CallerType, TakenInv
  <2>5. SessionInv'
    <3> SUFFICES ASSUME ~lapsed', ~overlapped' PROVE SessionInv'
      BY DEF SessionInv
    <3>1. /\ ~lapsed /\ ~overlapped /\ \A s \in Sup : ~Alive(s)
          /\ client = NoConn \/ ~conn[client].slot
      BY <1>1 DEF connect
    <3>2. SlotsWithin({client})
      BY <1>1, <3>1 DEF connect, Call, SessionInv, CallerSession
    <3>3. SlotsWithin({})
      BY <3>1, <3>2 DEF SlotsWithin
    <3>4. SlotsWithin({})' /\ caller'.pc = "dialling" /\ \A s \in Sup : ~Alive(s)'
      BY <1>1, <3>1, <3>3 DEF connect, Call, SlotsWithin, Alive, TypeOK, CallerType
    <3> QED
      BY <3>4 DEF SessionInv, CallerSession
  <2>6. DelayInv'
    BY <1>1 DEF connect, DelayInv
  <2> QED BY <2>1, <2>2, <2>3, <2>4, <2>5, <2>6
<1>2. ASSUME disconnect("disconnect") PROVE IInv'
  <2>1. TypeOK'
    <3>1. caller' \in CallerType
      BY <1>2 DEF TypeOK, disconnect, Call, CallerType, CallerPc
    <3>2. sup' \in [Sup -> SupType]
      BY <1>2, ToldTyped DEF TypeOK
    <3>3. ops' \in 0..MaxOps
      BY <1>2 DEF TypeOK, disconnect, Call
    <3> QED BY <1>2, <3>1, <3>2, <3>3 DEF TypeOK, disconnect
  <2>2. CallerInv'
    BY <1>2 DEF disconnect, Call, TypeOK, CallerType, CallerInv
  <2>3. AliveInv'
    BY <1>2 DEF disconnect, Call, TypeOK, CallerType, AliveInv, Alive
  <2>4. TakenInv'
    BY <1>2 DEF disconnect, Call, TypeOK, CallerType, TakenInv
  <2>5. SessionInv'
    BY <1>2 DEF disconnect, Call, TypeOK, CallerType, SupType, ConnType,
       AliveInv, CallerInv, SessionInv, SupSession, CallerSession, SlotsWithin,
       Alive
  <2>6. DelayInv'
    BY <1>2 DEF disconnect, DelayInv
  <2> QED BY <2>1, <2>2, <2>3, <2>4, <2>5, <2>6
<1>3. ASSUME connect_with_reconnect PROVE IInv'
  <2>1. TypeOK'
    <3>1. caller' \in CallerType
      BY <1>3 DEF TypeOK, connect_with_reconnect, disconnect, Call,
         CallerType, CallerPc
    <3>2. sup' \in [Sup -> SupType]
      BY <1>3, ToldTyped DEF TypeOK, connect_with_reconnect
    <3>3. ops' \in 0..MaxOps
      BY <1>3 DEF TypeOK, connect_with_reconnect, disconnect, Call
    <3> QED BY <1>3, <3>1, <3>2, <3>3 DEF TypeOK, connect_with_reconnect,
           disconnect
  <2>2. CallerInv'
    BY <1>3 DEF connect_with_reconnect, disconnect, Call, TypeOK, CallerType,
       CallerInv
  <2>3. AliveInv'
    BY <1>3 DEF connect_with_reconnect, disconnect, Call, TypeOK, CallerType,
       AliveInv, Alive
  <2>4. TakenInv'
    BY <1>3 DEF connect_with_reconnect, disconnect, Call, TypeOK, CallerType,
       TakenInv
  <2>5. SessionInv'
    BY <1>3 DEF connect_with_reconnect, disconnect, Call, TypeOK, CallerType,
       SupType, ConnType, AliveInv, CallerInv, SessionInv, SupSession,
       CallerSession, SlotsWithin, Alive
  <2>6. DelayInv'
    BY <1>3 DEF connect_with_reconnect, disconnect, DelayInv
  <2> QED BY <2>1, <2>2, <2>3, <2>4, <2>5, <2>6
<1>4. ASSUME ConnectStartsTasks PROVE IInv'
  <2>1. TypeOK'
    <3>1. caller' \in CallerType
      BY <1>4, MoveTyped DEF TypeOK, ConnectStartsTasks, CallerPc
    <3>2. conn' \in [Conn -> ConnType]
      BY <1>4 DEF TypeOK, ConnectStartsTasks, WithTasks, ConnType, ReaderPc
    <3> QED BY <1>4, <3>1, <3>2 DEF TypeOK, ConnectStartsTasks
  <2>2. CallerInv'
    BY <1>4 DEF Move, ConnectStartsTasks, CallerInv
  <2>3. AliveInv'
    BY <1>4 DEF ConnectStartsTasks, AliveInv, Alive
  <2>4. TakenInv'
    BY <1>4 DEF Move, ConnectStartsTasks, TypeOK, CallerType, TakenInv
  <2>5. SessionInv'
    BY <1>4 DEF Move, ConnectStartsTasks, WithTasks, SessionInv, SupSession,
       CallerSession, SlotsWithin, Alive
  <2>6. DelayInv'
    BY <1>4 DEF ConnectStartsTasks, DelayInv
  <2> QED BY <2>1, <2>2, <2>3, <2>4, <2>5, <2>6
<1>5. ASSUME ConnectInstalls PROVE IInv'
  <2>1. TypeOK'
    <3>1. caller' \in CallerType
      BY <1>5, MoveWithTyped DEF TypeOK, ConnectInstalls, CallerPc
    <3>2. conn' \in [Conn -> ConnType]
      BY <1>5, AbortedTyped DEF TypeOK, ConnectInstalls
    <3>3. client' \in Conn \cup {NoConn}
      BY <1>5 DEF TypeOK, ConnectInstalls, SupType, CallerType
    <3> QED BY <1>5, <3>1, <3>2, <3>3 DEF TypeOK, ConnectInstalls
  <2>2. CallerInv'
    BY <1>5 DEF MoveWith, ConnectInstalls, CallerInv
  <2>3. AliveInv'
    BY <1>5 DEF ConnectInstalls, AliveInv, Alive
  <2>4. TakenInv'
    BY <1>5 DEF MoveWith, ConnectInstalls, TypeOK, CallerType, AliveInv,
       CallerInv, Alive, TakenInv
  <2>5. SessionInv'
    BY <1>5 DEF MoveWith, ConnectInstalls, Aborted, SessionInv, SupSession,
       CallerSession, SlotsWithin, Alive
  <2>6. DelayInv'
    BY <1>5 DEF ConnectInstalls, DelayInv
  <2> QED BY <2>1, <2>2, <2>3, <2>4, <2>5, <2>6
<1>6. ASSUME SupervisorJoined PROVE IInv'
  <2>1. TypeOK'
    <3>1. caller' \in CallerType
      BY <1>6, MoveTyped DEF TypeOK, SupervisorJoined, CallerPc
    <3> QED BY <1>6, <3>1 DEF TypeOK, SupervisorJoined
  <2>2. CallerInv'
    BY <1>6 DEF Move, SupervisorJoined, CallerInv
  <2>3. AliveInv'
    BY <1>6 DEF SupervisorJoined, AliveInv, Alive
  <2>4. TakenInv'
    BY <1>6 DEF Move, SupervisorJoined, TypeOK, CallerType, TakenInv
  <2>5. SessionInv'
    BY <1>6 DEF Move, SupervisorJoined, TypeOK, CallerType, SupType,
       ConnType, AliveInv, CallerInv, SessionInv, SupSession, CallerSession,
       SlotsWithin, Alive
  <2>6. DelayInv'
    BY <1>6 DEF SupervisorJoined, DelayInv
  <2> QED BY <2>1, <2>2, <2>3, <2>4, <2>5, <2>6
<1>7. ASSUME JoinLapses PROVE IInv'
  <2>1. TypeOK'
    <3>1. caller' \in CallerType
      BY <1>7, MoveTyped DEF TypeOK, JoinLapses, CallerPc
    <3> QED BY <1>7, <3>1 DEF TypeOK, JoinLapses
  <2>2. CallerInv'
    BY <1>7 DEF Move, JoinLapses, CallerInv
  <2>3. AliveInv'
    BY <1>7 DEF JoinLapses, AliveInv, Alive
  <2>4. TakenInv'
    BY <1>7 DEF JoinLapses, TakenInv
  <2>5. SessionInv'
    BY <1>7 DEF Move, JoinLapses, SessionInv, SupSession, CallerSession,
       SlotsWithin, Alive
  <2>6. DelayInv'
    BY <1>7 DEF JoinLapses, DelayInv
  <2> QED BY <2>1, <2>2, <2>3, <2>4, <2>5, <2>6
<1>8. ASSUME TakeClient PROVE IInv'
  <2>1. TypeOK'
    <3>1. caller' \in CallerType
      BY <1>8, MoveWithTyped DEF TypeOK, TakeClient, CallerPc
    <3>2. conn' \in [Conn -> ConnType]
      BY <1>8, AbortedTyped DEF TypeOK, TakeClient
    <3> QED BY <1>8, <3>1, <3>2 DEF TypeOK, TakeClient
  <2>2. CallerInv'
    BY <1>8 DEF MoveWith, TakeClient, CallerInv
  <2>3. AliveInv'
    BY <1>8 DEF TakeClient, AliveInv, Alive
  <2>4. TakenInv'
    BY <1>8 DEF TakeClient, TakenInv
  <2>5. SessionInv'
    BY <1>8 DEF MoveWith, TakeClient, Aborted, SessionInv, SupSession,
       CallerSession, SlotsWithin, Alive
  <2>6. DelayInv'
    BY <1>8 DEF TakeClient, DelayInv
  <2> QED BY <2>1, <2>2, <2>3, <2>4, <2>5, <2>6
<1>9. ASSUME CloseClient PROVE IInv'
  <2>1. TypeOK'
    <3>1. caller' \in CallerType
      BY <1>9, MoveWithTyped DEF TypeOK, CloseClient, CallerPc
    <3>2. conn' \in [Conn -> ConnType]
      BY <1>9, UnregisteredTyped DEF TypeOK, CloseClient
    <3> QED BY <1>9, <3>1, <3>2 DEF TypeOK, CloseClient
  <2>2. CallerInv'
    BY <1>9 DEF MoveWith, CloseClient, CallerInv
  <2>3. AliveInv'
    BY <1>9 DEF CloseClient, AliveInv, Alive
  <2>4. TakenInv'
    BY <1>9 DEF CloseClient, TakenInv
  <2>5. SessionInv'
    BY <1>9 DEF MoveWith, CloseClient, Unregistered, TypeOK, ConnType,
       SessionInv, SupSession, CallerSession, SlotsWithin, Alive
  <2>6. DelayInv'
    BY <1>9 DEF CloseClient, DelayInv
  <2> QED BY <2>1, <2>2, <2>3, <2>4, <2>5, <2>6
<1>10. ASSUME NEW s \in Sup, SpawnSupervisor(s) PROVE IInv'
  <2>1. TypeOK'
    <3>1. caller' \in CallerType
      BY <1>10, MoveTyped DEF TypeOK, SpawnSupervisor, CallerPc
    <3>2. sup' \in [Sup -> SupType]
      BY <1>10, RedialTyped DEF TypeOK, SpawnSupervisor
    <3> QED BY <1>10, <3>1, <3>2 DEF TypeOK, SpawnSupervisor
  <2>2. CallerInv'
    BY <1>10 DEF Move, SpawnSupervisor, CallerInv
  <2>3. AliveInv'
    BY <1>10 DEF Move, SpawnSupervisor, Redial, TypeOK, CallerType, SupType,
       CallerInv, AliveInv, Alive
  <2>4. TakenInv'
    BY <1>10 DEF SpawnSupervisor, TakenInv
  <2>5. SessionInv'
    BY <1>10 DEF Move, SpawnSupervisor, Redial, TypeOK, CallerType, CallerPc,
       SupType, SupPc, ConnType, ReaderPc, Watching, LastAttempt, CallerInv,
       AliveInv, TakenInv, SessionInv, SupSession, CallerSession, SlotsWithin,
       Alive
  <2>6. DelayInv'
    BY <1>10 DEF SpawnSupervisor, Redial, TypeOK, SupType, DelayInv
  <2> QED BY <2>1, <2>2, <2>3, <2>4, <2>5, <2>6
<1>11. ASSUME ConnectFails PROVE IInv'
  <2>1. TypeOK'
    <3>1. caller' \in CallerType
      BY <1>11, MoveTyped DEF TypeOK, ConnectFails, CallerPc
    <3> QED BY <1>11, <3>1 DEF TypeOK, ConnectFails
  <2>2. CallerInv'
    BY <1>11 DEF Move, ConnectFails, CallerInv
  <2>3. AliveInv'
    BY <1>11 DEF ConnectFails, AliveInv, Alive
  <2>4. TakenInv'
    BY <1>11 DEF Move, ConnectFails, TypeOK, CallerType, AliveInv, CallerInv,
       Alive, TakenInv
  <2>5. SessionInv'
    BY <1>11 DEF Move, ConnectFails, SessionInv, SupSession, CallerSession,
       SlotsWithin, Alive
  <2>6. DelayInv'
    BY <1>11 DEF ConnectFails, DelayInv
  <2> QED BY <2>1, <2>2, <2>3, <2>4, <2>5, <2>6
<1>12. ASSUME NEW c \in Conn, ConnectRegisters(c) PROVE IInv'
  <2>1. TypeOK'
    <3>1. caller' \in CallerType
      BY <1>12, MoveWithTyped DEF TypeOK, ConnectRegisters, CallerPc
    <3>2. conn' \in [Conn -> ConnType]
      BY <1>12 DEF TypeOK, ConnectRegisters, WithSlot, ConnType, ReaderPc
    <3> QED BY <1>12, <3>1, <3>2 DEF TypeOK, ConnectRegisters
  <2>2. CallerInv'
    BY <1>12 DEF MoveWith, ConnectRegisters, CallerInv
  <2>3. AliveInv'
    BY <1>12 DEF ConnectRegisters, AliveInv, Alive
  <2>4. TakenInv'
    BY <1>12 DEF MoveWith, ConnectRegisters, TypeOK, CallerType, TakenInv
  <2>5. SessionInv'
    BY <1>12 DEF MoveWith, ConnectRegisters, WithSlot, next_peer_id, Unused,
       SessionInv, SupSession, CallerSession, SlotsWithin, Alive
  <2>6. DelayInv'
    BY <1>12 DEF ConnectRegisters, DelayInv
  <2> QED BY <2>1, <2>2, <2>3, <2>4, <2>5, <2>6
<1>13. ASSUME NEW s \in Sup, DelayEnds(s) PROVE IInv'
  <2>1. TypeOK'
    <3>1. sup' \in [Sup -> SupType]
      BY <1>13, DelayTyped DEF TypeOK, DelayEnds
    <3> QED BY <1>13, <3>1 DEF TypeOK, DelayEnds, SupUnchanged
  <2>2. CallerInv'
    BY <1>13 DEF DelayEnds, SupUnchanged, CallerInv
  <2>3. AliveInv'
    BY <1>13 DEF DelayEnds, SupUnchanged, TypeOK, SupType, AliveInv, Alive
  <2>4. TakenInv'
    BY <1>13 DEF DelayEnds, SupUnchanged, TakenInv
  <2>5. SessionInv'
    BY <1>13 DEF DelayEnds, SupUnchanged, TypeOK, SupType, ConnType,
       SessionInv, SupSession, CallerSession, SlotsWithin, Alive
  <2>6. DelayInv'
    BY <1>13 DEF DelayEnds, SupUnchanged, TypeOK, SupType, DelayInv
  <2> QED BY <2>1, <2>2, <2>3, <2>4, <2>5, <2>6
<1>14. ASSUME NEW s \in Sup, DelayShutdown(s) PROVE IInv'
  <2>1. TypeOK'
    <3>1. sup' \in [Sup -> SupType]
      BY <1>14, ReturnTyped DEF TypeOK, DelayShutdown
    <3> QED BY <1>14, <3>1 DEF TypeOK, DelayShutdown, SupUnchanged
  <2>2. CallerInv'
    BY <1>14 DEF DelayShutdown, SupUnchanged, CallerInv
  <2>3. AliveInv'
    BY <1>14 DEF DelayShutdown, SupUnchanged, Return, Ended, TypeOK, SupType,
       AliveInv, Alive
  <2>4. TakenInv'
    BY <1>14 DEF DelayShutdown, SupUnchanged, TakenInv
  <2>5. SessionInv'
    BY <1>14 DEF DelayShutdown, SupUnchanged, Return, Ended, SessionInv,
       SupSession, CallerSession, SlotsWithin, Alive
  <2>6. DelayInv'
    BY <1>14 DEF DelayShutdown, SupUnchanged, Return, Ended, DelayInv
  <2> QED BY <2>1, <2>2, <2>3, <2>4, <2>5, <2>6
<1>15. ASSUME NEW s \in Sup, StartTasks(s) PROVE IInv'
  <2>1. TypeOK'
    <3>1. sup' \in [Sup -> SupType]
      BY <1>15, GoTyped DEF TypeOK, StartTasks, SupPc, Watching
    <3>2. conn' \in [Conn -> ConnType]
      BY <1>15 DEF TypeOK, StartTasks, WithTasks, ConnType, ReaderPc
    <3> QED BY <1>15, <3>1, <3>2 DEF TypeOK, StartTasks, SupUnchanged
  <2>2. CallerInv'
    BY <1>15 DEF StartTasks, SupUnchanged, CallerInv
  <2>3. AliveInv'
    BY <1>15 DEF StartTasks, SupUnchanged, Go, TypeOK, SupType, AliveInv,
       Alive
  <2>4. TakenInv'
    BY <1>15 DEF StartTasks, SupUnchanged, TakenInv
  <2>5. SessionInv'
    BY <1>15 DEF StartTasks, SupUnchanged, Go, WithTasks, TypeOK, SupType,
       SupPc, Watching, ConnType, SessionInv, SupSession, CallerSession,
       SlotsWithin, Alive
  <2>6. DelayInv'
    BY <1>15 DEF StartTasks, SupUnchanged, Go, DelayInv
  <2> QED BY <2>1, <2>2, <2>3, <2>4, <2>5, <2>6
<1>16. ASSUME NEW s \in Sup, Publish(s) PROVE IInv'
  <2>1. TypeOK'
    <3>1. sup' \in [Sup -> SupType]
      BY <1>16, GoTyped DEF TypeOK, Publish, SupPc, Watching
    <3>2. conn' \in [Conn -> ConnType]
      BY <1>16, AbortedTyped DEF TypeOK, Publish
    <3>3. client' \in Conn \cup {NoConn}
      BY <1>16 DEF TypeOK, Publish, SupType, CallerType
    <3> QED BY <1>16, <3>1, <3>2, <3>3 DEF TypeOK, Publish, SupUnchanged
  <2>2. CallerInv'
    BY <1>16 DEF Publish, SupUnchanged, CallerInv
  <2>3. AliveInv'
    BY <1>16 DEF Publish, SupUnchanged, Go, TypeOK, SupType, AliveInv, Alive
  <2>4. TakenInv'
    BY <1>16 DEF Publish, SupUnchanged, AliveInv, CallerInv, Alive, TakenInv
  <2>5. SessionInv'
    BY <1>16 DEF Publish, SupUnchanged, Go, Aborted, TypeOK, CallerType,
       SupType, ConnType, AliveInv, CallerInv, SessionInv, SupSession,
       CallerSession, SlotsWithin, Alive
  <2>6. DelayInv'
    BY <1>16 DEF Publish, SupUnchanged, Go, DelayInv
  <2> QED BY <2>1, <2>2, <2>3, <2>4, <2>5, <2>6
<1>17. ASSUME NEW s \in Sup, EnableNotified(s) PROVE IInv'
  <2>1. TypeOK'
    <3>1. sup' \in [Sup -> SupType]
      BY <1>17, GoTyped DEF TypeOK, EnableNotified, SupPc, Watching
    <3> QED BY <1>17, <3>1 DEF TypeOK, EnableNotified, SupUnchanged
  <2>2. CallerInv'
    BY <1>17 DEF EnableNotified, SupUnchanged, CallerInv
  <2>3. AliveInv'
    BY <1>17 DEF EnableNotified, SupUnchanged, Go, TypeOK, SupType, AliveInv,
       Alive
  <2>4. TakenInv'
    BY <1>17 DEF EnableNotified, SupUnchanged, TakenInv
  <2>5. SessionInv'
    BY <1>17 DEF EnableNotified, SupUnchanged, Go, TypeOK, SupType, SupPc,
       Watching, ConnType, SessionInv, SupSession, CallerSession, SlotsWithin,
       Alive
  <2>6. DelayInv'
    BY <1>17 DEF EnableNotified, SupUnchanged, Go, DelayInv
  <2> QED BY <2>1, <2>2, <2>3, <2>4, <2>5, <2>6
<1>18. ASSUME NEW s \in Sup, CheckClosed(s) PROVE IInv'
  <2>1. TypeOK'
    <3>1. sup' \in [Sup -> SupType]
      BY <1>18, GoTyped DEF TypeOK, CheckClosed, SupPc, Watching
    <3> QED BY <1>18, <3>1 DEF TypeOK, CheckClosed, SupUnchanged
  <2>2. CallerInv'
    BY <1>18 DEF CheckClosed, SupUnchanged, CallerInv
  <2>3. AliveInv'
    BY <1>18 DEF CheckClosed, SupUnchanged, Go, TypeOK, SupType, AliveInv,
       Alive
  <2>4. TakenInv'
    BY <1>18 DEF CheckClosed, SupUnchanged, TakenInv
  <2>5. SessionInv'
    BY <1>18 DEF CheckClosed, SupUnchanged, Go, TypeOK, SupType, SupPc,
       Watching, ConnType, SessionInv, SupSession, CallerSession, SlotsWithin,
       Alive
  <2>6. DelayInv'
    BY <1>18 DEF CheckClosed, SupUnchanged, Go, DelayInv
  <2> QED BY <2>1, <2>2, <2>3, <2>4, <2>5, <2>6
<1>19. ASSUME NEW s \in Sup, Woken(s) PROVE IInv'
  <2>1. TypeOK'
    <3>1. sup' \in [Sup -> SupType]
      BY <1>19, GoTyped DEF TypeOK, Woken, SupPc, Watching
    <3> QED BY <1>19, <3>1 DEF TypeOK, Woken, SupUnchanged
  <2>2. CallerInv'
    BY <1>19 DEF Woken, SupUnchanged, CallerInv
  <2>3. AliveInv'
    BY <1>19 DEF Woken, SupUnchanged, Go, TypeOK, SupType, AliveInv, Alive
  <2>4. TakenInv'
    BY <1>19 DEF Woken, SupUnchanged, TakenInv
  <2>5. SessionInv'
    BY <1>19 DEF Woken, SupUnchanged, Go, TypeOK, SupType, SupPc, Watching,
       ConnType, SessionInv, SupSession, CallerSession, SlotsWithin, Alive
  <2>6. DelayInv'
    BY <1>19 DEF Woken, SupUnchanged, Go, DelayInv
  <2> QED BY <2>1, <2>2, <2>3, <2>4, <2>5, <2>6
<1>20. ASSUME NEW s \in Sup, WatchShutdown(s) PROVE IInv'
  <2>1. TypeOK'
    <3>1. sup' \in [Sup -> SupType]
      BY <1>20, ReturnTyped DEF TypeOK, WatchShutdown
    <3> QED BY <1>20, <3>1 DEF TypeOK, WatchShutdown, SupUnchanged
  <2>2. CallerInv'
    BY <1>20 DEF WatchShutdown, SupUnchanged, CallerInv
  <2>3. AliveInv'
    BY <1>20 DEF WatchShutdown, SupUnchanged, Return, Ended, TypeOK, SupType,
       AliveInv, Alive
  <2>4. TakenInv'
    BY <1>20 DEF WatchShutdown, SupUnchanged, TakenInv
  <2>5. SessionInv'
    BY <1>20 DEF WatchShutdown, SupUnchanged, Return, Ended, TypeOK, SupType,
       SupPc, Watching, ConnType, SessionInv, SupSession, CallerSession,
       SlotsWithin, Alive
  <2>6. DelayInv'
    BY <1>20 DEF WatchShutdown, SupUnchanged, Return, Ended, DelayInv
  <2> QED BY <2>1, <2>2, <2>3, <2>4, <2>5, <2>6
<1>21. ASSUME NEW s \in Sup, TakeDead(s) PROVE IInv'
  <2>1. TypeOK'
    <3>1. sup' \in [Sup -> SupType]
      BY <1>21, HoldTyped DEF TypeOK, TakeDead, SupPc
    <3>2. conn' \in [Conn -> ConnType]
      BY <1>21, AbortedTyped DEF TypeOK, TakeDead
    <3> QED BY <1>21, <3>1, <3>2 DEF TypeOK, TakeDead, SupUnchanged
  <2>2. CallerInv'
    BY <1>21 DEF TakeDead, SupUnchanged, CallerInv
  <2>3. AliveInv'
    BY <1>21 DEF Hold, TakeDead, SupUnchanged, TypeOK, SupType, AliveInv,
       Alive
  <2>4. TakenInv'
    BY <1>21 DEF TakeDead, SupUnchanged, TakenInv
  <2>5. SessionInv'
    BY <1>21 DEF Hold, TakeDead, SupUnchanged, Aborted, TypeOK, CallerType,
       CallerPc, SupType, SupPc, ConnType, ReaderPc, Watching, LastAttempt,
       CallerInv, AliveInv, TakenInv, SessionInv, SupSession, CallerSession,
       SlotsWithin, Alive
  <2>6. DelayInv'
    BY <1>21 DEF Hold, TakeDead, SupUnchanged, TypeOK, SupType, DelayInv
  <2> QED BY <2>1, <2>2, <2>3, <2>4, <2>5, <2>6
<1>22. ASSUME NEW s \in Sup, CloseDead(s) PROVE IInv'
  <2>1. TypeOK'
    <3>1. sup' \in [Sup -> SupType]
      BY <1>22, RedialTyped DEF TypeOK, CloseDead
    <3>2. conn' \in [Conn -> ConnType]
      BY <1>22, UnregisteredTyped DEF TypeOK, CloseDead
    <3> QED BY <1>22, <3>1, <3>2 DEF TypeOK, CloseDead, SupUnchanged
  <2>2. CallerInv'
    BY <1>22 DEF CloseDead, SupUnchanged, CallerInv
  <2>3. AliveInv'
    BY <1>22 DEF CloseDead, SupUnchanged, Redial, TypeOK, SupType, AliveInv,
       Alive
  <2>4. TakenInv'
    BY <1>22 DEF CloseDead, SupUnchanged, TakenInv
  <2>5. SessionInv'
    BY <1>22 DEF CloseDead, SupUnchanged, Redial, Unregistered, TypeOK,
       ConnType, SessionInv, SupSession, CallerSession, SlotsWithin, Alive
  <2>6. DelayInv'
    BY <1>22 DEF CloseDead, SupUnchanged, Redial, TypeOK, SupType, DelayInv
  <2> QED BY <2>1, <2>2, <2>3, <2>4, <2>5, <2>6
<1>23. ASSUME NEW s \in Sup, DialFails(s) PROVE IInv'
  <2>1. TypeOK'
    <3>1. sup' \in [Sup -> SupType]
      BY <1>23, GoTyped, ReturnTyped DEF TypeOK, DialFails, SupPc
    <3> QED BY <1>23, <3>1 DEF TypeOK, DialFails, SupUnchanged
  <2>2. CallerInv'
    BY <1>23 DEF DialFails, SupUnchanged, CallerInv
  <2>3. AliveInv'
    BY <1>23 DEF DialFails, SupUnchanged, Go, Return, Ended, TypeOK, SupType,
       AliveInv, Alive
  <2>4. TakenInv'
    BY <1>23 DEF DialFails, SupUnchanged, TakenInv
  <2>5. SessionInv'
    BY <1>23 DEF DialFails, SupUnchanged, Go, Return, Ended, TypeOK, SupType,
       SupPc, Watching, ConnType, SessionInv, SupSession, CallerSession,
       SlotsWithin, Alive
  <2>6. DelayInv'
    BY <1>23 DEF DialFails, SupUnchanged, Go, Return, Ended, TypeOK, SupType,
       DelayInv
  <2> QED BY <2>1, <2>2, <2>3, <2>4, <2>5, <2>6
<1>24. ASSUME NEW s \in Sup, NEW c \in Conn, Register(s, c) PROVE IInv'
  <2>1. TypeOK'
    <3>1. sup' \in [Sup -> SupType]
      BY <1>24, HoldTyped DEF TypeOK, Register, SupPc
    <3>2. conn' \in [Conn -> ConnType]
      BY <1>24 DEF TypeOK, Register, WithSlot, ConnType, ReaderPc
    <3> QED BY <1>24, <3>1, <3>2 DEF TypeOK, Register, SupUnchanged
  <2>2. CallerInv'
    BY <1>24 DEF Register, SupUnchanged, CallerInv
  <2>3. AliveInv'
    BY <1>24 DEF Hold, Register, SupUnchanged, TypeOK, SupType, AliveInv,
       Alive
  <2>4. TakenInv'
    BY <1>24 DEF Register, SupUnchanged, TakenInv
  <2>5. SessionInv'
    BY <1>24 DEF Hold, Register, SupUnchanged, WithSlot, next_peer_id,
       Unused, TypeOK, CallerType, CallerPc, SupType, SupPc, ConnType, ReaderPc,
       Watching, LastAttempt, CallerInv, AliveInv, TakenInv, SessionInv,
       SupSession, CallerSession, SlotsWithin, Alive
  <2>6. DelayInv'
    BY <1>24 DEF Hold, Register, SupUnchanged, TypeOK, SupType, DelayInv
  <2> QED BY <2>1, <2>2, <2>3, <2>4, <2>5, <2>6
<1>25. ASSUME NEW c \in Conn, ReaderEnds(c) PROVE IInv'
  <2>1. TypeOK'
    <3>1. conn' \in [Conn -> ConnType]
      BY <1>25 DEF TypeOK, ReaderEnds, ConnType, ReaderPc
    <3> QED BY <1>25, <3>1 DEF TypeOK, ReaderEnds, ReaderUnchanged
  <2>2. CallerInv'
    BY <1>25 DEF ReaderEnds, ReaderUnchanged, CallerInv
  <2>3. AliveInv'
    BY <1>25 DEF ReaderEnds, ReaderUnchanged, AliveInv, Alive
  <2>4. TakenInv'
    BY <1>25 DEF ReaderEnds, ReaderUnchanged, TakenInv
  <2>5. SessionInv'
    BY <1>25 DEF ReaderEnds, ReaderUnchanged, SessionInv, SupSession,
       CallerSession, SlotsWithin, Alive
  <2>6. DelayInv'
    BY <1>25 DEF ReaderEnds, ReaderUnchanged, DelayInv
  <2> QED BY <2>1, <2>2, <2>3, <2>4, <2>5, <2>6
<1>26. ASSUME NEW c \in Conn, ReaderAborts(c) PROVE IInv'
  <2>1. TypeOK'
    <3>1. conn' \in [Conn -> ConnType]
      BY <1>26 DEF TypeOK, ReaderAborts, ConnType, ReaderPc
    <3> QED BY <1>26, <3>1 DEF TypeOK, ReaderAborts, ReaderUnchanged
  <2>2. CallerInv'
    BY <1>26 DEF ReaderAborts, ReaderUnchanged, CallerInv
  <2>3. AliveInv'
    BY <1>26 DEF ReaderAborts, ReaderUnchanged, AliveInv, Alive
  <2>4. TakenInv'
    BY <1>26 DEF ReaderAborts, ReaderUnchanged, TakenInv
  <2>5. SessionInv'
    BY <1>26 DEF ReaderAborts, ReaderUnchanged, SessionInv, SupSession,
       CallerSession, SlotsWithin, Alive
  <2>6. DelayInv'
    BY <1>26 DEF ReaderAborts, ReaderUnchanged, DelayInv
  <2> QED BY <2>1, <2>2, <2>3, <2>4, <2>5, <2>6
<1>27. ASSUME NEW c \in Conn, ReaderUnregisters(c) PROVE IInv'
  <2>1. TypeOK'
    <3>1. conn' \in [Conn -> ConnType]
      BY <1>27 DEF TypeOK, ReaderUnregisters, ConnType, ReaderPc
    <3> QED BY <1>27, <3>1 DEF TypeOK, ReaderUnregisters, ReaderUnchanged
  <2>2. CallerInv'
    BY <1>27 DEF ReaderUnregisters, ReaderUnchanged, CallerInv
  <2>3. AliveInv'
    BY <1>27 DEF ReaderUnregisters, ReaderUnchanged, AliveInv, Alive
  <2>4. TakenInv'
    BY <1>27 DEF ReaderUnregisters, ReaderUnchanged, TakenInv
  <2>5. SessionInv'
    BY <1>27 DEF ReaderUnregisters, ReaderUnchanged, TypeOK, ConnType,
       SessionInv, SupSession, CallerSession, SlotsWithin, Alive
  <2>6. DelayInv'
    BY <1>27 DEF ReaderUnregisters, ReaderUnchanged, DelayInv
  <2> QED BY <2>1, <2>2, <2>3, <2>4, <2>5, <2>6
<1>28. ASSUME NEW c \in Conn, StoreClosed(c) PROVE IInv'
  <2>1. TypeOK'
    <3>1. conn' \in [Conn -> ConnType]
      BY <1>28 DEF TypeOK, StoreClosed, ConnType, ReaderPc
    <3> QED BY <1>28, <3>1 DEF TypeOK, StoreClosed, ReaderUnchanged
  <2>2. CallerInv'
    BY <1>28 DEF StoreClosed, ReaderUnchanged, CallerInv
  <2>3. AliveInv'
    BY <1>28 DEF StoreClosed, ReaderUnchanged, AliveInv, Alive
  <2>4. TakenInv'
    BY <1>28 DEF StoreClosed, ReaderUnchanged, TakenInv
  <2>5. SessionInv'
    BY <1>28 DEF StoreClosed, ReaderUnchanged, TypeOK, ConnType, SessionInv,
       SupSession, CallerSession, SlotsWithin, Alive
  <2>6. DelayInv'
    BY <1>28 DEF StoreClosed, ReaderUnchanged, DelayInv
  <2> QED BY <2>1, <2>2, <2>3, <2>4, <2>5, <2>6
<1>29. ASSUME NEW c \in Conn, NotifyClosed(c) PROVE IInv'
  <2>1. TypeOK'
    <3>1. sup' \in [Sup -> SupType]
      BY <1>29 DEF TypeOK, NotifyClosed, SupType
    <3>2. conn' \in [Conn -> ConnType]
      BY <1>29 DEF TypeOK, NotifyClosed, ConnType, ReaderPc
    <3> QED BY <1>29, <3>1, <3>2 DEF TypeOK, NotifyClosed, ReaderUnchanged
  <2>2. CallerInv'
    BY <1>29 DEF NotifyClosed, ReaderUnchanged, CallerInv
  <2>3. AliveInv'
    BY <1>29 DEF NotifyClosed, ReaderUnchanged, AliveInv, Alive
  <2>4. TakenInv'
    BY <1>29 DEF NotifyClosed, ReaderUnchanged, TakenInv
  <2>5. SessionInv'
    BY <1>29 DEF NotifyClosed, ReaderUnchanged, Waiters, SessionInv,
       SupSession, CallerSession, SlotsWithin, Alive
  <2>6. DelayInv'
    BY <1>29 DEF NotifyClosed, ReaderUnchanged, DelayInv
  <2> QED BY <2>1, <2>2, <2>3, <2>4, <2>5, <2>6
<1>30. CASE UNCHANGED vars
  BY <1>30 DEF vars, TypeOK, DelayInv, CallerInv, AliveInv, TakenInv, SessionInv, SupSession,
     CallerSession, SlotsWithin, Alive
<1> QED
  BY <1>1, <1>2, <1>3, <1>4, <1>5, <1>6, <1>7, <1>8, <1>9, <1>10, <1>11,
     <1>12, <1>13, <1>14, <1>15, <1>16, <1>17, <1>18, <1>19, <1>20, <1>21,
     <1>22, <1>23, <1>24, <1>25, <1>26, <1>27, <1>28, <1>29, <1>30
     DEF Next, Calls, CallerStep, CallerDial, SupStep, SupDial, ReaderStep

\* The inductive invariant holds in every reachable state.
THEOREM SupervisorInductive == Spec => []IInv
  BY Initially, StepKeepsIInv, PTL DEF Spec

\* DisconnectIsFinal (vault.rs 575-587): a disconnect that saw its supervisor end
\* leaves no task that could connect again.
THEOREM DisconnectIsAlwaysFinal == Spec => []DisconnectIsFinal
<1>1. IInv => DisconnectIsFinal
  BY SupervisorAssumption DEF IInv, TypeOK, CallerInv, AliveInv, TakenInv, SessionInv,
     CallerSession, SlotsWithin, Alive, DisconnectIsFinal
<1> QED
  BY <1>1, SupervisorInductive, PTL

\* OneSession: of all connections at most one has a peer slot.
THEOREM AlwaysOneSession == Spec => []OneSession
<1>1. ASSUME IInv, ~lapsed, ~overlapped PROVE \E d : SlotsWithin({d})
  <2>1. ASSUME NEW s \in Sup, Alive(s) PROVE \E d : SlotsWithin({d})
    <3>1. SupSession(s)
      BY <1>1, <2>1 DEF IInv, SessionInv
    <3>2. sup[s].pc \in SupPc \ {"none", "done"}
      BY <1>1, <2>1 DEF IInv, TypeOK, SupType, Alive
    <3> QED
      BY <3>1, <3>2 DEF SupSession, SlotsWithin, SupPc
  <2>2. CASE \A s \in Sup : ~Alive(s)
    <3>1. CallerSession
      BY <1>1, <2>2 DEF IInv, SessionInv
    <3>2. caller.pc \in CallerPc
      BY <1>1 DEF IInv, TypeOK, CallerType
    <3> QED
      BY <3>1, <3>2 DEF CallerSession, SlotsWithin, CallerPc
  <2> QED
    BY <2>1, <2>2
<1>2. IInv => OneSession
  BY <1>1 DEF OneSession, SlotsWithin
<1> QED
  BY <1>2, SupervisorInductive, PTL
=============================================================================
