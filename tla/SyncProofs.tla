----------------------------- MODULE SyncProofs -----------------------------
(***************************************************************************)
(* Proofs about Sync, for any number of devices, changes, lost connections *)
(* and crashes: documents stay causally closed, and what one end of a      *)
(* session believes of the other is true.                                  *)
(***************************************************************************)
EXTENDS Sync, TLAPS

Rng(s) == {s[i] : i \in DOMAIN s}

\* The messages under way from e: in the channel, or generated and not yet
\* put there.
Under(e) == Rng(net[e]) \cup ({reader[e], notif[e]} \ {None})

\* Changes are those made so far; those a change depends on came before it.
Made ==
  /\ \A n \in Node : doc[n] \cup queue[n] \cup saved[n] \subseteq 1..made
  /\ \A c \in Change : deps[c] \subseteq 1..made

Closed ==
  \A n \in Node :
    /\ \A c \in doc[n] : deps[c] \subseteq doc[n]
    /\ \A c \in saved[n] : deps[c] \subseteq saved[n]

\* A session exists only while its connection is up.
Linked ==
  /\ \A e \in End : LinkOf(e) \notin up => slot[e] = None /\ net[e] = <<>>
  /\ \A e \in due : reader[e] = None

\* A message under way says what its sender has.
Honest ==
  \A e \in End : \A m \in Under(e) :
    m.heads \subseteq doc[e[1]] /\ m.ch \subseteq doc[e[1]]

Beliefs == \A e \in End : slot[e] # None => slot[e].their \subseteq doc[e[2]]

Sent ==
  \A e \in End : slot[e] # None =>
    \A c \in slot[e].sent :
      c \in doc[e[2]] \cup queue[e[2]] \/ \E m \in Under(e) : c \in m.ch

IInv == TypeOK /\ Made /\ Closed /\ Linked /\ Honest /\ Beliefs /\ Sent

-----------------------------------------------------------------------------
(* Sequences, ends of sessions, and the operators of automerge.            *)

LEMMA AppendRng ==
  ASSUME NEW S, NEW s \in Seq(S), NEW x \in S
  PROVE  Append(s, x) \in Seq(S) /\ Rng(Append(s, x)) = Rng(s) \cup {x}
<1>1. Append(s, x) \in Seq(S) /\ DOMAIN Append(s, x) = 1..(Len(s) + 1)
      /\ DOMAIN s = 1..Len(s) /\ Len(s) \in Nat
  OBVIOUS
<1>2. \A i \in 1..Len(s) : Append(s, x)[i] = s[i]
  OBVIOUS
<1>3. Append(s, x)[Len(s) + 1] = x
  OBVIOUS
<1> QED
  BY <1>1, <1>2, <1>3 DEF Rng

LEMMA TailRng ==
  ASSUME NEW S, NEW s \in Seq(S), s # <<>>
  PROVE  /\ Head(s) \in S
         /\ Tail(s) \in Seq(S)
         /\ Rng(s) = {Head(s)} \cup Rng(Tail(s))
<1>1. Len(s) \in Nat \ {0} /\ DOMAIN s = 1..Len(s) /\ Head(s) = s[1] /\ Head(s) \in S
  OBVIOUS
<1>2. Tail(s) \in Seq(S) /\ DOMAIN Tail(s) = 1..(Len(s) - 1)
  BY <1>1
<1>3. \A i \in 1..(Len(s) - 1) : Tail(s)[i] = s[i + 1]
  BY <1>1
<1>4. \A i \in 2..Len(s) : i - 1 \in 1..(Len(s) - 1) /\ s[i] = Tail(s)[i - 1]
  BY <1>1, <1>3
<1>5. Rng(s) \subseteq {Head(s)} \cup Rng(Tail(s))
  <2> SUFFICES ASSUME NEW i \in 1..Len(s) PROVE s[i] \in {Head(s)} \cup Rng(Tail(s))
    BY <1>1 DEF Rng
  <2>1. CASE i = 1
    BY <2>1, <1>1
  <2>2. CASE i # 1
    <3>1. i \in 2..Len(s)
      BY <2>2, <1>1
    <3> QED
      BY <3>1, <1>2, <1>4 DEF Rng
  <2> QED
    BY <2>1, <2>2
<1>6. {Head(s)} \cup Rng(Tail(s)) \subseteq Rng(s)
  BY <1>1, <1>2, <1>3 DEF Rng
<1> QED
  BY <1>1, <1>2, <1>5, <1>6

LEMMA EndFacts ==
  ASSUME NEW e \in End
  PROVE  /\ e[1] \in Node /\ e[2] \in Node
         /\ Other(e) \in End /\ Other(e)[1] = e[2] /\ Other(e)[2] = e[1]
         /\ Other(Other(e)) = e
         /\ LinkOf(e) \in Client /\ LinkOf(Other(e)) = LinkOf(e)
         /\ LinkOf(e) \in {e[1], e[2]}
         /\ \A n \in Node : n \in {e[1], e[2]} => n = hub \/ n = LinkOf(e)
BY SyncAssumption DEF End, Node, Other, LinkOf

\* What joins a document keeps it causally closed.
LEMMA ReadyCloses ==
  ASSUME NEW d, NEW s, \A c \in d : deps[c] \subseteq d
  PROVE  /\ Ready(d, s) \subseteq s
         /\ \A c \in d \cup Ready(d, s) : deps[c] \subseteq d \cup Ready(d, s)
BY DEF Ready

LEMMA StateTypes ==
  ASSUME NEW d \in SUBSET Change, NEW s \in State
  PROVE  /\ ToSend(d, s) \subseteq d
         /\ AfterSend(d, s) \in State
         /\ AfterSend(d, s).their = s.their
         /\ AfterSend(d, s).sent = s.sent \cup ToSend(d, s)
<1>1. ToSend(d, s) \subseteq d
  BY DEF ToSend
<1>2. AfterSend(d, s) \in State
  BY <1>1 DEF AfterSend, State
<1> QED
  BY <1>1, <1>2 DEF AfterSend, State

\* What receiving makes of the State of a session.
LEMMA ReceivedTypes ==
  \A d \in SUBSET Change, s \in State, m \in Message :
     /\ AfterReceive(d, s, m) \in State
     /\ AfterReceive(d, s, m).their = m.heads
     /\ AfterReceive(d, s, m).sent \subseteq s.sent
BY DEF AfterReceive, State, Message

LEMMA NewStateType ==
  /\ NewState \in State
  /\ \A d \in SUBSET Change : /\ AfterSend(d, NewState) \in State
                              /\ AfterSend(d, NewState).their = {}
                              /\ AfterSend(d, NewState).sent = {}
BY DEF NewState, State, AfterSend, ToSend

-----------------------------------------------------------------------------
(* A session goes on: documents grow, messages are new or were under way.  *)

LEMMA SessionKeeps ==
  ASSUME Honest, Beliefs, Sent,
         \A n \in Node : doc[n] \subseteq doc'[n],
         \A n \in Node : doc[n] \cup queue[n] \subseteq doc'[n] \cup queue'[n],
         \A e \in End : \A m \in Under(e)' :
            m \in Under(e) \/ (m.heads \subseteq doc[e[1]] /\ m.ch \subseteq doc[e[1]]),
         \A e \in End : \A m \in Under(e) :
            m \in Under(e)' \/ m.ch \subseteq doc'[e[2]] \cup queue'[e[2]],
         \A e \in End : slot'[e] # None => slot'[e].their \subseteq doc[e[2]],
         \A e \in End : slot'[e] # None => \A c \in slot'[e].sent :
            (slot[e] # None /\ c \in slot[e].sent) \/ \E m \in Under(e)' : c \in m.ch
  PROVE  Honest' /\ Beliefs' /\ Sent'
<1>1. Honest'
  BY EndFacts DEF Honest
<1>2. Beliefs'
  BY EndFacts DEF Beliefs
<1>3. Sent'
  <2> SUFFICES ASSUME NEW e \in End, slot'[e] # None, NEW c \in slot'[e].sent,
                      ~ \E m \in Under(e)' : c \in m.ch
               PROVE  c \in doc'[e[2]] \cup queue'[e[2]]
    BY DEF Sent
  <2>1. slot[e] # None /\ c \in slot[e].sent
    OBVIOUS
  <2>2. CASE c \in doc[e[2]] \cup queue[e[2]]
    BY <2>2, EndFacts
  <2>3. CASE \E m \in Under(e) : c \in m.ch
    BY <2>3
  <2> QED
    BY <2>1, <2>2, <2>3 DEF Sent
<1> QED
  BY <1>1, <1>2, <1>3

-----------------------------------------------------------------------------
(* One lemma per action.                                                   *)

\* The documents are left alone, and so is what depends on them.
LEMMA DocsSame ==
  ASSUME Made, Closed, UNCHANGED docVars
  PROVE  Made' /\ Closed'
BY DEF Made, Closed, docVars

LEMMA ConnectKeeps ==
  ASSUME IInv, NEW k \in Client, Connect(k)
  PROVE  IInv'
<1>1. TypeOK'
  BY DEF IInv, TypeOK, Connect, docVars
<1>2. Made' /\ Closed'
  BY DocsSame DEF IInv, Connect
<1>3. Linked'
  BY DEF IInv, Linked, Connect
<1>4. Honest' /\ Beliefs' /\ Sent'
  BY DEF IInv, Honest, Beliefs, Sent, Under, Rng, Connect, docVars
<1> QED
  BY <1>1, <1>2, <1>3, <1>4 DEF IInv

LEMMA RegisterKeeps ==
  ASSUME IInv, NEW e \in End, Register(e)
  PROVE  IInv'
<1> DEFINE m == [heads |-> doc[e[1]], ch |-> {}]
<1>0. /\ e[1] \in Node /\ doc[e[1]] \in SUBSET Change /\ m \in Message
      /\ net[e] \in Seq(Message)
  BY EndFacts DEF IInv, TypeOK, Message
<1>a. /\ slot' = [slot EXCEPT ![e] = AfterSend(doc[e[1]], NewState)]
      /\ net' = [net EXCEPT ![e] = Append(@, m)]
      /\ UNCHANGED docVars /\ up' = up /\ due' = due /\ reader' = reader
      /\ notif' = notif /\ faults' = faults /\ LinkOf(e) \in up /\ slot[e] = None
  BY DEF Register
<1> HIDE DEF m
<1>b. Append(net[e], m) \in Seq(Message) /\ Rng(Append(net[e], m)) = Rng(net[e]) \cup {m}
  BY <1>0, AppendRng
<1>1. TypeOK'
  BY <1>0, <1>a, <1>b, NewStateType DEF IInv, TypeOK, docVars
<1>2. Made' /\ Closed'
  BY <1>a, DocsSame DEF IInv
<1>3. Linked'
  BY <1>a, EndFacts DEF IInv, Linked, TypeOK
<1>4. Under(e)' = Under(e) \cup {m} /\ \A f \in End \ {e} : Under(f)' = Under(f)
  BY <1>a, <1>b DEF Under, IInv, TypeOK
<1>5. m.heads \subseteq doc[e[1]] /\ m.ch \subseteq doc[e[1]]
  BY DEF m
<1>6. slot'[e].their = {} /\ slot'[e].sent = {} /\ \A f \in End \ {e} : slot'[f] = slot[f]
  BY <1>0, <1>a, NewStateType DEF IInv, TypeOK
<1>7. Honest' /\ Beliefs' /\ Sent'
  BY <1>a, <1>4, <1>5, <1>6, SessionKeeps DEF IInv, docVars, Beliefs
<1> QED
  BY <1>1, <1>2, <1>3, <1>7 DEF IInv

LEMMA ReceiveKeeps ==
  ASSUME IInv, NEW e \in End, Receive(e)
  PROVE  IInv'
<1> DEFINE n == e[1]
           m == Head(net[Other(e)])
           s == (queue[n] \cup m.ch) \ doc[n]
           joined == Ready(doc[n], s)
<1>0. /\ n \in Node /\ Other(e) \in End /\ Other(e)[1] = e[2] /\ Other(e)[2] = n
      /\ net[Other(e)] \in Seq(Message) /\ net[Other(e)] # <<>>
      /\ slot[e] \in State /\ slot[e] # None
  BY EndFacts DEF IInv, TypeOK, Receive
<1>a. /\ doc' = [doc EXCEPT ![n] = @ \cup joined]
      /\ queue' = [queue EXCEPT ![n] = s \ joined]
      /\ slot' = [slot EXCEPT ![e] = AfterReceive(doc[n], @, m)]
      /\ net' = [net EXCEPT ![Other(e)] = Tail(@)]
      /\ due' = due \cup {e} /\ reader[e] = None
      /\ UNCHANGED <<saved, deps, made, up, reader, notif, faults>>
  BY DEF Receive, receive_sync_message
<1>b. /\ m \in Message /\ Tail(net[Other(e)]) \in Seq(Message)
      /\ Rng(net[Other(e)]) = {m} \cup Rng(Tail(net[Other(e)]))
  BY <1>0, TailRng
<1>c. m \in Under(Other(e)) /\ m.heads \subseteq doc[e[2]] /\ m.ch \subseteq doc[e[2]]
  BY <1>0, <1>b DEF IInv, Honest, Under
<1>d. /\ joined \subseteq s
      /\ \A c \in doc[n] \cup joined : deps[c] \subseteq doc[n] \cup joined
  <2>1. \A c \in doc[n] : deps[c] \subseteq doc[n]
    BY <1>0 DEF IInv, Closed
  <2> HIDE DEF n, s
  <2> QED
    BY <2>1, ReadyCloses
<1>e. s \subseteq 1..made /\ s \subseteq Change
  BY <1>0, <1>b, <1>c, EndFacts DEF IInv, Made, TypeOK, Message
<1> HIDE DEF n, m, s, joined
<1>f. doc'[n] = doc[n] \cup joined /\ queue'[n] = s \ joined
  BY <1>0, <1>a DEF IInv, TypeOK
<1>g. \A x \in Node \ {n} : doc'[x] = doc[x] /\ queue'[x] = queue[x]
  BY <1>0, <1>a DEF IInv, TypeOK
<1>h. doc[n] \in SUBSET Change
  BY <1>0 DEF IInv, TypeOK
<1>i. /\ AfterReceive(doc[n], slot[e], m) \in State
      /\ AfterReceive(doc[n], slot[e], m).their = m.heads
      /\ AfterReceive(doc[n], slot[e], m).sent \subseteq slot[e].sent
  <2>1. slot[e] \in State
    BY <1>0
  <2>2. m \in Message
    BY <1>b
  <2> QED
    BY <1>h, <2>1, <2>2, ReceivedTypes
<1>1. TypeOK'
  <2>1. doc' \in [Node -> SUBSET Change] /\ queue' \in [Node -> SUBSET Change]
    BY <1>a, <1>d, <1>e DEF IInv, TypeOK
  <2>2. slot' \in [End -> State \cup {None}] /\ net' \in [End -> Seq(Message)]
    BY <1>0, <1>a, <1>b, <1>i DEF IInv, TypeOK
  <2>3. \A f \in End : slot'[f] = None => f # e /\ slot[f] = None
    BY <1>0, <1>a, <1>i, SyncAssumption DEF IInv, TypeOK
  <2> QED
    BY <1>a, <2>1, <2>2, <2>3 DEF IInv, TypeOK
<1>2. Made'
  BY <1>a, <1>d, <1>e, <1>f, <1>g DEF IInv, Made
<1>3. Closed'
  BY <1>a, <1>d, <1>f, <1>g DEF IInv, Closed
<1>4. Linked'
  BY <1>0, <1>a, EndFacts DEF IInv, Linked, TypeOK
<1>5. /\ Under(Other(e)) = Under(Other(e))' \cup {m}
      /\ \A f \in End \ {Other(e)} : Under(f)' = Under(f)
  BY <1>0, <1>a, <1>b DEF Under, IInv, TypeOK
<1>6. m.ch \subseteq doc'[n] \cup queue'[n]
  BY <1>f DEF s
<1>7. \A x \in Node : /\ doc[x] \subseteq doc'[x]
                      /\ doc[x] \cup queue[x] \subseteq doc'[x] \cup queue'[x]
  <2>1. queue[n] \subseteq doc[n] \cup s
    BY DEF s
  <2> QED
    BY <1>f, <1>g, <2>1
<1>8. /\ slot'[e].their = m.heads /\ slot'[e].sent \subseteq slot[e].sent
      /\ \A f \in End \ {e} : slot'[f] = slot[f]
  BY <1>a, <1>i DEF IInv, TypeOK
<1>9. Honest' /\ Beliefs' /\ Sent'
  <2>1. \A f \in End : \A x \in Under(f)' : x \in Under(f)
    BY <1>5
  <2>2. \A f \in End : \A x \in Under(f) :
          x \in Under(f)' \/ x.ch \subseteq doc'[f[2]] \cup queue'[f[2]]
    BY <1>0, <1>5, <1>6
  <2>3. \A f \in End : slot'[f] # None => slot'[f].their \subseteq doc[f[2]]
    BY <1>8, <1>c DEF IInv, Beliefs
  <2>4. \A f \in End : slot'[f] # None => \A c \in slot'[f].sent :
          slot[f] # None /\ c \in slot[f].sent
    BY <1>0, <1>8
  <2> QED
    BY <1>7, <2>1, <2>2, <2>3, <2>4, SessionKeeps DEF IInv
<1> QED
  BY <1>1, <1>2, <1>3, <1>4, <1>9 DEF IInv

\* What a generated message says, and what generating does to the slot.
LEMMA Generated ==
  ASSUME IInv, NEW e \in End, generate_sync_message(e) # None
  PROVE  /\ slot[e] # None
         /\ generate_sync_message(e) \in Message
         /\ generate_sync_message(e).heads \subseteq doc[e[1]]
         /\ generate_sync_message(e).ch \subseteq doc[e[1]]
         /\ SlotGenerated(e) \in [End -> State \cup {None}]
         /\ SlotGenerated(e)[e] # None
         /\ SlotGenerated(e)[e].their = slot[e].their
         /\ SlotGenerated(e)[e].sent = slot[e].sent \cup generate_sync_message(e).ch
         /\ \A f \in End \ {e} : SlotGenerated(e)[f] = slot[f]
<1> DEFINE d == doc[e[1]]
<1>1. slot[e] # None /\ slot[e] \in State /\ d \in SUBSET Change
  BY EndFacts DEF IInv, TypeOK, generate_sync_message
<1>2. generate_sync_message(e) = [heads |-> d, ch |-> ToSend(d, slot[e])]
  BY DEF generate_sync_message
<1>3. SlotGenerated(e) = [slot EXCEPT ![e] = AfterSend(d, @)]
  BY DEF SlotGenerated
<1>4. [heads |-> {}, ch |-> {}] \in Message
  BY DEF Message
<1>5. /\ ToSend(d, slot[e]) \subseteq d
      /\ AfterSend(d, slot[e]) \in State
      /\ AfterSend(d, slot[e]).their = slot[e].their
      /\ AfterSend(d, slot[e]).sent = slot[e].sent \cup ToSend(d, slot[e])
  BY <1>1, <1>4, StateTypes
<1>6. AfterSend(d, slot[e]) # None
  BY <1>5, SyncAssumption
<1> QED
  BY <1>1, <1>2, <1>3, <1>5, <1>6 DEF IInv, TypeOK, Message

LEMMA ReplyKeeps ==
  ASSUME IInv, NEW e \in End, Reply(e)
  PROVE  IInv'
<1> DEFINE m == generate_sync_message(e)
<1>a. /\ e \in due /\ due' = due \ {e} /\ slot' = SlotGenerated(e)
      /\ reader' = [reader EXCEPT ![e] = m] /\ UNCHANGED docVars
      /\ up' = up /\ net' = net /\ notif' = notif /\ faults' = faults
  BY DEF Reply
<1>b. reader[e] = None /\ slot[e] # None
  BY <1>a DEF IInv, Linked, TypeOK
<1>2. Made' /\ Closed'
  BY <1>a, DocsSame DEF IInv
<1>3. CASE m = None
  <2>1. slot' = slot /\ reader' = reader
    BY <1>3, <1>a, <1>b DEF SlotGenerated, IInv, TypeOK
  <2>2. TypeOK' /\ Linked'
    BY <1>a, <2>1 DEF IInv, TypeOK, Linked, docVars
  <2>3. Honest' /\ Beliefs' /\ Sent'
    BY <1>a, <2>1 DEF IInv, Honest, Beliefs, Sent, Under, Rng, docVars
  <2> QED
    BY <1>2, <2>2, <2>3 DEF IInv
<1>4. CASE m # None
  <2>0. /\ m \in Message /\ m.heads \subseteq doc[e[1]] /\ m.ch \subseteq doc[e[1]]
        /\ slot' \in [End -> State \cup {None}] /\ slot'[e] # None
        /\ slot'[e].their = slot[e].their /\ slot'[e].sent = slot[e].sent \cup m.ch
        /\ \A f \in End \ {e} : slot'[f] = slot[f]
    BY <1>4, <1>a, Generated
  <2> HIDE DEF m
  <2>1. TypeOK' /\ Linked'
    BY <1>a, <1>b, <2>0 DEF IInv, TypeOK, Linked, docVars
  <2>2. Under(e)' = Under(e) \cup {m} /\ \A f \in End \ {e} : Under(f)' = Under(f)
    BY <1>a, <1>b, <1>4 DEF Under, IInv, TypeOK
  <2>3. Honest' /\ Beliefs' /\ Sent'
    BY <1>a, <1>b, <2>0, <2>2, SessionKeeps DEF IInv, docVars, Beliefs
  <2> QED
    BY <1>2, <2>1, <2>3 DEF IInv
<1> QED
  BY <1>3, <1>4

LEMMA NoticeKeeps ==
  ASSUME IInv, NEW e \in End, Notice(e)
  PROVE  IInv'
<1> DEFINE m == generate_sync_message(e)
<1>a. /\ m # None /\ notif[e] = None /\ slot' = SlotGenerated(e)
      /\ notif' = [notif EXCEPT ![e] = m] /\ UNCHANGED docVars
      /\ up' = up /\ net' = net /\ due' = due /\ reader' = reader /\ faults' = faults
  BY DEF Notice
<1>b. /\ m \in Message /\ m.heads \subseteq doc[e[1]] /\ m.ch \subseteq doc[e[1]]
      /\ slot[e] # None
      /\ slot' \in [End -> State \cup {None}] /\ slot'[e] # None
      /\ slot'[e].their = slot[e].their /\ slot'[e].sent = slot[e].sent \cup m.ch
      /\ \A f \in End \ {e} : slot'[f] = slot[f]
  BY <1>a, Generated
<1> HIDE DEF m
<1>1. TypeOK' /\ Linked'
  BY <1>a, <1>b DEF IInv, TypeOK, Linked, docVars
<1>2. Made' /\ Closed'
  BY <1>a, DocsSame DEF IInv
<1>3. Under(e)' = Under(e) \cup {m} /\ \A f \in End \ {e} : Under(f)' = Under(f)
  BY <1>a DEF Under, IInv, TypeOK
<1>4. Honest' /\ Beliefs' /\ Sent'
  BY <1>a, <1>b, <1>3, SessionKeeps DEF IInv, docVars, Beliefs
<1> QED
  BY <1>1, <1>2, <1>4 DEF IInv

\* Putting a generated message into the channel keeps it under way.
LEMMA SendKeeps ==
  ASSUME IInv, NEW e \in End, SendReply(e) \/ SendNotice(e)
  PROVE  IInv'
<1> DEFINE m == IF SendReply(e) THEN reader[e] ELSE notif[e]
<1>a. /\ m # None /\ net' = [net EXCEPT ![e] = Append(@, m)]
      /\ UNCHANGED docVars /\ up' = up /\ slot' = slot /\ due' = due /\ faults' = faults
  BY DEF SendReply, SendNotice
<1>b. \/ reader[e] = m /\ reader' = [reader EXCEPT ![e] = None] /\ notif' = notif
      \/ notif[e] = m /\ notif' = [notif EXCEPT ![e] = None] /\ reader' = reader
  BY DEF SendReply, SendNotice
<1> HIDE DEF m
<1>c. m \in Message /\ net[e] \in Seq(Message) /\ m \in Under(e)
  BY <1>a, <1>b DEF IInv, TypeOK, Under
<1>d. Append(net[e], m) \in Seq(Message) /\ Rng(Append(net[e], m)) = Rng(net[e]) \cup {m}
  BY <1>c, AppendRng
<1>e. slot[e] # None
  BY <1>a, <1>b DEF IInv, TypeOK
<1>1. TypeOK'
  BY <1>a, <1>b, <1>d DEF IInv, TypeOK, docVars
<1>2. Linked'
  BY <1>a, <1>b, <1>e DEF IInv, Linked, TypeOK
<1>3. Made' /\ Closed'
  BY <1>a, DocsSame DEF IInv
<1>4. \A f \in End : Under(f)' = Under(f)
  <2>1. Rng(net'[e]) = Rng(net[e]) \cup {m} /\ \A f \in End \ {e} : net'[f] = net[f]
    BY <1>a, <1>d DEF IInv, TypeOK
  <2>2. {reader'[e], notif'[e]} \cup {m, None} = {reader[e], notif[e]} \cup {m, None}
    BY <1>b DEF IInv, TypeOK
  <2>3. \A f \in End \ {e} : reader'[f] = reader[f] /\ notif'[f] = notif[f]
    BY <1>b DEF IInv, TypeOK
  <2>4. Under(e)' = Under(e)
    BY <2>1, <2>2, <1>c DEF Under
  <2> QED
    BY <2>1, <2>3, <2>4 DEF Under
<1>5. Honest' /\ Beliefs' /\ Sent'
  BY <1>a, <1>4, SessionKeeps DEF IInv, docVars, Beliefs
<1> QED
  BY <1>1, <1>2, <1>3, <1>5 DEF IInv

\* The sessions of the clients ks are gone; the others are as they were.
LEMMA EndedFacts ==
  ASSUME IInv, NEW ks, Ended(ks)
  PROVE  /\ up' = up \ ks
         /\ slot' \in [End -> State \cup {None}] /\ net' \in [End -> Seq(Message)]
         /\ reader' \in [End -> Message \cup {None}] /\ notif' \in [End -> Message \cup {None}]
         /\ due' \subseteq due
         /\ \A e \in End : LinkOf(e) \in ks =>
              /\ slot'[e] = None /\ net'[e] = <<>> /\ e \notin due'
              /\ reader'[e] = None /\ notif'[e] = None
         /\ \A e \in End : LinkOf(e) \notin ks =>
              /\ slot'[e] = slot[e] /\ net'[e] = net[e]
              /\ reader'[e] = reader[e] /\ notif'[e] = notif[e]
<1>1. <<>> \in Seq(Message)
  OBVIOUS
<1> QED
  BY <1>1 DEF Ended, IInv, TypeOK

\* Sessions end, and of the devices whose sessions go on none loses a change.
LEMMA EndedKeeps ==
  ASSUME IInv, NEW ks, Ended(ks),
         doc' \in [Node -> SUBSET Change], queue' \in [Node -> SUBSET Change],
         faults' \in 0..MaxFault, UNCHANGED <<saved, deps, made>>,
         \A e \in End : LinkOf(e) \notin ks /\ (slot[e] # None \/ net[e] # <<>>) =>
           /\ doc'[e[1]] = doc[e[1]] /\ doc'[e[2]] = doc[e[2]]
           /\ queue'[e[2]] = queue[e[2]]
  PROVE  TypeOK' /\ Linked' /\ Honest' /\ Beliefs' /\ Sent'
<1>0. /\ \A e \in End : LinkOf(e) \in ks => slot'[e] = None /\ Under(e)' = {}
      /\ \A e \in End : LinkOf(e) \notin ks => slot'[e] = slot[e] /\ Under(e)' = Under(e)
  BY EndedFacts DEF Under, Rng
<1>1. TypeOK'
  <2>1. due' \subseteq End /\ up' \subseteq Client
    BY EndedFacts DEF IInv, TypeOK
  <2>2. \A e \in End : slot'[e] = None =>
          e \notin due' /\ reader'[e] = None /\ notif'[e] = None
    BY EndedFacts DEF IInv, TypeOK
  <2> QED
    BY <2>1, <2>2, EndedFacts DEF IInv, TypeOK
<1>2. Linked'
  BY EndedFacts DEF IInv, Linked, TypeOK
<1>3. \A e \in End : slot[e] = None /\ net[e] = <<>> => Under(e) = {}
  BY DEF Under, Rng, IInv, TypeOK
<1>4. Honest'
  BY <1>0, <1>3 DEF IInv, Honest
<1>5. Beliefs'
  BY <1>0 DEF IInv, Beliefs
<1>6. Sent'
  BY <1>0 DEF IInv, Sent
<1> QED
  BY <1>1, <1>2, <1>4, <1>5, <1>6

LEMMA LoseKeeps ==
  ASSUME IInv, NEW k \in Client, Lose(k)
  PROVE  IInv'
<1>1. Ended({k}) /\ UNCHANGED docVars /\ faults' \in 0..MaxFault
  BY SyncAssumption DEF Lose, IInv, TypeOK
<1>2. Made' /\ Closed'
  BY <1>1, DocsSame DEF IInv
<1>3. TypeOK' /\ Linked' /\ Honest' /\ Beliefs' /\ Sent'
  BY <1>1, EndedKeeps DEF docVars, IInv, TypeOK
<1> QED
  BY <1>2, <1>3 DEF IInv

LEMMA CrashKeeps ==
  ASSUME IInv, NEW n \in Node, Crash(n)
  PROVE  IInv'
<1> DEFINE ks == IF n = hub THEN up ELSE {n}
<1>1. /\ Ended(ks) /\ faults' \in 0..MaxFault /\ UNCHANGED <<saved, deps, made>>
      /\ doc' = [doc EXCEPT ![n] = saved[n]] /\ queue' = [queue EXCEPT ![n] = {}]
  BY SyncAssumption DEF Crash, IInv, TypeOK
<1>2. doc' \in [Node -> SUBSET Change] /\ queue' \in [Node -> SUBSET Change]
  BY <1>1 DEF IInv, TypeOK
<1>3. \A e \in End : LinkOf(e) \notin ks /\ (slot[e] # None \/ net[e] # <<>>) =>
        /\ doc'[e[1]] = doc[e[1]] /\ doc'[e[2]] = doc[e[2]]
        /\ queue'[e[2]] = queue[e[2]]
  <2> SUFFICES ASSUME NEW e \in End, LinkOf(e) \notin ks, slot[e] # None \/ net[e] # <<>>
               PROVE  e[1] # n /\ e[2] # n
    BY <1>1, EndFacts DEF IInv, TypeOK
  <2>1. LinkOf(e) \in up
    BY DEF IInv, Linked
  <2>2. n # hub
    BY <2>1
  <2> QED
    BY <2>2, EndFacts
<1>4. TypeOK' /\ Linked' /\ Honest' /\ Beliefs' /\ Sent'
  <2> HIDE DEF ks
  <2> QED
    BY <1>1, <1>2, <1>3, EndedKeeps
<1>5. Made'
  BY <1>1 DEF IInv, Made, TypeOK
<1>6. Closed'
  BY <1>1 DEF IInv, Closed, TypeOK
<1> QED
  BY <1>4, <1>5, <1>6 DEF IInv

LEMMA EditKeeps ==
  ASSUME IInv, NEW n \in Node, Edit(n)
  PROVE  IInv'
<1> DEFINE c == made + 1
<1>1. /\ c \in Change /\ c \notin 1..made /\ 1..made \subseteq 1..c /\ made' = c
      /\ c \in 0..MaxChange /\ c \in 1..c
  BY SyncAssumption DEF Edit, IInv, TypeOK, Change
<1>2. /\ deps' = [deps EXCEPT ![c] = doc[n]]
      /\ doc' = [doc EXCEPT ![n] = @ \cup {c}]
      /\ UNCHANGED <<queue, saved, linkVars, faults>>
  BY DEF Edit
<1> HIDE DEF c
<1>3. doc[n] \subseteq 1..made /\ doc[n] \subseteq Change
  BY DEF IInv, Made, TypeOK
<1>4. TypeOK'
  BY <1>1, <1>2, <1>3 DEF IInv, TypeOK, linkVars
<1>5. Made'
  BY <1>1, <1>2, <1>3 DEF IInv, Made, TypeOK
<1>6. Closed'
  <2>1. \A x \in Node : \A y \in doc[x] \cup saved[x] : y \in Change /\ deps'[y] = deps[y]
    BY <1>1, <1>2 DEF IInv, Made, TypeOK
  <2>2. deps'[c] = doc[n]
    BY <1>1, <1>2 DEF IInv, TypeOK
  <2>3. doc'[n] = doc[n] \cup {c} /\ \A x \in Node \ {n} : doc'[x] = doc[x]
    BY <1>2 DEF IInv, TypeOK
  <2> QED
    BY <1>2, <2>1, <2>2, <2>3 DEF IInv, Closed
<1>7. Linked'
  BY <1>2 DEF IInv, Linked, linkVars
<1>8. Honest' /\ Beliefs' /\ Sent'
  <2>1. \A e \in End : Under(e)' = Under(e) /\ slot'[e] = slot[e]
    BY <1>2 DEF Under, Rng, linkVars
  <2>2. \A x \in Node : doc[x] \subseteq doc'[x] /\ queue'[x] = queue[x]
    BY <1>2 DEF IInv, TypeOK
  <2> QED
    BY <2>1, <2>2, SessionKeeps DEF IInv, Beliefs
<1> QED
  BY <1>4, <1>5, <1>6, <1>7, <1>8 DEF IInv

LEMMA SaveKeeps ==
  ASSUME IInv, NEW n \in Node, Save(n)
  PROVE  IInv'
<1>1. saved' = [saved EXCEPT ![n] = doc[n]] /\ UNCHANGED <<doc, queue, deps, made, linkVars, faults>>
  BY DEF Save
<1>2. TypeOK'
  BY <1>1 DEF IInv, TypeOK, linkVars
<1>3. Made' /\ Closed'
  BY <1>1 DEF IInv, Made, Closed, TypeOK
<1>4. Linked' /\ Honest' /\ Beliefs' /\ Sent'
  BY <1>1 DEF IInv, Linked, Honest, Beliefs, Sent, Under, Rng, linkVars
<1> QED
  BY <1>2, <1>3, <1>4 DEF IInv

-----------------------------------------------------------------------------
LEMMA Inductive == Spec => []IInv
<1>1. Init => IInv
  <2> SUFFICES ASSUME Init PROVE IInv
    OBVIOUS
  <2>1. <<>> \in Seq(Message) /\ 0 \in 0..MaxChange /\ 0 \in 0..MaxFault
    BY SyncAssumption
  <2>2. TypeOK
    BY <2>1 DEF Init, TypeOK
  <2>3. Made /\ Closed /\ Linked
    BY DEF Init, Made, Closed, Linked
  <2>4. \A e \in End : slot[e] = None /\ Under(e) = {}
    BY DEF Init, Under, Rng
  <2> QED
    BY <2>2, <2>3, <2>4 DEF IInv, Honest, Beliefs, Sent
<1>2. IInv /\ [Next]_vars => IInv'
  <2> SUFFICES ASSUME IInv, [Next]_vars PROVE IInv'
    OBVIOUS
  <2>1. CASE UNCHANGED vars
    <3>1. TypeOK' /\ Made' /\ Closed' /\ Linked'
      BY <2>1 DEF vars, IInv, TypeOK, Made, Closed, Linked
    <3>2. Honest' /\ Beliefs' /\ Sent'
      BY <2>1 DEF vars, IInv, Honest, Beliefs, Sent, Under, Rng
    <3> QED
      BY <3>1, <3>2 DEF IInv
  <2>2. CASE \E k \in Client : Connect(k) \/ Lose(k)
    BY <2>2, ConnectKeeps, LoseKeeps
  <2>3. CASE \E e \in End : \/ Register(e) \/ Receive(e) \/ Reply(e) \/ SendReply(e)
                            \/ Notice(e) \/ SendNotice(e)
    BY <2>3, RegisterKeeps, ReceiveKeeps, ReplyKeeps, NoticeKeeps, SendKeeps
  <2>4. CASE \E n \in Node : Edit(n) \/ Save(n) \/ Crash(n)
    BY <2>4, EditKeeps, SaveKeeps, CrashKeeps
  <2> QED
    BY <2>1, <2>2, <2>3, <2>4 DEF Next
<1> QED
  BY <1>1, <1>2, PTL DEF Spec

\* No device ever holds a change without those it depends on, whatever
\* order the reader and the notifier of handle_connection send in.
THEOREM DocumentsStayClosed == Spec => [](TypeOK /\ CausallyClosed)
<1>1. IInv => TypeOK /\ CausallyClosed
  BY DEF IInv, Closed, CausallyClosed
<1> QED
  BY <1>1, Inductive, PTL

\* The types of the documents, sessions and connections; a connection that is
\* not registered has no work (register_peer, handle_connection).
THEOREM TypeInvariance == Spec => []TypeOK
BY DocumentsStayClosed, PTL

\* What an end of a session takes the other to have, the other has: the
\* fresh State of register_peer forgets what a lost connection or a crash
\* made untrue.
THEOREM SessionsBelieveTheTruth == Spec => []BeliefsAreTrue
<1>1. IInv => BeliefsAreTrue
  BY DEF IInv, Beliefs, BeliefsAreTrue
<1> QED
  BY <1>1, Inductive, PTL

\* A change counted as sent is there or still under way: it is never
\* skipped, so it need not be sent again.
THEOREM SentChangesArrive == Spec => []SentArrives
<1>1. IInv => SentArrives
  BY DEF IInv, Sent, SentArrives, Under, Rng
<1> QED
  BY <1>1, Inductive, PTL

-----------------------------------------------------------------------------
(* A session that falls silent has made the documents equal.               *)

\* Nothing that waits in a queue could join the document.
Waiting ==
  \A n \in Node : \A t \in SUBSET queue[n] :
    (\A c \in t : deps[c] \subseteq doc[n] \cup t) => t = {}

\* Of what an end said it has, while it awaits the answer, there is nothing that
\* it neither knows to be there nor has sent.
Told ==
  \A e \in End : slot[e] # None => (slot[e].inflight /\ slot[e].known =>
    slot[e].last \subseteq slot[e].their \cup slot[e].sent)

\* The first message of an end is in the channel until the other end has it.
Greeted ==
  \A e \in End :
    slot[e] # None /\ (slot[Other(e)] = None \/ ~slot[Other(e)].known) => net[e] # <<>>

LEMMA AppendIsNotEmpty ==
  ASSUME NEW S, NEW s \in Seq(S), NEW x
  PROVE  Append(s, x) # <<>>
<1>1. DOMAIN Append(s, x) = 1..(Len(s) + 1) /\ Len(s) \in Nat
  OBVIOUS
<1>2. 1 \in DOMAIN Append(s, x)
  BY <1>1
<1>3. DOMAIN <<>> = {}
  OBVIOUS
<1> QED
  BY <1>2, <1>3

\* The three hold for any documents and sessions that were left alone.
LEMMA SessionsSame ==
  ASSUME Told, Greeted, UNCHANGED <<slot, net>>
  PROVE  Told' /\ Greeted'
BY DEF Told, Greeted

LEMMA DocumentsSame ==
  ASSUME Waiting, UNCHANGED <<doc, queue, deps>>
  PROVE  Waiting'
BY DEF Waiting

\* What is left after all that can join has joined cannot join.
LEMMA ReadyIsMaximal ==
  ASSUME NEW d, NEW s, NEW t \in SUBSET (s \ Ready(d, s)),
         \A c \in t : deps[c] \subseteq (d \cup Ready(d, s)) \cup t
  PROVE  t = {}
<1> DEFINE r == Ready(d, s)
<1>1. r \subseteq s /\ \A c \in r : deps[c] \subseteq d \cup r
  BY DEF Ready
<1>2. t \cup r \in SUBSET s /\ \A c \in t \cup r : deps[c] \subseteq d \cup (t \cup r)
  BY <1>1
<1>3. t \cup r \subseteq Ready(d, s)
  BY <1>2 DEF Ready
<1> QED
  BY <1>3

LEMMA ReceiveWaits ==
  ASSUME IInv, Waiting, NEW e \in End, Receive(e)
  PROVE  Waiting'
<1> DEFINE n == e[1]
           m == Head(net[Other(e)])
           s == (queue[n] \cup m.ch) \ doc[n]
           joined == Ready(doc[n], s)
<1>1. /\ doc' = [doc EXCEPT ![n] = @ \cup joined]
      /\ queue' = [queue EXCEPT ![n] = s \ joined] /\ deps' = deps
  BY DEF Receive, receive_sync_message
<1>2. n \in Node
  BY EndFacts
<1> HIDE DEF s
<1>3. ASSUME NEW t \in SUBSET (s \ joined),
             \A c \in t : deps[c] \subseteq (doc[n] \cup joined) \cup t
      PROVE  t = {}
  BY <1>3, ReadyIsMaximal
<1> HIDE DEF n, joined
<1>4. doc'[n] = doc[n] \cup joined /\ queue'[n] = s \ joined
  BY <1>1, <1>2 DEF IInv, TypeOK
<1>5. \A x \in Node \ {n} : doc'[x] = doc[x] /\ queue'[x] = queue[x]
  BY <1>1, <1>2 DEF IInv, TypeOK
<1> QED
  BY <1>1, <1>3, <1>4, <1>5 DEF Waiting

\* A new change is none that a waiting one depends on.
LEMMA EditWaits ==
  ASSUME IInv, Waiting, NEW n \in Node, Edit(n)
  PROVE  Waiting'
<1> DEFINE c == made + 1
<1>1. c \in Change /\ c \notin 1..made
  BY SyncAssumption DEF Edit, IInv, TypeOK, Change
<1>2. deps' = [deps EXCEPT ![c] = doc[n]] /\ doc' = [doc EXCEPT ![n] = @ \cup {c}]
      /\ queue' = queue
  BY DEF Edit
<1> HIDE DEF c
<1>3. \A x \in Node : doc'[x] \subseteq doc[x] \cup {c}
  BY <1>2 DEF IInv, TypeOK
<1>4. ASSUME NEW x \in Node, NEW y \in queue[x]
      PROVE  y \in Change /\ y # c /\ c \notin deps[y]
  BY <1>1 DEF IInv, Made, TypeOK
<1>5. ASSUME NEW x \in Node, NEW y \in queue[x] PROVE deps'[y] = deps[y]
  BY <1>2, <1>4, <1>5 DEF IInv, TypeOK
<1> SUFFICES ASSUME NEW x \in Node, NEW t \in SUBSET queue[x],
                    \A y \in t : deps'[y] \subseteq doc'[x] \cup t
             PROVE  t = {}
  BY <1>2 DEF Waiting
<1>6. ASSUME NEW y \in t PROVE deps[y] \subseteq doc[x] \cup t
  <2>1. deps[y] \subseteq doc'[x] \cup t /\ c \notin deps[y]
    BY <1>4, <1>5
  <2> QED
    BY <1>3, <2>1
<1> QED
  BY <1>6 DEF Waiting

LEMMA CrashWaits ==
  ASSUME IInv, Waiting, NEW n \in Node, Crash(n)
  PROVE  Waiting'
<1>1. /\ doc' = [doc EXCEPT ![n] = saved[n]] /\ queue' = [queue EXCEPT ![n] = {}]
      /\ deps' = deps
  BY DEF Crash
<1>2. queue'[n] = {} /\ \A x \in Node \ {n} : doc'[x] = doc[x] /\ queue'[x] = queue[x]
  BY <1>1 DEF IInv, TypeOK
<1> QED
  BY <1>1, <1>2 DEF Waiting

\* What generating makes of the State: all that is said is sent or known.
LEMMA AfterSendTells ==
  ASSUME NEW d \in SUBSET Change, NEW s \in State
  PROVE  /\ AfterSend(d, s).known = s.known
         /\ AfterSend(d, s).known =>
              AfterSend(d, s).last \subseteq AfterSend(d, s).their \cup AfterSend(d, s).sent
BY DEF AfterSend, ToSend, State

LEMMA GenerateTells ==
  ASSUME IInv, Told, Greeted, NEW e \in End, slot' = SlotGenerated(e), net' = net
  PROVE  Told' /\ Greeted'
<1>1. CASE generate_sync_message(e) = None
  <2>1. slot' = slot
    BY <1>1 DEF SlotGenerated
  <2> QED
    BY <2>1, SessionsSame
<1>2. CASE generate_sync_message(e) # None
  <2> DEFINE s == AfterSend(doc[e[1]], slot[e])
  <2>1. slot[e] # None /\ slot[e] \in State /\ doc[e[1]] \in SUBSET Change
    BY <1>2, EndFacts DEF IInv, TypeOK, generate_sync_message
  <2>2. slot' = [slot EXCEPT ![e] = s]
    BY <1>2 DEF SlotGenerated
  <2>3. s.known = slot[e].known /\ (s.known => s.last \subseteq s.their \cup s.sent)
    BY <2>1, AfterSendTells
  <2> HIDE DEF s
  <2>4. slot'[e] = s /\ \A f \in End \ {e} : slot'[f] = slot[f]
    BY <2>2 DEF IInv, TypeOK
  <2>5. Told'
    BY <2>3, <2>4 DEF Told
  <2>6. \A f \in End : slot'[f] # None => slot[f] # None
    BY <2>1, <2>4
  <2>7. ASSUME NEW f \in End, slot'[f] = None \/ ~slot'[f].known
        PROVE  slot[f] = None \/ ~slot[f].known
    <3>1. CASE f = e
      <4>1. s # None
        <5>1. s \in State
          BY <2>1, StateTypes DEF s
        <5> QED
          BY <5>1, SyncAssumption
      <4> QED
        BY <2>3, <2>4, <2>7, <3>1, <4>1
    <3>2. CASE f # e
      BY <2>4, <2>7, <3>2
    <3> QED
      BY <3>1, <3>2
  <2>8. Greeted'
    BY <2>6, <2>7, EndFacts DEF Greeted
  <2> QED
    BY <2>5, <2>8
<1> QED
  BY <1>1, <1>2

LEMMA RegisterTells ==
  ASSUME IInv, Told, Greeted, NEW e \in End, Register(e)
  PROVE  Told' /\ Greeted'
<1> DEFINE m == [heads |-> doc[e[1]], ch |-> {}]
           s == AfterSend(doc[e[1]], NewState)
<1>1. slot' = [slot EXCEPT ![e] = s] /\ net' = [net EXCEPT ![e] = Append(@, m)] /\ slot[e] = None
  BY DEF Register
<1>2. s.known = FALSE
  BY DEF AfterSend, NewState
<1>3. Append(net[e], m) # <<>>
  <2> HIDE DEF m
  <2>1. net[e] \in Seq(Message)
    BY DEF IInv, TypeOK
  <2> QED
    BY <2>1, AppendIsNotEmpty
<1> HIDE DEF m, s
<1>4. /\ slot'[e] = s /\ net'[e] # <<>>
      /\ \A f \in End \ {e} : slot'[f] = slot[f] /\ net'[f] = net[f]
  BY <1>1, <1>3 DEF IInv, TypeOK
<1>5. Told'
  BY <1>2, <1>4 DEF Told
<1>6. Greeted'
  BY <1>1, <1>4, EndFacts DEF Greeted
<1> QED
  BY <1>5, <1>6

LEMMA ReceiveTells ==
  ASSUME IInv, Told, Greeted, NEW e \in End, Receive(e)
  PROVE  Told' /\ Greeted'
<1> DEFINE s == AfterReceive(doc[e[1]], slot[e], Head(net[Other(e)]))
<1>1. /\ slot' = [slot EXCEPT ![e] = s] /\ slot[e] # None
      /\ net' = [net EXCEPT ![Other(e)] = Tail(@)]
  BY DEF Receive, receive_sync_message
<1>2. s.known = TRUE /\ s.inflight = FALSE
  BY DEF AfterReceive
<1> HIDE DEF s
<1>3. /\ slot'[e] = s /\ \A f \in End \ {e} : slot'[f] = slot[f]
      /\ \A f \in End \ {Other(e)} : net'[f] = net[f]
  BY <1>1 DEF IInv, TypeOK
<1>4. Told'
  BY <1>2, <1>3 DEF Told
<1>5. s # None
  <2>1. net[Other(e)] # <<>> /\ net[Other(e)] \in Seq(Message) /\ slot[e] \in State
        /\ doc[e[1]] \in SUBSET Change
    BY EndFacts DEF Receive, IInv, TypeOK
  <2>2. Head(net[Other(e)]) \in Message
    BY <2>1, TailRng
  <2> QED
    BY <2>1, <2>2, ReceivedTypes, SyncAssumption DEF s
<1>6. ASSUME NEW f \in End, slot'[f] # None, slot'[Other(f)] = None \/ ~slot'[Other(f)].known
      PROVE  net'[f] # <<>>
  <2>1. Other(f) \in End /\ Other(Other(f)) = f
    BY EndFacts
  <2>2. Other(f) # e
    BY <1>2, <1>3, <1>5, <1>6
  <2>3. slot[Other(f)] = None \/ ~slot[Other(f)].known
    BY <1>3, <1>6, <2>1, <2>2
  <2>4. f # Other(e)
    BY <2>1, <2>2, EndFacts
  <2>5. slot[f] # None
    BY <1>1, <1>3, <1>6
  <2> QED
    BY <1>3, <2>3, <2>4, <2>5 DEF Greeted
<1>7. Greeted'
  BY <1>6 DEF Greeted
<1> QED
  BY <1>4, <1>7

LEMMA SendTells ==
  ASSUME IInv, Told, Greeted, NEW e \in End, SendReply(e) \/ SendNotice(e)
  PROVE  Told' /\ Greeted'
<1>1. PICK m : m \in Message /\ slot' = slot /\ net' = [net EXCEPT ![e] = Append(@, m)]
  <2>1. CASE SendReply(e)
    BY <2>1 DEF SendReply, IInv, TypeOK
  <2>2. CASE SendNotice(e)
    BY <2>2 DEF SendNotice, IInv, TypeOK
  <2> QED
    BY <2>1, <2>2
<1>2. Append(net[e], m) # <<>>
  <2>1. net[e] \in Seq(Message)
    BY DEF IInv, TypeOK
  <2> QED
    BY <2>1, AppendIsNotEmpty
<1>3. net'[e] # <<>> /\ \A f \in End \ {e} : net'[f] = net[f]
  BY <1>1, <1>2 DEF IInv, TypeOK
<1> QED
  BY <1>1, <1>3 DEF Told, Greeted

LEMMA EndedTells ==
  ASSUME IInv, Told, Greeted, NEW ks, Ended(ks)
  PROVE  Told' /\ Greeted'
<1>1. \A e \in End : LinkOf(e) \in ks => slot'[e] = None
  BY EndedFacts
<1>2. \A e \in End : LinkOf(e) \notin ks => slot'[e] = slot[e] /\ net'[e] = net[e]
  BY EndedFacts
<1>3. Told'
  BY <1>1, <1>2 DEF Told
<1>4. ASSUME NEW e \in End, slot'[e] # None, slot'[Other(e)] = None \/ ~slot'[Other(e)].known
      PROVE  net'[e] # <<>>
  <2>1. LinkOf(e) \notin ks /\ Other(e) \in End /\ LinkOf(Other(e)) \notin ks
    BY <1>1, <1>4, EndFacts
  <2>2. slot'[Other(e)] = slot[Other(e)] /\ slot'[e] = slot[e] /\ net'[e] = net[e]
    BY <1>2, <2>1
  <2> QED
    BY <1>4, <2>2 DEF Greeted
<1>5. Greeted'
  BY <1>4 DEF Greeted
<1> QED
  BY <1>3, <1>5

\* The three are inductive with the invariant of the sessions.
LEMMA StepTells ==
  ASSUME IInv, Waiting, Told, Greeted, [Next]_vars
  PROVE  Waiting' /\ Told' /\ Greeted'
<1>1. CASE UNCHANGED vars
  BY <1>1, SessionsSame, DocumentsSame DEF vars
<1>2. ASSUME NEW k \in Client, Connect(k) PROVE Waiting' /\ Told' /\ Greeted'
  BY <1>2, SessionsSame, DocumentsSame DEF Connect, docVars
<1>3. ASSUME NEW k \in Client, Lose(k) PROVE Waiting' /\ Told' /\ Greeted'
  BY <1>3, EndedTells, DocumentsSame DEF Lose, docVars
<1>4. ASSUME NEW e \in End, Register(e) PROVE Waiting' /\ Told' /\ Greeted'
  BY <1>4, RegisterTells, DocumentsSame DEF Register, docVars
<1>5. ASSUME NEW e \in End, Receive(e) PROVE Waiting' /\ Told' /\ Greeted'
  BY <1>5, ReceiveTells, ReceiveWaits
<1>6. ASSUME NEW e \in End, Reply(e) \/ Notice(e) PROVE Waiting' /\ Told' /\ Greeted'
  BY <1>6, GenerateTells, DocumentsSame DEF Reply, Notice, docVars
<1>7. ASSUME NEW e \in End, SendReply(e) \/ SendNotice(e) PROVE Waiting' /\ Told' /\ Greeted'
  BY <1>7, SendTells, DocumentsSame DEF SendReply, SendNotice, docVars
<1>8. ASSUME NEW n \in Node, Edit(n) PROVE Waiting' /\ Told' /\ Greeted'
  BY <1>8, EditWaits, SessionsSame DEF Edit, linkVars
<1>9. ASSUME NEW n \in Node, Save(n) PROVE Waiting' /\ Told' /\ Greeted'
  BY <1>9, DocumentsSame, SessionsSame DEF Save, linkVars
<1>10. ASSUME NEW n \in Node, Crash(n) PROVE Waiting' /\ Told' /\ Greeted'
  <2>1. Told' /\ Greeted'
    BY <1>10, EndedTells DEF Crash
  <2> QED
    BY <1>10, <2>1, CrashWaits
<1> QED
  BY <1>1, <1>2, <1>3, <1>4, <1>5, <1>6, <1>7, <1>8, <1>9, <1>10 DEF Next

\* Of two silent ends each has all that the other has.
LEMMA QuietHasAll ==
  ASSUME IInv, Waiting, Told, Greeted, NEW e \in End, Quiet(e), Quiet(Other(e))
  PROVE  doc[e[1]] \subseteq doc[e[2]]
<1> DEFINE d == doc[e[1]]
           x == e[2]
<1>1. /\ slot[e] # None /\ slot[e] \in State /\ Other(e) \in End /\ Other(Other(e)) = e
      /\ e[1] \in Node /\ x \in Node /\ slot[Other(e)] # None
  BY EndFacts DEF Quiet, IInv, TypeOK
<1>2. NothingToSay(d, slot[e])
  <2>1. [heads |-> d, ch |-> ToSend(d, slot[e])] \in Message
    BY <1>1, StateTypes DEF Message, IInv, TypeOK
  <2> QED
    BY <1>1, <2>1, SyncAssumption DEF Quiet, generate_sync_message
<1>3. slot[e].known
  BY <1>1, EndFacts DEF Greeted, Quiet
<1>4. d \subseteq slot[e].their \cup slot[e].sent
  <2>1. CASE slot[e].inflight
    BY <1>1, <1>2, <1>3, <2>1 DEF Told, NothingToSay
  <2>2. CASE ~slot[e].inflight
    BY <1>2, <2>2 DEF NothingToSay
  <2> QED
    BY <2>1, <2>2
<1>5. Under(e) = {}
  BY DEF Quiet, Under, Rng
<1>6. d \subseteq doc[x] \cup queue[x]
  BY <1>1, <1>4, <1>5 DEF IInv, Beliefs, Sent
<1>7. \A c \in d : deps[c] \subseteq d
  BY <1>1 DEF IInv, Closed
<1> DEFINE t == d \ doc[x]
<1>8. t \in SUBSET queue[x] /\ \A c \in t : deps[c] \subseteq doc[x] \cup t
  BY <1>6, <1>7
<1>9. t = {}
  <2> HIDE DEF t
  <2> QED
    BY <1>1, <1>8 DEF Waiting
<1> QED
  BY <1>9

\* Two ends that have nothing to say to each other, and nothing under way, have the
\* same document: a session does not fall silent early, whatever was lost, delayed
\* or overtaken in it or in the sessions before (generate_sync_message of both ends).
THEOREM SilenceMeansEquality == Spec => []QuietMeansEqual
<1>1. Init => Waiting /\ Told /\ Greeted
  BY DEF Init, Waiting, Told, Greeted
<1>2. IInv /\ Waiting /\ Told /\ Greeted /\ [Next]_vars => Waiting' /\ Told' /\ Greeted'
  BY StepTells
<1>3. IInv /\ Waiting /\ Told /\ Greeted => QuietMeansEqual
  <2> SUFFICES ASSUME IInv, Waiting, Told, Greeted, NEW e \in End, Quiet(e), Quiet(Other(e))
               PROVE  doc[e[1]] = doc[e[2]]
    BY DEF QuietMeansEqual
  <2>1. doc[e[1]] \subseteq doc[e[2]]
    BY QuietHasAll
  <2>2. /\ Other(e) \in End /\ Other(Other(e)) = e
        /\ Other(e)[1] = e[2] /\ Other(e)[2] = e[1]
    BY EndFacts
  <2>3. doc[Other(e)[1]] \subseteq doc[Other(e)[2]]
    BY <2>2, QuietHasAll
  <2> QED
    BY <2>1, <2>2, <2>3
<1> QED
  BY <1>1, <1>2, <1>3, Inductive, PTL DEF Spec
=============================================================================
