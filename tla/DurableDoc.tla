----------------------------- MODULE DurableDoc -----------------------------
(***************************************************************************)
(* What the storage of a vault promises to its holders, whatever files it  *)
(* is made of: one saved document, replaced as a whole by a save.  A       *)
(* holder starts from exactly what was saved, adds changes, and may stop   *)
(* at any moment; only its unsaved changes are then lost.                  *)
(***************************************************************************)
CONSTANTS
  Proc,      \* the holders: processes, or handles of one process
  Id,        \* vault ids
  Change,    \* changes of a document
  None       \* nothing saved, nothing held

VARIABLES
  saved,     \* the saved document, or None
  held       \* [Proc -> the document in memory, or None]

vars == <<saved, held>>

Doc == [id: Id, ch: SUBSET Change]

Init ==
  /\ saved = None
  /\ held = [p \in Proc |-> None]

Open(p) ==
  /\ \A q \in Proc : held[q] = None
  /\ \E d \in Doc :
       /\ IF saved = None THEN d.ch = {} ELSE d = saved
       /\ held' = [held EXCEPT ![p] = d]
  /\ UNCHANGED saved

Edit(p) ==
  /\ held[p] # None
  /\ \E c \in Change :
       held' = [held EXCEPT ![p] = [id |-> held[p].id,
                                    ch |-> held[p].ch \cup {c}]]
  /\ UNCHANGED saved

Save(p) ==
  /\ held[p] # None
  /\ saved' = held[p]
  /\ UNCHANGED held

Stop(p) ==
  /\ held[p] # None
  /\ held' = [held EXCEPT ![p] = None]
  /\ UNCHANGED saved

Next == \E p \in Proc : Open(p) \/ Edit(p) \/ Save(p) \/ Stop(p)

Spec == Init /\ [][Next]_vars
=============================================================================
