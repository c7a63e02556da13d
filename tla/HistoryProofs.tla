--------------------------- MODULE HistoryProofs ---------------------------
(***************************************************************************)
(* The properties of History for any number of devices, files, labels and  *)
(* changes and for any clocks.  What is recursive over the changes is      *)
(* proved with the induction of NatSets.  The invariant is inductive       *)
(* because every operation commits a sound change (SoundChange): one lemma *)
(* says that a commit of such a change keeps it, and one per operation     *)
(* that its change is sound.                                               *)
(***************************************************************************)
EXTENDS History, NatSets, TLAPS

-----------------------------------------------------------------------------
(* MinOf and MaxOf.                                                        *)

\* MinOf is the least element of a set of naturals.
LEMMA Least ==
  ASSUME NEW T \in SUBSET Nat, T # {}
  PROVE  MinOf(T) \in T /\ \A y \in T : MinOf(T) <= y
<1>1. \E x \in T : \A y \in T : x <= y
  BY LeastElement
<1> QED
  BY <1>1 DEF MinOf

\* MaxOf is the greatest element of a bounded set of naturals.
LEMMA Greatest ==
  ASSUME NEW m \in Nat, NEW T \in SUBSET (0..m), T # {}
  PROVE  MaxOf(T) \in T /\ \A y \in T : y <= MaxOf(T)
<1>1. \E x \in T : \A y \in T : y <= x
  BY GreatestElement
<1> QED
  BY <1>1 DEF MaxOf

-----------------------------------------------------------------------------
(* Joined: the recursion that puts a text together.                        *)

Step(runs, piece, g, c) ==
  IF c = 0 THEN <<>> ELSE IF c \in runs THEN piece[c] \o g[c - 1] ELSE g[c - 1]

\* The recursive function exists: what Joined computes is its last value.
LEMMA JoinedRecursion ==
  ASSUME NEW runs, NEW piece
  PROVE  \E g : /\ Joined(runs, piece) = g[MaxChange]
                /\ \A c \in 0..MaxChange : g[c] = Step(runs, piece, g, c)
<1> DEFINE Good(n, g) == \A c \in 0..n : g[c] = Step(runs, piece, g, c)
           T == {n \in Nat : \E g : Good(n, g)}
<1>1. 0 \in T
  <2>1. Good(0, [c \in 0..0 |-> <<>>])
    BY DEF Step
  <2> QED
    BY <2>1
<1>2. ASSUME NEW n \in T PROVE n + 1 \in T
  <2>1. PICK g : Good(n, g)
    OBVIOUS
  <2> DEFINE h == [c \in 0..(n + 1) |-> IF c = n + 1 THEN Step(runs, piece, g, c) ELSE g[c]]
  <2>2. ASSUME NEW c \in 0..(n + 1) PROVE h[c] = Step(runs, piece, h, c)
    <3>1. c # 0 => h[c - 1] = g[c - 1]
      OBVIOUS
    <3>2. Step(runs, piece, h, c) = Step(runs, piece, g, c)
      BY <3>1 DEF Step
    <3>3. c # n + 1 => c \in 0..n
      OBVIOUS
    <3> QED
      BY <2>1, <3>2, <3>3
  <2>3. Good(n + 1, h)
    BY <2>2
  <2> HIDE DEF h
  <2> QED
    BY <2>3
<1> HIDE DEF T
<1>3. T = Nat
  <2>1. T \in SUBSET Nat
    BY DEF T
  <2> QED
    BY <1>1, <1>2, <2>1, Induction
<1>4. PICK g : Good(MaxChange, g)
  BY <1>3, HistoryAssumption DEF T
<1> DEFINE Body(f) == [c \in 0..MaxChange |->
                         IF c = 0 THEN <<>>
                         ELSE IF c \in runs THEN piece[c] \o f[c - 1] ELSE f[c - 1]]
           h == [c \in 0..MaxChange |-> g[c]]
           u == CHOOSE f : f = Body(f)
<1>5. h = Body(h)
  <2>1. ASSUME NEW c \in 0..MaxChange
        PROVE  h[c] = IF c = 0 THEN <<>>
                      ELSE IF c \in runs THEN piece[c] \o h[c - 1] ELSE h[c - 1]
    <3>1. c # 0 => c - 1 \in 0..MaxChange
      BY HistoryAssumption
    <3> QED
      BY <1>4, <3>1 DEF Step
  <2> HIDE DEF Good
  <2> QED
    BY <2>1
<1>6. u = Body(u)
  <2> HIDE DEF h, Body
  <2> QED
    BY <1>5
<1>7. Joined(runs, piece) = u[MaxChange]
  BY DEF Joined
<1> HIDE DEF u
<1>8. \A c \in 0..MaxChange : u[c] = Step(runs, piece, u, c)
  BY <1>6 DEF Step
<1> QED
  BY <1>7, <1>8

\* Induction on the prefixes of the recursion.
LEMMA PrefixInduction ==
  ASSUME NEW T \in SUBSET (0..MaxChange), 0 \in T,
         \A c \in T : c < MaxChange => c + 1 \in T
  PROVE  T = 0..MaxChange
<1>1. MaxChange \in Nat
  BY HistoryAssumption
<1> QED
  BY <1>1, BoundedInduction

\* A text of one run is that run.
LEMMA JoinedOne ==
  ASSUME NEW c \in Change, NEW piece, piece[c] \in Seq(Text)
  PROVE  Joined({c}, piece) = piece[c]
<1>1. PICK g : /\ Joined({c}, piece) = g[MaxChange]
               /\ \A i \in 0..MaxChange : g[i] = Step({c}, piece, g, i)
  BY JoinedRecursion
<1> DEFINE T == {i \in 0..MaxChange : g[i] = IF i < c THEN <<>> ELSE piece[c]}
<1>2. c \in Nat /\ c # 0 /\ MaxChange \in Nat /\ c <= MaxChange
  BY HistoryAssumption DEF Change
<1>3. T \in SUBSET (0..MaxChange)
  OBVIOUS
<1>4. 0 \in T
  <2>1. 0 \in 0..MaxChange /\ 0 < c
    BY <1>2
  <2>2. g[0] = <<>>
    BY <1>1, <2>1 DEF Step
  <2>3. <<>> \in Seq(Text)
    OBVIOUS
  <2> QED
    BY <2>1, <2>2, <2>3
<1>5. ASSUME NEW i \in 0..MaxChange, i \in T, i < MaxChange PROVE i + 1 \in T
  <2>1. i + 1 \in 0..MaxChange /\ (i + 1) - 1 = i /\ i + 1 # 0
    BY <1>2, <1>5
  <2>2. g[i + 1] = IF i + 1 = c THEN piece[c] \o g[i] ELSE g[i]
    BY <1>1, <2>1 DEF Step
  <2>3. piece[c] \o <<>> = piece[c]
    OBVIOUS
  <2>4. g[i] = IF i < c THEN <<>> ELSE piece[c]
    BY <1>5
  <2>5. g[i + 1] = IF i + 1 < c THEN <<>> ELSE piece[c]
    <3> HIDE DEF T
    <3>1. CASE i + 1 < c
      BY <1>2, <2>2, <2>4, <3>1
    <3>2. CASE i + 1 = c
      <4>1. g[i] = <<>>
        BY <1>2, <2>4, <3>2
      <4> QED
        BY <2>2, <2>3, <3>2, <4>1
    <3>3. CASE i + 1 > c
      BY <1>2, <2>2, <2>4, <3>3
    <3> QED
      BY <1>2, <3>1, <3>2, <3>3
  <2> QED
    BY <2>1, <2>5
<1> HIDE DEF T
<1>6. T = 0..MaxChange
  BY <1>3, <1>4, <1>5, PrefixInduction
<1> QED
  BY <1>1, <1>2, <1>6 DEF T

\* What is joined from sequences of pieces is one.
LEMMA JoinedType ==
  ASSUME NEW runs, NEW piece, \A c \in runs : piece[c] \in Seq(Text)
  PROVE  Joined(runs, piece) \in Seq(Text)
<1>1. PICK g : /\ Joined(runs, piece) = g[MaxChange]
               /\ \A i \in 0..MaxChange : g[i] = Step(runs, piece, g, i)
  BY JoinedRecursion
<1> DEFINE T == {i \in 0..MaxChange : g[i] \in Seq(Text)}
<1>2. T \in SUBSET (0..MaxChange)
  OBVIOUS
<1>3. 0 \in T
  <2>1. 0 \in 0..MaxChange
    BY HistoryAssumption
  <2>2. g[0] = <<>>
    BY <1>1, <2>1 DEF Step
  <2>3. <<>> \in Seq(Text)
    OBVIOUS
  <2> QED
    BY <2>1, <2>2, <2>3
<1>4. ASSUME NEW i \in 0..MaxChange, i \in T, i < MaxChange PROVE i + 1 \in T
  <2>1. i + 1 \in 0..MaxChange /\ (i + 1) - 1 = i /\ i + 1 # 0
    BY <1>4, HistoryAssumption
  <2>2. g[i + 1] = IF i + 1 \in runs THEN piece[i + 1] \o g[i] ELSE g[i]
    BY <1>1, <2>1 DEF Step
  <2>3. g[i] \in Seq(Text)
    BY <1>4
  <2>4. g[i + 1] \in Seq(Text)
    <3> HIDE DEF T
    <3> QED
      BY <2>2, <2>3
  <2> QED
    BY <2>1, <2>4
<1> HIDE DEF T
<1>5. T = 0..MaxChange
  BY <1>2, <1>3, <1>4, PrefixInduction
<1> QED
  BY <1>1, <1>5, HistoryAssumption DEF T

\* Every piece of every run shows in the text.
LEMMA JoinedHas ==
  ASSUME NEW runs, NEW piece, \A c \in runs : piece[c] \in Seq(Text),
         NEW c \in Change, c \in runs
  PROVE  PiecesOf(piece[c]) \subseteq PiecesOf(Joined(runs, piece))
<1>1. PICK g : /\ Joined(runs, piece) = g[MaxChange]
               /\ \A i \in 0..MaxChange : g[i] = Step(runs, piece, g, i)
  BY JoinedRecursion
<1> DEFINE T == {i \in 0..MaxChange :
                   g[i] \in Seq(Text) /\ (c <= i => PiecesOf(piece[c]) \subseteq PiecesOf(g[i]))}
<1>2. c \in Nat /\ c # 0 /\ MaxChange \in Nat /\ c <= MaxChange
  BY HistoryAssumption DEF Change
<1>3. T \in SUBSET (0..MaxChange)
  OBVIOUS
<1>4. 0 \in T
  <2>1. 0 \in 0..MaxChange /\ ~(c <= 0)
    BY <1>2
  <2>2. g[0] = <<>>
    BY <1>1, <2>1 DEF Step
  <2>3. <<>> \in Seq(Text)
    OBVIOUS
  <2> QED
    BY <2>1, <2>2, <2>3
<1>5. ASSUME NEW i \in 0..MaxChange, i \in T, i < MaxChange PROVE i + 1 \in T
  <2>1. i + 1 \in 0..MaxChange /\ (i + 1) - 1 = i /\ i + 1 # 0
    BY <1>2, <1>5
  <2>2. g[i + 1] = IF i + 1 \in runs THEN piece[i + 1] \o g[i] ELSE g[i]
    BY <1>1, <2>1 DEF Step
  <2>3. g[i] \in Seq(Text) /\ g[i + 1] \in Seq(Text)
    BY <1>5, <2>2
  <2>4. ASSUME NEW s \in Seq(Text), NEW t \in Seq(Text)
        PROVE  PiecesOf(s) \subseteq PiecesOf(s \o t) /\ PiecesOf(t) \subseteq PiecesOf(s \o t)
    <3>1. ASSUME NEW j \in DOMAIN s PROVE s[j] \in PiecesOf(s \o t)
      <4>1. j \in DOMAIN (s \o t) /\ (s \o t)[j] = s[j]
        OBVIOUS
      <4> QED
        BY <4>1 DEF PiecesOf
    <3>2. ASSUME NEW j \in DOMAIN t PROVE t[j] \in PiecesOf(s \o t)
      <4>1. Len(s) + j \in DOMAIN (s \o t) /\ (s \o t)[Len(s) + j] = t[j]
        OBVIOUS
      <4> QED
        BY <4>1 DEF PiecesOf
    <3> QED
      BY <3>1, <3>2 DEF PiecesOf
  <2>5. ASSUME c <= i + 1 PROVE PiecesOf(piece[c]) \subseteq PiecesOf(g[i + 1])
    <3>1. CASE c = i + 1
      BY <2>2, <2>3, <2>4, <3>1
    <3>2. CASE c <= i
      BY <1>5, <2>2, <2>3, <2>4, <3>2
    <3> QED
      BY <1>2, <2>5, <3>1, <3>2
  <2> QED
    BY <2>1, <2>3, <2>5
<1> HIDE DEF T
<1>6. T = 0..MaxChange
  BY <1>3, <1>4, <1>5, PrefixInduction
<1> QED
  BY <1>1, <1>2, <1>6 DEF T

-----------------------------------------------------------------------------
(* Sets of changes: heads, forks and what they show.                       *)

\* A document is a set of changes.
LEMMA DocsAreChanges ==
  ASSUME TypeOK
  PROVE  /\ Len(change) \in Nat /\ DOMAIN change = 1..Len(change)
         /\ DOMAIN change \subseteq Nat
         /\ \A n \in Node : doc[n] \in SUBSET DOMAIN change
<1>1. Len(change) \in Nat /\ DOMAIN change = 1..Len(change)
  BY HistoryAssumption DEF TypeOK
<1>2. \A n \in Node : doc[n] \in SUBSET (1..Len(change))
  BY DEF TypeOK
<1> QED
  BY <1>1, <1>2

\* A set of changes has a greatest one.
LEMMA Latest ==
  ASSUME TypeOK, NEW T \in SUBSET DOMAIN change, T # {}
  PROVE  MaxOf(T) \in T /\ \A c \in T : c <= MaxOf(T)
<1>1. Len(change) \in Nat /\ T \in SUBSET (0..Len(change))
  BY DocsAreChanges
<1> QED
  BY <1>1, Greatest

\* What a change depends on was made before it.
LEMMA PastIsEarlier ==
  ASSUME TypeOK, NEW c \in DOMAIN change
  PROVE  /\ change[c].past \subseteq DOMAIN change
         /\ \A d \in change[c].past : d < c
<1>1. c \in 1..Len(change) /\ Len(change) \in Nat /\ DOMAIN change = 1..Len(change)
  BY DocsAreChanges
<1>2. change[c].past \subseteq 1..(c - 1)
  BY DEF TypeOK
<1>3. ASSUME NEW d \in change[c].past PROVE d \in 1..Len(change) /\ d < c
  <2>1. d \in 1..(c - 1)
    BY <1>2
  <2> QED
    BY <1>1, <2>1
<1> QED
  BY <1>1, <1>3

\* In a set of changes, the greatest one that has c, or is c, is in the past of
\* no other.
LEMMA Topmost ==
  ASSUME TypeOK, PastsAreClosed, NEW S \in SUBSET DOMAIN change, NEW c \in S
  PROVE  \E m \in S : (m = c \/ c \in change[m].past) /\ \A d \in S : m \notin change[d].past
<1> DEFINE T == {d \in S : d = c \/ c \in change[d].past}
           m == MaxOf(T)
<1>1. T \in SUBSET DOMAIN change /\ T # {}
  OBVIOUS
<1>2. m \in T /\ \A d \in T : d <= m
  BY <1>1, Latest
<1> HIDE DEF m
<1>3. ASSUME NEW d \in S, m \in change[d].past PROVE FALSE
  <2>1. c \in change[d].past
    BY <1>2, <1>3 DEF PastsAreClosed
  <2>2. d <= m
    BY <1>2, <2>1
  <2>3. m < d /\ m \in Nat /\ d \in Nat
    BY <1>2, <1>3, PastIsEarlier DEF TypeOK
  <2> QED
    BY <2>2, <2>3
<1> QED
  BY <1>2, <1>3

\* Heads stand for the whole of a closed set of changes.
LEMMA ForkOfHeads ==
  ASSUME TypeOK, PastsAreClosed, NEW S \in SUBSET DOMAIN change,
         \A c \in S : change[c].past \subseteq S
  PROVE  fork_at(get_heads(S)) = S
<1>1. get_heads(S) \subseteq S
  BY DEF get_heads
<1>2. fork_at(get_heads(S)) \subseteq S
  BY <1>1 DEF fork_at
<1>3. ASSUME NEW c \in S PROVE c \in fork_at(get_heads(S))
  <2>1. PICK m \in S : (m = c \/ c \in change[m].past) /\ \A d \in S : m \notin change[d].past
    BY Topmost
  <2>2. m \in get_heads(S)
    BY <2>1 DEF get_heads
  <2> QED
    BY <2>1, <2>2 DEF fork_at
<1> QED
  BY <1>2, <1>3

\* So do the heads of the changes up to a time, although that set need not be
\* closed: what hides one of them is one of them too.
LEMMA ForkAtTime ==
  ASSUME TypeOK, PastsAreClosed, NEW S \in SUBSET DOMAIN change, NEW t
  PROVE  fork_at(heads_at_time(S, t)) = fork_at({c \in S : change[c].time <= t})
<1> DEFINE included == {c \in S : change[c].time <= t}
           H == heads_at_time(S, t)
<1>1. H \subseteq included
  BY DEF heads_at_time
<1>2. fork_at(H) \subseteq fork_at(included)
  BY <1>1 DEF fork_at
<1>3. ASSUME NEW e \in included PROVE \E m \in H : m = e \/ e \in change[m].past
  <2>1. included \in SUBSET DOMAIN change
    OBVIOUS
  <2>2. PICK m \in included : (m = e \/ e \in change[m].past)
                             /\ \A d \in included : m \notin change[d].past
    <3> HIDE DEF included
    <3> QED
      BY <2>1, Topmost
  <2>3. \A d \in included : m \notin deps(d)
    BY <2>2 DEF deps, get_heads
  <2>4. m \in H
    BY <2>2, <2>3 DEF heads_at_time
  <2> QED
    BY <2>2, <2>4
<1>4. ASSUME NEW c \in fork_at(included) PROVE c \in fork_at(H)
  <2>1. PICK e \in included : c = e \/ c \in change[e].past
    BY DEF fork_at
  <2>2. PICK m \in H : m = e \/ e \in change[m].past
    BY <1>3
  <2>3. m \in DOMAIN change
    BY <1>1
  <2>4. c = m \/ c \in change[m].past
    BY <2>1, <2>2, <2>3 DEF PastsAreClosed
  <2> QED
    BY <2>4 DEF fork_at
<1> QED
  BY <1>2, <1>4

\* A field that reads as something was put by a change, and reads as that.
LEMMA GetWasPut ==
  ASSUME TypeOK, NEW S \in SUBSET DOMAIN change, NEW k, get(S, k) # None
  PROVE  /\ MaxOf(Visible(S, k)) \in S
         /\ k \in DOMAIN change[MaxOf(Visible(S, k))].put
         /\ get(S, k) = change[MaxOf(Visible(S, k))].put[k]
<1>1. Visible(S, k) # {} /\ get(S, k) = change[MaxOf(Visible(S, k))].put[k]
  BY DEF get
<1>2. Visible(S, k) \in SUBSET DOMAIN change
  BY DEF Visible
<1>3. MaxOf(Visible(S, k)) \in Visible(S, k)
  BY <1>1, <1>2, Latest
<1> QED
  BY <1>1, <1>3 DEF Visible

\* A field that was put and is never taken away reads as one of its values.
LEMMA GetStays ==
  ASSUME TypeOK, NEW S \in SUBSET DOMAIN change, NEW k,
         \A d \in S : k \notin change[d].unset,
         NEW c \in S, k \in DOMAIN change[c].put
  PROVE  \E d \in S : k \in DOMAIN change[d].put /\ get(S, k) = change[d].put[k]
<1> DEFINE T == {d \in S : k \in DOMAIN change[d].put}
           m == MaxOf(T)
           v == MaxOf(Visible(S, k))
<1>1. m \in T /\ \A d \in T : d <= m
  <2>1. T \in SUBSET DOMAIN change /\ T # {}
    OBVIOUS
  <2> QED
    BY <2>1, Latest
<1> HIDE DEF m
<1>2. ASSUME NEW d \in S, m \in change[d].past PROVE ~Hides(d, k)
  <2>1. m < d /\ m \in Nat /\ d \in Nat
    BY <1>1, <1>2, PastIsEarlier DEF TypeOK
  <2>2. d \notin T
    BY <1>1, <2>1
  <2> QED
    BY <2>2 DEF Hides
<1>3. m \in Visible(S, k)
  BY <1>1, <1>2 DEF Visible
<1>4. Visible(S, k) \in SUBSET DOMAIN change
  BY DEF Visible
<1>5. v \in Visible(S, k)
  BY <1>3, <1>4, Latest
<1>6. get(S, k) = change[v].put[k]
  BY <1>3 DEF get
<1> QED
  BY <1>5, <1>6 DEF Visible

-----------------------------------------------------------------------------
(* What a commit does: the changes made before stay as they are, and the   *)
(* author reads what the new one puts.                                     *)

\* No change is ever rewritten.
Extended == /\ Len(change') \in Nat /\ Len(change) <= Len(change')
            /\ DOMAIN change \subseteq DOMAIN change'
            /\ \A c \in DOMAIN change : change'[c] = change[c]

\* The new change N, whose past is all its author had.
Appended(N, n, put, unset, splice) ==
  /\ Extended
  /\ N \in Change /\ N \notin DOMAIN change
  /\ Len(change') = N
  /\ DOMAIN change' = DOMAIN change \cup {N}
  /\ change'[N] = [past |-> doc[n], time |-> N + Skew[n],
                   put |-> put, unset |-> unset, splice |-> splice]
  /\ doc' = [doc EXCEPT ![n] = doc[n] \cup {N}]

\* A commit appends one change.
LEMMA Committed ==
  ASSUME TypeOK, NEW n \in Node, NEW put, NEW unset, NEW splice,
         commit_now(n, put, unset, splice)
  PROVE  Appended(NextChange, n, put, unset, splice)
<1> DEFINE r == [past |-> doc[n], time |-> NextChange + Skew[n],
                 put |-> put, unset |-> unset, splice |-> splice]
<1>1. Len(change) \in Nat /\ DOMAIN change = 1..Len(change)
  BY DocsAreChanges
<1>2. NextChange \in Change /\ change' = Append(change, r)
      /\ doc' = [doc EXCEPT ![n] = doc[n] \cup {NextChange}]
  BY DEF commit_now
<1> HIDE DEF r
<1>3. change \in Seq({change[c] : c \in DOMAIN change})
  <2>1. change = [c \in 1..Len(change) |-> change[c]]
    BY DEF TypeOK
  <2> QED
    BY <1>1, <2>1
<1>4. /\ Len(Append(change, r)) = Len(change) + 1
      /\ DOMAIN Append(change, r) = 1..(Len(change) + 1)
      /\ \A c \in 1..Len(change) : Append(change, r)[c] = change[c]
      /\ Append(change, r)[Len(change) + 1] = r
  BY <1>1, <1>3
<1>5. 1..(Len(change) + 1) = 1..Len(change) \cup {Len(change) + 1}
  BY <1>1
<1>6. Len(change) + 1 \notin 1..Len(change) /\ Len(change) <= Len(change) + 1
      /\ Len(change) + 1 \in Nat
  BY <1>1
<1> QED
  BY <1>1, <1>2, <1>4, <1>5, <1>6 DEF NextChange, Extended, Appended, r

\* The changes stay a sequence.
LEMMA StillSequence ==
  ASSUME TypeOK, NEW n \in Node, NEW put, NEW unset, NEW splice,
         commit_now(n, put, unset, splice)
  PROVE  change' = [c \in 1..Len(change') |-> change'[c]]
<1> DEFINE r == [past |-> doc[n], time |-> NextChange + Skew[n],
                 put |-> put, unset |-> unset, splice |-> splice]
<1>1. Len(change) \in Nat /\ change = [c \in 1..Len(change) |-> change[c]]
  BY DocsAreChanges DEF TypeOK
<1>2. change' = Append(change, r)
  BY DEF commit_now
<1> HIDE DEF r
<1>3. change \in Seq({change[c] : c \in DOMAIN change})
  BY <1>1
<1>4. change' \in Seq({change[c] : c \in DOMAIN change} \cup {r})
  BY <1>2, <1>3
<1> QED
  BY <1>4

\* What a set of earlier changes shows is not touched.
LEMMA Unmoved ==
  ASSUME TypeOK, Extended, NEW S \in SUBSET DOMAIN change
  PROVE  /\ \A k : Visible(S, k)' = Visible(S, k) /\ get(S, k)' = get(S, k)
         /\ \A o : Runs(S, o)' = Runs(S, o) /\ text(S, o)' = text(S, o)
         /\ get_heads(S)' = get_heads(S)
<1>1. \A c \in S : change'[c] = change[c]
  BY DEF Extended
<1>2. ASSUME NEW k PROVE Visible(S, k)' = Visible(S, k)
  BY <1>1 DEF Visible, Hides
<1>3. ASSUME NEW k PROVE get(S, k)' = get(S, k)
  <2>1. CASE Visible(S, k) = {}
    BY <1>2, <2>1 DEF get
  <2>2. CASE Visible(S, k) # {}
    <3>1. Visible(S, k) \in SUBSET S
      BY DEF Visible
    <3>2. MaxOf(Visible(S, k)) \in S
      BY <2>2, <3>1, Latest
    <3> QED
      BY <1>1, <1>2, <2>2, <3>2 DEF get
  <2> QED
    BY <2>1, <2>2
<1>4. ASSUME NEW o PROVE Runs(S, o)' = Runs(S, o)
  BY <1>1 DEF Runs
<1>5. ASSUME NEW o PROVE text(S, o)' = text(S, o)
  <2>1. Runs(S, o) \subseteq S
    BY DEF Runs
  <2>2. [c \in Runs(S, o) |-> change'[c].splice[o]] = [c \in Runs(S, o) |-> change[c].splice[o]]
    BY <1>1, <2>1
  <2> QED
    BY <1>4, <2>2 DEF text
<1>6. get_heads(S)' = get_heads(S)
  BY <1>1 DEF get_heads
<1> QED
  BY <1>2, <1>3, <1>4, <1>5, <1>6

\* What its author reads after a commit.
LEMMA Reads ==
  ASSUME TypeOK, NEW n \in Node, NEW put, NEW unset, NEW splice,
         commit_now(n, put, unset, splice), NEW k
  PROVE  get(doc[n], k)' = IF k \in DOMAIN put THEN put[k]
                           ELSE IF k \in unset THEN None ELSE get(doc[n], k)
<1> DEFINE N == NextChange
<1>1. /\ Extended /\ doc'[n] = doc[n] \cup {N} /\ doc[n] \in SUBSET DOMAIN change
      /\ N \notin DOMAIN change
      /\ change'[N].past = doc[n] /\ change'[N].put = put /\ change'[N].unset = unset
      /\ N \in Nat
  <2>1. /\ Extended /\ NextChange \in Change /\ NextChange \notin DOMAIN change
        /\ change'[NextChange] = [past |-> doc[n], time |-> NextChange + Skew[n],
                                  put |-> put, unset |-> unset, splice |-> splice]
        /\ doc' = [doc EXCEPT ![n] = doc[n] \cup {NextChange}]
    BY Committed DEF Appended
  <2>2. doc \in [Node -> SUBSET (1..Len(change))] /\ doc[n] \in SUBSET DOMAIN change
    BY DocsAreChanges DEF TypeOK
  <2>3. doc'[n] = doc[n] \cup {NextChange}
    BY <2>1, <2>2
  <2>4. NextChange \in Nat
    BY <2>1, HistoryAssumption DEF Change
  <2> QED
    BY <2>1, <2>2, <2>3, <2>4
<1>2. \A c \in doc[n] : change'[c] = change[c] /\ N \notin change[c].past
  BY <1>1, PastIsEarlier DEF Extended
<1>3. N \notin doc[n]
  BY <1>1
<1> HIDE DEF N
<1>4. CASE k \in DOMAIN put
  <2>1. Visible(doc[n], k)' = {N}
    BY <1>1, <1>2, <1>3, <1>4 DEF Visible, Hides
  <2>2. MaxOf({N}) = N
    BY <1>1, Greatest
  <2> QED
    BY <1>1, <1>4, <2>1, <2>2 DEF get
<1>5. CASE k \notin DOMAIN put /\ k \in unset
  <2>1. Visible(doc[n], k)' = {}
    BY <1>1, <1>2, <1>3, <1>5 DEF Visible, Hides
  <2> QED
    BY <1>5, <2>1 DEF get
<1>6. CASE k \notin DOMAIN put /\ k \notin unset
  <2>1. Visible(doc[n], k)' = Visible(doc[n], k)
    BY <1>1, <1>2, <1>3, <1>6 DEF Visible, Hides
  <2>2. CASE Visible(doc[n], k) = {}
    BY <1>6, <2>1, <2>2 DEF get
  <2>3. CASE Visible(doc[n], k) # {}
    <3>1. Visible(doc[n], k) \in SUBSET doc[n]
      BY DEF Visible
    <3>2. MaxOf(Visible(doc[n], k)) \in doc[n]
      BY <1>1, <2>3, <3>1, Latest
    <3> QED
      BY <1>2, <1>6, <2>1, <2>3, <3>2 DEF get
  <2> QED
    BY <2>2, <2>3
<1> QED
  BY <1>4, <1>5, <1>6

\* And the texts: a splice replaces all that its author saw.
LEMMA Texts ==
  ASSUME TypeOK, NEW n \in Node, NEW put, NEW unset, NEW splice,
         commit_now(n, put, unset, splice), NEW o,
         o \in DOMAIN splice => splice[o] \in Seq(Text)
  PROVE  text(doc[n], o)' = IF o \in DOMAIN splice THEN splice[o] ELSE text(doc[n], o)
<1> DEFINE N == NextChange
<1>1. /\ Extended /\ doc'[n] = doc[n] \cup {N} /\ doc[n] \in SUBSET DOMAIN change
      /\ N \notin DOMAIN change /\ N \in Change
      /\ change'[N].past = doc[n] /\ change'[N].splice = splice
  <2>1. /\ Extended /\ NextChange \in Change /\ NextChange \notin DOMAIN change
        /\ change'[NextChange] = [past |-> doc[n], time |-> NextChange + Skew[n],
                                  put |-> put, unset |-> unset, splice |-> splice]
        /\ doc' = [doc EXCEPT ![n] = doc[n] \cup {NextChange}]
    BY Committed DEF Appended
  <2>2. doc \in [Node -> SUBSET (1..Len(change))] /\ doc[n] \in SUBSET DOMAIN change
    BY DocsAreChanges DEF TypeOK
  <2>3. doc'[n] = doc[n] \cup {NextChange}
    BY <2>1, <2>2
  <2> QED
    BY <2>1, <2>2, <2>3
<1>2. \A c \in doc[n] : change'[c] = change[c] /\ N \notin change[c].past
  BY <1>1, PastIsEarlier DEF Extended
<1>3. N \notin doc[n]
  BY <1>1
<1> HIDE DEF N
<1>4. CASE o \in DOMAIN splice
  <2>1. Runs(doc[n], o)' = {N}
    BY <1>1, <1>2, <1>3, <1>4 DEF Runs
  <2>2. text(doc[n], o)' = Joined({N}, [c \in {N} |-> change'[c].splice[o]])
    BY <2>1 DEF text
  <2>3. [c \in {N} |-> change'[c].splice[o]][N] = splice[o]
    BY <1>1
  <2> QED
    BY <1>1, <1>4, <2>2, <2>3, JoinedOne
<1>5. CASE o \notin DOMAIN splice
  <2>1. Runs(doc[n], o)' = Runs(doc[n], o)
    BY <1>1, <1>2, <1>3, <1>5 DEF Runs
  <2>2. Runs(doc[n], o) \subseteq doc[n]
    BY DEF Runs
  <2>3. [c \in Runs(doc[n], o) |-> change'[c].splice[o]] = [c \in Runs(doc[n], o) |-> change[c].splice[o]]
    BY <1>2, <2>2
  <2> QED
    BY <1>5, <2>1, <2>3 DEF text
<1> QED
  BY <1>4, <1>5

-----------------------------------------------------------------------------
(* What a closed set of changes says of a file.                            *)

\* A set of changes that has the past of each of its own.
Closed(S) == S \in SUBSET DOMAIN change /\ \A c \in S : change[c].past \subseteq S

\* A document is one, and so is the past of a change.
LEMMA ClosedSets ==
  ASSUME IInv
  PROVE  /\ \A n \in Node : Closed(doc[n])
         /\ \A c \in DOMAIN change : Closed(change[c].past)
<1>1. TypeOK /\ PastsAreClosed
  BY DEF IInv
<1>2. ASSUME NEW n \in Node PROVE Closed(doc[n])
  BY <1>1, DocsAreChanges DEF Closed, PastsAreClosed
<1>3. ASSUME NEW c \in DOMAIN change PROVE Closed(change[c].past)
  BY <1>1, PastIsEarlier DEF Closed, PastsAreClosed
<1> QED
  BY <1>2, <1>3

\* And so is what is restored.
LEMMA ForksAreClosed ==
  ASSUME IInv, NEW S, Closed(S), NEW H \in SUBSET S
  PROVE  Closed(fork_at(H)) /\ fork_at(H) \subseteq S
<1>1. TypeOK /\ PastsAreClosed
  BY DEF IInv
<1>2. H \subseteq DOMAIN change
  BY DEF Closed
<1>3. fork_at(H) \subseteq S
  BY DEF fork_at, Closed
<1>4. ASSUME NEW c \in fork_at(H), NEW d \in change[c].past PROVE d \in fork_at(H)
  <2>1. CASE c \in H
    BY <1>4, <2>1 DEF fork_at
  <2>2. CASE c \notin H
    <3>1. PICK e \in H : c \in change[e].past
      BY <1>4, <2>2 DEF fork_at
    <3>2. d \in change[e].past
      BY <1>1, <1>2, <1>4, <3>1 DEF PastsAreClosed
    <3> QED
      BY <3>2 DEF fork_at
  <2> QED
    BY <2>1, <2>2
<1> QED
  BY <1>3, <1>4 DEF Closed

\* Only tombstones and labels are taken away.
LEMMA FieldsStay ==
  ASSUME IInv, NEW S, Closed(S), NEW f, NEW k \in Field \ {"deleted_at", "heads"},
         NEW c \in S, Puts(c, f, k)
  PROVE  \E d \in S : Puts(d, f, k) /\ get(S, <<f, k>>) = Value(d, f, k)
<1>1. TypeOK /\ ValuesAreTyped
  BY DEF IInv
<1>2. S \in SUBSET DOMAIN change
  BY DEF Closed
<1>3. ASSUME NEW d \in S, <<f, k>> \in change[d].unset PROVE FALSE
  <2>1. <<f, k>>[2] \in {"deleted_at", "heads"}
    BY <1>1, <1>2, <1>3 DEF ValuesAreTyped
  <2> QED
    BY <2>1
<1>4. \E d \in S : <<f, k>> \in DOMAIN change[d].put /\ get(S, <<f, k>>) = change[d].put[<<f, k>>]
  BY <1>1, <1>2, <1>3, GetStays DEF Puts
<1> QED
  BY <1>4 DEF Puts, Value

\* An entry whose path was put has a path and a kind, and a body if that is text.
LEMMA WholeEntry ==
  ASSUME IInv, NEW S, Closed(S), NEW f \in File, NEW c \in S, Puts(c, f, "path")
  PROVE  /\ get(S, <<f, "path">>) \in Path
         /\ get(S, <<f, "kind">>) \in {"text", "attachment"}
         /\ \E d \in S : Puts(d, f, "kind")
         /\ get(S, <<f, "kind">>) = "text" => \E d \in S : Puts(d, f, "content")
<1>1. ValuesAreTyped /\ EntriesAreWhole
  BY DEF IInv
<1>2. S \subseteq DOMAIN change /\ \A d \in S : UpTo(d) \subseteq S
  BY DEF Closed, UpTo
<1>3. get(S, <<f, "path">>) \in Path
  <2>1. PICK d \in S : Puts(d, f, "path") /\ get(S, <<f, "path">>) = Value(d, f, "path")
    BY FieldsStay DEF Field
  <2> QED
    BY <1>1, <1>2, <2>1 DEF ValuesAreTyped
<1>4. \E d \in S : Puts(d, f, "kind")
  BY <1>1, <1>2 DEF EntriesAreWhole
<1>5. PICK d \in S : Puts(d, f, "kind") /\ get(S, <<f, "kind">>) = Value(d, f, "kind")
  BY <1>4, FieldsStay DEF Field
<1>6. get(S, <<f, "kind">>) \in {"text", "attachment"}
  BY <1>1, <1>2, <1>5 DEF ValuesAreTyped
<1>7. get(S, <<f, "kind">>) = "text" => \E e \in S : Puts(e, f, "content")
  BY <1>1, <1>2, <1>5 DEF EntriesAreWhole
<1> QED
  BY <1>3, <1>4, <1>6, <1>7

\* A body that was put is there, and was made by one of the changes.
LEMMA HasBody ==
  ASSUME IInv, NEW S, Closed(S), NEW f \in File, NEW c \in S, Puts(c, f, "content")
  PROVE  /\ get(S, <<f, "content">>) \in S
         /\ Puts(get(S, <<f, "content">>), f, "content")
         /\ get(S, <<f, "content">>) # None
<1>1. TypeOK /\ ValuesAreTyped
  BY DEF IInv
<1>2. S \subseteq DOMAIN change
  BY DEF Closed
<1>3. PICK d \in S : Puts(d, f, "content") /\ get(S, <<f, "content">>) = Value(d, f, "content")
  BY FieldsStay DEF Field
<1>4. Value(d, f, "content") = d
  BY <1>1, <1>2, <1>3 DEF ValuesAreTyped
<1>5. d \in Nat
  BY <1>1, <1>2, DocsAreChanges
<1> QED
  BY <1>3, <1>4, <1>5, NoneAssumption

\* A body that is read was put.
LEMMA BodyWasPut ==
  ASSUME IInv, NEW S, Closed(S), NEW f \in File, get(S, <<f, "content">>) # None
  PROVE  \E d \in S : Puts(d, f, "content")
<1>1. TypeOK /\ S \in SUBSET DOMAIN change
  BY DEF IInv, Closed
<1> QED
  BY <1>1, GetWasPut DEF Puts

\* A file that was created as a text has the body it was created with, wherever
\* it has a path at all.
LEMMA OneBody ==
  ASSUME IInv, NEW S, Closed(S), NEW f \in File, NEW c \in DOMAIN change, MadeAsText(c, f),
         NEW d \in S, Puts(d, f, "path")
  PROVE  c \in S /\ get(S, <<f, "content">>) = c
<1>1. TextsHaveOneBody /\ S \subseteq DOMAIN change /\ UpTo(d) \subseteq S
  BY DEF IInv, Closed, UpTo
<1>2. c \in S
  BY <1>1 DEF TextsHaveOneBody
<1>3. Puts(c, f, "content")
  BY DEF MadeAsText, Puts
<1>4. get(S, <<f, "content">>) \in S /\ Puts(get(S, <<f, "content">>), f, "content")
  BY <1>2, <1>3, HasBody
<1>5. get(S, <<f, "content">>) = c
  BY <1>1, <1>4 DEF TextsHaveOneBody
<1> QED
  BY <1>2, <1>5

\* What is listed has a path that was put.
LEMMA ListedWasPut ==
  ASSUME IInv, NEW S, Closed(S), NEW f, live(S, f)
  PROVE  \E d \in S : Puts(d, f, "path")
<1>1. TypeOK /\ S \in SUBSET DOMAIN change
  BY DEF IInv, Closed
<1> QED
  BY <1>1, GetWasPut DEF Puts, live

\* A directory has neither a kind nor a hash.
LEMMA DirectoriesArePlain ==
  ASSUME IInv, NEW S, Closed(S), NEW d \in Dir
  PROVE  get(S, <<d, "kind">>) = None /\ get(S, <<d, "hash">>) = None
<1>1. TypeOK /\ ValuesAreTyped /\ S \in SUBSET DOMAIN change /\ d \notin File
  BY HistoryAssumption DEF IInv, Closed
<1>2. \A c \in S : ~Puts(c, d, "kind") /\ ~Puts(c, d, "hash")
  BY <1>1 DEF ValuesAreTyped
<1> QED
  BY <1>1, <1>2, GetWasPut DEF Puts

\* A text is a sequence of pieces.
LEMMA TextType ==
  ASSUME IInv, NEW S, Closed(S)
  PROVE  /\ \A o : text(S, o) \in Seq(Text)
         /\ \A f : read_file_id(S, f) \in Seq(Text)
<1>1. ValuesAreTyped /\ S \subseteq DOMAIN change
  BY DEF IInv, Closed
<1>2. ASSUME NEW o PROVE text(S, o) \in Seq(Text)
  <2> DEFINE piece == [c \in Runs(S, o) |-> change[c].splice[o]]
  <2>1. \A c \in Runs(S, o) : piece[c] \in Seq(Text)
    BY <1>1 DEF ValuesAreTyped, Runs
  <2> HIDE DEF piece
  <2>2. Joined(Runs(S, o), piece) \in Seq(Text)
    BY <2>1, JoinedType
  <2> QED
    BY <2>2 DEF text, piece
<1>3. ASSUME NEW f PROVE read_file_id(S, f) \in Seq(Text)
  <2>1. <<>> \in Seq(Text)
    OBVIOUS
  <2> QED
    BY <1>2, <2>1 DEF read_file_id
<1> QED
  BY <1>2, <1>3

\* The file found at a path is live.
LEMMA FoundIsLive ==
  ASSUME NEW S, NEW p
  PROVE  /\ find_file_by_path(S, p) # None =>
              find_file_by_path(S, p) \in File /\ live(S, find_file_by_path(S, p))
         /\ find_directory_by_path(S, p) # None =>
              find_directory_by_path(S, p) \in Dir /\ live(S, find_directory_by_path(S, p))
<1>1. ASSUME find_file_by_path(S, p) # None
      PROVE  find_file_by_path(S, p) \in File /\ live(S, find_file_by_path(S, p))
  <2>1. LiveAt(S, p) # {} /\ find_file_by_path(S, p) = MinOf(LiveAt(S, p))
    BY <1>1 DEF find_file_by_path
  <2>2. LiveAt(S, p) \in SUBSET Nat
    BY HistoryAssumption DEF LiveAt, list_files
  <2>3. MinOf(LiveAt(S, p)) \in LiveAt(S, p)
    BY <2>1, <2>2, Least
  <2> QED
    BY <2>1, <2>3 DEF LiveAt, list_files
<1>2. ASSUME find_directory_by_path(S, p) # None
      PROVE  find_directory_by_path(S, p) \in Dir /\ live(S, find_directory_by_path(S, p))
  <2> DEFINE hits == {d \in list_directories(S) : get(S, <<d, "path">>) = p}
  <2>1. hits # {} /\ find_directory_by_path(S, p) = MinOf(hits)
    BY <1>2 DEF find_directory_by_path
  <2>2. hits \in SUBSET Nat
    BY HistoryAssumption DEF list_directories
  <2>3. MinOf(hits) \in hits
    BY <2>1, <2>2, Least
  <2> QED
    BY <2>1, <2>3 DEF list_directories
<1> QED
  BY <1>1, <1>2

-----------------------------------------------------------------------------
(* The invariant is inductive: what a change must be for a commit of it to *)
(* keep the invariant.                                                     *)

TypedChange(n, put, unset, splice) ==
  /\ DOMAIN put \subseteq Key
  /\ unset \subseteq Key /\ \A x \in unset : x[2] \in {"deleted_at", "heads"}
  /\ DOMAIN splice \subseteq File \X (1..NextChange)
  /\ \A o \in DOMAIN splice : splice[o] \in Seq(Text)
  /\ \A l \in Label : <<l, "heads">> \in DOMAIN put => put[<<l, "heads">>] = get_heads(doc[n])
  /\ \A f \in File \cup Dir :
       /\ <<f, "path">> \in DOMAIN put => put[<<f, "path">>] \in Path
       /\ <<f, "kind">> \in DOMAIN put => f \in File /\ put[<<f, "kind">>] \in {"text", "attachment"}
       /\ <<f, "hash">> \in DOMAIN put => f \in File
       /\ <<f, "content">> \in DOMAIN put => f \in File /\ put[<<f, "content">>] = NextChange
       /\ <<f, "deleted_at">> \in DOMAIN put => put[<<f, "deleted_at">>] = TRUE

\* The change, or one before it in its author's document, puts the field.
Has(n, put, f, k) == <<f, k>> \in DOMAIN put \/ \E d \in doc[n] : Puts(d, f, k)

SplicedBy(splice, f) == {o \in DOMAIN splice : o[1] = f}

WholeChange(n, put, splice) ==
  \A f \in File :
    /\ <<f, "path">> \in DOMAIN put => Has(n, put, f, "kind")
    /\ <<f, "kind">> \in DOMAIN put /\ put[<<f, "kind">>] = "text" => Has(n, put, f, "content")
    /\ <<f, "content">> \in DOMAIN put \/ SplicedBy(splice, f) # {} => Has(n, put, f, "path")

OneBodyChange(n, put, splice) ==
  \A f \in File :
    /\ \A c \in DOMAIN change : MadeAsText(c, f) =>
         /\ <<f, "path">> \in DOMAIN put => c \in doc[n]
         /\ <<f, "content">> \notin DOMAIN put
         /\ SplicedBy(splice, f) \subseteq {<<f, c>>}
    /\ {<<f, "path">>, <<f, "content">>} \subseteq DOMAIN put =>
         /\ \A d \in DOMAIN change : ~Puts(d, f, "path")
         /\ SplicedBy(splice, f) \subseteq {<<f, NextChange>>}

SoundChange(n, put, unset, splice) ==
  TypedChange(n, put, unset, splice) /\ WholeChange(n, put, splice) /\ OneBodyChange(n, put, splice)

\* The changes before a commit keep their meaning, and the new one has its own.
LEMMA CommittedChange ==
  ASSUME TypeOK, NEW n \in Node, NEW put, NEW unset, NEW splice,
         commit_now(n, put, unset, splice), NEW N, N = NextChange
  PROVE  /\ \A c \in DOMAIN change :
              /\ UpTo(c)' = UpTo(c)
              /\ \A f, k : (Puts(c, f, k)' <=> Puts(c, f, k)) /\ Value(c, f, k)' = Value(c, f, k)
              /\ \A f : (MadeAsText(c, f)' <=> MadeAsText(c, f)) /\ Spliced(f, c)' = Spliced(f, c)
         /\ UpTo(N)' = doc[n] \cup {N}
         /\ \A f, k : /\ Puts(N, f, k)' <=> <<f, k>> \in DOMAIN put
                      /\ Value(N, f, k)' = put[<<f, k>>]
         /\ \A f : /\ MadeAsText(N, f)' <=> {<<f, "path">>, <<f, "content">>} \subseteq DOMAIN put
                   /\ Spliced(f, N)' = SplicedBy(splice, f)
<1>1. /\ Extended
      /\ change'[N] = [past |-> doc[n], time |-> N + Skew[n],
                       put |-> put, unset |-> unset, splice |-> splice]
  BY Committed DEF Appended
<1>2. change'[N].past = doc[n] /\ change'[N].put = put /\ change'[N].splice = splice
  BY <1>1
<1>3. ASSUME NEW c \in DOMAIN change
      PROVE  /\ UpTo(c)' = UpTo(c)
             /\ \A f, k : (Puts(c, f, k)' <=> Puts(c, f, k)) /\ Value(c, f, k)' = Value(c, f, k)
             /\ \A f : (MadeAsText(c, f)' <=> MadeAsText(c, f)) /\ Spliced(f, c)' = Spliced(f, c)
  BY <1>1 DEF Extended, UpTo, Puts, Value, MadeAsText, Spliced
<1>4. /\ UpTo(N)' = doc[n] \cup {N}
      /\ \A f, k : /\ Puts(N, f, k)' <=> <<f, k>> \in DOMAIN put
                   /\ Value(N, f, k)' = put[<<f, k>>]
      /\ \A f : /\ MadeAsText(N, f)' <=> {<<f, "path">>, <<f, "content">>} \subseteq DOMAIN put
                /\ Spliced(f, N)' = SplicedBy(splice, f)
  BY <1>2 DEF UpTo, Puts, Value, MadeAsText, Spliced, SplicedBy
<1> QED
  BY <1>3, <1>4

\* A commit keeps the types.
LEMMA CommitKeepsTypes ==
  ASSUME IInv, NEW n \in Node, NEW put, NEW unset, NEW splice,
         commit_now(n, put, unset, splice), TypedChange(n, put, unset, splice)
  PROVE  TypeOK'
<1> DEFINE N == NextChange
<1>1. TypeOK
  BY DEF IInv
<1>2. /\ Extended /\ N \in Change /\ Len(change') = N
      /\ DOMAIN change' = DOMAIN change \cup {N}
      /\ change'[N] = [past |-> doc[n], time |-> N + Skew[n],
                       put |-> put, unset |-> unset, splice |-> splice]
      /\ doc' = [doc EXCEPT ![n] = doc[n] \cup {N}]
  <2>1. Appended(NextChange, n, put, unset, splice)
    BY <1>1, Committed
  <2> QED
    BY <2>1 DEF Appended
<1>3. Len(change) \in Nat /\ N = Len(change) + 1 /\ DOMAIN change = 1..Len(change)
      /\ doc[n] \subseteq 1..Len(change) /\ doc \in [Node -> SUBSET (1..Len(change))]
  BY <1>1, DocsAreChanges DEF NextChange, TypeOK
<1>4. Len(change') \in 0..MaxChange
  BY <1>2, <1>3, HistoryAssumption DEF Change
<1>5. ASSUME NEW c \in DOMAIN change'
      PROVE  /\ change'[c].past \subseteq 1..(c - 1)
             /\ change'[c].time \in Nat
             /\ DOMAIN change'[c].put \subseteq Key
             /\ change'[c].unset \subseteq Key
             /\ DOMAIN change'[c].splice \subseteq File \X (1..c)
  <2>1. CASE c \in DOMAIN change
    BY <1>1, <1>2, <2>1 DEF TypeOK, Extended
  <2>2. CASE c = N
    <3>1. N - 1 = Len(change) /\ N \in Nat
      BY <1>3
    <3>2. N + Skew[n] \in Nat
      BY <3>1, HistoryAssumption
    <3>3. /\ change'[c].past = doc[n] /\ change'[c].time = N + Skew[n] /\ change'[c].put = put
          /\ change'[c].unset = unset /\ change'[c].splice = splice
      BY <1>2, <2>2
    <3> QED
      BY <1>3, <2>2, <3>1, <3>2, <3>3 DEF TypedChange
  <2> QED
    BY <1>2, <2>1, <2>2
<1>6. doc' \in [Node -> SUBSET (1..Len(change'))]
  <2>1. doc[n] \cup {N} \in SUBSET (1..N)
    BY <1>3
  <2>2. doc \in [Node -> SUBSET (1..N)]
    BY <1>3
  <2> QED
    BY <1>2, <2>1, <2>2
<1>7. change' = [c \in 1..Len(change') |-> change'[c]]
  BY <1>1, StillSequence
<1> HIDE DEF N
<1> QED
  BY <1>2, <1>4, <1>5, <1>6, <1>7 DEF TypeOK, Key, Field

\* A commit keeps the documents closed.
LEMMA CommitKeepsClosed ==
  ASSUME IInv, NEW n \in Node, NEW put, NEW unset, NEW splice,
         commit_now(n, put, unset, splice)
  PROVE  PastsAreClosed'
<1> DEFINE N == NextChange
<1>1. TypeOK /\ PastsAreClosed
  BY DEF IInv
<1>2. /\ Extended /\ N \notin DOMAIN change
      /\ DOMAIN change' = DOMAIN change \cup {N}
      /\ change'[N] = [past |-> doc[n], time |-> N + Skew[n],
                       put |-> put, unset |-> unset, splice |-> splice]
      /\ doc' = [doc EXCEPT ![n] = doc[n] \cup {N}]
  <2>1. Appended(NextChange, n, put, unset, splice)
    BY <1>1, Committed
  <2> QED
    BY <2>1 DEF Appended
<1>3. change'[N].past = doc[n] /\ \A c \in DOMAIN change : change'[c] = change[c]
  BY <1>2 DEF Extended
<1>4. \A m \in Node : doc[m] \subseteq DOMAIN change
  BY <1>1, DocsAreChanges
<1>5. \A c \in DOMAIN change : change[c].past \subseteq DOMAIN change
  BY <1>1, PastIsEarlier
<1>6. \A m \in Node : doc'[m] = IF m = n THEN doc[n] \cup {N} ELSE doc[m]
  BY <1>1, <1>2 DEF TypeOK
<1> HIDE DEF N
<1>7. ASSUME NEW c \in DOMAIN change', NEW d \in change'[c].past
      PROVE  change'[d].past \subseteq change'[c].past
  <2>1. CASE c \in DOMAIN change
    BY <1>1, <1>3, <1>5, <1>7, <2>1 DEF PastsAreClosed
  <2>2. CASE c = N
    BY <1>1, <1>3, <1>4, <1>7, <2>2 DEF PastsAreClosed
  <2> QED
    BY <1>2, <2>1, <2>2
<1>8. ASSUME NEW m \in Node, NEW c \in doc'[m] PROVE change'[c].past \subseteq doc'[m]
  <2>1. CASE c = N
    <3>1. m = n
      BY <1>2, <1>4, <1>6, <1>8, <2>1
    <3> QED
      BY <1>3, <1>6, <2>1, <3>1
  <2>2. CASE c # N
    <3>1. c \in doc[m] /\ c \in DOMAIN change
      BY <1>4, <1>6, <1>8, <2>2
    <3>2. change[c].past \subseteq doc[m]
      BY <1>1, <3>1 DEF PastsAreClosed
    <3> QED
      BY <1>3, <1>6, <3>1, <3>2
  <2> QED
    BY <2>1, <2>2
<1> QED
  BY <1>7, <1>8 DEF PastsAreClosed

\* A commit keeps the fields typed.
LEMMA CommitKeepsValues ==
  ASSUME IInv, NEW n \in Node, NEW put, NEW unset, NEW splice,
         commit_now(n, put, unset, splice), TypedChange(n, put, unset, splice)
  PROVE  ValuesAreTyped'
<1>1. TypeOK /\ ValuesAreTyped
  BY DEF IInv
<1>2. PICK N : N = NextChange
  OBVIOUS
<1>3. /\ Extended /\ DOMAIN change' = DOMAIN change \cup {N}
      /\ change'[N] = [past |-> doc[n], time |-> N + Skew[n],
                       put |-> put, unset |-> unset, splice |-> splice]
  <2>1. Appended(N, n, put, unset, splice)
    BY <1>1, <1>2, Committed
  <2> QED
    BY <2>1 DEF Appended
<1>4. ASSUME NEW c \in DOMAIN change PROVE get_heads(change[c].past)' = get_heads(change[c].past)
  <2>1. change[c].past \in SUBSET DOMAIN change /\ change'[c] = change[c]
    BY <1>1, <1>3, PastIsEarlier DEF Extended
  <2>2. \A d \in change[c].past : change'[d] = change[d]
    BY <1>3, <2>1 DEF Extended
  <2> QED
    BY <2>1, <2>2 DEF get_heads
<1>5. (get_heads(change[N].past))' = get_heads(doc[n])
  <2>1. \A d \in doc[n] : change'[d] = change[d]
    BY <1>1, <1>3, DocsAreChanges DEF Extended
  <2> QED
    BY <1>3, <2>1 DEF get_heads
<1>6. /\ \A c \in DOMAIN change : \A f, k : (Puts(c, f, k)' <=> Puts(c, f, k))
                                            /\ Value(c, f, k)' = Value(c, f, k)
      /\ \A f, k : (Puts(N, f, k)' <=> <<f, k>> \in DOMAIN put)
                   /\ Value(N, f, k)' = put[<<f, k>>]
  BY <1>1, <1>2, CommittedChange
<1>7. ASSUME NEW c \in DOMAIN change'
      PROVE  /\ \A l \in Label : Puts(c, l, "heads")' =>
                                    Value(c, l, "heads")' = (get_heads(change[c].past))'
             /\ \A f \in File \cup Dir :
                  /\ Puts(c, f, "path")' => Value(c, f, "path")' \in Path
                  /\ Puts(c, f, "kind")' => f \in File /\ Value(c, f, "kind")' \in {"text", "attachment"}
                  /\ Puts(c, f, "hash")' => f \in File
                  /\ Puts(c, f, "content")' => f \in File /\ Value(c, f, "content")' = c
                  /\ Puts(c, f, "deleted_at")' => Value(c, f, "deleted_at")' = TRUE
             /\ \A x \in change'[c].unset : x[2] \in {"deleted_at", "heads"}
             /\ \A o \in DOMAIN change'[c].splice : change'[c].splice[o] \in Seq(Text)
  <2>1. CASE c \in DOMAIN change
    <3>1. change'[c] = change[c]
      BY <1>3, <2>1 DEF Extended
    <3> QED
      BY <1>1, <1>4, <1>6, <2>1, <3>1 DEF ValuesAreTyped
  <2>2. CASE c = N
    <3>1. change'[c].unset = unset /\ change'[c].splice = splice
      BY <1>3, <2>2
    <3> QED
      BY <1>2, <1>5, <1>6, <2>2, <3>1 DEF TypedChange
  <2> QED
    BY <1>3, <2>1, <2>2
<1> QED
  BY <1>7 DEF ValuesAreTyped

\* A commit keeps the entries whole.
LEMMA CommitKeepsWhole ==
  ASSUME IInv, NEW n \in Node, NEW put, NEW unset, NEW splice,
         commit_now(n, put, unset, splice), WholeChange(n, put, splice)
  PROVE  EntriesAreWhole'
<1>1. TypeOK /\ EntriesAreWhole
  BY DEF IInv
<1>2. PICK N : N = NextChange
  OBVIOUS
<1>3. DOMAIN change' = DOMAIN change \cup {N}
  <2>1. Appended(N, n, put, unset, splice)
    BY <1>1, <1>2, Committed
  <2> QED
    BY <2>1 DEF Appended
<1>4. /\ \A c \in DOMAIN change :
           /\ UpTo(c)' = UpTo(c)
           /\ \A f, k : (Puts(c, f, k)' <=> Puts(c, f, k)) /\ Value(c, f, k)' = Value(c, f, k)
           /\ \A f : (MadeAsText(c, f)' <=> MadeAsText(c, f)) /\ Spliced(f, c)' = Spliced(f, c)
      /\ UpTo(N)' = doc[n] \cup {N}
      /\ \A f, k : (Puts(N, f, k)' <=> <<f, k>> \in DOMAIN put)
                   /\ Value(N, f, k)' = put[<<f, k>>]
      /\ \A f : /\ MadeAsText(N, f)' <=> {<<f, "path">>, <<f, "content">>} \subseteq DOMAIN put
                /\ Spliced(f, N)' = SplicedBy(splice, f)
  BY <1>1, <1>2, CommittedChange
<1>5. doc[n] \subseteq DOMAIN change /\ \A c \in DOMAIN change : UpTo(c) \subseteq DOMAIN change
  BY <1>1, DocsAreChanges, PastIsEarlier DEF UpTo
<1>6. ASSUME NEW c \in DOMAIN change', NEW f \in File
      PROVE  /\ Puts(c, f, "path")' => \E d \in UpTo(c)' : Puts(d, f, "kind")'
             /\ Puts(c, f, "kind")' /\ Value(c, f, "kind")' = "text" =>
                  \E d \in UpTo(c)' : Puts(d, f, "content")'
             /\ Puts(c, f, "content")' \/ Spliced(f, c)' # {} =>
                  \E d \in UpTo(c)' : Puts(d, f, "path")'
  <2>1. CASE c \in DOMAIN change
    BY <1>1, <1>4, <1>5, <2>1 DEF EntriesAreWhole
  <2>2. CASE c = N
    <3>1. ASSUME NEW k, Has(n, put, f, k) PROVE \E d \in UpTo(N)' : Puts(d, f, k)'
      BY <1>4, <1>5, <3>1 DEF Has
    <3> QED
      BY <1>4, <2>2, <3>1 DEF WholeChange
  <2> QED
    BY <1>3, <2>1, <2>2
<1> QED
  BY <1>6 DEF EntriesAreWhole

\* A commit keeps the one body of a file that was created as a text.
LEMMA CommitKeepsBodies ==
  ASSUME IInv, NEW n \in Node, NEW put, NEW unset, NEW splice,
         commit_now(n, put, unset, splice), OneBodyChange(n, put, splice)
  PROVE  TextsHaveOneBody'
<1>1. TypeOK /\ EntriesAreWhole /\ TextsHaveOneBody
  BY DEF IInv
<1>2. PICK N : N = NextChange
  OBVIOUS
<1>3. DOMAIN change' = DOMAIN change \cup {N}
  <2>1. Appended(N, n, put, unset, splice)
    BY <1>1, <1>2, Committed
  <2> QED
    BY <2>1 DEF Appended
<1>4. /\ \A c \in DOMAIN change :
           /\ UpTo(c)' = UpTo(c)
           /\ \A f, k : Puts(c, f, k)' <=> Puts(c, f, k)
           /\ \A f : (MadeAsText(c, f)' <=> MadeAsText(c, f)) /\ Spliced(f, c)' = Spliced(f, c)
      /\ UpTo(N)' = doc[n] \cup {N}
      /\ \A f, k : Puts(N, f, k)' <=> <<f, k>> \in DOMAIN put
      /\ \A f : (MadeAsText(N, f)' <=> {<<f, "path">>, <<f, "content">>} \subseteq DOMAIN put)
                /\ Spliced(f, N)' = SplicedBy(splice, f)
  BY <1>1, <1>2, CommittedChange
<1>5. \A c \in DOMAIN change : UpTo(c) \subseteq DOMAIN change
  BY <1>1, PastIsEarlier DEF UpTo
<1>6. ASSUME NEW c \in DOMAIN change', NEW f \in File, MadeAsText(c, f)', NEW d \in DOMAIN change'
      PROVE  /\ Puts(d, f, "path")' => c \in UpTo(d)'
             /\ Puts(d, f, "content")' => d = c
             /\ Spliced(f, d)' \subseteq {<<f, c>>}
  <2>1. CASE c \in DOMAIN change /\ d \in DOMAIN change
    BY <1>1, <1>4, <1>6, <2>1 DEF TextsHaveOneBody
  <2>2. CASE c \in DOMAIN change /\ d = N
    <3>1. MadeAsText(c, f)
      BY <1>4, <1>6, <2>2
    <3>2. /\ <<f, "path">> \in DOMAIN put => c \in doc[n]
          /\ <<f, "content">> \notin DOMAIN put
          /\ SplicedBy(splice, f) \subseteq {<<f, c>>}
      BY <2>2, <3>1 DEF OneBodyChange
    <3> QED
      BY <1>4, <2>2, <3>2
  <2>3. CASE c = N /\ d \in DOMAIN change
    <3>1. \A e \in DOMAIN change : ~Puts(e, f, "path")
      BY <1>4, <1>6, <2>3 DEF OneBodyChange
    <3>2. ~Puts(d, f, "content") /\ Spliced(f, d) = {}
      BY <1>1, <1>5, <2>3, <3>1 DEF EntriesAreWhole
    <3> QED
      BY <1>4, <2>3, <3>1, <3>2
  <2>4. CASE c = N /\ d = N
    <3>1. {<<f, "path">>, <<f, "content">>} \subseteq DOMAIN put
      BY <1>4, <1>6, <2>4
    <3>2. SplicedBy(splice, f) \subseteq {<<f, N>>}
      BY <1>2, <3>1 DEF OneBodyChange
    <3> QED
      BY <1>4, <2>4, <3>2
  <2> QED
    BY <1>3, <2>1, <2>2, <2>3, <2>4
<1> QED
  BY <1>6 DEF TextsHaveOneBody

\* The commit of a sound change keeps the invariant.
LEMMA CommitKeeps ==
  ASSUME IInv, NEW n \in Node, NEW put, NEW unset, NEW splice,
         commit_now(n, put, unset, splice), SoundChange(n, put, unset, splice)
  PROVE  IInv'
<1>1. /\ TypedChange(n, put, unset, splice) /\ WholeChange(n, put, splice)
      /\ OneBodyChange(n, put, splice)
  BY DEF SoundChange
<1>2. TypeOK'
  BY <1>1, CommitKeepsTypes
<1>3. PastsAreClosed'
  BY CommitKeepsClosed
<1>4. ValuesAreTyped'
  BY <1>1, CommitKeepsValues
<1>5. EntriesAreWhole'
  BY <1>1, CommitKeepsWhole
<1>6. TextsHaveOneBody'
  BY <1>1, CommitKeepsBodies
<1> QED
  BY <1>2, <1>3, <1>4, <1>5, <1>6 DEF IInv

-----------------------------------------------------------------------------
(* Every operation commits a sound change.                                 *)

\* The maps that a change is put together from.
LEMMA Maps ==
  /\ DOMAIN Nothing = {}
  /\ \A k, v : DOMAIN One(k, v) = {k} /\ One(k, v)[k] = v
  /\ \A f, g : /\ DOMAIN And(f, g) = DOMAIN f \cup DOMAIN g
               /\ \A x \in DOMAIN g : And(f, g)[x] = g[x]
               /\ \A x \in DOMAIN f \ DOMAIN g : And(f, g)[x] = f[x]
<1>1. DOMAIN Nothing = {}
  BY DEF Nothing
<1>2. ASSUME NEW k, NEW v PROVE DOMAIN One(k, v) = {k} /\ One(k, v)[k] = v
  BY DEF One
<1>3. ASSUME NEW f, NEW g
      PROVE  /\ DOMAIN And(f, g) = DOMAIN f \cup DOMAIN g
             /\ \A x \in DOMAIN g : And(f, g)[x] = g[x]
             /\ \A x \in DOMAIN f \ DOMAIN g : And(f, g)[x] = f[x]
  BY DEF And
<1> QED
  BY <1>1, <1>2, <1>3

\* What Retexted returns: a body is made only where there is none, and the splice
\* is of the one there is.
IsRetext(S, f, s, c, r) ==
  /\ DOMAIN r.put = IF c = None THEN {<<f, "content">>} ELSE {}
  /\ c = None => r.put[<<f, "content">>] = NextChange
  /\ DOMAIN r.splice \subseteq {<<f, IF c = None THEN NextChange ELSE c>>}
  /\ \A o \in DOMAIN r.splice : r.splice[o] = s
  /\ c # None /\ DOMAIN r.splice = {} => text(S, <<f, c>>) = s

\* Retexted does.
LEMMA RetextedIs ==
  ASSUME NEW S, NEW f, NEW s
  PROVE  IsRetext(S, f, s, get(S, <<f, "content">>), Retexted(S, f, s))
<1> DEFINE c == get(S, <<f, "content">>)
           r == Retexted(S, f, s)
<1>1. CASE c = None
  <2>1. r = [put |-> One(<<f, "content">>, NextChange), splice |-> One(<<f, NextChange>>, s)]
    BY <1>1 DEF Retexted
  <2> HIDE DEF r
  <2>2. r.put = One(<<f, "content">>, NextChange) /\ r.splice = One(<<f, NextChange>>, s)
    BY <2>1
  <2> HIDE DEF c
  <2>3. IsRetext(S, f, s, c, r)
    <3>1. /\ DOMAIN r.put = {<<f, "content">>} /\ r.put[<<f, "content">>] = NextChange
          /\ DOMAIN r.splice = {<<f, NextChange>>} /\ r.splice[<<f, NextChange>>] = s
      BY <2>2 DEF One
    <3> QED
      BY <1>1, <3>1 DEF IsRetext
  <2> QED
    BY <2>3 DEF r, c
<1>2. CASE c # None /\ text(S, <<f, c>>) # s
  <2>1. r = [put |-> Nothing, splice |-> One(<<f, c>>, s)]
    BY <1>2 DEF Retexted
  <2> HIDE DEF r
  <2>2. r.put = Nothing /\ r.splice = One(<<f, c>>, s)
    BY <2>1
  <2> HIDE DEF c
  <2>3. IsRetext(S, f, s, c, r)
    <3>1. /\ DOMAIN r.put = {}
          /\ DOMAIN r.splice = {<<f, c>>} /\ r.splice[<<f, c>>] = s
      BY <2>2, Maps DEF One
    <3> QED
      BY <1>2, <3>1 DEF IsRetext
  <2> QED
    BY <2>3 DEF r, c
<1>3. CASE c # None /\ text(S, <<f, c>>) = s
  <2>1. r = [put |-> Nothing, splice |-> Nothing]
    BY <1>3 DEF Retexted
  <2> HIDE DEF r
  <2>2. r.put = Nothing /\ r.splice = Nothing
    BY <2>1
  <2> HIDE DEF c
  <2>3. IsRetext(S, f, s, c, r)
    BY <1>3, <2>2, Maps DEF IsRetext
  <2> QED
    BY <2>3 DEF r, c
<1> QED
  BY <1>1, <1>2, <1>3

\* A change that puts fields of one existing entry other than its path, its kind
\* and its body, or its path alone, is sound.
LEMMA PlainIsSound ==
  ASSUME IInv, NEW n \in Node, NEW f \in File \cup Dir, NEW put, NEW unset,
         live(doc[n], f),
         DOMAIN put \subseteq {<<f, "path">>, <<f, "kind">>, <<f, "hash">>, <<f, "deleted_at">>},
         <<f, "path">> \in DOMAIN put => put[<<f, "path">>] \in Path,
         <<f, "kind">> \in DOMAIN put => f \in File /\ put[<<f, "kind">>] = "attachment",
         <<f, "hash">> \in DOMAIN put => f \in File,
         <<f, "deleted_at">> \in DOMAIN put => put[<<f, "deleted_at">>] = TRUE,
         unset \subseteq {<<f, "deleted_at">>}
  PROVE  SoundChange(n, put, unset, Nothing)
<1>1. PICK d \in doc[n] : Puts(d, f, "path")
  BY ClosedSets, ListedWasPut
<1>2. DOMAIN Nothing = {}
  BY Maps
<1>3. TypedChange(n, put, unset, Nothing)
  <2>1. DOMAIN put \subseteq Key /\ unset \subseteq Key
        /\ \A x \in unset : x[2] \in {"deleted_at", "heads"}
    BY DEF Key, Field
  <2> QED
    BY <1>2, <2>1, HistoryAssumption DEF TypedChange
<1>4. WholeChange(n, put, Nothing)
  <2> SUFFICES ASSUME NEW g \in File
               PROVE  /\ <<g, "path">> \in DOMAIN put => Has(n, put, g, "kind")
                      /\ <<g, "kind">> \in DOMAIN put => put[<<g, "kind">>] # "text"
                      /\ <<g, "content">> \notin DOMAIN put /\ SplicedBy(Nothing, g) = {}
    BY DEF WholeChange
  <2>1. <<g, "path">> \in DOMAIN put => Has(n, put, g, "kind")
    <3> SUFFICES ASSUME <<g, "path">> \in DOMAIN put PROVE Has(n, put, g, "kind")
      OBVIOUS
    <3>1. g = f
      OBVIOUS
    <3>2. \E e \in doc[n] : Puts(e, g, "kind")
      BY <1>1, <3>1, ClosedSets, WholeEntry
    <3> QED
      BY <3>2 DEF Has
  <2> QED
    BY <1>2, <2>1 DEF SplicedBy
<1>5. OneBodyChange(n, put, Nothing)
  <2> SUFFICES ASSUME NEW g \in File
               PROVE  /\ \A c \in DOMAIN change : MadeAsText(c, g) =>
                           (<<g, "path">> \in DOMAIN put => c \in doc[n])
                      /\ <<g, "content">> \notin DOMAIN put /\ SplicedBy(Nothing, g) = {}
    BY DEF OneBodyChange
  <2>1. ASSUME NEW c \in DOMAIN change, MadeAsText(c, g), <<g, "path">> \in DOMAIN put
        PROVE  c \in doc[n]
    <3>1. g = f
      BY <2>1
    <3> QED
      BY <1>1, <2>1, <3>1, ClosedSets, OneBody
  <2> QED
    BY <1>2, <2>1 DEF SplicedBy
<1> QED
  BY <1>3, <1>4, <1>5 DEF SoundChange

\* A change that rewrites the text of a live file is sound.
LEMMA RewriteIsSound ==
  ASSUME IInv, NEW n \in Node, NEW f \in File, NEW s \in Seq(Text), live(doc[n], f)
  PROVE  LET r == Retexted(doc[n], f, s)
         IN  SoundChange(n, And(r.put, One(<<f, "kind">>, "text")), {<<f, "deleted_at">>}, r.splice)
<1> DEFINE S == doc[n]
           c == get(S, <<f, "content">>)
           r == Retexted(S, f, s)
           put == And(r.put, One(<<f, "kind">>, "text"))
           unset == {<<f, "deleted_at">>}
<1>1. PICK d \in S : Puts(d, f, "path")
  BY ClosedSets, ListedWasPut
<1>2. /\ DOMAIN r.put = IF c = None THEN {<<f, "content">>} ELSE {}
      /\ c = None => r.put[<<f, "content">>] = NextChange
      /\ DOMAIN r.splice \subseteq {<<f, IF c = None THEN NextChange ELSE c>>}
      /\ \A o \in DOMAIN r.splice : r.splice[o] = s
  <2>1. IsRetext(S, f, s, c, r)
    BY RetextedIs
  <2> HIDE DEF c, r
  <2> QED
    BY <2>1 DEF IsRetext
<1>3. c # None => c \in S /\ Puts(c, f, "content")
  BY ClosedSets, BodyWasPut, HasBody
<1>4. NextChange \in Nat /\ S \subseteq 1..NextChange /\ NextChange \in 1..NextChange
  BY DocsAreChanges DEF IInv, NextChange
<1> HIDE DEF r
<1>5. /\ DOMAIN put = DOMAIN r.put \cup {<<f, "kind">>} /\ put[<<f, "kind">>] = "text"
      /\ c = None => put[<<f, "content">>] = NextChange
  <2>1. /\ DOMAIN put = DOMAIN r.put \cup DOMAIN One(<<f, "kind">>, "text")
        /\ \A x \in DOMAIN One(<<f, "kind">>, "text") : put[x] = One(<<f, "kind">>, "text")[x]
        /\ \A x \in DOMAIN r.put \ DOMAIN One(<<f, "kind">>, "text") : put[x] = r.put[x]
    BY DEF And
  <2>2. DOMAIN One(<<f, "kind">>, "text") = {<<f, "kind">>} /\ One(<<f, "kind">>, "text")[<<f, "kind">>] = "text"
    BY Maps
  <2> HIDE DEF put, c
  <2> QED
    BY <1>2, <2>1, <2>2
<1> HIDE DEF put, c
<1>6. \A o \in DOMAIN r.splice : o = <<f, IF c = None THEN NextChange ELSE c>> /\ o[1] = f
  BY <1>2
<1>7. TypedChange(n, put, unset, r.splice)
  <2>1. DOMAIN put \subseteq {<<f, "kind">>, <<f, "content">>}
    BY <1>2, <1>5
  <2>2. DOMAIN put \subseteq Key /\ unset \subseteq Key
        /\ \A x \in unset : x[2] \in {"deleted_at", "heads"}
    BY <2>1 DEF Key, Field
  <2>3. DOMAIN r.splice \subseteq File \X (1..NextChange)
    BY <1>3, <1>4, <1>6
  <2>4. <<f, "content">> \in DOMAIN put => put[<<f, "content">>] = NextChange
    BY <1>2, <1>5
  <2> HIDE DEF unset
  <2> QED
    BY <1>2, <1>5, <2>1, <2>2, <2>3, <2>4 DEF TypedChange
<1>8. WholeChange(n, put, r.splice)
  <2> SUFFICES ASSUME NEW g \in File
               PROVE  /\ <<g, "path">> \in DOMAIN put => Has(n, put, g, "kind")
                      /\ <<g, "kind">> \in DOMAIN put /\ put[<<g, "kind">>] = "text" => Has(n, put, g, "content")
                      /\ <<g, "content">> \in DOMAIN put \/ SplicedBy(r.splice, g) # {} => Has(n, put, g, "path")
    BY DEF WholeChange
  <2>1. <<g, "path">> \notin DOMAIN put
    BY <1>2, <1>5
  <2>2. Has(n, put, f, "content") /\ Has(n, put, f, "path")
    BY <1>1, <1>2, <1>3, <1>5 DEF Has
  <2>3. g # f => <<g, "kind">> \notin DOMAIN put /\ <<g, "content">> \notin DOMAIN put
                 /\ SplicedBy(r.splice, g) = {}
    BY <1>2, <1>5, <1>6 DEF SplicedBy
  <2> QED
    BY <2>1, <2>2, <2>3
<1>9. OneBodyChange(n, put, r.splice)
  <2> SUFFICES ASSUME NEW g \in File
               PROVE  /\ <<g, "path">> \notin DOMAIN put
                      /\ \A e \in DOMAIN change : MadeAsText(e, g) =>
                           <<g, "content">> \notin DOMAIN put /\ SplicedBy(r.splice, g) \subseteq {<<g, e>>}
    BY DEF OneBodyChange
  <2>1. <<g, "path">> \notin DOMAIN put
    BY <1>2, <1>5
  <2>2. ASSUME NEW e \in DOMAIN change, MadeAsText(e, g)
        PROVE  <<g, "content">> \notin DOMAIN put /\ SplicedBy(r.splice, g) \subseteq {<<g, e>>}
    <3>1. CASE g # f
      BY <1>2, <1>5, <1>6, <3>1 DEF SplicedBy
    <3>2. CASE g = f
      <4>1. c = e /\ e \in S
        BY <1>1, <2>2, <3>2, ClosedSets, OneBody DEF c
      <4>2. c # None
        BY <1>4, <4>1, NoneAssumption
      <4> QED
        BY <1>2, <1>5, <1>6, <3>2, <4>1, <4>2 DEF SplicedBy
    <3> QED
      BY <3>1, <3>2
  <2> QED
    BY <2>1, <2>2
<1>10. SoundChange(n, put, unset, r.splice)
  BY <1>7, <1>8, <1>9 DEF SoundChange
<1> QED
  BY <1>10 DEF put, r

\* Nothing was ever written of a fresh file.
LEMMA FreshIsFresh ==
  ASSUME IInv, NEW g \in Fresh \cap File
  PROVE  /\ \A c \in DOMAIN change : ~Puts(c, g, "path") /\ ~MadeAsText(c, g)
         /\ \A n \in Node : get(doc[n], <<g, "content">>) = None
<1>1. \A c \in DOMAIN change : ~Puts(c, g, "path") /\ ~MadeAsText(c, g)
  BY DEF Fresh, Puts, MadeAsText
<1>2. \A c \in DOMAIN change : ~Puts(c, g, "content")
  <2>1. EntriesAreWhole /\ \A c \in DOMAIN change : UpTo(c) \subseteq DOMAIN change
    BY PastIsEarlier DEF IInv, UpTo
  <2> QED
    BY <1>1, <2>1 DEF EntriesAreWhole
<1>3. ASSUME NEW n \in Node, get(doc[n], <<g, "content">>) # None PROVE FALSE
  <2>1. \E d \in doc[n] : Puts(d, g, "content")
    BY <1>3, ClosedSets, BodyWasPut
  <2> QED
    BY <1>2, <2>1, DocsAreChanges DEF IInv
<1> QED
  BY <1>1, <1>3

\* The change that creates a text file is sound.
LEMMA NewTextIsSound ==
  ASSUME IInv, NEW n \in Node, NEW p \in Path, NEW s \in Seq(Text), NEW g \in Fresh \cap File
  PROVE  LET r == Retexted(doc[n], g, s)
         IN  SoundChange(n, And(r.put, And(One(<<g, "kind">>, "text"), One(<<g, "path">>, p))), {}, r.splice)
<1> DEFINE S == doc[n]
           c == get(S, <<g, "content">>)
           r == Retexted(S, g, s)
           two == And(One(<<g, "kind">>, "text"), One(<<g, "path">>, p))
           put == And(r.put, two)
<1>1. c = None /\ \A e \in DOMAIN change : ~Puts(e, g, "path") /\ ~MadeAsText(e, g)
  BY FreshIsFresh
<1>2. /\ DOMAIN r.put = IF c = None THEN {<<g, "content">>} ELSE {}
      /\ c = None => r.put[<<g, "content">>] = NextChange
      /\ DOMAIN r.splice \subseteq {<<g, IF c = None THEN NextChange ELSE c>>}
      /\ \A o \in DOMAIN r.splice : r.splice[o] = s
  <2>1. IsRetext(S, g, s, c, r)
    BY RetextedIs
  <2> HIDE DEF c, r
  <2> QED
    BY <2>1 DEF IsRetext
<1> HIDE DEF r, c
<1>3. /\ DOMAIN r.put = {<<g, "content">>} /\ r.put[<<g, "content">>] = NextChange
      /\ \A o \in DOMAIN r.splice : o = <<g, NextChange>> /\ o[1] = g /\ r.splice[o] = s
  BY <1>1, <1>2
<1>4. NextChange \in Nat /\ NextChange \in 1..NextChange
  BY DocsAreChanges DEF IInv, NextChange
<1>5. /\ DOMAIN two = {<<g, "kind">>, <<g, "path">>}
      /\ two[<<g, "kind">>] = "text" /\ two[<<g, "path">>] = p
  BY DEF And, One
<1> HIDE DEF two
<1>6. /\ DOMAIN put = DOMAIN r.put \cup DOMAIN two
      /\ \A x \in DOMAIN two : put[x] = two[x]
      /\ \A x \in DOMAIN r.put \ DOMAIN two : put[x] = r.put[x]
  BY DEF And
<1> HIDE DEF put
<1>7. /\ DOMAIN put = {<<g, "content">>, <<g, "kind">>, <<g, "path">>}
      /\ put[<<g, "content">>] = NextChange /\ put[<<g, "kind">>] = "text" /\ put[<<g, "path">>] = p
  <2>1. <<g, "content">> \notin DOMAIN two
    BY <1>5
  <2> QED
    BY <1>3, <1>5, <1>6, <2>1
<1>8. TypedChange(n, put, {}, r.splice)
  <2>1. DOMAIN put \subseteq Key
    BY <1>7 DEF Key, Field
  <2>2. DOMAIN r.splice \subseteq File \X (1..NextChange)
    BY <1>3, <1>4
  <2> QED
    BY <1>3, <1>7, <2>1, <2>2 DEF TypedChange
<1>9. WholeChange(n, put, r.splice)
  BY <1>3, <1>7 DEF WholeChange, Has, SplicedBy
<1>10. OneBodyChange(n, put, r.splice)
  <2> SUFFICES ASSUME NEW f \in File
               PROVE  /\ f # g => /\ <<f, "path">> \notin DOMAIN put /\ <<f, "content">> \notin DOMAIN put
                                  /\ SplicedBy(r.splice, f) = {}
                      /\ SplicedBy(r.splice, g) \subseteq {<<g, NextChange>>}
    BY <1>1 DEF OneBodyChange
  <2> QED
    BY <1>3, <1>7 DEF SplicedBy
<1>11. SoundChange(n, put, {}, r.splice)
  BY <1>8, <1>9, <1>10 DEF SoundChange
<1> QED
  BY <1>11 DEF put, two, r

\* The change that creates an attachment is sound.
LEMMA NewAttachmentIsSound ==
  ASSUME IInv, NEW n \in Node, NEW p \in Path, NEW h, NEW g \in Fresh \cap File
  PROVE  SoundChange(n, And(One(<<g, "path">>, p),
                            And(One(<<g, "kind">>, "attachment"), One(<<g, "hash">>, h))),
                     {}, Nothing)
<1> DEFINE put == And(One(<<g, "path">>, p), And(One(<<g, "kind">>, "attachment"), One(<<g, "hash">>, h)))
<1>1. \A e \in DOMAIN change : ~Puts(e, g, "path") /\ ~MadeAsText(e, g)
  BY FreshIsFresh
<1>2. /\ DOMAIN put = {<<g, "path">>, <<g, "kind">>, <<g, "hash">>}
      /\ put[<<g, "path">>] = p /\ put[<<g, "kind">>] = "attachment"
  BY DEF And, One
<1> HIDE DEF put
<1>3. DOMAIN Nothing = {}
  BY Maps
<1>4. TypedChange(n, put, {}, Nothing)
  <2>1. DOMAIN put \subseteq Key
    BY <1>2 DEF Key, Field
  <2> QED
    BY <1>2, <1>3, <2>1 DEF TypedChange
<1>5. WholeChange(n, put, Nothing)
  BY <1>2, <1>3 DEF WholeChange, Has, SplicedBy
<1>6. OneBodyChange(n, put, Nothing)
  <2> SUFFICES ASSUME NEW f \in File
               PROVE  /\ <<f, "content">> \notin DOMAIN put /\ SplicedBy(Nothing, f) = {}
                      /\ f # g => <<f, "path">> \notin DOMAIN put
    BY <1>1 DEF OneBodyChange
  <2> QED
    BY <1>2, <1>3 DEF SplicedBy
<1>7. SoundChange(n, put, {}, Nothing)
  BY <1>4, <1>5, <1>6 DEF SoundChange
<1> QED
  BY <1>7 DEF put

\* A change that puts or takes away nothing of a file is sound.
LEMMA OtherIsSound ==
  ASSUME IInv, NEW n \in Node, NEW put, NEW unset,
         DOMAIN put \subseteq (Dir \X {"path"}) \cup (Label \X {"heads"}),
         \A d \in Dir : <<d, "path">> \in DOMAIN put => put[<<d, "path">>] \in Path,
         \A l \in Label : <<l, "heads">> \in DOMAIN put => put[<<l, "heads">>] = get_heads(doc[n]),
         unset \subseteq Label \X {"heads"}
  PROVE  SoundChange(n, put, unset, Nothing)
<1>1. DOMAIN Nothing = {}
  BY Maps
<1>2. ASSUME NEW f \in File, NEW k PROVE <<f, k>> \notin DOMAIN put
  BY HistoryAssumption
<1>3. TypedChange(n, put, unset, Nothing)
  <2>1. DOMAIN put \subseteq Key /\ unset \subseteq Key
        /\ \A x \in unset : x[2] \in {"deleted_at", "heads"}
    BY DEF Key, Field
  <2> QED
    BY <1>1, <1>2, <2>1 DEF TypedChange
<1>4. WholeChange(n, put, Nothing) /\ OneBodyChange(n, put, Nothing)
  BY <1>1, <1>2 DEF WholeChange, OneBodyChange, SplicedBy
<1> QED
  BY <1>3, <1>4 DEF SoundChange

-----------------------------------------------------------------------------
(* What a restore commits.                                                 *)

TextsOf(P) == {f \in list_files(P) : get(P, <<f, "kind">>) = "text"}

\* The change of a restore puts the fields of the past and the tombstones of what
\* is live only now, makes no body, and splices the texts that differ.
IsRestore(n, P, put, runs) ==
  /\ commit_now(n, put, Listed(P) \X {"deleted_at"}, runs)
  /\ DOMAIN put = RestoredFields(P) \cup ((Listed(doc[n]) \ Listed(P)) \X {"deleted_at"})
  /\ \A x \in DOMAIN put : put[x] = IF x[2] = "deleted_at" THEN TRUE ELSE get(P, x)
  /\ \A o \in DOMAIN runs : \E f \in TextsOf(P) :
       o = <<f, get(doc[n], <<f, "content">>)>> /\ runs[o] = read_file_id(P, f)
  /\ \A f \in TextsOf(P) : LET c == get(doc[n], <<f, "content">>) IN
       <<f, c>> \notin DOMAIN runs => text(doc[n], <<f, c>>) = read_file_id(P, f)

\* A text of the past still has a body, and an entry.
LEMMA PastTexts ==
  ASSUME IInv, NEW n \in Node, NEW P, Closed(P), P \subseteq doc[n], NEW f \in TextsOf(P)
  PROVE  /\ f \in File /\ get(doc[n], <<f, "content">>) \in doc[n]
         /\ get(doc[n], <<f, "content">>) # None
         /\ \E d \in P : Puts(d, f, "path")
         /\ \E d \in P : Puts(d, f, "content")
<1>1. f \in File /\ live(P, f) /\ get(P, <<f, "kind">>) = "text"
  BY DEF TextsOf, list_files
<1>2. PICK d \in P : Puts(d, f, "path")
  BY <1>1, ListedWasPut
<1>3. PICK e \in P : Puts(e, f, "content")
  BY <1>1, <1>2, WholeEntry
<1>4. e \in doc[n] /\ Closed(doc[n])
  BY ClosedSets
<1>5. get(doc[n], <<f, "content">>) \in doc[n] /\ get(doc[n], <<f, "content">>) # None
  BY <1>1, <1>3, <1>4, HasBody
<1> QED
  BY <1>1, <1>2, <1>3, <1>5

\* Which is what restore_to_heads does.
LEMMA RestoreCommits ==
  ASSUME IInv, NEW n \in Node, NEW H, Closed(fork_at(H)), fork_at(H) \subseteq doc[n],
         restore_to_heads(n, H)
  PROVE  \E put, runs : IsRestore(n, fork_at(H), put, runs)
<1> DEFINE S == doc[n]
           P == fork_at(H)
           texts == {f \in list_files(P) : get(P, <<f, "kind">>) = "text"}
           t == [f \in texts |-> Retexted(S, f, read_file_id(P, f))]
           made == [x \in UNION {DOMAIN t[f].put : f \in texts} |-> NextChange]
           runs == [o \in UNION {DOMAIN t[f].splice : f \in texts} |-> t[o[1]].splice[o]]
           put == And(Restored(S, P), made)
<1>1. commit_now(n, put, Listed(P) \X {"deleted_at"}, runs)
  BY DEF restore_to_heads
<1>2. ASSUME NEW f \in texts
      PROVE  /\ DOMAIN t[f].put = {}
             /\ \A o \in DOMAIN t[f].splice : /\ o = <<f, get(S, <<f, "content">>)>>
                                              /\ t[f].splice[o] = read_file_id(P, f)
             /\ DOMAIN t[f].splice = {} => text(S, <<f, get(S, <<f, "content">>)>>) = read_file_id(P, f)
  <2> DEFINE c == get(S, <<f, "content">>)
             s == read_file_id(P, f)
             r == t[f]
  <2>1. r = Retexted(S, f, s)
    OBVIOUS
  <2>2. c # None
    BY PastTexts DEF TextsOf
  <2>3. IsRetext(S, f, s, c, r)
    BY <2>1, RetextedIs
  <2> HIDE DEF c, s, r, t
  <2>4. /\ DOMAIN r.put = {}
        /\ \A o \in DOMAIN r.splice : o = <<f, c>> /\ r.splice[o] = s
        /\ DOMAIN r.splice = {} => text(S, <<f, c>>) = s
    BY <2>2, <2>3 DEF IsRetext
  <2> QED
    BY <2>4 DEF c, s, r
<1> HIDE DEF t
<1>3. DOMAIN made = {}
  BY <1>2
<1> HIDE DEF made
<1>4. DOMAIN put = DOMAIN Restored(S, P) /\ \A x \in DOMAIN put : put[x] = Restored(S, P)[x]
  BY <1>3 DEF And
<1> HIDE DEF put
<1>5. /\ DOMAIN put = RestoredFields(P) \cup ((Listed(S) \ Listed(P)) \X {"deleted_at"})
      /\ \A x \in DOMAIN put : put[x] = IF x[2] = "deleted_at" THEN TRUE ELSE get(P, x)
  BY <1>4 DEF Restored
<1>6. ASSUME NEW o \in DOMAIN runs
      PROVE  \E f \in texts : o = <<f, get(S, <<f, "content">>)>> /\ runs[o] = read_file_id(P, f)
  <2>1. PICK f \in texts : o \in DOMAIN t[f].splice
    OBVIOUS
  <2>2. o = <<f, get(S, <<f, "content">>)>> /\ t[f].splice[o] = read_file_id(P, f)
    BY <1>2, <2>1
  <2>3. o[1] = f
    BY <2>2
  <2>4. runs[o] = t[o[1]].splice[o]
    OBVIOUS
  <2> QED
    BY <2>2, <2>3, <2>4
<1>7. ASSUME NEW f \in texts, <<f, get(S, <<f, "content">>)>> \notin DOMAIN runs
      PROVE  text(S, <<f, get(S, <<f, "content">>)>>) = read_file_id(P, f)
  <2>1. DOMAIN t[f].splice \subseteq DOMAIN runs
    OBVIOUS
  <2>2. DOMAIN t[f].splice = {}
    BY <1>2, <1>7, <2>1
  <2> QED
    BY <1>2, <2>2
<1> HIDE DEF runs
<1>8. texts = TextsOf(P)
  BY DEF TextsOf
<1>9. IsRestore(n, P, put, runs)
  BY <1>1, <1>5, <1>6, <1>7, <1>8 DEF IsRestore
<1> QED
  BY <1>9

\* The path of what is listed.
LEMMA ListedPath ==
  ASSUME IInv, NEW S, Closed(S), NEW f \in File \cup Dir, live(S, f)
  PROVE  get(S, <<f, "path">>) \in Path
<1>1. PICK c \in S : Puts(c, f, "path")
  BY ListedWasPut
<1>2. PICK d \in S : Puts(d, f, "path") /\ get(S, <<f, "path">>) = Value(d, f, "path")
  BY <1>1, FieldsStay DEF Field
<1> QED
  BY <1>2 DEF IInv, ValuesAreTyped, Closed

\* What the change of a restore puts, field by field.
PutsBack(n, P, put, f) ==
  /\ <<f, "path">> \in DOMAIN put <=> f \in Listed(P)
  /\ <<f, "kind">> \in DOMAIN put <=> f \in list_files(P)
  /\ <<f, "hash">> \in DOMAIN put <=>
       f \in list_files(P) /\ get(P, <<f, "kind">>) = "attachment"
  /\ <<f, "deleted_at">> \in DOMAIN put <=> f \in Listed(doc[n]) /\ f \notin Listed(P)
  /\ <<f, "content">> \notin DOMAIN put /\ <<f, "heads">> \notin DOMAIN put
  /\ \A k \in {"path", "kind", "hash"} :
       <<f, k>> \in DOMAIN put => put[<<f, k>>] = get(P, <<f, k>>)
  /\ <<f, "deleted_at">> \in DOMAIN put => put[<<f, "deleted_at">>] = TRUE

\* The change of a restore does.
LEMMA RestoredPuts ==
  ASSUME NEW n, NEW P, NEW put, NEW runs, IsRestore(n, P, put, runs), NEW f
  PROVE  PutsBack(n, P, put, f)
<1>1. DOMAIN put = RestoredFields(P) \cup ((Listed(doc[n]) \ Listed(P)) \X {"deleted_at"})
  BY DEF IsRestore
<1>2. \A x \in DOMAIN put : put[x] = IF x[2] = "deleted_at" THEN TRUE ELSE get(P, x)
  BY DEF IsRestore
<1>3. /\ <<f, "path">> \in RestoredFields(P) <=> f \in Listed(P)
      /\ <<f, "kind">> \in RestoredFields(P) <=> f \in list_files(P)
      /\ <<f, "hash">> \in RestoredFields(P) <=>
              f \in list_files(P) /\ get(P, <<f, "kind">>) = "attachment"
      /\ \A k \in {"deleted_at", "content", "heads"} : <<f, k>> \notin RestoredFields(P)
  BY DEF RestoredFields, Listed
<1>4. \A k : <<f, k>>[1] = f /\ <<f, k>>[2] = k
  OBVIOUS
<1>5. /\ <<f, "path">> \in DOMAIN put <=> f \in Listed(P)
      /\ <<f, "kind">> \in DOMAIN put <=> f \in list_files(P)
      /\ <<f, "hash">> \in DOMAIN put <=>
           f \in list_files(P) /\ get(P, <<f, "kind">>) = "attachment"
      /\ <<f, "deleted_at">> \in DOMAIN put <=> f \in Listed(doc[n]) /\ f \notin Listed(P)
      /\ <<f, "content">> \notin DOMAIN put /\ <<f, "heads">> \notin DOMAIN put
  BY <1>1, <1>3
<1>6. ASSUME NEW k \in {"path", "kind", "hash"}, <<f, k>> \in DOMAIN put
      PROVE  put[<<f, k>>] = get(P, <<f, k>>)
  BY <1>2, <1>4, <1>6
<1>7. <<f, "deleted_at">> \in DOMAIN put => put[<<f, "deleted_at">>] = TRUE
  BY <1>2, <1>4
<1> QED
  BY <1>5, <1>6, <1>7 DEF PutsBack

\* The change of a restore is sound.
LEMMA RestoreIsSound ==
  ASSUME IInv, NEW n \in Node, NEW P, Closed(P), P \subseteq doc[n],
         NEW put, NEW runs, IsRestore(n, P, put, runs)
  PROVE  SoundChange(n, put, Listed(P) \X {"deleted_at"}, runs)
<1> DEFINE S == doc[n]
           unset == Listed(P) \X {"deleted_at"}
<1>1. Closed(S) /\ S \subseteq 1..NextChange /\ DOMAIN put \subseteq Key /\ unset \subseteq Key
  <2>1. S \subseteq 1..NextChange
    BY DocsAreChanges DEF IInv, NextChange
  <2>2. DOMAIN put = RestoredFields(P) \cup ((Listed(S) \ Listed(P)) \X {"deleted_at"})
    BY DEF IsRestore
  <2>3. Listed(S) \subseteq File \cup Dir /\ Listed(P) \subseteq File \cup Dir
    BY DEF Listed, list_files, list_directories
  <2>4. RestoredFields(P) \subseteq Key
    BY DEF RestoredFields, list_files, list_directories, Key, Field
  <2> QED
    BY <2>1, <2>2, <2>3, <2>4, ClosedSets DEF Key, Field
<1>2. \A f : PutsBack(n, P, put, f)
  BY RestoredPuts
<1>3. \A f \in Listed(P) : f \in File \cup Dir /\ live(P, f)
  BY DEF Listed, list_files, list_directories
<1>4. list_files(P) \subseteq File /\ Listed(P) \cap File \subseteq list_files(P)
      /\ list_files(P) \subseteq Listed(P)
  BY DEF Listed, list_files, list_directories
<1>5. \A o \in DOMAIN runs : \E f \in TextsOf(P) :
        /\ o = <<f, get(S, <<f, "content">>)>> /\ runs[o] = read_file_id(P, f)
        /\ o[1] = f /\ f \in File /\ get(S, <<f, "content">>) \in S
        /\ \E d \in P : Puts(d, f, "path")
  <2> SUFFICES ASSUME NEW o \in DOMAIN runs
               PROVE  \E f \in TextsOf(P) :
                        /\ o = <<f, get(S, <<f, "content">>)>> /\ runs[o] = read_file_id(P, f)
                        /\ o[1] = f /\ f \in File /\ get(S, <<f, "content">>) \in S
                        /\ \E d \in P : Puts(d, f, "path")
    OBVIOUS
  <2>1. PICK f \in TextsOf(P) : o = <<f, get(S, <<f, "content">>)>> /\ runs[o] = read_file_id(P, f)
    BY DEF IsRestore
  <2>2. o[1] = f
    BY <2>1
  <2>3. f \in File /\ get(S, <<f, "content">>) \in S /\ \E d \in P : Puts(d, f, "path")
    BY PastTexts
  <2> QED
    BY <2>1, <2>2, <2>3
<1>6. TypedChange(n, put, unset, runs)
  <2>1. \A x \in unset : x[2] \in {"deleted_at", "heads"}
    OBVIOUS
  <2> HIDE DEF unset
  <2>2. ASSUME NEW o \in DOMAIN runs PROVE o \in File \X (1..NextChange) /\ runs[o] \in Seq(Text)
    <3>1. PICK f \in TextsOf(P) : /\ o = <<f, get(S, <<f, "content">>)>> /\ runs[o] = read_file_id(P, f)
                                  /\ f \in File /\ get(S, <<f, "content">>) \in S
      BY <1>5
    <3>2. read_file_id(P, f) \in Seq(Text)
      BY TextType
    <3> HIDE DEF S
    <3> QED
      BY <1>1, <3>1, <3>2
  <2>3. DOMAIN runs \subseteq File \X (1..NextChange) /\ \A o \in DOMAIN runs : runs[o] \in Seq(Text)
    BY <2>2
  <2>4. ASSUME NEW f \in File \cup Dir
        PROVE  /\ <<f, "path">> \in DOMAIN put => put[<<f, "path">>] \in Path
               /\ <<f, "kind">> \in DOMAIN put => f \in File /\ put[<<f, "kind">>] \in {"text", "attachment"}
               /\ <<f, "hash">> \in DOMAIN put => f \in File
               /\ <<f, "content">> \in DOMAIN put => f \in File /\ put[<<f, "content">>] = NextChange
               /\ <<f, "deleted_at">> \in DOMAIN put => put[<<f, "deleted_at">>] = TRUE
    <3>1. <<f, "path">> \in DOMAIN put => put[<<f, "path">>] \in Path
      BY <1>2, <1>3, ListedPath DEF PutsBack
    <3>2. <<f, "kind">> \in DOMAIN put => f \in File /\ put[<<f, "kind">>] \in {"text", "attachment"}
      <4> SUFFICES ASSUME <<f, "kind">> \in DOMAIN put
                   PROVE  f \in File /\ put[<<f, "kind">>] \in {"text", "attachment"}
        OBVIOUS
      <4>1. f \in File /\ live(P, f) /\ put[<<f, "kind">>] = get(P, <<f, "kind">>)
        BY <1>2, <1>3, <1>4 DEF PutsBack
      <4>2. PICK d \in P : Puts(d, f, "path")
        BY <4>1, ListedWasPut
      <4>3. get(P, <<f, "kind">>) \in {"text", "attachment"}
        BY <4>1, <4>2, WholeEntry
      <4> QED
        BY <4>1, <4>3
    <3> QED
      BY <1>2, <1>4, <3>1, <3>2 DEF PutsBack
  <2> QED
    BY <1>1, <1>2, <2>1, <2>3, <2>4 DEF TypedChange, PutsBack
<1>7. WholeChange(n, put, runs)
  <2> SUFFICES ASSUME NEW f \in File
               PROVE  /\ <<f, "path">> \in DOMAIN put => Has(n, put, f, "kind")
                      /\ <<f, "kind">> \in DOMAIN put /\ put[<<f, "kind">>] = "text" => Has(n, put, f, "content")
                      /\ SplicedBy(runs, f) # {} => Has(n, put, f, "path")
    BY <1>2 DEF WholeChange, PutsBack
  <2>1. <<f, "path">> \in DOMAIN put => Has(n, put, f, "kind")
    BY <1>2, <1>4 DEF Has, PutsBack
  <2>2. <<f, "kind">> \in DOMAIN put /\ put[<<f, "kind">>] = "text" => Has(n, put, f, "content")
    <3> SUFFICES ASSUME <<f, "kind">> \in DOMAIN put, put[<<f, "kind">>] = "text"
                 PROVE  Has(n, put, f, "content")
      OBVIOUS
    <3>1. f \in TextsOf(P)
      BY <1>2 DEF TextsOf, PutsBack
    <3>2. \E d \in P : Puts(d, f, "content")
      BY <3>1, PastTexts
    <3> QED
      BY <3>2 DEF Has
  <2>3. ASSUME SplicedBy(runs, f) # {} PROVE Has(n, put, f, "path")
    <3>1. PICK o \in DOMAIN runs : o[1] = f
      BY <2>3 DEF SplicedBy
    <3>2. \E d \in P : Puts(d, f, "path")
      BY <1>5, <3>1
    <3> QED
      BY <3>2 DEF Has
  <2> QED
    BY <2>1, <2>2, <2>3
<1>8. OneBodyChange(n, put, runs)
  <2> SUFFICES ASSUME NEW f \in File, NEW c \in DOMAIN change, MadeAsText(c, f)
               PROVE  /\ <<f, "path">> \in DOMAIN put => c \in doc[n]
                      /\ SplicedBy(runs, f) \subseteq {<<f, c>>}
    BY <1>2 DEF OneBodyChange, PutsBack
  <2>1. ASSUME <<f, "path">> \in DOMAIN put PROVE c \in doc[n]
    <3>1. PICK d \in P : Puts(d, f, "path")
      BY <1>2, <1>3, <2>1, ListedWasPut DEF PutsBack
    <3> QED
      BY <3>1, OneBody
  <2>2. ASSUME NEW o \in SplicedBy(runs, f) PROVE o = <<f, c>>
    <3>1. o = <<f, get(S, <<f, "content">>)>> /\ \E d \in P : Puts(d, f, "path")
      BY <1>5 DEF SplicedBy
    <3>2. PICK d \in S : Puts(d, f, "path")
      BY <3>1
    <3>3. get(S, <<f, "content">>) = c
      BY <1>1, <3>2, OneBody
    <3> QED
      BY <3>1, <3>3
  <2> QED
    BY <2>1, <2>2
<1> QED
  BY <1>6, <1>7, <1>8 DEF SoundChange

-----------------------------------------------------------------------------
(* The invariant is kept by every step.                                    *)

\* The heads of a label that a device sees are those of a past it has.
LEMMA LabelNames ==
  ASSUME IInv, NEW n \in Node, NEW l \in list_labels(doc[n])
  PROVE  LET m == LabelMade(doc[n], l) IN
         /\ m \in doc[n] /\ m \in DOMAIN change /\ change[m].past \subseteq doc[n]
         /\ get_label_heads(doc[n], l) = get_heads(change[m].past)
         /\ fork_at(get_label_heads(doc[n], l)) = change[m].past
<1> DEFINE m == LabelMade(doc[n], l)
<1>1. TypeOK /\ PastsAreClosed /\ ValuesAreTyped /\ doc[n] \in SUBSET DOMAIN change
  BY ClosedSets DEF IInv, Closed
<1>2. get(doc[n], <<l, "heads">>) # None /\ l \in Label
  BY DEF list_labels
<1>3. /\ m \in doc[n] /\ <<l, "heads">> \in DOMAIN change[m].put
      /\ get(doc[n], <<l, "heads">>) = change[m].put[<<l, "heads">>]
  BY <1>1, <1>2, GetWasPut DEF LabelMade
<1> HIDE DEF m
<1>4. m \in DOMAIN change /\ change[m].past \subseteq doc[n]
  BY <1>1, <1>3 DEF PastsAreClosed
<1>5. get_label_heads(doc[n], l) = get_heads(change[m].past)
  BY <1>1, <1>2, <1>3, <1>4 DEF ValuesAreTyped, Puts, Value, get_label_heads
<1>6. Closed(change[m].past)
  BY <1>4, ClosedSets
<1>7. fork_at(get_heads(change[m].past)) = change[m].past
  BY <1>1, <1>6, ForkOfHeads DEF Closed
<1> QED
  BY <1>3, <1>4, <1>5, <1>7 DEF m

\* A restore to heads that the device has.
LEMMA RestoreKeeps ==
  ASSUME IInv, NEW n \in Node, NEW H \in SUBSET doc[n], restore_to_heads(n, H)
  PROVE  IInv'
<1>1. Closed(fork_at(H)) /\ fork_at(H) \subseteq doc[n]
  BY ClosedSets, ForksAreClosed
<1>2. PICK put, runs : IsRestore(n, fork_at(H), put, runs)
  BY <1>1, RestoreCommits
<1>3. SoundChange(n, put, Listed(fork_at(H)) \X {"deleted_at"}, runs)
  BY <1>1, <1>2, RestoreIsSound
<1>4. commit_now(n, put, Listed(fork_at(H)) \X {"deleted_at"}, runs)
  BY <1>2 DEF IsRestore
<1> QED
  BY <1>3, <1>4, CommitKeeps

\* The edits of files, one by one.
LEMMA FileEditKeeps ==
  ASSUME IInv, NEW n \in Node, NEW p \in Path,
         \/ \E s \in Content : WriteTextFile(n, p, s)
         \/ \E h \in Hash : WriteAttachment(n, p, h)
         \/ DeleteFile(n, p)
         \/ \E q \in Path : RenameFile(n, p, q)
  PROVE  IInv'
<1> DEFINE f == find_file_by_path(doc[n], p)
<1>1. f # None => f \in File /\ live(doc[n], f)
  BY FoundIsLive
<1>2. ASSUME NEW s \in Content, WriteTextFile(n, p, s) PROVE IInv'
  <2>1. s \in Seq(Text)
    <3>1. <<>> \in Seq(Text) /\ \A x \in Text : <<x>> \in Seq(Text)
      OBVIOUS
    <3> QED
      BY <3>1 DEF Content
  <2>2. CASE f # None
    <3> DEFINE r == Retexted(doc[n], f, s)
    <3>1. commit_now(n, And(r.put, One(<<f, "kind">>, "text")), {<<f, "deleted_at">>}, r.splice)
      BY <1>2, <2>2 DEF WriteTextFile
    <3> HIDE DEF f
    <3>2. SoundChange(n, And(r.put, One(<<f, "kind">>, "text")), {<<f, "deleted_at">>}, r.splice)
      BY <1>1, <2>1, <2>2, RewriteIsSound
    <3> HIDE DEF r
    <3> QED
      BY <3>1, <3>2, CommitKeeps
  <2>3. CASE f = None
    <3>1. PICK g \in Fresh \cap File :
            LET r == Retexted(doc[n], g, s) IN
            commit_now(n, And(r.put, And(One(<<g, "kind">>, "text"), One(<<g, "path">>, p))),
                       {}, r.splice)
      BY <1>2, <2>3 DEF WriteTextFile
    <3> DEFINE r == Retexted(doc[n], g, s)
    <3>2. SoundChange(n, And(r.put, And(One(<<g, "kind">>, "text"), One(<<g, "path">>, p))),
                      {}, r.splice)
      BY <2>1, NewTextIsSound
    <3>3. commit_now(n, And(r.put, And(One(<<g, "kind">>, "text"), One(<<g, "path">>, p))),
                     {}, r.splice)
      BY <3>1
    <3> HIDE DEF r
    <3> QED
      BY <3>2, <3>3, CommitKeeps
  <2> QED
    BY <2>2, <2>3
<1>3. ASSUME NEW h \in Hash, WriteAttachment(n, p, h) PROVE IInv'
  <2>1. CASE f # None
    <3> DEFINE put == And(One(<<f, "kind">>, "attachment"), One(<<f, "hash">>, h))
               unset == {<<f, "deleted_at">>}
    <3>1. commit_now(n, put, unset, Nothing)
      BY <1>3, <2>1 DEF WriteAttachment
    <3> HIDE DEF f
    <3>2. DOMAIN put = {<<f, "kind">>, <<f, "hash">>} /\ put[<<f, "kind">>] = "attachment"
      BY DEF And, One
    <3> HIDE DEF put
    <3>3. SoundChange(n, put, unset, Nothing)
      BY <1>1, <2>1, <3>2, PlainIsSound
    <3> HIDE DEF unset
    <3> QED
      BY <3>1, <3>3, CommitKeeps
  <2>2. CASE f = None
    <3>1. PICK g \in Fresh \cap File :
            commit_now(n, And(One(<<g, "path">>, p),
                              And(One(<<g, "kind">>, "attachment"), One(<<g, "hash">>, h))),
                       {}, Nothing)
      BY <1>3, <2>2 DEF WriteAttachment
    <3> DEFINE put == And(One(<<g, "path">>, p),
                          And(One(<<g, "kind">>, "attachment"), One(<<g, "hash">>, h)))
    <3>2. SoundChange(n, put, {}, Nothing)
      BY NewAttachmentIsSound
    <3>3. commit_now(n, put, {}, Nothing)
      BY <3>1
    <3> HIDE DEF put
    <3> QED
      BY <3>2, <3>3, CommitKeeps
  <2> QED
    BY <2>1, <2>2
<1>4. ASSUME DeleteFile(n, p) PROVE IInv'
  <2> DEFINE put == One(<<f, "deleted_at">>, TRUE)
  <2>1. f # None /\ commit_now(n, put, {}, Nothing)
    BY <1>4 DEF DeleteFile
  <2> HIDE DEF f
  <2>2. DOMAIN put = {<<f, "deleted_at">>} /\ put[<<f, "deleted_at">>] = TRUE
    BY DEF One
  <2> HIDE DEF put
  <2>3. SoundChange(n, put, {}, Nothing)
    BY <1>1, <2>1, <2>2, PlainIsSound
  <2> QED
    BY <2>1, <2>3, CommitKeeps
<1>5. ASSUME NEW q \in Path, RenameFile(n, p, q) PROVE IInv'
  <2> DEFINE put == One(<<f, "path">>, q)
  <2>1. f # None /\ commit_now(n, put, {}, Nothing)
    BY <1>5 DEF RenameFile
  <2> HIDE DEF f
  <2>2. DOMAIN put = {<<f, "path">>} /\ put[<<f, "path">>] = q
    BY DEF One
  <2> HIDE DEF put
  <2>3. SoundChange(n, put, {}, Nothing)
    BY <1>1, <2>1, <2>2, PlainIsSound
  <2> QED
    BY <2>1, <2>3, CommitKeeps
<1> QED
  BY <1>2, <1>3, <1>4, <1>5

\* The edits of directories and labels.
LEMMA OtherEditKeeps ==
  ASSUME IInv, NEW n \in Node,
         \/ \E p \in Path : CreateDirectory(n, p) \/ DeleteDirectory(n, p)
         \/ \E l \in Label : CreateLabel(n, l) \/ DeleteLabel(n, l)
  PROVE  IInv'
<1>1. ASSUME NEW p \in Path, CreateDirectory(n, p) PROVE IInv'
  <2>1. PICK d \in Fresh \cap Dir : commit_now(n, One(<<d, "path">>, p), {}, Nothing)
    BY <1>1 DEF CreateDirectory
  <2> DEFINE put == One(<<d, "path">>, p)
  <2>2. DOMAIN put = {<<d, "path">>} /\ put[<<d, "path">>] = p
    BY DEF One
  <2>3. commit_now(n, put, {}, Nothing)
    BY <2>1
  <2> HIDE DEF put
  <2>4. SoundChange(n, put, {}, Nothing)
    BY <2>2, OtherIsSound
  <2> QED
    BY <2>3, <2>4, CommitKeeps
<1>2. ASSUME NEW p \in Path, DeleteDirectory(n, p) PROVE IInv'
  <2> DEFINE d == find_directory_by_path(doc[n], p)
             put == One(<<d, "deleted_at">>, TRUE)
  <2>1. d # None /\ commit_now(n, put, {}, Nothing)
    BY <1>2 DEF DeleteDirectory
  <2>2. d \in Dir /\ live(doc[n], d)
    BY <2>1, FoundIsLive
  <2> HIDE DEF d
  <2>3. DOMAIN put = {<<d, "deleted_at">>} /\ put[<<d, "deleted_at">>] = TRUE
    BY DEF One
  <2> HIDE DEF put
  <2>4. SoundChange(n, put, {}, Nothing)
    BY <2>2, <2>3, PlainIsSound
  <2> QED
    BY <2>1, <2>4, CommitKeeps
<1>3. ASSUME NEW l \in Label, CreateLabel(n, l) PROVE IInv'
  <2> DEFINE put == One(<<l, "heads">>, get_heads(doc[n]))
  <2>1. commit_now(n, put, {}, Nothing)
    BY <1>3 DEF CreateLabel
  <2>2. DOMAIN put = {<<l, "heads">>} /\ put[<<l, "heads">>] = get_heads(doc[n])
    BY DEF One
  <2> HIDE DEF put
  <2>3. SoundChange(n, put, {}, Nothing)
    BY <2>2, OtherIsSound
  <2> QED
    BY <2>1, <2>3, CommitKeeps
<1>4. ASSUME NEW l \in Label, DeleteLabel(n, l) PROVE IInv'
  <2>1. commit_now(n, Nothing, {<<l, "heads">>}, Nothing)
    BY <1>4 DEF DeleteLabel
  <2>2. DOMAIN Nothing = {}
    BY Maps
  <2>3. SoundChange(n, Nothing, {<<l, "heads">>}, Nothing)
    BY <2>2, OtherIsSound
  <2> QED
    BY <2>1, <2>3, CommitKeeps
<1> QED
  BY <1>1, <1>2, <1>3, <1>4

\* What is said of the changes alone stays as long as they do.
LEMMA SameChanges ==
  ASSUME IInv, change' = change
  PROVE  ValuesAreTyped' /\ EntriesAreWhole' /\ TextsHaveOneBody'
<1>1. \A c, f, k : (Puts(c, f, k)' <=> Puts(c, f, k)) /\ Value(c, f, k)' = Value(c, f, k)
  BY DEF Puts, Value
<1>2. \A c : UpTo(c)' = UpTo(c) /\ \A f : Spliced(f, c)' = Spliced(f, c)
  BY DEF UpTo, Spliced
<1>3. \A c, f : MadeAsText(c, f)' <=> MadeAsText(c, f)
  BY DEF MadeAsText
<1>4. \A c : (get_heads(change[c].past))' = get_heads(change[c].past)
  BY DEF get_heads
<1>5. ValuesAreTyped'
  BY <1>1, <1>4 DEF IInv, ValuesAreTyped
<1>6. EntriesAreWhole'
  BY <1>1, <1>2 DEF IInv, EntriesAreWhole
<1>7. TextsHaveOneBody'
  BY <1>1, <1>2, <1>3 DEF IInv, TextsHaveOneBody
<1> QED
  BY <1>5, <1>6, <1>7

\* A merge joins whole documents.
LEMMA MergeKeeps ==
  ASSUME IInv, NEW n \in Node, NEW m \in Node, Merge(n, m)
  PROVE  IInv'
<1>1. TypeOK /\ PastsAreClosed /\ change' = change /\ doc' = [doc EXCEPT ![n] = doc[n] \cup doc[m]]
  BY DEF IInv, Merge
<1>2. doc \in [Node -> SUBSET (1..Len(change))]
  BY <1>1 DEF TypeOK
<1>3. doc' \in [Node -> SUBSET (1..Len(change))]
  BY <1>1, <1>2
<1>4. \A i \in Node : doc'[i] = IF i = n THEN doc[n] \cup doc[m] ELSE doc[i]
  BY <1>1, <1>2
<1>5. TypeOK'
  BY <1>1, <1>3 DEF TypeOK, Key, Field
<1>6. PastsAreClosed'
  BY <1>1, <1>4 DEF PastsAreClosed
<1>7. ValuesAreTyped' /\ EntriesAreWhole' /\ TextsHaveOneBody'
  BY <1>1, SameChanges
<1> QED
  BY <1>5, <1>6, <1>7 DEF IInv

\* The heads of a time are the device's.
LEMMA HeadsAtTimeAreHad ==
  ASSUME NEW S, NEW t
  PROVE  heads_at_time(S, t) \subseteq S
BY DEF heads_at_time

\* Every step keeps the invariant.
LEMMA NextKeeps ==
  ASSUME IInv, [Next]_vars
  PROVE  IInv'
<1>1. ASSUME NEW n \in Node, Edit(n) PROVE IInv'
  <2>1. NewPath \subseteq Path
    BY HistoryAssumption
  <2> QED
    BY <1>1, <2>1, FileEditKeeps, OtherEditKeeps DEF Edit
<1>2. ASSUME NEW n \in Node, Restore(n) PROVE IInv'
  <2>1. ASSUME NEW l \in Label, RestoreLabel(n, l) PROVE IInv'
    <3>1. l \in list_labels(doc[n]) /\ restore_to_heads(n, get_label_heads(doc[n], l))
      BY <2>1 DEF RestoreLabel
    <3>2. get_label_heads(doc[n], l) \in SUBSET doc[n]
      BY <3>1, LabelNames DEF get_heads
    <3> QED
      BY <3>1, <3>2, RestoreKeeps
  <2>2. ASSUME NEW t \in Time, RestoreToTime(n, t) PROVE IInv'
    BY <2>2, HeadsAtTimeAreHad, RestoreKeeps DEF RestoreToTime
  <2> QED
    BY <1>2, <2>1, <2>2 DEF Restore
<1>3. ASSUME NEW n \in Node, NEW m \in Node, Merge(n, m) PROVE IInv'
  BY <1>3, MergeKeeps
<1>4. CASE UNCHANGED vars
  <2>1. change' = change /\ doc' = doc
    BY <1>4 DEF vars
  <2>2. TypeOK' /\ PastsAreClosed'
    BY <2>1 DEF IInv, TypeOK, PastsAreClosed, Key, Field
  <2>3. ValuesAreTyped' /\ EntriesAreWhole' /\ TextsHaveOneBody'
    BY <2>1, SameChanges
  <2> QED
    BY <2>2, <2>3 DEF IInv
<1> QED
  BY <1>1, <1>2, <1>3, <1>4 DEF Next

-----------------------------------------------------------------------------
(* The invariant and what follows from it.                                 *)

\* IInv holds in every reachable state: documents are closed under the pasts of
\* their changes, fields have their types, entries are whole and a file that was
\* created as a text has one body (commit_now and the operations of doc/files.rs
\* and doc/history.rs).
THEOREM Invariance == Spec => []IInv
<1>1. Init => IInv
  <2> SUFFICES ASSUME Init PROVE IInv
    OBVIOUS
  <2>1. change = <<>> /\ doc = [n \in Node |-> {}]
    BY DEF Init
  <2>2. Len(change) = 0 /\ DOMAIN change = {} /\ change = [c \in 1..Len(change) |-> change[c]]
    BY <2>1
  <2>3. TypeOK
    <3>1. Len(change) \in 0..MaxChange
      BY <2>2, HistoryAssumption
    <3>2. doc \in [Node -> SUBSET (1..Len(change))]
      BY <2>1
    <3> QED
      BY <2>2, <3>1, <3>2 DEF TypeOK
  <2> QED
    BY <2>1, <2>2, <2>3 DEF IInv, PastsAreClosed, ValuesAreTyped, EntriesAreWhole, TextsHaveOneBody
<1>2. IInv /\ [Next]_vars => IInv'
  BY NextKeeps
<1> QED
  BY <1>1, <1>2, PTL DEF Spec

\* The types of the changes and of the documents.
THEOREM TypeInvariance == Spec => []TypeOK
<1>1. IInv => TypeOK
  BY DEF IInv
<1> QED
  BY <1>1, Invariance, PTL

\* Every label a device sees can be restored there (get_label_heads).
THEOREM LabelsResolveEverywhere == Spec => []LabelsResolve
<1>1. IInv => LabelsResolve
  <2> SUFFICES ASSUME IInv, NEW n \in Node, NEW l \in list_labels(doc[n])
               PROVE  get_label_heads(doc[n], l) \subseteq doc[n]
    BY DEF LabelsResolve
  <2> QED
    BY LabelNames DEF get_heads
<1> QED
  BY <1>1, Invariance, PTL

\* heads_at_time stands for all the changes up to a time, whatever the clocks say.
THEOREM AtTimeIsAlwaysComplete == Spec => []AtTimeIsComplete
<1>1. IInv => AtTimeIsComplete
  <2> SUFFICES ASSUME IInv, NEW n \in Node, NEW t \in Time
               PROVE  fork_at(heads_at_time(doc[n], t)) = fork_at({c \in doc[n] : change[c].time <= t})
    BY DEF AtTimeIsComplete
  <2>1. TypeOK /\ PastsAreClosed /\ doc[n] \in SUBSET DOMAIN change
    BY ClosedSets DEF IInv, Closed
  <2> QED
    BY <2>1, ForkAtTime
<1> QED
  BY <1>1, Invariance, PTL

\* The text that two devices write at the same time into one text file shows on
\* both after a merge, restores included (the splices of write_text_file and
\* restore_to_heads).
THEOREM ConcurrentTextIsKept == Spec => []ConcurrentTextKept
<1>1. IInv => ConcurrentTextKept
  <2> SUFFICES ASSUME IInv, NEW n \in Node, NEW f \in list_files(doc[n]), CreatedAsText(doc[n], f),
                      NEW c \in doc[n], Spliced(f, c) # {},
                      ~ \E d \in doc[n] : Spliced(f, d) # {} /\ c \in change[d].past
               PROVE  Wrote(f, c) \subseteq PiecesOf(read_file_id(doc[n], f))
    BY DEF ConcurrentTextKept
  <2> DEFINE S == doc[n]
  <2>1. f \in File /\ Closed(S) /\ S \subseteq DOMAIN change /\ S \subseteq Change
    <3>1. Closed(S) /\ TypeOK /\ f \in File
      BY ClosedSets DEF IInv, list_files
    <3>2. DOMAIN change \subseteq Change
      BY <3>1, HistoryAssumption DEF TypeOK, Change
    <3> QED
      BY <3>1, <3>2 DEF Closed
  <2>2. PICK m \in S : MadeAsText(m, f)
    BY DEF CreatedAsText
  <2>3. get(S, <<f, "content">>) = m /\ m # None
    <3>1. Puts(m, f, "path")
      BY <2>2 DEF MadeAsText, Puts
    <3>2. get(S, <<f, "content">>) = m
      BY <2>1, <2>2, <3>1, OneBody
    <3> QED
      BY <2>1, <3>2, NoneAssumption DEF Change
  <2> DEFINE o == <<f, m>>
             runs == Runs(S, o)
             piece == [e \in runs |-> change[e].splice[o]]
  <2>4. \A d \in S : Spliced(f, d) \subseteq {o}
    BY <2>1, <2>2 DEF IInv, TextsHaveOneBody
  <2>5. Spliced(f, c) = {o} /\ o \in DOMAIN change[c].splice
    BY <2>4 DEF Spliced
  <2>6. c \in runs
    <3>1. \A d \in S : o \in DOMAIN change[d].splice => o \in Spliced(f, d)
      BY DEF Spliced
    <3> QED
      BY <2>5, <3>1 DEF Runs
  <2>7. \A e \in runs : piece[e] \in Seq(Text)
    BY <2>1 DEF IInv, ValuesAreTyped, Runs
  <2>8. read_file_id(S, f) = Joined(runs, piece)
    BY <2>3 DEF read_file_id, text
  <2>9. piece[c] = change[c].splice[o]
    BY <2>6
  <2>10. Wrote(f, c) = PiecesOf(piece[c])
    BY <2>5, <2>9 DEF Wrote
  <2> HIDE DEF runs, piece, o
  <2>11. PiecesOf(piece[c]) \subseteq PiecesOf(Joined(runs, piece))
    BY <2>1, <2>6, <2>7, JoinedHas
  <2> QED
    BY <2>8, <2>10, <2>11
<1> QED
  BY <1>1, Invariance, PTL

\* What is listed after a restore is what was listed in the past.
LEMMA RestoreLists ==
  ASSUME IInv, NEW n \in Node, NEW P, Closed(P), P \subseteq doc[n],
         NEW put, NEW runs, IsRestore(n, P, put, runs), NEW f \in File \cup Dir
  PROVE  live(doc[n], f)' <=> live(P, f)
<1> DEFINE unset == Listed(P) \X {"deleted_at"}
<1>1. TypeOK /\ commit_now(n, put, unset, runs)
  BY DEF IInv, IsRestore
<1> HIDE DEF unset
<1>2. /\ get(doc[n], <<f, "path">>)' = IF <<f, "path">> \in DOMAIN put THEN put[<<f, "path">>]
                                       ELSE IF <<f, "path">> \in unset THEN None
                                       ELSE get(doc[n], <<f, "path">>)
      /\ get(doc[n], <<f, "deleted_at">>)' =
           IF <<f, "deleted_at">> \in DOMAIN put THEN put[<<f, "deleted_at">>]
           ELSE IF <<f, "deleted_at">> \in unset THEN None ELSE get(doc[n], <<f, "deleted_at">>)
  BY <1>1, Reads
<1>3. /\ <<f, "path">> \in DOMAIN put <=> f \in Listed(P)
      /\ <<f, "deleted_at">> \in DOMAIN put <=> f \in Listed(doc[n]) /\ f \notin Listed(P)
      /\ <<f, "path">> \in DOMAIN put => put[<<f, "path">>] = get(P, <<f, "path">>)
      /\ <<f, "deleted_at">> \in DOMAIN put => put[<<f, "deleted_at">>] = TRUE
  <2>1. PutsBack(n, P, put, f)
    BY RestoredPuts
  <2> QED
    BY <2>1 DEF PutsBack
<1>4. <<f, "path">> \notin unset /\ (<<f, "deleted_at">> \in unset <=> f \in Listed(P))
  BY DEF unset
<1>5. \A S : f \in Listed(S) <=> live(S, f)
  BY DEF Listed, list_files, list_directories
<1>6. CASE f \in Listed(P)
  <2>1. live(P, f)
    BY <1>5, <1>6
  <2>2. get(doc[n], <<f, "path">>)' = get(P, <<f, "path">>) /\ get(doc[n], <<f, "deleted_at">>)' = None
    BY <1>2, <1>3, <1>4, <1>6
  <2> QED
    BY <2>1, <2>2 DEF live
<1>7. CASE f \notin Listed(P) /\ f \in Listed(doc[n])
  <2>1. ~live(P, f)
    BY <1>5, <1>7
  <2>2. get(doc[n], <<f, "deleted_at">>)' = TRUE
    BY <1>2, <1>3, <1>7
  <2> QED
    BY <2>1, <2>2, NoneAssumption DEF live
<1>8. CASE f \notin Listed(P) /\ f \notin Listed(doc[n])
  <2>1. ~live(P, f) /\ ~live(doc[n], f)
    BY <1>5, <1>8
  <2>2. /\ get(doc[n], <<f, "path">>)' = get(doc[n], <<f, "path">>)
        /\ get(doc[n], <<f, "deleted_at">>)' = get(doc[n], <<f, "deleted_at">>)
    BY <1>2, <1>3, <1>4, <1>8
  <2> QED
    BY <2>1, <2>2 DEF live
<1> QED
  BY <1>6, <1>7, <1>8

\* And it reads as it did.
LEMMA RestoreReads ==
  ASSUME IInv, NEW n \in Node, NEW P, Closed(P), P \subseteq doc[n],
         NEW put, NEW runs, IsRestore(n, P, put, runs), NEW f \in Listed(P)
  PROVE  /\ get(doc[n], <<f, "path">>)' = get(P, <<f, "path">>)
         /\ get(doc[n], <<f, "kind">>)' = get(P, <<f, "kind">>)
         /\ get(P, <<f, "kind">>) = "text" => read_file_id(doc[n], f)' = read_file_id(P, f)
         /\ get(P, <<f, "kind">>) # "text" => get(doc[n], <<f, "hash">>)' = get(P, <<f, "hash">>)
<1> DEFINE unset == Listed(P) \X {"deleted_at"}
           S == doc[n]
<1>1. TypeOK /\ commit_now(n, put, unset, runs) /\ Closed(S)
  BY ClosedSets DEF IInv, IsRestore
<1>2. ASSUME NEW k, k # "deleted_at"
      PROVE  get(S, <<f, k>>)' = IF <<f, k>> \in DOMAIN put THEN put[<<f, k>>] ELSE get(S, <<f, k>>)
  <2>1. <<f, k>> \notin unset
    BY <1>2
  <2> HIDE DEF unset
  <2>2. get(S, <<f, k>>)' = IF <<f, k>> \in DOMAIN put THEN put[<<f, k>>]
                            ELSE IF <<f, k>> \in unset THEN None ELSE get(S, <<f, k>>)
    BY <1>1, Reads
  <2> QED
    BY <2>1, <2>2
<1> HIDE DEF unset
<1>3. /\ <<f, "path">> \in DOMAIN put <=> f \in Listed(P)
      /\ <<f, "kind">> \in DOMAIN put <=> f \in list_files(P)
      /\ <<f, "hash">> \in DOMAIN put <=>
              f \in list_files(P) /\ get(P, <<f, "kind">>) = "attachment"
      /\ <<f, "content">> \notin DOMAIN put
      /\ \A k \in {"path", "kind", "hash"} :
              <<f, k>> \in DOMAIN put => put[<<f, k>>] = get(P, <<f, k>>)
  <2>1. PutsBack(n, P, put, f)
    BY RestoredPuts
  <2> QED
    BY <2>1 DEF PutsBack
<1>4. get(S, <<f, "path">>)' = get(P, <<f, "path">>)
  BY <1>2, <1>3
<1>5. CASE f \in list_files(P)
  <2>1. f \in File /\ live(P, f)
    BY <1>5 DEF list_files
  <2>2. get(P, <<f, "kind">>) \in {"text", "attachment"}
    BY <2>1, ListedWasPut, WholeEntry
  <2>3. get(S, <<f, "kind">>)' = get(P, <<f, "kind">>)
    BY <1>2, <1>3, <1>5
  <2>4. get(P, <<f, "kind">>) # "text" => get(S, <<f, "hash">>)' = get(P, <<f, "hash">>)
    BY <1>2, <1>3, <1>5, <2>2
  <2>5. ASSUME get(P, <<f, "kind">>) = "text" PROVE read_file_id(S, f)' = read_file_id(P, f)
    <3> DEFINE c == get(S, <<f, "content">>)
    <3>1. f \in TextsOf(P)
      BY <1>5, <2>5 DEF TextsOf
    <3>2. c # None
      BY <3>1, PastTexts
    <3>3. get(S, <<f, "content">>)' = c
      BY <1>2, <1>3
    <3>4. <<f, c>> \in DOMAIN runs => runs[<<f, c>>] = read_file_id(P, f)
      BY DEF IsRestore
    <3>5. <<f, c>> \notin DOMAIN runs => text(S, <<f, c>>) = read_file_id(P, f)
      BY <3>1 DEF IsRestore
    <3>6. read_file_id(P, f) \in Seq(Text)
      BY TextType
    <3>7. PICK x : x = c
      OBVIOUS
    <3>8. text(S, <<f, x>>)' = IF <<f, x>> \in DOMAIN runs THEN runs[<<f, x>>] ELSE text(S, <<f, x>>)
      BY <1>1, <3>4, <3>6, <3>7, Texts
    <3>9. text(S, <<f, x>>)' = read_file_id(P, f)
      BY <3>4, <3>5, <3>7, <3>8
    <3>10. read_file_id(S, f)' = text(S, <<f, x>>)'
      BY <3>2, <3>3, <3>7 DEF read_file_id
    <3> QED
      BY <3>9, <3>10
  <2> QED
    BY <1>4, <2>3, <2>4, <2>5
<1>6. CASE f \notin list_files(P)
  <2>1. f \in Dir
    BY <1>6 DEF Listed, list_directories
  <2>2. \A T : Closed(T) => get(T, <<f, "kind">>) = None /\ get(T, <<f, "hash">>) = None
    BY <2>1, DirectoriesArePlain
  <2>3. get(S, <<f, "kind">>)' = None /\ get(S, <<f, "hash">>)' = None
    BY <1>1, <1>2, <1>3, <1>6, <2>2
  <2> QED
    BY <1>4, <2>2, <2>3, NoneAssumption
<1> QED
  BY <1>5, <1>6

\* Restoring a label shows what its author saw when creating it (restore_to_heads
\* of get_label_heads).
THEOREM RestoreAlwaysReturns == Spec => RestoreReturns
<1>1. IInv /\ [Next]_vars =>
        [\A n \in Node, l \in Label :
           change' # change /\ doc'[n] # doc[n] /\ RestoreLabel(n, l) =>
             Shown(doc[n])' = Shown(change[LabelMade(doc[n], l)].past)]_vars
  <2> SUFFICES ASSUME IInv, NEW n \in Node, NEW l \in Label, RestoreLabel(n, l)
               PROVE  Shown(doc[n])' = Shown(change[LabelMade(doc[n], l)].past)
    OBVIOUS
  <2> DEFINE H == get_label_heads(doc[n], l)
  <2>1. PICK P : P = change[LabelMade(doc[n], l)].past
    OBVIOUS
  <2>2. l \in list_labels(doc[n]) /\ restore_to_heads(n, H)
    BY DEF RestoreLabel
  <2>3. /\ LabelMade(doc[n], l) \in DOMAIN change /\ P \subseteq doc[n]
        /\ fork_at(H) = P
    BY <2>1, <2>2, LabelNames
  <2>4. Closed(P)
    BY <2>1, <2>3, ClosedSets
  <2>5. PICK put, runs : IsRestore(n, P, put, runs)
    BY <2>2, <2>3, <2>4, RestoreCommits
  <2>6. \A f \in File \cup Dir : live(doc[n], f)' <=> live(P, f)
    BY <2>3, <2>4, <2>5, RestoreLists
  <2>7. Listed(doc[n])' = Listed(P)
    BY <2>6 DEF Listed, list_files, list_directories
  <2>8. \A f \in Listed(P) :
         /\ get(doc[n], <<f, "path">>)' = get(P, <<f, "path">>)
         /\ get(doc[n], <<f, "kind">>)' = get(P, <<f, "kind">>)
         /\ get(P, <<f, "kind">>) = "text" => read_file_id(doc[n], f)' = read_file_id(P, f)
         /\ get(P, <<f, "kind">>) # "text" => get(doc[n], <<f, "hash">>)' = get(P, <<f, "hash">>)
    BY <2>3, <2>4, <2>5, RestoreReads
  <2>9. Shown(doc[n])' = Shown(P)
    BY <2>7, <2>8 DEF Shown
  <2> QED
    BY <2>1, <2>9
<1> QED
  BY <1>1, Invariance, PTL DEF Spec, RestoreReturns
=============================================================================
