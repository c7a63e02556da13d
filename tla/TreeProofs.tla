----------------------------- MODULE TreeProofs -----------------------------
(***************************************************************************)
(* normalize, FilesHaveParents and DeleteIsComplete for any number of      *)
(* entries, any segments and any depth.  Of normalize the other proofs use *)
(* only that it returns a path (PathsArePaths).                            *)
(***************************************************************************)
EXTENDS Tree, NatSets, SequenceTheorems, TLAPS

-----------------------------------------------------------------------------
(* Paths *)

\* A path is a sequence of segments within the bound.
LEMMA PathIsSeq ==
  ASSUME NEW p \in Path
  PROVE  /\ p \in Seq(Segment)
         /\ Len(p) \in Nat /\ Len(p) >= 1 /\ Len(p) <= MaxDepth
         /\ MaxDepth \in Nat
<1>1. PICK n \in 1..MaxDepth : p \in [1..n -> Segment]
  BY PathAssumption
<1>2. QED
  BY <1>1, PathAssumption

\* And the other way round.
LEMMA SeqIsPath ==
  ASSUME NEW p \in Seq(Segment), Len(p) >= 1, Len(p) <= MaxDepth
  PROVE  p \in Path
<1>1. p \in [1..Len(p) -> Segment] /\ Len(p) \in 1..MaxDepth
  BY PathAssumption
<1>2. QED
  BY <1>1, PathAssumption

\* Every prefix of a path is a path, and a prefix of a prefix is a prefix.
LEMMA Prefix ==
  ASSUME NEW p \in Path, NEW n \in 1..Len(p)
  PROVE  /\ SubSeq(p, 1, n) \in Path
         /\ Len(SubSeq(p, 1, n)) = n
         /\ \A k \in 1..n : SubSeq(p, 1, n)[k] = p[k]
<1>1. /\ p \in Seq(Segment) /\ Len(p) \in Nat /\ Len(p) <= MaxDepth
      /\ MaxDepth \in Nat
  BY PathIsSeq
<1>2. /\ SubSeq(p, 1, n) \in Seq(Segment)
      /\ Len(SubSeq(p, 1, n)) = n
      /\ \A k \in 1..n : SubSeq(p, 1, n)[k] = p[k]
  BY <1>1
<1>3. n >= 1 /\ n <= MaxDepth
  BY <1>1
<1>4. QED
  BY <1>2, <1>3, SeqIsPath

\* Paths with the same segments are the same path.
LEMMA SamePath ==
  ASSUME NEW p \in Path, NEW q \in Path, Len(p) = Len(q),
         \A k \in 1..Len(p) : p[k] = q[k]
  PROVE  p = q
<1>1. p \in Seq(Segment) /\ q \in Seq(Segment)
  BY PathIsSeq
<1>2. QED
  BY <1>1, SeqEqual

-----------------------------------------------------------------------------
(* normalize *)

PushStep(segments, g, n) ==
  IF n = 0 THEN <<>>
  ELSE IF segments[n] \in Skipped THEN g[n - 1] ELSE Append(g[n - 1], segments[n])

\* The loop of normalize is well defined: Pushed is the last value of a function
\* that obeys its recursion.
LEMMA PushedRecursion ==
  ASSUME NEW s, Len(s) \in Nat
  PROVE  \E g : /\ Pushed(s) = g[Len(s)]
                /\ \A n \in 0..Len(s) : g[n] = PushStep(s, g, n)
<1> DEFINE m == Len(s)
           Good(k, g) == \A n \in 0..k : g[n] = PushStep(s, g, n)
           T == {k \in Nat : \E g : Good(k, g)}
<1>1. 0 \in T
  <2>1. Good(0, [n \in 0..0 |-> <<>>])
    BY DEF PushStep
  <2> QED
    BY <2>1
<1>2. ASSUME NEW k \in T PROVE k + 1 \in T
  <2>1. PICK g : Good(k, g)
    OBVIOUS
  <2> DEFINE h == [n \in 0..(k + 1) |-> IF n = k + 1 THEN PushStep(s, g, n) ELSE g[n]]
  <2>2. ASSUME NEW n \in 0..(k + 1) PROVE h[n] = PushStep(s, h, n)
    <3>1. n # 0 => h[n - 1] = g[n - 1]
      OBVIOUS
    <3>2. PushStep(s, h, n) = PushStep(s, g, n)
      BY <3>1 DEF PushStep
    <3>3. n # k + 1 => n \in 0..k
      OBVIOUS
    <3> QED
      BY <2>1, <3>2, <3>3
  <2>3. Good(k + 1, h)
    BY <2>2
  <2> HIDE DEF h
  <2> QED
    BY <2>3
<1> HIDE DEF T
<1>3. T = Nat
  <2>1. T \in SUBSET Nat
    BY DEF T
  <2> QED
    BY <1>1, <1>2, <2>1, Induction
<1>4. PICK g : Good(m, g)
  BY <1>3 DEF T
<1> DEFINE Body(f) == [n \in 0..Len(s) |->
                         IF n = 0 THEN <<>>
                         ELSE IF s[n] \in Skipped THEN f[n - 1] ELSE Append(f[n - 1], s[n])]
           h == [n \in 0..Len(s) |-> g[n]]
           u == CHOOSE f : f = Body(f)
<1>5. h = Body(h)
  <2>1. ASSUME NEW n \in 0..Len(s)
        PROVE  h[n] = IF n = 0 THEN <<>>
                      ELSE IF s[n] \in Skipped THEN h[n - 1] ELSE Append(h[n - 1], s[n])
    <3>1. n # 0 => n - 1 \in 0..Len(s)
      OBVIOUS
    <3> QED
      BY <1>4, <3>1 DEF PushStep
  <2> HIDE DEF Good
  <2> QED
    BY <2>1
<1>6. u = Body(u)
  <2> HIDE DEF h, Body
  <2> QED
    BY <1>5
<1>7. Pushed(s) = u[Len(s)]
  BY DEF Pushed
<1> HIDE DEF u
<1>8. \A n \in 0..Len(s) : u[n] = PushStep(s, u, n)
  BY <1>6 DEF PushStep
<1> QED
  BY <1>7, <1>8

\* What is pushed is neither empty nor a dot.
LEMMA PushedType ==
  ASSUME NEW X, NEW s \in Seq(X)
  PROVE  Pushed(s) \in Seq(X \ Skipped)
<1> DEFINE Y == X \ Skipped
<1>1. PICK g : /\ Pushed(s) = g[Len(s)]
               /\ \A n \in 0..Len(s) : g[n] = PushStep(s, g, n)
  BY PushedRecursion
<1> DEFINE T == {n \in 0..Len(s) : g[n] \in Seq(Y)}
<1>2. Len(s) \in Nat /\ T \in SUBSET (0..Len(s))
  OBVIOUS
<1>3. 0 \in T
  <2>1. g[0] = <<>> /\ 0 \in 0..Len(s)
    BY <1>1, <1>2 DEF PushStep
  <2>2. <<>> \in Seq(Y)
    OBVIOUS
  <2> QED
    BY <2>1, <2>2
<1>4. ASSUME NEW n \in T, n < Len(s) PROVE n + 1 \in T
  <2>1. n + 1 \in 0..Len(s) /\ (n + 1) - 1 = n /\ n + 1 # 0 /\ n + 1 \in 1..Len(s)
    BY <1>2, <1>4
  <2>2. g[n + 1] = IF s[n + 1] \in Skipped THEN g[n] ELSE Append(g[n], s[n + 1])
    BY <1>1, <2>1 DEF PushStep
  <2>3. s[n + 1] \in X /\ g[n] \in Seq(Y)
    BY <2>1, <1>4
  <2>4. g[n + 1] \in Seq(Y)
    BY <2>2, <2>3
  <2> QED
    BY <2>1, <2>4
<1> HIDE DEF T
<1>5. T = 0..Len(s)
  BY <1>2, <1>3, <1>4, BoundedInduction
<1> QED
  BY <1>1, <1>2, <1>5 DEF T

\* Of segments that are neither empty nor a dot every one is pushed.
LEMMA PushedAll ==
  ASSUME NEW X, NEW s \in Seq(X), X \cap Skipped = {}
  PROVE  Pushed(s) = s
<1>1. PICK g : /\ Pushed(s) = g[Len(s)]
               /\ \A n \in 0..Len(s) : g[n] = PushStep(s, g, n)
  BY PushedRecursion
<1> DEFINE T == {n \in 0..Len(s) : g[n] = SubSeq(s, 1, n)}
<1>2. Len(s) \in Nat /\ T \in SUBSET (0..Len(s))
  OBVIOUS
<1>3. 0 \in T
  <2>1. g[0] = <<>> /\ 0 \in 0..Len(s)
    BY <1>1, <1>2 DEF PushStep
  <2>2. SubSeq(s, 1, 0) = <<>>
    OBVIOUS
  <2> QED
    BY <2>1, <2>2
<1>4. ASSUME NEW n \in T, n < Len(s) PROVE n + 1 \in T
  <2>1. n + 1 \in 0..Len(s) /\ (n + 1) - 1 = n /\ n + 1 # 0 /\ n + 1 \in 1..Len(s) /\ n \in Nat
    BY <1>2, <1>4
  <2>2. s[n + 1] \in X
    BY <2>1
  <2>3. g[n + 1] = Append(g[n], s[n + 1])
    BY <1>1, <2>1, <2>2 DEF PushStep
  <2>4. g[n] = SubSeq(s, 1, n)
    BY <1>4
  <2>5. Append(SubSeq(s, 1, n), s[n + 1]) = SubSeq(s, 1, n + 1)
    <3> HIDE DEF T
    <3>1. /\ SubSeq(s, 1, n) \in Seq(X) /\ Len(SubSeq(s, 1, n)) = n
          /\ SubSeq(s, 1, n + 1) \in Seq(X) /\ Len(SubSeq(s, 1, n + 1)) = n + 1
          /\ \A k \in 1..n : SubSeq(s, 1, n)[k] = s[k]
          /\ \A k \in 1..(n + 1) : SubSeq(s, 1, n + 1)[k] = s[k]
      BY <2>1, <2>2
    <3>2. /\ Append(SubSeq(s, 1, n), s[n + 1]) \in Seq(X)
          /\ Len(Append(SubSeq(s, 1, n), s[n + 1])) = n + 1
          /\ \A k \in 1..n : Append(SubSeq(s, 1, n), s[n + 1])[k] = s[k]
          /\ Append(SubSeq(s, 1, n), s[n + 1])[n + 1] = s[n + 1]
      BY <2>1, <2>2, <3>1
    <3>3. \A k \in 1..(n + 1) : k \in 1..n \/ k = n + 1
      BY <2>1
    <3> QED
      BY <3>1, <3>2, <3>3, SeqEqual
  <2> QED
    BY <2>1, <2>3, <2>4, <2>5
<1> HIDE DEF T
<1>5. T = 0..Len(s)
  BY <1>2, <1>3, <1>4, BoundedInduction
<1>6. g[Len(s)] = SubSeq(s, 1, Len(s))
  BY <1>2, <1>5 DEF T
<1>7. SubSeq(s, 1, Len(s)) = s
  OBVIOUS
<1> QED
  BY <1>1, <1>6, <1>7

\* What normalize accepts it makes a path of ordinary segments.
LEMMA NormalPath ==
  ASSUME NEW r \in Raw, normalize(r) # None
  PROVE  normalize(r) \in Seq(Segment) /\ normalize(r) # <<>>
<1> DEFINE nfc == [n \in DOMAIN r |-> Nfc[r[n]]]
           X == (Segment \cup {"", ".", "..", Nul}) \ {"..", Nul}
<1>1. /\ \A n \in DOMAIN nfc : nfc[n] \notin {"..", Nul}
      /\ normalize(r) = Pushed(nfc) /\ Pushed(nfc) # <<>>
  BY DEF normalize
<1>2. r \in Seq(DOMAIN Nfc)
  BY RawAssumption
<1>3. nfc \in Seq(X)
  <2>1. ASSUME NEW n \in DOMAIN r PROVE Nfc[r[n]] \in X
    <3>1. Nfc[r[n]] \in Segment \cup {"", ".", "..", Nul}
      <4>1. r[n] \in DOMAIN Nfc
        BY <1>2
      <4> QED
        BY <4>1, RawAssumption
    <3>2. Nfc[r[n]] \notin {"..", Nul}
      BY <1>1
    <3> QED
      BY <3>1, <3>2
  <2>2. DOMAIN r = 1..Len(r) /\ Len(r) \in Nat
    BY <1>2
  <2> HIDE DEF X
  <2> QED
    BY <2>1, <2>2
<1> HIDE DEF nfc, X
<1>4. Pushed(nfc) \in Seq(X \ Skipped)
  BY <1>3, PushedType
<1>5. X \ Skipped = Segment
  BY RawAssumption DEF X, Skipped
<1> QED
  BY <1>1, <1>4, <1>5

\* So the calls take paths.
LEMMA PathsArePaths == Paths \subseteq Path
<1> SUFFICES ASSUME NEW r \in Raw, normalize(r) # None, Len(normalize(r)) <= MaxDepth
             PROVE  normalize(r) \in Path
  BY DEF Paths
<1>1. normalize(r) \in Seq(Segment) /\ normalize(r) # <<>>
  BY NormalPath
<1>2. Len(normalize(r)) >= 1
  BY <1>1
<1> QED
  BY <1>1, <1>2, SeqIsPath

\* A normal path is normal: an operation that is handed the path another one
\* returned, or that normalizes twice, means the same file (path::normalize).
THEOREM NormalizeIsIdempotent ==
  ASSUME NEW r \in Raw, normalize(r) # None
  PROVE  normalize(normalize(r)) = normalize(r)
<1>1. PICK p : p = normalize(r)
  OBVIOUS
<1>2. p \in Seq(Segment) /\ p # <<>>
  BY <1>1, NormalPath
<1> DEFINE nfc == [n \in DOMAIN p |-> Nfc[p[n]]]
<1>3. ASSUME NEW n \in DOMAIN p
      PROVE  p[n] \in Segment /\ Nfc[p[n]] = p[n] /\ p[n] \notin {"", ".", "..", Nul}
  <2>1. p[n] \in Segment
    BY <1>2
  <2> QED
    BY <2>1, RawAssumption
<1>4. nfc = p
  <2>1. p = [n \in DOMAIN p |-> p[n]]
    BY <1>2
  <2>2. \A n \in DOMAIN p : Nfc[p[n]] = p[n]
    BY <1>3
  <2> QED
    BY <2>1, <2>2
<1> HIDE DEF nfc
<1>5. Pushed(nfc) = p
  <2>1. Segment \cap Skipped = {}
    BY RawAssumption DEF Skipped
  <2> QED
    BY <1>2, <1>4, <2>1, PushedAll
<1>6. 1 \in DOMAIN p
  BY <1>2
<1>7. normalize(p) = p
  BY <1>2, <1>3, <1>4, <1>5, <1>6 DEF normalize, nfc
<1> QED
  BY <1>1, <1>7

-----------------------------------------------------------------------------
(* Renames *)

\* What a rename makes of a path: `to`, then the rest of the former path.
LEMMA Rebased ==
  ASSUME NEW from \in Path, NEW to \in Path, NEW p \in Path, under(from, p)
  PROVE  /\ rebased(from, to, p) \in Seq(Segment)
         /\ Len(rebased(from, to, p)) = Len(to) + Len(p) - Len(from)
         /\ \A k \in 1..Len(to) : rebased(from, to, p)[k] = to[k]
         /\ \A k \in (Len(to) + 1)..(Len(to) + Len(p) - Len(from)) :
              rebased(from, to, p)[k] = p[k - Len(to) + Len(from)]
<1>1. /\ from \in Seq(Segment) /\ to \in Seq(Segment) /\ p \in Seq(Segment)
      /\ Len(from) \in Nat /\ Len(to) \in Nat /\ Len(p) \in Nat
      /\ Len(from) >= 1 /\ Len(to) >= 1 /\ Len(p) >= 1
  BY PathIsSeq
<1>2. Len(from) <= Len(p)
  BY DEF under
<1> DEFINE r == SubSeq(p, Len(from) + 1, Len(p))
<1>3. /\ r \in Seq(Segment)
      /\ Len(r) = Len(p) - Len(from)
      /\ \A k \in 1..Len(r) : r[k] = p[Len(from) + k]
  BY <1>1, <1>2
<1>4. /\ to \o r \in Seq(Segment)
      /\ Len(to \o r) = Len(to) + Len(r)
      /\ \A k \in 1..Len(to) : (to \o r)[k] = to[k]
      /\ \A k \in (Len(to) + 1)..(Len(to) + Len(r)) : (to \o r)[k] = r[k - Len(to)]
  BY <1>1, <1>3
<1>5. rebased(from, to, p) = to \o r
  BY DEF rebased
<1> HIDE DEF r
<1>6. ASSUME NEW k \in (Len(to) + 1)..(Len(to) + Len(p) - Len(from))
      PROVE  (to \o r)[k] = p[k - Len(to) + Len(from)]
  <2>1. k - Len(to) \in 1..Len(r) /\ Len(from) + (k - Len(to)) = k - Len(to) + Len(from)
    BY <1>1, <1>2, <1>3
  <2>2. QED
    BY <2>1, <1>1, <1>3, <1>4
<1>7. QED
  BY <1>1, <1>2, <1>3, <1>4, <1>5, <1>6

\* The ancestors of a rebased path are the prefixes of `to`, `to` itself, and
\* the rebased ancestors of the former path below `from`.
LEMMA RebasedAncestors ==
  ASSUME NEW from \in Path, NEW to \in Path, NEW p \in Path, under(from, p),
         rebased(from, to, p) \in Path,
         NEW a \in ancestors(rebased(from, to, p))
  PROVE  \/ a \in ancestors(to)
         \/ a = to /\ p # from
         \/ \E b \in ancestors(p) : under(from, b) /\ b # from /\ a = rebased(from, to, b)
<1> DEFINE q == rebased(from, to, p)
<1>1. PICK n \in 1..(Len(q) - 1) : a = SubSeq(q, 1, n)
  BY DEF ancestors
<1>2. /\ Len(from) \in Nat /\ Len(to) \in Nat /\ Len(p) \in Nat /\ Len(q) \in Nat
      /\ Len(from) >= 1 /\ Len(to) >= 1 /\ Len(p) >= 1 /\ Len(q) >= 1
      /\ Len(from) <= Len(p)
      /\ Len(q) = Len(to) + Len(p) - Len(from)
  <2>1. Len(from) <= Len(p)
    BY DEF under
  <2>2. QED
    BY <2>1, PathIsSeq, Rebased
<1>q. /\ \A k \in 1..Len(to) : q[k] = to[k]
      /\ \A k \in (Len(to) + 1)..Len(q) : q[k] = p[k - Len(to) + Len(from)]
  BY <1>2, Rebased
<1>3. /\ a \in Path /\ Len(a) = n
      /\ \A k \in 1..n : a[k] = q[k]
  BY <1>1, <1>2, Prefix
<1> HIDE DEF q
<1>4. CASE n < Len(to)
  <2>1. /\ SubSeq(to, 1, n) \in Path /\ Len(SubSeq(to, 1, n)) = n
        /\ \A k \in 1..n : SubSeq(to, 1, n)[k] = to[k]
    BY <1>2, <1>4, Prefix
  <2>2. \A k \in 1..n : a[k] = to[k]
    BY <1>2, <1>3, <1>4, <1>q
  <2>3. a = SubSeq(to, 1, n)
    BY <1>3, <2>1, <2>2, SamePath
  <2>4. QED
    BY <1>2, <1>4, <2>3 DEF ancestors
<1>5. CASE n = Len(to)
  <2>1. \A k \in 1..n : a[k] = to[k]
    BY <1>2, <1>3, <1>5, <1>q
  <2>2. a = to
    BY <1>3, <1>5, <2>1, SamePath
  <2>3. p # from
    BY <1>2, <1>5
  <2>4. QED
    BY <2>2, <2>3
<1>6. CASE n > Len(to)
  <2> DEFINE m == n - Len(to) + Len(from)
             b == SubSeq(p, 1, m)
  <2>1. m \in 1..(Len(p) - 1) /\ m > Len(from)
    BY <1>2, <1>6
  <2>2. b \in Path /\ Len(b) = m /\ \A k \in 1..m : b[k] = p[k]
    BY <2>1, <1>2, Prefix
  <2>10. b \in ancestors(p)
    BY <2>1 DEF ancestors
  <2> HIDE DEF b
  <2>3. /\ from \in Path /\ Len(from) \in 1..Len(p)
        /\ \A k \in 1..Len(from) : from[k] = p[k]
    <3>1. Len(from) \in 1..Len(p) /\ SubSeq(p, 1, Len(from)) = from
      BY <1>2 DEF under
    <3>2. \A k \in 1..Len(from) : SubSeq(p, 1, Len(from))[k] = p[k]
      BY <3>1, Prefix
    <3>3. QED
      BY <3>1, <3>2
  <2>4. /\ SubSeq(b, 1, Len(from)) \in Path
        /\ Len(SubSeq(b, 1, Len(from))) = Len(from)
        /\ \A k \in 1..Len(from) : SubSeq(b, 1, Len(from))[k] = b[k]
    <3>1. Len(from) \in 1..Len(b)
      BY <2>1, <2>2, <1>2
    <3>2. QED
      BY <3>1, <2>2, Prefix
  <2>5. SubSeq(b, 1, Len(from)) = from
    <3>1. ASSUME NEW k \in 1..Len(from) PROVE SubSeq(b, 1, Len(from))[k] = from[k]
      <4>1. k \in 1..m
        BY <2>1, <1>2
      <4>2. b[k] = p[k] /\ from[k] = p[k] /\ SubSeq(b, 1, Len(from))[k] = b[k]
        BY <4>1, <2>2, <2>3, <2>4
      <4>3. QED
        BY <4>2
    <3>2. QED
      BY <3>1, <2>4, SamePath
  <2>6. under(from, b) /\ b # from
    BY <2>1, <2>2, <2>5, <1>2 DEF under
  <2>7. /\ rebased(from, to, b) \in Seq(Segment)
        /\ Len(rebased(from, to, b)) = n
        /\ \A k \in 1..Len(to) : rebased(from, to, b)[k] = to[k]
        /\ \A k \in (Len(to) + 1)..n : rebased(from, to, b)[k] = b[k - Len(to) + Len(from)]
    <3>1. /\ rebased(from, to, b) \in Seq(Segment)
          /\ Len(rebased(from, to, b)) = Len(to) + Len(b) - Len(from)
          /\ \A k \in 1..Len(to) : rebased(from, to, b)[k] = to[k]
          /\ \A k \in (Len(to) + 1)..(Len(to) + Len(b) - Len(from)) :
               rebased(from, to, b)[k] = b[k - Len(to) + Len(from)]
      BY <2>2, <2>6, Rebased
    <3>2. Len(to) + Len(b) - Len(from) = n
      BY <2>2, <1>2
    <3>3. QED
      BY <3>1, <3>2
  <2>8. \A k \in 1..n : rebased(from, to, b)[k] = a[k]
    <3>1. TAKE k \in 1..n
    <3>2. CASE k \in 1..Len(to)
      BY <3>2, <2>7, <1>2, <1>3, <1>q
    <3>3. CASE k \in (Len(to) + 1)..n
      <4>1. k \in (Len(to) + 1)..Len(q) /\ k - Len(to) + Len(from) \in 1..m
        BY <3>3, <1>2
      <4>2. QED
        BY <4>1, <3>3, <2>2, <2>7, <1>3, <1>q
    <3>4. QED
      BY <3>2, <3>3, <1>2
  <2>9. a = rebased(from, to, b)
    BY <1>3, <2>7, <2>8, PathIsSeq, SeqEqual
  <2>11. QED
    BY <2>6, <2>9, <2>10
<1>7. QED
  BY <1>2, <1>4, <1>5, <1>6

\* A path is under itself.
LEMMA UnderItself ==
  ASSUME NEW p \in Path
  PROVE  under(p, p)
<1>1. p \in Seq(Segment) /\ Len(p) \in Nat
  BY PathIsSeq
<1>2. QED
  BY <1>1 DEF under

\* What is under p is no ancestor of a path that is not.
LEMMA Below ==
  ASSUME NEW p \in Path, NEW q \in Path, NEW a \in ancestors(q), under(p, a)
  PROVE  under(p, q) /\ q # p
<1>2. PICK n \in 1..(Len(q) - 1) : a = SubSeq(q, 1, n)
  BY DEF ancestors
<1>3. /\ Len(q) \in Nat /\ Len(q) >= 1 /\ Len(p) \in Nat /\ Len(p) >= 1
  BY PathIsSeq
<1>4. /\ a \in Path /\ Len(a) = n /\ n \in 1..Len(q)
      /\ \A k \in 1..n : a[k] = q[k]
  BY <1>2, <1>3, Prefix
<1>5. Len(p) <= n /\ SubSeq(a, 1, Len(p)) = p
  BY <1>4 DEF under
<1>6. Len(p) \in 1..Len(a) /\ Len(p) \in 1..Len(q)
  BY <1>3, <1>4, <1>5
<1>7. /\ \A k \in 1..Len(p) : SubSeq(a, 1, Len(p))[k] = a[k]
      /\ SubSeq(q, 1, Len(p)) \in Path /\ Len(SubSeq(q, 1, Len(p))) = Len(p)
      /\ \A k \in 1..Len(p) : SubSeq(q, 1, Len(p))[k] = q[k]
  BY <1>4, <1>6, Prefix
<1>8. ASSUME NEW k \in 1..Len(p) PROVE SubSeq(q, 1, Len(p))[k] = p[k]
  <2>1. k \in 1..n
    BY <1>3, <1>5
  <2>2. QED
    BY <2>1, <1>4, <1>5, <1>7
<1>9. SubSeq(q, 1, Len(p)) = p
  BY <1>7, <1>8, SamePath
<1>10. QED
  BY <1>3, <1>4, <1>5, <1>9 DEF under

\* A path strictly below p has p among its ancestors.
LEMMA StrictlyBelow ==
  ASSUME NEW p \in Path, NEW q \in Path, under(p, q), q # p
  PROVE  p \in ancestors(q)
<1>1. /\ Len(q) \in Nat /\ Len(p) \in Nat /\ Len(p) >= 1 /\ q \in Seq(Segment)
  BY PathIsSeq
<1>2. Len(p) <= Len(q) /\ SubSeq(q, 1, Len(p)) = p
  BY DEF under
<1>3. Len(p) # Len(q)
  <2>1. SUFFICES ASSUME Len(p) = Len(q) PROVE FALSE
    OBVIOUS
  <2>a. Len(p) \in 1..Len(q)
    BY <1>1, <1>2
  <2>2. \A k \in 1..Len(p) : p[k] = q[k]
    BY <1>2, <2>a, Prefix
  <2>3. QED
    BY <2>1, <2>2, SamePath
<1>4. Len(p) \in 1..(Len(q) - 1)
  BY <1>1, <1>2, <1>3
<1>5. QED
  BY <1>2, <1>4 DEF ancestors

-----------------------------------------------------------------------------
(* Entries *)

DirsOK(dirs) ==
  /\ dirs \in [DirId -> DirEntry]
  /\ \A i \in DirId : dirs[i].live => dirs[i].path # None

FilesOK(files) ==
  /\ files \in [FileId -> Entry]
  /\ \A i \in FileId : files[i].live => files[i].path # None

HaveParents(files, dirs) ==
  \A i \in FileId : files[i].live =>
    \A a \in ancestors(files[i].path) : DirsAt(dirs, a) # {}

\* The bound that Leaves puts on what a call makes.
Bounded(d) ==
  /\ \A i \in FileId : d.files[i].live => Len(d.files[i].path) <= MaxDepth
  /\ \A i \in DirId : d.dirs[i].live => Len(d.dirs[i].path) <= MaxDepth

\* A lookup returns a live entry with the path, or None.
LEMMA FindDir ==
  ASSUME NEW dirs, NEW p
  PROVE  IF DirsAt(dirs, p) = {} THEN find_directory_by_path(dirs, p) = None
         ELSE find_directory_by_path(dirs, p) \in DirsAt(dirs, p)
<1>1. DirsAt(dirs, p) \in SUBSET DirId
  BY DEF DirsAt
<1>2. DirsAt(dirs, p) # {} => \E i \in DirsAt(dirs, p) : \A j \in DirsAt(dirs, p) : i <= j
  BY <1>1, DirIdAssumption
<1>3. QED
  BY <1>2 DEF find_directory_by_path

LEMMA FindFile ==
  ASSUME NEW files, NEW p
  PROVE  IF LiveAt(files, p) = {} THEN find_file_by_path(files, p) = None
         ELSE find_file_by_path(files, p) \in LiveAt(files, p)
<1>1. LiveAt(files, p) \in SUBSET FileId
  BY DEF LiveAt
<1>2. LiveAt(files, p) # {} => \E i \in LiveAt(files, p) : \A j \in LiveAt(files, p) : i <= j
  BY <1>1, FileIdAssumption
<1>3. QED
  BY <1>2 DEF find_file_by_path

\* New entries take fresh UUIDs: no directory is lost, and the wanted ones exist.
LEMMA NewDirectories ==
  ASSUME NEW dirs, DirsOK(dirs), NEW p \in Path, NEW S \in SUBSET (1..Len(p)),
         NEW e \in WithDirectories(dirs, p, S)
  PROVE  /\ DirsOK(e)
         /\ \A n \in S : DirsAt(e, SubSeq(p, 1, n)) # {}
         /\ \A q : DirsAt(dirs, q) # {} => DirsAt(e, q) # {}
<1> DEFINE fresh == {i \in DirId : dirs[i] = UnusedDir}
<1>1. PICK f \in [S -> fresh] :
        /\ \A m, n \in S : f[m] = f[n] => m = n
        /\ e = [i \in DirId |-> IF \E n \in S : f[n] = i
                                 THEN [path |-> SubSeq(p, 1, CHOOSE n \in S : f[n] = i), live |-> TRUE]
                                 ELSE dirs[i]]
  BY DEF WithDirectories
<1>2. ASSUME NEW n \in S
      PROVE  f[n] \in DirId /\ e[f[n]] = [path |-> SubSeq(p, 1, n), live |-> TRUE]
  <2>1. (CHOOSE m \in S : f[m] = f[n]) = n
    BY <1>1
  <2>2. QED
    BY <1>1, <2>1
<1>3. ASSUME NEW i \in DirId, ~\E n \in S : f[n] = i
      PROVE  e[i] = dirs[i]
  BY <1>1, <1>3
<1>4. \A n \in S : SubSeq(p, 1, n) \in Path
  BY Prefix
<1>5. DirsOK(e)
  <2>1. ASSUME NEW i \in DirId
        PROVE  e[i] \in DirEntry /\ (e[i].live => e[i].path # None)
    <3>1. CASE \E n \in S : f[n] = i
      <4>1. PICK n \in S : f[n] = i
        BY <3>1
      <4>2. e[i] = [path |-> SubSeq(p, 1, n), live |-> TRUE]
        BY <4>1, <1>2
      <4>3. SubSeq(p, 1, n) \in Path /\ SubSeq(p, 1, n) # None
        BY <1>4, FileTreeAssumption
      <4>4. QED
        BY <4>2, <4>3 DEF DirEntry, Opt
    <3>2. CASE ~\E n \in S : f[n] = i
      BY <3>2, <1>3 DEF DirsOK
    <3>3. QED
      BY <3>1, <3>2
  <2>2. e = [i \in DirId |-> e[i]]
    BY <1>1
  <2>3. QED
    BY <2>1, <2>2 DEF DirsOK
<1>6. ASSUME NEW n \in S PROVE DirsAt(e, SubSeq(p, 1, n)) # {}
  <2>0. f[n] \in DirId /\ e[f[n]] = [path |-> SubSeq(p, 1, n), live |-> TRUE]
    BY <1>2
  <2>1. f[n] \in DirId /\ e[f[n]].live /\ e[f[n]].path = SubSeq(p, 1, n)
    BY <2>0
  <2>2. f[n] \in DirsAt(e, SubSeq(p, 1, n))
    BY <2>1 DEF DirsAt
  <2>3. QED
    BY <2>2
<1>7. ASSUME NEW q, NEW i \in DirsAt(dirs, q)
      PROVE  i \in DirsAt(e, q)
  <2>1. i \in DirId /\ dirs[i].live /\ dirs[i].path = q
    BY DEF DirsAt
  <2>2. ~\E n \in S : f[n] = i
    BY <2>1, <1>1 DEF UnusedDir
  <2>3. QED
    BY <2>1, <2>2, <1>3 DEF DirsAt
<1>8. QED
  BY <1>5, <1>6, <1>7

LEMMA Ancestors ==
  ASSUME NEW dirs, DirsOK(dirs), NEW p \in Path,
         NEW e \in ensure_ancestor_directories(dirs, p)
  PROVE  /\ DirsOK(e)
         /\ \A a \in ancestors(p) : DirsAt(e, a) # {}
         /\ \A q : DirsAt(dirs, q) # {} => DirsAt(e, q) # {}
<1>1. Missing(dirs, p) \in SUBSET (1..Len(p))
  BY PathIsSeq DEF Missing
<1>2. /\ DirsOK(e)
      /\ \A n \in Missing(dirs, p) : DirsAt(e, SubSeq(p, 1, n)) # {}
      /\ \A q : DirsAt(dirs, q) # {} => DirsAt(e, q) # {}
  BY <1>1, NewDirectories DEF ensure_ancestor_directories
<1>3. QED
  BY <1>2 DEF Missing, ancestors

-----------------------------------------------------------------------------
(* One lemma per operation: what it leaves is typed and keeps the parents.   *)

LEMMA WriteKeeps ==
  ASSUME NEW d, FilesOK(d.files), DirsOK(d.dirs), NEW p \in Path, NEW results,
         NEW r \in Written(d, p, results),
         \A f \in results :
           /\ FilesOK(f)
           /\ \A i \in FileId : f[i].live =>
                \/ d.files[i].live /\ f[i].path = d.files[i].path
                \/ ~file_exists(d.files, p) /\ f[i].path = p
  PROVE  /\ FilesOK(r.files) /\ DirsOK(r.dirs)
         /\ HaveParents(d.files, d.dirs) => HaveParents(r.files, r.dirs)
<1>1. PICK f \in results,
           e \in IF file_exists(d.files, p) THEN {d.dirs}
                 ELSE ensure_ancestor_directories(d.dirs, p) :
        r = [files |-> f, dirs |-> e]
  BY DEF Written
<1>2. /\ DirsOK(e)
      /\ ~file_exists(d.files, p) => \A a \in ancestors(p) : DirsAt(e, a) # {}
      /\ \A q : DirsAt(d.dirs, q) # {} => DirsAt(e, q) # {}
  BY Ancestors
<1>3. ASSUME HaveParents(d.files, d.dirs), NEW i \in FileId, f[i].live,
             NEW a \in ancestors(f[i].path)
      PROVE  DirsAt(e, a) # {}
  <2>1. CASE d.files[i].live /\ f[i].path = d.files[i].path
    BY <2>1, <1>2, <1>3 DEF HaveParents
  <2>2. CASE ~file_exists(d.files, p) /\ f[i].path = p
    BY <2>2, <1>2, <1>3
  <2>3. QED
    BY <2>1, <2>2, <1>3
<1>4. r.files = f /\ r.dirs = e
  BY <1>1
<1>5. QED
  BY <1>2, <1>3, <1>4 DEF HaveParents

\* An existing entry keeps its path, a new one gets p.
LEMMA WriteTextResults ==
  ASSUME NEW files, FilesOK(files), NEW p \in Path, NEW s \in Text,
         NEW f \in write_text_file(files, p, s)
  PROVE  /\ FilesOK(f)
         /\ \A i \in FileId : f[i].live =>
              \/ files[i].live /\ f[i].path = files[i].path
              \/ ~file_exists(files, p) /\ f[i].path = p
<1> DEFINE x == find_file_by_path(files, p)
<1>0. p # None /\ s \in Content /\ s \in Opt(Text) /\ p \in Opt(Path) /\ None \in Opt(Content)
  BY FileTreeAssumption DEF Content, Opt
<1>1. CASE x # None
  <2>1. f = [files EXCEPT ![x].content = s, ![x].kind = "text"]
    BY <1>1 DEF write_text_file
  <2>2. x \in FileId
    BY <1>1, FindFile DEF LiveAt
  <2>3. QED
    BY <2>1, <2>2, <1>0 DEF FilesOK, Entry
<1>2. CASE x = None
  <2>1. PICK j \in FreshIds(files) :
          f = [files EXCEPT ![j] = [path |-> p, live |-> TRUE, kind |-> "text",
                                    content |-> s, binary_hash |-> None]]
    BY <1>2 DEF write_text_file
  <2>2. j \in FileId
    BY DEF FreshIds
  <2>3. ~file_exists(files, p)
    BY <1>2 DEF file_exists
  <2>4. QED
    BY <2>1, <2>2, <2>3, <1>0 DEF FilesOK, Entry
<1>3. QED
  BY <1>1, <1>2

LEMMA WriteBinaryResults ==
  ASSUME NEW files, FilesOK(files), NEW p \in Path, NEW h \in Bin,
         NEW f \in write_attachment(files, p, h)
  PROVE  /\ FilesOK(f)
         /\ \A i \in FileId : f[i].live =>
              \/ files[i].live /\ f[i].path = files[i].path
              \/ ~file_exists(files, p) /\ f[i].path = p
<1> DEFINE x == find_file_by_path(files, p)
<1>0. p # None /\ h \in Opt(Content) /\ None \in Opt(Text) /\ p \in Opt(Path)
  BY FileTreeAssumption DEF Content, Opt
<1>1. CASE x # None
  <2>1. f = [files EXCEPT ![x].binary_hash = h, ![x].kind = "attachment"]
    BY <1>1 DEF write_attachment
  <2>2. x \in FileId
    BY <1>1, FindFile DEF LiveAt
  <2>3. QED
    BY <2>1, <2>2, <1>0 DEF FilesOK, Entry
<1>2. CASE x = None
  <2>1. PICK j \in FreshIds(files) :
          f = [files EXCEPT ![j] = [path |-> p, live |-> TRUE, kind |-> "attachment",
                                    content |-> None, binary_hash |-> h]]
    BY <1>2 DEF write_attachment
  <2>2. j \in FileId
    BY DEF FreshIds
  <2>3. ~file_exists(files, p)
    BY <1>2 DEF file_exists
  <2>4. QED
    BY <2>1, <2>2, <2>3, <1>0 DEF FilesOK, Entry
<1>3. QED
  BY <1>1, <1>2

LEMMA RemoveKeeps ==
  ASSUME NEW d, FilesOK(d.files), DirsOK(d.dirs), d \in Document, NEW p,
         NEW r \in remove_file(d, p)
  PROVE  /\ FilesOK(r.files) /\ DirsOK(r.dirs)
         /\ HaveParents(d.files, d.dirs) => HaveParents(r.files, r.dirs)
<1> DEFINE x == find_file_by_path(d.files, p)
<1>1. /\ file_exists(d.files, p)
      /\ r = [d EXCEPT !.files = [d.files EXCEPT ![x].live = FALSE]]
  BY DEF remove_file, delete_file
<1>2. x \in FileId
  BY <1>1, FindFile DEF LiveAt, file_exists
<1>3. /\ r.files = [d.files EXCEPT ![x].live = FALSE]
      /\ r.dirs = d.dirs
  BY <1>1 DEF Document
<1> HIDE DEF x
<1>4. FilesOK(r.files)
  BY <1>2, <1>3 DEF FilesOK, Entry
<1>5. \A i \in FileId : r.files[i].live => d.files[i].live /\ r.files[i].path = d.files[i].path
  BY <1>2, <1>3 DEF FilesOK, Entry
<1>6. QED
  BY <1>3, <1>4, <1>5 DEF HaveParents

LEMMA RenameFileKeeps ==
  ASSUME NEW d, FilesOK(d.files), DirsOK(d.dirs), NEW from \in Path, NEW to \in Path,
         NEW r \in rename_file(d, from, to)
  PROVE  /\ FilesOK(r.files) /\ DirsOK(r.dirs)
         /\ HaveParents(d.files, d.dirs) => HaveParents(r.files, r.dirs)
<1> DEFINE x == find_file_by_path(d.files, from)
<1>1. CASE from = to
  BY <1>1 DEF rename_file
<1>2. CASE from # to
  <2>1. /\ file_exists(d.files, from)
        /\ \E e \in ensure_ancestor_directories(d.dirs, to) :
             r = [files |-> [d.files EXCEPT ![x].path = to], dirs |-> e]
    BY <1>2 DEF rename_file
  <2>2. PICK e \in ensure_ancestor_directories(d.dirs, to) :
             r = [files |-> [d.files EXCEPT ![x].path = to], dirs |-> e]
    BY <2>1
  <2>3. x \in FileId
    BY <2>1, FindFile DEF LiveAt, file_exists
  <2> HIDE DEF x
  <2>4. /\ DirsOK(e)
        /\ \A a \in ancestors(to) : DirsAt(e, a) # {}
        /\ \A q : DirsAt(d.dirs, q) # {} => DirsAt(e, q) # {}
    BY Ancestors
  <2>5. r.files = [d.files EXCEPT ![x].path = to] /\ r.dirs = e
    BY <2>2
  <2>6. to # None /\ to \in Opt(Path)
    BY FileTreeAssumption DEF Opt
  <2>7. FilesOK(r.files)
    BY <2>3, <2>5, <2>6 DEF FilesOK, Entry
  <2>8. \A i \in FileId : r.files[i].live => d.files[i].live /\ r.files[i].path \in {to, d.files[i].path}
    BY <2>3, <2>5 DEF FilesOK, Entry
  <2>9. QED
    BY <2>4, <2>5, <2>7, <2>8 DEF HaveParents
<1>3. QED
  BY <1>1, <1>2

LEMMA CreateKeeps ==
  ASSUME NEW d, d \in Document, FilesOK(d.files), DirsOK(d.dirs), NEW p \in Path,
         NEW r \in create_directory(d, p)
  PROVE  /\ FilesOK(r.files) /\ DirsOK(r.dirs)
         /\ HaveParents(d.files, d.dirs) => HaveParents(r.files, r.dirs)
<1>1. CASE DirsAt(d.dirs, p) # {}
  BY <1>1 DEF create_directory
<1>2. CASE DirsAt(d.dirs, p) = {}
  <2> DEFINE S == {Len(p)} \cup Missing(d.dirs, p)
  <2>1. PICK e \in WithDirectories(d.dirs, p, S) : r = [d EXCEPT !.dirs = e]
    BY <1>2 DEF create_directory
  <2>2. S \in SUBSET (1..Len(p))
    BY PathIsSeq DEF Missing
  <2> HIDE DEF S
  <2>3. DirsOK(e) /\ \A q : DirsAt(d.dirs, q) # {} => DirsAt(e, q) # {}
    BY <2>2, NewDirectories
  <2>4. r.files = d.files /\ r.dirs = e
    BY <2>1 DEF Document
  <2>5. QED
    BY <2>3, <2>4 DEF HaveParents
<1>3. QED
  BY <1>1, <1>2

\* Without `recursive` no live file is below p, with it none stays live: the
\* directories that go are nobody's parents.
LEMMA DeleteKeeps ==
  ASSUME NEW d, d \in Document, FilesOK(d.files), DirsOK(d.dirs), NEW p \in Path,
         NEW recursive \in BOOLEAN, NEW r \in delete_directory(d, p, recursive)
  PROVE  /\ FilesOK(r.files) /\ DirsOK(r.dirs)
         /\ HaveParents(d.files, d.dirs) => HaveParents(r.files, r.dirs)
         /\ recursive => NothingBelow(r, p)
<1> DEFINE first == find_directory_by_path(d.dirs, p)
           Child(e) == e.live /\ under(p, e.path) /\ e.path # p
<1>1. /\ recursive \/ ChildFiles(d, p) = {}
      /\ r.files = [i \in FileId |-> [d.files[i] EXCEPT !.live = @ /\ ~Child(d.files[i])]]
      /\ r.dirs = [i \in DirId |-> [d.dirs[i] EXCEPT !.live =
                     @ /\ i # first /\ ~(recursive /\ Child(d.dirs[i]))]]
  BY DEF delete_directory
<1>2. ASSUME NEW i \in FileId
      PROVE  /\ r.files[i] \in Entry
             /\ r.files[i].live <=> d.files[i].live /\ ~Child(d.files[i])
             /\ r.files[i].path = d.files[i].path
  <2>1. d.files[i] \in Entry /\ r.files[i] = [d.files[i] EXCEPT !.live = @ /\ ~Child(d.files[i])]
    BY <1>1 DEF FilesOK
  <2>2. QED
    BY <2>1 DEF Entry
<1>3. ASSUME NEW i \in DirId
      PROVE  /\ r.dirs[i] \in DirEntry
             /\ r.dirs[i].live <=> d.dirs[i].live /\ i # first /\ ~(recursive /\ Child(d.dirs[i]))
             /\ r.dirs[i].path = d.dirs[i].path
  <2>1. /\ d.dirs[i] \in DirEntry
        /\ r.dirs[i] = [d.dirs[i] EXCEPT !.live = @ /\ i # first /\ ~(recursive /\ Child(d.dirs[i]))]
    BY <1>1 DEF DirsOK
  <2>2. QED
    BY <2>1 DEF DirEntry
<1>4. FilesOK(r.files) /\ DirsOK(r.dirs)
  <2>1. r.files \in [FileId -> Entry] /\ r.dirs \in [DirId -> DirEntry]
    BY <1>1, <1>2, <1>3
  <2>2. QED
    BY <2>1, <1>2, <1>3 DEF FilesOK, DirsOK
<1>5. \A i \in FileId : r.files[i].live => ~Child(d.files[i])
  BY <1>2
<1>6. ASSUME HaveParents(d.files, d.dirs), NEW i \in FileId, r.files[i].live,
             NEW a \in ancestors(d.files[i].path)
      PROVE  DirsAt(r.dirs, a) # {}
  <2> DEFINE q == d.files[i].path
  <2>1. d.files[i].live /\ q \in Path /\ ~Child(d.files[i])
    BY <1>2, <1>5, <1>6 DEF FilesOK, Entry, Opt
  <2>2. PICK j \in DirId : d.dirs[j].live /\ d.dirs[j].path = a
    BY <2>1, <1>6 DEF HaveParents, DirsAt
  <2>3. ~under(p, a)
    BY <2>1, <1>6, Below
  <2>4. a # p
    BY <2>3, UnderItself
  <2>5. j # first
    <3>1. DirsAt(d.dirs, p) = {} => first = None
      BY FindDir
    <3>2. DirsAt(d.dirs, p) # {} => first \in DirsAt(d.dirs, p)
      BY FindDir
    <3>3. QED
      BY <3>1, <3>2, <2>2, <2>4, DirIdAssumption DEF DirsAt
  <2>6. r.dirs[j].live /\ r.dirs[j].path = a
    BY <2>2, <2>3, <2>5, <1>3
  <2>7. QED
    BY <2>6 DEF DirsAt
<1>7. HaveParents(d.files, d.dirs) => HaveParents(r.files, r.dirs)
  BY <1>2, <1>6 DEF HaveParents
<1>8. recursive => NothingBelow(r, p)
  BY <1>2, <1>3 DEF NothingBelow, ChildFiles
<1>9. QED
  BY <1>4, <1>7, <1>8

\* New entries leave every used one alone.
LEMMA UsedAreKept ==
  ASSUME NEW dirs, NEW p, NEW S, NEW e \in WithDirectories(dirs, p, S),
         NEW i \in DirId, dirs[i] # UnusedDir
  PROVE  e[i] = dirs[i]
<1> DEFINE fresh == {j \in DirId : dirs[j] = UnusedDir}
<1>1. PICK f \in [S -> fresh] :
        e = [j \in DirId |-> IF \E n \in S : f[n] = j
                             THEN [path |-> SubSeq(p, 1, CHOOSE n \in S : f[n] = j), live |-> TRUE]
                             ELSE dirs[j]]
  BY DEF WithDirectories
<1>2. ~\E n \in S : f[n] = i
  BY <1>1
<1>3. QED
  BY <1>1, <1>2

\* A rename moves the files below `from` and, with them, every directory on
\* their paths: the first live entry of `from` becomes `to`.
LEMMA RenameKeeps ==
  ASSUME NEW d, d \in Document, FilesOK(d.files), DirsOK(d.dirs),
         NEW from \in Path, NEW to \in Path,
         NEW r \in rename_directory(d, from, to), Bounded(r)
  PROVE  /\ FilesOK(r.files) /\ DirsOK(r.dirs)
         /\ (from = to \/ ~under(from, to)) /\ HaveParents(d.files, d.dirs)
              => HaveParents(r.files, r.dirs)
<1>1. CASE from = to
  BY <1>1 DEF rename_directory
<1>2. CASE from # to
  <2> DEFINE first == find_directory_by_path(d.dirs, from)
             Path1(i) == IF i = first THEN to ELSE d.dirs[i].path
             newdir(i) == IF d.dirs[i].live /\ Path1(i) # from /\ under(from, Path1(i))
                          THEN rebased(from, to, Path1(i)) ELSE Path1(i)
             dirs == [i \in DirId |-> [d.dirs[i] EXCEPT !.path = newdir(i)]]
             newfile(i) == IF d.files[i].live /\ under(from, d.files[i].path)
                           THEN rebased(from, to, d.files[i].path) ELSE d.files[i].path
             files == [i \in FileId |-> [d.files[i] EXCEPT !.path = newfile(i)]]
  <2>1. PICK e \in ensure_ancestor_directories(dirs, to) : r = [files |-> files, dirs |-> e]
    BY <1>2 DEF rename_directory
  <2>2. r.files = files /\ r.dirs = e
    BY <2>1
  <2>n. /\ None \notin Path /\ None \notin DirId
        /\ \A x : x \in Opt(Path) <=> x \in Path \/ x = None
    BY FileTreeAssumption, DirIdAssumption DEF Opt
  <2>3. \A i \in FileId : d.files[i] \in Entry /\ (d.files[i].live => d.files[i].path \in Path)
    BY <2>n DEF FilesOK, Entry
  <2>4. \A i \in DirId : d.dirs[i] \in DirEntry /\ (d.dirs[i].live => d.dirs[i].path \in Path)
    BY <2>n DEF DirsOK, DirEntry
  <2>5. first # None => first \in DirId /\ d.dirs[first].live /\ d.dirs[first].path = from
    BY FindDir DEF DirsAt
  <2>6. ASSUME NEW i \in FileId
        PROVE  /\ files[i].live = d.files[i].live /\ files[i].path = newfile(i)
               /\ files[i] \in Entry /\ (files[i].live => files[i].path # None)
    <3>1. /\ files[i] = [d.files[i] EXCEPT !.path = newfile(i)]
          /\ files[i].live = d.files[i].live /\ files[i].path = newfile(i)
      BY <2>3 DEF Entry
    <3>2. newfile(i) \in Opt(Path) /\ (d.files[i].live => newfile(i) # None)
      <4>1. CASE d.files[i].live /\ under(from, d.files[i].path)
        <5>1. d.files[i].path \in Path
          BY <4>1, <2>3
        <5>2. /\ newfile(i) = rebased(from, to, d.files[i].path)
              /\ newfile(i) \in Seq(Segment)
              /\ Len(newfile(i)) = Len(to) + Len(d.files[i].path) - Len(from)
          BY <4>1, <5>1, Rebased
        <5>3. /\ Len(to) \in Nat /\ Len(to) >= 1 /\ Len(from) \in Nat
              /\ Len(d.files[i].path) \in Nat /\ Len(from) <= Len(d.files[i].path)
          BY <4>1, <5>1, PathIsSeq DEF under
        <5>4. Len(newfile(i)) >= 1
          BY <5>2, <5>3
        <5>5. Len(newfile(i)) <= MaxDepth
          BY <3>1, <4>1, <2>2 DEF Bounded
        <5>6. newfile(i) \in Path
          BY <5>2, <5>4, <5>5, SeqIsPath
        <5>7. QED
          BY <5>6, <2>n
      <4>2. CASE ~(d.files[i].live /\ under(from, d.files[i].path))
        BY <4>2, <2>3, <2>n DEF Entry
      <4>3. QED
        BY <4>1, <4>2
    <3>3. QED
      BY <3>1, <3>2, <2>3 DEF Entry
  <2>7. ASSUME NEW i \in DirId
        PROVE  /\ d.dirs[i].live => Path1(i) \in Path
               /\ ~d.dirs[i].live => Path1(i) = d.dirs[i].path /\ newdir(i) = d.dirs[i].path
               /\ dirs[i].live = d.dirs[i].live /\ dirs[i].path = newdir(i)
               /\ dirs[i] = [d.dirs[i] EXCEPT !.path = newdir(i)]
    <3>1. i = first => d.dirs[i].live
      BY <2>5, <2>n
    <3>2. QED
      BY <3>1, <2>4 DEF DirEntry
  <2>8. ASSUME NEW i \in DirId, d.dirs[i].live PROVE Len(newdir(i)) <= MaxDepth
    <3>1. dirs[i].live /\ dirs[i] # UnusedDir /\ i \in DirId
      BY <2>7, <2>8 DEF UnusedDir
    <3>2. e[i] = dirs[i]
      BY <3>1, UsedAreKept DEF ensure_ancestor_directories
    <3>3. QED
      BY <3>1, <3>2, <2>2, <2>7 DEF Bounded
  <2>9. ASSUME NEW i \in DirId, d.dirs[i].live PROVE newdir(i) \in Path
    <3>1. CASE Path1(i) # from /\ under(from, Path1(i))
      <4>1. Path1(i) \in Path
        BY <2>7, <2>9
      <4>2. /\ newdir(i) = rebased(from, to, Path1(i))
            /\ newdir(i) \in Seq(Segment)
            /\ Len(newdir(i)) = Len(to) + Len(Path1(i)) - Len(from)
        BY <3>1, <4>1, <2>9, Rebased
      <4>3. /\ Len(to) \in Nat /\ Len(to) >= 1 /\ Len(from) \in Nat
            /\ Len(Path1(i)) \in Nat /\ Len(from) <= Len(Path1(i))
        BY <3>1, <4>1, PathIsSeq DEF under
      <4>4. Len(newdir(i)) >= 1
        BY <4>2, <4>3
      <4>5. QED
        BY <4>2, <4>4, <2>8, <2>9, SeqIsPath
    <3>2. CASE ~(Path1(i) # from /\ under(from, Path1(i)))
      BY <3>2, <2>7, <2>9
    <3>3. QED
      BY <3>1, <3>2
  <2>10. DirsOK(dirs)
    <3>1. ASSUME NEW i \in DirId
          PROVE  dirs[i] \in DirEntry /\ (dirs[i].live => dirs[i].path # None)
      BY <2>4, <2>7, <2>9, <2>n DEF DirEntry
    <3>2. dirs = [i \in DirId |-> dirs[i]]
      OBVIOUS
    <3>3. QED
      BY <3>1, <3>2 DEF DirsOK
  <2>11. /\ DirsOK(e)
         /\ \A a \in ancestors(to) : DirsAt(e, a) # {}
         /\ \A q : DirsAt(dirs, q) # {} => DirsAt(e, q) # {}
    BY <2>10, Ancestors
  <2>12. FilesOK(files)
    <3>1. files = [i \in FileId |-> files[i]]
      OBVIOUS
    <3>2. QED
      BY <3>1, <2>6 DEF FilesOK
  <2>13. ASSUME ~under(from, to), HaveParents(d.files, d.dirs),
                NEW i \in FileId, d.files[i].live, NEW a \in ancestors(newfile(i))
         PROVE  DirsAt(e, a) # {}
    <3> DEFINE p == d.files[i].path
    <3>p. p \in Path
      BY <2>3, <2>13
    <3>1. CASE ~under(from, p)
      <4>1. a \in ancestors(p)
        BY <3>1, <2>13
      <4>2. PICK j \in DirId : d.dirs[j].live /\ d.dirs[j].path = a
        BY <4>1, <2>13 DEF HaveParents, DirsAt
      <4>3. ~under(from, a)
        BY <4>1, <3>1, <3>p, Below
      <4>4. j # first
        <5>1. a # from
          BY <4>3, UnderItself
        <5>2. QED
          BY <4>2, <5>1, <2>5, <2>n
      <4>5. newdir(j) = a
        BY <4>2, <4>3, <4>4
      <4>6. j \in DirsAt(dirs, a)
        BY <4>2, <4>5, <2>7 DEF DirsAt
      <4>7. QED
        BY <4>6, <2>11
    <3>2. CASE under(from, p)
      <4>0. newfile(i) = rebased(from, to, p) /\ newfile(i) \in Path
        BY <3>2, <2>6, <2>13, <2>n DEF Entry
      <4>1. \/ a \in ancestors(to)
            \/ a = to /\ p # from
            \/ \E b \in ancestors(p) : under(from, b) /\ b # from /\ a = rebased(from, to, b)
        BY <4>0, <3>2, <3>p, <2>13, RebasedAncestors
      <4>2. CASE a \in ancestors(to)
        BY <4>2, <2>11
      <4>3. CASE a = to /\ p # from
        <5>1. from \in ancestors(p)
          BY <3>2, <3>p, <4>3, StrictlyBelow
        <5>2. DirsAt(d.dirs, from) # {}
          BY <5>1, <2>13 DEF HaveParents
        <5>3. first \in DirId /\ d.dirs[first].live
          BY <5>2, FindDir DEF DirsAt
        <5>4. newdir(first) = to
          BY <2>13
        <5>5. first \in DirsAt(dirs, to)
          BY <5>3, <5>4, <2>7 DEF DirsAt
        <5>6. QED
          BY <5>5, <4>3, <2>11
      <4>4. CASE \E b \in ancestors(p) : under(from, b) /\ b # from /\ a = rebased(from, to, b)
        <5>1. PICK b \in ancestors(p) : under(from, b) /\ b # from /\ a = rebased(from, to, b)
          BY <4>4
        <5>2. PICK j \in DirId : d.dirs[j].live /\ d.dirs[j].path = b
          BY <2>13 DEF HaveParents, DirsAt
        <5>3. j # first
          BY <5>1, <5>2, <2>5, <2>n
        <5>4. newdir(j) = a
          BY <5>1, <5>2, <5>3
        <5>5. j \in DirsAt(dirs, a)
          BY <5>2, <5>4, <2>7 DEF DirsAt
        <5>6. QED
          BY <5>5, <2>11
      <4>5. QED
        BY <4>1, <4>2, <4>3, <4>4
    <3>3. QED
      BY <3>1, <3>2
  <2>14. ~under(from, to) /\ HaveParents(d.files, d.dirs) => HaveParents(files, e)
    BY <2>6, <2>13 DEF HaveParents
  <2>15. QED
    BY <2>2, <2>11, <2>12, <2>14, <1>2
<1>3. QED
  BY <1>1, <1>2

-----------------------------------------------------------------------------
(* The specification *)

IInv == TypeOK /\ FilesHaveParents

LEMMA InvParts ==
  /\ TypeOK <=> /\ doc \in [files : [FileId -> Entry], dirs : [DirId -> DirEntry]]
                /\ nested \in BOOLEAN /\ FilesOK(doc.files) /\ DirsOK(doc.dirs)
  /\ FilesHaveParents <=> (~nested => HaveParents(doc.files, doc.dirs))
BY DEF TypeOK, FilesHaveParents, HaveParents, FilesOK, DirsOK, Document

\* Every operation makes a record of two maps.
LEMMA Records ==
  ASSUME NEW d \in Document, NEW p, NEW q, NEW s, NEW recursive, NEW r,
         \/ r \in write_text(d, p, s) \/ r \in write_binary(d, p, s)
         \/ r \in remove_file(d, p) \/ r \in rename_file(d, p, q)
         \/ r \in create_directory(d, p) \/ r \in delete_directory(d, p, recursive)
         \/ r \in rename_directory(d, p, q),
         r.files \in [FileId -> Entry], r.dirs \in [DirId -> DirEntry]
  PROVE  r \in Document
<1>1. r = [files |-> r.files, dirs |-> r.dirs]
  <2>1. CASE r \in write_text(d, p, s) \/ r \in write_binary(d, p, s)
    BY <2>1 DEF write_text, write_binary, Written
  <2>2. CASE r \in remove_file(d, p)
    BY <2>2 DEF remove_file, Document
  <2>3. CASE r \in rename_file(d, p, q)
    BY <2>3 DEF rename_file, Document
  <2>4. CASE r \in create_directory(d, p)
    BY <2>4 DEF create_directory, Document
  <2>5. CASE r \in delete_directory(d, p, recursive)
    BY <2>5 DEF delete_directory
  <2>6. CASE r \in rename_directory(d, p, q)
    <3>1. CASE p = q
      BY <2>6, <3>1 DEF rename_directory, Document
    <3>2. CASE p # q
      <4>1. \E f, e : r = [files |-> f, dirs |-> e]
        BY <2>6, <3>2, Zenon DEF rename_directory
      <4>2. QED
        BY <4>1
    <3>3. QED
      BY <3>1, <3>2
  <2>7. QED
    BY <2>1, <2>2, <2>3, <2>4, <2>5, <2>6
<1>2. QED
  BY <1>1 DEF Document

LEMMA StepKeeps ==
  ASSUME IInv, [Next]_vars
  PROVE  IInv'
<1> USE InvParts, PathsArePaths DEF IInv
<1>0. doc \in Document /\ FilesOK(doc.files) /\ DirsOK(doc.dirs) /\ nested \in BOOLEAN
  BY DEF Document
<1> DEFINE Kept ==
      /\ FilesOK(doc'.files) /\ DirsOK(doc'.dirs)
      /\ HaveParents(doc.files, doc.dirs) => HaveParents(doc'.files, doc'.dirs)
<1>K. ASSUME Kept, doc' \in Document, nested' = nested
      PROVE  IInv'
  BY <1>0, <1>K DEF TypeOK, FilesHaveParents, HaveParents, FilesOK, DirsOK, Document
<1>1. CASE UNCHANGED vars
  BY <1>1 DEF vars, TypeOK, FilesHaveParents
<1>2. ASSUME NEW p \in Paths, NEW s \in Text, WriteTextFile(p, s) PROVE IInv'
  <2>1. doc' \in write_text(doc, p, s) /\ nested' = nested
    BY <1>2 DEF WriteTextFile, Leaves
  <2>2. Kept
    BY <2>1, <1>0, WriteKeeps, WriteTextResults DEF write_text
  <2>3. doc' \in Document
    BY <2>1, <2>2, <1>0, Records DEF FilesOK, DirsOK
  <2>4. QED
    BY <2>1, <2>2, <2>3, <1>K
<1>3. ASSUME NEW p \in Paths, NEW h \in Bin, WriteAttachment(p, h) PROVE IInv'
  <2>1. doc' \in write_binary(doc, p, h) /\ nested' = nested
    BY <1>3 DEF WriteAttachment, Leaves
  <2>2. Kept
    BY <2>1, <1>0, WriteKeeps, WriteBinaryResults DEF write_binary
  <2>3. doc' \in Document
    BY <2>1, <2>2, <1>0, Records DEF FilesOK, DirsOK
  <2>4. QED
    BY <2>1, <2>2, <2>3, <1>K
<1>4. ASSUME NEW p \in Paths, DeleteFile(p) PROVE IInv'
  <2>1. doc' \in remove_file(doc, p) /\ nested' = nested
    BY <1>4 DEF DeleteFile, Leaves
  <2>2. Kept
    BY <2>1, <1>0, RemoveKeeps
  <2>3. doc' \in Document
    BY <2>1, <2>2, <1>0, Records DEF FilesOK, DirsOK
  <2>4. QED
    BY <2>1, <2>2, <2>3, <1>K
<1>5. ASSUME NEW p \in Paths, NEW q \in Paths, RenameFile(p, q) PROVE IInv'
  <2>1. doc' \in rename_file(doc, p, q) /\ nested' = nested
    BY <1>5 DEF RenameFile, Leaves
  <2>2. Kept
    BY <2>1, <1>0, RenameFileKeeps
  <2>3. doc' \in Document
    BY <2>1, <2>2, <1>0, Records DEF FilesOK, DirsOK
  <2>4. QED
    BY <2>1, <2>2, <2>3, <1>K
<1>6. ASSUME NEW p \in Paths, CreateDirectory(p) PROVE IInv'
  <2>1. doc' \in create_directory(doc, p) /\ nested' = nested
    BY <1>6 DEF CreateDirectory, Leaves
  <2>2. Kept
    BY <2>1, <1>0, CreateKeeps
  <2>3. doc' \in Document
    BY <2>1, <2>2, <1>0, Records DEF FilesOK, DirsOK
  <2>4. QED
    BY <2>1, <2>2, <2>3, <1>K
<1>7. ASSUME NEW p \in Paths, NEW recursive \in BOOLEAN, DeleteDirectory(p, recursive)
      PROVE  IInv'
  <2>1. doc' \in delete_directory(doc, p, recursive) /\ nested' = nested
    BY <1>7 DEF DeleteDirectory, Leaves
  <2>2. Kept
    BY <2>1, <1>0, DeleteKeeps
  <2>3. doc' \in Document
    BY <2>1, <2>2, <1>0, Records DEF FilesOK, DirsOK
  <2>4. QED
    BY <2>1, <2>2, <2>3, <1>K
<1>8. ASSUME NEW p \in Paths, NEW q \in Paths, RenameDirectory(p, q) PROVE IInv'
  <2>1. /\ doc' \in rename_directory(doc, p, q) /\ Bounded(doc')
        /\ nested' = (nested \/ (p # q /\ under(p, q)))
    BY <1>8 DEF RenameDirectory, Leaves, Bounded
  <2>2. /\ FilesOK(doc'.files) /\ DirsOK(doc'.dirs)
        /\ (p = q \/ ~under(p, q)) /\ HaveParents(doc.files, doc.dirs)
             => HaveParents(doc'.files, doc'.dirs)
    BY <2>1, <1>0, RenameKeeps
  <2>3. doc' \in Document
    BY <2>1, <2>2, <1>0, Records DEF FilesOK, DirsOK
  <2>4. ~nested' => HaveParents(doc'.files, doc'.dirs)
    BY <2>1, <2>2
  <2>5. nested' \in BOOLEAN
    BY <2>1
  <2>6. QED
    BY <2>2, <2>3, <2>4, <2>5
       DEF TypeOK, FilesHaveParents, HaveParents, FilesOK, DirsOK, Document
<1>9. QED
  BY <1>1, <1>2, <1>3, <1>4, <1>5, <1>6, <1>7, <1>8 DEF Next

\* In every document that the calls of a Vault can make, every ancestor of a
\* live file is a live directory, unless a directory was renamed below itself.
THEOREM ParentsExist == Spec => [](TypeOK /\ FilesHaveParents)
<1>1. Init => IInv
  <2>1. SUFFICES ASSUME Init PROVE IInv
    OBVIOUS
  <2>2. Unused \in Entry /\ ~Unused.live /\ UnusedDir \in DirEntry /\ ~UnusedDir.live
    BY DEF Entry, DirEntry, Unused, UnusedDir, Opt
  <2>3. /\ doc = [files |-> [i \in FileId |-> Unused], dirs |-> [i \in DirId |-> UnusedDir]]
        /\ nested = FALSE
    BY <2>1 DEF Init
  <2>4. /\ doc \in Document
        /\ \A i \in FileId : ~doc.files[i].live
        /\ \A i \in DirId : ~doc.dirs[i].live
    BY <2>2, <2>3 DEF Document
  <2>5. QED
    BY <2>3, <2>4 DEF IInv, TypeOK, FilesHaveParents
<1>2. IInv /\ [Next]_vars => IInv'
  BY StepKeeps
<1>3. QED
  BY <1>1, <1>2, PTL DEF Spec, IInv

\* The types of the entries; what is live has a path.
THEOREM TypeInvariance == Spec => []TypeOK
BY ParentsExist, PTL

\* A recursive delete leaves nothing live below the directory (delete_directory).
THEOREM RecursiveDeleteIsComplete == Spec => DeleteIsComplete
<1>1. ASSUME IInv, [Next]_vars, ~UNCHANGED vars
      PROVE  \A p \in Paths : DeleteDirectory(p, TRUE) => NothingBelow(doc', p)
  <2>1. doc \in Document /\ FilesOK(doc.files) /\ DirsOK(doc.dirs)
    BY <1>1, InvParts DEF Document, IInv
  <2>2. ASSUME NEW p \in Paths, DeleteDirectory(p, TRUE) PROVE NothingBelow(doc', p)
    <3>1. doc' \in delete_directory(doc, p, TRUE)
      BY <2>2 DEF DeleteDirectory, Leaves
    <3>2. QED
      BY <3>1, <2>1, DeleteKeeps, PathsArePaths
  <2>3. QED
    BY <2>2
<1>2. IInv /\ [Next]_vars => [\A p \in Paths : DeleteDirectory(p, TRUE) => NothingBelow(doc', p)]_vars
  BY <1>1
<1>3. Spec => []IInv
  BY ParentsExist DEF IInv
<1>4. QED
  BY <1>2, <1>3, PTL DEF Spec, DeleteIsComplete
=============================================================================
