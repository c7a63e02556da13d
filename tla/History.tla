------------------------------ MODULE History ------------------------------
(***************************************************************************)
(* The history of the document: labels, restore_to_heads, restore_to_time  *)
(* (doc/history.rs), and the file operations that write it (doc/files.rs), *)
(* made on several devices whose clocks disagree and merged in any order.  *)
(*                                                                         *)
(* A document is a causally closed set of changes; what it shows is        *)
(* computed from them as automerge (external) does: a put or a delete of a *)
(* map key hides the puts its author had, of concurrent puts the greatest  *)
(* is read, and a text shows every run nobody who had it has cut.  The     *)
(* genesis change of Doc::new, which every document has, is left out.      *)
(* Paths have one segment: what a directory does to the files below it is  *)
(* Tree's.  Delivery is Sync's.                                            *)
(***************************************************************************)
EXTENDS Integers, Sequences, FiniteSets

CONSTANTS
  Node,       \* devices
  File,       \* file ids, ordered as the keys of the `files` map are
  Dir,        \* directory ids, ordered likewise
  Path,       \* paths
  NewPath,    \* bound: the paths files are created at
  Text,       \* pieces of text; a content is a sequence of them
  Hash,       \* hashes of attachments
  Label,      \* label names
  Skew,       \* [Node -> by how much its clock is ahead]
  MaxEdit,    \* bound: changes made before the last restores
  MaxChange,  \* bound: changes made
  None        \* absent

ASSUME HistoryAssumption ==
  /\ File \subseteq Nat /\ IsFiniteSet(File)
  /\ Dir \subseteq Nat /\ IsFiniteSet(Dir)
  /\ File \cap Dir = {} /\ Label \cap (File \cup Dir) = {}
  /\ NewPath \subseteq Path
  /\ Skew \in [Node -> Nat]
  /\ MaxEdit \in Nat /\ MaxChange \in Nat

\* Absence is none of the values that a field can have.
ASSUME NoneAssumption ==
  /\ None \notin Path /\ None \notin Nat /\ None # TRUE
  /\ None \notin File /\ None \notin Dir
  /\ None # "text" /\ None # "attachment"

Change == 1..MaxChange
Content == {<<>>} \cup {<<s>> : s \in Text}

Field == {"path", "kind", "hash", "content", "deleted_at", "heads"}
Key == (File \cup Dir \cup Label) \X Field

VARIABLES
  change,     \* the sequence of all changes, in the order they were made
  doc         \* [Node -> the changes of its document]

vars == <<change, doc>>

TypeOK ==
  /\ Len(change) \in 0..MaxChange /\ change = [c \in 1..Len(change) |-> change[c]]
  /\ \A c \in DOMAIN change :
       /\ change[c].past \subseteq 1..(c - 1)
       /\ change[c].time \in Nat
       /\ DOMAIN change[c].put \subseteq Key
       /\ change[c].unset \subseteq Key
       /\ DOMAIN change[c].splice \subseteq File \X (1..c)
  /\ doc \in [Node -> SUBSET (1..Len(change))]

Init ==
  /\ change = <<>>
  /\ doc = [n \in Node |-> {}]

-----------------------------------------------------------------------------
(* automerge (external): what a set of changes shows.                      *)

MaxOf(S) == CHOOSE x \in S : \A y \in S : y <= x
MinOf(S) == CHOOSE x \in S : \A y \in S : x <= y

Hides(d, k) == k \in DOMAIN change[d].put \cup change[d].unset

Visible(S, k) ==
  {c \in S : /\ k \in DOMAIN change[c].put
             /\ \A d \in S : c \in change[d].past => ~Hides(d, k)}

get(S, k) ==
  LET v == Visible(S, k) IN IF v = {} THEN None ELSE change[MaxOf(v)].put[k]

\* The visible runs of the text object o, which is named by its file and the
\* change that made it.
Runs(S, o) ==
  {c \in S : /\ o \in DOMAIN change[c].splice
             /\ \A d \in S : c \in change[d].past => o \notin DOMAIN change[d].splice}

\* The pieces in the order of the changes that inserted them, the latest first.
Joined(runs, piece) ==
  LET upto[c \in 0..MaxChange] ==
        IF c = 0 THEN <<>>
        ELSE IF c \in runs THEN piece[c] \o upto[c - 1]
        ELSE upto[c - 1]
  IN  upto[MaxChange]

text(S, o) == Joined(Runs(S, o), [c \in Runs(S, o) |-> change[c].splice[o]])

get_heads(S) == {c \in S : \A d \in S : c \notin change[d].past}

\* The direct dependencies of a change are the heads its author had.
deps(c) == get_heads(change[c].past)

fork_at(H) == H \cup UNION {change[c].past : c \in H}

-----------------------------------------------------------------------------
(* Doc: reads.                                                             *)

live(S, f) == get(S, <<f, "path">>) # None /\ get(S, <<f, "deleted_at">>) = None

list_files(S) == {f \in File : live(S, f)}

list_directories(S) == {d \in Dir : live(S, d)}

Listed(S) == list_files(S) \cup list_directories(S)

LiveAt(S, p) == {f \in list_files(S) : get(S, <<f, "path">>) = p}

\* The first match in key order.
find_file_by_path(S, p) ==
  LET hits == LiveAt(S, p) IN IF hits = {} THEN None ELSE MinOf(hits)

find_directory_by_path(S, p) ==
  LET hits == {d \in list_directories(S) : get(S, <<d, "path">>) = p}
  IN  IF hits = {} THEN None ELSE MinOf(hits)

read_file_id(S, f) ==
  LET c == get(S, <<f, "content">>) IN IF c = None THEN <<>> ELSE text(S, <<f, c>>)

\* What a user sees: the live files with their paths and contents, and the
\* live directories.
Shown(S) ==
  [f \in Listed(S) |->
     [path |-> get(S, <<f, "path">>), kind |-> get(S, <<f, "kind">>),
      body |-> IF get(S, <<f, "kind">>) = "text" THEN read_file_id(S, f)
               ELSE get(S, <<f, "hash">>)]]

list_labels(S) == {l \in Label : get(S, <<l, "heads">>) # None}
get_label_heads(S, l) == get(S, <<l, "heads">>)

-----------------------------------------------------------------------------
(* Doc: writes.  Changes are numbered in the order they are made, and      *)
(* commit_now stamps each with the wall clock of its device.               *)

NextChange == Len(change) + 1

commit_now(n, put, unset, splice) ==
  /\ NextChange \in Change
  /\ change' = Append(change, [past |-> doc[n], time |-> NextChange + Skew[n],
                               put |-> put, unset |-> unset, splice |-> splice])
  /\ doc' = [doc EXCEPT ![n] = @ \cup {NextChange}]

Nothing == <<>>

\* A map with one key, and the union of two maps.
One(k, v) == [x \in {k} |-> v]
And(f, g) == [x \in DOMAIN f \cup DOMAIN g |-> IF x \in DOMAIN g THEN g[x] ELSE f[x]]

\* A fresh UUID: no change of any device mentions it.
Fresh == {f \in File \cup Dir : \A c \in DOMAIN change : <<f, "path">> \notin DOMAIN change[c].put}

\* Mutants of Retexted: an entry without text is not told apart; and a text
\* is replaced by a new one.
RetextedUnchecked(S, f, s) ==
  LET c == get(S, <<f, "content">>) IN
  [put |-> Nothing, splice |-> One(<<f, c>>, s)]

RetextedAnew(S, f, s) ==
  [put |-> One(<<f, "content">>, NextChange), splice |-> One(<<f, NextChange>>, s)]

\* The body of a text entry replaced: what the change puts and splices.
\* Equal text is left alone.
Retexted(S, f, s) ==
  LET c == get(S, <<f, "content">>) IN
  IF c = None THEN [put |-> One(<<f, "content">>, NextChange), splice |-> One(<<f, NextChange>>, s)]
  ELSE IF text(S, <<f, c>>) # s THEN [put |-> Nothing, splice |-> One(<<f, c>>, s)]
  ELSE [put |-> Nothing, splice |-> Nothing]

WriteTextFile(n, p, s) ==
  LET f == find_file_by_path(doc[n], p) IN
  IF f # None
  THEN LET r == Retexted(doc[n], f, s) IN
       commit_now(n, And(r.put, One(<<f, "kind">>, "text")), {<<f, "deleted_at">>}, r.splice)
  ELSE \E g \in Fresh \cap File :
         LET r == Retexted(doc[n], g, s) IN
         commit_now(n, And(r.put, And(One(<<g, "kind">>, "text"), One(<<g, "path">>, p))),
                    {}, r.splice)

WriteAttachment(n, p, h) ==
  LET f == find_file_by_path(doc[n], p) IN
  IF f # None
  THEN commit_now(n, And(One(<<f, "kind">>, "attachment"), One(<<f, "hash">>, h)),
                  {<<f, "deleted_at">>}, Nothing)
  ELSE \E g \in Fresh \cap File :
         commit_now(n, And(One(<<g, "path">>, p),
                           And(One(<<g, "kind">>, "attachment"), One(<<g, "hash">>, h))),
                    {}, Nothing)

DeleteFile(n, p) ==
  LET f == find_file_by_path(doc[n], p) IN
  /\ f # None
  /\ commit_now(n, One(<<f, "deleted_at">>, TRUE), {}, Nothing)

RenameFile(n, from, to) ==
  LET f == find_file_by_path(doc[n], from) IN
  /\ f # None /\ find_file_by_path(doc[n], to) = None
  /\ commit_now(n, One(<<f, "path">>, to), {}, Nothing)

CreateDirectory(n, p) ==
  /\ find_directory_by_path(doc[n], p) = None
  /\ \E d \in Fresh \cap Dir : commit_now(n, One(<<d, "path">>, p), {}, Nothing)

DeleteDirectory(n, p) ==
  LET d == find_directory_by_path(doc[n], p) IN
  /\ d # None
  /\ commit_now(n, One(<<d, "deleted_at">>, TRUE), {}, Nothing)

\* Mutant of Merge: only the newest changes of the peer are joined.
MergeHeads(n, m) ==
  /\ doc[m] \ doc[n] # {}
  /\ doc' = [doc EXCEPT ![n] = @ \cup get_heads(doc[m])]
  /\ UNCHANGED change

\* The changes of a peer's document are joined (merge, receive_sync_message).
Merge(n, m) ==
  /\ doc[m] \ doc[n] # {}
  /\ doc' = [doc EXCEPT ![n] = @ \cup doc[m]]
  /\ UNCHANGED change

-----------------------------------------------------------------------------
(* Labels and restore.                                                     *)

CreateLabel(n, l) ==
  commit_now(n, One(<<l, "heads">>, get_heads(doc[n])), {}, Nothing)

DeleteLabel(n, l) ==
  /\ l \in list_labels(doc[n])
  /\ commit_now(n, Nothing, {<<l, "heads">>}, Nothing)

\* The fields restore_to_heads puts back: those of what was live in the past.
RestoredFields(P) ==
  {x \in list_files(P) \X {"path", "kind", "hash"} :
     x[2] = "hash" => get(P, <<x[1], "kind">>) = "attachment"}
  \cup (list_directories(P) \X {"path"})

\* Mutant of Restored: what is live only now stays.
RestoredOnly(S, P) == [x \in RestoredFields(P) |-> get(P, x)]

\* All it puts: deleted_at too, where a file or a directory is live only now.
Restored(S, P) ==
  LET gone == Listed(S) \ Listed(P)
  IN  [x \in RestoredFields(P) \cup (gone \X {"deleted_at"}) |->
         IF x[2] = "deleted_at" THEN TRUE ELSE get(P, x)]

restore_to_heads(n, H) ==
  LET S == doc[n]
      P == fork_at(H)
      texts == {f \in list_files(P) : get(P, <<f, "kind">>) = "text"}
      t == [f \in texts |-> Retexted(S, f, read_file_id(P, f))]
      made == [x \in UNION {DOMAIN t[f].put : f \in texts} |-> NextChange]
      runs == [o \in UNION {DOMAIN t[f].splice : f \in texts} |-> t[o[1]].splice[o]]
  IN  commit_now(n, And(Restored(S, P), made), Listed(P) \X {"deleted_at"}, runs)

RestoreLabel(n, l) ==
  /\ l \in list_labels(doc[n])
  /\ restore_to_heads(n, get_label_heads(doc[n], l))

\* Mutant of heads_at_time: what a later change depends on is left out too.
HeadsOfAll(S, t) ==
  {c \in S : change[c].time <= t} \ UNION {deps(c) : c \in S}

\* The changes stamped no later than t, less those another of them depends
\* on.  A change between two of them may be stamped later.
heads_at_time(S, t) ==
  LET included == {c \in S : change[c].time <= t}
  IN  included \ UNION {deps(c) : c \in included}

\* Targets from the genesis to the last stamp.
Time == {0} \cup {change[c].time : c \in DOMAIN change}

RestoreToTime(n, t) == restore_to_heads(n, heads_at_time(doc[n], t))

-----------------------------------------------------------------------------
Edit(n) ==
  /\ Len(change) < MaxEdit
  /\ \/ \E p \in NewPath, s \in Content : WriteTextFile(n, p, s)
     \/ \E p \in NewPath, h \in Hash : WriteAttachment(n, p, h)
     \/ \E p \in Path : DeleteFile(n, p)
     \/ \E p \in Path, q \in Path : p # q /\ RenameFile(n, p, q)
     \/ \E p \in NewPath : CreateDirectory(n, p) \/ DeleteDirectory(n, p)
     \/ \E l \in Label : CreateLabel(n, l) \/ DeleteLabel(n, l)

Restore(n) ==
  \/ \E l \in Label : RestoreLabel(n, l)
  \/ \E t \in Time : RestoreToTime(n, t)

Next ==
  \/ \E n \in Node : Edit(n) \/ Restore(n)
  \/ \E n, m \in Node : Merge(n, m)

Spec == Init /\ [][Next]_vars

-----------------------------------------------------------------------------
\* Every label a device sees can be restored there: the changes it names
\* are in the device's document, whoever made the label and however the
\* merges were ordered (create_label, get_label_heads).
LabelsResolve ==
  \A n \in Node : \A l \in list_labels(doc[n]) :
     get_label_heads(doc[n], l) \subseteq doc[n]

\* Restoring a label shows exactly what its author saw when creating it,
\* files and directories that were since deleted, renamed, rewritten or
\* turned from text to attachment included, although the text is spliced and nothing is undone.
LabelMade(S, l) == MaxOf(Visible(S, <<l, "heads">>))

RestoreReturns ==
  [][\A n \in Node, l \in Label :
       change' # change /\ doc'[n] # doc[n] /\ RestoreLabel(n, l) =>
         Shown(doc[n])' = Shown(change[LabelMade(doc[n], l)].past)]_vars

\* The pieces of text that c wrote into f.
PiecesOf(s) == {s[i] : i \in DOMAIN s}

Spliced(f, c) == {o \in DOMAIN change[c].splice : o[1] = f}

Wrote(f, c) == UNION {PiecesOf(change[c].splice[o]) : o \in Spliced(f, c)}

MadeAsText(c, f) == {<<f, "path">>, <<f, "content">>} \subseteq DOMAIN change[c].put
CreatedAsText(S, f) == \E c \in S : MadeAsText(c, f)

\* A restore or a write of one device never takes the text away that another
\* wrote at the same time into a file that is still a text: both show after
\* the merge.  ("preserving any concurrent changes from other peers",
\* doc/history.rs.)  Two devices that turn an attachment into a text make
\* two texts, of which one shows.
ConcurrentTextKept ==
  \A n \in Node : \A f \in list_files(doc[n]) :
    LET Writers == {c \in doc[n] : Spliced(f, c) # {}}
    IN  CreatedAsText(doc[n], f) =>
          \A c \in Writers :
            \/ \E d \in Writers : c \in change[d].past
            \/ Wrote(f, c) \subseteq PiecesOf(read_file_id(doc[n], f))

\* heads_at_time stands for the changes stamped no later than t and what
\* they depend on: with skewed clocks none of them is lost.
AtTimeIsComplete ==
  \A n \in Node, t \in Time :
    fork_at(heads_at_time(doc[n], t)) =
      fork_at({c \in doc[n] : change[c].time <= t})

-----------------------------------------------------------------------------
(* The inductive invariant behind them.                                    *)

Puts(c, f, k) == <<f, k>> \in DOMAIN change[c].put
Value(c, f, k) == change[c].put[<<f, k>>]
UpTo(c) == change[c].past \cup {c}

\* No document, and no author of a change, has a change without its past.
PastsAreClosed ==
  /\ \A c \in DOMAIN change : \A d \in change[c].past : change[d].past \subseteq change[c].past
  /\ \A n \in Node : \A c \in doc[n] : change[c].past \subseteq doc[n]

\* What the fields hold, and that only tombstones and labels are taken away.
ValuesAreTyped ==
  \A c \in DOMAIN change :
    /\ \A l \in Label : Puts(c, l, "heads") => Value(c, l, "heads") = get_heads(change[c].past)
    /\ \A f \in File \cup Dir :
         /\ Puts(c, f, "path") => Value(c, f, "path") \in Path
         /\ Puts(c, f, "kind") => f \in File /\ Value(c, f, "kind") \in {"text", "attachment"}
         /\ Puts(c, f, "hash") => f \in File
         /\ Puts(c, f, "content") => f \in File /\ Value(c, f, "content") = c
         /\ Puts(c, f, "deleted_at") => Value(c, f, "deleted_at") = TRUE
    /\ \A x \in change[c].unset : x[2] \in {"deleted_at", "heads"}
    /\ \A o \in DOMAIN change[c].splice : change[c].splice[o] \in Seq(Text)

\* An entry has a kind, a text has a body, and a body has an entry.
EntriesAreWhole ==
  \A c \in DOMAIN change, f \in File :
    /\ Puts(c, f, "path") => \E d \in UpTo(c) : Puts(d, f, "kind")
    /\ Puts(c, f, "kind") /\ Value(c, f, "kind") = "text" => \E d \in UpTo(c) : Puts(d, f, "content")
    /\ Puts(c, f, "content") \/ Spliced(f, c) # {} => \E d \in UpTo(c) : Puts(d, f, "path")

\* A file that was created as a text has one body, made with it.
TextsHaveOneBody ==
  \A c \in DOMAIN change, f \in File : MadeAsText(c, f) =>
    \A d \in DOMAIN change :
      /\ Puts(d, f, "path") => c \in UpTo(d)
      /\ Puts(d, f, "content") => d = c
      /\ Spliced(f, d) \subseteq {<<f, c>>}

\* No edit, merge or restore on any device leads out of it.
IInv ==
  TypeOK /\ PastsAreClosed /\ ValuesAreTyped /\ EntriesAreWhole /\ TextsHaveOneBody
=============================================================================
