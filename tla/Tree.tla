-------------------------------- MODULE Tree --------------------------------
(***************************************************************************)
(* Files and directories of one document (crates/agentsync-core/src/doc    *)
(* and src/path.rs).  A directory is an entry of its own, keyed by a UUID, *)
(* and a path is a field of every entry: nothing in the data structure     *)
(* keeps the paths of files and the paths of directories in step, only the *)
(* operations do.                                                          *)
(*                                                                         *)
(* A path is the sequence of its segments.  What a caller passes is a raw  *)
(* path, the segments between slashes (or backslashes) of any string, and  *)
(* every operation begins with normalize.  An operation is an operator     *)
(* from a document to the set of documents it may leave (fresh UUIDs are   *)
(* drawn); an error leaves the document alone and is the empty set.  The   *)
(* actions are the calls of the Vault, which take the document lock for    *)
(* the whole operation.                                                    *)
(***************************************************************************)
EXTENDS FileTree, Sequences

CONSTANTS
  DirId,     \* UUIDs of directories, ordered as the keys of `directories`
  Raw,       \* the raw paths callers pass: sequences of raw segments
  Nfc,       \* unicode normalization: a function on the raw segments
  Nul,       \* a segment with a NUL byte
  Segment,   \* the segments of normal paths
  MaxDepth   \* bound: no call makes a path of more segments

VARIABLES
  doc,       \* the document: its files and its directories
  nested     \* history: a directory was renamed to a path below itself

ASSUME DirIdAssumption ==
  /\ DirId \subseteq Nat
  /\ None \notin DirId
  /\ \A S \in SUBSET DirId : S # {} => \E i \in S : \A j \in S : i <= j

ASSUME PathAssumption ==
  /\ MaxDepth \in Nat
  /\ Path = UNION {[1..n -> Segment] : n \in 1..MaxDepth}

\* A raw path has at least one segment, maybe an empty one.  Segments of normal
\* paths are normal, and whatever is not one of them is dropped or refused.
ASSUME RawAssumption ==
  /\ Raw \subseteq Seq(DOMAIN Nfc) \ {<<>>}
  /\ \A s \in DOMAIN Nfc : Nfc[s] \in Segment \cup {"", ".", "..", Nul}
  /\ \A s \in Segment : s \in DOMAIN Nfc /\ Nfc[s] = s
  /\ Segment \cap {"", ".", "..", Nul} = {}

-----------------------------------------------------------------------------
(* Paths *)

\* The loop of normalize skips these segments and pushes the others, in order.
Skipped == {"", "."}

Pushed(segments) ==
  LET parts[n \in 0..Len(segments)] ==
        IF n = 0 THEN <<>>
        ELSE IF segments[n] \in Skipped THEN parts[n - 1]
        ELSE Append(parts[n - 1], segments[n])
  IN  parts[Len(segments)]

\* Mutant: no unicode normalization.
normalizeRaw(raw) ==
  LET parts == Pushed(raw)
  IN  IF raw[1] = "" \/ (\E n \in DOMAIN raw : raw[n] \in {"..", Nul}) \/ parts = <<>>
      THEN None ELSE parts

\* None stands for Error::InvalidPath.  An absolute path begins with an empty
\* segment; empty and "." segments are dropped, ".." and NUL are refused.
normalize(raw) ==
  LET nfc   == [n \in DOMAIN raw |-> Nfc[raw[n]]]
      parts == Pushed(nfc)
  IN  IF \/ nfc[1] = ""
         \/ \E n \in DOMAIN nfc : nfc[n] \in {"..", Nul}
         \/ parts = <<>>
      THEN None
      ELSE parts

\* From the root toward the leaf, the path itself excluded.
ancestors(p) == {SubSeq(p, 1, n) : n \in 1..(Len(p) - 1)}

\* child is prefix or lies below it.
under(prefix, child) ==
  Len(prefix) <= Len(child) /\ SubSeq(child, 1, Len(prefix)) = prefix

\* The path that replaces the leading `from` of p by `to`.
rebased(from, to, p) == to \o SubSeq(p, Len(from) + 1, Len(p))

-----------------------------------------------------------------------------
(* Directories *)

DirEntry == [path : Opt(Path), live : BOOLEAN]
UnusedDir == [path |-> None, live |-> FALSE]
Document == [files : [FileId -> Entry], dirs : [DirId -> DirEntry]]

DirsAt(dirs, p) == {i \in DirId : dirs[i].live /\ dirs[i].path = p}

find_directory_by_path(dirs, p) ==
  IF DirsAt(dirs, p) = {} THEN None
  ELSE CHOOSE i \in DirsAt(dirs, p) : \A j \in DirsAt(dirs, p) : i <= j

\* A new entry for the first n segments of p, for each n of S, under distinct
\* fresh UUIDs.
WithDirectories(dirs, p, S) ==
  LET fresh == {i \in DirId : dirs[i] = UnusedDir}
  IN  {[i \in DirId |-> IF \E n \in S : f[n] = i
                        THEN [path |-> SubSeq(p, 1, CHOOSE n \in S : f[n] = i), live |-> TRUE]
                        ELSE dirs[i]] :
         f \in {g \in [S -> fresh] : \A m, n \in S : g[m] = g[n] => m = n}}

\* The depths at which an ancestor of p has no live entry.
Missing(dirs, p) == {n \in 1..(Len(p) - 1) : DirsAt(dirs, SubSeq(p, 1, n)) = {}}

ensure_ancestor_directories(dirs, p) == WithDirectories(dirs, p, Missing(dirs, p))

create_directory(d, p) ==
  IF DirsAt(d.dirs, p) # {} THEN {d}
  ELSE {[d EXCEPT !.dirs = e] :
          e \in WithDirectories(d.dirs, p, {Len(p)} \cup Missing(d.dirs, p))}

\* The live files strictly below p, as delete_directory collects them.
ChildFiles(d, p) ==
  {i \in FileId : d.files[i].live /\ under(p, d.files[i].path) /\ d.files[i].path # p}

\* Mutant: a path that is listed twice is deleted once.
DeleteOncePerPath(d, p, recursive) ==
  IF ~recursive /\ ChildFiles(d, p) # {} THEN {}
  ELSE {[files |-> [i \in FileId |-> [d.files[i] EXCEPT !.live = @ /\
                      ~(i \in ChildFiles(d, p) /\ i = find_file_by_path(d.files, d.files[i].path))]],
         dirs  |-> [i \in DirId |-> [d.dirs[i] EXCEPT !.live = @ /\
                      ~(recursive /\ under(p, d.dirs[i].path))]]]}

\* Every child file is tombstoned by path (a path that two live entries share
\* is listed, and deleted, twice), then every child directory, then the first
\* live entry of p itself.  Without `recursive` only child files are in the way.
delete_directory(d, p, recursive) ==
  IF ~recursive /\ ChildFiles(d, p) # {} THEN {}
  ELSE LET first == find_directory_by_path(d.dirs, p)
           Child(e) == e.live /\ under(p, e.path) /\ e.path # p
       IN  {[files |-> [i \in FileId |-> [d.files[i] EXCEPT !.live = @ /\ ~Child(d.files[i])]],
             dirs  |-> [i \in DirId |-> [d.dirs[i] EXCEPT !.live =
                          @ /\ i # first /\ ~(recursive /\ Child(d.dirs[i]))]]]}

\* The entry of `from` first, then every live directory found below `from`
\* (the entry just moved included, if `to` lies below `from`), then the files.
rename_directory(d, from, to) ==
  IF from = to THEN {d}
  ELSE LET first == find_directory_by_path(d.dirs, from)
           Path1(i) == IF i = first THEN to ELSE d.dirs[i].path
           dirs == [i \in DirId |-> [d.dirs[i] EXCEPT !.path =
                      IF d.dirs[i].live /\ Path1(i) # from /\ under(from, Path1(i))
                      THEN rebased(from, to, Path1(i)) ELSE Path1(i)]]
           files == [i \in FileId |-> [d.files[i] EXCEPT !.path =
                      IF d.files[i].live /\ under(from, @) THEN rebased(from, to, @) ELSE @]]
       IN  {[files |-> files, dirs |-> e] : e \in ensure_ancestor_directories(dirs, to)}

-----------------------------------------------------------------------------
(* Files: FileTree's operations on the `files` map, with what they do to     *)
(* the directories.                                                          *)

\* Ancestors are ensured for a new entry only.
Written(d, p, results) ==
  {[files |-> f, dirs |-> e] :
     f \in results,
     e \in IF file_exists(d.files, p) THEN {d.dirs}
           ELSE ensure_ancestor_directories(d.dirs, p)}

write_text(d, p, s) == Written(d, p, write_text_file(d.files, p, s))

write_binary(d, p, h) == Written(d, p, write_attachment(d.files, p, h))

remove_file(d, p) ==
  IF file_exists(d.files, p) THEN {[d EXCEPT !.files = delete_file(d.files, p)]} ELSE {}

\* Mutant: the destination's ancestors are not ensured.
RenameFileOnly(d, from, to) ==
  IF from = to THEN {d}
  ELSE IF ~file_exists(d.files, from) \/ file_exists(d.files, to) THEN {}
  ELSE {[d EXCEPT !.files[find_file_by_path(d.files, from)].path = to]}

rename_file(d, from, to) ==
  IF from = to THEN {d}
  ELSE IF ~file_exists(d.files, from) \/ file_exists(d.files, to) THEN {}
  ELSE {[files |-> [d.files EXCEPT ![find_file_by_path(d.files, from)].path = to],
         dirs |-> e] : e \in ensure_ancestor_directories(d.dirs, to)}

-----------------------------------------------------------------------------
(* The calls of a Vault.  A raw path that normalize refuses is an error.     *)

vars == <<doc, nested>>

Init ==
  /\ doc = [files |-> [i \in FileId |-> Unused], dirs |-> [i \in DirId |-> UnusedDir]]
  /\ nested = FALSE

\* The document a call leaves, within the bound on depth.
Leaves(results) ==
  /\ doc' \in results
  /\ \A i \in FileId : doc'.files[i].live => Len(doc'.files[i].path) <= MaxDepth
  /\ \A i \in DirId : doc'.dirs[i].live => Len(doc'.dirs[i].path) <= MaxDepth

WriteTextFile(p, s) == Leaves(write_text(doc, p, s)) /\ UNCHANGED nested
WriteAttachment(p, h) == Leaves(write_binary(doc, p, h)) /\ UNCHANGED nested
DeleteFile(p) == Leaves(remove_file(doc, p)) /\ UNCHANGED nested
RenameFile(from, to) == Leaves(rename_file(doc, from, to)) /\ UNCHANGED nested
CreateDirectory(p) == Leaves(create_directory(doc, p)) /\ UNCHANGED nested
DeleteDirectory(p, recursive) ==
  Leaves(delete_directory(doc, p, recursive)) /\ UNCHANGED nested
RenameDirectory(from, to) ==
  /\ Leaves(rename_directory(doc, from, to))
  /\ nested' = (nested \/ (from # to /\ under(from, to)))

\* What callers pass, within the bound on depth.
Paths == {p \in {normalize(r) : r \in Raw} : p # None /\ Len(p) <= MaxDepth}

Next ==
  \/ \E p \in Paths : \E s \in Text : WriteTextFile(p, s)
  \/ \E p \in Paths : \E h \in Bin : WriteAttachment(p, h)
  \/ \E p \in Paths : DeleteFile(p)
  \/ \E p, q \in Paths : RenameFile(p, q)
  \/ \E p \in Paths : CreateDirectory(p)
  \/ \E p \in Paths : \E recursive \in BOOLEAN : DeleteDirectory(p, recursive)
  \/ \E p, q \in Paths : RenameDirectory(p, q)

Spec == Init /\ [][Next]_vars

-----------------------------------------------------------------------------
(* Properties *)

TypeOK ==
  /\ doc \in Document /\ nested \in BOOLEAN
  /\ \A i \in FileId : doc.files[i].live => doc.files[i].path # None
  /\ \A i \in DirId : doc.dirs[i].live => doc.dirs[i].path # None

\* Every ancestor of a live file is a live directory, whatever was created,
\* renamed and deleted before: delete_directory without `recursive` refuses,
\* with it no file stays, and a rename moves the directories with the files.
\* Renaming a directory to a path below itself moves its own entry twice and
\* is the one call that breaks this.
FilesHaveParents ==
  ~nested => \A i \in FileId : doc.files[i].live =>
               \A a \in ancestors(doc.files[i].path) : DirsAt(doc.dirs, a) # {}

\* A recursive delete leaves nothing live below the directory, although files
\* are deleted by path and two live files may share one.
NothingBelow(d, p) ==
  /\ ChildFiles(d, p) = {}
  /\ \A i \in DirId : d.dirs[i].live /\ under(p, d.dirs[i].path) => d.dirs[i].path = p
DeleteIsComplete ==
  [][\A p \in Paths : DeleteDirectory(p, TRUE) => NothingBelow(doc', p)]_vars
=============================================================================
