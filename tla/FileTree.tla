------------------------------ MODULE FileTree ------------------------------
(***************************************************************************)
(* The `files` map of the Automerge document (crates/agentsync-core/src/   *)
(* doc): file entries keyed by a random FileId, a path being metadata of an *)
(* entry.  The operators are pure: an operation takes the map and returns  *)
(* the map after the call (a set of maps where a fresh UUID is drawn).     *)
(*                                                                         *)
(* A content hash is the content itself (content_hash is injective on the  *)
(* contents of an instance), so `binary_hash` holds the attachment's bytes *)
(* and "the local blob store has it" is a separate set.  Ids are naturals  *)
(* because map_keys returns the UUID keys in order and the first live match*)
(* wins.                                                                   *)
(***************************************************************************)
EXTENDS Naturals

CONSTANTS
  Path,    \* vault paths of files
  FileId,  \* UUIDs, ordered as the keys of the `files` map are
  Text,    \* contents that are valid UTF-8
  Bin,     \* contents that are not
  Empty,   \* the empty content
  None     \* absent: no file, no field, no map entry

Content == Text \cup Bin

\* A document has finitely many entries: a set of ids has a first and a last.
ASSUME FileIdAssumption ==
  /\ FileId \subseteq Nat
  /\ \A S \in SUBSET FileId : S # {} =>
       /\ \E i \in S : \A j \in S : i <= j
       /\ \E i \in S : \A j \in S : j <= i

ASSUME FileTreeAssumption ==
  /\ Empty \in Text
  /\ None \notin Path \cup Content \cup FileId
  /\ Text \cap Bin = {}

Opt(S) == S \cup {None}

\* One entry of the map.  path = None: the UUID is not in use yet.
Entry == [path : Opt(Path), live : BOOLEAN, kind : {"text", "attachment"},
          content : Opt(Text), binary_hash : Opt(Content)]

Unused == [path |-> None, live |-> FALSE, kind |-> "text",
           content |-> None, binary_hash |-> None]

LiveAt(files, p) == {i \in FileId : files[i].live /\ files[i].path = p}

\* The first live entry in key order with this path.
find_file_by_path(files, p) ==
  IF LiveAt(files, p) = {} THEN None
  ELSE CHOOSE i \in LiveAt(files, p) : \A j \in LiveAt(files, p) : i <= j

file_exists(files, p) == find_file_by_path(files, p) # None

\* list_files sorts by path, stably, and the caller collects the entries into
\* a map keyed by path: of several live entries the last in key order stays.
listed_file(files, p) ==
  IF LiveAt(files, p) = {} THEN None
  ELSE CHOOSE i \in LiveAt(files, p) : \A j \in LiveAt(files, p) : j <= i

\* The text body whatever the kind of the entry is; None stands for an error.
read_file(files, p) ==
  LET i == find_file_by_path(files, p)
  IN  IF i = None THEN None ELSE files[i].content

\* The text body by id, deleted or not.
read_file_id(files, i) == files[i].content

FreshIds(files) == {i \in FileId : files[i] = Unused}

\* An existing entry keeps its binary_hash; a new one gets a fresh UUID.
write_text_file(files, p, s) ==
  LET i == find_file_by_path(files, p)
  IN  IF i # None
      THEN {[files EXCEPT ![i].content = s, ![i].kind = "text"]}
      ELSE {[files EXCEPT ![j] =
               [path |-> p, live |-> TRUE, kind |-> "text",
                content |-> s, binary_hash |-> None]] : j \in FreshIds(files)}

\* An existing entry keeps its text body.
write_attachment(files, p, h) ==
  LET i == find_file_by_path(files, p)
  IN  IF i # None
      THEN {[files EXCEPT ![i].binary_hash = h, ![i].kind = "attachment"]}
      ELSE {[files EXCEPT ![j] =
               [path |-> p, live |-> TRUE, kind |-> "attachment",
                content |-> None, binary_hash |-> h]] : j \in FreshIds(files)}

\* Tombstones the first live match; guarded by file_exists at every caller.
delete_file(files, p) ==
  [files EXCEPT ![find_file_by_path(files, p)].live = FALSE]
=============================================================================
