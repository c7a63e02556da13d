------------------------------- MODULE Binding -------------------------------
(***************************************************************************)
(* A bound directory: the two tasks that mirror the document to disk and   *)
(* disk to the document (vault.rs bind_directory, debounced_fs_loop,       *)
(* materialize_inner; fs/ingest.rs; fs/suppression.rs), with the user who  *)
(* saves files, the sync peers whose changes are merged into the document, *)
(* disk errors, and crashes.                                               *)
(*                                                                         *)
(*   user --save--> disk --notify--> watch --> pending --> ingest --> files *)
(*   peers --merge--> files --materializer--> disk                         *)
(*                                                                         *)
(* A step of a task is what it does between two await points that another  *)
(* task can observe.  Time is not modelled: a debounce deadline, the 100ms *)
(* poll and the 5s life of a suppression mark elapse at any moment.        *)
(***************************************************************************)
EXTENDS FileTree, Sequences, SequencesExt

CONSTANTS
  TextPath,    \* paths whose extension is a text extension
  Protected,   \* authorized_keys: its removal from disk is not propagated
  Oversize,    \* contents above the size limit of their path's kind
  UserOps,     \* what the user does: subset of {"save", "truncate", "remove", "move"}
  Before,      \* texts a file may have when the vault is opened again
  Reuse,       \* may a save reproduce content that the document already held?
  MaxSave, MaxMerge, MaxFault, MaxCrash  \* bounds on the environment

ASSUME BindingAssumption ==
  /\ TextPath \subseteq Path /\ Protected \subseteq Path
  /\ Oversize \subseteq Content
  /\ UserOps \subseteq {"save", "truncate", "remove", "move"}
  /\ Before \subseteq Text /\ Reuse \in BOOLEAN
  /\ MaxSave \in Nat /\ MaxMerge \in Nat /\ MaxFault \in Nat
  /\ MaxCrash \in Nat

VARIABLES
  files,         \* the document's files map
  blobs,         \* contents in the local blob store
  held,          \* document history: every text body and binary_hash it ever had
  saved,         \* doc.bin: the last saved document with its history
  disk,          \* content of each file of the directory, or None
  watch,         \* notify events on their way to the fs loop
  pending,       \* debounce map of the fs loop
  ing,           \* the handler the fs loop (or the initial scan) is in
  mat,           \* the materializer's pass
  dirty,         \* DirtySet: hashes of the core's own writes per path, oldest first
  materialized,  \* path -> hash the materializer believes is on disk
  last_ingested, \* path -> hash most recently ingested
  phase,         \* "scan", "first", "running" or "down"
  scan,          \* files the initial scan still has to visit
  editing,       \* paths an editor has truncated and not yet written
  saves, merges, faults, crashes  \* environment steps taken; a fault is a
                                  \* failed write or delete, or an expired mark

docVars == <<files, blobs, held>>
memVars == <<dirty, materialized, last_ingested>>
envVars == <<saves, merges, faults, crashes>>
vars == <<docVars, saved, disk, watch, pending, ing, mat, memVars, phase, scan,
          editing, envVars>>

Event == [path : Path, ev : {"touched", "removed"}]
Meta  == [id : FileId, kind : {"text", "attachment"}, binary_hash : Opt(Content)]
Files == [FileId -> Entry]

IngPc == {"idle", "read", "reread", "check", "compare", "write", "attach",
          "recMaterialized", "recIngested", "sameMaterialized", "sameIngested",
          "exists", "delete"}
MatPc == {"idle", "materialized", "ingested", "files", "delete", "disk", "write",
          "record", "retainIngested"}

RecordPc == {"recMaterialized", "recIngested", "sameMaterialized", "sameIngested"}

\* torn: an editor had the file truncated when its bytes were read.  No step looks
\* at it; TransientEmptyNotIngested does.
IdleIng == [pc |-> "idle", path |-> None, bytes |-> None, torn |-> FALSE, batch |-> {}]
NoHash  == [p \in Path |-> None]
IdleMat == [pc |-> "idle", live |-> NoHash, existing |-> NoHash,
            ingested |-> NoHash, todo |-> {}, path |-> None,
            target |-> None, seen |-> None]

History(f) ==
  [text |-> held.text \cup ({f[i].content : i \in FileId} \ {None}),
   hash |-> held.hash \cup ({f[i].binary_hash : i \in FileId} \ {None})]

\* What can be brought back from history: a text body, or an attachment whose
\* bytes are in the blob store.
Recoverable == held.text \cup (held.hash \cap blobs)

\* The document changes to f with blob store b.
Commit(f, b) == files' = f /\ blobs' = b /\ held' = History(f)

\* The idempotency branch of ingest_file records its hashes under the doc lock.
DocLocked == ing.pc \in {"sameMaterialized", "sameIngested"}

-----------------------------------------------------------------------------
(* The user and the file system.                                           *)

\* The watcher exists from bind_directory on; while the process is down a
\* change of the disk raises no event.
Notify(p, ev) ==
  watch' = IF phase = "down" THEN watch ELSE Append(watch, [path |-> p, ev |-> ev])

UserStep(op) ==
  /\ op \in UserOps
  /\ saves < MaxSave /\ saves' = saves + 1
  /\ UNCHANGED <<docVars, saved, pending, ing, mat, memVars, phase, scan,
                 merges, faults, crashes>>

\* One atomic save: editors write a temporary file and rename it.
Save(p, c) ==
  /\ UserStep("save")
  /\ p \notin editing /\ c # disk[p]
  /\ Reuse \/ c \notin Recoverable
  /\ disk' = [disk EXCEPT ![p] = c]
  /\ Notify(p, "touched")
  /\ UNCHANGED editing

\* A save that truncates first: the file is empty until the editor writes it.
Truncate(p) ==
  /\ UserStep("truncate")
  /\ p \notin editing /\ disk[p] \notin {None, Empty}
  /\ disk' = [disk EXCEPT ![p] = Empty]
  /\ editing' = editing \cup {p}
  /\ Notify(p, "touched")

FinishSave(p, c) ==
  /\ p \in editing /\ c # Empty
  /\ Reuse \/ c \notin Recoverable
  /\ editing' = editing \ {p}
  /\ disk' = [disk EXCEPT ![p] = c]
  /\ Notify(p, "touched")
  /\ UNCHANGED <<docVars, saved, pending, ing, mat, memVars, phase, scan, envVars>>

RemoveFile(p) ==
  /\ UserStep("remove")
  /\ p \notin editing /\ disk[p] # None
  /\ disk' = [disk EXCEPT ![p] = None]
  /\ Notify(p, "removed")
  /\ UNCHANGED editing

\* The file is moved out of the directory: notify reports Modify(Name), which
\* the adapter's callback turns into Touched, as it does for a save.
MoveAway(p) ==
  /\ UserStep("move")
  /\ p \notin editing /\ disk[p] # None
  /\ disk' = [disk EXCEPT ![p] = None]
  /\ Notify(p, "touched")
  /\ UNCHANGED editing

User ==
  \E p \in Path :
    \/ \E c \in Content : Save(p, c) \/ FinishSave(p, c)
    \/ Truncate(p) \/ RemoveFile(p) \/ MoveAway(p)

-----------------------------------------------------------------------------
(* Peers: a merged sync message leaves some entry written, created,        *)
(* renamed, restored or deleted.  The blob of an attachment made elsewhere *)
(* does not come with it.                                                  *)

MergedInto(i, e) == e # files[i] /\ Commit([files EXCEPT ![i] = e], blobs)

receive_sync_message(i) ==
  /\ phase # "down" /\ ~DocLocked
  /\ merges < MaxMerge /\ merges' = merges + 1
  /\ \/ \E q \in Path, c \in Text :
          MergedInto(i, [files[i] EXCEPT !.path = q, !.live = TRUE, !.kind = "text",
                                         !.content = c])
     \/ \E q \in Path, c \in Bin :
          MergedInto(i, [files[i] EXCEPT !.path = q, !.live = TRUE,
                                         !.kind = "attachment", !.binary_hash = c])
     \/ files[i].path # None /\ MergedInto(i, [files[i] EXCEPT !.live = FALSE])
  /\ UNCHANGED <<saved, disk, watch, pending, ing, mat, memVars, phase, scan,
                 editing, saves, faults, crashes>>

-----------------------------------------------------------------------------
(* The fs loop: events are debounced per path, the latest one winning, and *)
(* handled one at a time.                                                  *)

FsLoopUnchanged == UNCHANGED <<saved, mat, phase, scan, editing, envVars>>
Handled == ing' = [ing EXCEPT !.pc = "idle", !.path = None, !.bytes = None, !.torn = FALSE]
Goto(pc) == ing' = [ing EXCEPT !.pc = pc]

\* The file's bytes as they are now.
Take == ing' = [ing EXCEPT !.pc = "check", !.bytes = disk[ing.path],
                           !.torn = ing.path \in editing]

\* rx.recv()
Receive ==
  /\ phase = "running" /\ ing.pc = "idle" /\ ing.batch = {} /\ watch # <<>>
  /\ pending' = [pending EXCEPT ![Head(watch).path] = Head(watch).ev]
  /\ watch' = Tail(watch)
  /\ UNCHANGED <<docVars, disk, ing, memVars>>
  /\ FsLoopUnchanged

\* The deadlines of these paths have passed.
flush_expired(batch) ==
  /\ phase = "running" /\ ing.pc = "idle" /\ ing.batch = {}
  /\ batch # {} /\ \A p \in batch : pending[p] # None
  /\ ing' = [ing EXCEPT !.batch = batch]
  /\ UNCHANGED <<docVars, disk, watch, pending, memVars>>
  /\ FsLoopUnchanged

\* Mutant: the events of a batch are drained before the first is handled.
DispatchDrainsBatch(p) ==
  /\ ing.pc = "idle" /\ p \in ing.batch
  /\ pending' = [q \in Path |-> IF q \in ing.batch THEN None ELSE pending[q]]
  /\ ing' = [ing EXCEPT !.path = p, !.batch = {},
                        !.pc = IF pending[p] = "touched" THEN "read" ELSE "exists"]
  /\ UNCHANGED <<docVars, disk, watch, memVars>>
  /\ FsLoopUnchanged

dispatch_fs_event(p) ==
  /\ ing.pc = "idle" /\ p \in ing.batch
  /\ pending' = [pending EXCEPT ![p] = None]
  /\ ing' = [ing EXCEPT !.path = p, !.batch = @ \ {p},
                        !.pc = IF pending[p] = "touched" THEN "read" ELSE "exists"]
  /\ UNCHANGED <<docVars, disk, watch, memVars>>
  /\ FsLoopUnchanged

\* Mutant: takes what it reads, a missing or truncated file included.
ReadDiskUnguarded ==
  /\ ing.pc = "read"
  /\ Take
  /\ UNCHANGED <<docVars, disk, watch, pending, memVars>>
  /\ FsLoopUnchanged

\* Touched: a path that is not on disk any more is left alone.
ReadDisk ==
  /\ ing.pc = "read"
  /\ LET b == disk[ing.path]
         doc_has_content == read_file(files, ing.path) \notin {None, Empty}
     IN \/ b = None /\ Handled
        \/ /\ b = Empty /\ doc_has_content
           /\ Goto("reread")
        \/ /\ b # None /\ ~(b = Empty /\ doc_has_content)
           /\ Take
  /\ UNCHANGED <<docVars, disk, watch, pending, memVars>>
  /\ FsLoopUnchanged

\* After 300ms.  An editor has written the file it truncated by then.
RereadDisk ==
  /\ ing.pc = "reread" /\ ing.path \notin editing
  /\ IF disk[ing.path] = None THEN Handled ELSE Take
  /\ UNCHANGED <<docVars, disk, watch, pending, memVars>>
  /\ FsLoopUnchanged

\* The size limit, then DirtySet::check_and_consume.
check_and_consume ==
  LET p    == ing.path
      hits == {k \in DOMAIN dirty[p] : dirty[p][k] = ing.bytes}
  IN
  /\ ing.pc = "check"
  /\ \/ ing.bytes \in Oversize /\ Handled /\ UNCHANGED dirty
     \/ /\ ing.bytes \notin Oversize
        /\ \E k \in hits : /\ \A j \in hits : k <= j
                          /\ dirty' = [dirty EXCEPT ![p] = RemoveAt(@, k)]
        /\ Handled
     \/ /\ ing.bytes \notin Oversize /\ hits = {}
        /\ Goto(IF p \in TextPath /\ ing.bytes \in Text THEN "compare" ELSE "attach")
        /\ UNCHANGED dirty
  /\ UNCHANGED <<docVars, disk, watch, pending, materialized, last_ingested>>
  /\ FsLoopUnchanged

\* The idempotency check.  Otherwise the doc lock is released, and taken again
\* for the write.
Compare ==
  /\ ing.pc = "compare"
  /\ Goto(IF read_file(files, ing.path) = ing.bytes THEN "sameMaterialized" ELSE "write")
  /\ UNCHANGED <<docVars, disk, watch, pending, memVars>>
  /\ FsLoopUnchanged

WriteText ==
  /\ ing.pc = "write"
  /\ \E f \in write_text_file(files, ing.path, ing.bytes) : Commit(f, blobs)
  /\ Goto("recMaterialized")
  /\ UNCHANGED <<disk, watch, pending, memVars>>
  /\ FsLoopUnchanged

WriteAttachment ==
  /\ ing.pc = "attach"
  /\ \E f \in write_attachment(files, ing.path, ing.bytes) :
       Commit(f, blobs \cup {ing.bytes})
  /\ Goto("recMaterialized")
  /\ UNCHANGED <<disk, watch, pending, memVars>>
  /\ FsLoopUnchanged

RecordMaterialized ==
  /\ ing.pc \in {"recMaterialized", "sameMaterialized"}
  /\ materialized' = [materialized EXCEPT ![ing.path] = ing.bytes]
  /\ Goto(IF ing.pc = "recMaterialized" THEN "recIngested" ELSE "sameIngested")
  /\ UNCHANGED <<docVars, disk, watch, pending, dirty, last_ingested>>
  /\ FsLoopUnchanged

RecordIngested ==
  /\ ing.pc \in {"recIngested", "sameIngested"}
  /\ last_ingested' = [last_ingested EXCEPT ![ing.path] = ing.bytes]
  /\ Handled
  /\ UNCHANGED <<docVars, disk, watch, pending, dirty, materialized>>
  /\ FsLoopUnchanged

\* Removed: the file may be back, and authorized_keys is not given up.
CheckRemoved ==
  /\ ing.pc = "exists"
  /\ IF disk[ing.path] # None \/ ing.path \in Protected THEN Handled ELSE Goto("delete")
  /\ UNCHANGED <<docVars, disk, watch, pending, memVars>>
  /\ FsLoopUnchanged

DeleteFromDoc ==
  /\ ing.pc = "delete"
  /\ IF file_exists(files, ing.path)
     THEN Commit(delete_file(files, ing.path), blobs)
     ELSE UNCHANGED docVars
  /\ Handled
  /\ UNCHANGED <<disk, watch, pending, memVars>>
  /\ FsLoopUnchanged

IngestFile ==
  \/ ReadDisk \/ RereadDisk \/ check_and_consume \/ Compare \/ WriteText
  \/ WriteAttachment \/ RecordMaterialized \/ RecordIngested

FsLoop ==
  \/ Receive
  \/ \E batch \in SUBSET Path : flush_expired(batch)
  \/ \E p \in Path : dispatch_fs_event(p)
  \/ CheckRemoved \/ DeleteFromDoc

-----------------------------------------------------------------------------
(* The materializer: one pass over the snapshot it takes of the live files *)
(* and of the two hash maps.                                               *)

MatUnchanged == UNCHANGED <<docVars, saved, pending, ing, scan, editing>>
Step(upd) == mat' = upd

MatBegin ==
  LET i(p) == listed_file(files, p) IN
  /\ phase \in {"first", "running"} /\ mat.pc = "idle" /\ ~DocLocked
  /\ Step([mat EXCEPT !.pc = "materialized", !.live =
       [p \in Path |-> IF i(p) = None THEN None
                       ELSE [id |-> i(p), kind |-> files[i(p)].kind,
                             binary_hash |-> files[i(p)].binary_hash]]])
  /\ UNCHANGED <<disk, watch, memVars, phase, envVars>>
  /\ MatUnchanged

MatCloneMaterialized ==
  /\ mat.pc = "materialized"
  /\ Step([mat EXCEPT !.pc = "ingested", !.existing = materialized])
  /\ UNCHANGED <<disk, watch, memVars, phase, envVars>>
  /\ MatUnchanged

MatCloneIngested ==
  /\ mat.pc = "ingested"
  /\ Step([mat EXCEPT !.pc = "files", !.ingested = last_ingested,
             !.todo = {p \in Path : mat.existing[p] # None \/ mat.live[p] # None}])
  /\ UNCHANGED <<disk, watch, memVars, phase, envVars>>
  /\ MatUnchanged

OverwriteAlways(p, d) == TRUE  \* mutant: no check of what the disk holds

is_safe_to_overwrite(p, d) == d = mat.existing[p] \/ d = mat.ingested[p]

\* On to the next file of the pass.
Skip(p) == [mat EXCEPT !.pc = "files", !.todo = @ \ {p}, !.path = None,
                       !.target = None, !.seen = None]

\* First the files that were materialized and are not live any more.
MatCheckDelete(p) ==
  /\ mat.pc = "files" /\ p \in mat.todo /\ mat.live[p] = None
  /\ Step(IF disk[p] # None /\ ~is_safe_to_overwrite(p, disk[p]) THEN Skip(p)
          ELSE [mat EXCEPT !.pc = "delete", !.path = p, !.seen = disk[p]])
  /\ UNCHANGED <<disk, watch, memVars, phase, envVars>>
  /\ MatUnchanged

\* The mark "<deleted>" that follows is no content's hash: no event is ever
\* matched with it, so the set of marks is the same for what it decides.
MatDelete ==
  LET p == mat.path IN
  /\ mat.pc = "delete"
  /\ disk' = [disk EXCEPT ![p] = None]
  /\ IF disk[p] = None THEN UNCHANGED watch ELSE Notify(p, "removed")
  /\ Step(Skip(p))
  /\ UNCHANGED <<memVars, phase, envVars>>
  /\ MatUnchanged

\* Mutant: takes the blob to be in the store.
TargetWithoutBlob(p) ==
  LET m == mat.live[p] IN
  IF m.kind = "text"
  THEN IF read_file_id(files, m.id) = None THEN Empty ELSE read_file_id(files, m.id)
  ELSE m.binary_hash

\* Text is read from the document now; an attachment is what the snapshot
\* named, if the blob store has it.
Target(p) ==
  LET m == mat.live[p] IN
  IF m.kind = "text"
  THEN IF read_file_id(files, m.id) = None THEN Empty ELSE read_file_id(files, m.id)
  ELSE IF m.binary_hash \in blobs THEN m.binary_hash ELSE None

\* Then the live ones.
MatTarget(p) ==
  /\ mat.pc = "files" /\ p \in mat.todo /\ \A q \in mat.todo : mat.live[q] # None
  /\ mat.live[p].kind = "text" => ~DocLocked
  /\ Step(IF Target(p) \in {None, mat.existing[p]} THEN Skip(p)
          ELSE [mat EXCEPT !.pc = "disk", !.path = p, !.target = Target(p)])
  /\ UNCHANGED <<disk, watch, memVars, phase, envVars>>
  /\ MatUnchanged

MarkDisk(p, c) ==  \* mutant: marks what is on disk, not what is written to it
  dirty' = [dirty EXCEPT ![p] = Append(@, disk[p])]

\* DirtySet::mark
mark(p, c) == dirty' = [dirty EXCEPT ![p] = Append(@, c)]

\* The decision to write, and the suppression mark that precedes the write.
MatReadDisk ==
  LET p == mat.path
      d == disk[p]
  IN
  /\ mat.pc = "disk"
  /\ \/ d = mat.target
        /\ Step([mat EXCEPT !.pc = "record"]) /\ UNCHANGED dirty
     \/ d \notin {mat.target, None} /\ ~is_safe_to_overwrite(p, d)
        /\ Step(Skip(p)) /\ UNCHANGED dirty
     \/ d # mat.target /\ (d = None \/ is_safe_to_overwrite(p, d))
        /\ Step([mat EXCEPT !.pc = "write", !.seen = d])
        /\ mark(p, mat.target)
  /\ UNCHANGED <<disk, watch, materialized, last_ingested, phase, envVars>>
  /\ MatUnchanged

MatWrite ==
  /\ mat.pc = "write"
  /\ disk' = [disk EXCEPT ![mat.path] = mat.target]
  /\ Notify(mat.path, "touched")
  /\ Step([mat EXCEPT !.pc = "record"])
  /\ UNCHANGED <<memVars, phase, envVars>>
  /\ MatUnchanged

\* The disk refuses the write or the delete: the pass goes on with the next
\* file, and the mark stays.
MatFails ==
  /\ mat.pc \in {"write", "delete"}
  /\ faults < MaxFault /\ faults' = faults + 1
  /\ Step(Skip(mat.path))
  /\ UNCHANGED <<disk, watch, memVars, phase, saves, merges, crashes>>
  /\ MatUnchanged

\* Mutant: notes what it finds on disk after the write.
MatRecordDisk ==
  /\ mat.pc = "record"
  /\ materialized' = [materialized EXCEPT ![mat.path] = disk[mat.path]]
  /\ Step(Skip(mat.path))
  /\ UNCHANGED <<disk, watch, dirty, last_ingested, phase, envVars>>
  /\ MatUnchanged

MatRecord ==
  /\ mat.pc = "record"
  /\ materialized' = [materialized EXCEPT ![mat.path] = mat.target]
  /\ Step(Skip(mat.path))
  /\ UNCHANGED <<disk, watch, dirty, last_ingested, phase, envVars>>
  /\ MatUnchanged

Retain(m) == [p \in Path |-> IF mat.live[p] # None THEN m[p] ELSE None]

MatRetainMaterialized ==
  /\ mat.pc = "files" /\ mat.todo = {}
  /\ materialized' = Retain(materialized)
  /\ Step([mat EXCEPT !.pc = "retainIngested"])
  /\ UNCHANGED <<disk, watch, dirty, last_ingested, phase, envVars>>
  /\ MatUnchanged

\* The end of a pass; bind_directory spawns the two tasks after the first.
MatRetainIngested ==
  /\ mat.pc = "retainIngested"
  /\ last_ingested' = Retain(last_ingested)
  /\ Step(IdleMat)
  /\ phase' = "running"
  /\ UNCHANGED <<disk, watch, dirty, materialized, envVars>>
  /\ MatUnchanged

Materializer ==
  \/ MatBegin \/ MatCloneMaterialized \/ MatCloneIngested
  \/ \E p \in Path : MatCheckDelete(p) \/ MatTarget(p)
  \/ MatDelete \/ MatReadDisk \/ MatWrite \/ MatRecord
  \/ MatRetainMaterialized \/ MatRetainIngested

-----------------------------------------------------------------------------
(* The life of the process.                                                *)

\* The save loop and flush.  Only a restart reads doc.bin, so the save matters
\* while a crash can still come.
SaveDoc ==
  /\ phase # "down" /\ crashes < MaxCrash /\ ~DocLocked
  /\ saved' = [files |-> files, held |-> held]
  /\ UNCHANGED <<docVars, disk, watch, pending, ing, mat, memVars, phase, scan,
                 editing, envVars>>

\* DirtySet::gc: a mark that has reached its TTL is dropped, the oldest first.  It
\* runs inside check_and_consume and mark; only before the former looks at the
\* marks of the path can it make a difference.
ExpireMark(p) ==
  /\ ing.pc = "check" /\ p = ing.path /\ ing.bytes \notin Oversize
  /\ dirty[p] # <<>>
  /\ faults < MaxFault /\ faults' = faults + 1
  /\ dirty' = [dirty EXCEPT ![p] = Tail(@)]
  /\ UNCHANGED <<docVars, saved, disk, watch, pending, ing, mat, materialized,
                 last_ingested, phase, scan, editing, saves, merges, crashes>>

\* All memory is lost; the disk, doc.bin and the blob store remain.
Crash ==
  /\ phase # "down"
  /\ crashes < MaxCrash /\ crashes' = crashes + 1
  /\ phase' = "down"
  /\ files' = saved.files /\ held' = saved.held
  /\ watch' = <<>> /\ pending' = NoHash /\ ing' = IdleIng /\ mat' = IdleMat
  /\ dirty' = [p \in Path |-> <<>>]
  /\ materialized' = NoHash /\ last_ingested' = NoHash
  /\ scan' = {}
  /\ UNCHANGED <<blobs, saved, disk, editing, saves, merges, faults>>

\* Mutant: trusts doc.bin and does not scan.
RestartWithoutScan ==
  /\ phase = "down"
  /\ phase' = "scan" /\ scan' = {}
  /\ UNCHANGED <<docVars, saved, disk, watch, pending, ing, mat, memVars,
                 editing, envVars>>

\* Vault::open loads doc.bin; bind_directory watches, then scans.
Restart ==
  /\ phase = "down"
  /\ phase' = "scan"
  /\ scan' = {p \in Path : disk[p] # None}
  /\ UNCHANGED <<docVars, saved, disk, watch, pending, ing, mat, memVars,
                 editing, envVars>>

initial_scan(p) ==
  /\ phase = "scan" /\ ing.pc = "idle" /\ p \in scan
  /\ scan' = scan \ {p}
  /\ ing' = [ing EXCEPT !.pc = "read", !.path = p]
  /\ UNCHANGED <<docVars, saved, disk, watch, pending, mat, memVars, phase,
                 editing, envVars>>

ScanDone ==
  /\ phase = "scan" /\ ing.pc = "idle" /\ scan = {}
  /\ phase' = "first"
  /\ UNCHANGED <<docVars, saved, disk, watch, pending, ing, mat, memVars, scan,
                 editing, envVars>>

\* A new vault and an empty directory.
NewVault ==
  /\ files = [i \in FileId |-> Unused]
  /\ held = [text |-> {}, hash |-> {}]
  /\ disk = NoHash

\* A vault that was closed with one file, the same on disk and in doc.bin.
ClosedVault(i, p, c) ==
  /\ files = [[j \in FileId |-> Unused] EXCEPT
               ![i] = [Unused EXCEPT !.path = p, !.live = TRUE, !.content = c]]
  /\ held = [text |-> {c}, hash |-> {}]
  /\ disk = [NoHash EXCEPT ![p] = c]

Init ==
  /\ NewVault \/ \E i \in FileId, p \in TextPath, c \in Before : ClosedVault(i, p, c)
  /\ blobs = {}
  /\ saved = [files |-> files, held |-> held]
  /\ watch = <<>> /\ pending = NoHash
  /\ ing = IdleIng /\ mat = IdleMat
  /\ dirty = [p \in Path |-> <<>>]
  /\ materialized = NoHash /\ last_ingested = NoHash
  /\ phase = "down" /\ scan = {} /\ editing = {}
  /\ saves = 0 /\ merges = 0 /\ faults = 0 /\ crashes = 0

Next ==
  \/ User
  \/ \E i \in FileId : receive_sync_message(i)
  \/ IngestFile
  \/ FsLoop
  \/ Materializer
  \/ MatFails
  \/ SaveDoc
  \/ \E p \in Path : ExpireMark(p) \/ initial_scan(p)
  \/ Crash \/ Restart \/ ScanDone

Spec == Init /\ [][Next]_vars

-----------------------------------------------------------------------------
(* Properties.                                                             *)

DocTypeOK ==
  /\ files \in Files /\ blobs \subseteq Content
  /\ held \in [text : SUBSET Text, hash : SUBSET Content]

DiskTypeOK ==
  /\ saved \in [files : Files, held : [text : SUBSET Text, hash : SUBSET Content]]
  /\ disk \in [Path -> Opt(Content)]

EventTypeOK ==
  /\ watch \in Seq(Event)
  /\ pending \in [Path -> Opt({"touched", "removed"})]

IngTypeOK ==
  /\ ing \in [pc : IngPc, path : Opt(Path), bytes : Opt(Content), torn : BOOLEAN,
              batch : SUBSET Path]
  /\ ing.pc # "idle" => ing.path \in Path
  /\ ing.pc \notin {"idle", "read", "reread", "exists", "delete"} => ing.bytes \in Content
  /\ ing.pc \in {"compare", "write"} => ing.bytes \in Text

MatTypeOK ==
  /\ mat \in [pc : MatPc, live : [Path -> Opt(Meta)], existing : [Path -> Opt(Content)],
              ingested : [Path -> Opt(Content)], todo : SUBSET Path,
              path : Opt(Path), target : Opt(Content), seen : Opt(Content)]
  /\ mat.pc \in {"delete", "disk", "write", "record"} => mat.path \in Path
  /\ mat.pc \in {"disk", "write", "record"} => mat.target \in Content

MemTypeOK ==
  /\ dirty \in [Path -> Seq(Content)]
  /\ materialized \in [Path -> Opt(Content)]
  /\ last_ingested \in [Path -> Opt(Content)]

EnvTypeOK ==
  /\ phase \in {"scan", "first", "running", "down"}
  /\ scan \subseteq Path /\ editing \subseteq Path
  /\ saves \in 0..MaxSave /\ merges \in 0..MaxMerge
  /\ faults \in 0..MaxFault /\ crashes \in 0..MaxCrash

TypeOK ==
  /\ DocTypeOK /\ DiskTypeOK /\ EventTypeOK /\ IngTypeOK /\ MatTypeOK
  /\ MemTypeOK /\ EnvTypeOK

\* A hash that is_safe_to_overwrite accepts -- in the shared maps or in the
\* materializer's snapshot of them -- names content that the document's history
\* holds, so overwriting it on disk destroys nothing that cannot be brought back.
SafeHashes ==
  \A p \in Path :
    {materialized[p], last_ingested[p], mat.existing[p], mat.ingested[p]}
      \subseteq Opt(Recoverable)

\* A suppressed save is never the only copy: every mark in the DirtySet names
\* content that the document's history holds.
MarksAreRecoverable ==
  \A p \in Path : dirty[p] \in Seq(Recoverable)

\* The materializer destroys no content that history lacks, unless the user
\* saved between its read of the disk (mat.seen) and its write.
NoLossOutsideWindow ==
  [][\A p \in Path :
       mat' # mat /\ disk'[p] # disk[p] /\ disk[p] = mat.seen
         => disk[p] \in Opt(Recoverable)]_vars

\* What ingest_file reads while an editor has the file truncated does not empty the
\* text that the document has for it, however late it is written.  (A merge can
\* bring the text after ingest_file has looked for it and found none, and a crash
\* goes back to doc.bin: both are left out.)
TransientEmptyNotIngested ==
  [][ing.torn /\ merges' = 0 /\ phase' # "down"
       /\ read_file(files, ing.path) \notin {None, Empty}
       => read_file(files', ing.path) # Empty]_vars

-----------------------------------------------------------------------------
(* The inductive invariant behind SafeHashes and MarksAreRecoverable: what *)
(* the tasks carry from one step to the next is in the history too.        *)

HistoryHolds(f, h) ==
  \A i \in FileId :
    /\ f[i].content \in Opt(h.text) /\ f[i].binary_hash \in Opt(h.hash)
    /\ f[i].path # None /\ f[i].kind = "text" => f[i].content # None

\* The document and doc.bin have no body that their history lacks.
DocIsHeld == HistoryHolds(files, held) /\ HistoryHolds(saved.files, saved.held)

\* An entry in the materializer's snapshot may change or be deleted before it
\* is written, but keeps having a body.
SnapshotIsHeld ==
  \A p \in Path : mat.live[p] # None =>
    /\ mat.live[p].binary_hash \in Opt(held.hash)
    /\ mat.live[p].kind = "text" => files[mat.live[p].id].content # None

InFlightIsHeld ==
  /\ mat.pc \in {"disk", "write", "record"} => mat.target \in Recoverable
  /\ mat.pc \in {"write", "delete"} => mat.seen \in Opt(Recoverable)
  /\ ing.pc \in RecordPc => ing.bytes \in Recoverable

\* Together with the properties it supports: no step of any task, merge or
\* crash leads out of it.
IInv ==
  /\ TypeOK /\ DocIsHeld /\ SnapshotIsHeld /\ InFlightIsHeld
  /\ SafeHashes /\ MarksAreRecoverable

-----------------------------------------------------------------------------
(* Liveness.  The two tasks, the scan and the restart run on their own; the *)
(* user, peers, disk errors, crashes and mark expiry are not assumed.       *)

Fairness ==
  /\ WF_vars(IngestFile) /\ WF_vars(FsLoop) /\ WF_vars(Materializer)
  /\ WF_vars(Restart) /\ WF_vars(ScanDone) /\ WF_vars(\E p \in Path : initial_scan(p))
  /\ WF_vars(\E p \in Path, c \in Content : FinishSave(p, c))

FairSpec == Spec /\ Fairness

\* Content that stays on disk is captured in the document's history, whatever
\* merges, crashes, coalesced events and suppressions happen meanwhile.
SavesAreCaptured ==
  \A p \in Path : \A c \in Content \ Oversize :
    disk[p] = c ~> (c \in Recoverable \/ disk[p] # c)

\* Once the user has stopped saving, everything on disk is captured for good:
\* no file of a batch of expired deadlines is forgotten for another one.
DiskIsCaptured ==
  <>[](\A p \in Path : disk[p] \in Opt(Recoverable \cup Oversize))

=============================================================================
