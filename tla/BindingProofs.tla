---------------------------- MODULE BindingProofs ----------------------------
(***************************************************************************)
(* Proofs about Binding for every set of paths, ids and contents and every *)
(* bound on the environment.                                               *)
(***************************************************************************)
EXTENDS Binding, TLAPS, SequenceTheorems

-----------------------------------------------------------------------------
(* The files map.                                                          *)

\* A lookup by path (the first live match) finds a live entry of that path.
LEMMA FindType ==
  ASSUME NEW f \in Files, NEW p \in Path, LiveAt(f, p) # {}
  PROVE  find_file_by_path(f, p) \in LiveAt(f, p)
<1>1. LiveAt(f, p) \subseteq FileId BY DEF LiveAt
<1>2. \E i \in LiveAt(f, p) : \A j \in LiveAt(f, p) : i <= j
  BY <1>1, FileIdAssumption
<1> QED BY <1>2 DEF find_file_by_path

\* The listing (the last live match) names a live entry of that path.
LEMMA ListedType ==
  ASSUME NEW f \in Files, NEW p \in Path, LiveAt(f, p) # {}
  PROVE  listed_file(f, p) \in LiveAt(f, p)
<1>1. LiveAt(f, p) \subseteq FileId BY DEF LiveAt
<1>2. \E i \in LiveAt(f, p) : \A j \in LiveAt(f, p) : j <= i
  BY <1>1, FileIdAssumption
<1> QED BY <1>2 DEF listed_file

\* A lookup fails, or names an entry that is live at the path.
LEMMA FindCases ==
  ASSUME NEW f \in Files, NEW p \in Path
  PROVE  find_file_by_path(f, p) = None
         \/ /\ find_file_by_path(f, p) \in FileId
            /\ find_file_by_path(f, p) # None
            /\ f[find_file_by_path(f, p)].live
            /\ f[find_file_by_path(f, p)].path = p
<1>1. CASE LiveAt(f, p) = {} BY <1>1 DEF find_file_by_path
<1>2. CASE LiveAt(f, p) # {}
  <2>1. find_file_by_path(f, p) \in LiveAt(f, p) BY <1>2, FindType
  <2> QED BY <2>1, FileTreeAssumption DEF LiveAt
<1> QED BY <1>1, <1>2

\* The listing lacks a path, or names an entry that is live there.
LEMMA ListedCases ==
  ASSUME NEW f \in Files, NEW p \in Path
  PROVE  listed_file(f, p) = None
         \/ /\ listed_file(f, p) \in FileId
            /\ listed_file(f, p) # None
            /\ f[listed_file(f, p)].live
            /\ f[listed_file(f, p)].path = p
<1>1. CASE LiveAt(f, p) = {} BY <1>1 DEF listed_file
<1>2. CASE LiveAt(f, p) # {}
  <2>1. listed_file(f, p) \in LiveAt(f, p) BY <1>2, ListedType
  <2> QED BY <2>1, FileTreeAssumption DEF LiveAt
<1> QED BY <1>1, <1>2

\* Writing text yields a files map in which only one entry's text and kind, or
\* one unused entry, differ.
LEMMA WriteTextType ==
  ASSUME NEW f \in Files, NEW p \in Path, NEW s \in Text,
         NEW g \in write_text_file(f, p, s)
  PROVE  g \in Files
<1>1. CASE find_file_by_path(f, p) # None
  BY <1>1, FindCases DEF write_text_file, Files, Entry, Opt
<1>2. CASE find_file_by_path(f, p) = None
  <2>1. PICK j \in FileId : g = [f EXCEPT ![j] =
            [path |-> p, live |-> TRUE, kind |-> "text", content |-> s,
             binary_hash |-> None]]
    BY <1>2 DEF write_text_file, FreshIds
  <2>2. [path |-> p, live |-> TRUE, kind |-> "text", content |-> s,
         binary_hash |-> None] \in Entry
    BY DEF Entry, Opt
  <2> QED BY <2>1, <2>2 DEF Files
<1> QED BY <1>1, <1>2

\* So does writing an attachment, for its hash and kind.
LEMMA WriteAttachmentType ==
  ASSUME NEW f \in Files, NEW p \in Path, NEW h \in Content,
         NEW g \in write_attachment(f, p, h)
  PROVE  g \in Files
<1>1. CASE find_file_by_path(f, p) # None
  BY <1>1, FindCases DEF write_attachment, Files, Entry, Opt
<1>2. CASE find_file_by_path(f, p) = None
  <2>1. PICK j \in FileId : g = [f EXCEPT ![j] =
            [path |-> p, live |-> TRUE, kind |-> "attachment", content |-> None,
             binary_hash |-> h]]
    BY <1>2 DEF write_attachment, FreshIds
  <2>2. [path |-> p, live |-> TRUE, kind |-> "attachment", content |-> None,
         binary_hash |-> h] \in Entry
    BY DEF Entry, Opt
  <2> QED BY <2>1, <2>2 DEF Files
<1> QED BY <1>1, <1>2

\* A deletion yields a files map, the entry's bodies untouched.
LEMMA DeleteType ==
  ASSUME NEW f \in Files, NEW p \in Path, file_exists(f, p)
  PROVE  delete_file(f, p) \in Files
<1> DEFINE i == find_file_by_path(f, p)
<1>1. i \in FileId BY FindCases DEF file_exists
<1>2. [f[i] EXCEPT !.live = FALSE] \in Entry BY <1>1 DEF Files, Entry
<1>3. delete_file(f, p) = [f EXCEPT ![i] = [f[i] EXCEPT !.live = FALSE]]
  BY DEF delete_file
<1> QED BY <1>1, <1>2, <1>3 DEF Files

\* The text body of a path is some text or None.
LEMMA ReadFileType ==
  ASSUME NEW f \in Files, NEW p \in Path
  PROVE  read_file(f, p) \in Opt(Text)
BY FindCases DEF read_file, Files, Entry, Opt

-----------------------------------------------------------------------------
(* Sequences of marks.                                                     *)

\* Consuming a mark leaves a sequence of marks.
LEMMA RemoveAtType ==
  ASSUME NEW S, NEW s \in Seq(S), NEW i \in DOMAIN s
  PROVE  RemoveAt(s, i) \in Seq(S)
<1>1. i \in 1..Len(s) /\ Len(s) \in Nat OBVIOUS
<1>2. SubSeq(s, 1, i - 1) \in Seq(S) BY <1>1
<1>3. SubSeq(s, i + 1, Len(s)) \in Seq(S) BY <1>1
<1> QED BY <1>2, <1>3, ConcatProperties DEF RemoveAt

-----------------------------------------------------------------------------
(* Type correctness.                                                       *)

\* A change of the document is typed: its history stays a set of contents.
LEMMA CommitType ==
  ASSUME DocTypeOK, NEW f \in Files, NEW b \in SUBSET Content, Commit(f, b)
  PROVE  DocTypeOK'
<1>1. \A i \in FileId : f[i].content \in Opt(Text) /\ f[i].binary_hash \in Opt(Content)
  BY DEF Files, Entry
<1>2. History(f) \in [text : SUBSET Text, hash : SUBSET Content]
  BY <1>1 DEF DocTypeOK, History, Opt
<1> QED BY <1>2 DEF Commit, DocTypeOK

\* Raising an event keeps the queue a sequence of events.
LEMMA NotifyType ==
  ASSUME watch \in Seq(Event), NEW p \in Path, NEW ev \in {"touched", "removed"},
         Notify(p, ev)
  PROVE  watch' \in Seq(Event)
<1>1. [path |-> p, ev |-> ev] \in Event BY DEF Event
<1> QED BY <1>1, AppendProperties DEF Notify

\* A directory not bound yet is well typed.
LEMMA InitType == Init => TypeOK
<1> USE BindingAssumption, FileTreeAssumption
    DEF TypeOK, DocTypeOK, DiskTypeOK, EventTypeOK, IngTypeOK, MatTypeOK, MemTypeOK,
        EnvTypeOK
<1> SUFFICES ASSUME Init PROVE TypeOK OBVIOUS
<1>1. Unused \in Entry BY DEF Unused, Entry, Opt
<1> DEFINE Typed == /\ files \in Files /\ disk \in [Path -> Opt(Content)]
                    /\ held \in [text : SUBSET Text, hash : SUBSET Content]
<1>2. Typed
  <2>1. CASE NewVault BY <2>1, <1>1 DEF NewVault, Files, Opt, NoHash
  <2>2. ASSUME NEW i \in FileId, NEW p \in TextPath, NEW c \in Before, ClosedVault(i, p, c)
        PROVE  Typed
    <3>1. c \in Text /\ c \in Content /\ p \in Path BY DEF Content
    <3>2. [Unused EXCEPT !.path = p, !.live = TRUE, !.content = c] \in Entry
      BY <3>1 DEF Unused, Entry, Opt
    <3> QED BY <2>2, <3>1, <3>2, <1>1 DEF ClosedVault, Files, Opt, NoHash
  <2> QED BY <2>1, <2>2 DEF Init
<1> QED BY <1>2 DEF Init, Opt, NoHash, IdleIng, IdleMat, IngPc, MatPc

\* Every step of the user keeps the types.
LEMMA UserType == ASSUME TypeOK, User PROVE TypeOK'
<1> USE BindingAssumption
    DEF UserStep, docVars, memVars, envVars, TypeOK, DocTypeOK, DiskTypeOK, EventTypeOK,
        IngTypeOK, MatTypeOK, MemTypeOK, EnvTypeOK, Opt
<1>1. ASSUME NEW p \in Path, NEW c \in Content, Save(p, c) PROVE TypeOK'
  <2>1. watch' \in Seq(Event) BY <1>1, NotifyType DEF Save
  <2> QED BY <1>1, <2>1 DEF Save
<1>2. ASSUME NEW p \in Path, NEW c \in Content, FinishSave(p, c) PROVE TypeOK'
  <2>1. watch' \in Seq(Event) BY <1>2, NotifyType DEF FinishSave
  <2> QED BY <1>2, <2>1 DEF FinishSave
<1>3. ASSUME NEW p \in Path, Truncate(p) PROVE TypeOK'
  <2>1. watch' \in Seq(Event) BY <1>3, NotifyType DEF Truncate
  <2> QED BY <1>3, <2>1, FileTreeAssumption DEF Truncate, Content
<1>4. ASSUME NEW p \in Path, RemoveFile(p) PROVE TypeOK'
  <2>1. watch' \in Seq(Event) BY <1>4, NotifyType DEF RemoveFile
  <2> QED BY <1>4, <2>1 DEF RemoveFile
<1>5. ASSUME NEW p \in Path, MoveAway(p) PROVE TypeOK'
  <2>1. watch' \in Seq(Event) BY <1>5, NotifyType DEF MoveAway
  <2> QED BY <1>5, <2>1 DEF MoveAway
<1> QED
  <2> HIDE DEF TypeOK
  <2> QED BY <1>1, <1>2, <1>3, <1>4, <1>5 DEF User

\* A merge keeps the types.
LEMMA MergeType ==
  ASSUME TypeOK, NEW i \in FileId, receive_sync_message(i) PROVE TypeOK'
<1> USE DEF TypeOK
<1>1. files[i] \in Entry BY DEF DocTypeOK, Files
<1>2. ASSUME NEW e \in Entry, MergedInto(i, e) PROVE DocTypeOK'
  <2>1. [files EXCEPT ![i] = e] \in Files /\ blobs \in SUBSET Content
    BY DEF DocTypeOK, Files
  <2>2. Commit([files EXCEPT ![i] = e], blobs) BY <1>2 DEF MergedInto
  <2> QED BY <2>1, <2>2, CommitType
<1>3. ASSUME NEW q \in Path, NEW c \in Text
      PROVE [files[i] EXCEPT !.path = q, !.live = TRUE, !.kind = "text", !.content = c]
              \in Entry
  BY <1>1 DEF Entry, Opt
<1>4. ASSUME NEW q \in Path, NEW c \in Bin
      PROVE [files[i] EXCEPT !.path = q, !.live = TRUE, !.kind = "attachment",
                             !.binary_hash = c] \in Entry
  BY <1>1 DEF Entry, Opt, Content
<1>5. [files[i] EXCEPT !.live = FALSE] \in Entry BY <1>1 DEF Entry
<1>6. DocTypeOK'
  BY <1>2, <1>3, <1>4, <1>5, Zenon DEF receive_sync_message
<1>7. /\ merges < MaxMerge /\ merges' = merges + 1
      /\ UNCHANGED <<saved, disk, watch, pending, ing, mat, memVars, phase, scan,
                     editing, saves, faults, crashes>>
  BY DEF receive_sync_message
<1> QED BY <1>6, <1>7, BindingAssumption
  DEF memVars, DiskTypeOK, EventTypeOK, IngTypeOK, MatTypeOK, MemTypeOK, EnvTypeOK

\* The fs loop's steps keep the types.
LEMMA FsLoopType == ASSUME TypeOK, FsLoop PROVE TypeOK'
<1> USE DEF TypeOK
<1>1. /\ DiskTypeOK' /\ MatTypeOK' /\ EnvTypeOK' /\ MemTypeOK'
  BY DEF FsLoop, Receive, flush_expired, dispatch_fs_event, CheckRemoved, DeleteFromDoc,
         FsLoopUnchanged, memVars, envVars, DiskTypeOK, MatTypeOK, EnvTypeOK, MemTypeOK
<1>2. EventTypeOK'
  <2>1. CASE Receive
    <3>1. /\ Head(watch) \in Event /\ watch' \in Seq(Event)
      BY <2>1, HeadTailProperties DEF Receive, EventTypeOK
    <3> QED BY <2>1, <3>1 DEF Receive, EventTypeOK, Event, Opt
  <2>2. CASE ~Receive
    BY <2>2 DEF FsLoop, flush_expired, dispatch_fs_event, CheckRemoved, DeleteFromDoc,
                EventTypeOK, Opt
  <2> QED BY <2>1, <2>2
<1>3. IngTypeOK'
  <2> USE DEF IngTypeOK, IngPc, Opt
  <2>1. CASE Receive BY <2>1 DEF Receive
  <2>2. ASSUME NEW batch \in SUBSET Path, flush_expired(batch) PROVE IngTypeOK'
    BY <2>2 DEF flush_expired
  <2>3. ASSUME NEW p \in Path, dispatch_fs_event(p) PROVE IngTypeOK'
    BY <2>3 DEF dispatch_fs_event
  <2>4. CASE CheckRemoved
    <3>1. ing.pc = "exists" /\ (Handled \/ Goto("delete")) BY <2>4 DEF CheckRemoved
    <3> QED BY <3>1 DEF Handled, Goto
  <2>5. CASE DeleteFromDoc
    <3>1. Handled BY <2>5 DEF DeleteFromDoc
    <3> QED BY <3>1 DEF Handled
  <2> QED
    <3> HIDE DEF IngTypeOK
    <3> QED BY <2>1, <2>2, <2>3, <2>4, <2>5 DEF FsLoop
<1>4. DocTypeOK'
  <2>1. CASE DeleteFromDoc
    <3>1. CASE file_exists(files, ing.path)
      <4>1. ing.path \in Path BY <2>1 DEF DeleteFromDoc, IngTypeOK
      <4>2. delete_file(files, ing.path) \in Files /\ blobs \in SUBSET Content
        BY <3>1, <4>1, DeleteType DEF DocTypeOK
      <4> QED BY <2>1, <3>1, <4>2, CommitType DEF DeleteFromDoc
    <3>2. CASE ~file_exists(files, ing.path)
      BY <2>1, <3>2 DEF DeleteFromDoc, docVars, DocTypeOK
    <3> QED BY <3>1, <3>2
  <2>2. CASE ~DeleteFromDoc
    BY <2>2 DEF FsLoop, Receive, flush_expired, dispatch_fs_event, CheckRemoved, docVars,
                DocTypeOK
  <2> QED BY <2>1, <2>2
<1> QED BY <1>1, <1>2, <1>3, <1>4

\* The bytes of a file that is there are typed.
LEMMA TakeType ==
  ASSUME TypeOK, ing.path \in Path, disk[ing.path] # None, Take
  PROVE  IngTypeOK'
<1>1. PICK t : t \in BOOLEAN /\ t = (ing.path \in editing)
  <2>1. (ing.path \in editing) \in BOOLEAN OBVIOUS
  <2> QED BY <2>1, Zenon
<1>2. ing' = [ing EXCEPT !.pc = "check", !.bytes = disk[ing.path], !.torn = t]
  BY <1>1 DEF Take
<1>3. disk[ing.path] \in Content BY DEF TypeOK, DiskTypeOK, Opt
<1>4. IngTypeOK BY DEF TypeOK
<1> QED BY <1>1, <1>2, <1>3, <1>4 DEF IngTypeOK, IngPc, Opt

\* The steps of ingest_file keep the types.
LEMMA IngestType == ASSUME TypeOK, IngestFile PROVE TypeOK'
<1> USE DEF TypeOK
<1>1. /\ DiskTypeOK' /\ MatTypeOK' /\ EnvTypeOK' /\ EventTypeOK'
  BY DEF IngestFile, ReadDisk, RereadDisk, check_and_consume, Compare, WriteText,
         WriteAttachment, RecordMaterialized, RecordIngested, FsLoopUnchanged, envVars,
         DiskTypeOK, MatTypeOK, EnvTypeOK, EventTypeOK
<1>2. IngTypeOK'
  <2> USE DEF IngTypeOK, IngPc, Opt, Handled, Goto, Take
  <2>1. CASE ReadDisk
    <3> HIDE DEF Take
    <3>1. /\ ing.pc = "read" /\ ing.path \in Path
          /\ \/ Handled \/ Goto("reread")
             \/ disk[ing.path] # None /\ Take
      BY <2>1 DEF ReadDisk
    <3>2. CASE disk[ing.path] # None /\ Take BY <3>1, <3>2, TakeType
    <3>3. CASE Handled \/ Goto("reread") BY <3>1, <3>3
    <3> QED BY <3>1, <3>2, <3>3
  <2>2. CASE RereadDisk
    <3> HIDE DEF Take
    <3>1. /\ ing.pc = "reread" /\ ing.path \in Path
          /\ Handled \/ (disk[ing.path] # None /\ Take)
      BY <2>2 DEF RereadDisk
    <3>2. CASE disk[ing.path] # None /\ Take BY <3>1, <3>2, TakeType
    <3>3. CASE Handled BY <3>1, <3>3
    <3> QED BY <3>1, <3>2, <3>3
  <2>3. CASE check_and_consume
    <3>1. /\ ing.pc = "check"
          /\ Handled \/ Goto("attach") \/ (ing.bytes \in Text /\ Goto("compare"))
      BY <2>3 DEF check_and_consume
    <3> QED BY <3>1
  <2>4. CASE Compare BY <2>4 DEF Compare
  <2>5. CASE WriteText BY <2>5 DEF WriteText
  <2>6. CASE WriteAttachment BY <2>6 DEF WriteAttachment
  <2>7. CASE RecordMaterialized BY <2>7 DEF RecordMaterialized
  <2>8. CASE RecordIngested BY <2>8 DEF RecordIngested
  <2> QED
    <3> HIDE DEF IngTypeOK
    <3> QED BY <2>1, <2>2, <2>3, <2>4, <2>5, <2>6, <2>7, <2>8 DEF IngestFile
<1>3. DocTypeOK'
  <2>1. CASE WriteText
    <3>1. ing.path \in Path /\ ing.bytes \in Text /\ blobs \in SUBSET Content
      BY <2>1 DEF WriteText, IngTypeOK, DocTypeOK
    <3>2. PICK f \in write_text_file(files, ing.path, ing.bytes) : Commit(f, blobs)
      BY <2>1 DEF WriteText
    <3>3. f \in Files BY <3>1, WriteTextType DEF DocTypeOK
    <3> QED BY <3>1, <3>2, <3>3, CommitType
  <2>2. CASE WriteAttachment
    <3>1. /\ ing.path \in Path /\ ing.bytes \in Content
          /\ blobs \cup {ing.bytes} \in SUBSET Content
      BY <2>2 DEF WriteAttachment, IngTypeOK, DocTypeOK
    <3>2. PICK f \in write_attachment(files, ing.path, ing.bytes) :
            Commit(f, blobs \cup {ing.bytes})
      BY <2>2 DEF WriteAttachment
    <3>3. f \in Files BY <3>1, WriteAttachmentType DEF DocTypeOK
    <3> QED BY <3>1, <3>2, <3>3, CommitType
  <2>3. CASE ~WriteText /\ ~WriteAttachment
    BY <2>3 DEF IngestFile, ReadDisk, RereadDisk, check_and_consume, Compare,
         RecordMaterialized, RecordIngested, docVars, DocTypeOK
  <2> QED BY <2>1, <2>2, <2>3
<1>4. MemTypeOK'
  <2>1. CASE check_and_consume
    <3>1. ing.path \in Path /\ dirty[ing.path] \in Seq(Content)
      BY <2>1 DEF check_and_consume, IngTypeOK, MemTypeOK
    <3>2. \A k \in DOMAIN dirty[ing.path] : RemoveAt(dirty[ing.path], k) \in Seq(Content)
      BY <3>1, RemoveAtType
    <3>3. \/ dirty' = dirty
          \/ \E k \in DOMAIN dirty[ing.path] :
               dirty' = [dirty EXCEPT ![ing.path] = RemoveAt(@, k)]
      BY <2>1 DEF check_and_consume
    <3>4. dirty' \in [Path -> Seq(Content)] BY <3>1, <3>2, <3>3 DEF MemTypeOK
    <3> QED BY <2>1, <3>4 DEF check_and_consume, MemTypeOK
  <2>2. CASE RecordMaterialized \/ RecordIngested
    BY <2>2 DEF RecordMaterialized, RecordIngested, MemTypeOK, IngTypeOK, Opt
  <2>3. CASE ReadDisk \/ RereadDisk \/ Compare \/ WriteText \/ WriteAttachment
    BY <2>3 DEF ReadDisk, RereadDisk, Compare, WriteText, WriteAttachment, memVars, MemTypeOK
  <2> QED BY <2>1, <2>2, <2>3 DEF IngestFile
<1> QED BY <1>1, <1>2, <1>3, <1>4

\* What the materializer wants on disk is some content or nothing.
LEMMA TargetType ==
  ASSUME TypeOK, NEW p \in Path, mat.live[p] # None
  PROVE  Target(p) \in Opt(Content)
<1>1. mat.live[p] \in Meta BY DEF TypeOK, MatTypeOK, Opt
<1>2. read_file_id(files, mat.live[p].id) \in Opt(Text)
  BY <1>1 DEF read_file_id, TypeOK, DocTypeOK, Files, Entry, Meta
<1> QED BY <1>1, <1>2, FileTreeAssumption
        DEF Target, TypeOK, DocTypeOK, Content, Opt, Meta

\* The materializer's steps keep the types.
LEMMA MaterializerType == ASSUME TypeOK, Materializer \/ MatFails PROVE TypeOK'
<1> USE DEF TypeOK
<1>1. DocTypeOK' /\ IngTypeOK'
  BY DEF Materializer, MatBegin, MatCloneMaterialized, MatCloneIngested, MatCheckDelete,
         MatDelete, MatTarget, MatReadDisk, MatWrite, MatRecord, MatRetainMaterialized,
         MatRetainIngested, MatFails, MatUnchanged, docVars, DocTypeOK, IngTypeOK
<1>2. EnvTypeOK'
  <2>1. /\ phase' \in {phase, "running"} /\ UNCHANGED <<scan, editing, saves, merges>>
        /\ UNCHANGED crashes
    BY DEF Materializer, MatBegin, MatCloneMaterialized, MatCloneIngested, MatCheckDelete,
         MatDelete, MatTarget, MatReadDisk, MatWrite, MatRecord, MatRetainMaterialized,
         MatRetainIngested, MatFails, MatUnchanged, envVars
  <2>2. CASE MatFails BY <2>1, <2>2, BindingAssumption DEF MatFails, EnvTypeOK
  <2>3. CASE Materializer
    <3>1. UNCHANGED faults
      BY <2>3 DEF Materializer, MatBegin, MatCloneMaterialized, MatCloneIngested,
           MatCheckDelete, MatDelete, MatTarget, MatReadDisk, MatWrite, MatRecord,
           MatRetainMaterialized, MatRetainIngested, envVars
    <3> QED BY <2>1, <3>1 DEF EnvTypeOK
  <2> QED BY <2>2, <2>3
<1>3. MatTypeOK'
  <2> USE DEF MatTypeOK, MatPc, Opt, Step, Skip
  <2>1. CASE MatBegin
    <3> DEFINE i(p) == listed_file(files, p)
               live == [p \in Path |-> IF i(p) = None THEN None
                         ELSE [id |-> i(p), kind |-> files[i(p)].kind,
                               binary_hash |-> files[i(p)].binary_hash]]
    <3>1. ASSUME NEW p \in Path PROVE live[p] \in Opt(Meta)
      <4>1. i(p) = None \/ i(p) \in FileId BY ListedCases DEF DocTypeOK
      <4>2. CASE i(p) = None BY <4>2
      <4>3. CASE i(p) # None
        <5>1. files[i(p)] \in Entry BY <4>1, <4>3 DEF DocTypeOK, Files
        <5> QED BY <4>1, <4>3, <5>1 DEF Meta, Entry
      <4> QED BY <4>2, <4>3
    <3>2. live \in [Path -> Opt(Meta)] BY <3>1
    <3>3. mat' = [mat EXCEPT !.pc = "materialized", !.live = live]
      BY <2>1 DEF MatBegin
    <3> HIDE DEF live
    <3> QED BY <3>2, <3>3
  <2>2. CASE MatCloneMaterialized BY <2>2 DEF MatCloneMaterialized, MemTypeOK
  <2>3. CASE MatCloneIngested BY <2>3 DEF MatCloneIngested, MemTypeOK
  <2>4. ASSUME NEW p \in Path, MatCheckDelete(p) PROVE MatTypeOK'
    <3>1. disk[p] \in Opt(Content) BY DEF DiskTypeOK
    <3> DEFINE r == [mat EXCEPT !.pc = "delete", !.path = p, !.seen = disk[p]]
    <3>2. mat' = Skip(p) \/ mat' = r BY <2>4 DEF MatCheckDelete
    <3>3. CASE mat' = Skip(p) BY <3>3
    <3>4. CASE mat' = r BY <3>1, <3>4
    <3> QED BY <3>2, <3>3, <3>4
  <2>5. ASSUME NEW p \in Path, MatTarget(p) PROVE MatTypeOK'
    <3>1. Target(p) \in Opt(Content) BY <2>5, TargetType DEF MatTarget
    <3> QED BY <2>5, <3>1 DEF MatTarget
  <2>6. CASE MatDelete BY <2>6 DEF MatDelete
  <2>7. CASE MatReadDisk
    <3>1. disk[mat.path] \in Opt(Content) BY <2>7 DEF MatReadDisk, DiskTypeOK
    <3>2. /\ mat.pc = "disk"
          /\ \/ mat' = [mat EXCEPT !.pc = "record"]
             \/ mat' = Skip(mat.path)
             \/ mat' = [mat EXCEPT !.pc = "write", !.seen = disk[mat.path]]
      BY <2>7 DEF MatReadDisk
    <3>3. mat.path \in Path /\ mat.target \in Content BY <3>2
    <3>4. CASE mat' = [mat EXCEPT !.pc = "record"] BY <3>3, <3>4
    <3>5. CASE mat' = Skip(mat.path) BY <3>5
    <3>6. CASE mat' = [mat EXCEPT !.pc = "write", !.seen = disk[mat.path]]
      BY <3>1, <3>3, <3>6
    <3> QED BY <3>2, <3>4, <3>5, <3>6
  <2>8. CASE MatWrite BY <2>8 DEF MatWrite
  <2>9. CASE MatRecord BY <2>9 DEF MatRecord
  <2>10. CASE MatRetainMaterialized BY <2>10 DEF MatRetainMaterialized
  <2>11. CASE MatRetainIngested BY <2>11 DEF MatRetainIngested, IdleMat, NoHash
  <2>12. CASE MatFails BY <2>12 DEF MatFails
  <2> QED
    <3> HIDE DEF MatTypeOK, MatPc, Opt, Step, Skip, TypeOK
    <3> QED BY <2>1, <2>2, <2>3, <2>4, <2>5, <2>6, <2>7, <2>8, <2>9, <2>10, <2>11, <2>12,
               Zenon DEF Materializer
<1>4. DiskTypeOK' /\ EventTypeOK'
  <2>1. CASE MatDelete
    <3>1. mat.path \in Path BY <2>1 DEF MatDelete, MatTypeOK
    <3>2. watch' \in Seq(Event) BY <2>1, <3>1, NotifyType DEF MatDelete, EventTypeOK
    <3> QED BY <2>1, <3>1, <3>2 DEF MatDelete, MatUnchanged, DiskTypeOK, EventTypeOK, Opt
  <2>2. CASE MatWrite
    <3>1. mat.path \in Path /\ mat.target \in Content BY <2>2 DEF MatWrite, MatTypeOK
    <3>2. watch' \in Seq(Event) BY <2>2, <3>1, NotifyType DEF MatWrite, EventTypeOK
    <3> QED BY <2>2, <3>1, <3>2 DEF MatWrite, MatUnchanged, DiskTypeOK, EventTypeOK, Opt
  <2>3. CASE ~MatDelete /\ ~MatWrite
    BY <2>3 DEF Materializer, MatBegin, MatCloneMaterialized, MatCloneIngested,
         MatCheckDelete, MatTarget, MatReadDisk, MatRecord, MatRetainMaterialized,
         MatRetainIngested, MatFails, MatUnchanged, DiskTypeOK, EventTypeOK
  <2> QED BY <2>1, <2>2, <2>3
<1>5. MemTypeOK'
  <2>1. CASE MatReadDisk
    <3>1. /\ mat.path \in Path /\ mat.target \in Content
          /\ dirty[mat.path] \in Seq(Content)
      BY <2>1 DEF MatReadDisk, MatTypeOK, MemTypeOK
    <3>2. Append(dirty[mat.path], mat.target) \in Seq(Content)
      BY <3>1, AppendProperties
    <3>3. dirty' \in [Path -> Seq(Content)]
      BY <2>1, <3>1, <3>2 DEF MatReadDisk, mark, MemTypeOK
    <3> QED BY <2>1, <3>3 DEF MatReadDisk, MemTypeOK
  <2>2. CASE MatRecord BY <2>2 DEF MatRecord, MatTypeOK, MemTypeOK, Opt
  <2>3. CASE MatRetainMaterialized \/ MatRetainIngested
    BY <2>3 DEF MatRetainMaterialized, MatRetainIngested, Retain, MemTypeOK, Opt
  <2>4. CASE ~(MatReadDisk \/ MatRecord \/ MatRetainMaterialized \/ MatRetainIngested)
    BY <2>4 DEF Materializer, MatBegin, MatCloneMaterialized, MatCloneIngested,
         MatCheckDelete, MatTarget, MatDelete, MatWrite, MatFails, memVars, MemTypeOK
  <2> QED BY <2>1, <2>2, <2>3, <2>4
<1> QED BY <1>1, <1>2, <1>3, <1>4, <1>5

\* Saving, mark expiry, crash, restart and the initial scan keep the types.
LEMMA ProcessType ==
  ASSUME TypeOK,
         SaveDoc \/ Crash \/ Restart \/ ScanDone
           \/ \E p \in Path : ExpireMark(p) \/ initial_scan(p)
  PROVE  TypeOK'
<1> USE BindingAssumption
    DEF docVars, memVars, envVars, TypeOK, DocTypeOK, DiskTypeOK, EventTypeOK,
        IngTypeOK, MatTypeOK, MemTypeOK, EnvTypeOK, Opt
<1>1. CASE SaveDoc BY <1>1 DEF SaveDoc
<1>2. CASE Crash BY <1>2 DEF Crash, IdleIng, IdleMat, NoHash, IngPc, MatPc
<1>3. CASE Restart BY <1>3 DEF Restart
<1>4. CASE ScanDone BY <1>4 DEF ScanDone
<1>5. ASSUME NEW p \in Path, ExpireMark(p) PROVE TypeOK'
  <2>1. Tail(dirty[p]) \in Seq(Content) BY <1>5, HeadTailProperties DEF ExpireMark
  <2> QED BY <1>5, <2>1 DEF ExpireMark
<1>6. ASSUME NEW p \in Path, initial_scan(p) PROVE TypeOK'
  BY <1>6 DEF initial_scan, IngPc
<1> QED
  <2> HIDE DEF TypeOK
  <2> QED BY <1>1, <1>2, <1>3, <1>4, <1>5, <1>6

\* Every step of the specification keeps the types.
LEMMA StepType == ASSUME TypeOK, [Next]_vars PROVE TypeOK'
<1>1. CASE Next
  <2>1. CASE \E i \in FileId : receive_sync_message(i) BY <2>1, MergeType
  <2> QED BY <1>1, <2>1, UserType, FsLoopType, IngestType, MaterializerType, ProcessType
          DEF Next
<1>2. CASE UNCHANGED vars
  BY <1>2 DEF vars, docVars, memVars, envVars, TypeOK, DocTypeOK, DiskTypeOK, EventTypeOK,
              IngTypeOK, MatTypeOK, MemTypeOK, EnvTypeOK
<1> QED BY <1>1, <1>2

\* Every reachable state is well typed, for every set of paths, ids and contents.
THEOREM TypeCorrect == Spec => []TypeOK
<1>1. Init => TypeOK BY InitType
<1>2. TypeOK /\ [Next]_vars => TypeOK' BY StepType
<1> QED BY <1>1, <1>2, PTL DEF Spec

-----------------------------------------------------------------------------
(* Nothing the mirror overwrites or suppresses is a last copy.             *)

USE DEF RecordPc

\* Only a crash takes anything out of the history or the blob store.
LEMMA CommitKeepsHistory ==
  ASSUME TypeOK, NEW f \in Files, NEW b \in SUBSET Content, Commit(f, b), blobs \subseteq b
  PROVE  /\ held.text \subseteq held'.text /\ held.hash \subseteq held'.hash
         /\ Recoverable \subseteq Recoverable'
         /\ \A i \in FileId : /\ files'[i].content \in Opt(held'.text)
                              /\ files'[i].binary_hash \in Opt(held'.hash)
<1>1. /\ held.text \subseteq held'.text /\ held.hash \subseteq held'.hash
      /\ \A i \in FileId : /\ files'[i].content \in Opt(held'.text)
                           /\ files'[i].binary_hash \in Opt(held'.hash)
  BY DEF Commit, History, Opt
<1>2. blobs \subseteq blobs' BY DEF Commit
<1> QED BY <1>1, <1>2 DEF Recoverable

\* Writing text keeps every body an entry has, and the text is in the result.
LEMMA WriteTextKeeps ==
  ASSUME NEW f \in Files, NEW p \in Path, NEW s \in Text,
         NEW g \in write_text_file(f, p, s)
  PROVE  /\ \A i \in FileId : f[i].content # None => g[i].content # None
         /\ \A i \in FileId : g[i].kind = "text" /\ g[i].path # None
              => g[i].content # None \/ (g[i].path = f[i].path /\ g[i].kind = f[i].kind)
         /\ \E i \in FileId : g[i].content = s
<1> USE FileTreeAssumption DEF Content
<1>1. CASE find_file_by_path(f, p) # None
  BY <1>1, FindCases DEF write_text_file, Files, Entry, Opt
<1>2. CASE find_file_by_path(f, p) = None
  <2>1. PICK j \in FileId : g = [f EXCEPT ![j] =
            [path |-> p, live |-> TRUE, kind |-> "text", content |-> s,
             binary_hash |-> None]]
    BY <1>2 DEF write_text_file, FreshIds
  <2> QED BY <2>1 DEF Files
<1> QED BY <1>1, <1>2

\* Writing an attachment keeps every text body, and its hash is in the result.
LEMMA WriteAttachmentKeeps ==
  ASSUME NEW f \in Files, NEW p \in Path, NEW h \in Content,
         NEW g \in write_attachment(f, p, h)
  PROVE  /\ \A i \in FileId : f[i].content # None => g[i].content # None
         /\ \A i \in FileId : g[i].kind = "text" /\ g[i].path # None
              => g[i].path = f[i].path /\ g[i].kind = f[i].kind
         /\ \E i \in FileId : g[i].binary_hash = h
<1>1. CASE find_file_by_path(f, p) # None
  BY <1>1, FindCases DEF write_attachment, Files, Entry, Opt
<1>2. CASE find_file_by_path(f, p) = None
  <2>1. PICK j \in FileId : /\ f[j] = Unused
          /\ g = [f EXCEPT ![j] =
               [path |-> p, live |-> TRUE, kind |-> "attachment", content |-> None,
                binary_hash |-> h]]
    BY <1>2 DEF write_attachment, FreshIds
  <2> QED BY <2>1 DEF Files, Unused
<1> QED BY <1>1, <1>2

\* A tombstone keeps the bodies that the history holds.
LEMMA DeleteKeeps ==
  ASSUME NEW f \in Files, NEW p \in Path, file_exists(f, p)
  PROVE  \A i \in FileId : /\ delete_file(f, p)[i].content = f[i].content
                           /\ delete_file(f, p)[i].path = f[i].path
                           /\ delete_file(f, p)[i].kind = f[i].kind
<1> DEFINE i == find_file_by_path(f, p)
<1>1. i \in FileId BY FindCases DEF file_exists
<1>2. delete_file(f, p) = [f EXCEPT ![i] = [f[i] EXCEPT !.live = FALSE]]
  BY DEF delete_file
<1>3. f[i] \in Entry BY <1>1 DEF Files
<1>4. /\ [f[i] EXCEPT !.live = FALSE].content = f[i].content
      /\ [f[i] EXCEPT !.live = FALSE].path = f[i].path
      /\ [f[i] EXCEPT !.live = FALSE].kind = f[i].kind
  BY <1>3 DEF Entry
<1> HIDE DEF i
<1> QED BY <1>1, <1>2, <1>4 DEF Files

\* A document change that takes no body away, leaves the tasks and their maps as
\* they are, and gives every text entry a body keeps the whole invariant, except
\* that the handler in flight is its caller's concern.
LEMMA CommitKeeps ==
  ASSUME IInv, TypeOK', NEW f \in Files, NEW b \in SUBSET Content, Commit(f, b),
         blobs \subseteq b, UNCHANGED <<saved, mat, memVars>>,
         \A i \in FileId : files[i].content # None => f[i].content # None,
         \A i \in FileId : f[i].kind = "text" /\ f[i].path # None
           => f[i].content # None \/ (f[i].path = files[i].path /\ f[i].kind = files[i].kind)
  PROVE  /\ DocIsHeld' /\ SnapshotIsHeld' /\ SafeHashes' /\ MarksAreRecoverable'
         /\ mat'.pc \in {"disk", "write", "record"} => mat'.target \in Recoverable'
         /\ mat'.pc \in {"write", "delete"} => mat'.seen \in Opt(Recoverable')
<1> USE DEF IInv
<1>1. /\ held.text \subseteq held'.text /\ held.hash \subseteq held'.hash
      /\ Recoverable \subseteq Recoverable'
      /\ \A i \in FileId : /\ files'[i].content \in Opt(held'.text)
                           /\ files'[i].binary_hash \in Opt(held'.hash)
  BY CommitKeepsHistory
<1>2. files' = f BY DEF Commit
<1>3. DocIsHeld'
  <2>1. \A i \in FileId :
          files'[i].path # None /\ files'[i].kind = "text" => files'[i].content # None
    BY <1>2 DEF DocIsHeld, HistoryHolds
  <2> QED BY <1>1, <2>1 DEF DocIsHeld, HistoryHolds
<1>4. SnapshotIsHeld'
  <2> SUFFICES ASSUME NEW p \in Path, mat.live[p] # None
      PROVE  /\ mat.live[p].binary_hash \in Opt(held'.hash)
             /\ mat.live[p].kind = "text" => files'[mat.live[p].id].content # None
    BY DEF SnapshotIsHeld
  <2>1. mat.live[p] \in Meta BY DEF TypeOK, MatTypeOK, Opt
  <2> QED BY <1>1, <1>2, <2>1 DEF SnapshotIsHeld, Opt, Meta
<1>5. SafeHashes' BY <1>1 DEF SafeHashes, memVars, Opt
<1>6. MarksAreRecoverable' BY <1>1, SeqMonotonic DEF MarksAreRecoverable, memVars
<1>7. /\ mat'.pc \in {"disk", "write", "record"} => mat'.target \in Recoverable'
      /\ mat'.pc \in {"write", "delete"} => mat'.seen \in Opt(Recoverable')
  BY <1>1 DEF InFlightIsHeld, Opt
<1> QED BY <1>3, <1>4, <1>5, <1>6, <1>7

\* A step that leaves the document, its history and the materializer alone keeps
\* what is said of them.
LEMMA Frame ==
  ASSUME IInv, UNCHANGED <<docVars, saved, mat>>
  PROVE  /\ Recoverable' = Recoverable /\ DocIsHeld' /\ SnapshotIsHeld'
         /\ mat'.pc \in {"disk", "write", "record"} => mat'.target \in Recoverable'
         /\ mat'.pc \in {"write", "delete"} => mat'.seen \in Opt(Recoverable')
<1>1. Recoverable' = Recoverable BY DEF Recoverable, docVars
<1> QED BY <1>1 DEF IInv, docVars, DocIsHeld, HistoryHolds, SnapshotIsHeld, InFlightIsHeld

\* With no document history there is nothing in flight and nothing marked.
LEMMA InitIInv == Init => IInv
<1> SUFFICES ASSUME Init PROVE IInv OBVIOUS
<1>1. TypeOK BY InitType
<1>2. HistoryHolds(files, held)
  <2>1. CASE NewVault BY <2>1 DEF NewVault, HistoryHolds, Unused, Opt
  <2>2. ASSUME NEW i \in FileId, NEW p \in TextPath, NEW c \in Before, ClosedVault(i, p, c)
        PROVE  HistoryHolds(files, held)
    <3>1. c # None BY BindingAssumption, FileTreeAssumption DEF Content
    <3> QED BY <2>2, <3>1 DEF ClosedVault, HistoryHolds, Unused, Opt
  <2> QED BY <2>1, <2>2 DEF Init
<1>6. DocIsHeld /\ SnapshotIsHeld
  BY <1>2 DEF Init, DocIsHeld, SnapshotIsHeld, Opt, IdleMat, NoHash
<1>3. InFlightIsHeld BY DEF Init, InFlightIsHeld, IdleMat, IdleIng
<1>4. SafeHashes BY DEF Init, SafeHashes, IdleMat, NoHash, Opt
<1>5. MarksAreRecoverable BY EmptySeq DEF Init, MarksAreRecoverable
<1> QED BY <1>1, <1>6, <1>3, <1>4, <1>5 DEF IInv

\* The user changes only the disk and its events.
LEMMA UserSafe == ASSUME IInv, User PROVE IInv'
<1>1. UNCHANGED <<docVars, saved, ing, mat, memVars>>
  BY DEF User, Save, FinishSave, Truncate, RemoveFile, MoveAway, UserStep
<1>2. TypeOK' BY UserType DEF IInv
<1>3. Recoverable' = Recoverable BY <1>1, Frame
<1>4. SafeHashes' /\ MarksAreRecoverable'
  BY <1>1, <1>3 DEF IInv, SafeHashes, MarksAreRecoverable, memVars
<1>5. InFlightIsHeld' BY <1>1, <1>3 DEF IInv, InFlightIsHeld
<1> QED BY <1>1, <1>2, <1>4, <1>5, Frame DEF IInv

\* A merge brings bodies and takes none out of the history.
LEMMA MergeSafe ==
  ASSUME IInv, NEW i \in FileId, receive_sync_message(i) PROVE IInv'
<1>1. TypeOK' BY MergeType DEF IInv
<1>2. UNCHANGED <<saved, mat, memVars, ing>> BY DEF receive_sync_message
<1>3. files[i] \in Entry /\ files \in Files /\ blobs \in SUBSET Content
  BY DEF IInv, TypeOK, DocTypeOK, Files
<1>4. PICK e \in Entry :
        /\ MergedInto(i, e)
        /\ files[i].content # None => e.content # None
        /\ e.kind = "text" => e.content # None
                              \/ (e.path = files[i].path /\ e.kind = files[i].kind)
  <2>1. ASSUME NEW q \in Path, NEW c \in Text
        PROVE  LET d == [files[i] EXCEPT !.path = q, !.live = TRUE, !.kind = "text",
                                         !.content = c]
               IN d \in Entry /\ d.content # None
    BY <1>3, FileTreeAssumption DEF Entry, Opt, Content
  <2>2. ASSUME NEW q \in Path, NEW c \in Bin
        PROVE  LET d == [files[i] EXCEPT !.path = q, !.live = TRUE, !.kind = "attachment",
                                         !.binary_hash = c]
               IN d \in Entry /\ d.kind = "attachment" /\ d.content = files[i].content
    BY <1>3 DEF Entry, Opt, Content
  <2>3. LET d == [files[i] EXCEPT !.live = FALSE]
        IN  /\ d \in Entry /\ d.content = files[i].content
            /\ d.path = files[i].path /\ d.kind = files[i].kind
    BY <1>3 DEF Entry
  <2>4. CASE \E q \in Path, c \in Text :
               MergedInto(i, [files[i] EXCEPT !.path = q, !.live = TRUE, !.kind = "text",
                                              !.content = c])
    BY <2>1, <2>4
  <2>5. CASE \E q \in Path, c \in Bin :
               MergedInto(i, [files[i] EXCEPT !.path = q, !.live = TRUE,
                                              !.kind = "attachment", !.binary_hash = c])
    <3>1. PICK q \in Path, c \in Bin :
            MergedInto(i, [files[i] EXCEPT !.path = q, !.live = TRUE,
                                           !.kind = "attachment", !.binary_hash = c])
      BY <2>5
    <3> DEFINE d == [files[i] EXCEPT !.path = q, !.live = TRUE, !.kind = "attachment",
                                     !.binary_hash = c]
    <3>2. d \in Entry /\ d.kind = "attachment" /\ d.content = files[i].content BY <2>2
    <3>3. MergedInto(i, d) BY <3>1
    <3> HIDE DEF d
    <3> QED BY <3>2, <3>3
  <2>6. CASE MergedInto(i, [files[i] EXCEPT !.live = FALSE]) BY <2>3, <2>6
  <2> QED BY <2>4, <2>5, <2>6 DEF receive_sync_message
<1> DEFINE f == [files EXCEPT ![i] = e]
<1>5. f \in Files /\ Commit(f, blobs) BY <1>3, <1>4 DEF MergedInto, Files
<1>6. /\ \A j \in FileId : files[j].content # None => f[j].content # None
      /\ \A j \in FileId : f[j].kind = "text" /\ f[j].path # None
           => f[j].content # None \/ (f[j].path = files[j].path /\ f[j].kind = files[j].kind)
  BY <1>3, <1>4 DEF Files
<1> HIDE DEF f
<1>7. /\ DocIsHeld' /\ SnapshotIsHeld' /\ SafeHashes' /\ MarksAreRecoverable'
      /\ mat'.pc \in {"disk", "write", "record"} => mat'.target \in Recoverable'
      /\ mat'.pc \in {"write", "delete"} => mat'.seen \in Opt(Recoverable')
  BY <1>1, <1>2, <1>3, <1>5, <1>6, CommitKeeps
<1>8. Recoverable \subseteq Recoverable'
  BY <1>3, <1>5, CommitKeepsHistory DEF IInv
<1> QED BY <1>1, <1>2, <1>7, <1>8 DEF IInv, InFlightIsHeld

\* The fs loop only queues events, and deletes by tombstone.
LEMMA FsLoopSafe == ASSUME IInv, FsLoop PROVE IInv'
<1>1. TypeOK' BY FsLoopType DEF IInv
<1>2. UNCHANGED <<saved, mat, memVars>> /\ ing'.pc \notin RecordPc
  <2>1. UNCHANGED <<saved, mat, memVars>>
    BY DEF FsLoop, Receive, flush_expired, dispatch_fs_event, CheckRemoved, DeleteFromDoc,
           FsLoopUnchanged
  <2>2. ing'.pc \in {"idle", "read", "exists", "delete"}
    BY DEF FsLoop, Receive, flush_expired, dispatch_fs_event, CheckRemoved, DeleteFromDoc,
           Handled, Goto, IInv, TypeOK, IngTypeOK
  <2> QED BY <2>1, <2>2
<1>3. CASE DeleteFromDoc /\ file_exists(files, ing.path)
  <2>1. ing.path \in Path /\ files \in Files /\ blobs \in SUBSET Content
    BY <1>3 DEF DeleteFromDoc, IInv, TypeOK, IngTypeOK, DocTypeOK
  <2> DEFINE f == delete_file(files, ing.path)
  <2>2. f \in Files /\ Commit(f, blobs) BY <1>3, <2>1, DeleteType DEF DeleteFromDoc
  <2>3. \A i \in FileId : /\ f[i].content = files[i].content
                          /\ f[i].path = files[i].path /\ f[i].kind = files[i].kind
    BY <1>3, <2>1, DeleteKeeps
  <2> HIDE DEF f
  <2>4. /\ DocIsHeld' /\ SnapshotIsHeld' /\ SafeHashes' /\ MarksAreRecoverable'
        /\ mat'.pc \in {"disk", "write", "record"} => mat'.target \in Recoverable'
        /\ mat'.pc \in {"write", "delete"} => mat'.seen \in Opt(Recoverable')
    BY <1>1, <1>2, <2>1, <2>2, <2>3, CommitKeeps
  <2> QED BY <1>1, <1>2, <2>4 DEF IInv, InFlightIsHeld
<1>4. CASE ~(DeleteFromDoc /\ file_exists(files, ing.path))
  <2>1. UNCHANGED docVars
    BY <1>4 DEF FsLoop, Receive, flush_expired, dispatch_fs_event, CheckRemoved,
                DeleteFromDoc
  <2>2. /\ Recoverable' = Recoverable /\ DocIsHeld' /\ SnapshotIsHeld'
        /\ mat'.pc \in {"disk", "write", "record"} => mat'.target \in Recoverable'
        /\ mat'.pc \in {"write", "delete"} => mat'.seen \in Opt(Recoverable')
    BY <1>2, <2>1, Frame
  <2>3. SafeHashes' /\ MarksAreRecoverable'
    BY <1>2, <2>2 DEF IInv, SafeHashes, MarksAreRecoverable, memVars
  <2> QED BY <1>1, <1>2, <2>2, <2>3 DEF IInv, InFlightIsHeld
<1> QED BY <1>3, <1>4

\* ingest_file records a hash only after the document holds the content.
LEMMA IngestSafe == ASSUME IInv, IngestFile PROVE IInv'
<1>1. TypeOK' BY IngestType DEF IInv
<1>2. UNCHANGED <<saved, mat>>
  BY DEF IngestFile, ReadDisk, RereadDisk, check_and_consume, Compare, WriteText,
         WriteAttachment, RecordMaterialized, RecordIngested, FsLoopUnchanged
<1>3. /\ files \in Files /\ blobs \in SUBSET Content
      /\ ing.pc # "idle" => ing.path \in Path
      /\ ing \in [pc : IngPc, path : Opt(Path), bytes : Opt(Content), torn : BOOLEAN,
                  batch : SUBSET Path]
  BY DEF IInv, TypeOK, DocTypeOK, IngTypeOK
<1>4. CASE WriteText
  <2>1. ing.path \in Path /\ ing.bytes \in Text
    BY <1>4 DEF WriteText, IInv, TypeOK, IngTypeOK
  <2>2. PICK f \in write_text_file(files, ing.path, ing.bytes) : Commit(f, blobs)
    BY <1>4 DEF WriteText
  <2>3. f \in Files BY <1>3, <2>1, WriteTextType
  <2>4. /\ \A i \in FileId : files[i].content # None => f[i].content # None
        /\ \A i \in FileId : f[i].kind = "text" /\ f[i].path # None
             => f[i].content # None \/ (f[i].path = files[i].path /\ f[i].kind = files[i].kind)
        /\ \E i \in FileId : f[i].content = ing.bytes
    BY <1>3, <2>1, WriteTextKeeps
  <2>5. UNCHANGED <<saved, mat, memVars>> /\ ing'.bytes = ing.bytes
    BY <1>2, <1>3, <1>4 DEF WriteText, Goto
  <2>6. /\ DocIsHeld' /\ SnapshotIsHeld' /\ SafeHashes' /\ MarksAreRecoverable'
        /\ mat'.pc \in {"disk", "write", "record"} => mat'.target \in Recoverable'
        /\ mat'.pc \in {"write", "delete"} => mat'.seen \in Opt(Recoverable')
    BY <1>1, <1>3, <2>2, <2>3, <2>4, <2>5, CommitKeeps
  <2>7. ing.bytes \in held'.text
    BY <2>1, <2>2, <2>4, FileTreeAssumption DEF Commit, History, Content
  <2> QED BY <1>1, <2>5, <2>6, <2>7 DEF IInv, InFlightIsHeld, Recoverable
<1>5. CASE WriteAttachment
  <2>1. ing.path \in Path /\ ing.bytes \in Content
    BY <1>5 DEF WriteAttachment, IInv, TypeOK, IngTypeOK
  <2> DEFINE b == blobs \cup {ing.bytes}
  <2>2. PICK f \in write_attachment(files, ing.path, ing.bytes) : Commit(f, b)
    BY <1>5 DEF WriteAttachment
  <2>3. f \in Files /\ b \in SUBSET Content /\ blobs \subseteq b
    BY <1>3, <2>1, WriteAttachmentType
  <2>4. /\ \A i \in FileId : files[i].content # None => f[i].content # None
        /\ \A i \in FileId : f[i].kind = "text" /\ f[i].path # None
             => f[i].path = files[i].path /\ f[i].kind = files[i].kind
        /\ \E i \in FileId : f[i].binary_hash = ing.bytes
    BY <1>3, <2>1, WriteAttachmentKeeps
  <2>5. UNCHANGED <<saved, mat, memVars>> /\ ing'.bytes = ing.bytes
    BY <1>2, <1>3, <1>5 DEF WriteAttachment, Goto
  <2>6. ing.bytes \in held'.hash /\ ing.bytes \in blobs'
    BY <2>1, <2>2, <2>4, FileTreeAssumption DEF Commit, History
  <2> HIDE DEF b
  <2>7. /\ DocIsHeld' /\ SnapshotIsHeld' /\ SafeHashes' /\ MarksAreRecoverable'
        /\ mat'.pc \in {"disk", "write", "record"} => mat'.target \in Recoverable'
        /\ mat'.pc \in {"write", "delete"} => mat'.seen \in Opt(Recoverable')
    BY <1>1, <2>2, <2>3, <2>4, <2>5, CommitKeeps
  <2> QED BY <1>1, <2>5, <2>6, <2>7 DEF IInv, InFlightIsHeld, Recoverable
<1>6. CASE ~WriteText /\ ~WriteAttachment
  <2>1. UNCHANGED docVars
    BY <1>6 DEF IngestFile, ReadDisk, RereadDisk, check_and_consume, Compare,
         RecordMaterialized, RecordIngested
  <2>2. /\ Recoverable' = Recoverable /\ DocIsHeld' /\ SnapshotIsHeld'
        /\ mat'.pc \in {"disk", "write", "record"} => mat'.target \in Recoverable'
        /\ mat'.pc \in {"write", "delete"} => mat'.seen \in Opt(Recoverable')
    BY <1>2, <2>1, Frame
  <2>3. ing'.pc \in RecordPc => ing'.bytes \in Recoverable
    <3>1. CASE Compare
      <4>1. ing.path \in Path /\ ing.bytes \in Text /\ ing'.bytes = ing.bytes
        BY <1>3, <3>1 DEF Compare, Goto, IInv, TypeOK, IngTypeOK
      <4>2. CASE read_file(files, ing.path) = ing.bytes
        <5>1. \E i \in FileId : files[i].content = ing.bytes
          BY <1>3, <4>1, <4>2, FindCases, FileTreeAssumption DEF read_file, Content
        <5>2. ing.bytes \in held.text
          BY <4>1, <5>1, FileTreeAssumption DEF IInv, DocIsHeld, HistoryHolds, Opt, Content
        <5> QED BY <4>1, <5>2 DEF Recoverable
      <4>3. CASE read_file(files, ing.path) # ing.bytes
        BY <1>3, <3>1, <4>3 DEF Compare, Goto
      <4> QED BY <4>2, <4>3
    <3>2. CASE RecordMaterialized
      BY <1>3, <3>2 DEF RecordMaterialized, Goto, IInv, InFlightIsHeld
    <3>3. CASE RecordIngested BY <1>3, <3>3 DEF RecordIngested, Handled
    <3>4. CASE ReadDisk \/ RereadDisk
      BY <1>3, <3>4 DEF ReadDisk, RereadDisk, Handled, Goto, Take
    <3>5. CASE check_and_consume
      <4>1. Handled \/ Goto("compare") \/ Goto("attach")
        BY <3>5 DEF check_and_consume
      <4> QED BY <1>3, <4>1 DEF Handled, Goto
    <3> QED BY <1>6, <3>1, <3>2, <3>3, <3>4, <3>5 DEF IngestFile
  <2>4. SafeHashes'
    <3>1. CASE RecordMaterialized \/ RecordIngested
      <4>1. ing.path \in Path /\ ing.bytes \in Recoverable
        BY <1>3, <3>1 DEF RecordMaterialized, RecordIngested, IInv, InFlightIsHeld
      <4>2. \A p \in Path : /\ materialized'[p] \in {materialized[p], ing.bytes}
                            /\ last_ingested'[p] \in {last_ingested[p], ing.bytes}
        BY <3>1, <4>1 DEF RecordMaterialized, RecordIngested, IInv, TypeOK, MemTypeOK
      <4> QED BY <1>2, <2>2, <4>1, <4>2 DEF IInv, SafeHashes, Opt
    <3>2. CASE ~(RecordMaterialized \/ RecordIngested)
      BY <1>2, <1>6, <2>2, <3>2 DEF IngestFile, ReadDisk, RereadDisk, check_and_consume,
           Compare, memVars, IInv, SafeHashes
    <3> QED BY <3>1, <3>2
  <2>5. MarksAreRecoverable'
    <3>1. CASE check_and_consume
      <4>1. ing.path \in Path /\ dirty \in [Path -> Seq(Content)]
        BY <1>3, <3>1 DEF check_and_consume, IInv, TypeOK, MemTypeOK
      <4>2. \/ dirty' = dirty
            \/ \E k \in DOMAIN dirty[ing.path] :
                 dirty' = [dirty EXCEPT ![ing.path] = RemoveAt(@, k)]
        BY <3>1 DEF check_and_consume
      <4>3. \A k \in DOMAIN dirty[ing.path] :
              RemoveAt(dirty[ing.path], k) \in Seq(Recoverable)
        BY <4>1, RemoveAtType DEF IInv, MarksAreRecoverable
      <4>4. \A p \in Path : dirty'[p] \in Seq(Recoverable)
        BY <4>1, <4>2, <4>3 DEF IInv, MarksAreRecoverable
      <4> QED BY <2>2, <4>4 DEF MarksAreRecoverable
    <3>2. CASE ~check_and_consume
      BY <1>6, <2>2, <3>2 DEF IngestFile, ReadDisk, RereadDisk, Compare, memVars,
           RecordMaterialized, RecordIngested, IInv, MarksAreRecoverable
    <3> QED BY <3>1, <3>2
  <2> QED BY <1>1, <2>2, <2>3, <2>4, <2>5 DEF IInv, InFlightIsHeld
<1> QED BY <1>4, <1>5, <1>6

\* The materializer writes only content of the document, and notes what it wrote.
LEMMA MaterializerSafe == ASSUME IInv, Materializer \/ MatFails PROVE IInv'
<1>1. TypeOK' BY MaterializerType DEF IInv
<1>2. UNCHANGED <<docVars, saved, ing>>
  BY DEF Materializer, MatBegin, MatCloneMaterialized, MatCloneIngested, MatCheckDelete,
         MatDelete, MatTarget, MatReadDisk, MatWrite, MatRecord, MatRetainMaterialized,
         MatRetainIngested, MatFails, MatUnchanged
<1>3. Recoverable' = Recoverable BY <1>2 DEF Recoverable, docVars
<1>4. DocIsHeld' BY <1>2 DEF docVars, IInv, DocIsHeld, HistoryHolds
<1>5. /\ MatTypeOK /\ files \in Files
      /\ mat \in [pc : MatPc, live : [Path -> Opt(Meta)], existing : [Path -> Opt(Content)],
              ingested : [Path -> Opt(Content)], todo : SUBSET Path,
              path : Opt(Path), target : Opt(Content), seen : Opt(Content)]
  BY DEF IInv, TypeOK, MatTypeOK, DocTypeOK
<1>6. \A p \in Path : is_safe_to_overwrite(p, disk[p]) => disk[p] \in Opt(Recoverable)
  BY DEF is_safe_to_overwrite, IInv, SafeHashes
<1> USE DEF Step, Skip
<1> DEFINE Keeps == /\ mat'.live = mat.live /\ mat'.existing = mat.existing
                    /\ mat'.ingested = mat.ingested
<1>11. \/ MatBegin \/ MatCloneMaterialized \/ MatCloneIngested \/ mat' = IdleMat \/ Keeps
  <2>1. ASSUME NEW p \in Path, MatCheckDelete(p) PROVE Keeps
    BY <1>5, <2>1 DEF MatCheckDelete
  <2>2. ASSUME NEW p \in Path, MatTarget(p) PROVE Keeps
    BY <1>5, <2>2 DEF MatTarget
  <2>3. CASE MatDelete BY <1>5, <2>3 DEF MatDelete
  <2>4. CASE MatReadDisk
    <3>1. \/ mat' = [mat EXCEPT !.pc = "record"]
          \/ mat' = Skip(mat.path)
          \/ mat' = [mat EXCEPT !.pc = "write", !.seen = disk[mat.path]]
      BY <2>4 DEF MatReadDisk
    <3> QED BY <1>5, <3>1
  <2>5. CASE MatWrite BY <1>5, <2>5 DEF MatWrite
  <2>6. CASE MatRecord BY <1>5, <2>6 DEF MatRecord
  <2>7. CASE MatRetainMaterialized BY <1>5, <2>7 DEF MatRetainMaterialized
  <2>8. CASE MatRetainIngested BY <2>8 DEF MatRetainIngested
  <2>9. CASE MatFails BY <1>5, <2>9 DEF MatFails
  <2> HIDE DEF Keeps, Step, Skip
  <2> QED BY <2>1, <2>2, <2>3, <2>4, <2>5, <2>6, <2>7, <2>8, <2>9 DEF Materializer
<1>7. SnapshotIsHeld'
  <2>1. CASE MatBegin
    <3> DEFINE i(p) == listed_file(files, p)
    <3> SUFFICES ASSUME NEW p \in Path, mat'.live[p] # None
        PROVE  /\ mat'.live[p].binary_hash \in Opt(held.hash)
               /\ mat'.live[p].kind = "text" => files[mat'.live[p].id].content # None
      BY <1>2 DEF SnapshotIsHeld, docVars
    <3>1. mat'.live[p] = IF i(p) = None THEN None
                         ELSE [id |-> i(p), kind |-> files[i(p)].kind,
                               binary_hash |-> files[i(p)].binary_hash]
      BY <1>5, <2>1 DEF MatBegin
    <3>2. i(p) \in FileId /\ files[i(p)].path = p /\ p # None
      BY <1>5, <3>1, ListedCases, FileTreeAssumption
    <3> HIDE DEF i
    <3> QED BY <3>1, <3>2 DEF IInv, DocIsHeld, HistoryHolds
  <2>2. CASE ~MatBegin
    <3>1. mat'.live = mat.live \/ mat'.live = NoHash
      <4>1. CASE MatCloneMaterialized BY <1>5, <4>1 DEF MatCloneMaterialized
      <4>2. CASE MatCloneIngested BY <1>5, <4>2 DEF MatCloneIngested
      <4>3. CASE mat' = IdleMat BY <4>3 DEF IdleMat
      <4>4. CASE Keeps BY <4>4
      <4> HIDE DEF Keeps, Step, Skip
      <4> QED BY <1>11, <2>2, <4>1, <4>2, <4>3, <4>4
    <3> QED BY <1>2, <3>1 DEF IInv, SnapshotIsHeld, docVars, NoHash
  <2> QED BY <2>1, <2>2
<1>8. InFlightIsHeld'
  <2>1. ing'.pc \in RecordPc => ing'.bytes \in Recoverable'
    BY <1>2, <1>3 DEF IInv, InFlightIsHeld
  <2> SUFFICES /\ mat'.pc \in {"disk", "write", "record"} => mat'.target \in Recoverable
               /\ mat'.pc \in {"write", "delete"} => mat'.seen \in Opt(Recoverable)
    BY <1>3, <2>1 DEF InFlightIsHeld
  <2>2. ASSUME NEW p \in Path, MatCheckDelete(p)
        PROVE  mat'.pc \in {"files", "delete"} /\ (mat'.pc = "delete" => mat'.seen \in Opt(Recoverable))
    BY <1>5, <1>6, <2>2 DEF MatCheckDelete, Opt
  <2>3. ASSUME NEW p \in Path, MatTarget(p)
        PROVE  mat'.pc \in {"files", "disk"} /\ (mat'.pc = "disk" => mat'.target \in Recoverable)
    <3>1. mat.live[p] # None /\ mat.live[p] \in Meta
      BY <1>5, <2>3 DEF MatTarget, Opt
    <3>2. Target(p) # None => Target(p) \in Recoverable
      <4>1. CASE mat.live[p].kind = "text"
        <5>1. /\ files[mat.live[p].id].content # None
              /\ files[mat.live[p].id].content \in Opt(held.text)
          BY <3>1, <4>1 DEF IInv, SnapshotIsHeld, DocIsHeld, HistoryHolds, Meta
        <5> QED BY <4>1, <5>1 DEF Target, read_file_id, Recoverable, Opt
      <4>2. CASE mat.live[p].kind # "text"
        <5>1. mat.live[p].binary_hash \in Opt(held.hash)
          BY <3>1 DEF IInv, SnapshotIsHeld
        <5> QED BY <4>2, <5>1 DEF Target, Recoverable, Opt
      <4> QED BY <4>1, <4>2
    <3> QED BY <1>5, <2>3, <3>2 DEF MatTarget
  <2>4. CASE MatReadDisk
    <3>1. mat.path \in Path /\ mat.pc = "disk" BY <1>5, <2>4 DEF MatReadDisk, MatTypeOK
    <3>2. \/ mat' = [mat EXCEPT !.pc = "record"]
          \/ mat' = Skip(mat.path)
          \/ /\ disk[mat.path] \in Opt(Recoverable)
             /\ mat' = [mat EXCEPT !.pc = "write", !.seen = disk[mat.path]]
      BY <1>6, <2>4, <3>1 DEF MatReadDisk, Opt
    <3>3. mat.target \in Recoverable BY <3>1 DEF IInv, InFlightIsHeld
    <3> QED BY <1>5, <3>2, <3>3
  <2>5. CASE MatWrite BY <1>5, <2>5 DEF MatWrite, IInv, InFlightIsHeld
  <2>6. CASE MatBegin \/ MatCloneMaterialized \/ MatCloneIngested \/ MatDelete \/ MatRecord
             \/ MatRetainMaterialized \/ MatRetainIngested \/ MatFails
    <3>1. CASE MatBegin \/ MatCloneMaterialized \/ MatCloneIngested
      BY <1>5, <3>1 DEF MatBegin, MatCloneMaterialized, MatCloneIngested
    <3>2. CASE MatDelete \/ MatRecord \/ MatFails
      BY <1>5, <3>2 DEF MatDelete, MatRecord, MatFails
    <3>3. CASE MatRetainMaterialized \/ MatRetainIngested
      BY <1>5, <3>3 DEF MatRetainMaterialized, MatRetainIngested, IdleMat
    <3> QED BY <2>6, <3>1, <3>2, <3>3
  <2> QED BY <2>2, <2>3, <2>4, <2>5, <2>6 DEF Materializer
<1>9. SafeHashes'
  <2>1. \A p \in Path : {mat'.existing[p], mat'.ingested[p]} \subseteq Opt(Recoverable)
    <3>1. CASE MatCloneMaterialized
      BY <1>5, <3>1 DEF MatCloneMaterialized, IInv, SafeHashes
    <3>2. CASE MatCloneIngested
      BY <1>5, <3>2 DEF MatCloneIngested, IInv, SafeHashes
    <3>3. CASE ~MatCloneMaterialized /\ ~MatCloneIngested
      <4>1. \/ mat'.existing = mat.existing /\ mat'.ingested = mat.ingested
            \/ mat'.existing = NoHash /\ mat'.ingested = NoHash
        <5>1. CASE MatBegin BY <1>5, <5>1 DEF MatBegin
        <5>2. CASE mat' = IdleMat BY <5>2 DEF IdleMat
        <5>3. CASE Keeps BY <5>3
        <5> HIDE DEF Keeps, Step, Skip
        <5> QED BY <1>11, <3>3, <5>1, <5>2, <5>3
      <4> QED BY <4>1 DEF IInv, SafeHashes, NoHash, Opt
    <3> QED BY <3>1, <3>2, <3>3
  <2>2. \A p \in Path : {materialized'[p], last_ingested'[p]} \subseteq Opt(Recoverable)
    <3>1. CASE MatRecord
      <4>1. mat.target \in Recoverable BY <3>1 DEF MatRecord, IInv, InFlightIsHeld
      <4> QED BY <3>1, <4>1 DEF MatRecord, IInv, SafeHashes, Opt, TypeOK, MemTypeOK
    <3>2. CASE MatRetainMaterialized \/ MatRetainIngested
      BY <3>2 DEF MatRetainMaterialized, MatRetainIngested, Retain, IInv, SafeHashes, Opt
    <3>3. CASE ~(MatRecord \/ MatRetainMaterialized \/ MatRetainIngested)
      <4>1. UNCHANGED <<materialized, last_ingested>>
        BY <3>3 DEF Materializer, MatBegin, MatCloneMaterialized, MatCloneIngested,
             MatCheckDelete, MatDelete, MatTarget, MatReadDisk, MatWrite, MatFails, memVars
      <4> QED BY <4>1 DEF IInv, SafeHashes
    <3> QED BY <3>1, <3>2, <3>3
  <2> QED BY <1>3, <2>1, <2>2 DEF SafeHashes
<1>10. MarksAreRecoverable'
  <2>1. CASE MatReadDisk
    <3>1. /\ mat.path \in Path /\ mat.target \in Recoverable
          /\ dirty[mat.path] \in Seq(Recoverable)
      BY <1>5, <2>1 DEF MatReadDisk, MatTypeOK, IInv, InFlightIsHeld, MarksAreRecoverable
    <3>2. Append(dirty[mat.path], mat.target) \in Seq(Recoverable)
      BY <3>1, AppendProperties
    <3>3. dirty' = dirty \/ dirty' = [dirty EXCEPT ![mat.path] = Append(@, mat.target)]
      BY <2>1 DEF MatReadDisk, mark
    <3> QED BY <1>3, <3>1, <3>2, <3>3 DEF IInv, MarksAreRecoverable, TypeOK, MemTypeOK
  <2>2. CASE ~MatReadDisk
    <3>1. UNCHANGED dirty
      BY <2>2 DEF Materializer, MatBegin, MatCloneMaterialized, MatCloneIngested,
           MatCheckDelete, MatDelete, MatTarget, MatWrite, MatRecord, MatRetainMaterialized,
           MatRetainIngested, MatFails, memVars
    <3> QED BY <1>3, <3>1 DEF IInv, MarksAreRecoverable
  <2> QED BY <2>1, <2>2
<1> QED BY <1>1, <1>4, <1>7, <1>8, <1>9, <1>10 DEF IInv

\* Saving the document saves its history with it; a crash goes back to both and
\* takes every map and mark with it.
LEMMA ProcessSafe ==
  ASSUME IInv,
         SaveDoc \/ Crash \/ Restart \/ ScanDone
           \/ \E p \in Path : ExpireMark(p) \/ initial_scan(p)
  PROVE  IInv'
<1>1. TypeOK' BY ProcessType DEF IInv
<1>2. CASE SaveDoc
  <2>1. UNCHANGED <<docVars, ing, mat, memVars>> /\ saved' = [files |-> files, held |-> held]
    BY <1>2 DEF SaveDoc
  <2>2. Recoverable' = Recoverable BY <2>1 DEF Recoverable, docVars
  <2>3. DocIsHeld' /\ SnapshotIsHeld'
    BY <2>1 DEF docVars, IInv, DocIsHeld, HistoryHolds, SnapshotIsHeld
  <2>4. InFlightIsHeld' BY <2>1, <2>2 DEF IInv, InFlightIsHeld
  <2>5. SafeHashes' /\ MarksAreRecoverable'
    BY <2>1, <2>2 DEF memVars, IInv, SafeHashes, MarksAreRecoverable
  <2> QED BY <1>1, <2>3, <2>4, <2>5 DEF IInv
<1>3. CASE Crash
  <2>1. DocIsHeld' BY <1>3 DEF Crash, IInv, DocIsHeld, HistoryHolds
  <2>2. SnapshotIsHeld' /\ SafeHashes'
    BY <1>3 DEF Crash, SnapshotIsHeld, SafeHashes, IdleMat, NoHash, Opt
  <2>3. InFlightIsHeld' BY <1>3 DEF Crash, InFlightIsHeld, IdleMat, IdleIng
  <2>4. MarksAreRecoverable' BY <1>3, EmptySeq DEF Crash, MarksAreRecoverable
  <2> QED BY <1>1, <2>1, <2>2, <2>3, <2>4 DEF IInv
<1>4. CASE Restart \/ ScanDone \/ \E p \in Path : ExpireMark(p) \/ initial_scan(p)
  <2>1. UNCHANGED <<docVars, saved, mat, materialized, last_ingested>>
    BY <1>4 DEF Restart, ScanDone, ExpireMark, initial_scan, memVars
  <2>2. /\ Recoverable' = Recoverable /\ DocIsHeld' /\ SnapshotIsHeld'
        /\ mat'.pc \in {"disk", "write", "record"} => mat'.target \in Recoverable'
        /\ mat'.pc \in {"write", "delete"} => mat'.seen \in Opt(Recoverable')
    BY <2>1, Frame
  <2>3. ing' = ing \/ ing'.pc = "read"
    BY <1>4 DEF Restart, ScanDone, ExpireMark, initial_scan, IInv, TypeOK, IngTypeOK
  <2>4. InFlightIsHeld' BY <2>2, <2>3 DEF IInv, InFlightIsHeld
  <2>5. SafeHashes' BY <2>1, <2>2 DEF IInv, SafeHashes
  <2>6. MarksAreRecoverable'
    <3>1. CASE \E p \in Path : ExpireMark(p)
      <4>1. PICK p \in Path : ExpireMark(p) BY <3>1
      <4>2. dirty[p] \in Seq(Recoverable) BY DEF IInv, MarksAreRecoverable
      <4>3. Tail(dirty[p]) \in Seq(Recoverable)
        BY <4>1, <4>2, HeadTailProperties DEF ExpireMark
      <4>4. dirty' = [dirty EXCEPT ![p] = Tail(@)] BY <4>1 DEF ExpireMark
      <4> QED BY <2>2, <4>3, <4>4 DEF IInv, MarksAreRecoverable, TypeOK, MemTypeOK
    <3>2. CASE ~\E p \in Path : ExpireMark(p)
      <4>1. UNCHANGED dirty
        BY <1>4, <3>2 DEF Restart, ScanDone, initial_scan, memVars
      <4> QED BY <2>2, <4>1 DEF IInv, MarksAreRecoverable
    <3> QED BY <3>1, <3>2
  <2> QED BY <1>1, <2>2, <2>4, <2>5, <2>6 DEF IInv
<1> QED BY <1>2, <1>3, <1>4

\* No step of any actor leads out of IInv.
LEMMA StepIInv == ASSUME IInv, [Next]_vars PROVE IInv'
<1>1. CASE Next
  <2>1. CASE \E i \in FileId : receive_sync_message(i) BY <2>1, MergeSafe
  <2> QED BY <1>1, <2>1, UserSafe, FsLoopSafe, IngestSafe, MaterializerSafe, ProcessSafe
          DEF Next
<1>2. CASE UNCHANGED vars
  <2>1. TypeOK' BY <1>2, StepType DEF IInv
  <2>2. UNCHANGED <<docVars, saved, mat>> /\ UNCHANGED ing /\ UNCHANGED memVars
    BY <1>2 DEF vars
  <2>3. /\ Recoverable' = Recoverable /\ DocIsHeld' /\ SnapshotIsHeld'
    BY <2>2, Frame
  <2>4. InFlightIsHeld' /\ SafeHashes' /\ MarksAreRecoverable'
    BY <2>2, <2>3 DEF IInv, InFlightIsHeld, SafeHashes, MarksAreRecoverable, memVars
  <2> QED BY <2>1, <2>3, <2>4 DEF IInv
<1> QED BY <1>1, <1>2

\* The inductive invariant holds in every reachable state.
THEOREM Inductive == Spec => []IInv
<1>1. Init => IInv BY InitIInv
<1>2. IInv /\ [Next]_vars => IInv' BY StepIInv
<1> QED BY <1>1, <1>2, PTL DEF Spec

\* Whatever the tasks, the user, the peers and crashes do, a hash that
\* is_safe_to_overwrite accepts names content that the history holds.
THEOREM SafeHashesAlways == Spec => []SafeHashes
<1>1. IInv => SafeHashes BY DEF IInv
<1> QED BY <1>1, Inductive, PTL

\* No suppression mark ever swallows the only copy of a content.
THEOREM MarksAlwaysRecoverable == Spec => []MarksAreRecoverable
<1>1. IInv => MarksAreRecoverable BY DEF IInv
<1> QED BY <1>1, Inductive, PTL

\* A step of the materializer that changes a file it has just read loses nothing.
LEMMA StepNoLoss ==
  ASSUME IInv, [Next]_vars, NEW p \in Path, mat' # mat, disk'[p] # disk[p],
         disk[p] = mat.seen
  PROVE  disk[p] \in Opt(Recoverable)
<1>1. mat.pc \in {"write", "delete"}
  <2>1. CASE User \/ (\E i \in FileId : receive_sync_message(i)) \/ IngestFile \/ FsLoop
             \/ UNCHANGED vars
    <3>1. UNCHANGED mat
      BY <2>1 DEF User, Save, FinishSave, Truncate, RemoveFile, MoveAway, UserStep,
           receive_sync_message, IngestFile, ReadDisk, RereadDisk, check_and_consume, Compare,
           WriteText, WriteAttachment, RecordMaterialized, RecordIngested, FsLoopUnchanged,
           FsLoop, Receive, flush_expired, dispatch_fs_event, CheckRemoved, DeleteFromDoc,
           vars
    <3> QED BY <3>1
  <2>2. CASE Materializer \/ MatFails
    BY <2>2 DEF Materializer, MatBegin, MatCloneMaterialized, MatCloneIngested, MatCheckDelete,
         MatDelete, MatTarget, MatReadDisk, MatWrite, MatRecord, MatRetainMaterialized,
         MatRetainIngested, MatFails
  <2>3. CASE SaveDoc \/ Crash \/ Restart \/ ScanDone
               \/ \E q \in Path : ExpireMark(q) \/ initial_scan(q)
    <3>1. UNCHANGED disk
      BY <2>3 DEF SaveDoc, Crash, Restart, ScanDone, ExpireMark, initial_scan
    <3> QED BY <3>1
  <2> QED BY <2>1, <2>2, <2>3 DEF Next
<1> QED BY <1>1 DEF IInv, InFlightIsHeld

\* Outside the window between its read and its write the materializer destroys
\* no content that history lacks.
THEOREM NoLoss == Spec => NoLossOutsideWindow
<1>1. IInv /\ [Next]_vars =>
        [\A p \in Path : mat' # mat /\ disk'[p] # disk[p] /\ disk[p] = mat.seen
            => disk[p] \in Opt(Recoverable)]_vars
  BY StepNoLoss
<1> QED BY <1>1, Inductive, PTL DEF Spec, NoLossOutsideWindow

-----------------------------------------------------------------------------
(* A file that an editor has truncated does not empty the document's text. *)

\* Bytes are torn only from their reading to the end of their ingestion.  If they
\* are empty, ingest_file found no text when it read them, and until it writes
\* them only a merge can bring some.
TornFindsNoText ==
  /\ ing.torn => ing.pc \notin {"idle", "read", "reread", "exists", "delete"}
  /\ ing.torn /\ merges = 0 /\ ing.bytes = Empty /\ ing.pc \in {"check", "compare", "write"}
       => read_file(files, ing.path) \in {None, Empty}

\* No step that reads or ingests a file leads out of TornFindsNoText.
LEMMA IngestTorn == ASSUME TypeOK, TornFindsNoText, IngestFile PROVE TornFindsNoText'
<1> USE DEF TornFindsNoText
<1>1. UNCHANGED merges
  BY DEF IngestFile, ReadDisk, RereadDisk, check_and_consume, Compare, WriteText,
         WriteAttachment, RecordMaterialized, RecordIngested, FsLoopUnchanged, envVars
<1>2. IngTypeOK BY DEF TypeOK
<1>3. CASE ReadDisk
  <2>1. UNCHANGED files BY <1>3 DEF ReadDisk, docVars
  <2>2. \/ Handled
        \/ Goto("reread") /\ ing.pc = "read"
        \/ Take /\ (disk[ing.path] = Empty => read_file(files, ing.path) \in {None, Empty})
    BY <1>3 DEF ReadDisk
  <2>3. CASE Handled BY <1>2, <2>3 DEF Handled, IngTypeOK
  <2>4. CASE Goto("reread") /\ ing.pc = "read" BY <1>2, <2>4 DEF Goto, IngTypeOK
  <2>5. CASE Take /\ (disk[ing.path] = Empty => read_file(files, ing.path) \in {None, Empty})
    <3>1. /\ ing'.pc = "check" /\ ing'.bytes = disk[ing.path] /\ ing'.path = ing.path
      BY <1>2, <2>5 DEF Take, IngTypeOK
    <3> QED BY <2>1, <2>5, <3>1
  <2> QED BY <2>2, <2>3, <2>4, <2>5
<1>4. CASE RereadDisk
  <2>1. Handled \/ (Take /\ ing.path \notin editing) BY <1>4 DEF RereadDisk
  <2> QED BY <1>2, <2>1 DEF Handled, Take, IngTypeOK
<1>5. CASE check_and_consume \/ Compare
  <2>1. UNCHANGED files BY <1>5 DEF check_and_consume, Compare, docVars
  <2>2. \/ Handled
        \/ /\ ing.pc \in {"check", "compare"}
           /\ Goto("compare") \/ Goto("attach") \/ Goto("sameMaterialized") \/ Goto("write")
    BY <1>5 DEF check_and_consume, Compare
  <2> QED BY <1>1, <1>2, <2>1, <2>2 DEF Handled, Goto, IngTypeOK
<1>6. CASE WriteText \/ WriteAttachment \/ RecordMaterialized \/ RecordIngested
  <2>1. Handled \/ Goto("recMaterialized") \/ Goto("recIngested") \/ Goto("sameIngested")
    BY <1>6 DEF WriteText, WriteAttachment, RecordMaterialized, RecordIngested
  <2> QED BY <1>2, <2>1 DEF Handled, Goto, IngTypeOK
<1> QED BY <1>3, <1>4, <1>5, <1>6 DEF IngestFile

\* Nor does any other step.
LEMMA StepTorn ==
  ASSUME TypeOK, TornFindsNoText, [Next]_vars
  PROVE  TornFindsNoText'
<1> USE DEF TornFindsNoText
<1>1. IngTypeOK /\ merges \in Nat BY BindingAssumption DEF TypeOK, EnvTypeOK
<1>2. CASE User \/ Materializer \/ MatFails \/ SaveDoc \/ Restart \/ ScanDone \/ Receive
             \/ (\E p \in Path : ExpireMark(p)) \/ UNCHANGED vars
  <2>1. UNCHANGED <<files, ing, merges>>
    BY <1>2 DEF User, Save, FinishSave, Truncate, RemoveFile, MoveAway, UserStep,
         Materializer, MatBegin, MatCloneMaterialized, MatCloneIngested, MatCheckDelete,
         MatDelete, MatTarget, MatReadDisk, MatWrite, MatRecord, MatRetainMaterialized,
         MatRetainIngested, MatFails, MatUnchanged, SaveDoc, Restart, ScanDone, Receive,
         FsLoopUnchanged, ExpireMark, vars, docVars, envVars
  <2> QED BY <2>1
<1>3. ASSUME NEW i \in FileId, receive_sync_message(i) PROVE TornFindsNoText'
  <2>1. merges' = merges + 1 BY <1>3 DEF receive_sync_message
  <2>2. UNCHANGED ing BY <1>3 DEF receive_sync_message
  <2>3. merges' # 0 BY <1>1, <2>1
  <2> QED BY <2>2, <2>3
<1>4. CASE Crash BY <1>4 DEF Crash, IdleIng
<1>5. ASSUME NEW p \in Path,
             initial_scan(p) \/ dispatch_fs_event(p)
               \/ \E batch \in SUBSET Path : flush_expired(batch)
      PROVE TornFindsNoText'
  BY <1>1, <1>5 DEF initial_scan, dispatch_fs_event, flush_expired, IngTypeOK
<1>6. CASE CheckRemoved \/ DeleteFromDoc
  <2>1. ing.pc \in {"exists", "delete"} /\ (Handled \/ Goto("delete"))
    BY <1>6 DEF CheckRemoved, DeleteFromDoc
  <2> QED BY <1>1, <2>1 DEF Handled, Goto, IngTypeOK
<1>7. CASE IngestFile BY <1>7, IngestTorn
<1>8. ASSUME NEW batch \in SUBSET Path, flush_expired(batch) PROVE TornFindsNoText'
  BY <1>1, <1>8 DEF flush_expired, IngTypeOK
<1> QED
  <2> HIDE DEF TornFindsNoText
  <2> QED BY <1>2, <1>3, <1>4, <1>5, <1>6, <1>7, <1>8 DEF Next, FsLoop

\* After a text is written to a path, it is the text read there.
LEMMA WrittenTextIsRead ==
  ASSUME NEW f \in Files, NEW p \in Path, NEW s \in Text,
         find_file_by_path(f, p) # None, NEW g \in write_text_file(f, p, s)
  PROVE  read_file(g, p) = s
<1> DEFINE i == find_file_by_path(f, p)
<1>1. i \in FileId BY FindCases
<1>2. g = [f EXCEPT ![i].content = s, ![i].kind = "text"] BY DEF write_text_file
<1>3. LiveAt(g, p) = LiveAt(f, p) BY <1>1, <1>2 DEF LiveAt, Files, Entry
<1>4. find_file_by_path(g, p) = i BY <1>3 DEF find_file_by_path
<1>5. g[i].content = s BY <1>1, <1>2 DEF Files, Entry
<1> QED BY <1>4, <1>5 DEF read_file

\* An attachment written to a path leaves the text read there.
LEMMA AttachmentKeepsText ==
  ASSUME NEW f \in Files, NEW p \in Path, NEW h \in Content,
         find_file_by_path(f, p) # None, NEW g \in write_attachment(f, p, h)
  PROVE  read_file(g, p) = read_file(f, p)
<1> DEFINE i == find_file_by_path(f, p)
<1>1. i \in FileId BY FindCases
<1>2. g = [f EXCEPT ![i].binary_hash = h, ![i].kind = "attachment"]
  BY DEF write_attachment
<1>3. LiveAt(g, p) = LiveAt(f, p) BY <1>1, <1>2 DEF LiveAt, Files, Entry
<1>4. find_file_by_path(g, p) = i BY <1>3 DEF find_file_by_path
<1>5. g[i].content = f[i].content BY <1>1, <1>2 DEF Files, Entry
<1> QED BY <1>4, <1>5 DEF read_file

\* While torn bytes are handled, only their ingestion, a merge or a crash changes
\* the document.
LEMMA TornChanges ==
  ASSUME TypeOK, TornFindsNoText, [Next]_vars, ing.torn, merges' = 0, phase' # "down"
  PROVE  UNCHANGED files \/ WriteText \/ WriteAttachment
<1>1. merges \in Nat BY BindingAssumption DEF TypeOK, EnvTypeOK
<1>2. CASE User \/ Materializer \/ MatFails \/ SaveDoc \/ Restart \/ ScanDone \/ FsLoop
             \/ (\E p \in Path : ExpireMark(p) \/ initial_scan(p)) \/ UNCHANGED vars
  BY <1>2 DEF User, Save, FinishSave, Truncate, RemoveFile, MoveAway, UserStep,
       Materializer, MatBegin, MatCloneMaterialized, MatCloneIngested, MatCheckDelete,
       MatDelete, MatTarget, MatReadDisk, MatWrite, MatRecord, MatRetainMaterialized,
       MatRetainIngested, MatFails, MatUnchanged, SaveDoc, Restart, ScanDone, FsLoop,
       Receive, flush_expired, dispatch_fs_event, CheckRemoved, DeleteFromDoc,
       ExpireMark, initial_scan, vars, docVars, TornFindsNoText
<1>3. CASE IngestFile
  BY <1>3 DEF IngestFile, ReadDisk, RereadDisk, check_and_consume, Compare,
       RecordMaterialized, RecordIngested, docVars
<1>4. CASE Crash BY <1>4 DEF Crash
<1>5. ASSUME NEW i \in FileId, receive_sync_message(i) PROVE FALSE
  <2>1. merges' = merges + 1 BY <1>5 DEF receive_sync_message
  <2> QED BY <1>1, <2>1
<1> QED BY <1>2, <1>3, <1>4, <1>5 DEF Next

\* So torn bytes never replace a text by the empty one.
LEMMA StepTransient ==
  ASSUME TypeOK, TornFindsNoText, [Next]_vars, ing.torn, merges' = 0, phase' # "down",
         read_file(files, ing.path) \notin {None, Empty}
  PROVE  read_file(files', ing.path) # Empty
<1>1. /\ ing.path \in Path /\ files \in Files
      /\ find_file_by_path(files, ing.path) # None
  BY DEF TornFindsNoText, TypeOK, IngTypeOK, DocTypeOK, read_file
<1>2. CASE UNCHANGED files BY <1>2
<1>3. CASE WriteText
  <2>1. ing.bytes \in Text /\ merges = 0
    BY <1>3 DEF WriteText, FsLoopUnchanged, envVars, TypeOK, IngTypeOK
  <2>2. ing.bytes # Empty BY <1>3, <2>1 DEF TornFindsNoText, WriteText
  <2>3. files' \in write_text_file(files, ing.path, ing.bytes)
    BY <1>3 DEF WriteText, Commit
  <2> QED BY <1>1, <2>1, <2>2, <2>3, WrittenTextIsRead
<1>4. CASE WriteAttachment
  <2>1. ing.bytes \in Content BY <1>4 DEF WriteAttachment, TypeOK, IngTypeOK
  <2>2. files' \in write_attachment(files, ing.path, ing.bytes)
    BY <1>4 DEF WriteAttachment, Commit
  <2> QED BY <1>1, <2>1, <2>2, AttachmentKeepsText
<1> QED BY <1>2, <1>3, <1>4, TornChanges

\* Whatever the editor, the materializer and the watcher do, the empty content of a
\* truncated file replaces no text of the document (ingest_file's second look at an
\* empty file).
THEOREM TransientEmptyIsNotIngested == Spec => TransientEmptyNotIngested
<1>1. Init => TornFindsNoText BY DEF Init, IdleIng, TornFindsNoText
<1>2. TypeOK /\ TornFindsNoText /\ [Next]_vars => TornFindsNoText' BY StepTorn
<1>3. Spec => [](TypeOK /\ TornFindsNoText)
  BY <1>1, <1>2, TypeCorrect, PTL DEF Spec
<1>4. TypeOK /\ TornFindsNoText /\ [Next]_vars =>
        [ing.torn /\ merges' = 0 /\ phase' # "down"
           /\ read_file(files, ing.path) \notin {None, Empty}
           => read_file(files', ing.path) # Empty]_vars
  BY StepTransient
<1> QED BY <1>3, <1>4, PTL DEF Spec, TransientEmptyNotIngested
=============================================================================
