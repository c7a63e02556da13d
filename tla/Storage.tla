------------------------------ MODULE Storage ------------------------------
(***************************************************************************)
(* The files under .agentsync/ and the processes that use them: doc.bin    *)
(* and its temporary file (store/doc_store.rs), the content-addressed      *)
(* blobs (store/blobs.rs), config.toml (agentsync-cli/src/config.rs), and  *)
(* the life of a vault handle from create or open to the last save         *)
(* (vault.rs), as the commands of the CLI drive it.                        *)
(*                                                                         *)
(* tokio::fs::write is two steps, open-and-truncate and write; a process   *)
(* may be killed between any two.  Nothing locks the directory: Overlap    *)
(* says in which phases the others may be when a command starts.           *)
(***************************************************************************)
EXTENDS Naturals, FiniteSets

CONSTANTS
  Proc,        \* processes, each with one vault handle
  Id,          \* vault ids
  Remote,      \* the id of the vault a clone is made of
  Change,      \* changes of the document
  Attachment,  \* the changes that write_attachment makes, named by their blob
  Overlap,     \* phases the other processes may be in when a command starts
  MaxFail,     \* bound: failing file operations
  None,        \* no file, no document, no id
  Torn         \* the content of a file that is truncated and not yet written

Phase == {"idle", "creating", "configuring", "closing", "cloning", "pinning",
          "loading", "open", "flushing", "done"}

Doc == [id: Id, ch: SUBSET Change]

\* A file: what it holds and the processes that have it open and have yet
\* to write to it.  They write to this file whatever its name is by then.
File == [val: Doc \cup {Torn}, by: SUBSET Proc]

ASSUME StorageAssumption ==
  /\ Remote \in Id
  /\ Proc # {}
  /\ None \notin Id /\ "absent" \notin Id /\ None # "absent"
  /\ None \notin Attachment
  /\ Attachment \subseteq Change
  /\ Overlap \subseteq Phase
  /\ MaxFail \in Nat
  /\ None # Torn
  /\ None \notin Doc /\ None \notin File
  /\ Torn \notin Doc

VARIABLES
  bin,         \* doc.bin: None or a file
  tmp,         \* doc.bin.tmp: None or a file
  config,      \* config.toml: "absent", None (no vault id in it) or a vault id
  blob,        \* [Attachment -> "absent", "torn" or "whole"]: blobs/<hash>
  btmp,        \* [Attachment -> the same]: blobs/.tmp.<hash>
  proc,        \* [Proc -> the process and its handle]
  fails,       \* failed operations so far
  overcloned   \* a clone was aimed at a directory that held a document

vars == <<bin, tmp, config, blob, btmp, proc, fails, overcloned>>

NoPut == [c |-> None, at |-> "none"]

Idle == [phase |-> "idle", id |-> None, doc |-> None, sv |-> "none",
         cfg |-> "none", put |-> NoPut]

Process ==
  [phase: Phase, id: Id \cup {None}, doc: Doc \cup {None},
   sv: {"none", "opened", "written"}, cfg: {"none", "opened"},
   put: {NoPut} \cup [c: Attachment, at: {"opened", "written", "stored"}]]

TypeOK ==
  /\ bin \in File \cup {None}
  /\ tmp \in File \cup {None}
  /\ config \in Id \cup {None, "absent"}
  /\ blob \in [Attachment -> {"absent", "torn", "whole"}]
  /\ btmp \in [Attachment -> {"absent", "torn", "whole"}]
  /\ proc \in [Proc -> Process]
  /\ fails \in 0..MaxFail
  /\ overcloned \in BOOLEAN

Init ==
  /\ bin = None
  /\ tmp = None
  /\ config = "absent"
  /\ blob = [a \in Attachment |-> "absent"]
  /\ btmp = [a \in Attachment |-> "absent"]
  /\ proc = [p \in Proc |-> Idle]
  /\ fails = 0
  /\ overcloned = FALSE

-----------------------------------------------------------------------------
(* Commands and config.toml.                                               *)

MayStart(p) ==
  /\ proc[p].phase = "idle"
  /\ \A q \in Proc \ {p} : proc[q].phase \in Overlap

Enter(p, phase, id) ==
  proc' = [proc EXCEPT ![p] = [Idle EXCEPT !.phase = phase, !.id = id]]

\* Mutant of InitStart: a directory that has a config.toml is not refused.
InitAnyway(p) ==
  /\ MayStart(p)
  /\ \E i \in Id \ {Remote} :
       /\ bin # None => (bin.val # Torn => bin.val.id # i)
       /\ Enter(p, "creating", i)
  /\ UNCHANGED <<bin, tmp, config, blob, btmp, fails, overcloned>>

\* agentsync init: refuses a directory that has a config.toml.  The vault id
\* is a fresh UUID.
InitStart(p) ==
  /\ MayStart(p)
  /\ config = "absent"
  /\ \E i \in Id \ {Remote} :
       /\ bin # None => (bin.val # Torn => bin.val.id # i)
       /\ Enter(p, "creating", i)
  /\ UNCHANGED <<bin, tmp, config, blob, btmp, fails, overcloned>>

\* agentsync clone: the target may hold an .agentsync directory.
CloneStart(p) ==
  /\ MayStart(p)
  /\ Enter(p, "cloning", Remote)
  /\ overcloned' = (overcloned \/ bin # None)
  /\ UNCHANGED <<bin, tmp, config, blob, btmp, fails>>

\* Mutant of read_or_default: a missing config.toml is not a default one.
ReadUnchecked(c) == c

\* The vault id of the config read: a missing or truncated config.toml is a
\* default one, which has none.
read_or_default(c) == IF c \in Id THEN c ELSE None

require_config(c) == read_or_default(c) # None

\* agentsync hub trust and forget: config.toml is read, changed and written
\* back, be there one or not.
PinStart(p) ==
  /\ MayStart(p)
  /\ Enter(p, "pinning", read_or_default(config))
  /\ UNCHANGED <<bin, tmp, config, blob, btmp, fails, overcloned>>

\* Every other command: require_config, then Vault::open.
CommandStart(p) ==
  /\ MayStart(p)
  /\ require_config(config)
  /\ Enter(p, "loading", read_or_default(config))
  /\ UNCHANGED <<bin, tmp, config, blob, btmp, fails, overcloned>>

\* std::fs::write truncates config.toml: what is left parses as a default
\* config, which has no vault id.
ConfigOpen(p) ==
  /\ proc[p].phase \in {"configuring", "cloning", "pinning"}
  /\ proc[p].cfg = "none"
  /\ config' = None
  /\ proc' = [proc EXCEPT ![p].cfg = "opened"]
  /\ UNCHANGED <<bin, tmp, blob, btmp, fails, overcloned>>

AfterConfig(phase) ==
  IF phase = "configuring" THEN "closing" ELSE "loading"

ConfigWrite(p) ==
  /\ proc[p].cfg = "opened"
  /\ config' = proc[p].id
  /\ IF proc[p].phase = "pinning"
     THEN proc' = [proc EXCEPT ![p] = Idle]
     ELSE proc' = [proc EXCEPT ![p].cfg = "none",
                               ![p].phase = AfterConfig(proc[p].phase)]
  /\ UNCHANGED <<bin, tmp, blob, btmp, fails, overcloned>>

-----------------------------------------------------------------------------
(* The document.                                                           *)

\* The end of a process: what it had open it will not write any more.
Closed(f, p) == IF f = None THEN None ELSE [f EXCEPT !.by = @ \ {p}]

EndOf(p) ==
  /\ proc' = [proc EXCEPT ![p] = Idle]
  /\ bin' = Closed(bin, p)
  /\ tmp' = Closed(tmp, p)

\* Vault::create: AlreadyExists if there is a doc.bin.
Create(p) ==
  /\ proc[p].phase = "creating"
  /\ proc[p].doc = None
  /\ IF bin # None
     THEN proc' = [proc EXCEPT ![p] = Idle]
     ELSE proc' = [proc EXCEPT ![p].doc = [id |-> proc[p].id, ch |-> {}]]
  /\ UNCHANGED <<bin, tmp, config, blob, btmp, fails, overcloned>>

\* Mutant of Opened: a document of another vault is ignored, not refused.
OpenedLeniently(f, id) ==
  IF f = None THEN [id |-> id, ch |-> {}]
  ELSE IF f.val = Torn THEN None
  ELSE IF f.val.id # id THEN [id |-> id, ch |-> {}]
  ELSE f.val

\* The document Vault::open starts from: a new one if there is no doc.bin,
\* None for an error (bytes that do not load, another vault's id).
Opened(f, id) ==
  IF f = None THEN [id |-> id, ch |-> {}]
  ELSE IF f.val = Torn THEN None
  ELSE IF f.val.id # id THEN None
  ELSE f.val

Load(p) ==
  /\ proc[p].phase = "loading"
  /\ LET d == Opened(bin, proc[p].id) IN
       IF d = None
       THEN proc' = [proc EXCEPT ![p] = Idle]
       ELSE proc' = [proc EXCEPT ![p].doc = d, ![p].phase = "open"]
  /\ UNCHANGED <<bin, tmp, config, blob, btmp, fails, overcloned>>

\* A local edit or a merged peer change, under the document's lock, which a
\* save holds from its first to its last step.
Edit(p) ==
  /\ proc[p].phase = "open"
  /\ proc[p].sv = "none"
  /\ \E c \in Change \ (Attachment \cup proc[p].doc.ch) :
       proc' = [proc EXCEPT ![p].doc.ch = @ \cup {c}]
  /\ UNCHANGED <<bin, tmp, config, blob, btmp, fails, overcloned>>

\* fs::write opens and truncates doc.bin.tmp.
Truncated(f, p) ==
  [val |-> Torn, by |-> (IF f = None THEN {} ELSE f.by) \cup {p}]

\* Mutants of SaveBegin: doc.bin is written in place; and only create saves.
SaveInPlace(p) ==
  /\ proc[p].doc # None
  /\ proc[p].sv = "none"
  /\ bin' = Truncated(bin, p)
  /\ proc' = [proc EXCEPT ![p].sv = "opened"]
  /\ UNCHANGED <<tmp, config, blob, btmp, fails, overcloned>>

SaveOnCreate(p) ==
  /\ proc[p].doc # None
  /\ proc[p].phase = "creating"
  /\ proc[p].sv = "none"
  /\ tmp' = Truncated(tmp, p)
  /\ proc' = [proc EXCEPT ![p].sv = "opened"]
  /\ UNCHANGED <<bin, config, blob, btmp, fails, overcloned>>

\* The first step of DocStore::save: create's, or the save loop's, which
\* never ends before its process does.
SaveBegin(p) ==
  /\ proc[p].doc # None
  /\ proc[p].sv = "none"
  /\ tmp' = Truncated(tmp, p)
  /\ proc' = [proc EXCEPT ![p].sv = "opened"]
  /\ UNCHANGED <<bin, config, blob, btmp, fails, overcloned>>

\* The first step of the save of Vault::flush, the last call of a command.
FlushBegin(p) ==
  /\ proc[p].phase \in {"open", "closing"}
  /\ proc[p].sv = "none"
  /\ proc[p].put = NoPut
  /\ tmp' = Truncated(tmp, p)
  /\ proc' = [proc EXCEPT ![p].sv = "opened", ![p].phase = "flushing"]
  /\ UNCHANGED <<bin, config, blob, btmp, fails, overcloned>>

\* What the bytes of d leave in a file: d, unless another process also
\* writes there, when the bytes of the two may mix.
AfterWrite(f, p, d) ==
  IF f.val = Torn /\ f.by = {p} THEN {d} ELSE {d, Torn}

Wrote(f, g, p, d) ==
  IF f = None \/ (f # None /\ p \notin f.by)
  THEN g = f
  ELSE \E v \in AfterWrite(f, p, d) : g = [val |-> v, by |-> f.by \ {p}]

\* The bytes go to the file that was opened, be it renamed since.
SaveWrite(p) ==
  /\ proc[p].sv = "opened"
  /\ Wrote(bin, bin', p, proc[p].doc)
  /\ Wrote(tmp, tmp', p, proc[p].doc)
  /\ proc' = [proc EXCEPT ![p].sv = "written"]
  /\ UNCHANGED <<config, blob, btmp, fails, overcloned>>

AfterSave(phase) ==
  CASE phase = "creating" -> "configuring"
    [] phase = "flushing" -> "done"
    [] OTHER              -> phase

\* An error ends create and flush with `?`, and so the command; the save
\* loop logs it and goes on.
SaveError(p) ==
  IF proc[p].phase \in {"creating", "flushing"}
  THEN EndOf(p)
  ELSE /\ proc' = [proc EXCEPT ![p].sv = "none"]
       /\ bin' = Closed(bin, p)
       /\ tmp' = Closed(tmp, p)

SaveRename(p) ==
  /\ proc[p].sv = "written"
  /\ IF tmp = None
     THEN SaveError(p)
     ELSE /\ bin' = tmp
          /\ tmp' = None
          /\ proc' = [proc EXCEPT ![p].sv = "none",
                                  ![p].phase = AfterSave(proc[p].phase)]
  /\ UNCHANGED <<config, blob, btmp, fails, overcloned>>

SaveFails(p) ==
  /\ proc[p].sv # "none"
  /\ fails < MaxFail
  /\ fails' = fails + 1
  /\ SaveError(p)
  /\ UNCHANGED <<config, blob, btmp, overcloned>>

\* status, diff and snapshot list return without a flush.  A kill does the
\* same.
ReturnUnflushed(p) ==
  /\ proc[p].phase = "open"
  /\ EndOf(p)
  /\ UNCHANGED <<config, blob, btmp, fails, overcloned>>

\* The other commands return after their flush.
Exit(p) ==
  /\ proc[p].phase = "done"
  /\ EndOf(p)
  /\ UNCHANGED <<config, blob, btmp, fails, overcloned>>

\* The process is killed, or an error ends the command.
Kill(p) ==
  /\ proc[p].phase \notin {"idle", "open", "done"}
  /\ EndOf(p)
  /\ UNCHANGED <<config, blob, btmp, fails, overcloned>>

-----------------------------------------------------------------------------
(* Blobs: BlobStore::put, called by ingest before write_attachment.         *)

\* Mutant of PutBegin: the blob is written in place.
PutInPlace(p) ==
  /\ proc[p].phase = "open"
  /\ proc[p].put = NoPut
  /\ \E a \in Attachment \ proc[p].doc.ch :
       IF blob[a] = "absent"
       THEN /\ blob' = [blob EXCEPT ![a] = "torn"]
            /\ proc' = [proc EXCEPT ![p].put = [c |-> a, at |-> "opened"]]
       ELSE /\ proc' = [proc EXCEPT ![p].put = [c |-> a, at |-> "stored"]]
            /\ UNCHANGED blob
  /\ UNCHANGED <<bin, tmp, config, btmp, fails, overcloned>>

PutBegin(p) ==
  /\ proc[p].phase = "open"
  /\ proc[p].put = NoPut
  /\ \E a \in Attachment \ proc[p].doc.ch :
       IF blob[a] = "absent"
       THEN /\ btmp' = [btmp EXCEPT ![a] = "torn"]
            /\ proc' = [proc EXCEPT ![p].put = [c |-> a, at |-> "opened"]]
       ELSE /\ proc' = [proc EXCEPT ![p].put = [c |-> a, at |-> "stored"]]
            /\ UNCHANGED btmp
  /\ UNCHANGED <<bin, tmp, config, blob, fails, overcloned>>

PutWrite(p) ==
  LET a == proc[p].put.c IN
  /\ proc[p].put.at = "opened"
  /\ btmp' = [btmp EXCEPT ![a] = "whole"]
  /\ proc' = [proc EXCEPT ![p].put.at = "written"]
  /\ UNCHANGED <<bin, tmp, config, blob, fails, overcloned>>

PutRename(p) ==
  LET a == proc[p].put.c IN
  /\ proc[p].put.at = "written"
  /\ blob' = [blob EXCEPT ![a] = btmp[a]]
  /\ btmp' = [btmp EXCEPT ![a] = "absent"]
  /\ proc' = [proc EXCEPT ![p].put.at = "stored"]
  /\ UNCHANGED <<bin, tmp, config, fails, overcloned>>

\* put returns an error: ingest gives the file up.
PutFails(p) ==
  /\ proc[p].put.at \in {"opened", "written"}
  /\ fails < MaxFail
  /\ fails' = fails + 1
  /\ proc' = [proc EXCEPT ![p].put = NoPut]
  /\ UNCHANGED <<bin, tmp, config, blob, btmp, overcloned>>

\* ingest: write_attachment, under the document's lock.
Attach(p) ==
  /\ proc[p].put.at = "stored"
  /\ proc[p].sv = "none"
  /\ proc' = [proc EXCEPT ![p].doc.ch = @ \cup {proc[p].put.c},
                          ![p].put = NoPut]
  /\ UNCHANGED <<bin, tmp, config, blob, btmp, fails, overcloned>>

-----------------------------------------------------------------------------
Step(p) ==
  \/ InitStart(p) \/ CloneStart(p) \/ PinStart(p) \/ CommandStart(p)
  \/ ConfigOpen(p) \/ ConfigWrite(p)
  \/ Create(p) \/ Load(p) \/ Edit(p)
  \/ SaveBegin(p) \/ FlushBegin(p) \/ SaveWrite(p) \/ SaveRename(p)
  \/ SaveFails(p) \/ ReturnUnflushed(p) \/ Exit(p) \/ Kill(p)
  \/ PutBegin(p) \/ PutWrite(p) \/ PutRename(p) \/ PutFails(p) \/ Attach(p)

Next == \E p \in Proc : Step(p)

Spec == Init /\ [][Next]_vars

\* The save loop ticks every second for as long as its process lives, and a
\* file operation that was begun ends.
FairSpec ==
  /\ Spec
  /\ \A p \in Proc : WF_vars(SaveBegin(p) \/ SaveWrite(p) \/ SaveRename(p))

-----------------------------------------------------------------------------
Saved == IF bin = None THEN None ELSE bin.val

Abstract == INSTANCE DurableDoc WITH
  saved <- Saved,
  held <- [p \in Proc |-> proc[p].doc]

\* As long as one process at a time uses the directory, doc.bin and
\* doc.bin.tmp together behave as one document saved atomically: a kill or a
\* failure between any two steps of DocStore::save loses nothing that was
\* saved, and every open gets exactly the last save.
ImplementsDurableDoc == Abstract!Spec

\* No step replaces a saved document by a torn one, by that of another
\* vault, or by one that lacks a change saved before: what flush or the save
\* loop stored stays stored (vault.rs, doc_store.rs).
SavedGrows ==
  [][bin # None /\ bin.val # Torn =>
       /\ bin' # None
       /\ bin'.val # Torn
       /\ bin'.val.id = bin.val.id
       /\ bin.val.ch \subseteq bin'.val.ch]_vars

\* Every attachment this device wrote into a document, in memory or saved,
\* has its blob whole on disk, across kills and failures: ingest puts the
\* blob before it writes the attachment.
AttachmentsReadable ==
  \A a \in Attachment :
    \/ \E p \in Proc : proc[p].doc # None /\ a \in proc[p].doc.ch
    \/ bin # None /\ bin.val # Torn /\ a \in bin.val.ch
    => blob[a] = "whole"

\* config.toml names the vault doc.bin holds: init checks both files and
\* writes doc.bin first, and no crash separates them for good, unless a
\* clone was aimed at a directory that held another vault's document.
ConfigNamesTheVault ==
  config \in Id /\ bin # None /\ bin.val # Torn /\ ~overcloned
    => bin.val.id = config

\* A change in an open document reaches doc.bin without a flush, by the
\* save loop alone, unless its process ends first.
EditsAreSaved ==
  \A p \in Proc : \A c \in Change :
    (proc[p].phase = "open" /\ proc[p].doc # None /\ c \in proc[p].doc.ch)
      ~> \/ bin # None /\ bin.val # Torn /\ c \in bin.val.ch
         \/ proc[p].phase = "idle"
=============================================================================
