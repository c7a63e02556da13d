--------------------------- MODULE StorageProofs ---------------------------
(***************************************************************************)
(* Proofs about Storage, for every set of processes and of changes and any *)
(* number of failures, of a directory that one process at a time uses      *)
(* (Overlap = {"idle"}): the files implement DurableDoc, and the safety    *)
(* properties hold.                                                        *)
(*                                                                         *)
(* The inductive invariant says that some process p is the only one that   *)
(* may be busy, and relates what p holds to the files.  Its parts:         *)
(***************************************************************************)
EXTENDS Storage, TLAPS

\* What p holds in each phase of its command.
Form(p) ==
  LET r == proc[p] IN
  /\ r.phase \in {"configuring", "closing", "open", "flushing", "done"}
       => r.doc # None
  /\ r.phase \in {"idle", "cloning", "pinning", "loading"} => r.doc = None
  /\ r.phase \notin {"idle", "pinning"} => r.id \in Id
  /\ r.doc # None => r.doc.id = r.id
  /\ r.sv # "none" => r.doc # None
  /\ r.cfg = "opened" => r.phase \in {"configuring", "cloning", "pinning"}
  /\ r.put # NoPut => r.phase = "open"

\* doc.bin is whole and nobody writes to it; doc.bin.tmp is as far as p is.
Files(p) ==
  LET r == proc[p] IN
  /\ bin # None => bin.val # Torn /\ bin.by = {}
  /\ r.sv # "opened" /\ tmp # None => tmp.by = {}
  /\ r.sv = "opened" => tmp # None /\ tmp.val = Torn /\ tmp.by = {p}
  /\ r.sv = "written" => tmp # None /\ tmp.val = r.doc

\* The document in memory holds everything doc.bin does.
Ahead(p) ==
  LET r == proc[p] IN
  /\ r.doc # None /\ bin # None
       => bin.val.id = r.doc.id /\ bin.val.ch \subseteq r.doc.ch
  /\ r.phase = "creating" /\ r.doc # None => bin = None
  /\ r.phase \in {"configuring", "closing"} => bin # None

\* config.toml against the phase of p.
Config(p) ==
  LET r == proc[p] IN
  /\ r.phase = "creating" => config = "absent"
  /\ r.phase \in {"loading", "open", "closing", "flushing", "done"}
       => config = r.id
  /\ r.phase = "configuring" => config \notin Id
  /\ r.phase = "cloning" /\ ~overcloned => bin = None
  /\ r.phase = "pinning" /\ r.id \in Id /\ bin # None /\ ~overcloned
       => bin.val.id = r.id
  /\ ConfigNamesTheVault

\* The blobs of p's document, of doc.bin and of p's put.
Blobs(p) ==
  LET r == proc[p] IN
  /\ \A a \in Attachment : blob[a] # "torn"
  /\ r.put.at = "written" => btmp[r.put.c] = "whole"
  /\ r.put.at = "stored" => blob[r.put.c] = "whole"
  /\ r.doc # None => \A a \in Attachment \cap r.doc.ch : blob[a] = "whole"
  /\ bin # None => \A a \in Attachment \cap bin.val.ch : blob[a] = "whole"

\* The others, and p itself between two commands, hold nothing.
Alone(p) ==
  /\ \A q \in Proc \ {p} : proc[q] = Idle
  /\ proc[p].phase = "idle" => proc[p] = Idle

At(p) ==
  /\ TypeOK
  /\ Alone(p)
  /\ Form(p)
  /\ Files(p)
  /\ Ahead(p)
  /\ Config(p)
  /\ Blobs(p)

IInv == \E p \in Proc : At(p)

-----------------------------------------------------------------------------
LEMMA InitStartKeeps ==
  ASSUME NEW p \in Proc, At(p), InitStart(p)
  PROVE  At(p)'
<1>0. proc' = [proc EXCEPT ![p] = proc'[p]] /\ proc[p] \in Process
  BY DEF At, TypeOK, InitStart, MayStart, Enter
<1>1. TypeOK'
  <2>1. PICK i \in Id : proc' = [proc EXCEPT ![p] = [Idle EXCEPT !.phase = "creating", !.id = i]]
    BY DEF InitStart, Enter
  <2>2. [Idle EXCEPT !.phase = "creating", !.id = i] \in Process
    BY DEF Process, Idle, Phase
  <2> QED
    BY <2>1, <2>2 DEF At, TypeOK, InitStart
<1>2. Alone(p)'
  BY <1>0 DEF At, TypeOK, Process, Alone, InitStart, MayStart, Enter
<1>3. Form(p)'
  BY <1>0 DEF At, TypeOK, Process, Form, Idle, NoPut, InitStart, MayStart,
     Enter
<1>4. Files(p)'
  BY <1>0 DEF At, TypeOK, Process, Files, Form, File, Idle, Alone, InitStart,
     MayStart, Enter
<1>5. Ahead(p)'
  BY <1>0 DEF At, TypeOK, Process, Ahead, Form, Idle, InitStart, MayStart,
     Enter
<1>6. Config(p)'
  BY <1>0 DEF At, TypeOK, Process, Config, ConfigNamesTheVault, InitStart,
     MayStart, Enter
<1>7. Blobs(p)'
  BY <1>0 DEF At, TypeOK, Process, Blobs, Form, Idle, NoPut, InitStart,
     MayStart, Enter
<1> QED
  BY <1>1, <1>2, <1>3, <1>4, <1>5, <1>6, <1>7 DEF At

LEMMA CloneStartKeeps ==
  ASSUME NEW p \in Proc, At(p), CloneStart(p)
  PROVE  At(p)'
<1>0. proc' = [proc EXCEPT ![p] = proc'[p]] /\ proc[p] \in Process
  BY DEF At, TypeOK, CloneStart, MayStart, Enter
<1>1. TypeOK'
  BY <1>0, StorageAssumption DEF At, TypeOK, Process, File, Phase, Doc, Idle,
     NoPut, CloneStart, MayStart, Enter
<1>2. Alone(p)'
  BY <1>0 DEF At, TypeOK, Process, Alone, CloneStart, MayStart, Enter
<1>3. Form(p)'
  BY <1>0, StorageAssumption DEF At, TypeOK, Process, Form, Alone, Idle,
     NoPut, Doc, CloneStart, MayStart, Enter
<1>4. Files(p)'
  BY <1>0 DEF At, TypeOK, Process, Files, Form, File, Idle, Alone, CloneStart,
     MayStart, Enter
<1>5. Ahead(p)'
  BY <1>0 DEF At, TypeOK, Process, Ahead, Form, Idle, CloneStart, MayStart,
     Enter
<1>6. Config(p)'
  <2>1. ~overcloned' => ~overcloned /\ bin' = None
    BY DEF CloneStart
  <2>2. proc'[p].phase = "cloning" /\ config' = config /\ bin' = bin
    BY DEF CloneStart, Enter, Idle, At, TypeOK
  <2> QED
    BY <2>1, <2>2 DEF Config, ConfigNamesTheVault
<1>7. Blobs(p)'
  BY <1>0 DEF At, TypeOK, Process, Blobs, Form, Idle, NoPut, CloneStart,
     MayStart, Enter
<1> QED
  BY <1>1, <1>2, <1>3, <1>4, <1>5, <1>6, <1>7 DEF At

LEMMA PinStartKeeps ==
  ASSUME NEW p \in Proc, At(p), PinStart(p)
  PROVE  At(p)'
<1>0. proc' = [proc EXCEPT ![p] = proc'[p]] /\ proc[p] \in Process
  BY DEF At, TypeOK, PinStart, read_or_default, MayStart, Enter
<1>1. TypeOK'
  BY <1>0 DEF At, TypeOK, Process, File, Phase, Doc, Idle, NoPut, PinStart, read_or_default,
     MayStart, Enter
<1>2. Alone(p)'
  BY <1>0 DEF At, TypeOK, Process, Alone, PinStart, read_or_default, MayStart, Enter
<1>3. Form(p)'
  BY <1>0 DEF At, TypeOK, Process, Form, Idle, NoPut, PinStart, read_or_default, MayStart,
     Enter
<1>4. Files(p)'
  BY <1>0 DEF At, TypeOK, Process, Files, Form, File, Idle, Alone, PinStart, read_or_default,
     MayStart, Enter
<1>5. Ahead(p)'
  BY <1>0 DEF At, TypeOK, Process, Ahead, Form, Idle, PinStart, read_or_default, MayStart,
     Enter
<1>6. Config(p)'
  BY <1>0, StorageAssumption DEF At, TypeOK, Process, Config,
     ConfigNamesTheVault, Form, Ahead, Files, File, Idle, Alone, PinStart, read_or_default,
     MayStart, Enter
<1>7. Blobs(p)'
  BY <1>0 DEF At, TypeOK, Process, Blobs, Form, Idle, NoPut, PinStart, read_or_default,
     MayStart, Enter
<1> QED
  BY <1>1, <1>2, <1>3, <1>4, <1>5, <1>6, <1>7 DEF At

LEMMA CommandStartKeeps ==
  ASSUME NEW p \in Proc, At(p), CommandStart(p)
  PROVE  At(p)'
<1>0. proc' = [proc EXCEPT ![p] = proc'[p]] /\ proc[p] \in Process
  BY DEF At, TypeOK, CommandStart, require_config, read_or_default, MayStart, Enter
<1>1. TypeOK'
  BY <1>0 DEF At, TypeOK, Process, File, Phase, Doc, Idle, NoPut,
     CommandStart, require_config, read_or_default, MayStart, Enter
<1>2. Alone(p)'
  BY <1>0 DEF At, TypeOK, Process, Alone, CommandStart, require_config, read_or_default, MayStart, Enter
<1>3. Form(p)'
  BY <1>0 DEF At, TypeOK, Process, Form, Idle, NoPut, CommandStart, require_config, read_or_default, MayStart,
     Enter
<1>4. Files(p)'
  BY <1>0 DEF At, TypeOK, Process, Files, Form, File, Idle, Alone,
     CommandStart, require_config, read_or_default, MayStart, Enter
<1>5. Ahead(p)'
  BY <1>0 DEF At, TypeOK, Process, Ahead, Form, Idle, CommandStart, require_config, read_or_default, MayStart,
     Enter
<1>6. Config(p)'
  BY <1>0 DEF At, TypeOK, Process, Config, ConfigNamesTheVault, CommandStart, require_config, read_or_default,
     MayStart, Enter
<1>7. Blobs(p)'
  BY <1>0 DEF At, TypeOK, Process, Blobs, Form, Idle, NoPut, CommandStart, require_config, read_or_default,
     MayStart, Enter
<1> QED
  BY <1>1, <1>2, <1>3, <1>4, <1>5, <1>6, <1>7 DEF At

LEMMA ConfigOpenKeeps ==
  ASSUME NEW p \in Proc, At(p), ConfigOpen(p)
  PROVE  At(p)'
<1>0. proc' = [proc EXCEPT ![p] = proc'[p]] /\ proc[p] \in Process
  BY DEF At, TypeOK, ConfigOpen
<1>1. TypeOK'
  BY <1>0 DEF At, TypeOK, Process, File, Phase, ConfigOpen
<1>2. Alone(p)'
  BY <1>0 DEF At, TypeOK, Process, Alone, ConfigOpen
<1>3. Form(p)'
  BY <1>0 DEF At, TypeOK, Process, Form, ConfigOpen
<1>4. Files(p)'
  BY <1>0 DEF At, TypeOK, Process, Files, ConfigOpen
<1>5. Ahead(p)'
  BY <1>0 DEF At, TypeOK, Process, Ahead, ConfigOpen
<1>6. Config(p)'
  BY <1>0, StorageAssumption DEF At, TypeOK, Process, Config,
     ConfigNamesTheVault, Form, Ahead, Files, File, Idle, Alone, ConfigOpen
<1>7. Blobs(p)'
  BY <1>0 DEF At, TypeOK, Process, Blobs, ConfigOpen
<1> QED
  BY <1>1, <1>2, <1>3, <1>4, <1>5, <1>6, <1>7 DEF At

LEMMA ConfigWriteKeeps ==
  ASSUME NEW p \in Proc, At(p), ConfigWrite(p)
  PROVE  At(p)'
<1>0. proc' = [proc EXCEPT ![p] = proc'[p]] /\ proc[p] \in Process
  BY DEF At, TypeOK, ConfigWrite, AfterConfig
<1>1. TypeOK'
  BY <1>0 DEF At, TypeOK, Process, File, Phase, Doc, Idle, NoPut, ConfigWrite,
     AfterConfig
<1>2. Alone(p)'
  BY <1>0 DEF At, TypeOK, Process, Alone, ConfigWrite, AfterConfig
<1>3. Form(p)'
  BY <1>0 DEF At, TypeOK, Process, Form, Idle, NoPut, ConfigWrite, AfterConfig
<1>4. Files(p)'
  BY <1>0 DEF At, TypeOK, Process, Files, Form, File, Idle, Alone,
     ConfigWrite, AfterConfig
<1>5. Ahead(p)'
  BY <1>0 DEF At, TypeOK, Process, Ahead, Form, Idle, ConfigWrite, AfterConfig
<1>6. Config(p)'
  BY <1>0 DEF At, TypeOK, Process, Config, ConfigNamesTheVault, Form, Idle,
     ConfigWrite, AfterConfig
<1>7. Blobs(p)'
  BY <1>0 DEF At, TypeOK, Process, Blobs, Form, Idle, NoPut, ConfigWrite,
     AfterConfig
<1> QED
  BY <1>1, <1>2, <1>3, <1>4, <1>5, <1>6, <1>7 DEF At

LEMMA CreateKeeps ==
  ASSUME NEW p \in Proc, At(p), Create(p)
  PROVE  At(p)'
<1>0. proc' = [proc EXCEPT ![p] = proc'[p]] /\ proc[p] \in Process
  BY DEF At, TypeOK, Create
<1>1. TypeOK'
  BY <1>0, StorageAssumption DEF At, TypeOK, Alone, Form, Files, Ahead,
     Config, Blobs, ConfigNamesTheVault, Process, File, Doc, Idle, NoPut,
     Phase, Create
<1>2. Alone(p)'
  BY <1>0 DEF At, TypeOK, Process, Alone, Create
<1>3. Form(p)'
  BY <1>0 DEF At, TypeOK, Process, Form, Idle, NoPut, Create
<1>4. Files(p)'
  BY <1>0 DEF At, TypeOK, Process, Files, Form, File, Idle, Alone, Create
<1>5. Ahead(p)'
  BY <1>0 DEF At, TypeOK, Process, Ahead, Form, Idle, Create
<1>6. Config(p)'
  BY <1>0 DEF At, TypeOK, Process, Config, ConfigNamesTheVault, Form, Idle,
     Create
<1>7. Blobs(p)'
  BY <1>0 DEF At, TypeOK, Process, Blobs, Form, Idle, NoPut, Create
<1> QED
  BY <1>1, <1>2, <1>3, <1>4, <1>5, <1>6, <1>7 DEF At

LEMMA LoadKeeps ==
  ASSUME NEW p \in Proc, At(p), Load(p)
  PROVE  At(p)'
<1>0. proc' = [proc EXCEPT ![p] = proc'[p]] /\ proc[p] \in Process
  BY DEF At, TypeOK, Load, Opened
<1>1. TypeOK'
  BY <1>0 DEF At, TypeOK, Process, File, Phase, Doc, Idle, NoPut, Load, Opened
<1>2. Alone(p)'
  BY <1>0 DEF At, TypeOK, Process, Alone, Load, Opened
<1>3. Form(p)'
  BY <1>0 DEF At, TypeOK, Process, Form, Idle, NoPut, Load, Opened
<1>4. Files(p)'
  BY <1>0 DEF At, TypeOK, Process, Files, Form, File, Idle, Alone, Load,
     Opened
<1>5. Ahead(p)'
  BY <1>0 DEF At, TypeOK, Process, Ahead, Form, Idle, Load, Opened
<1>6. Config(p)'
  BY <1>0 DEF At, TypeOK, Process, Config, ConfigNamesTheVault, Form, Idle,
     Load, Opened
<1>7. Blobs(p)'
  BY <1>0 DEF At, TypeOK, Process, Blobs, Form, Idle, NoPut, Load, Opened
<1> QED
  BY <1>1, <1>2, <1>3, <1>4, <1>5, <1>6, <1>7 DEF At

LEMMA EditKeeps ==
  ASSUME NEW p \in Proc, At(p), Edit(p)
  PROVE  At(p)'
<1>0. proc' = [proc EXCEPT ![p] = proc'[p]] /\ proc[p] \in Process
  BY DEF At, TypeOK, Edit
<1>1. TypeOK'
  BY <1>0, StorageAssumption DEF At, TypeOK, Alone, Form, Files, Ahead,
     Config, Blobs, ConfigNamesTheVault, Process, File, Doc, Idle, NoPut,
     Phase, Edit
<1>2. Alone(p)'
  BY <1>0 DEF At, TypeOK, Process, Alone, Edit
<1>3. Form(p)'
  BY <1>0, StorageAssumption DEF At, TypeOK, Process, Form, Alone, Idle,
     NoPut, Doc, Edit
<1>4. Files(p)'
  BY <1>0 DEF At, TypeOK, Process, Files, Edit
<1>5. Ahead(p)'
  BY <1>0 DEF At, TypeOK, Process, Ahead, Form, Idle, Edit
<1>6. Config(p)'
  BY <1>0 DEF At, TypeOK, Process, Config, ConfigNamesTheVault, Edit
<1>7. Blobs(p)'
  BY <1>0 DEF At, TypeOK, Process, Blobs, Form, Idle, NoPut, Edit
<1> QED
  BY <1>1, <1>2, <1>3, <1>4, <1>5, <1>6, <1>7 DEF At

LEMMA SaveBeginKeeps ==
  ASSUME NEW p \in Proc, At(p), SaveBegin(p)
  PROVE  At(p)'
<1>0. proc' = [proc EXCEPT ![p] = proc'[p]] /\ proc[p] \in Process
  BY DEF At, TypeOK, SaveBegin, Truncated
<1>1. TypeOK'
  BY <1>0 DEF At, TypeOK, Process, File, Phase, SaveBegin, Truncated
<1>2. Alone(p)'
  BY <1>0 DEF At, TypeOK, Process, Alone, Idle, SaveBegin, Truncated
<1>3. Form(p)'
  BY <1>0 DEF At, TypeOK, Process, Form, SaveBegin, Truncated
<1>4. Files(p)'
  <2>1. tmp' = [val |-> Torn, by |-> {p}]
    BY DEF SaveBegin, Truncated, At, TypeOK, Files, File
  <2>2. [val |-> Torn, by |-> {p}] # None
    BY StorageAssumption DEF File
  <2>3. proc'[p].sv = "opened" /\ bin' = bin
    BY DEF SaveBegin, At, TypeOK, Process
  <2> QED
    BY <2>1, <2>2, <2>3 DEF Files, At
<1>5. Ahead(p)'
  BY <1>0 DEF At, TypeOK, Process, Ahead, SaveBegin, Truncated
<1>6. Config(p)'
  BY <1>0 DEF At, TypeOK, Process, Config, ConfigNamesTheVault, SaveBegin,
     Truncated
<1>7. Blobs(p)'
  BY <1>0 DEF At, TypeOK, Process, Blobs, SaveBegin, Truncated
<1> QED
  BY <1>1, <1>2, <1>3, <1>4, <1>5, <1>6, <1>7 DEF At

LEMMA FlushBeginKeeps ==
  ASSUME NEW p \in Proc, At(p), FlushBegin(p)
  PROVE  At(p)'
<1>0. proc' = [proc EXCEPT ![p] = proc'[p]] /\ proc[p] \in Process
  BY DEF At, TypeOK, FlushBegin, Truncated
<1>1. TypeOK'
  BY <1>0 DEF At, TypeOK, Process, File, Phase, FlushBegin, Truncated
<1>2. Alone(p)'
  BY <1>0 DEF At, TypeOK, Process, Alone, FlushBegin, Truncated
<1>3. Form(p)'
  BY <1>0 DEF At, TypeOK, Process, Form, FlushBegin, Truncated
<1>4. Files(p)'
  BY <1>0 DEF At, TypeOK, Process, Files, FlushBegin, Truncated
<1>5. Ahead(p)'
  BY <1>0 DEF At, TypeOK, Process, Ahead, FlushBegin, Truncated
<1>6. Config(p)'
  BY <1>0 DEF At, TypeOK, Process, Config, ConfigNamesTheVault, FlushBegin,
     Truncated
<1>7. Blobs(p)'
  BY <1>0 DEF At, TypeOK, Process, Blobs, FlushBegin, Truncated
<1> QED
  BY <1>1, <1>2, <1>3, <1>4, <1>5, <1>6, <1>7 DEF At

LEMMA SaveWriteKeeps ==
  ASSUME NEW p \in Proc, At(p), SaveWrite(p)
  PROVE  At(p)'
<1>0. proc' = [proc EXCEPT ![p] = proc'[p]] /\ proc[p] \in Process
  BY DEF At, TypeOK, SaveWrite, Wrote, AfterWrite
<1>1. TypeOK'
  BY <1>0, StorageAssumption DEF At, TypeOK, Alone, Form, Files, Ahead,
     Config, Blobs, ConfigNamesTheVault, Process, File, Doc, Idle, NoPut,
     Phase, SaveWrite, Wrote, AfterWrite
<1>2. Alone(p)'
  BY <1>0 DEF At, TypeOK, Process, Alone, Idle, SaveWrite, Wrote, AfterWrite
<1>3. Form(p)'
  BY <1>0 DEF At, TypeOK, Process, Form, SaveWrite, Wrote, AfterWrite
<1>4. Files(p)'
  <2>1. tmp.val = Torn /\ tmp.by = {p} /\ tmp # None
    BY DEF SaveWrite, At, Files
  <2>2. tmp' = [val |-> proc[p].doc, by |-> {}]
    BY <2>1 DEF SaveWrite, Wrote, AfterWrite
  <2>3. bin' = bin
    BY DEF SaveWrite, Wrote, At, Files
  <2>4. proc'[p].sv = "written" /\ proc'[p].doc = proc[p].doc /\ proc[p].doc # None
    BY <1>0 DEF SaveWrite, At, TypeOK, Process, Form
  <2>5. [val |-> proc[p].doc, by |-> {}] # None
    BY <1>0, <2>4, StorageAssumption DEF Process, File
  <2> QED
    BY <2>2, <2>3, <2>4, <2>5 DEF Files, At
<1>5. Ahead(p)'
  BY <1>0 DEF At, TypeOK, Process, Ahead, Form, Files, File, Doc, Idle, Alone,
     SaveWrite, Wrote, AfterWrite
<1>6. Config(p)'
  BY <1>0 DEF At, TypeOK, Process, Config, ConfigNamesTheVault, Form, Ahead,
     Files, File, Idle, Alone, SaveWrite, Wrote, AfterWrite
<1>7. Blobs(p)'
  BY <1>0 DEF At, TypeOK, Process, Blobs, Form, Files, File, Doc, Idle, NoPut,
     Alone, SaveWrite, Wrote, AfterWrite
<1> QED
  BY <1>1, <1>2, <1>3, <1>4, <1>5, <1>6, <1>7 DEF At

LEMMA SaveRenameKeeps ==
  ASSUME NEW p \in Proc, At(p), SaveRename(p)
  PROVE  At(p)'
<1>0. proc' = [proc EXCEPT ![p] = proc'[p]] /\ proc[p] \in Process
  BY DEF At, TypeOK, SaveRename, AfterSave, SaveError, EndOf, Closed
<1>1. TypeOK'
  BY <1>0 DEF At, TypeOK, Process, File, Phase, Doc, Idle, NoPut, SaveRename,
     AfterSave, SaveError, EndOf, Closed
<1>2. Alone(p)'
  BY <1>0 DEF At, TypeOK, Process, Alone, Idle, SaveRename, AfterSave,
     SaveError, EndOf, Closed
<1>3. Form(p)'
  BY <1>0 DEF At, TypeOK, Process, Form, Idle, NoPut, SaveRename, AfterSave,
     SaveError, EndOf, Closed
<1>4. Files(p)'
  BY <1>0, StorageAssumption DEF At, TypeOK, Process, Files, Form, File, Idle,
     Alone, SaveRename, AfterSave, SaveError, EndOf, Closed
<1>5. Ahead(p)'
  BY <1>0 DEF At, TypeOK, Process, Ahead, Form, Files, File, Doc, Idle, Alone,
     SaveRename, AfterSave, SaveError, EndOf, Closed
<1>6. Config(p)'
  BY <1>0, StorageAssumption DEF At, TypeOK, Alone, Form, Files, Ahead,
     Config, Blobs, ConfigNamesTheVault, Process, File, Doc, Idle, NoPut,
     Phase, SaveRename, AfterSave, SaveError, EndOf, Closed
<1>7. Blobs(p)'
  BY <1>0 DEF At, TypeOK, Process, Blobs, Form, Files, File, Doc, Idle, NoPut,
     Alone, SaveRename, AfterSave, SaveError, EndOf, Closed
<1> QED
  BY <1>1, <1>2, <1>3, <1>4, <1>5, <1>6, <1>7 DEF At

LEMMA SaveFailsKeeps ==
  ASSUME NEW p \in Proc, At(p), SaveFails(p)
  PROVE  At(p)'
<1>0. proc' = [proc EXCEPT ![p] = proc'[p]] /\ proc[p] \in Process
  BY DEF At, TypeOK, SaveFails, SaveError, EndOf, Closed
<1>1. TypeOK'
  BY <1>0, StorageAssumption DEF At, TypeOK, Process, File, Phase, Doc, Idle,
     NoPut, SaveFails, SaveError, EndOf, Closed
<1>2. Alone(p)'
  BY <1>0 DEF At, TypeOK, Process, Alone, Idle, SaveFails, SaveError, EndOf,
     Closed
<1>3. Form(p)'
  BY <1>0 DEF At, TypeOK, Process, Form, Idle, NoPut, SaveFails, SaveError,
     EndOf, Closed
<1>4. Files(p)'
  BY <1>0 DEF At, TypeOK, Process, Files, Form, File, Idle, Alone, SaveFails,
     SaveError, EndOf, Closed
<1>5. Ahead(p)'
  <2>1. bin' = None <=> bin = None
    BY StorageAssumption DEF SaveFails, SaveError, EndOf, Closed, At, TypeOK, File
  <2>2. bin # None => bin'.val = bin.val
    BY DEF SaveFails, SaveError, EndOf, Closed, At, TypeOK, File
  <2>3. proc'[p].doc = None \/ (proc'[p].doc = proc[p].doc /\ proc'[p].phase = proc[p].phase)
    BY <1>0 DEF SaveFails, SaveError, EndOf, At, TypeOK, Process, Idle
  <2>4. proc'[p].phase \in {"idle", proc[p].phase}
    BY <1>0 DEF SaveFails, SaveError, EndOf, At, TypeOK, Process, Idle
  <2> QED
    BY <2>1, <2>2, <2>3, <2>4 DEF Ahead, At
<1>6. Config(p)'
  BY <1>0 DEF At, TypeOK, Process, Config, ConfigNamesTheVault, Form, Ahead,
     Files, File, Idle, Alone, SaveFails, SaveError, EndOf, Closed
<1>7. Blobs(p)'
  BY <1>0 DEF At, TypeOK, Process, Blobs, Form, Files, File, Doc, Idle, NoPut,
     Alone, SaveFails, SaveError, EndOf, Closed
<1> QED
  BY <1>1, <1>2, <1>3, <1>4, <1>5, <1>6, <1>7 DEF At

LEMMA ReturnUnflushedKeeps ==
  ASSUME NEW p \in Proc, At(p), ReturnUnflushed(p)
  PROVE  At(p)'
<1>0. proc' = [proc EXCEPT ![p] = proc'[p]] /\ proc[p] \in Process
  BY DEF At, TypeOK, ReturnUnflushed, EndOf, Closed
<1>1. TypeOK'
  BY <1>0 DEF At, TypeOK, Process, File, Phase, Doc, Idle, NoPut, ReturnUnflushed, EndOf,
     Closed
<1>2. Alone(p)'
  BY <1>0 DEF At, TypeOK, Process, Alone, ReturnUnflushed, EndOf, Closed
<1>3. Form(p)'
  BY <1>0 DEF At, TypeOK, Process, Form, Idle, NoPut, ReturnUnflushed, EndOf, Closed
<1>4. Files(p)'
  BY <1>0 DEF At, TypeOK, Process, Files, Form, File, Idle, Alone, ReturnUnflushed,
     EndOf, Closed
<1>5. Ahead(p)'
  BY <1>0 DEF At, TypeOK, Process, Ahead, Form, Idle, ReturnUnflushed, EndOf, Closed
<1>6. Config(p)'
  BY <1>0 DEF At, TypeOK, Process, Config, ConfigNamesTheVault, Form, Idle,
     ReturnUnflushed, EndOf, Closed
<1>7. Blobs(p)'
  BY <1>0 DEF At, TypeOK, Process, Blobs, Form, Idle, NoPut, ReturnUnflushed, EndOf,
     Closed
<1> QED
  BY <1>1, <1>2, <1>3, <1>4, <1>5, <1>6, <1>7 DEF At

LEMMA ExitKeeps ==
  ASSUME NEW p \in Proc, At(p), Exit(p)
  PROVE  At(p)'
<1>0. proc' = [proc EXCEPT ![p] = proc'[p]] /\ proc[p] \in Process
  BY DEF At, TypeOK, Exit, EndOf, Closed
<1>1. TypeOK'
  BY <1>0 DEF At, TypeOK, Process, File, Phase, Doc, Idle, NoPut, Exit, EndOf,
     Closed
<1>2. Alone(p)'
  BY <1>0 DEF At, TypeOK, Process, Alone, Exit, EndOf, Closed
<1>3. Form(p)'
  BY <1>0 DEF At, TypeOK, Process, Form, Idle, NoPut, Exit, EndOf, Closed
<1>4. Files(p)'
  BY <1>0 DEF At, TypeOK, Process, Files, Form, File, Idle, Alone, Exit,
     EndOf, Closed
<1>5. Ahead(p)'
  BY <1>0 DEF At, TypeOK, Process, Ahead, Form, Idle, Exit, EndOf, Closed
<1>6. Config(p)'
  BY <1>0 DEF At, TypeOK, Process, Config, ConfigNamesTheVault, Form, Idle,
     Exit, EndOf, Closed
<1>7. Blobs(p)'
  BY <1>0 DEF At, TypeOK, Process, Blobs, Form, Idle, NoPut, Exit, EndOf,
     Closed
<1> QED
  BY <1>1, <1>2, <1>3, <1>4, <1>5, <1>6, <1>7 DEF At

LEMMA KillKeeps ==
  ASSUME NEW p \in Proc, At(p), Kill(p)
  PROVE  At(p)'
<1>0. proc' = [proc EXCEPT ![p] = proc'[p]] /\ proc[p] \in Process
  BY DEF At, TypeOK, Kill, EndOf, Closed
<1>1. TypeOK'
  BY <1>0 DEF At, TypeOK, Process, File, Phase, Doc, Idle, NoPut, Kill, EndOf,
     Closed
<1>2. Alone(p)'
  BY <1>0 DEF At, TypeOK, Process, Alone, Kill, EndOf, Closed
<1>3. Form(p)'
  BY <1>0 DEF At, TypeOK, Process, Form, Idle, NoPut, Kill, EndOf, Closed
<1>4. Files(p)'
  BY <1>0 DEF At, TypeOK, Process, Files, Form, File, Idle, Alone, Kill,
     EndOf, Closed
<1>5. Ahead(p)'
  BY <1>0 DEF At, TypeOK, Process, Ahead, Form, Idle, Kill, EndOf, Closed
<1>6. Config(p)'
  BY <1>0 DEF At, TypeOK, Process, Config, ConfigNamesTheVault, Form, Idle,
     Kill, EndOf, Closed
<1>7. Blobs(p)'
  BY <1>0 DEF At, TypeOK, Process, Blobs, Form, Idle, NoPut, Kill, EndOf,
     Closed
<1> QED
  BY <1>1, <1>2, <1>3, <1>4, <1>5, <1>6, <1>7 DEF At

LEMMA PutBeginKeeps ==
  ASSUME NEW p \in Proc, At(p), PutBegin(p)
  PROVE  At(p)'
<1>0. proc' = [proc EXCEPT ![p] = proc'[p]] /\ proc[p] \in Process
  BY DEF At, TypeOK, PutBegin
<1>1. TypeOK'
  BY <1>0 DEF At, TypeOK, Process, File, Phase, PutBegin
<1>2. Alone(p)'
  BY <1>0 DEF At, TypeOK, Process, Alone, PutBegin
<1>3. Form(p)'
  BY <1>0 DEF At, TypeOK, Process, Form, PutBegin
<1>4. Files(p)'
  BY <1>0 DEF At, TypeOK, Process, Files, PutBegin
<1>5. Ahead(p)'
  BY <1>0 DEF At, TypeOK, Process, Ahead, PutBegin
<1>6. Config(p)'
  BY <1>0 DEF At, TypeOK, Process, Config, ConfigNamesTheVault, PutBegin
<1>7. Blobs(p)'
  BY <1>0 DEF At, TypeOK, Process, Blobs, PutBegin
<1> QED
  BY <1>1, <1>2, <1>3, <1>4, <1>5, <1>6, <1>7 DEF At

LEMMA PutWriteKeeps ==
  ASSUME NEW p \in Proc, At(p), PutWrite(p)
  PROVE  At(p)'
<1>0. proc' = [proc EXCEPT ![p] = proc'[p]] /\ proc[p] \in Process
  BY DEF At, TypeOK, PutWrite
<1>1. TypeOK'
  BY <1>0 DEF At, TypeOK, Process, File, Phase, Doc, Idle, NoPut, PutWrite
<1>2. Alone(p)'
  BY <1>0, StorageAssumption DEF At, TypeOK, Alone, Form, Files, Ahead,
     Config, Blobs, ConfigNamesTheVault, Process, File, Doc, Idle, NoPut,
     Phase, PutWrite
<1>3. Form(p)'
  BY <1>0 DEF At, TypeOK, Process, Form, Idle, NoPut, PutWrite
<1>4. Files(p)'
  BY <1>0 DEF At, TypeOK, Process, Files, PutWrite
<1>5. Ahead(p)'
  BY <1>0 DEF At, TypeOK, Process, Ahead, PutWrite
<1>6. Config(p)'
  BY <1>0 DEF At, TypeOK, Process, Config, ConfigNamesTheVault, PutWrite
<1>7. Blobs(p)'
  BY <1>0 DEF At, TypeOK, Process, Blobs, Form, Idle, NoPut, PutWrite
<1> QED
  BY <1>1, <1>2, <1>3, <1>4, <1>5, <1>6, <1>7 DEF At

LEMMA PutRenameKeeps ==
  ASSUME NEW p \in Proc, At(p), PutRename(p)
  PROVE  At(p)'
<1>0. proc' = [proc EXCEPT ![p] = proc'[p]] /\ proc[p] \in Process
  BY DEF At, TypeOK, PutRename
<1>1. TypeOK'
  BY <1>0 DEF At, TypeOK, Process, File, Phase, Doc, Idle, NoPut, PutRename
<1>2. Alone(p)'
  BY <1>0, StorageAssumption DEF At, TypeOK, Alone, Form, Files, Ahead,
     Config, Blobs, ConfigNamesTheVault, Process, File, Doc, Idle, NoPut,
     Phase, PutRename
<1>3. Form(p)'
  BY <1>0 DEF At, TypeOK, Process, Form, Idle, NoPut, PutRename
<1>4. Files(p)'
  BY <1>0 DEF At, TypeOK, Process, Files, PutRename
<1>5. Ahead(p)'
  BY <1>0 DEF At, TypeOK, Process, Ahead, PutRename
<1>6. Config(p)'
  BY <1>0 DEF At, TypeOK, Process, Config, ConfigNamesTheVault, PutRename
<1>7. Blobs(p)'
  BY <1>0 DEF At, TypeOK, Process, Blobs, Form, Idle, NoPut, PutRename
<1> QED
  BY <1>1, <1>2, <1>3, <1>4, <1>5, <1>6, <1>7 DEF At

LEMMA PutFailsKeeps ==
  ASSUME NEW p \in Proc, At(p), PutFails(p)
  PROVE  At(p)'
<1>0. proc' = [proc EXCEPT ![p] = proc'[p]] /\ proc[p] \in Process
  BY DEF At, TypeOK, PutFails
<1>1. TypeOK'
  BY <1>0, StorageAssumption DEF At, TypeOK, Process, File, Phase, Doc, Idle,
     NoPut, PutFails
<1>2. Alone(p)'
  BY <1>0 DEF At, TypeOK, Process, Alone, Idle, PutFails
<1>3. Form(p)'
  BY <1>0 DEF At, TypeOK, Process, Form, PutFails
<1>4. Files(p)'
  BY <1>0 DEF At, TypeOK, Process, Files, PutFails
<1>5. Ahead(p)'
  BY <1>0 DEF At, TypeOK, Process, Ahead, PutFails
<1>6. Config(p)'
  BY <1>0 DEF At, TypeOK, Process, Config, ConfigNamesTheVault, PutFails
<1>7. Blobs(p)'
  BY <1>0 DEF At, TypeOK, Process, Blobs, Form, Idle, NoPut, PutFails
<1> QED
  BY <1>1, <1>2, <1>3, <1>4, <1>5, <1>6, <1>7 DEF At

LEMMA AttachKeeps ==
  ASSUME NEW p \in Proc, At(p), Attach(p)
  PROVE  At(p)'
<1>0. proc' = [proc EXCEPT ![p] = proc'[p]] /\ proc[p] \in Process
  BY DEF At, TypeOK, Attach
<1>1. TypeOK'
  BY <1>0 DEF At, TypeOK, Process, File, Phase, Doc, Idle, NoPut, Attach
<1>2. Alone(p)'
  BY <1>0, StorageAssumption DEF At, TypeOK, Alone, Form, Files, Ahead,
     Config, Blobs, ConfigNamesTheVault, Process, File, Doc, Idle, NoPut,
     Phase, Attach
<1>3. Form(p)'
  BY <1>0 DEF At, TypeOK, Process, Form, Idle, NoPut, Attach
<1>4. Files(p)'
  BY <1>0 DEF At, TypeOK, Process, Files, Attach
<1>5. Ahead(p)'
  BY <1>0, StorageAssumption DEF At, TypeOK, Alone, Form, Files, Ahead,
     Config, Blobs, ConfigNamesTheVault, Process, File, Doc, Idle, NoPut,
     Phase, Attach
<1>6. Config(p)'
  BY <1>0 DEF At, TypeOK, Process, Config, ConfigNamesTheVault, Attach
<1>7. Blobs(p)'
  BY <1>0 DEF At, TypeOK, Process, Blobs, Form, Idle, NoPut, Attach
<1> QED
  BY <1>1, <1>2, <1>3, <1>4, <1>5, <1>6, <1>7 DEF At

-----------------------------------------------------------------------------
(* The invariant is inductive.                                             *)

\* Whoever takes a step is the one process that may be busy.
LEMMA Sole ==
  ASSUME Overlap = {"idle"}, NEW p \in Proc, At(p), NEW q \in Proc, Step(q)
  PROVE  At(q)
<1>1. CASE p = q
  BY <1>1
<1>2. CASE p # q
  <2>1. proc[q] = Idle
    BY <1>2 DEF At, Alone
  <2>2. MayStart(q)
    BY <2>1 DEF Step, InitStart, CloneStart, PinStart, CommandStart, ConfigOpen, ConfigWrite,
       Create, Load, Edit, SaveBegin, FlushBegin, SaveWrite, SaveRename, SaveFails, ReturnUnflushed, Exit, Kill,
       PutBegin, PutWrite, PutRename, PutFails, Attach, Idle, NoPut
  <2>3. proc[p] = Idle
    BY <1>2, <2>2 DEF MayStart, At, Alone
  <2>4. Alone(q)
    BY <2>3, <2>1 DEF At, Alone
  <2> QED
    BY <2>1, <2>3, <2>4 DEF At, Form, Files, Ahead, Config, Blobs, Idle
<1> QED
  BY <1>1, <1>2

LEMMA StepKeeps ==
  ASSUME NEW p \in Proc, At(p), Step(p)
  PROVE  At(p)'
BY InitStartKeeps, CloneStartKeeps, PinStartKeeps, CommandStartKeeps, ConfigOpenKeeps, ConfigWriteKeeps, CreateKeeps, LoadKeeps, EditKeeps, SaveBeginKeeps, FlushBeginKeeps, SaveWriteKeeps, SaveRenameKeeps, SaveFailsKeeps, ReturnUnflushedKeeps, ExitKeeps, KillKeeps, PutBeginKeeps, PutWriteKeeps, PutRenameKeeps, PutFailsKeeps, AttachKeeps DEF Step

LEMMA Stutters ==
  ASSUME NEW p \in Proc, At(p), UNCHANGED vars
  PROVE  At(p)'
BY DEF vars, At, TypeOK, Alone, Form, Files, Ahead, Config, ConfigNamesTheVault, Blobs

LEMMA Inductive ==
  ASSUME Overlap = {"idle"}
  PROVE  Spec => []IInv
<1>1. Init => IInv
  <2> SUFFICES ASSUME Init PROVE IInv
    OBVIOUS
  <2>1. PICK p \in Proc : TRUE
    BY StorageAssumption
  <2>2. Idle \in Process
    BY DEF Idle, Process, Phase, Doc
  <2>3. TypeOK
    <3>1. overcloned \in BOOLEAN
      BY DEF Init
    <3> QED
      BY <3>1, <2>2, StorageAssumption DEF Init, TypeOK
  <2>4. proc[p] = Idle /\ Alone(p)
    BY DEF Init, Alone
  <2>5. Config(p)
    BY <2>4 DEF Init, Config, ConfigNamesTheVault, Idle
  <2>6. Form(p) /\ Files(p) /\ Ahead(p) /\ Blobs(p)
    BY <2>4 DEF Init, Form, Files, Ahead, Blobs, Idle, NoPut
  <2> QED
    BY <2>3, <2>4, <2>5, <2>6 DEF IInv, At
<1>2. IInv /\ [Next]_vars => IInv'
  <2> SUFFICES ASSUME IInv, [Next]_vars PROVE IInv'
    OBVIOUS
  <2>1. PICK p \in Proc : At(p)
    BY DEF IInv
  <2>2. CASE UNCHANGED vars
    BY <2>1, <2>2, Stutters DEF IInv
  <2>3. CASE Next
    <3>1. PICK q \in Proc : Step(q)
      BY <2>3 DEF Next
    <3>2. At(q)
      BY <2>1, <3>1, Sole
    <3> QED
      BY <3>1, <3>2, StepKeeps DEF IInv
  <2> QED
    BY <2>2, <2>3
<1> QED
  BY <1>1, <1>2, PTL DEF Spec

-----------------------------------------------------------------------------
(* What the invariant gives.                                               *)

\* Every attachment of a document, in memory or saved, has its blob whole on
\* disk, in whatever order puts, saves, failures and kills happen: ingest.rs
\* stores the blob before write_attachment.
THEOREM AttachmentsStayReadable ==
  ASSUME Overlap = {"idle"}
  PROVE  Spec => [](TypeOK /\ AttachmentsReadable)
<1>1. IInv => TypeOK /\ AttachmentsReadable
  <2> SUFFICES ASSUME NEW p \in Proc, At(p) PROVE TypeOK /\ AttachmentsReadable
    BY DEF IInv
  <2>1. \A q \in Proc : proc[q].doc # None => q = p
    BY DEF At, Alone, Idle
  <2> QED
    BY <2>1 DEF At, Blobs, AttachmentsReadable
<1> QED
  BY <1>1, Inductive, PTL

\* The types of the files, of the processes and of what they hold.
THEOREM TypeInvariance ==
  ASSUME Overlap = {"idle"}
  PROVE  Spec => []TypeOK
BY AttachmentsStayReadable, PTL

\* config.toml names the vault that doc.bin holds, unless a clone was aimed
\* at a directory with a document: init.rs, clone.rs and hub.rs.
THEOREM ConfigStaysRight ==
  ASSUME Overlap = {"idle"}
  PROVE  Spec => []ConfigNamesTheVault
<1>1. IInv => ConfigNamesTheVault
  BY DEF IInv, At, Config
<1> QED
  BY <1>1, Inductive, PTL

-----------------------------------------------------------------------------
(* The refinement.                                                         *)

Held == [p \in Proc |-> proc[p].doc]

\* A step that leaves doc.bin's content and the documents in memory alone.
Quiet == Saved' = Saved /\ Held' = Held

LEMMA HeldChange ==
  ASSUME NEW p \in Proc, proc \in [Proc -> Process],
         proc' = [proc EXCEPT ![p] = proc'[p]]
  PROVE  Held' = [Held EXCEPT ![p] = proc'[p].doc]
BY DEF Held

\* The end of a process.
LEMMA EndStops ==
  ASSUME NEW p \in Proc, At(p), EndOf(p)
  PROVE  Quiet \/ Abstract!Stop(p)
<1>1. Saved' = Saved
  BY StorageAssumption DEF EndOf, Closed, Saved, At, TypeOK, File
<1>2. Held' = [Held EXCEPT ![p] = None]
  BY DEF EndOf, At, TypeOK, Held, Idle
<1>3. CASE proc[p].doc = None
  BY <1>1, <1>2, <1>3 DEF Held, Quiet
<1>4. CASE proc[p].doc # None
  BY <1>1, <1>2, <1>4 DEF Held, Abstract!Stop
<1> QED
  BY <1>3, <1>4

\* An error of a save.
LEMMA ErrorStops ==
  ASSUME NEW p \in Proc, At(p), SaveError(p)
  PROVE  Quiet \/ Abstract!Stop(p)
<1>1. CASE EndOf(p)
  BY <1>1, EndStops
<1>2. CASE ~EndOf(p)
  <2>1. proc' = [proc EXCEPT ![p].sv = "none"] /\ bin' = Closed(bin, p)
    BY <1>2 DEF SaveError
  <2>2. Saved' = Saved
    BY <2>1, StorageAssumption DEF Closed, Saved, At, TypeOK, File
  <2>3. Held' = Held
    BY <2>1 DEF Held, At, TypeOK, Process
  <2> QED
    BY <2>2, <2>3 DEF Quiet
<1> QED
  BY <1>1, <1>2

\* Create and Load, when they succeed, open the document.
LEMMA OpenOpens ==
  ASSUME NEW p \in Proc, At(p), NEW d \in Doc, proc'[p].doc = d,
         proc' = [proc EXCEPT ![p] = proc'[p]], proc[p].doc = None, bin' = bin,
         IF bin = None THEN d.ch = {} ELSE d = bin.val
  PROVE  Abstract!Open(p)
<1>1. \A q \in Proc : Held[q] = None
  BY DEF Held, At, Alone, Idle
<1>2. Held' = [Held EXCEPT ![p] = d]
  BY HeldChange DEF At, TypeOK
<1>3. IF Saved = None THEN d.ch = {} ELSE d = Saved
  BY StorageAssumption DEF Saved, At, TypeOK, File
<1>4. Saved' = Saved
  BY DEF Saved
<1>5. d \in Abstract!Doc
  BY DEF Abstract!Doc, Doc
<1> QED
  BY <1>1, <1>2, <1>3, <1>4, <1>5 DEF Abstract!Open, Held

\* Edit and Attach add a change.
LEMMA EditEdits ==
  ASSUME NEW p \in Proc, At(p), NEW c \in Change, proc[p].doc # None,
         proc' = [proc EXCEPT ![p] = proc'[p]], bin' = bin,
         proc'[p].doc = [proc[p].doc EXCEPT !.ch = @ \cup {c}]
  PROVE  Abstract!Edit(p)
<1>1. proc'[p].doc = [id |-> Held[p].id, ch |-> Held[p].ch \cup {c}]
  BY DEF Held, At, TypeOK, Process, Doc
<1>2. Held' = [Held EXCEPT ![p] = [id |-> Held[p].id, ch |-> Held[p].ch \cup {c}]]
  BY <1>1, HeldChange DEF At, TypeOK
<1>3. Saved' = Saved /\ Held[p] # None
  BY DEF Saved, Held
<1> QED
  BY <1>2, <1>3 DEF Abstract!Edit, Held

\* The steps that touch neither.
LEMMA QuietSteps ==
  ASSUME NEW p \in Proc, At(p),
         \/ InitStart(p) \/ CloneStart(p) \/ PinStart(p) \/ CommandStart(p)
         \/ ConfigOpen(p) \/ ConfigWrite(p) \/ SaveBegin(p) \/ FlushBegin(p)
         \/ PutBegin(p) \/ PutWrite(p) \/ PutRename(p) \/ PutFails(p)
  PROVE  Quiet
<1>1. bin' = bin
  BY DEF InitStart, CloneStart, PinStart, CommandStart, ConfigOpen, ConfigWrite, SaveBegin,
     FlushBegin, PutBegin, PutWrite, PutRename, PutFails
<1>2. proc' = [proc EXCEPT ![p] = proc'[p]]
  BY DEF At, TypeOK, InitStart, CloneStart, PinStart, CommandStart, Enter, ConfigOpen,
     ConfigWrite, SaveBegin, FlushBegin, PutBegin, PutWrite, PutRename, PutFails
<1>3. proc'[p].doc = proc[p].doc
  <2>1. CASE \/ InitStart(p) \/ CloneStart(p) \/ PinStart(p) \/ CommandStart(p)
    <3>1. PICK ph \in Phase, i \in Id \cup {None} :
            proc' = [proc EXCEPT ![p] = [Idle EXCEPT !.phase = ph, !.id = i]]
      BY <2>1, StorageAssumption
         DEF InitStart, CloneStart, PinStart, CommandStart, read_or_default, Enter, Phase
    <3>2. proc[p] = Idle
      BY <2>1 DEF At, Alone, InitStart, CloneStart, PinStart, CommandStart, MayStart
    <3> QED
      BY <3>1, <3>2 DEF At, TypeOK, Idle
  <2>2. CASE ConfigOpen(p) \/ ConfigWrite(p)
    BY <2>2 DEF At, TypeOK, Process, Form, ConfigOpen, ConfigWrite, Idle
  <2>3. CASE SaveBegin(p) \/ FlushBegin(p)
    BY <2>3 DEF At, TypeOK, Process, SaveBegin, FlushBegin
  <2>4. CASE PutBegin(p) \/ PutWrite(p) \/ PutRename(p) \/ PutFails(p)
    BY <2>4 DEF At, TypeOK, Process, PutBegin, PutWrite, PutRename, PutFails
  <2> QED
    BY <2>1, <2>2, <2>3, <2>4
<1> QED
  BY <1>1, <1>2, <1>3, HeldChange DEF Quiet, Saved, Held, At, TypeOK

LEMMA CreateOpens ==
  ASSUME NEW p \in Proc, At(p), Create(p)
  PROVE  Quiet \/ Abstract!Open(p)
<1>1. CASE bin # None
  BY <1>1 DEF Create, Quiet, Saved, Held, At, TypeOK, Idle
<1>2. CASE bin = None
  <2> DEFINE d == [id |-> proc[p].id, ch |-> {}]
  <2>1. d \in Doc
    BY DEF Create, At, Form, Doc
  <2>2. proc' = [proc EXCEPT ![p] = proc'[p]] /\ proc'[p].doc = d
    <3>1. proc' = [proc EXCEPT ![p].doc = d]
      BY <1>2 DEF Create
    <3> HIDE DEF d
    <3> QED
      BY <3>1 DEF At, TypeOK, Process
  <2> QED
    BY <1>2, <2>1, <2>2, OpenOpens DEF Create
<1> QED
  BY <1>1, <1>2

LEMMA LoadOpens ==
  ASSUME NEW p \in Proc, At(p), Load(p)
  PROVE  Quiet \/ Abstract!Open(p)
<1> DEFINE d == Opened(bin, proc[p].id)
<1>0. proc[p].doc = None /\ proc[p].id \in Id
  BY DEF Load, At, Form
<1>1. CASE d = None
  BY <1>1, <1>0 DEF Load, Quiet, Saved, Held, At, TypeOK, Idle
<1>2. CASE d # None
  <2>1. d \in Doc /\ IF bin = None THEN d.ch = {} ELSE d = bin.val
    BY <1>0, <1>2 DEF Opened, At, TypeOK, File, Doc
  <2>2. proc' = [proc EXCEPT ![p] = proc'[p]] /\ proc'[p].doc = d
    BY <1>2 DEF Load, At, TypeOK, Process
  <2> HIDE DEF d
  <2> QED
    BY <1>0, <2>1, <2>2, OpenOpens DEF Load
<1> QED
  BY <1>1, <1>2

LEMMA EditsEdit ==
  ASSUME NEW p \in Proc, At(p), Edit(p) \/ Attach(p)
  PROVE  Abstract!Edit(p)
<1>1. proc[p].doc # None /\ proc[p] \in Process /\ bin' = bin
  BY DEF Edit, Attach, At, TypeOK, Form, NoPut
<1>2. proc' = [proc EXCEPT ![p] = proc'[p]]
  BY DEF Edit, Attach, At, TypeOK
<1>3. \E c \in Change : proc'[p].doc = [proc[p].doc EXCEPT !.ch = @ \cup {c}]
  <2>1. CASE Edit(p)
    <3>1. PICK c \in Change : proc' = [proc EXCEPT ![p].doc.ch = @ \cup {c}]
      BY <2>1 DEF Edit
    <3> QED
      BY <3>1, <1>1 DEF At, TypeOK, Process
  <2>2. CASE Attach(p)
    <3>1. proc[p].put.c \in Change
      BY <2>2, <1>1, StorageAssumption DEF Attach, Process, NoPut
    <3> QED
      BY <2>2, <3>1, <1>1 DEF Attach, At, TypeOK, Process
  <2> QED
    BY <2>1, <2>2
<1> QED
  BY <1>1, <1>2, <1>3, EditEdits

LEMMA WriteIsQuiet ==
  ASSUME NEW p \in Proc, At(p), SaveWrite(p)
  PROVE  Quiet
<1>1. bin' = bin
  BY DEF SaveWrite, Wrote, At, Files
<1>2. Held' = Held
  BY DEF SaveWrite, Held, At, TypeOK, Process
<1> QED
  BY <1>1, <1>2 DEF Quiet, Saved

LEMMA RenameSaves ==
  ASSUME NEW p \in Proc, At(p), SaveRename(p)
  PROVE  Abstract!Save(p)
<1>1. tmp # None /\ tmp.val = proc[p].doc /\ proc[p].doc # None
  BY DEF SaveRename, At, Files, Form
<1>2. bin' = tmp
  BY <1>1 DEF SaveRename
<1>3. Held' = Held
  BY <1>1 DEF SaveRename, Held, At, TypeOK, Process
<1>4. Saved' = Held[p] /\ Held[p] # None
  BY <1>1, <1>2 DEF Saved, Held
<1> QED
  BY <1>3, <1>4 DEF Abstract!Save, Held

LEMMA StepRefines ==
  ASSUME NEW p \in Proc, At(p), Step(p)
  PROVE  Quiet \/ Abstract!Next
<1>1. CASE \/ InitStart(p) \/ CloneStart(p) \/ PinStart(p) \/ CommandStart(p)
           \/ ConfigOpen(p) \/ ConfigWrite(p) \/ SaveBegin(p) \/ FlushBegin(p)
           \/ PutBegin(p) \/ PutWrite(p) \/ PutRename(p) \/ PutFails(p)
  BY <1>1, QuietSteps
<1>2. CASE Create(p)
  BY <1>2, CreateOpens DEF Abstract!Next
<1>3. CASE Load(p)
  BY <1>3, LoadOpens DEF Abstract!Next
<1>4. CASE Edit(p) \/ Attach(p)
  BY <1>4, EditsEdit DEF Abstract!Next
<1>5. CASE SaveWrite(p)
  BY <1>5, WriteIsQuiet
<1>6. CASE SaveRename(p)
  BY <1>6, RenameSaves DEF Abstract!Next
<1>7. CASE SaveFails(p)
  BY <1>7, ErrorStops DEF SaveFails, Abstract!Next
<1>8. CASE ReturnUnflushed(p) \/ Exit(p) \/ Kill(p)
  BY <1>8, EndStops DEF ReturnUnflushed, Exit, Kill, Abstract!Next
<1> QED
  BY <1>1, <1>2, <1>3, <1>4, <1>5, <1>6, <1>7, <1>8 DEF Step

\* One process at a time: doc.bin, doc.bin.tmp and the steps of
\* DocStore::save and Vault::open implement one document saved atomically.
THEOREM StorageImplementsDurableDoc ==
  ASSUME Overlap = {"idle"}
  PROVE  Spec => ImplementsDurableDoc
<1>1. Init => Abstract!Init
  BY DEF Init, Abstract!Init, Saved, Idle
<1>2. IInv /\ [Next]_vars => [Abstract!Next]_(Abstract!vars)
  <2> SUFFICES ASSUME IInv, [Next]_vars
               PROVE  Quiet \/ Abstract!Next
    BY DEF Quiet, Held, Abstract!vars
  <2>1. CASE UNCHANGED vars
    BY <2>1 DEF vars, Quiet, Saved, Held
  <2>2. CASE Next
    <3>1. PICK p \in Proc : Step(p)
      BY <2>2 DEF Next
    <3>2. At(p)
      BY <3>1, Sole DEF IInv
    <3> QED
      BY <3>1, <3>2, StepRefines
  <2> QED
    BY <2>1, <2>2
<1> QED
  BY <1>1, <1>2, Inductive, PTL DEF Spec, ImplementsDurableDoc, Abstract!Spec

\* One process at a time: no save, crash or failure replaces a saved
\* document by a torn one, by another vault's or by one that lacks a change.
THEOREM SavedNeverShrinks ==
  ASSUME Overlap = {"idle"}
  PROVE  Spec => SavedGrows
<1> DEFINE Grows ==
      bin # None /\ bin.val # Torn =>
        /\ bin' # None
        /\ bin'.val # Torn
        /\ bin'.val.id = bin.val.id
        /\ bin.val.ch \subseteq bin'.val.ch
<1>1. IInv /\ IInv' /\ [Next]_vars => [Grows]_vars
  <2> SUFFICES ASSUME IInv, IInv', Next, bin # None PROVE Grows
    BY DEF SavedGrows
  <2>1. PICK p \in Proc : Step(p)
    BY DEF Next
  <2>2. At(p)
    BY <2>1, Sole DEF IInv
  <2>3. CASE SaveRename(p)
    <3>1. bin' = tmp /\ tmp # None /\ tmp.val = proc[p].doc /\ proc[p].doc # None
      BY <2>2, <2>3 DEF SaveRename, At, Files, Form
    <3>2. bin.val.id = proc[p].doc.id /\ bin.val.ch \subseteq proc[p].doc.ch
      BY <2>2, <3>1 DEF At, Ahead
    <3>3. proc[p].doc # Torn
      BY <2>2, <3>1, StorageAssumption DEF At, TypeOK, Process
    <3> QED
      BY <3>1, <3>2, <3>3
  <2>4. CASE ~SaveRename(p)
    <3>1. bin' = bin \/ bin' = Closed(bin, p)
      BY <2>1, <2>2, <2>4 DEF Step, InitStart, CloneStart, PinStart, CommandStart, ConfigOpen,
         ConfigWrite, Create, Load, Edit, SaveBegin, FlushBegin, SaveWrite, Wrote, At, Files,
         SaveFails, SaveError, EndOf, ReturnUnflushed, Exit, Kill, PutBegin, PutWrite, PutRename, PutFails, Attach
    <3>2. bin' # None /\ bin'.val = bin.val
      BY <3>1, <2>2, StorageAssumption DEF Closed, At, TypeOK, File
    <3> QED
      BY <3>2, <2>2 DEF At, Files
  <2> QED
    BY <2>3, <2>4
<1> QED
  BY <1>1, Inductive, PTL DEF Spec, SavedGrows
=============================================================================
