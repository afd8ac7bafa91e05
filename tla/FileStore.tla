------------------------------ MODULE FileStore ------------------------------
(***************************************************************************)
(* Documents of jobs, attachments of customers and vendors, the recycle    *)
(* bin, the storage drivers behind them, text recognition, and the script  *)
(* that copies local files to a bucket.  A file lives in two places that   *)
(* no transaction joins: its row in the database and its object under an   *)
(* opaque key in storage.                                                  *)
(***************************************************************************)
EXTENDS Naturals, Sequences, Server

CONSTANTS Clerks,      \* requests in flight
          Jobs, Customers, Vendors,
          Files        \* storage keys: drawn at random, never twice

ASSUME FilesAssumption == None \notin Jobs \union Customers \union Vendors \union Files

VARIABLES shelf,       \* owners: "live", "binned" (deletedAt set) or "gone"
          rows,        \* JobDocument and Attachment rows, by storage key
          stores,      \* the objects each driver holds
          driver,      \* the driver the server runs with
          clerk,       \* local state of the requests
          temps,       \* requests with a temporary copy of an object
          ocr,         \* the recognition queue and its worker
          moving,      \* the migration script
          severed,     \* history: rows whose object a removal has gone for
          leaked       \* history: objects a failure or a race leaves behind

fileVars == <<shelf, rows, stores, driver, clerk, temps, ocr, moving, severed, leaked>>

Owners == Jobs \union Customers \union Vendors

\* The table an owner and its files belong to; a route serves one kind.
Kind(o) == IF o \in Jobs THEN "job" ELSE IF o \in Customers THEN "customer" ELSE "vendor"

FilesOf(o) == {f \in Files : rows[f] # None /\ rows[f] = o}

Done == [at |-> "idle", owner |-> None, file |-> None, list |-> {}, revived |-> FALSE]

Fresh(f) == /\ rows[f] = None
            /\ f \notin stores.local \union stores.s3 \union severed \union leaked \union moving.listed
            /\ \A c \in Clerks : clerk[c].file # f /\ f \notin clerk[c].list

FilesInit ==
  /\ shelf = [o \in Owners |-> "live"]
  /\ rows = [f \in Files |-> None]
  /\ stores = [local |-> {}, s3 |-> {}]
  /\ driver \in {"local", "s3"}
  /\ clerk = [c \in Clerks |-> Done]
  /\ temps = {} /\ severed = {} /\ leaked = {}
  /\ ocr = [line |-> <<>>, worker |-> "none"]
  /\ moving = [listed |-> {}, list |-> {}, failed |-> TRUE]

Put(f) == stores' = [stores EXCEPT ![driver] = @ \union {f}]

\* The drivers swallow a failed deletion: the caller goes on as if it had worked.
Unlink(f) ==
  /\ severed' = IF rows[f] = None THEN severed ELSE severed \union {f}
  /\ \/ /\ stores' = [stores EXCEPT ![driver] = @ \ {f}]
        /\ leaked' = IF driver = "local" /\ f \in stores.s3 THEN leaked \union {f} ELSE leaked
     \/ /\ f \in stores[driver]
        /\ leaked' = leaked \union {f}
        /\ UNCHANGED stores

-----------------------------------------------------------------------------
\* upload: the owner is checked, the object saved under a new key, then the row inserted.
BeginUpload(c) ==
  /\ clerk[c].at = "idle"
  /\ \E o \in Owners, f \in Files :
       /\ shelf[o] = "live"
       /\ Fresh(f)
       /\ clerk' = [clerk EXCEPT ![c] = [Done EXCEPT !.at = "save", !.owner = o, !.file = f]]
  /\ UNCHANGED <<shelf, rows, stores, driver, temps, ocr, moving, severed, leaked>>

SaveObject(c) ==
  /\ clerk[c].at = "save"
  /\ Put(clerk[c].file)
  /\ clerk' = [clerk EXCEPT ![c].at = "create"]
  /\ UNCHANGED <<shelf, rows, driver, temps, ocr, moving, severed, leaked>>

PurgeUnderWay(o) == \E c \in Clerks : clerk[c].at = "empty" /\ clerk[c].owner = o

\* A document refers to its job by foreign key; an attachment names its owner only.
CreateRow(c) ==
  LET o == clerk[c].owner
      f == clerk[c].file
  IN /\ clerk[c].at = "create"
     /\ Kind(o) = "job" => shelf[o] # "gone"
     /\ rows' = [rows EXCEPT ![f] = o]
     /\ leaked' = IF Kind(o) = "job" /\ PurgeUnderWay(o) THEN leaked \union {f} ELSE leaked
     /\ clerk' = [clerk EXCEPT ![c] = Done]
     /\ UNCHANGED <<shelf, stores, driver, temps, ocr, moving, severed>>

\* remove: an attachment only through a route of its owner's kind; object first, then row.
BeginRemove(c) ==
  /\ clerk[c].at = "idle"
  /\ \E route \in {"job", "customer", "vendor"}, f \in Files :
       /\ rows[f] # None
       /\ Kind(rows[f]) = route
       /\ clerk' = [clerk EXCEPT ![c] = [Done EXCEPT !.at = "unlink", !.file = f]]
  /\ UNCHANGED <<shelf, rows, stores, driver, temps, ocr, moving, severed, leaked>>

RemoveObject(c) ==
  /\ clerk[c].at = "unlink"
  /\ Unlink(clerk[c].file)
  /\ clerk' = [clerk EXCEPT ![c].at = "delete"]
  /\ UNCHANGED <<shelf, rows, driver, temps, ocr, moving>>

DeleteRow(c) ==
  LET f == clerk[c].file
  IN /\ clerk[c].at = "delete"
     /\ rows[f] # None
     /\ rows' = [rows EXCEPT ![f] = None]
     /\ severed' = severed \ {f}
     /\ clerk' = [clerk EXCEPT ![c] = Done]
     /\ UNCHANGED <<shelf, stores, driver, temps, ocr, moving, leaked>>

-----------------------------------------------------------------------------
\* Soft deletion and restoring; each reads the row it writes, as one step.
Bin(o) ==
  /\ shelf[o] = "live"
  /\ shelf' = [shelf EXCEPT ![o] = "binned"]
  /\ UNCHANGED <<rows, stores, driver, clerk, temps, ocr, moving, severed, leaked>>

Restore(o) ==
  /\ shelf[o] = "binned"
  /\ shelf' = [shelf EXCEPT ![o] = "live"]
  /\ clerk' = [c \in Clerks |-> [clerk[c] EXCEPT !.revived = @ \/ clerk[c].owner = o]]
  /\ UNCHANGED <<rows, stores, driver, temps, ocr, moving, severed, leaked>>

NothingToPurge(o) == {}

\* What purge removes before the row: the files of a job, nothing of other owners.
FilesToPurge(o) == IF Kind(o) = "job" THEN FilesOf(o) ELSE {}

BeginPurge(c) ==
  /\ clerk[c].at = "idle"
  /\ \E o \in Owners :
       /\ shelf[o] = "binned"
       /\ clerk' = [clerk EXCEPT ![c] =
                      [Done EXCEPT !.at = "empty", !.owner = o, !.list = FilesToPurge(o)]]
  /\ UNCHANGED <<shelf, rows, stores, driver, temps, ocr, moving, severed, leaked>>

PurgeObject(c) ==
  /\ clerk[c].at = "empty"
  /\ \E f \in clerk[c].list :
       /\ Unlink(f)
       /\ clerk' = [clerk EXCEPT ![c].list = @ \ {f}]
  /\ UNCHANGED <<shelf, rows, driver, temps, ocr, moving>>

\* Deleting a job cascades to its documents.  Dependents refuse the deletion: see FileAbort.
PurgeRow(c) ==
  LET o == clerk[c].owner
      cascade == IF Kind(o) = "job" THEN FilesOf(o) ELSE {}
  IN /\ clerk[c].at = "empty"
     /\ clerk[c].list = {}
     /\ shelf[o] # "gone"
     /\ shelf' = [shelf EXCEPT ![o] = "gone"]
     /\ rows' = [f \in Files |-> IF f \in cascade THEN None ELSE rows[f]]
     /\ severed' = severed \ cascade
     /\ clerk' = [clerk EXCEPT ![c] = Done]
     /\ UNCHANGED <<stores, driver, temps, ocr, moving, leaked>>

-----------------------------------------------------------------------------
\* extract: a local path (on a bucket a temporary copy), its text, recognition if it
\* has none, the copy disposed in any case, the fields (left out) stored.
BeginExtract(c) ==
  /\ clerk[c].at = "idle"
  /\ \E f \in Files :
       /\ rows[f] # None
       /\ Kind(rows[f]) = "job"
       /\ f \in stores[driver]
       /\ clerk' = [clerk EXCEPT ![c] = [Done EXCEPT !.at = "text", !.file = f]]
  /\ temps' = IF driver = "s3" THEN temps \union {c} ELSE temps
  /\ UNCHANGED <<shelf, rows, stores, driver, ocr, moving, severed, leaked>>

ReadText(c) ==
  /\ clerk[c].at = "text"
  /\ \/ /\ clerk' = [clerk EXCEPT ![c].at = "dispose"]
        /\ UNCHANGED ocr
     \/ /\ clerk' = [clerk EXCEPT ![c].at = "ocr"]
        /\ ocr' = [ocr EXCEPT !.line = Append(@, c)]
  /\ UNCHANGED <<shelf, rows, stores, driver, temps, moving, severed, leaked>>

Dispose(c) ==
  /\ clerk[c].at = "dispose"
  /\ temps' = temps \ {c}
  /\ clerk' = [clerk EXCEPT ![c].at = "store"]
  /\ UNCHANGED <<shelf, rows, stores, driver, ocr, moving, severed, leaked>>

StoreFields(c) ==
  /\ clerk[c].at = "store"
  /\ rows[clerk[c].file] # None
  /\ clerk' = [clerk EXCEPT ![c] = Done]
  /\ UNCHANGED <<shelf, rows, stores, driver, temps, ocr, moving, severed, leaked>>

\* The head of the queue gets its answer, a text or none, and the next one is started.
Answered(worker) ==
  /\ clerk' = [clerk EXCEPT ![Head(ocr.line)].at = "dispose"]
  /\ ocr' = [line |-> Tail(ocr.line), worker |-> worker]
  /\ UNCHANGED <<shelf, rows, stores, driver, temps, moving, severed, leaked>>

\* getWorker: a worker is made for the first image; a failure answers "no text".
StartWorker ==
  /\ ocr.line # <<>> /\ ocr.worker = "none"
  /\ \/ Answered("none")
     \/ /\ ocr' = [ocr EXCEPT !.worker = "ready"]
        /\ UNCHANGED <<shelf, rows, stores, driver, clerk, temps, moving, severed, leaked>>

Recognise ==
  /\ ocr.line # <<>> /\ ocr.worker = "ready"
  /\ Answered("ready")

NeverGiveUp == FALSE /\ Answered("busy")

\* The timeout answers for the worker, which stays busy with the image it was given.
GiveUp ==
  /\ ocr.line # <<>> /\ ocr.worker \in {"ready", "busy"}
  /\ Answered("busy")

LateResult ==
  /\ ocr.worker = "busy"
  /\ ocr' = [ocr EXCEPT !.worker = "ready"]
  /\ UNCHANGED <<shelf, rows, stores, driver, clerk, temps, moving, severed, leaked>>

-----------------------------------------------------------------------------
\* The migration script lists the documents' keys once, then copies and verifies each.
BeginMove ==
  /\ driver = "local"
  /\ moving.list = {}
  /\ LET documents == {f \in Files : rows[f] # None /\ Kind(rows[f]) = "job"}
     IN moving' = [listed |-> documents, list |-> documents, failed |-> FALSE]
  /\ UNCHANGED <<shelf, rows, stores, driver, clerk, temps, ocr, severed, leaked>>

MoveOne ==
  /\ \E f \in moving.list :
       \/ /\ f \in stores.local
          /\ stores' = [stores EXCEPT !.s3 = @ \union {f}]
          /\ moving' = [moving EXCEPT !.list = @ \ {f}]
       \/ /\ moving' = [moving EXCEPT !.list = @ \ {f}, !.failed = @ \/ f \in stores.local]
          /\ UNCHANGED stores
  /\ UNCHANGED <<shelf, rows, driver, clerk, temps, ocr, severed, leaked>>

\* The server stops: nothing of a request survives but what it has stored.
Stopped ==
  /\ clerk' = [c \in Clerks |-> Done]
  /\ temps' = {}
  /\ ocr' = [line |-> <<>>, worker |-> "none"]

Uploading == {clerk[c].file : c \in {d \in Clerks : clerk[d].at = "create"}}

\* An exception ends a request: the put or the insert fails, the row is gone, a foreign
\* key refuses the purge, the file cannot be parsed.  The finally of extract still runs.
FileAbort(c) ==
  /\ clerk[c].at \in {"save", "create", "delete", "empty", "text", "store"}
  /\ clerk[c].at = "empty" => clerk[c].list = {}
  /\ clerk' = [clerk EXCEPT ![c] = Done]
  /\ temps' = temps \ {c}
  /\ leaked' = IF clerk[c].at = "create" THEN leaked \union {clerk[c].file} ELSE leaked
  /\ UNCHANGED <<shelf, rows, stores, driver, ocr, moving, severed>>

Crash ==
  /\ \E c \in Clerks : clerk[c].at # "idle"
  /\ Stopped
  /\ leaked' = leaked \union Uploading
  /\ UNCHANGED <<shelf, rows, stores, driver, moving, severed>>

\* The operator switches a server to the bucket once the script reports no failure.
SwitchDriver ==
  /\ driver = "local" /\ moving.list = {} /\ ~moving.failed
  /\ driver' = "s3"
  /\ Stopped
  /\ leaked' = leaked \union Uploading
  /\ UNCHANGED <<shelf, rows, stores, moving, severed>>

FilesNext ==
  \/ \E c \in Clerks :
       \/ BeginUpload(c) \/ SaveObject(c) \/ CreateRow(c)
       \/ BeginRemove(c) \/ RemoveObject(c) \/ DeleteRow(c)
       \/ BeginPurge(c) \/ PurgeObject(c) \/ PurgeRow(c)
       \/ BeginExtract(c) \/ ReadText(c) \/ Dispose(c) \/ StoreFields(c)
       \/ FileAbort(c)
  \/ \E o \in Owners : Bin(o) \/ Restore(o)
  \/ StartWorker \/ Recognise \/ GiveUp \/ LateResult
  \/ BeginMove \/ MoveOne \/ SwitchDriver
  \/ Crash

-----------------------------------------------------------------------------
FilesTypeOK ==
  /\ shelf \in [Owners -> {"live", "binned", "gone"}]
  /\ rows \in [Files -> Owners \union {None}]
  /\ stores \in [local : SUBSET Files, s3 : SUBSET Files]
  /\ driver \in {"local", "s3"}
  /\ clerk \in [Clerks -> [at : {"idle", "save", "create", "unlink", "delete", "empty",
                                  "text", "ocr", "dispose", "store"},
                           owner : Owners \union {None}, file : Files \union {None},
                           list : SUBSET Files, revived : BOOLEAN]]
  /\ temps \subseteq Clerks
  /\ ocr \in [line : Seq(Clerks), worker : {"none", "ready", "busy"}]
  /\ moving \in [listed : SUBSET Files, list : SUBSET Files, failed : BOOLEAN]
  /\ severed \subseteq Files /\ leaked \subseteq Files

\* Every document and attachment can be downloaded, except one whose removal or purge has
\* gone for the object (the row may outlive it), and, on a bucket the server was switched
\* to, one the script did not list (documents.service.ts:36-37, 125-126).
RowsHaveFiles ==
  \A f \in Files : rows[f] # None =>
    \/ f \in stores[driver]
    \/ f \in severed
    \/ driver = "s3" /\ f \in stores.local \ moving.listed

\* Every object has its row, or a request that is about to insert or delete it, unless a
\* storage failure, an interrupted upload, a copy of the script or an upload that raced a
\* purge left it behind: a purge takes a job's files with it (recycle-bin.service.ts:77-84).
FilesHaveRows ==
  \A f \in stores[driver] :
    \/ rows[f] # None
    \/ f \in leaked
    \/ \E c \in Clerks : clerk[c].file = f /\ clerk[c].at = "create"

\* A temporary copy is disposed however its extraction ends (documents.service.ts:97-99).
TempCopiesDisposed == \A c \in temps : clerk[c].at \in {"text", "ocr", "dispose"}

\* Only what lies in the bin is purged; a purge that read the bin before a restore still
\* deletes the restored row, by id (recycle-bin.service.ts:74, 87).
PurgedFromBin(o) ==
  shelf[o] # "gone" /\ shelf'[o] = "gone" =>
    \/ shelf[o] = "binned"
    \/ \E c \in Clerks : clerk[c].owner = o /\ clerk[c].revived

\* Rows and stored objects stay together through uploads, removals, purges, a migration, failed
\* writes and crashes: what the two places hold differs only in the ways the code knows of, no
\* copy is left on the server's disk, and nothing is purged that nobody threw away.
FilesAccounted ==
  [][/\ RowsHaveFiles' /\ FilesHaveRows' /\ TempCopiesDisposed'
     /\ \A o \in Owners : PurgedFromBin(o)]_fileVars

\* A document waiting for recognition is answered, though the recogniser may hang: its timer
\* answers, and one failure does not stop the queue (ocr.service.ts:43-59).
RecognitionAnswered == \A c \in Clerks : clerk[c].at = "ocr" ~> clerk[c].at # "ocr"
=============================================================================
