--------------------------- MODULE FileStoreProofs ---------------------------
(***************************************************************************)
(* Proofs about stored files: rows and objects stay together through       *)
(* uploads, removals, purges, the migration to a bucket and crashes.       *)
(***************************************************************************)
EXTENDS Office, SequenceTheorems, TLAPS

\* A step of the server moves the files by one of their own steps or not at all.
LEMMA FilesRun == [OfficeNext]_officeVars => [FilesNext]_fileVars
  BY DEF OfficeNext, officeVars, OfSignIn, OfAccess, OfCredit, OfImports, OfFiles, OfReminders,
         OfNumbers

(* -------------------------- inductive invariant ------------------------- *)

\* A row that goes leaves no object of file f behind that is not accounted for.
Cleared(f) == f \in leaked \/ (f \notin stores.s3 /\ (driver = "local" => f \notin stores.local))

Spent(k) == k.at \notin {"save", "create", "unlink", "delete", "empty"}

\* What request c, in local state k, can rely on: nobody else knows the file it uploads; the
\* object it saved is there; the object of a row it deletes is not, and neither are those of the
\* job it purges but for the ones it has still to remove; the owner it purges was in the bin.
Entitled(c, k) ==
  /\ k.at \in {"save", "create"} =>
       /\ k.file \in Files /\ k.owner \in Owners
       /\ rows[k.file] = None /\ k.file \notin moving.listed
       /\ \A d \in Clerks \ {c} : clerk[d].file # k.file /\ k.file \notin clerk[d].list
  /\ k.at = "create" => k.file \in stores[driver]
  /\ k.at \in {"unlink", "delete"} => k.file \in Files
  /\ k.at = "delete" => Cleared(k.file)
  /\ k.at = "empty" =>
       /\ k.owner \in Owners
       /\ shelf[k.owner] # "live" \/ k.revived
       /\ Kind(k.owner) = "job" => \A f \in FilesOf(k.owner) : f \in k.list \/ Cleared(f)

\* The objects of a bucket that is not in use yet are copies of objects with a row, or leaked.
CopiesAccounted ==
  driver = "local" => \A f \in stores.s3 : rows[f] # None \/ f \in leaked

\* The script runs before the switch; a document it is through with is on the bucket or gone.
MovingInv ==
  /\ moving.list \subseteq moving.listed
  /\ moving.list # {} => driver = "local"
  /\ driver = "local" /\ ~moving.failed =>
       \A f \in moving.listed \ moving.list : f \in stores.s3 \/ f \notin stores.local

StoreInv == RowsHaveFiles /\ FilesHaveRows /\ CopiesAccounted /\ MovingInv

\* Requests in the queue of the recogniser wait there, each once.
QueueInv ==
  /\ \A i \in 1 .. Len(ocr.line) : clerk[ocr.line[i]].at = "ocr"
  /\ \A i, j \in 1 .. Len(ocr.line) : ocr.line[i] = ocr.line[j] => i = j

FilesInv ==
  /\ FilesTypeOK
  /\ StoreInv
  /\ \A c \in Clerks : Entitled(c, clerk[c])
  /\ QueueInv
  /\ TempCopiesDisposed

ClerkState ==
  [at : {"idle", "save", "create", "unlink", "delete", "empty", "text", "ocr", "dispose", "store"},
   owner : Owners \union {None}, file : Files \union {None}, list : SUBSET Files,
   revived : BOOLEAN]

LEMMA DoneSpent == Done \in ClerkState /\ Done.at = "idle" /\ Done.file = None /\ Done.list = {}
  BY DEF Done, ClerkState

LEMMA ClerkTyped ==
  ASSUME FilesInv, NEW c \in Clerks
  PROVE  clerk[c] \in ClerkState
  BY DEF FilesInv, FilesTypeOK, ClerkState

LEMMA FilesStart == FilesInit => FilesInv
<1> SUFFICES ASSUME FilesInit PROVE FilesInv
  OBVIOUS
<1>1. clerk \in [Clerks -> ClerkState] /\ \A c \in Clerks : clerk[c] = Done
  BY DoneSpent DEF FilesInit
<1>2. << >> \in Seq(Clerks) /\ Len(<< >>) = 0
  OBVIOUS
<1>3. ocr \in [line : Seq(Clerks), worker : {"none", "ready", "busy"}]
  BY <1>2 DEF FilesInit
<1>4. FilesTypeOK
  BY <1>1, <1>3 DEF FilesInit, FilesTypeOK, ClerkState
<1>5. StoreInv
  BY DEF FilesInit, StoreInv, RowsHaveFiles, FilesHaveRows, CopiesAccounted, MovingInv
<1>6. \A c \in Clerks : Entitled(c, clerk[c])
  BY <1>1, DoneSpent DEF Entitled
<1>7. QueueInv /\ TempCopiesDisposed
  BY <1>2 DEF FilesInit, QueueInv, TempCopiesDisposed
<1> QED
  BY <1>4, <1>5, <1>6, <1>7 DEF FilesInv

(* ------------------------- steps of a request alone --------------------- *)

\* A request moves; rows and objects stay, and what it leaves behind is leaked.
LEMMA ClerkMoves ==
  ASSUME FilesInv, NEW c \in Clerks, NEW r \in ClerkState, clerk' = [clerk EXCEPT ![c] = r],
         UNCHANGED <<shelf, rows, stores, driver, moving, severed>>,
         leaked' \in SUBSET Files, leaked \subseteq leaked',
         clerk[c].at = "create" => clerk[c].file \in leaked',
         Entitled(c, r),
         \A d \in Clerks \ {c} : clerk[d].at \in {"save", "create"} =>
           r.file # clerk[d].file /\ clerk[d].file \notin r.list
  PROVE  /\ StoreInv'
         /\ \A d \in Clerks : Entitled(d, clerk[d])'
         /\ clerk' \in [Clerks -> ClerkState]
<1>1. clerk'[c] = r /\ \A d \in Clerks : d # c => clerk'[d] = clerk[d]
  BY DEF FilesInv, FilesTypeOK
<1>2. clerk' \in [Clerks -> ClerkState]
  BY DEF FilesInv, FilesTypeOK, ClerkState
<1>3. \A f : Cleared(f) => Cleared(f)'
  BY DEF Cleared
<1>4. FilesHaveRows'
  <2>1. ASSUME NEW f \in stores[driver], rows[f] = None, f \notin leaked'
        PROVE  \E d \in Clerks : clerk'[d].file = f /\ clerk'[d].at = "create"
    <3>1. PICK d \in Clerks : clerk[d].file = f /\ clerk[d].at = "create"
      BY <2>1 DEF FilesInv, StoreInv, FilesHaveRows
    <3> QED
      BY <1>1, <2>1, <3>1
  <2> QED
    BY <2>1 DEF FilesHaveRows
<1>5. StoreInv'
  BY <1>4 DEF FilesInv, StoreInv, RowsHaveFiles, CopiesAccounted, MovingInv
<1>6. Entitled(c, clerk[c])'
  <2>1. Entitled(c, r)'
    BY <1>1, <1>3 DEF Entitled, FilesOf
  <2> QED
    BY <1>1, <2>1 DEF Entitled
<1>7. ASSUME NEW d \in Clerks, d # c PROVE Entitled(d, clerk[d])'
  <2>1. Entitled(d, clerk[d]) /\ clerk'[d] = clerk[d]
    BY <1>1, <1>7 DEF FilesInv
  <2>2. clerk[d].at \in {"save", "create"} =>
          \A e \in Clerks \ {d} : clerk'[e].file # clerk[d].file /\ clerk[d].file \notin clerk'[e].list
    BY <1>1, <1>7, <2>1 DEF Entitled
  <2> QED
    BY <1>3, <2>1, <2>2 DEF Entitled, FilesOf
<1> QED
  BY <1>2, <1>5, <1>6, <1>7

\* A request outside the queue moves without entering it.
LEMMA QueueKept ==
  ASSUME QueueInv, ocr \in [line : Seq(Clerks), worker : {"none", "ready", "busy"}],
         clerk \in [Clerks -> ClerkState], NEW c \in Clerks, NEW r,
         clerk[c].at # "ocr", clerk' = [clerk EXCEPT ![c] = r], ocr'.line = ocr.line
  PROVE  QueueInv'
<1>1. \A i \in 1 .. Len(ocr.line) : ocr.line[i] \in Clerks /\ ocr.line[i] # c
  BY DEF QueueInv
<1>2. \A d \in Clerks : d # c => clerk'[d] = clerk[d]
  OBVIOUS
<1> QED
  BY <1>1, <1>2 DEF QueueInv

LEMMA ClerkSteps ==
  ASSUME FilesInv, NEW c \in Clerks, NEW r \in ClerkState, clerk' = [clerk EXCEPT ![c] = r],
         UNCHANGED <<shelf, rows, stores, driver, moving, severed, ocr>>,
         leaked' \in SUBSET Files, leaked \subseteq leaked',
         clerk[c].at = "create" => clerk[c].file \in leaked',
         Entitled(c, r),
         \A d \in Clerks \ {c} : clerk[d].at \in {"save", "create"} =>
           r.file # clerk[d].file /\ clerk[d].file \notin r.list,
         clerk[c].at # "ocr",
         temps' \subseteq temps \union {c}, c \in temps' => r.at \in {"text", "ocr", "dispose"}
  PROVE  FilesInv'
<1>1. StoreInv' /\ (\A d \in Clerks : Entitled(d, clerk[d])') /\ clerk' \in [Clerks -> ClerkState]
  BY ClerkMoves
<1>2. QueueInv'
  BY QueueKept DEF FilesInv, FilesTypeOK, ClerkState
<1>3. clerk'[c] = r /\ \A d \in Clerks : d # c => clerk'[d] = clerk[d]
  BY DEF FilesInv, FilesTypeOK
<1>4. TempCopiesDisposed'
  BY <1>3 DEF FilesInv, FilesTypeOK, TempCopiesDisposed
<1>5. FilesTypeOK'
  BY <1>1 DEF FilesInv, FilesTypeOK, ClerkState
<1> QED
  BY <1>1, <1>2, <1>4, <1>5 DEF FilesInv

\* A request that has neither an upload, a removal nor a purge under way relies on nothing; one
\* without a file disturbs no upload.
LEMMA SpentEntitled ==
  ASSUME NEW c, NEW k, Spent(k)
  PROVE  Entitled(c, k)
  BY DEF Spent, Entitled

LEMMA UploadsHaveFiles ==
  ASSUME FilesInv, NEW d \in Clerks, clerk[d].at \in {"save", "create"}
  PROVE  clerk[d].file \in Files /\ rows[clerk[d].file] = None
  BY DEF FilesInv, Entitled

LEMMA BeginUploadStep ==
  ASSUME FilesInv, NEW c \in Clerks, BeginUpload(c)
  PROVE  FilesInv'
<1>1. PICK o \in Owners, f \in Files :
        Fresh(f) /\ clerk' = [clerk EXCEPT ![c] = [Done EXCEPT !.at = "save", !.owner = o, !.file = f]]
  BY DEF BeginUpload
<1> DEFINE r == [Done EXCEPT !.at = "save", !.owner = o, !.file = f]
<1>2. clerk' = [clerk EXCEPT ![c] = r] /\ clerk[c].at = "idle"
      /\ UNCHANGED <<shelf, rows, stores, driver, moving, severed, ocr, temps, leaked>>
  BY <1>1 DEF BeginUpload
<1>3. r \in ClerkState /\ r.at = "save" /\ r.owner = o /\ r.file = f /\ r.list = {}
  BY DEF Done, ClerkState
<1> HIDE DEF r
<1>4. Entitled(c, r)
  BY <1>1, <1>3 DEF Fresh, Entitled
<1>5. \A d \in Clerks : clerk[d].file # f
  BY <1>1 DEF Fresh
<1>6. c \notin temps /\ leaked \in SUBSET Files
  BY <1>2 DEF FilesInv, TempCopiesDisposed, FilesTypeOK
<1> QED
  BY <1>2, <1>3, <1>4, <1>5, <1>6, ClerkSteps

\* A request about a file that has a row disturbs no upload.
LEMMA BeginRemoveStep ==
  ASSUME FilesInv, NEW c \in Clerks, BeginRemove(c)
  PROVE  FilesInv'
<1>1. PICK f \in Files :
        rows[f] # None /\ clerk' = [clerk EXCEPT ![c] = [Done EXCEPT !.at = "unlink", !.file = f]]
  BY DEF BeginRemove
<1> DEFINE r == [Done EXCEPT !.at = "unlink", !.file = f]
<1>2. clerk' = [clerk EXCEPT ![c] = r] /\ clerk[c].at = "idle"
      /\ UNCHANGED <<shelf, rows, stores, driver, moving, severed, ocr, temps, leaked>>
  BY <1>1 DEF BeginRemove
<1>3. r \in ClerkState /\ r.at = "unlink" /\ r.file = f /\ r.list = {}
  BY DEF Done, ClerkState
<1> HIDE DEF r
<1>4. Entitled(c, r)
  BY <1>3 DEF Entitled
<1>5. c \notin temps /\ leaked \in SUBSET Files
  BY <1>2 DEF FilesInv, TempCopiesDisposed, FilesTypeOK
<1> QED
  BY <1>1, <1>2, <1>3, <1>4, <1>5, UploadsHaveFiles, ClerkSteps

LEMMA BeginPurgeStep ==
  ASSUME FilesInv, NEW c \in Clerks, BeginPurge(c)
  PROVE  FilesInv'
<1>1. PICK o \in Owners :
        /\ shelf[o] = "binned"
        /\ clerk' = [clerk EXCEPT ![c] =
                       [Done EXCEPT !.at = "empty", !.owner = o, !.list = FilesToPurge(o)]]
  BY DEF BeginPurge
<1> DEFINE r == [Done EXCEPT !.at = "empty", !.owner = o, !.list = FilesToPurge(o)]
<1>2. clerk' = [clerk EXCEPT ![c] = r] /\ clerk[c].at = "idle"
      /\ UNCHANGED <<shelf, rows, stores, driver, moving, severed, ocr, temps, leaked>>
  BY <1>1 DEF BeginPurge
<1>3. FilesToPurge(o) \in SUBSET Files /\ \A f \in FilesToPurge(o) : rows[f] # None
  BY DEF FilesToPurge, FilesOf
<1>4. r \in ClerkState /\ r.at = "empty" /\ r.owner = o /\ r.file = None /\ r.list = FilesToPurge(o)
  BY <1>3 DEF Done, ClerkState
<1> HIDE DEF r
<1>5. Entitled(c, r)
  BY <1>1, <1>4 DEF Entitled, FilesToPurge
<1>6. c \notin temps /\ leaked \in SUBSET Files
  BY <1>2 DEF FilesInv, TempCopiesDisposed, FilesTypeOK
<1>7. \A d \in Clerks \ {c} : clerk[d].at \in {"save", "create"} =>
        r.file # clerk[d].file /\ clerk[d].file \notin r.list
  BY <1>3, <1>4, UploadsHaveFiles, FilesAssumption
<1> QED
  BY <1>2, <1>4, <1>5, <1>6, <1>7, ClerkSteps

LEMMA BeginExtractStep ==
  ASSUME FilesInv, NEW c \in Clerks, BeginExtract(c)
  PROVE  FilesInv'
<1>1. PICK f \in Files :
        rows[f] # None /\ clerk' = [clerk EXCEPT ![c] = [Done EXCEPT !.at = "text", !.file = f]]
  BY DEF BeginExtract
<1> DEFINE r == [Done EXCEPT !.at = "text", !.file = f]
<1>2. clerk' = [clerk EXCEPT ![c] = r] /\ clerk[c].at = "idle" /\ temps' \subseteq temps \union {c}
      /\ UNCHANGED <<shelf, rows, stores, driver, moving, severed, ocr, leaked>>
  BY <1>1 DEF BeginExtract
<1>3. r \in ClerkState /\ r.at = "text" /\ r.file = f /\ r.list = {}
  BY DEF Done, ClerkState
<1> HIDE DEF r
<1>4. Entitled(c, r)
  BY <1>3, SpentEntitled DEF Spent
<1>5. leaked \in SUBSET Files
  BY DEF FilesInv, FilesTypeOK
<1> QED
  BY <1>1, <1>2, <1>3, <1>4, <1>5, UploadsHaveFiles, ClerkSteps

\* A request that keeps its file and its list, or gives them up, disturbs no upload.
LEMMA KeptApart ==
  ASSUME FilesInv, NEW c \in Clerks, NEW d \in Clerks \ {c}, clerk[d].at \in {"save", "create"}
  PROVE  /\ clerk[c].file # clerk[d].file /\ clerk[d].file \notin clerk[c].list
         /\ Done.file # clerk[d].file /\ clerk[d].file \notin Done.list
  BY DoneSpent, FilesAssumption DEF FilesInv, Entitled

\* A request leaves extraction, or ends.
LEMMA LeaveStep ==
  ASSUME FilesInv, NEW c \in Clerks, Dispose(c) \/ StoreFields(c) \/ FileAbort(c)
  PROVE  FilesInv'
<1>1. Entitled(c, Done)
  BY DoneSpent, SpentEntitled DEF Spent
<1>2. CASE Dispose(c)
  <2> DEFINE r == [clerk[c] EXCEPT !.at = "store"]
  <2>1. clerk' = [clerk EXCEPT ![c] = r] /\ clerk[c].at = "dispose" /\ temps' = temps \ {c}
        /\ UNCHANGED <<shelf, rows, stores, driver, moving, severed, ocr, leaked>>
    BY <1>2 DEF Dispose
  <2>2. r \in ClerkState /\ r.at = "store" /\ r.file = clerk[c].file /\ r.list = clerk[c].list
    BY ClerkTyped DEF ClerkState
  <2> HIDE DEF r
  <2>3. Entitled(c, r)
    BY <2>2, SpentEntitled DEF Spent
  <2>4. leaked \in SUBSET Files
    BY DEF FilesInv, FilesTypeOK
  <2> QED
    BY <2>1, <2>2, <2>3, <2>4, KeptApart, ClerkSteps
<1>3. CASE StoreFields(c)
  <2>1. clerk' = [clerk EXCEPT ![c] = Done] /\ clerk[c].at = "store"
        /\ UNCHANGED <<shelf, rows, stores, driver, moving, severed, ocr, leaked, temps>>
    BY <1>3 DEF StoreFields
  <2>2. c \notin temps /\ leaked \in SUBSET Files
    BY <2>1 DEF FilesInv, FilesTypeOK, TempCopiesDisposed
  <2> QED
    BY <1>1, <2>1, <2>2, DoneSpent, KeptApart, ClerkSteps
<1>4. CASE FileAbort(c)
  <2>1. clerk' = [clerk EXCEPT ![c] = Done] /\ clerk[c].at # "ocr" /\ temps' = temps \ {c}
        /\ leaked' = (IF clerk[c].at = "create" THEN leaked \union {clerk[c].file} ELSE leaked)
        /\ UNCHANGED <<shelf, rows, stores, driver, moving, severed, ocr>>
    BY <1>4 DEF FileAbort
  <2>2. leaked' \in SUBSET Files
    BY <2>1, UploadsHaveFiles DEF FilesInv, FilesTypeOK
  <2> QED
    BY <1>1, <2>1, <2>2, DoneSpent, KeptApart, ClerkSteps
<1> QED
  BY <1>2, <1>3, <1>4

\* A request joins the queue at its end, or goes on with the text it has.
LEMMA ReadTextStep ==
  ASSUME FilesInv, NEW c \in Clerks, ReadText(c)
  PROVE  FilesInv'
<1>1. clerk[c].at = "text" /\ leaked \in SUBSET Files
      /\ UNCHANGED <<shelf, rows, stores, driver, moving, severed, leaked, temps>>
  BY DEF ReadText, FilesInv, FilesTypeOK
<1>2. ASSUME NEW at \in {"dispose", "ocr"}, NEW r, r = [clerk[c] EXCEPT !.at = at]
      PROVE  /\ r \in ClerkState /\ r.at = at
             /\ r.file = clerk[c].file /\ r.list = clerk[c].list /\ Entitled(c, r)
  <2>1. r \in ClerkState /\ r.at = at /\ r.file = clerk[c].file /\ r.list = clerk[c].list
    BY <1>2 DEF FilesInv, FilesTypeOK, ClerkState
  <2> QED
    BY <2>1, SpentEntitled DEF Spent
<1>3. CASE clerk' = [clerk EXCEPT ![c].at = "dispose"] /\ UNCHANGED ocr
  <2> DEFINE r == [clerk[c] EXCEPT !.at = "dispose"]
  <2>1. clerk' = [clerk EXCEPT ![c] = r]
    BY <1>3
  <2>2. /\ r \in ClerkState /\ r.at = "dispose"
        /\ r.file = clerk[c].file /\ r.list = clerk[c].list /\ Entitled(c, r)
    BY <1>2
  <2> HIDE DEF r
  <2> QED
    BY <1>1, <1>3, <2>1, <2>2, KeptApart, ClerkSteps
<1>4. CASE clerk' = [clerk EXCEPT ![c].at = "ocr"] /\ ocr' = [ocr EXCEPT !.line = Append(@, c)]
  <2> DEFINE r == [clerk[c] EXCEPT !.at = "ocr"]
             line == ocr.line
  <2>1. clerk' = [clerk EXCEPT ![c] = r]
    BY <1>4
  <2>2. /\ r \in ClerkState /\ r.at = "ocr"
        /\ r.file = clerk[c].file /\ r.list = clerk[c].list /\ Entitled(c, r)
    BY <1>2
  <2> HIDE DEF r
  <2>3. StoreInv' /\ (\A d \in Clerks : Entitled(d, clerk[d])') /\ clerk' \in [Clerks -> ClerkState]
    BY <1>1, <2>1, <2>2, KeptApart, ClerkMoves
  <2>4. clerk'[c] = r /\ \A d \in Clerks : d # c => clerk'[d] = clerk[d]
    BY <2>1 DEF FilesInv, FilesTypeOK
  <2>5. line \in Seq(Clerks) /\ ocr' \in [line : Seq(Clerks), worker : {"none", "ready", "busy"}]
        /\ ocr'.line = Append(line, c)
    <3>1. ocr \in [line : Seq(Clerks), worker : {"none", "ready", "busy"}]
      BY DEF FilesInv, FilesTypeOK
    <3>2. Append(line, c) \in Seq(Clerks) /\ ocr' = [ocr EXCEPT !.line = Append(line, c)]
      BY <1>4, <3>1
    <3> HIDE DEF line
    <3> QED
      BY <3>1, <3>2 DEF line
  <2>6. /\ Len(ocr'.line) = Len(line) + 1 /\ ocr'.line[Len(line) + 1] = c /\ Len(line) \in Nat
        /\ \A i \in 1 .. Len(line) : ocr'.line[i] = line[i] /\ line[i] \in Clerks /\ line[i] # c
    BY <1>1, <2>5 DEF FilesInv, QueueInv
  <2>7. \A i \in 1 .. Len(ocr'.line) : clerk'[ocr'.line[i]].at = "ocr"
    <3> SUFFICES ASSUME NEW i \in 1 .. Len(ocr'.line)
                 PROVE  clerk'[ocr'.line[i]].at = "ocr"
      OBVIOUS
    <3>1. CASE i \in 1 .. Len(line)
      BY <3>1, <2>4, <2>6 DEF FilesInv, QueueInv
    <3>2. CASE i = Len(line) + 1
      BY <3>2, <2>2, <2>4, <2>6
    <3> QED
      BY <3>1, <3>2, <2>6
  <2>8. \A i, j \in 1 .. Len(ocr'.line) : ocr'.line[i] = ocr'.line[j] => i = j
    BY <2>6 DEF FilesInv, QueueInv
  <2>9. TempCopiesDisposed' /\ FilesTypeOK'
    BY <1>1, <2>2, <2>3, <2>4, <2>5 DEF FilesInv, FilesTypeOK, TempCopiesDisposed, ClerkState
  <2> QED
    BY <2>3, <2>7, <2>8, <2>9 DEF FilesInv, QueueInv
<1> QED
  BY <1>3, <1>4 DEF ReadText

\* The head of the queue is answered and leaves it.
LEMMA AnsweredStep ==
  ASSUME FilesInv, ocr.line # << >>, NEW worker \in {"none", "ready", "busy"}, Answered(worker)
  PROVE  FilesInv'
<1> DEFINE line == ocr.line
           c == Head(line)
           r == [clerk[c] EXCEPT !.at = "dispose"]
<1>1. /\ line \in Seq(Clerks) /\ Len(line) \in Nat \ {0} /\ c = line[1] /\ c \in Clerks
      /\ Tail(line) \in Seq(Clerks) /\ Len(Tail(line)) = Len(line) - 1
      /\ \A i \in 1 .. Len(line) - 1 : Tail(line)[i] = line[i + 1] /\ i + 1 \in 1 .. Len(line)
      /\ \A i \in 1 .. Len(line) : line[i] \in Clerks
  BY DEF FilesInv, FilesTypeOK
<1>2. clerk' = [clerk EXCEPT ![c] = r] /\ ocr' = [line |-> Tail(line), worker |-> worker]
      /\ UNCHANGED <<shelf, rows, stores, driver, temps, moving, severed, leaked>>
  BY DEF Answered
<1>3. clerk[c].at = "ocr"
  BY <1>1 DEF FilesInv, QueueInv
<1>4. r \in ClerkState /\ r.at = "dispose" /\ r.file = clerk[c].file /\ r.list = clerk[c].list
  <2>1. clerk[c] \in ClerkState
    BY <1>1, ClerkTyped
  <2> HIDE DEF c
  <2> QED
    BY <2>1 DEF ClerkState
<1> HIDE DEF c, r, line
<1>5. Entitled(c, r) /\ leaked \in SUBSET Files
  BY <1>4, SpentEntitled DEF Spent, FilesInv, FilesTypeOK
<1>6. StoreInv' /\ (\A d \in Clerks : Entitled(d, clerk[d])') /\ clerk' \in [Clerks -> ClerkState]
  BY <1>1, <1>2, <1>3, <1>4, <1>5, KeptApart, ClerkMoves
<1>7. clerk'[c] = r /\ \A d \in Clerks : d # c => clerk'[d] = clerk[d]
  BY <1>1, <1>2 DEF FilesInv, FilesTypeOK
<1>8. ocr'.line = Tail(line) /\ ocr' \in [line : Seq(Clerks), worker : {"none", "ready", "busy"}]
  BY <1>1, <1>2
<1>9. \A i \in 1 .. Len(line) : line[i] = c => i = 1
  BY <1>1 DEF FilesInv, QueueInv, line
<1>10. ASSUME NEW i \in 1 .. Len(Tail(line)) PROVE clerk'[Tail(line)[i]].at = "ocr"
  <2>1. Tail(line)[i] = line[i + 1] /\ i + 1 \in 1 .. Len(line) /\ line[i + 1] # c
    BY <1>1, <1>9
  <2> QED
    BY <2>1, <1>1, <1>7 DEF FilesInv, QueueInv, line
<1>11. ASSUME NEW i \in 1 .. Len(Tail(line)), NEW j \in 1 .. Len(Tail(line)),
              Tail(line)[i] = Tail(line)[j]
       PROVE  i = j
  <2>1. line[i + 1] = line[j + 1] /\ i + 1 \in 1 .. Len(line) /\ j + 1 \in 1 .. Len(line)
    BY <1>1, <1>11
  <2>2. i + 1 = j + 1
    BY <2>1 DEF FilesInv, QueueInv, line
  <2> QED
    BY <2>2, <1>1
<1>12. QueueInv'
  BY <1>8, <1>10, <1>11 DEF QueueInv
<1>13. TempCopiesDisposed' /\ FilesTypeOK'
  BY <1>2, <1>4, <1>6, <1>7, <1>8 DEF FilesInv, FilesTypeOK, TempCopiesDisposed, ClerkState
<1> QED
  BY <1>6, <1>12, <1>13 DEF FilesInv

(* ---------------------- steps on rows and objects ----------------------- *)

\* What the recogniser and the temporary copies have to do with a request outside of them.
LEMMA SidesKept ==
  ASSUME FilesInv, NEW c \in Clerks, NEW r \in ClerkState, clerk' = [clerk EXCEPT ![c] = r],
         clerk[c].at \notin {"text", "ocr", "dispose"}, UNCHANGED <<ocr, temps>>,
         shelf' \in [Owners -> {"live", "binned", "gone"}],
         rows' \in [Files -> Owners \union {None}],
         stores' \in [local : SUBSET Files, s3 : SUBSET Files],
         UNCHANGED <<driver, moving>>,
         severed' \in SUBSET Files, leaked' \in SUBSET Files
  PROVE  /\ FilesTypeOK' /\ QueueInv' /\ TempCopiesDisposed'
         /\ clerk'[c] = r /\ \A d \in Clerks : d # c => clerk'[d] = clerk[d]
<1>1. clerk'[c] = r /\ \A d \in Clerks : d # c => clerk'[d] = clerk[d]
  BY DEF FilesInv, FilesTypeOK
<1>2. QueueInv'
  BY QueueKept DEF FilesInv, FilesTypeOK, ClerkState
<1>3. TempCopiesDisposed'
  BY <1>1 DEF FilesInv, FilesTypeOK, TempCopiesDisposed
<1>4. FilesTypeOK'
  BY DEF FilesInv, FilesTypeOK, ClerkState
<1> QED
  BY <1>1, <1>2, <1>3, <1>4

\* An object is stored for the file of an upload, which nobody else knows.
LEMMA SaveObjectStep ==
  ASSUME FilesInv, NEW c \in Clerks, SaveObject(c)
  PROVE  FilesInv'
<1> PICK f : f = clerk[c].file
  OBVIOUS
<1> PICK r : r = [clerk[c] EXCEPT !.at = "create"]
  OBVIOUS
<1>1. /\ clerk[c].at = "save" /\ clerk' = [clerk EXCEPT ![c] = r]
      /\ stores' = [stores EXCEPT ![driver] = @ \union {f}]
      /\ UNCHANGED <<shelf, rows, driver, temps, ocr, moving, severed, leaked>>
  BY DEF SaveObject, Put
<1>2. r \in ClerkState /\ r.at = "create" /\ r.file = f /\ r.list = clerk[c].list
      /\ r.owner = clerk[c].owner
  BY ClerkTyped DEF ClerkState
<1>3. /\ f \in Files /\ r.owner \in Owners /\ rows[f] = None /\ f \notin moving.listed
      /\ \A d \in Clerks \ {c} : clerk[d].file # f /\ f \notin clerk[d].list
  BY <1>1, <1>2 DEF FilesInv, Entitled
<1>4. /\ stores' \in [local : SUBSET Files, s3 : SUBSET Files]
      /\ stores'[driver] = stores[driver] \union {f}
      /\ driver = "local" => stores'.s3 = stores.s3 /\ stores'.local = stores.local \union {f}
      /\ driver = "s3" => stores'.local = stores.local /\ stores'.s3 = stores.s3 \union {f}
      /\ driver \in {"local", "s3"}
  BY <1>1, <1>3 DEF FilesInv, FilesTypeOK
<1>5. /\ FilesTypeOK' /\ QueueInv' /\ TempCopiesDisposed'
      /\ clerk'[c] = r /\ \A d \in Clerks : d # c => clerk'[d] = clerk[d]
  BY <1>1, <1>2, <1>4, SidesKept DEF FilesInv, FilesTypeOK
<1>6. \A g : g # f /\ Cleared(g) => Cleared(g)'
  BY <1>1, <1>4 DEF Cleared
<1>7. RowsHaveFiles'
  BY <1>1, <1>4 DEF FilesInv, StoreInv, RowsHaveFiles
<1>8. FilesHaveRows'
  <2>1. ASSUME NEW g \in stores'[driver], rows[g] = None, g \notin leaked
        PROVE  \E d \in Clerks : clerk'[d].file = g /\ clerk'[d].at = "create"
    <3>1. CASE g = f
      BY <3>1, <1>2, <1>5
    <3>2. CASE g \in stores[driver]
      <4>1. PICK d \in Clerks : clerk[d].file = g /\ clerk[d].at = "create"
        BY <2>1, <3>2 DEF FilesInv, StoreInv, FilesHaveRows
      <4> QED
        BY <4>1, <1>1, <1>5
    <3> QED
      BY <3>1, <3>2, <1>4
  <2> QED
    BY <2>1, <1>1 DEF FilesHaveRows
<1>9. CopiesAccounted' /\ MovingInv'
  BY <1>1, <1>3, <1>4 DEF FilesInv, StoreInv, CopiesAccounted, MovingInv
<1>10. Entitled(c, r)'
  BY <1>1, <1>2, <1>3, <1>4, <1>5 DEF Entitled
<1>11. ASSUME NEW d \in Clerks, d # c, NEW k, k = clerk[d] PROVE Entitled(d, k)'
  <2>1. Entitled(d, k)
    BY <1>11 DEF FilesInv
  <2>2. k.at \in {"save", "create"} =>
          \A e \in Clerks \ {d} : clerk'[e].file # k.file /\ k.file \notin clerk'[e].list
    BY <1>1, <1>2, <1>5, <1>11, <2>1 DEF Entitled
  <2>3. k.at = "delete" => k.file # f
    BY <1>3, <1>11
  <2>4. \A g \in FilesOf(k.owner) : g # f
    BY <1>3 DEF FilesOf
  <2>5. k.at = "empty" =>
          /\ k.owner \in Owners
          /\ shelf'[k.owner] # "live" \/ k.revived
          /\ Kind(k.owner) = "job" => \A g \in FilesOf(k.owner)' : g \in k.list \/ Cleared(g)'
    BY <1>1, <1>6, <2>1, <2>4 DEF Entitled, FilesOf
  <2> QED
    BY <1>1, <1>4, <1>6, <2>1, <2>2, <2>3, <2>5 DEF Entitled
<1>12. \A d \in Clerks : Entitled(d, clerk[d])'
  BY <1>5, <1>10, <1>11 DEF Entitled
<1> QED
  BY <1>5, <1>7, <1>8, <1>9, <1>12 DEF FilesInv, StoreInv

LEMMA CreateRowStep ==
  ASSUME FilesInv, NEW c \in Clerks, CreateRow(c)
  PROVE  FilesInv'
<1> PICK f : f = clerk[c].file
  OBVIOUS
<1> PICK o : o = clerk[c].owner
  OBVIOUS
<1>1. /\ clerk[c].at = "create" /\ clerk' = [clerk EXCEPT ![c] = Done]
      /\ rows' = [rows EXCEPT ![f] = o]
      /\ leaked' = (IF Kind(o) = "job" /\ PurgeUnderWay(o) THEN leaked \union {f} ELSE leaked)
      /\ UNCHANGED <<shelf, stores, driver, temps, ocr, moving, severed>>
  BY DEF CreateRow
<1>2. /\ f \in Files /\ o \in Owners /\ rows[f] = None /\ f \notin moving.listed
      /\ f \in stores[driver]
      /\ \A d \in Clerks \ {c} : clerk[d].file # f /\ f \notin clerk[d].list
  BY <1>1 DEF FilesInv, Entitled
<1>3. /\ rows' \in [Files -> Owners \union {None}] /\ rows'[f] = o
      /\ \A g \in Files : g # f => rows'[g] = rows[g]
      /\ leaked \subseteq leaked' /\ leaked' \in SUBSET Files /\ o # None
  BY <1>1, <1>2, FilesAssumption DEF FilesInv, FilesTypeOK, Owners
<1>4. /\ FilesTypeOK' /\ QueueInv' /\ TempCopiesDisposed'
      /\ clerk'[c] = Done /\ \A d \in Clerks : d # c => clerk'[d] = clerk[d]
  BY <1>1, <1>3, DoneSpent, SidesKept DEF FilesInv, FilesTypeOK
<1>5. \A g : Cleared(g) => Cleared(g)'
  BY <1>1, <1>3 DEF Cleared
<1>6. RowsHaveFiles'
  BY <1>1, <1>2, <1>3 DEF FilesInv, StoreInv, RowsHaveFiles
<1>7. FilesHaveRows'
  <2>1. ASSUME NEW g \in stores[driver], rows'[g] = None, g \notin leaked'
        PROVE  \E d \in Clerks : clerk'[d].file = g /\ clerk'[d].at = "create"
    <3>1. g \in Files /\ g # f /\ g \notin leaked
      BY <2>1, <1>3 DEF FilesInv, FilesTypeOK
    <3>2. PICK d \in Clerks : clerk[d].file = g /\ clerk[d].at = "create"
      BY <2>1, <3>1, <1>3 DEF FilesInv, StoreInv, FilesHaveRows
    <3> QED
      BY <3>1, <3>2, <1>4
  <2> QED
    BY <2>1, <1>1 DEF FilesHaveRows
<1>8. CopiesAccounted' /\ MovingInv'
  BY <1>1, <1>2, <1>3 DEF FilesInv, FilesTypeOK, StoreInv, CopiesAccounted, MovingInv
<1>9. Entitled(c, Done)'
  BY DoneSpent DEF Entitled
<1>10. ASSUME NEW d \in Clerks, d # c, NEW k, k = clerk[d] PROVE Entitled(d, k)'
  <2>1. Entitled(d, k)
    BY <1>10 DEF FilesInv
  <2>2. k.at \in {"save", "create"} =>
          /\ k.file # f /\ k.file \in Files
          /\ \A e \in Clerks \ {d} : clerk'[e].file # k.file /\ k.file \notin clerk'[e].list
    BY <1>1, <1>2, <1>4, <1>10, <2>1, DoneSpent, FilesAssumption DEF Entitled
  <2>3. k.at = "empty" /\ Kind(k.owner) = "job" /\ k.owner = o => f \in leaked'
    BY <1>1, <1>10 DEF PurgeUnderWay
  <2>4. k.at = "empty" =>
          /\ k.owner \in Owners
          /\ shelf'[k.owner] # "live" \/ k.revived
          /\ Kind(k.owner) = "job" => \A g \in FilesOf(k.owner)' : g \in k.list \/ Cleared(g)'
    <3> SUFFICES ASSUME k.at = "empty", Kind(k.owner) = "job", NEW g \in FilesOf(k.owner)'
                 PROVE  g \in k.list \/ Cleared(g)'
      BY <1>1, <2>1 DEF Entitled
    <3>1. CASE g = f
      BY <3>1, <1>3, <2>3 DEF FilesOf, Cleared
    <3>2. CASE g # f
      BY <3>2, <1>3, <1>5, <2>1 DEF FilesOf, Entitled
    <3> QED
      BY <3>1, <3>2
  <2> QED
    BY <1>1, <1>3, <1>5, <2>1, <2>2, <2>4 DEF Entitled
<1>11. \A d \in Clerks : Entitled(d, clerk[d])'
  BY <1>4, <1>9, <1>10 DEF Entitled
<1> QED
  BY <1>4, <1>6, <1>7, <1>8, <1>11 DEF FilesInv, StoreInv

\* A deletion leaves nothing of a file behind but what is leaked, and no other file is touched.
LEMMA Unlinked ==
  ASSUME FilesTypeOK, NEW f \in Files, Unlink(f), driver' = driver
  PROVE  /\ stores' \in [local : SUBSET Files, s3 : SUBSET Files]
         /\ stores'.local \subseteq stores.local /\ stores'.s3 \subseteq stores.s3
         /\ driver = "local" => stores'.s3 = stores.s3
         /\ driver = "s3" => stores'.local = stores.local
         /\ stores'[driver] \subseteq stores[driver]
         /\ \A g \in stores[driver] : g # f => g \in stores'[driver]
         /\ severed' \in SUBSET Files /\ severed \subseteq severed'
         /\ rows[f] # None => f \in severed'
         /\ leaked' \in SUBSET Files /\ leaked \subseteq leaked'
         /\ Cleared(f)' /\ \A g : Cleared(g) => Cleared(g)'
<1>1. driver \in {"local", "s3"} /\ stores \in [local : SUBSET Files, s3 : SUBSET Files]
      /\ leaked \in SUBSET Files /\ severed \in SUBSET Files
  BY DEF FilesTypeOK
<1>2. severed' \in SUBSET Files /\ severed \subseteq severed' /\ (rows[f] # None => f \in severed')
  BY <1>1 DEF Unlink
<1>3. CASE stores' = [stores EXCEPT ![driver] = @ \ {f}]
           /\ leaked' = (IF driver = "local" /\ f \in stores.s3 THEN leaked \union {f} ELSE leaked)
  <2>1. CASE driver = "local"
    <3>1. stores' = [local |-> stores.local \ {f}, s3 |-> stores.s3]
      BY <1>1, <1>3, <2>1
    <3> QED
      BY <1>1, <1>2, <1>3, <2>1, <3>1 DEF Cleared
  <2>2. CASE driver = "s3"
    <3>1. stores' = [local |-> stores.local, s3 |-> stores.s3 \ {f}]
      BY <1>1, <1>3, <2>2
    <3> QED
      BY <1>1, <1>2, <1>3, <2>2, <3>1 DEF Cleared
  <2> QED
    BY <1>1, <2>1, <2>2
<1>4. CASE leaked' = leaked \union {f} /\ UNCHANGED stores
  BY <1>1, <1>2, <1>4 DEF Cleared
<1> QED
  BY <1>3, <1>4 DEF Unlink

\* A request removes an object that is not of an upload; whose row stays for the time being.
LEMMA ObjectGoes ==
  ASSUME FilesInv, NEW c \in Clerks, NEW r \in ClerkState, clerk' = [clerk EXCEPT ![c] = r],
         clerk[c].at \in {"unlink", "empty"}, r.file = clerk[c].file, r.list \subseteq clerk[c].list,
         NEW f \in Files, Unlink(f), UNCHANGED <<shelf, rows, driver, temps, ocr, moving>>,
         f = clerk[c].file \/ f \in clerk[c].list,
         Cleared(f)' /\ (\A g : Cleared(g) => Cleared(g)') => Entitled(c, r)'
  PROVE  FilesInv'
<1>1. FilesTypeOK
  BY DEF FilesInv
<1>2. /\ stores' \in [local : SUBSET Files, s3 : SUBSET Files]
      /\ stores'.local \subseteq stores.local /\ stores'.s3 \subseteq stores.s3
      /\ driver = "local" => stores'.s3 = stores.s3
      /\ driver = "s3" => stores'.local = stores.local
      /\ stores'[driver] \subseteq stores[driver]
      /\ \A g \in stores[driver] : g # f => g \in stores'[driver]
      /\ severed' \in SUBSET Files /\ severed \subseteq severed'
      /\ rows[f] # None => f \in severed'
      /\ leaked' \in SUBSET Files /\ leaked \subseteq leaked'
  BY <1>1, Unlinked
<1>3. Cleared(f)' /\ \A g : Cleared(g) => Cleared(g)'
  BY <1>1, Unlinked
<1>4. /\ FilesTypeOK' /\ QueueInv' /\ TempCopiesDisposed'
      /\ clerk'[c] = r /\ \A d \in Clerks : d # c => clerk'[d] = clerk[d]
  BY <1>1, <1>2, SidesKept DEF FilesTypeOK
<1>5. RowsHaveFiles'
  BY <1>2 DEF FilesInv, StoreInv, RowsHaveFiles
<1>6. FilesHaveRows'
  <2>1. ASSUME NEW g \in stores'[driver], rows[g] = None, g \notin leaked'
        PROVE  \E d \in Clerks : clerk'[d].file = g /\ clerk'[d].at = "create"
    <3>1. g \in stores[driver] /\ g \notin leaked
      BY <2>1, <1>2
    <3>2. PICK d \in Clerks : clerk[d].file = g /\ clerk[d].at = "create"
      BY <2>1, <3>1 DEF FilesInv, StoreInv, FilesHaveRows
    <3> QED
      BY <3>2, <1>4
  <2> QED
    BY <2>1 DEF FilesHaveRows
<1>7. CopiesAccounted' /\ MovingInv'
  BY <1>2 DEF FilesInv, StoreInv, CopiesAccounted, MovingInv
<1>8. Entitled(c, r)'
  BY <1>3
<1>9. ASSUME NEW d \in Clerks, d # c, NEW k, k = clerk[d] PROVE Entitled(d, k)'
  <2>1. Entitled(d, k)
    BY <1>9 DEF FilesInv
  <2>2. k.at \in {"save", "create"} =>
          /\ k.file # f
          /\ \A e \in Clerks \ {d} : clerk'[e].file # k.file /\ k.file \notin clerk'[e].list
    BY <1>4, <1>9, <2>1 DEF Entitled
  <2> QED
    BY <1>2, <1>3, <2>1, <2>2 DEF Entitled, FilesOf
<1>10. \A d \in Clerks : Entitled(d, clerk[d])'
  BY <1>4, <1>8, <1>9 DEF Entitled
<1> QED
  BY <1>4, <1>5, <1>6, <1>7, <1>10 DEF FilesInv, StoreInv

LEMMA RemoveObjectStep ==
  ASSUME FilesInv, NEW c \in Clerks, RemoveObject(c)
  PROVE  FilesInv'
<1> PICK f : f = clerk[c].file
  OBVIOUS
<1> PICK r : r = [clerk[c] EXCEPT !.at = "delete"]
  OBVIOUS
<1>1. /\ clerk[c].at = "unlink" /\ clerk' = [clerk EXCEPT ![c] = r] /\ Unlink(f)
      /\ UNCHANGED <<shelf, rows, driver, temps, ocr, moving>>
  BY DEF RemoveObject
<1>2. r \in ClerkState /\ r.at = "delete" /\ r.file = f /\ r.list = clerk[c].list
  BY ClerkTyped DEF ClerkState
<1>3. f \in Files
  BY <1>1 DEF FilesInv, Entitled
<1>4. Cleared(f)' => Entitled(c, r)'
  BY <1>2, <1>3 DEF Entitled
<1> QED
  BY <1>1, <1>2, <1>3, <1>4, ObjectGoes

LEMMA PurgeObjectStep ==
  ASSUME FilesInv, NEW c \in Clerks, PurgeObject(c)
  PROVE  FilesInv'
<1> PICK k : k = clerk[c]
  OBVIOUS
<1>1. PICK f \in k.list : Unlink(f) /\ clerk' = [clerk EXCEPT ![c].list = @ \ {f}]
  BY DEF PurgeObject
<1> PICK r : r = [k EXCEPT !.list = @ \ {f}]
  OBVIOUS
<1>2. k.at = "empty" /\ clerk' = [clerk EXCEPT ![c] = r]
      /\ UNCHANGED <<shelf, rows, driver, temps, ocr, moving>>
  BY <1>1 DEF PurgeObject
<1>3. k \in ClerkState
  BY ClerkTyped
<1>4. /\ r \in ClerkState /\ r.at = "empty" /\ r.file = k.file /\ r.list = k.list \ {f}
      /\ r.owner = k.owner /\ r.revived = k.revived
  BY <1>2, <1>3 DEF ClerkState
<1>5. f \in Files
  BY <1>3 DEF ClerkState
<1>6. Entitled(c, k)
  BY DEF FilesInv
<1>7. Cleared(f)' /\ (\A g : Cleared(g) => Cleared(g)') => Entitled(c, r)'
  BY <1>2, <1>4, <1>6 DEF Entitled, FilesOf
<1> QED
  BY <1>1, <1>2, <1>4, <1>5, <1>7, ObjectGoes

\* Rows go whose objects are gone, and with them a request and perhaps an owner.
LEMMA RowsGo ==
  ASSUME FilesInv, NEW c \in Clerks, clerk' = [clerk EXCEPT ![c] = Done],
         clerk[c].at \in {"delete", "empty"},
         NEW D \in SUBSET Files, \A f \in D : Cleared(f),
         rows' \in [Files -> Owners \union {None}],
         \A f \in Files : rows'[f] = IF f \in D THEN None ELSE rows[f],
         severed' = severed \ D,
         shelf' \in [Owners -> {"live", "binned", "gone"}],
         \A o \in Owners : shelf[o] # "live" => shelf'[o] # "live",
         UNCHANGED <<stores, driver, temps, ocr, moving, leaked>>
  PROVE  FilesInv'
<1>1. FilesTypeOK
  BY DEF FilesInv
<1>2. /\ FilesTypeOK' /\ QueueInv' /\ TempCopiesDisposed'
      /\ clerk'[c] = Done /\ \A d \in Clerks : d # c => clerk'[d] = clerk[d]
  BY <1>1, DoneSpent, SidesKept DEF FilesTypeOK
<1>3. \A f : Cleared(f) => Cleared(f)'
  BY DEF Cleared
<1>4. \A f \in D : f \in stores[driver] \/ f \in stores.s3 => f \in leaked
  BY <1>1 DEF Cleared, FilesTypeOK
<1>5. RowsHaveFiles'
  BY DEF FilesInv, StoreInv, RowsHaveFiles
<1>6. FilesHaveRows'
  <2>1. ASSUME NEW f \in stores[driver], rows'[f] = None, f \notin leaked
        PROVE  \E d \in Clerks : clerk'[d].file = f /\ clerk'[d].at = "create"
    <3>1. f \in Files /\ f \notin D
      BY <2>1, <1>1, <1>4 DEF FilesTypeOK
    <3>2. PICK d \in Clerks : clerk[d].file = f /\ clerk[d].at = "create"
      BY <2>1, <3>1 DEF FilesInv, StoreInv, FilesHaveRows
    <3> QED
      BY <3>2, <1>2
  <2> QED
    BY <2>1 DEF FilesHaveRows
<1>7. CopiesAccounted' /\ MovingInv'
  BY <1>1, <1>4 DEF FilesInv, FilesTypeOK, StoreInv, CopiesAccounted, MovingInv
<1>8. Entitled(c, Done)'
  BY DoneSpent DEF Entitled
<1>9. ASSUME NEW d \in Clerks, d # c, NEW k, k = clerk[d] PROVE Entitled(d, k)'
  <2>1. Entitled(d, k)
    BY <1>9 DEF FilesInv
  <2>2. k.at \in {"save", "create"} =>
          /\ k.file \in Files /\ rows'[k.file] = None
          /\ \A e \in Clerks \ {d} : clerk'[e].file # k.file /\ k.file \notin clerk'[e].list
    BY <1>2, <1>9, <2>1, DoneSpent, FilesAssumption DEF Entitled
  <2>3. FilesOf(k.owner)' \subseteq FilesOf(k.owner)
    BY DEF FilesOf
  <2> QED
    BY <1>3, <2>1, <2>2, <2>3 DEF Entitled
<1>10. \A d \in Clerks : Entitled(d, clerk[d])'
  BY <1>2, <1>8, <1>9 DEF Entitled
<1> QED
  BY <1>2, <1>5, <1>6, <1>7, <1>10 DEF FilesInv, StoreInv

LEMMA DeleteRowStep ==
  ASSUME FilesInv, NEW c \in Clerks, DeleteRow(c)
  PROVE  FilesInv'
<1> PICK f : f = clerk[c].file
  OBVIOUS
<1>1. /\ clerk[c].at = "delete" /\ clerk' = [clerk EXCEPT ![c] = Done]
      /\ rows' = [rows EXCEPT ![f] = None] /\ severed' = severed \ {f}
      /\ UNCHANGED <<shelf, stores, driver, temps, ocr, moving, leaked>>
  BY DEF DeleteRow
<1>2. f \in Files /\ Cleared(f)
  BY <1>1 DEF FilesInv, Entitled
<1>3. /\ rows' \in [Files -> Owners \union {None}]
      /\ \A g \in Files : rows'[g] = IF g \in {f} THEN None ELSE rows[g]
      /\ shelf \in [Owners -> {"live", "binned", "gone"}]
  BY <1>1, <1>2 DEF FilesInv, FilesTypeOK
<1>4. \A g \in {f} : Cleared(g)
  BY <1>2
<1>5. {f} \in SUBSET Files
  BY <1>2
<1> HIDE DEF Cleared
<1> QED
  BY <1>1, <1>3, <1>4, <1>5, RowsGo

LEMMA PurgeRowStep ==
  ASSUME FilesInv, NEW c \in Clerks, PurgeRow(c)
  PROVE  FilesInv'
<1> PICK o : o = clerk[c].owner
  OBVIOUS
<1> PICK D : D = IF Kind(o) = "job" THEN FilesOf(o) ELSE {}
  OBVIOUS
<1>1. /\ clerk[c].at = "empty" /\ clerk[c].list = {} /\ clerk' = [clerk EXCEPT ![c] = Done]
      /\ shelf' = [shelf EXCEPT ![o] = "gone"] /\ severed' = severed \ D
      /\ rows' = [f \in Files |-> IF f \in D THEN None ELSE rows[f]]
      /\ UNCHANGED <<stores, driver, temps, ocr, moving, leaked>>
  BY DEF PurgeRow
<1>2. D \in SUBSET Files /\ \A f \in D : Cleared(f)
  BY <1>1 DEF FilesInv, Entitled, FilesOf
<1>3. /\ rows' \in [Files -> Owners \union {None}]
      /\ \A f \in Files : rows'[f] = IF f \in D THEN None ELSE rows[f]
      /\ shelf' \in [Owners -> {"live", "binned", "gone"}]
      /\ \A p \in Owners : shelf[p] # "live" => shelf'[p] # "live"
  BY <1>1 DEF FilesInv, FilesTypeOK
<1> QED
  BY <1>1, <1>2, <1>3, RowsGo

(* --------------------- the bin, the script, the server ------------------ *)

LEMMA BinStep ==
  ASSUME FilesInv, NEW o \in Owners, Bin(o)
  PROVE  FilesInv'
<1>1. /\ shelf' = [shelf EXCEPT ![o] = "binned"] /\ shelf[o] = "live"
      /\ UNCHANGED <<rows, stores, driver, clerk, temps, ocr, moving, severed, leaked>>
  BY DEF Bin
<1>2. shelf' \in [Owners -> {"live", "binned", "gone"}]
      /\ \A p \in Owners : shelf[p] # "live" => shelf'[p] # "live"
  BY <1>1 DEF FilesInv, FilesTypeOK
<1>3. ASSUME NEW c \in Clerks PROVE Entitled(c, clerk[c])'
  BY <1>1, <1>2 DEF FilesInv, Entitled, FilesOf, Cleared
<1> QED
  BY <1>1, <1>2, <1>3 DEF FilesInv, FilesTypeOK, StoreInv, RowsHaveFiles, FilesHaveRows,
       CopiesAccounted, MovingInv, QueueInv, TempCopiesDisposed

\* A purge of an owner restored meanwhile is marked; nothing else is told of it.
LEMMA RestoreStep ==
  ASSUME FilesInv, NEW o \in Owners, Restore(o)
  PROVE  FilesInv'
<1>1. /\ shelf' = [shelf EXCEPT ![o] = "live"]
      /\ clerk' = [c \in Clerks |-> [clerk[c] EXCEPT !.revived = @ \/ clerk[c].owner = o]]
      /\ UNCHANGED <<rows, stores, driver, temps, ocr, moving, severed, leaked>>
  BY DEF Restore
<1>2. shelf' \in [Owners -> {"live", "binned", "gone"}]
      /\ \A p \in Owners : p # o => shelf'[p] = shelf[p]
  BY <1>1 DEF FilesInv, FilesTypeOK
<1>3. ASSUME NEW c \in Clerks
      PROVE  /\ clerk'[c] \in ClerkState
             /\ clerk'[c].at = clerk[c].at /\ clerk'[c].owner = clerk[c].owner
             /\ clerk'[c].file = clerk[c].file /\ clerk'[c].list = clerk[c].list
             /\ clerk[c].revived \/ clerk[c].owner = o => clerk'[c].revived
  <2> PICK k : k = clerk[c]
    OBVIOUS
  <2> PICK b : b = (k.revived \/ k.owner = o)
    OBVIOUS
  <2>1. k \in ClerkState /\ clerk'[c] = [k EXCEPT !.revived = b] /\ b \in BOOLEAN
    BY <1>1, ClerkTyped
  <2> QED
    BY <2>1 DEF ClerkState
<1>4. clerk' \in [Clerks -> ClerkState]
  BY <1>1, <1>3
<1>0. UNCHANGED <<rows, stores, driver, temps, ocr, moving, severed, leaked>>
  BY <1>1
<1>5. ASSUME NEW c \in Clerks PROVE Entitled(c, clerk[c])'
  <2> PICK k : k = clerk[c]
    OBVIOUS
  <2> PICK m : m = clerk'[c]
    OBVIOUS
  <2>1. Entitled(c, k)
    BY DEF FilesInv
  <2>2. /\ m.at = k.at /\ m.owner = k.owner /\ m.file = k.file /\ m.list = k.list
        /\ k.revived \/ k.owner = o => m.revived
        /\ \A d \in Clerks : clerk'[d].file = clerk[d].file /\ clerk'[d].list = clerk[d].list
    BY <1>3
  <2>3. m.at \in {"save", "create"} =>
          /\ m.file \in Files /\ m.owner \in Owners
          /\ rows'[m.file] = None /\ m.file \notin moving'.listed
          /\ \A d \in Clerks \ {c} : clerk'[d].file # m.file /\ m.file \notin clerk'[d].list
    BY <1>0, <2>1, <2>2 DEF Entitled
  <2>4. m.at = "empty" =>
          /\ m.owner \in Owners
          /\ shelf'[m.owner] # "live" \/ m.revived
    BY <1>2, <2>1, <2>2 DEF Entitled
  <2>5. m.at = "empty" /\ Kind(m.owner) = "job" =>
          \A f \in FilesOf(m.owner)' : f \in m.list \/ Cleared(f)'
    BY <1>0, <2>1, <2>2 DEF Entitled, FilesOf, Cleared
  <2>6. (m.at = "create" => m.file \in stores'[driver'])
        /\ (m.at \in {"unlink", "delete"} => m.file \in Files)
        /\ (m.at = "delete" => Cleared(m.file)')
    BY <1>0, <2>1, <2>2 DEF Entitled, Cleared
  <2>7. Entitled(c, m)'
    BY <2>3, <2>4, <2>5, <2>6 DEF Entitled
  <2> QED
    BY <2>7
<1>6. FilesTypeOK'
  BY <1>1, <1>2, <1>4 DEF FilesInv, FilesTypeOK, ClerkState
<1>7. StoreInv'
  BY <1>0, <1>3 DEF FilesInv, StoreInv, RowsHaveFiles, FilesHaveRows, CopiesAccounted, MovingInv
<1>8. \A i \in 1 .. Len(ocr.line) : ocr.line[i] \in Clerks
  BY DEF FilesInv, FilesTypeOK
<1>9. QueueInv' /\ TempCopiesDisposed'
  BY <1>0, <1>3, <1>8 DEF FilesInv, FilesTypeOK, QueueInv, TempCopiesDisposed
<1> QED
  BY <1>5, <1>6, <1>7, <1>9 DEF FilesInv

\* The script lists documents, which are no files of an upload.
LEMMA BeginMoveStep ==
  ASSUME FilesInv, BeginMove
  PROVE  FilesInv'
<1> PICK D : D = {f \in Files : rows[f] # None /\ Kind(rows[f]) = "job"}
  OBVIOUS
<1>1. /\ driver = "local" /\ moving' = [listed |-> D, list |-> D, failed |-> FALSE]
      /\ UNCHANGED <<shelf, rows, stores, driver, clerk, temps, ocr, severed, leaked>>
  BY DEF BeginMove
<1>2. D \in SUBSET Files /\ \A f \in D : rows[f] # None
  OBVIOUS
<1>3. ASSUME NEW c \in Clerks PROVE Entitled(c, clerk[c])'
  BY <1>1, <1>2 DEF FilesInv, Entitled, FilesOf, Cleared
<1>4. StoreInv'
  BY <1>1, <1>2 DEF FilesInv, StoreInv, RowsHaveFiles, FilesHaveRows, CopiesAccounted, MovingInv
<1> QED
  BY <1>1, <1>2, <1>3, <1>4 DEF FilesInv, FilesTypeOK, QueueInv, TempCopiesDisposed

\* It copies an object which has a row, unless the object is leaked; or it leaves one out.
LEMMA MoveOneStep ==
  ASSUME FilesInv, MoveOne
  PROVE  FilesInv'
<1>1. PICK f \in moving.list :
        \/ /\ f \in stores.local
           /\ stores' = [stores EXCEPT !.s3 = @ \union {f}]
           /\ moving' = [moving EXCEPT !.list = @ \ {f}]
        \/ /\ moving' = [moving EXCEPT !.list = @ \ {f}, !.failed = @ \/ f \in stores.local]
           /\ UNCHANGED stores
  BY DEF MoveOne
<1>2. UNCHANGED <<shelf, rows, driver, clerk, temps, ocr, severed, leaked>>
  BY DEF MoveOne
<1>3. /\ driver = "local" /\ f \in moving.listed /\ f \in Files
      /\ stores \in [local : SUBSET Files, s3 : SUBSET Files]
      /\ moving \in [listed : SUBSET Files, list : SUBSET Files, failed : BOOLEAN]
  BY DEF FilesInv, FilesTypeOK, StoreInv, MovingInv
<1>4. CASE /\ f \in stores.local
           /\ stores' = [stores EXCEPT !.s3 = @ \union {f}]
           /\ moving' = [moving EXCEPT !.list = @ \ {f}]
  <2>1. /\ stores' \in [local : SUBSET Files, s3 : SUBSET Files]
        /\ stores'.local = stores.local /\ stores'.s3 = stores.s3 \union {f}
        /\ stores'[driver] = stores[driver] /\ f \in stores[driver]
    BY <1>3, <1>4
  <2>2. /\ moving' \in [listed : SUBSET Files, list : SUBSET Files, failed : BOOLEAN]
        /\ moving'.listed = moving.listed /\ moving'.list = moving.list \ {f}
        /\ moving'.failed = moving.failed
    BY <1>3, <1>4
  <2>3. rows[f] # None \/ f \in leaked
    <3>1. \A c \in Clerks : clerk[c].at = "create" => clerk[c].file # f
      BY <1>3 DEF FilesInv, Entitled
    <3> QED
      BY <2>1, <3>1 DEF FilesInv, StoreInv, FilesHaveRows
  <2>4. \A g : Cleared(g) => Cleared(g)'
    BY <1>2, <1>3, <1>4, <2>1 DEF Cleared
  <2>5. CopiesAccounted' /\ MovingInv'
    BY <1>2, <1>3, <2>1, <2>2, <2>3 DEF FilesInv, StoreInv, CopiesAccounted, MovingInv
  <2>6. RowsHaveFiles' /\ FilesHaveRows'
    BY <1>2, <1>3, <2>1 DEF FilesInv, StoreInv, RowsHaveFiles, FilesHaveRows
  <2>7. ASSUME NEW c \in Clerks PROVE Entitled(c, clerk[c])'
    <3> PICK k : k = clerk[c]
      OBVIOUS
    <3>1. Entitled(c, k)
      BY DEF FilesInv
    <3> QED
      BY <1>2, <2>1, <2>2, <2>4, <3>1 DEF Entitled, FilesOf
  <2>8. FilesTypeOK' /\ QueueInv' /\ TempCopiesDisposed'
    BY <1>2, <2>1, <2>2 DEF FilesInv, FilesTypeOK, QueueInv, TempCopiesDisposed
  <2> QED
    BY <2>5, <2>6, <2>7, <2>8 DEF FilesInv, StoreInv
<1>5. CASE /\ moving' = [moving EXCEPT !.list = @ \ {f}, !.failed = @ \/ f \in stores.local]
           /\ UNCHANGED stores
  <2> PICK b : b = (moving.failed \/ f \in stores.local)
    OBVIOUS
  <2>1. moving' = [moving EXCEPT !.list = @ \ {f}, !.failed = b] /\ b \in BOOLEAN
    BY <1>5
  <2>2. /\ moving' \in [listed : SUBSET Files, list : SUBSET Files, failed : BOOLEAN]
        /\ moving'.listed = moving.listed /\ moving'.list = moving.list \ {f}
        /\ moving'.failed = b
    BY <1>3, <2>1
  <2>3. MovingInv'
    BY <1>2, <1>3, <1>5, <2>2 DEF FilesInv, StoreInv, MovingInv
  <2>4. RowsHaveFiles' /\ FilesHaveRows' /\ CopiesAccounted'
    BY <1>2, <1>5, <2>2 DEF FilesInv, StoreInv, RowsHaveFiles, FilesHaveRows, CopiesAccounted
  <2>5. ASSUME NEW c \in Clerks PROVE Entitled(c, clerk[c])'
    <3> PICK k : k = clerk[c]
      OBVIOUS
    <3>1. Entitled(c, k)
      BY DEF FilesInv
    <3> QED
      BY <1>2, <1>5, <2>2, <3>1 DEF Entitled, FilesOf, Cleared
  <2>6. FilesTypeOK' /\ QueueInv' /\ TempCopiesDisposed'
    BY <1>2, <1>5, <2>2 DEF FilesInv, FilesTypeOK, QueueInv, TempCopiesDisposed
  <2> QED
    BY <2>3, <2>4, <2>5, <2>6 DEF FilesInv, StoreInv
<1> QED
  BY <1>1, <1>4, <1>5

\* Nothing of the requests survives a stop, and what they were uploading is leaked.
LEMMA AfterStop ==
  ASSUME FilesInv, Stopped, leaked' = leaked \union Uploading,
         UNCHANGED <<shelf, rows, stores, moving, severed>>, driver' \in {"local", "s3"}
  PROVE  /\ FilesTypeOK' /\ QueueInv' /\ TempCopiesDisposed'
         /\ \A c \in Clerks : Entitled(c, clerk[c])'
         /\ \A c \in Clerks : clerk[c].at = "create" => clerk[c].file \in leaked'
         /\ leaked \subseteq leaked'
<1>1. clerk' \in [Clerks -> ClerkState] /\ \A c \in Clerks : clerk'[c] = Done
  BY DoneSpent DEF Stopped
<1>2. << >> \in Seq(Clerks) /\ Len(<< >>) = 0
  OBVIOUS
<1>3. ocr' \in [line : Seq(Clerks), worker : {"none", "ready", "busy"}] /\ ocr'.line = << >>
  BY <1>2 DEF Stopped
<1>4. Uploading \subseteq Files
  BY UploadsHaveFiles DEF Uploading
<1>5. FilesTypeOK'
  BY <1>1, <1>3, <1>4 DEF FilesInv, FilesTypeOK, ClerkState, Stopped
<1>6. QueueInv' /\ TempCopiesDisposed'
  BY <1>2, <1>3 DEF QueueInv, TempCopiesDisposed, Stopped
<1>7. \A c \in Clerks : Entitled(c, clerk[c])'
  BY <1>1, DoneSpent DEF Entitled
<1>8. \A c \in Clerks : clerk[c].at = "create" => clerk[c].file \in leaked'
  BY DEF Uploading
<1> QED
  BY <1>5, <1>6, <1>7, <1>8

LEMMA CrashStep ==
  ASSUME FilesInv, Crash
  PROVE  FilesInv'
<1>1. /\ Stopped /\ leaked' = leaked \union Uploading
      /\ UNCHANGED <<shelf, rows, stores, driver, moving, severed>> /\ driver' \in {"local", "s3"}
  BY DEF Crash, FilesInv, FilesTypeOK
<1>2. /\ FilesTypeOK' /\ QueueInv' /\ TempCopiesDisposed'
      /\ \A c \in Clerks : Entitled(c, clerk[c])'
      /\ \A c \in Clerks : clerk[c].at = "create" => clerk[c].file \in leaked'
      /\ leaked \subseteq leaked'
  BY <1>1, AfterStop
<1>3. StoreInv'
  BY <1>1, <1>2 DEF FilesInv, StoreInv, RowsHaveFiles, FilesHaveRows, CopiesAccounted, MovingInv
<1> QED
  BY <1>2, <1>3 DEF FilesInv

\* The script is through with every document it listed: each is on the bucket or was gone for.
LEMMA SwitchDriverStep ==
  ASSUME FilesInv, SwitchDriver
  PROVE  FilesInv'
<1>1. /\ Stopped /\ leaked' = leaked \union Uploading /\ driver = "local" /\ driver' = "s3"
      /\ moving.list = {} /\ ~moving.failed
      /\ UNCHANGED <<shelf, rows, stores, moving, severed>> /\ driver' \in {"local", "s3"}
  BY DEF SwitchDriver
<1>2. /\ FilesTypeOK' /\ QueueInv' /\ TempCopiesDisposed'
      /\ \A c \in Clerks : Entitled(c, clerk[c])'
      /\ leaked \subseteq leaked'
  BY <1>1, AfterStop
<1>3. RowsHaveFiles'
  BY <1>1 DEF FilesInv, StoreInv, RowsHaveFiles, MovingInv
<1>4. FilesHaveRows'
  BY <1>1, <1>2 DEF FilesInv, StoreInv, CopiesAccounted, FilesHaveRows
<1>5. CopiesAccounted' /\ MovingInv'
  BY <1>1 DEF FilesInv, StoreInv, CopiesAccounted, MovingInv
<1> QED
  BY <1>2, <1>3, <1>4, <1>5 DEF FilesInv, StoreInv

\* The worker of the recogniser alone changes.
LEMMA WorkerStep ==
  ASSUME FilesInv, StartWorker \/ Recognise \/ GiveUp \/ LateResult
  PROVE  FilesInv'
<1>1. ASSUME ocr' = [ocr EXCEPT !.worker = "ready"],
             UNCHANGED <<shelf, rows, stores, driver, clerk, temps, moving, severed, leaked>>
      PROVE  FilesInv'
  <2>1. ocr'.line = ocr.line /\ ocr' \in [line : Seq(Clerks), worker : {"none", "ready", "busy"}]
    BY <1>1 DEF FilesInv, FilesTypeOK
  <2>2. FilesTypeOK' /\ QueueInv' /\ TempCopiesDisposed'
    BY <1>1, <2>1 DEF FilesInv, FilesTypeOK, QueueInv, TempCopiesDisposed
  <2>3. StoreInv'
    BY <1>1 DEF FilesInv, StoreInv, RowsHaveFiles, FilesHaveRows, CopiesAccounted, MovingInv
  <2>4. ASSUME NEW c \in Clerks PROVE Entitled(c, clerk[c])'
    BY <1>1 DEF FilesInv, Entitled, FilesOf, Cleared
  <2> QED
    BY <2>2, <2>3, <2>4 DEF FilesInv
<1> QED
  BY <1>1, AnsweredStep DEF StartWorker, Recognise, GiveUp, LateResult

(* -------------------------------- theorems ------------------------------ *)

LEMMA FilesSteps == FilesInv /\ [OfficeNext]_officeVars => FilesInv'
<1> SUFFICES ASSUME FilesInv, [FilesNext]_fileVars PROVE FilesInv'
  BY FilesRun
<1>1. CASE UNCHANGED fileVars
  <2>1. UNCHANGED <<shelf, rows, stores, driver, clerk, temps, ocr, moving, severed, leaked>>
    BY <1>1 DEF fileVars
  <2>2. FilesTypeOK' /\ QueueInv' /\ TempCopiesDisposed'
    BY <2>1 DEF FilesInv, FilesTypeOK, QueueInv, TempCopiesDisposed
  <2>3. StoreInv'
    BY <2>1 DEF FilesInv, StoreInv, RowsHaveFiles, FilesHaveRows, CopiesAccounted, MovingInv
  <2>4. ASSUME NEW c \in Clerks PROVE Entitled(c, clerk[c])'
    BY <2>1 DEF FilesInv, Entitled, FilesOf, Cleared
  <2> QED
    BY <2>2, <2>3, <2>4 DEF FilesInv
<1>2. CASE StartWorker \/ Recognise \/ GiveUp \/ LateResult
  BY <1>2, WorkerStep
<1>3. CASE BeginMove \/ MoveOne \/ SwitchDriver \/ Crash
  BY <1>3, BeginMoveStep, MoveOneStep, SwitchDriverStep, CrashStep
<1>4. ASSUME NEW o \in Owners, Bin(o) \/ Restore(o) PROVE FilesInv'
  BY <1>4, BinStep, RestoreStep
<1>5. ASSUME NEW c \in Clerks,
             \/ BeginUpload(c) \/ SaveObject(c) \/ CreateRow(c)
             \/ BeginRemove(c) \/ RemoveObject(c) \/ DeleteRow(c)
      PROVE  FilesInv'
  BY <1>5, BeginUploadStep, SaveObjectStep, CreateRowStep, BeginRemoveStep, RemoveObjectStep,
     DeleteRowStep
<1>6. ASSUME NEW c \in Clerks,
             \/ BeginPurge(c) \/ PurgeObject(c) \/ PurgeRow(c) \/ BeginExtract(c) \/ ReadText(c)
             \/ Dispose(c) \/ StoreFields(c) \/ FileAbort(c)
      PROVE  FilesInv'
  BY <1>6, BeginPurgeStep, PurgeObjectStep, PurgeRowStep, BeginExtractStep, ReadTextStep, LeaveStep
<1> QED
  BY <1>1, <1>2, <1>3, <1>4, <1>5, <1>6 DEF FilesNext

\* In every reachable state rows and objects differ only as the code accounts for.
THEOREM FilesInvariant == OfficeSpec => []FilesInv
<1>1. OfficeInit => FilesInv
  BY FilesStart DEF OfficeInit
<1> QED
  BY <1>1, FilesSteps, PTL DEF OfficeSpec

LEMMA Accounted == FilesInv => RowsHaveFiles /\ FilesHaveRows /\ TempCopiesDisposed
  BY DEF FilesInv, StoreInv

\* Only a purge takes an owner off the shelf, one that found it in the bin.
LEMMA OnlyThePurgeTakes ==
  ASSUME FilesInv, FilesNext, NEW o \in Owners, shelf[o] # "gone", shelf'[o] = "gone"
  PROVE  shelf[o] = "binned" \/ \E c \in Clerks : clerk[c].owner = o /\ clerk[c].revived
<1>1. ~UNCHANGED shelf
  OBVIOUS
<1>2. ASSUME NEW p \in Owners, Bin(p) \/ Restore(p) PROVE FALSE
  BY <1>2 DEF Bin, Restore, FilesInv, FilesTypeOK
<1>3. PICK c \in Clerks : PurgeRow(c)
  BY <1>1, <1>2 DEF FilesNext, BeginUpload, SaveObject, CreateRow, BeginRemove, RemoveObject,
     DeleteRow, BeginPurge, PurgeObject, BeginExtract, ReadText, Dispose, StoreFields, FileAbort,
     StartWorker, Recognise, GiveUp, LateResult, Answered, BeginMove, MoveOne, SwitchDriver, Crash
<1>4. clerk[c].at = "empty" /\ shelf' = [shelf EXCEPT ![clerk[c].owner] = "gone"]
  BY <1>3 DEF PurgeRow
<1>5. clerk[c].owner = o /\ (shelf[o] # "live" \/ clerk[c].revived)
  BY <1>4 DEF FilesInv, FilesTypeOK, Entitled
<1> QED
  BY <1>5 DEF FilesInv, FilesTypeOK

\* Rows and stored objects stay together through uploads, removals, purges, the migration,
\* failed writes and crashes, for any number of requests, owners and files.
THEOREM FilesCorrect == OfficeSpec => FilesAccounted
<1>1. FilesInv /\ FilesInv' /\ [OfficeNext]_officeVars =>
        [/\ RowsHaveFiles' /\ FilesHaveRows' /\ TempCopiesDisposed'
         /\ \A o \in Owners : PurgedFromBin(o)]_fileVars
  <2>1. FilesInv' => RowsHaveFiles' /\ FilesHaveRows' /\ TempCopiesDisposed'
    BY Accounted, PTL
  <2> QED
    BY <2>1, FilesRun, OnlyThePurgeTakes DEF PurgedFromBin
<1> QED
  BY <1>1, FilesInvariant, PTL DEF OfficeSpec, FilesAccounted
=============================================================================
