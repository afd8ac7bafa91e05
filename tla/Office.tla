------------------------------- MODULE Office -------------------------------
(***************************************************************************)
(* The parts of the server that share no table with one another.  What one *)
(* does changes nothing for the others, so a behaviour moves one of them,  *)
(* picked at the start: a property of one part is not disturbed by more.   *)
(***************************************************************************)
EXTENDS SignIn, Access, Credit, Imports, FileStore, Reminders, Numbering

CONSTANT Parts            \* the parts that can be picked

ASSUME PartsAssumption ==
  Parts \subseteq {"signIn", "access", "credit", "imports", "files", "reminders", "numbers"}

VARIABLE part

officeVars == <<part, signInVars, accessVars, creditVars, importVars, fileVars, reminderVars,
                numberVars>>

\* The customer of the credit part is any, and so is the driver of the stored files; in the
\* other parts, where they do not matter, they are the same.
OfficeInit ==
  /\ part \in Parts
  /\ SignInInit /\ AccessInit /\ CreditInit /\ ImportsInit /\ FilesInit /\ RemindersInit
  /\ NumberingInit
  /\ part # "credit" =>
       /\ \A d \in Debts : debts[d].currency = Base /\ debts[d].total = Min(Values)
       /\ \A c \in DOMAIN fx : fx[c] = None
       /\ terms = CHOOSE t \in Terms : TRUE
  /\ part # "files" => driver = "local"

OfSignIn(A) ==
  part = "signIn" /\ A
    /\ UNCHANGED <<part, accessVars, creditVars, importVars, fileVars, reminderVars, numberVars>>
OfAccess(A) ==
  part = "access" /\ A
    /\ UNCHANGED <<part, signInVars, creditVars, importVars, fileVars, reminderVars, numberVars>>
OfCredit(A) ==
  part = "credit" /\ A
    /\ UNCHANGED <<part, signInVars, accessVars, importVars, fileVars, reminderVars, numberVars>>
OfImports(A) ==
  part = "imports" /\ A
    /\ UNCHANGED <<part, signInVars, accessVars, creditVars, fileVars, reminderVars, numberVars>>
OfFiles(A) ==
  part = "files" /\ A
    /\ UNCHANGED <<part, signInVars, accessVars, creditVars, importVars, reminderVars, numberVars>>
OfReminders(A) ==
  part = "reminders" /\ A
    /\ UNCHANGED <<part, signInVars, accessVars, creditVars, importVars, fileVars, numberVars>>
OfNumbers(A) ==
  part = "numbers" /\ A
    /\ UNCHANGED <<part, signInVars, accessVars, creditVars, importVars, fileVars, reminderVars>>

OfficeNext ==
  \/ OfSignIn(SignInNext) \/ OfAccess(AccessNext) \/ OfCredit(CreditNext)
  \/ OfImports(ImportsNext) \/ OfFiles(FilesNext) \/ OfReminders(RemindersNext)
  \/ OfNumbers(NumberingNext)

OfficeSpec == OfficeInit /\ [][OfficeNext]_officeVars

\* A worker of the recogniser is made or refused in the end, and the timer of a recognition
\* expires.  The scheduler starts a scan every thirty minutes, and a scan goes on.  Time
\* passes for every request that draws a number: it goes on or its timeout ends it.
OfficeFairness ==
  /\ WF_officeVars(OfFiles(StartWorker)) /\ WF_officeVars(OfFiles(GiveUp))
  /\ \A s \in Scans : WF_officeVars(OfReminders(ScanStep(s)))
  /\ \A c \in Callers : WF_officeVars(OfNumbers(CallStep(c)))

-----------------------------------------------------------------------------
OfficeTypeOK ==
  /\ SignInTypeOK /\ AccessTypeOK /\ CreditTypeOK /\ ImportsTypeOK /\ FilesTypeOK
  /\ RemindersTypeOK /\ NumberingTypeOK

\* A debtor that can be reached is reminded, though the mail to another bounces in each scan.
EveryDebtorReminded ==
  \A i \in Debtors \ Unreachable :
    part = "reminders" /\ open[i] ~> ~open[i] \/ mailed[i] # None
=============================================================================
