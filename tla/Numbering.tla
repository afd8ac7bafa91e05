------------------------------ MODULE Numbering ------------------------------
(***************************************************************************)
(* Document numbers and database connections.  A creation draws its number *)
(* in a transaction of its own under the lock of the sequence row          *)
(* (sequence.service.ts), then inserts the document.  The reversal of a    *)
(* receipt holds a connection and a row lock and asks the pool for a       *)
(* second connection (invoices.service.ts, issuedNoteNet).  An interactive *)
(* transaction is given up after a while, with its locks and connection.   *)
(***************************************************************************)
EXTENDS Naturals, FiniteSets, Server

CONSTANTS Callers,       \* requests in flight
          Receipted,     \* invoices with a receipt to reverse
          Connections,   \* size of the pool
          Hosts,         \* servers, each with its clock
          LastYear,      \* bound on time
          MaxDraws       \* bound on the numbers drawn in a year

ASSUME NumberingAssumption ==
  None \notin Callers /\ Connections \in Nat /\ LastYear \in Nat \ {0} /\ MaxDraws \in Nat

VARIABLES counter,       \* the sequences row: next value and the year it counts for
          year,          \* the year on the clock of each host
          call,          \* local state of the requests
          linked,        \* requests that hold a connection
          locks,         \* the request that holds the lock of a row, "sequence" or an invoice
          numbers,       \* numbers of stored documents
          lost,          \* history: numbers drawn for a document that was not stored
          skewed         \* history: a host behind the year of the sequence has drawn

numberVars == <<counter, year, call, linked, locks, numbers, lost, skewed>>

NoCall == [at |-> "idle", row |-> None, number |-> None]

NumberingInit ==
  /\ counter = [next |-> 1, scope |-> 1]
  /\ year = [h \in Hosts |-> 1]
  /\ call = [c \in Callers |-> NoCall]
  /\ linked = {}
  /\ locks = [r \in Receipted \union {"sequence"} |-> None]
  /\ numbers = {} /\ lost = {} /\ skewed = FALSE

Free == Cardinality(linked) < Connections

Unlock(c) == [r \in DOMAIN locks |-> IF locks[r] = c THEN None ELSE locks[r]]

-----------------------------------------------------------------------------
\* create, of any document: a number is asked for; a reversal likewise starts a transaction.
BeginCall(c) ==
  /\ call[c].at = "idle"
  /\ \E r \in DOMAIN locks :
       call' = [call EXCEPT ![c] = [NoCall EXCEPT !.at = "link", !.row = r]]
  /\ UNCHANGED <<counter, year, linked, locks, numbers, lost, skewed>>

\* The transaction gets a connection, waiting for one if none is free.
Link(c) ==
  /\ call[c].at = "link"
  /\ Free
  /\ linked' = linked \union {c}
  /\ call' = [call EXCEPT ![c].at = "lock"]
  /\ UNCHANGED <<counter, year, locks, numbers, lost, skewed>>

\* SELECT ... FOR UPDATE: the row is locked and read.
LockAndRead(c) ==
  /\ call[c].at = "lock"
  /\ locks' = [locks EXCEPT ![call[c].row] = c]
  /\ call' = [call EXCEPT ![c].at = IF call[c].row = "sequence" THEN "draw" ELSE "net",
                          ![c].number = IF call[c].row = "sequence" THEN <<counter.scope, counter.next>>
                                        ELSE None]
  /\ UNCHANGED <<counter, year, linked, numbers, lost, skewed>>

LockRowUnasked(c) == LockAndRead(c)

LockRow(c) == call[c].at = "lock" /\ locks[call[c].row] = None /\ LockAndRead(c)

\* A new year starts the count again; the host's clock is read under the lock.
Draw(c, h) ==
  LET y == year[h]
      n == IF call[c].number[1] # y THEN 1 ELSE call[c].number[2]
  IN /\ call[c].at = "draw"
     /\ n <= MaxDraws
     /\ counter' = [next |-> n + 1, scope |-> y]
     /\ skewed' = (skewed \/ y < counter.scope)
     /\ call' = [call EXCEPT ![c].at = "insert", ![c].number = <<y, n>>]
     /\ locks' = Unlock(c) /\ linked' = linked \ {c}
     /\ UNCHANGED <<year, numbers, lost>>

\* The document is inserted; its number is unique.
InsertDocument(c) ==
  /\ call[c].at = "insert"
  /\ Free
  /\ call[c].number \notin numbers
  /\ numbers' = numbers \union {call[c].number}
  /\ call' = [call EXCEPT ![c] = NoCall]
  /\ UNCHANGED <<counter, year, linked, locks, lost, skewed>>

\* The insert fails, or its number is taken: the number is not drawn again.
InsertFails(c) ==
  /\ call[c].at = "insert"
  /\ lost' = lost \union {call[c].number}
  /\ call' = [call EXCEPT ![c] = NoCall]
  /\ UNCHANGED <<counter, year, linked, locks, numbers, skewed>>

\* The note net is read on a connection of its own while the transaction keeps its own.
ReadNet(c) ==
  /\ call[c].at = "net"
  /\ Free
  /\ call' = [call EXCEPT ![c] = NoCall]
  /\ locks' = Unlock(c) /\ linked' = linked \ {c}
  /\ UNCHANGED <<counter, year, numbers, lost, skewed>>

ExpireUnlinked(c) ==
  /\ call[c].at = "link"
  /\ call' = [call EXCEPT ![c] = NoCall]
  /\ UNCHANGED <<counter, year, linked, locks, numbers, lost, skewed>>

ExpireLinked(c) ==
  /\ call[c].at \in {"link", "lock", "draw", "net"}
  /\ call' = [call EXCEPT ![c] = NoCall]
  /\ locks' = Unlock(c)
  /\ UNCHANGED <<counter, year, linked, numbers, lost, skewed>>

\* Waiting for a connection, or a transaction, takes too long: everything it held is released.
Expire(c) ==
  /\ call[c].at \in {"link", "lock", "draw", "net"}
  /\ call' = [call EXCEPT ![c] = NoCall]
  /\ locks' = Unlock(c) /\ linked' = linked \ {c}
  /\ UNCHANGED <<counter, year, numbers, lost, skewed>>

NewYear(h) ==
  /\ year[h] < LastYear
  /\ year' = [year EXCEPT ![h] = @ + 1]
  /\ UNCHANGED <<counter, call, linked, locks, numbers, lost, skewed>>

CallStep(c) ==
  \/ Link(c) \/ LockRow(c) \/ (\E h \in Hosts : Draw(c, h))
  \/ InsertDocument(c) \/ InsertFails(c) \/ ReadNet(c) \/ Expire(c)

NumberingNext ==
  (\E c \in Callers : BeginCall(c) \/ CallStep(c)) \/ (\E h \in Hosts : NewYear(h))

-----------------------------------------------------------------------------
NumberingTypeOK ==
  /\ counter.next \in 1 .. MaxDraws + 1 /\ counter.scope \in 1 .. LastYear
  /\ year \in [Hosts -> 1 .. LastYear]
  /\ linked = {c \in Callers : call[c].at \in {"lock", "draw", "net"}}
  /\ \A r \in DOMAIN locks : locks[r] # None =>
       call[locks[r]].row = r /\ call[locks[r]].at \in {"draw", "net"}
  /\ Cardinality(linked) <= Connections

Pending == {call[c].number : c \in {d \in Callers : call[d].at = "insert"}}

\* A gap in the numbers of a year is a document that failed to be stored, or is being stored.
GapsExplained ==
  skewed \/ \A n \in 1 .. counter.next - 1 :
    <<counter.scope, n>> \in numbers \union lost \union Pending

\* However many hosts and requests draw, no number is drawn twice, unless a host whose clock is
\* still in the old year has set the count back ("guarantee uniqueness under concurrent
\* requests", sequence.service.ts:9-10), and none is left out without a failure.
NumbersFresh ==
  [][/\ GapsExplained'
     /\ \A c \in Callers : call[c].at = "draw" /\ call'[c].at = "insert" =>
          skewed' \/ call'[c].number \notin numbers \union lost \union Pending]_numberVars

\* A request that waits for a connection or a lock is answered: requests that hold every
\* connection while each asks for one more do not wait for ever.
CallsEnd == \A c \in Callers : call[c].at # "idle" ~> call[c].at = "idle"
=============================================================================
