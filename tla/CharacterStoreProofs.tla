------------------------ MODULE CharacterStoreProofs ------------------------
(***************************************************************************)
(* The character stores, for every number of handlers, accounts and names. *)
(* What a step does to the tables and the statements on their way is       *)
(* stated once (Effects); the invariants of the tables, what clients were  *)
(* told of them and the refinement of CharacterTable are taken from that.  *)
(***************************************************************************)
EXTENDS CharacterStore, FiniteSetTheorems, Integers, TLAPS

New(a, n) == [id |-> nextId, owner |-> a, name |-> n]

(* An INSERT that was counted for commits. *)
RowAdded == \E x \in Senders, a \in Accounts, n \in ValidNames :
    /\ job[x] # NoJob /\ job[x].kind = "insert" /\ job[x].account = a
    /\ job' = [job EXCEPT ![x] = NoJob]
    /\ \A c \in rows : c.name # n
    /\ nextId <= MaxId /\ nextId' = nextId + 1
    /\ rows' = rows \cup {New(a, n)} /\ memory' = memory

MemoryAdded == \E a \in Subjects, n \in ValidNames :
    /\ \A c \in memory : Fold[c.name] # Fold[n]
    /\ Cardinality(Owned(memory, a)) < MaxCharacters
    /\ nextId <= MaxId /\ nextId' = nextId + 1
    /\ memory' = memory \cup {New(a, n)} /\ rows' = rows /\ job' = job

(* A DELETE commits. *)
RowDeleted == \E x \in Senders, c \in rows :
    /\ job[x] # NoJob /\ job[x].kind = "delete"
    /\ c.id = job[x].id /\ c.owner = job[x].account
    /\ job' = [job EXCEPT ![x] = NoJob]
    /\ rows' = rows \ {c} /\ memory' = memory /\ nextId' = nextId

MemoryDeleted == \E c \in memory :
    memory' = memory \ {c} /\ rows' = rows /\ nextId' = nextId /\ job' = job

(* A worker counts and sends an INSERT. *)
Counted == \E w \in Workers, a \in Accounts, n \in ValidNames :
    /\ Cardinality(Owned(rows, a)) < MaxCharacters
    /\ job' = [job EXCEPT ![w] = [kind |-> "insert", account |-> a, name |-> n]]
    /\ rows' = rows /\ memory' = memory /\ nextId' = nextId

DeleteSent == \E w \in Workers, a \in Accounts, i \in 1 .. MaxId :
    /\ job' = [job EXCEPT ![w] = [kind |-> "delete", account |-> a, id |-> i]]
    /\ rows' = rows /\ memory' = memory /\ nextId' = nextId

(* A statement is set adrift. *)
Moved == \E w \in Workers, x \in Adrift :
    /\ job[w] # NoJob /\ job[x] = NoJob
    /\ job' = [job EXCEPT ![x] = job[w], ![w] = NoJob]
    /\ rows' = rows /\ memory' = memory /\ nextId' = nextId

(* No table changes, unless memory is lost, and no statement becomes due. *)
Quiet ==
    /\ rows' = rows /\ nextId' = nextId
    /\ memory' = memory \/ memory' = {}
    /\ \A x \in Senders : job'[x] = job[x] \/ job'[x] = NoJob

Effect ==
    \/ RowAdded \/ MemoryAdded \/ RowDeleted \/ MemoryDeleted
    \/ Counted \/ DeleteSent \/ Moved \/ Quiet
------------------------------------------------------------------------------
(* Who sends statements, and of what kinds they are. *)
LEMMA JobTypes ==
    ASSUME TypeOK
    PROVE  /\ job \in [Senders -> Statements \cup {NoJob}]
           /\ Workers \subseteq Senders /\ Adrift \subseteq Senders
           /\ Workers \cap Adrift = {}
           /\ \A x \in Senders : job[x] # NoJob =>
                /\ job[x] \in Statements /\ job[x].account \in Accounts
                /\ job[x].kind \in {"insert", "delete"}
                /\ job[x].kind = "insert" => job[x].name \in ValidNames
                /\ job[x].kind = "delete" => job[x].id \in 1 .. MaxId
  <1>1. /\ job \in [Senders -> Statements \cup {NoJob}]
        /\ Workers \subseteq Senders /\ Adrift \subseteq Senders
        /\ Workers \cap Adrift = {}
    BY WorkersAssumption DEF TypeOK, Workers, Senders
  <1>2. \A s \in Statements :
          /\ s.account \in Accounts /\ s.kind \in {"insert", "delete"}
          /\ s.kind = "insert" => s.name \in ValidNames
          /\ s.kind = "delete" => s.id \in 1 .. MaxId
    BY DEF Statements
  <1> QED
    BY <1>1, <1>2

(* A deletion takes one character out of a table. *)
LEMMA FoundOne ==
    ASSUME IInv, NEW x \in Senders, NEW a, NEW i, Found(x, a, i) # {}
    PROVE  \E c \in Stored(x) : c.id = i /\ c.owner = a /\ Found(x, a, i) = {c}
  <1>1. PICK c \in Found(x, a, i) : TRUE
    OBVIOUS
  <1>2. c \in Stored(x) /\ c.id = i /\ c.owner = a
    BY <1>1 DEF Found
  <1>3. \A d \in Found(x, a, i) : d \in Stored(x) /\ d.id = i
    BY DEF Found
  <1>4. \A d \in Stored(x) : d.id = c.id => d = c
    BY <1>2 DEF IInv, IdsFresh, Stored
  <1> QED
    BY <1>1, <1>2, <1>3, <1>4

(* A statement on its way is for the database. *)
LEMMA JobOnDatabase ==
    ASSUME IInv, NEW x \in Senders, job[x] # NoJob
    PROVE  OnDatabase(x)
  <1>1. CASE x \in Workers
    BY <1>1 DEF IInv, JobShape
  <1>2. CASE x \notin Workers
    BY <1>2 DEF OnDatabase, Workers
  <1> QED
    BY <1>1, <1>2

(* Every step has one of these effects. *)
LEMMA Effects ==
    ASSUME IInv, [Next]_vars
    PROVE  Effect
  <1>t. TypeOK /\ job \in [Senders -> Statements \cup {NoJob}] /\ Workers \subseteq Senders
    BY JobTypes DEF IInv
  <1>1. CASE UNCHANGED vars
    BY <1>1 DEF vars, tables, Effect, Quiet
  <1>2. ASSUME NEW a \in Accounts, Register(a)
        PROVE  Effect
    BY <1>2 DEF Register, tables, Effect, Quiet
  <1>3. ASSUME NEW g \in Gateways, Connect(g) \/ Disconnect(g)
        PROVE  Effect
    BY <1>3 DEF Connect, Disconnect, tables, Effect, Quiet
  <1>4. CASE Restart
    BY <1>4 DEF Restart, Effect, Quiet
  <1>5. ASSUME NEW x \in Senders, InsertRow(x)
        PROVE  Effect
    <2> DEFINE a == job[x].account
               n == job[x].name
    <2>1. /\ job[x] # NoJob /\ job[x].kind = "insert"
          /\ job' = [job EXCEPT ![x] = NoJob] /\ Insert(x, a, n)
      BY <1>5 DEF InsertRow
    <2>2. a \in Accounts /\ n \in ValidNames
      BY <1>t, <2>1, JobTypes
    <2>3. OnDatabase(x)
      BY <2>1, JobOnDatabase
    <2>4. \A c \in rows : c.name # n
      BY <2>1, <2>3 DEF Insert, NameTaken, Stored
    <2>5. /\ nextId <= MaxId /\ nextId' = nextId + 1
          /\ rows' = rows \cup {New(a, n)} /\ memory' = memory
      BY <2>1, <2>3 DEF Insert, Update, Stored, New
    <2>6. RowAdded
      BY <2>1, <2>2, <2>4, <2>5 DEF RowAdded
    <2> QED
      BY <2>6 DEF Effect
  <1>6. ASSUME NEW x \in Senders, DeleteRow(x)
        PROVE  Effect
    <2> DEFINE a == job[x].account
               i == job[x].id
    <2>1. /\ job[x] # NoJob /\ job[x].kind = "delete"
          /\ job' = [job EXCEPT ![x] = NoJob] /\ Remove(x, a, i)
      BY <1>6 DEF DeleteRow
    <2>2. OnDatabase(x)
      BY <2>1, JobOnDatabase
    <2>3. PICK c \in Stored(x) : c.id = i /\ c.owner = a /\ Found(x, a, i) = {c}
      BY <2>1, FoundOne DEF Remove
    <2>4. c \in rows /\ rows' = rows \ {c} /\ memory' = memory /\ nextId' = nextId
      BY <2>1, <2>2, <2>3 DEF Remove, Update, Stored
    <2>5. RowDeleted
      BY <2>1, <2>3, <2>4 DEF RowDeleted
    <2> QED
      BY <2>5 DEF Effect
  <1>7. ASSUME NEW x \in Senders, StatementFails(x)
        PROVE  Effect
    BY <1>t, <1>7 DEF StatementFails, tables, Effect, Quiet
  <1>8. ASSUME NEW w \in Workers, NEW x \in Adrift, GiveUp(w, x)
        PROVE  Effect
    BY <1>8 DEF GiveUp, tables, Effect, Moved
  <1>9. ASSUME NEW w \in Workers, Reply(w) \/ ReplyLost(w)
        PROVE  Effect
    BY <1>9 DEF Reply, ReplyLost, tables, Effect, Quiet
  <1>10. ASSUME NEW w \in Workers, NEW a \in Subjects, NEW n \in Names, CreateInMemory(w, a, n)
         PROVE  Effect
    <2>1. ~OnDatabase(w) /\ n \in ValidNames /\ Room(w, a) /\ Insert(w, a, n) /\ job' = job
      BY <1>10 DEF CreateInMemory
    <2>2. MemoryAdded
      BY <2>1 DEF MemoryAdded, Room, Insert, NameTaken, Update, Stored, New
    <2> QED
      BY <2>2 DEF Effect
  <1>11. ASSUME NEW w \in Workers, NEW a \in Subjects, NEW n \in Names, CountRows(w, a, n)
         PROVE  Effect
    <2>1. /\ OnDatabase(w) /\ a \in Accounts /\ n \in ValidNames /\ Room(w, a)
          /\ job' = [job EXCEPT ![w] = [kind |-> "insert", account |-> a, name |-> n]]
          /\ rows' = rows /\ memory' = memory /\ nextId' = nextId
      BY <1>11 DEF CountRows, Reachable, tables
    <2>2. Counted
      BY <2>1 DEF Counted, Room, Stored
    <2> QED
      BY <2>2 DEF Effect
  <1>12. ASSUME NEW w \in Workers, NEW a \in Subjects, NEW i \in 1 .. MaxId, DeleteInMemory(w, a, i)
         PROVE  Effect
    <2>1. ~OnDatabase(w) /\ Remove(w, a, i) /\ job' = job
      BY <1>12 DEF DeleteInMemory
    <2>2. PICK c \in Stored(w) : Found(w, a, i) = {c}
      BY <1>t, <2>1, FoundOne DEF Remove
    <2>3. MemoryDeleted
      BY <2>1, <2>2 DEF Remove, Update, Stored, MemoryDeleted
    <2> QED
      BY <2>3 DEF Effect
  <1>13. ASSUME NEW w \in Workers, NEW a \in Subjects, NEW i \in 1 .. MaxId, SendDelete(w, a, i)
         PROVE  Effect
    <2>1. DeleteSent
      BY <1>13 DEF SendDelete, Reachable, tables, DeleteSent
    <2> QED
      BY <2>1 DEF Effect
  <1>14. ASSUME NEW w \in Workers, NEW a \in Subjects, List(w, a) \/ Fails(w, a)
         PROVE  Effect
    BY <1>14 DEF List, Fails, tables, Effect, Quiet
  <1>15. ASSUME NEW w \in Workers, NEW a \in Subjects, NEW i \in 1 .. MaxId,
                SelectCharacter(w, a, i) \/ GetCharacter(w, a, i)
         PROVE  Effect
    BY <1>15 DEF SelectCharacter, GetCharacter, tables, Effect, Quiet
  <1> QED
    BY <1>1, <1>2, <1>3, <1>4, <1>5, <1>6, <1>7, <1>8, <1>9, <1>10, <1>11, <1>12, <1>13,
       <1>14, <1>15 DEF Next
------------------------------------------------------------------------------
(* The types.                                                              *)

(* The initial state has the types, and nobody acts yet. *)
LEMMA InitTypes == Init => TypeOK /\ JobShape /\ AccountsApart /\ AcknowledgedHolds /\ ClaimsHold
  BY AccountsAssumption, LimitAssumption, WorkersAssumption, FS_EmptySet
     DEF Init, TypeOK, JobShape, AccountsApart, AcknowledgedHolds, ClaimsHold, Claims,
         Subjects, Words, Senders

(* The tables stay finite sets of characters. *)
LEMMA TableTypes ==
    ASSUME TypeOK, Effect
    PROVE  /\ rows' \subseteq Characters /\ IsFiniteSet(rows')
           /\ memory' \subseteq Characters /\ IsFiniteSet(memory')
           /\ nextId' \in 1 .. MaxId + 1
  <1>1. /\ rows \subseteq Characters /\ IsFiniteSet(rows)
        /\ memory \subseteq Characters /\ IsFiniteSet(memory)
        /\ nextId \in 1 .. MaxId + 1 /\ MaxId \in Nat
    BY LimitAssumption DEF TypeOK
  <1>2. CASE RowAdded
    <2>1. PICK a \in Accounts, n \in ValidNames :
            /\ nextId <= MaxId /\ nextId' = nextId + 1
            /\ rows' = rows \cup {New(a, n)} /\ memory' = memory
      BY <1>2 DEF RowAdded
    <2>2. New(a, n) \in Characters
      BY <1>1, <2>1 DEF New, Characters, Subjects
    <2> QED
      BY <1>1, <2>1, <2>2, FS_AddElement
  <1>3. CASE MemoryAdded
    <2>1. PICK a \in Subjects, n \in ValidNames :
            /\ nextId <= MaxId /\ nextId' = nextId + 1
            /\ memory' = memory \cup {New(a, n)} /\ rows' = rows /\ job' = job
      BY <1>3 DEF MemoryAdded
    <2>2. New(a, n) \in Characters
      BY <1>1, <2>1 DEF New, Characters
    <2> QED
      BY <1>1, <2>1, <2>2, FS_AddElement
  <1>4. CASE RowDeleted
    BY <1>1, <1>4, FS_RemoveElement DEF RowDeleted
  <1>5. CASE MemoryDeleted
    BY <1>1, <1>5, FS_RemoveElement DEF MemoryDeleted
  <1>6. CASE Counted \/ DeleteSent \/ Moved
    BY <1>1, <1>6 DEF Counted, DeleteSent, Moved
  <1>7. CASE Quiet
    BY <1>1, <1>7, FS_EmptySet DEF Quiet
  <1> QED
    BY <1>2, <1>3, <1>4, <1>5, <1>6, <1>7 DEF Effect

(* What an answer tells about is made of characters, and one's own. *)
LEMMA FoundCharacters ==
    ASSUME TypeOK, NEW x \in Senders, NEW a, NEW i
    PROVE  /\ Found(x, a, i) \subseteq Characters
           /\ Owned(Stored(x), a) \subseteq Characters
           /\ \A c \in Found(x, a, i) \cup Owned(Stored(x), a) : c.owner = a
  BY DEF TypeOK, Stored, Found, Owned

(* A report has its type, whoever made it. *)
LEMMA DoneTypes ==
    ASSUME outcome \in [Workers -> Answers \cup {NoAnswer}],
           NEW x, NEW kind \in Kinds, NEW a \in Subjects, NEW cs \in SUBSET Characters,
           Done(x, kind, a, cs)
    PROVE  outcome' \in [Workers -> Answers \cup {NoAnswer}]
  <1>1. x \in Workers => Report(x, kind, a, cs) \in Answers
    BY DEF Report, Answers
  <1> QED
    BY <1>1 DEF Done

(* The variables beside the tables keep their types. *)
LEMMA OtherTypes ==
    ASSUME IInv, [Next]_vars
    PROVE  /\ backend' \in {"database", "memory"}
           /\ devAuth' \in BOOLEAN
           /\ registered' \subseteq Accounts
           /\ online' \in [Gateways -> Subjects \cup {NoAccount}]
           /\ job' \in [Senders -> Statements \cup {NoJob}]
           /\ outcome' \in [Workers -> Answers \cup {NoAnswer}]
           /\ play' \in [Gateways -> Characters \cup {NoCharacter}]
           /\ word' \in [1 .. MaxId -> Words]
  <1>t. /\ TypeOK /\ backend \in {"database", "memory"}
        /\ devAuth \in BOOLEAN
        /\ registered \subseteq Accounts
        /\ online \in [Gateways -> Subjects \cup {NoAccount}]
        /\ job \in [Senders -> Statements \cup {NoJob}]
        /\ outcome \in [Workers -> Answers \cup {NoAnswer}]
        /\ play \in [Gateways -> Characters \cup {NoCharacter}]
        /\ word \in [1 .. MaxId -> Words]
        /\ {"read", "created", "deleted", "failed"} \subseteq Kinds
        /\ Workers \subseteq Senders /\ Accounts \subseteq Subjects
    BY JobTypes DEF IInv, TypeOK, Kinds, Subjects
  <1>1. CASE UNCHANGED vars
    BY <1>1, <1>t DEF vars, people
  <1>2. ASSUME NEW a \in Accounts, Register(a)
        PROVE  /\ registered' \subseteq Accounts
               /\ UNCHANGED <<backend, devAuth, online, job, outcome, play, word>>
    BY <1>2, <1>t DEF Register
  <1>3. ASSUME NEW g \in Gateways, Connect(g) \/ Disconnect(g)
        PROVE  /\ online' \in [Gateways -> Subjects \cup {NoAccount}]
               /\ play' \in [Gateways -> Characters \cup {NoCharacter}]
               /\ UNCHANGED <<backend, devAuth, registered, job, outcome, word>>
    BY <1>3, <1>t DEF Connect, Disconnect, people
  <1>4. CASE Restart
    BY <1>4, <1>t DEF Restart
  <1>n. ASSUME NEW a \in Subjects, NEW n \in ValidNames, nextId <= MaxId
        PROVE  New(a, n) \in Characters
    BY <1>n, LimitAssumption DEF New, Characters, IInv, TypeOK
  <1>5. ASSUME NEW x \in Senders, InsertRow(x)
        PROVE  /\ job' \in [Senders -> Statements \cup {NoJob}]
               /\ outcome' \in [Workers -> Answers \cup {NoAnswer}]
               /\ UNCHANGED <<backend, devAuth, registered, online, play, word>>
    <2> DEFINE a == job[x].account
               n == job[x].name
    <2>1. /\ job[x] # NoJob /\ job[x].kind = "insert" /\ job' = [job EXCEPT ![x] = NoJob]
          /\ nextId <= MaxId /\ Done(x, "created", a, {New(a, n)})
          /\ UNCHANGED <<backend, devAuth, registered, online, play, word>>
      BY <1>5 DEF InsertRow, Insert, New, people
    <2>2. a \in Accounts /\ n \in ValidNames
      BY <1>t, <2>1, JobTypes
    <2>3. {New(a, n)} \in SUBSET Characters
      BY <1>n, <1>t, <2>1, <2>2
    <2>4. outcome' \in [Workers -> Answers \cup {NoAnswer}]
      BY <1>t, <2>1, <2>2, <2>3, DoneTypes
    <2> QED
      BY <1>t, <2>1, <2>4
  <1>6. ASSUME NEW x \in Senders, DeleteRow(x)
        PROVE  /\ job' \in [Senders -> Statements \cup {NoJob}]
               /\ outcome' \in [Workers -> Answers \cup {NoAnswer}]
               /\ UNCHANGED <<backend, devAuth, registered, online, play, word>>
    <2> DEFINE a == job[x].account
               cs == Found(x, a, job[x].id)
    <2>1. /\ job[x] # NoJob /\ job' = [job EXCEPT ![x] = NoJob]
          /\ Done(x, "deleted", a, cs)
          /\ UNCHANGED <<backend, devAuth, registered, online, play, word>>
      BY <1>6 DEF DeleteRow, Remove, people
    <2>2. a \in Subjects /\ cs \in SUBSET Characters
      BY <1>t, <2>1, JobTypes, FoundCharacters
    <2>3. outcome' \in [Workers -> Answers \cup {NoAnswer}]
      BY <1>t, <2>1, <2>2, DoneTypes
    <2> QED
      BY <1>t, <2>1, <2>3
  <1>7. ASSUME NEW x \in Senders, StatementFails(x)
        PROVE  /\ job' \in [Senders -> Statements \cup {NoJob}]
               /\ outcome' \in [Workers -> Answers \cup {NoAnswer}]
               /\ UNCHANGED <<backend, devAuth, registered, online, play, word>>
    <2>1. /\ job[x] # NoJob /\ job' = [job EXCEPT ![x] = NoJob]
          /\ Done(x, "failed", job[x].account, {})
          /\ UNCHANGED <<backend, devAuth, registered, online, play, word>>
      BY <1>7 DEF StatementFails, people
    <2>2. job[x].account \in Subjects
      BY <1>t, <2>1, JobTypes
    <2>3. outcome' \in [Workers -> Answers \cup {NoAnswer}]
      BY <1>t, <2>1, <2>2, DoneTypes
    <2> QED
      BY <1>t, <2>1, <2>3
  <1>8. ASSUME NEW w \in Workers, NEW x \in Adrift, GiveUp(w, x)
        PROVE  /\ job' \in [Senders -> Statements \cup {NoJob}]
               /\ outcome' \in [Workers -> Answers \cup {NoAnswer}]
               /\ UNCHANGED <<backend, devAuth, registered, online, play, word>>
    <2>1. /\ job[w] # NoJob /\ job' = [job EXCEPT ![x] = job[w], ![w] = NoJob]
          /\ Done(w, "failed", job[w].account, {})
          /\ UNCHANGED <<backend, devAuth, registered, online, play, word>>
      BY <1>8 DEF GiveUp, people
    <2>2. job[w].account \in Subjects /\ job[w] \in Statements /\ x \in Senders
      BY <1>t, <2>1, JobTypes
    <2>3. outcome' \in [Workers -> Answers \cup {NoAnswer}]
      BY <1>t, <2>1, <2>2, DoneTypes
    <2> QED
      BY <1>t, <2>1, <2>2, <2>3
  <1>9. ASSUME NEW w \in Workers, Reply(w)
        PROVE  /\ outcome' \in [Workers -> Answers \cup {NoAnswer}]
               /\ word' \in [1 .. MaxId -> Words]
               /\ UNCHANGED <<backend, devAuth, registered, online, job, play>>
    BY <1>9, <1>t DEF Reply, people, Words
  <1>10. ASSUME NEW w \in Workers, ReplyLost(w)
         PROVE  /\ outcome' \in [Workers -> Answers \cup {NoAnswer}]
                /\ UNCHANGED <<backend, devAuth, registered, online, job, play, word>>
    BY <1>10, <1>t DEF ReplyLost, people
  <1>11. ASSUME NEW w \in Workers, NEW a \in Subjects, NEW n \in Names, CreateInMemory(w, a, n)
         PROVE  /\ outcome' \in [Workers -> Answers \cup {NoAnswer}]
                /\ UNCHANGED <<backend, devAuth, registered, online, job, play, word>>
    <2>1. /\ n \in ValidNames /\ nextId <= MaxId /\ Done(w, "created", a, {New(a, n)})
          /\ UNCHANGED <<backend, devAuth, registered, online, job, play, word>>
      BY <1>11 DEF CreateInMemory, Insert, New, people
    <2>2. {New(a, n)} \in SUBSET Characters
      BY <1>n, <2>1
    <2> QED
      BY <1>t, <2>1, <2>2, DoneTypes
  <1>12. ASSUME NEW w \in Workers, NEW a \in Subjects, NEW n \in Names, CountRows(w, a, n)
         PROVE  /\ job' \in [Senders -> Statements \cup {NoJob}]
                /\ UNCHANGED <<backend, devAuth, registered, online, outcome, play, word>>
    <2>1. [kind |-> "insert", account |-> a, name |-> n] \in Statements
      BY <1>12 DEF CountRows, Reachable, Statements
    <2> QED
      BY <1>12, <1>t, <2>1 DEF CountRows, people
  <1>13. ASSUME NEW w \in Workers, NEW a \in Subjects, NEW i \in 1 .. MaxId, SendDelete(w, a, i)
         PROVE  /\ job' \in [Senders -> Statements \cup {NoJob}]
                /\ word' \in [1 .. MaxId -> Words]
                /\ UNCHANGED <<backend, devAuth, registered, online, outcome, play>>
    <2>1. [kind |-> "delete", account |-> a, id |-> i] \in Statements
      BY <1>13 DEF SendDelete, Reachable, Statements
    <2> QED
      BY <1>13, <1>t, <2>1 DEF SendDelete, people, Words
  <1>14. ASSUME NEW w \in Workers, NEW a \in Subjects, NEW i \in 1 .. MaxId,
                DeleteInMemory(w, a, i) \/ GetCharacter(w, a, i)
         PROVE  /\ outcome' \in [Workers -> Answers \cup {NoAnswer}]
                /\ UNCHANGED <<backend, devAuth, registered, online, job, play, word>>
    <2>1. /\ \E k \in Kinds : Done(w, k, a, Found(w, a, i))
          /\ UNCHANGED <<backend, devAuth, registered, online, job, play, word>>
      BY <1>14, <1>t DEF DeleteInMemory, Remove, GetCharacter, people
    <2>2. Found(w, a, i) \in SUBSET Characters
      BY <1>t, FoundCharacters
    <2> QED
      BY <1>t, <2>1, <2>2, DoneTypes
  <1>15. ASSUME NEW w \in Workers, NEW a \in Subjects, List(w, a) \/ Fails(w, a)
         PROVE  /\ outcome' \in [Workers -> Answers \cup {NoAnswer}]
                /\ UNCHANGED <<backend, devAuth, registered, online, job, play, word>>
    <2>1. /\ \E k \in Kinds : Done(w, k, a, Owned(Stored(w), a)) \/ Done(w, k, a, {})
          /\ UNCHANGED <<backend, devAuth, registered, online, job, play, word>>
      BY <1>15, <1>t DEF List, Fails, people
    <2>2. Owned(Stored(w), a) \in SUBSET Characters
      BY <1>t, FoundCharacters
    <2> QED
      BY <1>t, <2>1, <2>2, DoneTypes
  <1>16. ASSUME NEW w \in Workers, NEW a \in Subjects, NEW i \in 1 .. MaxId, SelectCharacter(w, a, i)
         PROVE  /\ play' \in [Gateways -> Characters \cup {NoCharacter}]
                /\ UNCHANGED <<backend, devAuth, registered, online, job, outcome, word>>
    BY <1>16, <1>t, FoundCharacters DEF SelectCharacter, people
  <1> QED
    BY <1>t, <1>1, <1>2, <1>3, <1>4, <1>5, <1>6, <1>7, <1>8, <1>9, <1>10, <1>11, <1>12,
       <1>13, <1>14, <1>15, <1>16 DEF Next
------------------------------------------------------------------------------
(* Accounts and jobs.                                                      *)

(* A report of the account's own characters, by one who acts for the       *)
(* account and waits for nothing, leaves accounts apart.                   *)
LEMMA DoneApart ==
    ASSUME IInv, NEW x \in Senders, NEW kind, NEW a, NEW cs, Done(x, kind, a, cs),
           \A c \in cs : c.owner = a,
           x \in Gateways => online[x] = a,
           x \in Workers => job'[x] = NoJob,
           \A w \in Workers : job'[w] = job[w] \/ job'[w] = NoJob,
           UNCHANGED <<backend, online, play>>
    PROVE  AccountsApart' /\ JobShape'
  <1>1. AccountsApart /\ JobShape
    BY DEF IInv
  <1>2. \A w \in Workers : outcome'[w] = IF w = x THEN Report(x, kind, a, cs) ELSE outcome[w]
    BY DEF Done
  <1>3. /\ Report(x, kind, a, cs).worker = x /\ Report(x, kind, a, cs).account = a
        /\ Report(x, kind, a, cs).characters = cs
    BY DEF Report
  <1>4. AccountsApart'
    BY <1>1, <1>2, <1>3 DEF AccountsApart
  <1>5. JobShape'
    BY <1>1, <1>2 DEF JobShape, OnDatabase
  <1> QED
    BY <1>4, <1>5

(* Whatever a step tells or plays is the account's of the one who acts. *)
LEMMA AccountsStep ==
    ASSUME IInv, [Next]_vars
    PROVE  AccountsApart' /\ JobShape'
  <1>t. /\ TypeOK /\ AccountsApart /\ JobShape
        /\ online \in [Gateways -> Subjects \cup {NoAccount}]
        /\ job \in [Senders -> Statements \cup {NoJob}]
        /\ outcome \in [Workers -> Answers \cup {NoAnswer}]
        /\ play \in [Gateways -> Characters \cup {NoCharacter}]
        /\ NoAccount \notin Subjects /\ Gateways \cap Requests = {}
        /\ Workers = Gateways \cup Requests /\ Workers \subseteq Senders
        /\ Adrift \subseteq Senders /\ Workers \cap Adrift = {}
    BY JobTypes, AccountsAssumption, WorkersAssumption DEF IInv, TypeOK, Subjects, Workers
  <1>s. \A w \in Workers, a \in Subjects : Serves(w, a) =>
            /\ job[w] = NoJob /\ outcome[w] = NoAnswer
            /\ w \in Gateways => online[w] = a /\ play[w] = NoCharacter
    BY <1>t DEF Serves, Busy
  <1>j. \A w \in Workers : job[w] # NoJob => (w \in Gateways => online[w] = job[w].account)
    BY <1>t DEF JobShape
  <1>1. CASE UNCHANGED vars
    BY <1>1, <1>t DEF vars, AccountsApart, JobShape, OnDatabase
  <1>2. ASSUME NEW a \in Accounts, Register(a)
        PROVE  AccountsApart' /\ JobShape'
    BY <1>2, <1>t DEF Register, AccountsApart, JobShape, OnDatabase
  <1>3. ASSUME NEW g \in Gateways, Connect(g)
        PROVE  AccountsApart' /\ JobShape'
    <2>1. /\ online[g] = NoAccount
          /\ \A h \in Gateways \ {g} : online'[h] = online[h]
          /\ UNCHANGED <<backend, job, outcome, play>>
      BY <1>3, <1>t DEF Connect
    <2>2. play[g] = NoCharacter
      <3>1. play[g] # NoCharacter => play[g].owner \in Subjects
        BY <1>t DEF Characters
      <3> QED
        BY <3>1, <2>1, <1>t DEF AccountsApart
    <2>3. job[g] = NoJob
      <3>1. job[g] # NoJob => job[g].account \in Subjects
        BY <1>t, JobTypes DEF Subjects
      <3> QED
        BY <3>1, <2>1, <1>t DEF JobShape
    <2>4. outcome[g] = NoAnswer
      <3>1. outcome[g] # NoAnswer => outcome[g].account \in Subjects
        BY <1>t DEF Answers
      <3> QED
        BY <3>1, <2>1, <1>t DEF AccountsApart
    <2> QED
      BY <1>t, <2>1, <2>2, <2>3, <2>4 DEF AccountsApart, JobShape, OnDatabase
  <1>4. ASSUME NEW g \in Gateways, Disconnect(g)
        PROVE  AccountsApart' /\ JobShape'
    <2>1. /\ job[g] = NoJob /\ outcome[g] = NoAnswer /\ play'[g] = NoCharacter
          /\ \A h \in Gateways \ {g} : online'[h] = online[h] /\ play'[h] = play[h]
          /\ UNCHANGED <<backend, job, outcome>>
      BY <1>4, <1>t DEF Disconnect
    <2> QED
      BY <1>t, <2>1 DEF AccountsApart, JobShape, OnDatabase
  <1>5. CASE Restart
    <2>1. /\ \A g \in Gateways : play'[g] = NoCharacter
          /\ \A w \in Workers : w \in Gateways => job'[w] = NoJob /\ outcome'[w] = NoAnswer
          /\ \A w \in Workers : w \notin Gateways => job'[w] = job[w] /\ outcome'[w] = outcome[w]
      BY <1>5, <1>t DEF Restart
    <2> QED
      BY <1>t, <2>1 DEF AccountsApart, JobShape, OnDatabase
  <1>6. ASSUME NEW x \in Senders, InsertRow(x)
        PROVE  AccountsApart' /\ JobShape'
    <2> DEFINE a == job[x].account
               cs == {New(a, job[x].name)}
    <2>1. /\ job[x] # NoJob /\ job' = [job EXCEPT ![x] = NoJob] /\ Done(x, "created", a, cs)
          /\ UNCHANGED <<backend, online, play>>
      BY <1>6 DEF InsertRow, Insert, New
    <2>2. \A c \in cs : c.owner = a
      BY DEF New
    <2> QED
      BY <1>t, <1>j, <2>1, <2>2, DoneApart
  <1>7. ASSUME NEW x \in Senders, DeleteRow(x)
        PROVE  AccountsApart' /\ JobShape'
    <2> DEFINE a == job[x].account
               cs == Found(x, a, job[x].id)
    <2>1. /\ job[x] # NoJob /\ job' = [job EXCEPT ![x] = NoJob] /\ Done(x, "deleted", a, cs)
          /\ UNCHANGED <<backend, online, play>>
      BY <1>7 DEF DeleteRow, Remove
    <2>2. \A c \in cs : c.owner = a
      BY DEF Found
    <2> QED
      BY <1>t, <1>j, <2>1, <2>2, DoneApart
  <1>8. ASSUME NEW x \in Senders, StatementFails(x)
        PROVE  AccountsApart' /\ JobShape'
    <2>1. /\ job[x] # NoJob /\ job' = [job EXCEPT ![x] = NoJob]
          /\ Done(x, "failed", job[x].account, {})
          /\ UNCHANGED <<backend, online, play>>
      BY <1>8 DEF StatementFails
    <2> QED
      BY <1>t, <1>j, <2>1, DoneApart
  <1>9. ASSUME NEW w \in Workers, NEW x \in Adrift, GiveUp(w, x)
        PROVE  AccountsApart' /\ JobShape'
    <2>1. /\ job[w] # NoJob /\ job'[w] = NoJob /\ \A v \in Workers \ {w} : job'[v] = job[v]
          /\ Done(w, "failed", job[w].account, {})
          /\ UNCHANGED <<backend, online, play>>
      BY <1>9, <1>t DEF GiveUp
    <2> QED
      BY <1>t, <1>j, <2>1, DoneApart
  <1>10. ASSUME NEW w \in Workers, Reply(w) \/ ReplyLost(w)
         PROVE  AccountsApart' /\ JobShape'
    <2>1. /\ outcome'[w] = NoAnswer /\ \A v \in Workers \ {w} : outcome'[v] = outcome[v]
          /\ UNCHANGED <<backend, online, job, play>>
      BY <1>10, <1>t DEF Reply, ReplyLost
    <2> QED
      BY <1>t, <2>1 DEF AccountsApart, JobShape, OnDatabase
  <1>11. ASSUME NEW w \in Workers, NEW a \in Subjects, NEW n \in Names, CountRows(w, a, n)
         PROVE  AccountsApart' /\ JobShape'
    <2>1. /\ Serves(w, a) /\ OnDatabase(w)
          /\ UNCHANGED <<backend, online, outcome, play>>
          /\ job'[w] = [kind |-> "insert", account |-> a, name |-> n]
          /\ \A v \in Workers \ {w} : job'[v] = job[v]
      BY <1>11, <1>t DEF CountRows
    <2> QED
      BY <1>t, <1>s, <2>1 DEF AccountsApart, JobShape, OnDatabase
  <1>12. ASSUME NEW w \in Workers, NEW a \in Subjects, NEW i \in 1 .. MaxId, SendDelete(w, a, i)
         PROVE  AccountsApart' /\ JobShape'
    <2>1. /\ Serves(w, a) /\ OnDatabase(w)
          /\ UNCHANGED <<backend, online, outcome, play>>
          /\ job'[w] = [kind |-> "delete", account |-> a, id |-> i]
          /\ \A v \in Workers \ {w} : job'[v] = job[v]
      BY <1>12, <1>t DEF SendDelete
    <2> QED
      BY <1>t, <1>s, <2>1 DEF AccountsApart, JobShape, OnDatabase
  <1>13. ASSUME NEW w \in Workers, NEW a \in Subjects, NEW cs, NEW k,
                Serves(w, a), \A c \in cs : c.owner = a, Done(w, k, a, cs),
                UNCHANGED <<backend, online, job, play>>
         PROVE  AccountsApart' /\ JobShape'
    BY <1>13, <1>t, <1>s, DoneApart
  <1>14. ASSUME NEW w \in Workers, NEW a \in Subjects, NEW n \in Names, CreateInMemory(w, a, n)
         PROVE  AccountsApart' /\ JobShape'
    <2>1. /\ Serves(w, a) /\ UNCHANGED <<backend, online, job, play>>
          /\ Done(w, "created", a, {New(a, n)})
      BY <1>14 DEF CreateInMemory, Insert, New
    <2>2. \A c \in {New(a, n)} : c.owner = a
      BY DEF New
    <2> QED
      BY <1>13, <2>1, <2>2
  <1>15. ASSUME NEW w \in Workers, NEW a \in Subjects, NEW i \in 1 .. MaxId,
                DeleteInMemory(w, a, i) \/ GetCharacter(w, a, i)
         PROVE  AccountsApart' /\ JobShape'
    <2>1. /\ Serves(w, a) /\ UNCHANGED <<backend, online, job, play>>
          /\ Done(w, "deleted", a, Found(w, a, i)) \/ Done(w, "read", a, Found(w, a, i))
      BY <1>15 DEF DeleteInMemory, Remove, GetCharacter
    <2>2. \A c \in Found(w, a, i) : c.owner = a
      BY DEF Found
    <2> QED
      BY <1>13, <2>1, <2>2
  <1>16. ASSUME NEW w \in Workers, NEW a \in Subjects, List(w, a) \/ Fails(w, a)
         PROVE  AccountsApart' /\ JobShape'
    <2>1. /\ Serves(w, a) /\ UNCHANGED <<backend, online, job, play>>
          /\ Done(w, "read", a, Owned(Stored(w), a)) \/ Done(w, "failed", a, {})
      BY <1>16 DEF List, Fails
    <2>2. \A c \in Owned(Stored(w), a) : c.owner = a
      BY DEF Owned
    <2> QED
      BY <1>13, <2>1, <2>2
  <1>17. ASSUME NEW w \in Workers, NEW a \in Subjects, NEW i \in 1 .. MaxId, SelectCharacter(w, a, i)
         PROVE  AccountsApart' /\ JobShape'
    <2>1. /\ w \in Gateways /\ Serves(w, a) /\ UNCHANGED <<backend, online, job, outcome>>
          /\ \A g \in Gateways \ {w} : play'[g] = play[g]
          /\ play'[w].owner = a
      BY <1>17, <1>t DEF SelectCharacter, Found
    <2> QED
      BY <1>t, <1>s, <2>1 DEF AccountsApart, JobShape, OnDatabase
  <1> QED
    BY <1>1, <1>2, <1>3, <1>4, <1>5, <1>6, <1>7, <1>8, <1>9, <1>10, <1>11, <1>12, <1>14,
       <1>15, <1>16, <1>17 DEF Next
------------------------------------------------------------------------------
(* What clients are told.                                                  *)

(* What is to be told after a report is that, or was to be told before. *)
LEMMA ClaimsOfDone ==
    ASSUME NEW x, NEW kind, NEW a, NEW cs, Done(x, kind, a, cs), backend' = backend,
           NEW w \in Workers, NEW k, NEW i, Claims(w, k, i)'
    PROVE  \/ w # x /\ Claims(w, k, i)
           \/ w = x /\ kind = k /\ OnDatabase(x) /\ \E c \in cs : c.id = i
  <1>1. outcome'[w] = IF w = x THEN Report(x, kind, a, cs) ELSE outcome[w]
    BY DEF Done
  <1>2. Report(x, kind, a, cs).kind = kind /\ Report(x, kind, a, cs).characters = cs
    BY DEF Report
  <1> QED
    BY <1>1, <1>2 DEF Claims, OnDatabase

(* Steps that leave the database and the words, add no claim and send no   *)
(* DELETE falsify nothing.                                                 *)
LEMMA ClaimsKept ==
    ASSUME IInv, rows' = rows, word' = word, nextId' \in Nat, nextId' >= nextId,
           \A w \in Workers, k \in {"created", "deleted"}, i \in 1 .. MaxId :
               Claims(w, k, i)' => Claims(w, k, i),
           \A x \in Senders : job'[x] # NoJob /\ job'[x].kind = "delete" =>
               \E y \in Senders : job[y] # NoJob /\ job'[x] = job[y]
    PROVE  AcknowledgedHolds' /\ ClaimsHold'
  <1>t. /\ AcknowledgedHolds /\ ClaimsHold /\ TypeOK
        /\ nextId \in Nat /\ 1 .. MaxId \subseteq Nat
        /\ \A y \in Senders : job[y] # NoJob /\ job[y].kind = "delete" => job[y].id \in 1 .. MaxId
    BY LimitAssumption, JobTypes DEF IInv, TypeOK
  <1>1. AcknowledgedHolds'
    BY <1>t DEF AcknowledgedHolds, Ids
  <1>2. \A w \in Workers, i \in 1 .. MaxId :
          /\ Claims(w, "created", i)' =>
               i < nextId' /\ (i \in Ids(rows)' \/ word'[i] \in {"asked", "deleted"})
          /\ Claims(w, "deleted", i)' => i < nextId' /\ i \notin Ids(rows)'
    BY <1>t DEF ClaimsHold, Ids
  <1>3. \A i \in 1 .. MaxId : word'[i] # "none" => i < nextId'
    BY <1>t DEF ClaimsHold
  <1>4. \A x \in Senders : job'[x] # NoJob /\ job'[x].kind = "delete" =>
          /\ job'[x].id < nextId'
          /\ \A c \in rows' : c.id = job'[x].id /\ c.owner = job'[x].account =>
               word'[c.id] = "asked"
    <2> SUFFICES ASSUME NEW x \in Senders, job'[x] # NoJob, job'[x].kind = "delete"
                 PROVE  /\ job'[x].id < nextId'
                        /\ \A c \in rows : c.id = job'[x].id /\ c.owner = job'[x].account =>
                             word[c.id] = "asked"
      OBVIOUS
    <2>1. PICK y \in Senders : job[y] # NoJob /\ job'[x] = job[y]
      OBVIOUS
    <2> QED
      BY <1>t, <2>1 DEF ClaimsHold
  <1> QED
    BY <1>1, <1>2, <1>3, <1>4 DEF ClaimsHold

(* The INSERT of a row: its id is new, so that nothing was said of it. *)
LEMMA ClaimsInsert ==
    ASSUME IInv, NEW x \in Senders, InsertRow(x)
    PROVE  AcknowledgedHolds' /\ ClaimsHold'
  <1> DEFINE a == job[x].account
             n == job[x].name
  <1>t. /\ AcknowledgedHolds /\ ClaimsHold /\ nextId \in Nat /\ 1 .. MaxId \subseteq Nat
        /\ job \in [Senders -> Statements \cup {NoJob}]
        /\ \A y \in Senders : job[y] # NoJob /\ job[y].kind = "delete" => job[y].id \in 1 .. MaxId
    BY LimitAssumption, JobTypes DEF IInv, TypeOK
  <1>1. /\ job[x] # NoJob /\ \A y \in Senders : job'[y] \in {job[y], NoJob}
        /\ Insert(x, a, n) /\ word' = word /\ backend' = backend
    BY <1>t DEF InsertRow
  <1>2. OnDatabase(x)
    BY <1>1, JobOnDatabase
  <1>3. /\ rows' = rows \cup {New(a, n)} /\ nextId' = nextId + 1
        /\ Done(x, "created", a, {New(a, n)})
    BY <1>1, <1>2 DEF Insert, Update, Stored, New
  <1>4. New(a, n).id = nextId
    BY DEF New
  <1>5. \A i \in 1 .. MaxId : i \in Ids(rows)' <=> i \in Ids(rows) \/ i = nextId
    BY <1>3, <1>4 DEF Ids
  <1>6. \A i \in 1 .. MaxId : word[i] # "none" => i < nextId
    BY <1>t DEF ClaimsHold
  <1>7. AcknowledgedHolds'
    BY <1>t, <1>1, <1>5, <1>6 DEF AcknowledgedHolds
  <1>8. ASSUME NEW w \in Workers, NEW i \in 1 .. MaxId, Claims(w, "created", i)'
        PROVE  i < nextId' /\ (i \in Ids(rows)' \/ word'[i] \in {"asked", "deleted"})
    <2>1. Claims(w, "created", i) \/ i = nextId
      BY <1>1, <1>3, <1>4, <1>8, ClaimsOfDone
    <2>2. Claims(w, "created", i) =>
            i < nextId /\ (i \in Ids(rows) \/ word[i] \in {"asked", "deleted"})
      BY <1>t DEF ClaimsHold
    <2>3. i \in Nat /\ (i < nextId => i < nextId + 1) /\ nextId < nextId + 1
      BY <1>t
    <2> QED
      BY <1>1, <1>3, <1>5, <2>1, <2>2, <2>3
  <1>9. ASSUME NEW w \in Workers, NEW i \in 1 .. MaxId, Claims(w, "deleted", i)'
        PROVE  i < nextId' /\ i \notin Ids(rows)'
    <2>1. Claims(w, "deleted", i)
      BY <1>1, <1>3, <1>9, ClaimsOfDone
    <2>2. i < nextId /\ i \notin Ids(rows)
      BY <1>t, <2>1 DEF ClaimsHold
    <2>3. i \in Nat /\ i # nextId /\ i < nextId + 1
      BY <1>t, <2>2
    <2> QED
      BY <1>3, <1>5, <2>2, <2>3
  <1>10. ASSUME NEW y \in Senders, job'[y] # NoJob, job'[y].kind = "delete"
         PROVE  /\ job'[y].id < nextId'
                /\ \A c \in rows' : c.id = job'[y].id /\ c.owner = job'[y].account =>
                     word'[c.id] = "asked"
    <2>1. job'[y] = job[y]
      BY <1>1, <1>10
    <2> QED
      BY <1>t, <1>1, <1>3, <1>4, <1>10, <2>1 DEF ClaimsHold
  <1>11. \A i \in 1 .. MaxId : word'[i] # "none" => i < nextId'
    BY <1>t, <1>1, <1>3, <1>6
  <1> QED
    BY <1>7, <1>8, <1>9, <1>10, <1>11 DEF ClaimsHold

(* The DELETE of a row: it was asked for. *)
LEMMA ClaimsDelete ==
    ASSUME IInv, NEW x \in Senders, DeleteRow(x)
    PROVE  AcknowledgedHolds' /\ ClaimsHold'
  <1> DEFINE a == job[x].account
             d == job[x].id
  <1>t. /\ AcknowledgedHolds /\ ClaimsHold /\ nextId \in Nat /\ 1 .. MaxId \subseteq Nat
        /\ job \in [Senders -> Statements \cup {NoJob}]
    BY LimitAssumption DEF IInv, TypeOK
  <1>1. /\ job[x] # NoJob /\ job[x].kind = "delete"
        /\ \A y \in Senders : job'[y] \in {job[y], NoJob}
        /\ Remove(x, a, d) /\ word' = word /\ backend' = backend /\ nextId' = nextId
    BY <1>t DEF DeleteRow, Remove
  <1>2. OnDatabase(x)
    BY <1>1, JobOnDatabase
  <1>3. PICK c \in Stored(x) : c.id = d /\ c.owner = a /\ Found(x, a, d) = {c}
    BY <1>1, FoundOne DEF Remove
  <1>4. c \in rows /\ rows' = rows \ {c} /\ Done(x, "deleted", a, {c})
    BY <1>1, <1>2, <1>3 DEF Remove, Update, Stored
  <1>5. d < nextId /\ word[d] = "asked"
    BY <1>t, <1>1, <1>3, <1>4 DEF ClaimsHold
  <1>6. \A e \in rows : e.id = d => e = c
    BY <1>3, <1>4 DEF IInv, IdsFresh
  <1>7. \A i \in 1 .. MaxId : i \in Ids(rows)' <=> i \in Ids(rows) /\ i # d
    BY <1>3, <1>4, <1>6 DEF Ids
  <1>8. AcknowledgedHolds'
    BY <1>t, <1>1, <1>5, <1>7 DEF AcknowledgedHolds
  <1>9. ASSUME NEW w \in Workers, NEW i \in 1 .. MaxId, Claims(w, "created", i)'
        PROVE  i < nextId' /\ (i \in Ids(rows)' \/ word'[i] \in {"asked", "deleted"})
    <2>1. Claims(w, "created", i)
      BY <1>1, <1>4, <1>9, ClaimsOfDone
    <2> QED
      BY <1>t, <1>1, <1>5, <1>7, <2>1 DEF ClaimsHold
  <1>10. ASSUME NEW w \in Workers, NEW i \in 1 .. MaxId, Claims(w, "deleted", i)'
         PROVE  i < nextId' /\ i \notin Ids(rows)'
    <2>1. Claims(w, "deleted", i) \/ i = d
      BY <1>1, <1>3, <1>4, <1>10, ClaimsOfDone
    <2> QED
      BY <1>t, <1>1, <1>5, <1>7, <2>1 DEF ClaimsHold
  <1>11. ASSUME NEW y \in Senders, job'[y] # NoJob, job'[y].kind = "delete"
         PROVE  /\ job'[y].id < nextId'
                /\ \A e \in rows' : e.id = job'[y].id /\ e.owner = job'[y].account =>
                     word'[e.id] = "asked"
    <2>1. job'[y] = job[y]
      BY <1>1, <1>11
    <2> QED
      BY <1>t, <1>1, <1>4, <1>11, <2>1 DEF ClaimsHold
  <1>12. \A i \in 1 .. MaxId : word'[i] # "none" => i < nextId'
    BY <1>t, <1>1 DEF ClaimsHold
  <1> QED
    BY <1>8, <1>9, <1>10, <1>11, <1>12 DEF ClaimsHold

(* A DELETE is sent: what it will find is marked as asked for. *)
LEMMA ClaimsSend ==
    ASSUME IInv, NEW w \in Workers, NEW a \in Subjects, NEW i \in 1 .. MaxId, SendDelete(w, a, i)
    PROVE  AcknowledgedHolds' /\ ClaimsHold'
  <1>t. /\ AcknowledgedHolds /\ ClaimsHold /\ nextId \in Nat /\ 1 .. MaxId \subseteq Nat
        /\ job \in [Senders -> Statements \cup {NoJob}] /\ w \in Senders
        /\ word \in [1 .. MaxId -> Words]
        /\ \A c \in rows : c.id \in 1 .. MaxId
    BY LimitAssumption, JobTypes DEF IInv, TypeOK, Characters
  <1>1. /\ i < nextId /\ rows' = rows /\ nextId' = nextId
        /\ outcome' = outcome /\ backend' = backend
        /\ job'[w] = [kind |-> "delete", account |-> a, id |-> i]
        /\ \A y \in Senders \ {w} : job'[y] = job[y]
    BY <1>t DEF SendDelete, tables
  <1>2. /\ \A j \in 1 .. MaxId : word'[j] = word[j] \/ (word'[j] = "asked" /\ j = i)
        /\ (\E c \in rows : c.id = i /\ c.owner = a) => word'[i] = "asked"
    BY <1>t DEF SendDelete
  <1>3. \A v \in Workers, k \in {"created", "deleted"}, j \in 1 .. MaxId :
          Claims(v, k, j)' <=> Claims(v, k, j)
    BY <1>1 DEF Claims, OnDatabase
  <1>4. AcknowledgedHolds'
    BY <1>t, <1>1, <1>2 DEF AcknowledgedHolds, Ids
  <1>5. \A v \in Workers, j \in 1 .. MaxId :
          /\ Claims(v, "created", j)' =>
               j < nextId' /\ (j \in Ids(rows)' \/ word'[j] \in {"asked", "deleted"})
          /\ Claims(v, "deleted", j)' => j < nextId' /\ j \notin Ids(rows)'
    BY <1>t, <1>1, <1>2, <1>3 DEF ClaimsHold, Ids
  <1>6. \A j \in 1 .. MaxId : word'[j] # "none" => j < nextId'
    BY <1>t, <1>1, <1>2 DEF ClaimsHold
  <1>7. ASSUME NEW y \in Senders, job'[y] # NoJob, job'[y].kind = "delete"
        PROVE  /\ job'[y].id < nextId'
               /\ \A c \in rows' : c.id = job'[y].id /\ c.owner = job'[y].account =>
                    word'[c.id] = "asked"
    <2>1. CASE y = w
      BY <1>1, <1>2, <2>1
    <2>2. CASE y # w
      BY <1>t, <1>1, <1>2, <1>7, <2>2 DEF ClaimsHold
    <2> QED
      BY <2>1, <2>2
  <1> QED
    BY <1>4, <1>5, <1>6, <1>7 DEF ClaimsHold

(* A client hears what holds already. *)
LEMMA ClaimsReply ==
    ASSUME IInv, NEW w \in Workers, Reply(w)
    PROVE  AcknowledgedHolds' /\ ClaimsHold'
  <1>t. /\ AcknowledgedHolds /\ ClaimsHold
        /\ outcome \in [Workers -> Answers \cup {NoAnswer}]
        /\ word \in [1 .. MaxId -> Words]
        /\ \A c \in rows : c.id \in 1 .. MaxId
    BY DEF IInv, TypeOK, Characters
  <1>1. /\ rows' = rows /\ nextId' = nextId /\ job' = job /\ backend' = backend
        /\ outcome'[w] = NoAnswer /\ \A v \in Workers \ {w} : outcome'[v] = outcome[v]
    BY <1>t DEF Reply, tables
  <1>2. \A i \in 1 .. MaxId :
          word'[i] = IF Claims(w, "deleted", i) THEN "deleted"
                     ELSE IF Claims(w, "created", i) /\ word[i] = "none" THEN "created"
                     ELSE word[i]
    BY DEF Reply
  <1>3. \A v \in Workers, k \in {"created", "deleted"}, i \in 1 .. MaxId :
          Claims(v, k, i)' => Claims(v, k, i)
    BY <1>1 DEF Claims, OnDatabase
  <1>4. \A i \in 1 .. MaxId :
          /\ Claims(w, "created", i) =>
               i < nextId /\ (i \in Ids(rows) \/ word[i] \in {"asked", "deleted"})
          /\ Claims(w, "deleted", i) => i < nextId /\ i \notin Ids(rows)
    BY <1>t DEF ClaimsHold
  <1>5. AcknowledgedHolds'
    BY <1>t, <1>1, <1>2, <1>4 DEF AcknowledgedHolds, Ids
  <1>6. \A v \in Workers, i \in 1 .. MaxId :
          /\ Claims(v, "created", i)' =>
               i < nextId' /\ (i \in Ids(rows)' \/ word'[i] \in {"asked", "deleted"})
          /\ Claims(v, "deleted", i)' => i < nextId' /\ i \notin Ids(rows)'
    BY <1>t, <1>1, <1>2, <1>3, <1>4 DEF ClaimsHold, Ids
  <1>7. \A i \in 1 .. MaxId : word'[i] # "none" => i < nextId'
    BY <1>t, <1>1, <1>2, <1>4 DEF ClaimsHold
  <1>8. ASSUME NEW y \in Senders, job'[y] # NoJob, job'[y].kind = "delete"
        PROVE  /\ job'[y].id < nextId'
               /\ \A c \in rows' : c.id = job'[y].id /\ c.owner = job'[y].account =>
                    word'[c.id] = "asked"
    <2>1. /\ job[y].id < nextId
          /\ \A c \in rows : c.id = job[y].id /\ c.owner = job[y].account => word[c.id] = "asked"
      BY <1>t, <1>1, <1>8 DEF ClaimsHold
    <2>2. \A c \in rows : c.id \in Ids(rows)
      BY DEF Ids
    <2> QED
      BY <1>t, <1>1, <1>2, <1>4, <2>1, <2>2
  <1> QED
    BY <1>5, <1>6, <1>7, <1>8 DEF ClaimsHold

(* What clients are told is and stays true. *)
LEMMA ClaimsStep ==
    ASSUME IInv, [Next]_vars
    PROVE  AcknowledgedHolds' /\ ClaimsHold'
  <1>t. /\ TypeOK /\ nextId \in Nat /\ nextId + 1 \in Nat /\ nextId >= nextId /\ nextId + 1 >= nextId
        /\ job \in [Senders -> Statements \cup {NoJob}]
        /\ outcome \in [Workers -> Answers \cup {NoAnswer}]
        /\ Workers \subseteq Senders /\ Adrift \subseteq Senders /\ Workers \cap Adrift = {}
        /\ Gateways \cap Requests = {} /\ Workers = Gateways \cup Requests
    BY LimitAssumption, WorkersAssumption, JobTypes DEF IInv, TypeOK, Workers
  <1> DEFINE FewerClaims == \A w \in Workers, k \in {"created", "deleted"}, i \in 1 .. MaxId :
                                Claims(w, k, i)' => Claims(w, k, i)
  <1>c. (outcome' = outcome /\ backend' = backend) => FewerClaims
    BY DEF Claims, OnDatabase
  <1>d. ASSUME NEW x \in Senders, NEW kind, NEW a, NEW cs, Done(x, kind, a, cs), backend' = backend,
               kind \notin {"created", "deleted"} \/ ~OnDatabase(x)
        PROVE  FewerClaims
    BY <1>d, ClaimsOfDone
  <1>1. CASE UNCHANGED vars
    BY <1>1, <1>t, <1>c, ClaimsKept DEF vars, tables
  <1>2. ASSUME NEW a \in Accounts, Register(a)
        PROVE  AcknowledgedHolds' /\ ClaimsHold'
    BY <1>2, <1>t, <1>c, ClaimsKept DEF Register, tables
  <1>3. ASSUME NEW g \in Gateways, Connect(g) \/ Disconnect(g)
        PROVE  AcknowledgedHolds' /\ ClaimsHold'
    BY <1>3, <1>t, <1>c, ClaimsKept DEF Connect, Disconnect, tables
  <1>4. CASE Restart
    <2>1. /\ rows' = rows /\ word' = word /\ nextId' = nextId
          /\ \A x \in Senders : job'[x] \in {job[x], NoJob}
          /\ \A w \in Workers : outcome'[w] = IF w \in Gateways THEN NoAnswer ELSE outcome[w]
      BY <1>4, <1>t DEF Restart
    <2>2. FewerClaims
      BY <1>t, <2>1 DEF Claims, OnDatabase
    <2> QED
      BY <1>t, <2>1, <2>2, ClaimsKept
  <1>5. ASSUME NEW x \in Senders, StatementFails(x)
        PROVE  AcknowledgedHolds' /\ ClaimsHold'
    <2>1. /\ rows' = rows /\ word' = word /\ nextId' = nextId /\ backend' = backend
          /\ \A y \in Senders : job'[y] \in {job[y], NoJob}
          /\ Done(x, "failed", job[x].account, {})
      BY <1>5, <1>t DEF StatementFails, tables
    <2>2. FewerClaims
      BY <2>1, <1>d
    <2> QED
      BY <1>t, <2>1, <2>2, ClaimsKept
  <1>6. ASSUME NEW w \in Workers, NEW x \in Adrift, GiveUp(w, x)
        PROVE  AcknowledgedHolds' /\ ClaimsHold'
    <2>1. /\ rows' = rows /\ word' = word /\ nextId' = nextId /\ backend' = backend
          /\ job[w] # NoJob /\ w \in Senders
          /\ \A y \in Senders : job'[y] \in {job[y], job[w], NoJob}
          /\ Done(w, "failed", job[w].account, {})
      BY <1>6, <1>t DEF GiveUp, tables
    <2>2. FewerClaims
      BY <2>1, <1>d
    <2> QED
      BY <1>t, <2>1, <2>2, ClaimsKept
  <1>7. ASSUME NEW w \in Workers, ReplyLost(w)
        PROVE  AcknowledgedHolds' /\ ClaimsHold'
    <2>1. /\ rows' = rows /\ word' = word /\ nextId' = nextId /\ backend' = backend /\ job' = job
          /\ outcome'[w] = NoAnswer /\ \A v \in Workers \ {w} : outcome'[v] = outcome[v]
      BY <1>7, <1>t DEF ReplyLost, tables
    <2>2. FewerClaims
      BY <2>1 DEF Claims, OnDatabase
    <2> QED
      BY <1>t, <2>1, <2>2, ClaimsKept
  <1>8. ASSUME NEW w \in Workers, NEW a \in Subjects, NEW n \in Names, CreateInMemory(w, a, n)
        PROVE  AcknowledgedHolds' /\ ClaimsHold'
    <2>1. /\ ~OnDatabase(w) /\ Insert(w, a, n)
          /\ word' = word /\ backend' = backend /\ job' = job
      BY <1>8 DEF CreateInMemory
    <2>2. /\ rows' = rows /\ nextId' = nextId + 1
          /\ Done(w, "created", a, {New(a, n)})
      BY <2>1 DEF Insert, Update, New
    <2>3. FewerClaims
      BY <1>t, <2>1, <2>2, <1>d
    <2> QED
      BY <1>t, <2>1, <2>2, <2>3, ClaimsKept
  <1>9. ASSUME NEW w \in Workers, NEW a \in Subjects, NEW n \in Names, CountRows(w, a, n)
        PROVE  AcknowledgedHolds' /\ ClaimsHold'
    <2>1. /\ rows' = rows /\ word' = word /\ nextId' = nextId /\ backend' = backend
          /\ outcome' = outcome
          /\ job'[w].kind = "insert" /\ \A y \in Senders \ {w} : job'[y] = job[y]
      BY <1>9, <1>t DEF CountRows, tables
    <2> QED
      BY <1>t, <2>1, <1>c, ClaimsKept
  <1>10. ASSUME NEW w \in Workers, NEW a \in Subjects, NEW i \in 1 .. MaxId, DeleteInMemory(w, a, i)
         PROVE  AcknowledgedHolds' /\ ClaimsHold'
    <2>1. /\ ~OnDatabase(w) /\ Done(w, "deleted", a, Found(w, a, i)) /\ rows' = rows
          /\ nextId' = nextId /\ word' = word /\ backend' = backend /\ job' = job
      BY <1>10 DEF DeleteInMemory, Remove, Update
    <2>2. FewerClaims
      BY <1>t, <2>1, <1>d
    <2> QED
      BY <1>t, <2>1, <2>2, ClaimsKept
  <1>11. ASSUME NEW w \in Workers, NEW a \in Subjects, List(w, a) \/ Fails(w, a)
         PROVE  AcknowledgedHolds' /\ ClaimsHold'
    <2>1. /\ Done(w, "read", a, Owned(Stored(w), a)) \/ Done(w, "failed", a, {})
          /\ rows' = rows /\ nextId' = nextId /\ word' = word /\ backend' = backend /\ job' = job
      BY <1>11 DEF List, Fails, tables
    <2>2. FewerClaims
      BY <1>t, <2>1, <1>d
    <2> QED
      BY <1>t, <2>1, <2>2, ClaimsKept
  <1>12. ASSUME NEW w \in Workers, NEW a \in Subjects, NEW i \in 1 .. MaxId, GetCharacter(w, a, i)
         PROVE  AcknowledgedHolds' /\ ClaimsHold'
    <2>1. /\ Done(w, "read", a, Found(w, a, i))
          /\ rows' = rows /\ nextId' = nextId /\ word' = word /\ backend' = backend /\ job' = job
      BY <1>12 DEF GetCharacter, tables
    <2>2. FewerClaims
      BY <1>t, <2>1, <1>d
    <2> QED
      BY <1>t, <2>1, <2>2, ClaimsKept
  <1>13. ASSUME NEW w \in Workers, NEW a \in Subjects, NEW i \in 1 .. MaxId, SelectCharacter(w, a, i)
         PROVE  AcknowledgedHolds' /\ ClaimsHold'
    BY <1>13, <1>t, <1>c, ClaimsKept DEF SelectCharacter, tables
  <1> QED
    BY <1>1, <1>2, <1>3, <1>4, <1>5, <1>6, <1>7, <1>8, <1>9, <1>10, <1>11, <1>12, <1>13,
       ClaimsInsert, ClaimsDelete, ClaimsSend, ClaimsReply DEF Next
------------------------------------------------------------------------------
(* Names, ids and limits.                                                  *)

(* No effect gives a name or an id twice. *)
LEMMA NamesStep ==
    ASSUME IInv, Effect
    PROVE  NamesUnique' /\ IdsFresh'
  <1>1. NamesUnique /\ IdsFresh /\ nextId \in Nat
    BY LimitAssumption DEF IInv, TypeOK
  <1>i. \A c \in rows \cup memory : c.id \in Nat /\ c.id < nextId
    BY LimitAssumption DEF IInv, TypeOK, Characters, IdsFresh
  <1>2. CASE RowAdded
    <2>1. PICK a \in Accounts, n \in ValidNames :
            /\ \A c \in rows : c.name # n
            /\ nextId' = nextId + 1
            /\ rows' = rows \cup {New(a, n)} /\ memory' = memory
      BY <1>2 DEF RowAdded
    <2>2. New(a, n).id = nextId /\ New(a, n).name = n
      BY DEF New
    <2>4. \A c \in rows : c.id # nextId /\ c.name # n
      BY <1>1, <2>1, <1>i
    <2>5. NamesUnique'
      BY <1>1, <2>1, <2>2, <2>4 DEF NamesUnique
    <2>6. \A c \in rows' \cup memory' : c.id < nextId'
      BY <1>1, <1>i, <2>1, <2>2
    <2> QED
      BY <1>1, <2>1, <2>2, <2>4, <2>5, <2>6 DEF IdsFresh
  <1>3. CASE MemoryAdded
    <2>1. PICK a \in Subjects, n \in ValidNames :
            /\ \A c \in memory : Fold[c.name] # Fold[n]
            /\ nextId' = nextId + 1
            /\ memory' = memory \cup {New(a, n)} /\ rows' = rows
      BY <1>3 DEF MemoryAdded
    <2>2. New(a, n).id = nextId /\ New(a, n).name = n
      BY DEF New
    <2>4. \A c \in memory : c.id # nextId
      BY <1>1, <1>i
    <2>5. NamesUnique'
      BY <1>1, <2>1, <2>2, <2>4 DEF NamesUnique
    <2>6. \A c \in rows' \cup memory' : c.id < nextId'
      BY <1>1, <1>i, <2>1, <2>2
    <2> QED
      BY <1>1, <2>1, <2>2, <2>4, <2>5, <2>6 DEF IdsFresh
  <1>4. CASE RowDeleted
    BY <1>1, <1>4 DEF RowDeleted, NamesUnique, IdsFresh
  <1>5. CASE MemoryDeleted
    BY <1>1, <1>5 DEF MemoryDeleted, NamesUnique, IdsFresh
  <1>6. CASE Counted \/ DeleteSent \/ Moved
    BY <1>1, <1>6 DEF Counted, DeleteSent, Moved, NamesUnique, IdsFresh
  <1>7. CASE Quiet
    BY <1>1, <1>7 DEF Quiet, NamesUnique, IdsFresh
  <1> QED
    BY <1>2, <1>3, <1>4, <1>5, <1>6, <1>7 DEF Effect

(* A smaller table holds no more of an account's characters. *)
LEMMA OwnedSubset ==
    ASSUME NEW S, NEW T, IsFiniteSet(T), S \subseteq T, NEW a
    PROVE  /\ Cardinality(Owned(S, a)) \in Nat /\ Cardinality(Owned(T, a)) \in Nat
           /\ Cardinality(Owned(S, a)) <= Cardinality(Owned(T, a))
  <1>1. Owned(T, a) \subseteq T /\ Owned(S, a) \subseteq Owned(T, a)
    BY DEF Owned
  <1>2. IsFiniteSet(Owned(T, a)) /\ IsFiniteSet(Owned(S, a))
    BY <1>1, FS_Subset
  <1> QED
    BY <1>1, <1>2, FS_Subset, FS_CardinalityType

(* A new character counts for its owner only. *)
LEMMA OwnedAdded ==
    ASSUME NEW T, IsFiniteSet(T), NEW c, NEW a
    PROVE  /\ Cardinality(Owned(T \cup {c}, a)) <= Cardinality(Owned(T, a)) + 1
           /\ c.owner # a => Owned(T \cup {c}, a) = Owned(T, a)
  <1>1. CASE c.owner # a
    <2>1. Owned(T \cup {c}, a) = Owned(T, a)
      BY <1>1 DEF Owned
    <2> QED
      BY <2>1, OwnedSubset
  <1>2. CASE c.owner = a
    <2>1. Owned(T \cup {c}, a) = Owned(T, a) \cup {c}
      BY <1>2 DEF Owned
    <2>2. Owned(T, a) \subseteq T
      BY DEF Owned
    <2>3. IsFiniteSet(Owned(T, a)) /\ Cardinality(Owned(T, a)) \in Nat
      BY <2>2, FS_Subset, FS_CardinalityType
    <2>4. Cardinality(Owned(T, a) \cup {c}) <= Cardinality(Owned(T, a)) + 1
      <3>1. Cardinality(Owned(T, a) \cup {c}) =
              IF c \in Owned(T, a) THEN Cardinality(Owned(T, a)) ELSE Cardinality(Owned(T, a)) + 1
        BY <2>3, FS_AddElement
      <3> QED
        BY <2>3, <3>1
    <2> QED
      BY <1>2, <2>1, <2>4
  <1> QED
    BY <1>1, <1>2

(* There are finitely many senders, and no more of them insert. *)
LEMMA InsertingFinite ==
    ASSUME NEW a
    PROVE  /\ IsFiniteSet(Senders) /\ Cardinality(Senders) \in Nat
           /\ IsFiniteSet(Inserting(a)) /\ Cardinality(Inserting(a)) \in Nat
           /\ Cardinality(Inserting(a)) <= Cardinality(Senders)
           /\ IsFiniteSet(Inserting(a)') /\ Cardinality(Inserting(a)') \in Nat
           /\ Cardinality(Inserting(a)') <= Cardinality(Senders)
  <1>1. IsFiniteSet(Senders)
    BY WorkersAssumption, FS_Union DEF Workers, Senders
  <1>2. Inserting(a) \subseteq Senders /\ Inserting(a)' \subseteq Senders
    BY DEF Inserting
  <1> QED
    BY <1>1, <1>2, FS_Subset, FS_CardinalityType

(* Empty tables are within the limits. *)
LEMMA InitLimits == Init => LimitHolds
  <1> SUFFICES ASSUME Init PROVE LimitHolds
    OBVIOUS
  <1>1. \A a : Owned(rows, a) = {} /\ Owned(memory, a) = {} /\ Inserting(a) = {}
    BY DEF Init, Owned, Inserting
  <1>2. Cardinality(Senders) \in Nat
    BY InsertingFinite
  <1>3. Cardinality({}) = 0 /\ MaxCharacters \in Nat \ {0}
    BY FS_EmptySet, LimitAssumption
  <1>4. \A a : /\ Cardinality(Owned(memory, a)) = 0 /\ Cardinality(Owned(rows, a)) = 0
               /\ Cardinality(Inserting(a)) = 0
    BY <1>1, <1>3
  <1> QED
    BY <1>2, <1>3, <1>4 DEF LimitHolds

(* An insertion takes the place of the right to insert, and who has        *)
(* counted found fewer than the limit.                                     *)
LEMMA LimitStep ==
    ASSUME IInv, Effect
    PROVE  LimitHolds'
  <1>t. /\ LimitHolds /\ IsFiniteSet(rows) /\ IsFiniteSet(memory)
        /\ job \in [Senders -> Statements \cup {NoJob}]
        /\ Workers \subseteq Senders /\ Adrift \subseteq Senders /\ Workers \cap Adrift = {}
        /\ MaxCharacters \in Nat \ {0}
    BY LimitAssumption, JobTypes DEF IInv, TypeOK
  <1>m. ASSUME memory' \subseteq memory
        PROVE  \A a \in Subjects : Cardinality(Owned(memory', a)) <= MaxCharacters
    BY <1>t, <1>m, OwnedSubset DEF LimitHolds
  <1>r. ASSUME rows' \subseteq rows, \A a \in Accounts : Inserting(a)' \subseteq Inserting(a)
        PROVE  \A a \in Accounts :
                 Cardinality(Owned(rows', a)) + Cardinality(Inserting(a)')
                     <= MaxCharacters - 1 + Cardinality(Senders)
    <2> TAKE a \in Accounts
    <2>1. Cardinality(Inserting(a)') <= Cardinality(Inserting(a))
      BY <1>r, InsertingFinite, FS_Subset
    <2>2. Cardinality(Owned(rows', a)) <= Cardinality(Owned(rows, a))
          /\ Cardinality(Owned(rows', a)) \in Nat /\ Cardinality(Owned(rows, a)) \in Nat
      BY <1>r, <1>t, OwnedSubset
    <2>3. Cardinality(Owned(rows, a)) + Cardinality(Inserting(a))
            <= MaxCharacters - 1 + Cardinality(Senders)
      BY <1>t DEF LimitHolds
    <2> QED
      BY <1>t, <2>1, <2>2, <2>3, InsertingFinite
  <1>j. job' = job => \A a \in Accounts : Inserting(a)' = Inserting(a)
    BY DEF Inserting
  <1>2. CASE RowAdded
    <2>1. PICK w \in Senders, a \in Accounts, n \in ValidNames :
            /\ job[w] # NoJob /\ job[w].kind = "insert" /\ job[w].account = a
            /\ job' = [job EXCEPT ![w] = NoJob]
            /\ rows' = rows \cup {New(a, n)} /\ memory' = memory
      BY <1>2 DEF RowAdded
    <2>2. ASSUME NEW b \in Accounts
          PROVE  Cardinality(Owned(rows', b)) + Cardinality(Inserting(b)')
                     <= MaxCharacters - 1 + Cardinality(Senders)
      <3>1. Inserting(b)' = Inserting(b) \ {w}
        BY <1>t, <2>1 DEF Inserting
      <3>2. Cardinality(Owned(rows, b)) + Cardinality(Inserting(b))
              <= MaxCharacters - 1 + Cardinality(Senders)
        BY <1>t DEF LimitHolds
      <3>3. New(a, n).owner = a
        BY DEF New
      <3>4. CASE b = a
        <4>1. w \in Inserting(b)
          BY <2>1, <3>4 DEF Inserting
        <4>2. Cardinality(Inserting(b)') = Cardinality(Inserting(b)) - 1
          BY <3>1, <4>1, FS_RemoveElement, InsertingFinite
        <4>3. Cardinality(Owned(rows', b)) <= Cardinality(Owned(rows, b)) + 1
          BY <1>t, <2>1, OwnedAdded
        <4>4. /\ Cardinality(Owned(rows', b)) \in Nat /\ Cardinality(Owned(rows, b)) \in Nat
              /\ Cardinality(Inserting(b)) \in Nat /\ Cardinality(Senders) \in Nat
          BY <1>t, <2>1, OwnedSubset, InsertingFinite, FS_AddElement
        <4> QED
          BY <1>t, <3>2, <4>2, <4>3, <4>4
      <3>5. CASE b # a
        <4>1. Owned(rows', b) = Owned(rows, b)
          BY <1>t, <2>1, <3>3, <3>5, OwnedAdded
        <4>2. w \notin Inserting(b)
          BY <2>1, <3>5 DEF Inserting
        <4> QED
          BY <3>1, <3>2, <4>1, <4>2
      <3> QED
        BY <3>4, <3>5
    <2> QED
      BY <1>m, <2>1, <2>2 DEF LimitHolds
  <1>3. CASE MemoryAdded
    <2>1. PICK a \in Subjects, n \in ValidNames :
            /\ Cardinality(Owned(memory, a)) < MaxCharacters
            /\ memory' = memory \cup {New(a, n)} /\ rows' = rows /\ job' = job
      BY <1>3 DEF MemoryAdded
    <2>2. ASSUME NEW b \in Subjects
          PROVE  Cardinality(Owned(memory', b)) <= MaxCharacters
      <3>1. New(a, n).owner = a
        BY DEF New
      <3>2. CASE b = a
        <4>1. Cardinality(Owned(memory', b)) <= Cardinality(Owned(memory, b)) + 1
          BY <1>t, <2>1, OwnedAdded
        <4>2. Cardinality(Owned(memory', b)) \in Nat /\ Cardinality(Owned(memory, b)) \in Nat
          BY <1>t, <2>1, OwnedSubset, FS_AddElement
        <4> QED
          BY <1>t, <2>1, <3>2, <4>1, <4>2
      <3>3. CASE b # a
        <4>1. Owned(memory', b) = Owned(memory, b)
          BY <1>t, <2>1, <3>1, <3>3, OwnedAdded
        <4> QED
          BY <1>t, <4>1 DEF LimitHolds
      <3> QED
        BY <3>2, <3>3
    <2> QED
      BY <1>r, <1>j, <2>1, <2>2 DEF LimitHolds
  <1>4. CASE RowDeleted
    <2>1. rows' \subseteq rows /\ memory' = memory
      BY <1>4 DEF RowDeleted
    <2>2. \A a \in Accounts : Inserting(a)' \subseteq Inserting(a)
      BY <1>t, <1>4 DEF RowDeleted, Inserting
    <2> QED
      BY <1>m, <1>r, <2>1, <2>2 DEF LimitHolds
  <1>5. CASE MemoryDeleted
    BY <1>5, <1>m, <1>r, <1>j DEF MemoryDeleted, LimitHolds
  <1>6. CASE Counted
    <2>1. PICK w \in Workers, a \in Accounts, n \in ValidNames :
            /\ Cardinality(Owned(rows, a)) < MaxCharacters
            /\ job' = [job EXCEPT ![w] = [kind |-> "insert", account |-> a, name |-> n]]
            /\ rows' = rows /\ memory' = memory
      BY <1>6 DEF Counted
    <2>2. ASSUME NEW b \in Accounts
          PROVE  Cardinality(Owned(rows', b)) + Cardinality(Inserting(b)')
                     <= MaxCharacters - 1 + Cardinality(Senders)
      <3>1. Cardinality(Owned(rows, b)) \in Nat
        BY <1>t, OwnedSubset
      <3>2. CASE b = a
        BY <1>t, <2>1, <3>1, <3>2, InsertingFinite
      <3>3. CASE b # a
        <4>1. Inserting(b)' \subseteq Inserting(b)
          BY <1>t, <2>1, <3>3 DEF Inserting
        <4>2. Cardinality(Inserting(b)') <= Cardinality(Inserting(b))
          BY <4>1, InsertingFinite, FS_Subset
        <4>3. Cardinality(Owned(rows, b)) + Cardinality(Inserting(b))
                <= MaxCharacters - 1 + Cardinality(Senders)
          BY <1>t DEF LimitHolds
        <4> QED
          BY <1>t, <2>1, <3>1, <4>2, <4>3, InsertingFinite
      <3> QED
        BY <3>2, <3>3
    <2> QED
      BY <1>m, <2>1, <2>2 DEF LimitHolds
  <1>8. CASE DeleteSent
    <2>1. rows' \subseteq rows /\ memory' = memory
      BY <1>8 DEF DeleteSent
    <2>2. \A a \in Accounts : Inserting(a)' \subseteq Inserting(a)
      BY <1>t, <1>8 DEF DeleteSent, Inserting
    <2> QED
      BY <1>m, <1>r, <2>1, <2>2 DEF LimitHolds
  <1>9. CASE Moved
    <2>1. PICK w \in Workers, x \in Adrift :
            /\ job[w] # NoJob /\ job[x] = NoJob
            /\ job' = [job EXCEPT ![x] = job[w], ![w] = NoJob]
            /\ rows' = rows /\ memory' = memory
      BY <1>9 DEF Moved
    <2>2. ASSUME NEW b \in Accounts
          PROVE  Cardinality(Inserting(b)') <= Cardinality(Inserting(b))
      <3>1. CASE w \in Inserting(b)
        <4>1. Inserting(b)' = (Inserting(b) \ {w}) \cup {x} /\ x \notin Inserting(b)
          BY <1>t, <2>1, <3>1 DEF Inserting
        <4>2. /\ IsFiniteSet(Inserting(b) \ {w})
              /\ Cardinality(Inserting(b) \ {w}) = Cardinality(Inserting(b)) - 1
          BY <3>1, InsertingFinite, FS_RemoveElement
        <4>3. Cardinality(Inserting(b)') = Cardinality(Inserting(b) \ {w}) + 1
          BY <4>1, <4>2, FS_AddElement
        <4> QED
          BY <4>2, <4>3, InsertingFinite
      <3>2. CASE w \notin Inserting(b)
        <4>1. Inserting(b)' \subseteq Inserting(b)
          BY <1>t, <2>1, <3>2 DEF Inserting
        <4> QED
          BY <4>1, InsertingFinite, FS_Subset
      <3> QED
        BY <3>1, <3>2
    <2>3. ASSUME NEW b \in Accounts
          PROVE  Cardinality(Owned(rows', b)) + Cardinality(Inserting(b)')
                     <= MaxCharacters - 1 + Cardinality(Senders)
      <3>1. Cardinality(Owned(rows, b)) + Cardinality(Inserting(b))
              <= MaxCharacters - 1 + Cardinality(Senders)
        BY <1>t DEF LimitHolds
      <3>2. Cardinality(Owned(rows, b)) \in Nat
        BY <1>t, OwnedSubset
      <3> QED
        BY <1>t, <2>1, <2>2, <3>1, <3>2, InsertingFinite
    <2> QED
      BY <1>m, <2>1, <2>3 DEF LimitHolds
  <1>7. CASE Quiet
    <2>1. rows' = rows /\ memory' \subseteq memory
      BY <1>7 DEF Quiet
    <2>2. \A a \in Accounts : Inserting(a)' \subseteq Inserting(a)
      BY <1>7 DEF Quiet, Inserting
    <2> QED
      BY <1>m, <1>r, <2>1, <2>2 DEF LimitHolds
  <1> QED
    BY <1>2, <1>3, <1>4, <1>5, <1>6, <1>7, <1>8, <1>9 DEF Effect
------------------------------------------------------------------------------
(* The theorems.                                                           *)

(* Limits, names, ids and the separation of accounts hold whatever the     *)
(* connection tasks of the game server and the handlers of the login       *)
(* server interleave, for any number of them.                              *)
THEOREM StoreInvariance == Spec => []IInv
  <1>1. Init => IInv
    <2> SUFFICES ASSUME Init PROVE IInv
      OBVIOUS
    <2>1. /\ TypeOK /\ JobShape /\ AccountsApart /\ LimitHolds
          /\ AcknowledgedHolds /\ ClaimsHold
      BY InitTypes, InitLimits
    <2>2. NamesUnique /\ IdsFresh
      BY DEF Init, NamesUnique, IdsFresh
    <2> QED
      BY <2>1, <2>2 DEF IInv
  <1>2. IInv /\ [Next]_vars => IInv'
    <2> SUFFICES ASSUME IInv, [Next]_vars PROVE IInv'
      OBVIOUS
    <2>1. Effect /\ TypeOK
      BY Effects DEF IInv
    <2>2. TypeOK'
      BY <2>1, TableTypes, OtherTypes DEF TypeOK
    <2>3. /\ LimitHolds' /\ NamesUnique' /\ IdsFresh' /\ AccountsApart' /\ JobShape'
          /\ AcknowledgedHolds' /\ ClaimsHold'
      BY <2>1, LimitStep, NamesStep, AccountsStep, ClaimsStep
    <2> QED
      BY <2>2, <2>3 DEF IInv
  <1> QED
    BY <1>1, <1>2, PTL DEF Spec

(* Whatever a worker shows, deletes or plays belongs to the account it     *)
(* acts for (every query of CharacterStore carries the account).           *)
THEOREM AccountsApartCorrect == Spec => []AccountsApart
  <1>1. IInv => AccountsApart
    BY DEF IInv
  <1> QED
    BY <1>1, StoreInvariance, PTL

(* What a client was told of the database is and stays true, with          *)
(* statements that commit late or unheard, replies that are lost, retries  *)
(* and restarts in any order (the replies of run_connection's phase 2 and  *)
(* of the login server's handlers).                                        *)
THEOREM AcknowledgedHoldsCorrect == Spec => []AcknowledgedHolds
  <1>1. IInv => AcknowledgedHolds
    BY DEF IInv
  <1> QED
    BY <1>1, StoreInvariance, PTL

(* The instances count a set as this module does. *)
LEMMA SameCardinality ==
    ASSUME NEW S
    PROVE  Database!Cardinality(S) = Cardinality(S) /\ InMemory!Cardinality(S) = Cardinality(S)
  BY DEF Database!Cardinality, InMemory!Cardinality, Cardinality

(* Both stores implement the table of characters: the database with its    *)
(* relaxed limit and nothing lost, the in-memory store with the exact one. *)
THEOREM StoreRefinement == Spec => StoresAreTables
  <1>1. Init => Database!Init /\ InMemory!Init
    BY DEF Init, Database!Init, InMemory!Init
  <1>2. ASSUME IInv, [Next]_vars
        PROVE  [Database!Next]_<<rows, nextId>> /\ [InMemory!Next]_<<memory, nextId>>
    <2>t. /\ LimitHolds /\ IsFiniteSet(rows) /\ MaxCharacters \in Nat \ {0}
      BY <1>2, LimitAssumption DEF IInv, TypeOK
    <2>2. CASE RowAdded
      <3>1. PICK w \in Senders, a \in Accounts, n \in ValidNames :
              /\ job[w] # NoJob /\ job[w].kind = "insert" /\ job[w].account = a
              /\ \A c \in rows : c.name # n
              /\ nextId' = nextId + 1
              /\ rows' = rows \cup {New(a, n)} /\ memory' = memory
        BY <2>2 DEF RowAdded
      <3>2. Cardinality(Inserting(a)) >= 1
        <4>1. w \in Inserting(a)
          BY <3>1 DEF Inserting
        <4> QED
          BY <4>1, InsertingFinite, FS_EmptySet
      <3>3. Cardinality(Owned(rows, a)) < MaxCharacters - 1 + Cardinality(Senders)
        BY <2>t, <3>2, OwnedSubset, InsertingFinite DEF LimitHolds
      <3>4. \A c \in rows : [m \in ValidNames |-> m][c.name] # [m \in ValidNames |-> m][n]
        BY <1>2, <3>1 DEF IInv, TypeOK, Characters
      <3>5. Database!Create(a, n)
        BY <3>1, <3>3, <3>4, SameCardinality DEF Database!Create, Owned, New
      <3>6. Database!Next
        BY <3>5 DEF Database!Next
      <3>7. InMemory!SkipId
        BY <3>1 DEF InMemory!SkipId
      <3> QED
        BY <3>6, <3>7 DEF InMemory!Next
    <2>3. CASE MemoryAdded
      <3>1. PICK a \in Subjects, n \in ValidNames :
              /\ \A c \in memory : Fold[c.name] # Fold[n]
              /\ Cardinality(Owned(memory, a)) < MaxCharacters
              /\ nextId' = nextId + 1
              /\ memory' = memory \cup {New(a, n)} /\ rows' = rows
        BY <2>3 DEF MemoryAdded
      <3>2. InMemory!Create(a, n)
        BY <3>1, SameCardinality DEF InMemory!Create, Owned, New
      <3>3. InMemory!Next
        BY <3>2 DEF InMemory!Next
      <3>4. Database!SkipId
        BY <3>1 DEF Database!SkipId
      <3> QED
        BY <3>3, <3>4 DEF Database!Next
    <2>4. CASE RowDeleted
      <3>1. PICK c \in rows : rows' = rows \ {c} /\ memory' = memory /\ nextId' = nextId
        BY <2>4 DEF RowDeleted
      <3>2. Database!Delete(c)
        BY <3>1 DEF Database!Delete
      <3> QED
        BY <3>1, <3>2 DEF Database!Next
    <2>5. CASE MemoryDeleted
      <3>1. PICK c \in memory : memory' = memory \ {c} /\ rows' = rows /\ nextId' = nextId
        BY <2>5 DEF MemoryDeleted
      <3>2. InMemory!Delete(c)
        BY <3>1 DEF InMemory!Delete
      <3> QED
        BY <3>1, <3>2 DEF InMemory!Next
    <2>6. CASE Counted \/ DeleteSent \/ Moved
      BY <2>6 DEF Counted, DeleteSent, Moved
    <2>7. CASE Quiet
      BY <2>7 DEF Quiet, InMemory!Next, InMemory!Lose
    <2> QED
      BY <1>2, <2>2, <2>3, <2>4, <2>5, <2>6, <2>7, Effects DEF Effect
  <1> QED
    BY <1>1, <1>2, StoreInvariance, PTL
       DEF Spec, StoresAreTables, Database!Spec, InMemory!Spec
=============================================================================
