--------------------------- MODULE CharacterStore ---------------------------
(***************************************************************************)
(* The characters of all accounts and everyone who reads or writes them:   *)
(* the connection tasks of the game server in character selection          *)
(* (gateway::run_connection, phase 2), through the CharacterStore the      *)
(* server chose at startup, and the HTTP handlers of the login server,     *)
(* which always use the database.                                          *)
(*                                                                         *)
(* A critical section of the in-memory store, and a query of the database, *)
(* is one step.  A statement that changes the database is sent in one step *)
(* and commits in another, and the client hears of it in a third: others   *)
(* run in between, and each of the three may fail to happen.  The worker   *)
(* may stop waiting for a statement (its connection to the database        *)
(* breaks, its handler is dropped, its server restarts) that commits all   *)
(* the same, and the reply to one that has committed may be lost.          *)
(***************************************************************************)
EXTENDS Naturals, FiniteSets

CONSTANTS
    Gateways,       \* connection tasks of the game server
    Requests,       \* requests the login server handles at a time
    Adrift,         \* places for statements that nobody waits for: bounds them
    Accounts,       \* accounts that can be registered
    DevAccount,     \* a token used as account in dev mode, not a UUID
    Names,          \* names a client may ask for
    ValidNames,     \* those validate_name accepts
    Fold,           \* Fold[n]: n without the case of its letters
    MaxCharacters,  \* MAX_CHARACTERS_PER_ACCOUNT (10)
    MaxId,          \* bounds the characters ever created
    MaxBusy,        \* bounds the requests and statements others start amid
    NoAccount, NoJob, NoCharacter, NoAnswer

ASSUME WorkersAssumption ==
    /\ IsFiniteSet(Gateways) /\ IsFiniteSet(Requests) /\ IsFiniteSet(Adrift)
    /\ Gateways \cap Requests = {} /\ (Gateways \cup Requests) \cap Adrift = {}
ASSUME AccountsAssumption ==
    NoAccount \notin Accounts \cup {DevAccount} /\ DevAccount \notin Accounts
ASSUME NamesAssumption == ValidNames \subseteq Names /\ DOMAIN Fold = Names
ASSUME LimitAssumption == MaxCharacters \in Nat \ {0} /\ MaxId \in Nat /\ MaxBusy \in Nat

Workers == Gateways \cup Requests
Senders == Workers \cup Adrift
Subjects == Accounts \cup {DevAccount}

VARIABLES
    backend,     \* the game server's store: "database" or "memory"
    devAuth,     \* skip_validation of the gateway
    registered,  \* the accounts the login server has made
    rows,        \* the characters table of the database
    memory,      \* the map of the in-memory store
    nextId,      \* source of character ids (UUIDs)
    online,      \* account_uuid of a connection task in phase 2 or later
    job,         \* the INSERT or DELETE on its way to the database, by sender
    outcome,     \* what a worker has to tell its client
    play,        \* the character a connection task plays

    \* Not the program's, for AcknowledgedHolds:
    word         \* the last word between owner and servers on a row, by id

people == <<devAuth, registered>>
tables == <<rows, memory, nextId>>
vars == <<backend, people, tables, online, job, outcome, play, word>>

Characters == [id : 1 .. MaxId, owner : Subjects, name : ValidNames]
Kinds == {"read", "created", "deleted", "failed"}
Words == {"none", "created", "asked", "deleted"}
Answers == [worker : Workers, kind : Kinds, account : Subjects,
            characters : SUBSET Characters]
Statements == [kind : {"insert"}, account : Accounts, name : ValidNames]
              \cup [kind : {"delete"}, account : Accounts, id : 1 .. MaxId]

Init ==
    /\ backend \in {"database", "memory"}
    /\ devAuth \in BOOLEAN
    /\ registered = {}
    /\ rows = {}
    /\ memory = {}
    /\ nextId = 1
    /\ online = [g \in Gateways |-> NoAccount]
    /\ job = [x \in Senders |-> NoJob]
    /\ outcome = [w \in Workers |-> NoAnswer]
    /\ play = [g \in Gateways |-> NoCharacter]
    /\ word = [i \in 1 .. MaxId |-> "none"]
------------------------------------------------------------------------------
(* Accounts, tokens and connections.                                       *)

(* A second INSERT of a username fails on its UNIQUE constraint. *)
Register(a) ==
    /\ a \notin registered
    /\ registered' = registered \cup {a}
    /\ UNCHANGED <<backend, devAuth, tables, online, job, outcome, play, word>>

(* a's owner may show a valid token.  A login makes one and changes nothing *)
(* a server keeps, and may happen as soon as the account is made, and again *)
(* when a token's 24 hours are over.                                        *)
HasToken(a) == a \in registered

(* validate_token: in dev mode the token itself is the account. *)
Admitted(a) == devAuth \/ HasToken(a)

Connect(g) ==
    /\ online[g] = NoAccount
    /\ \E a \in Subjects :
        /\ Admitted(a)
        /\ online' = [online EXCEPT ![g] = a]
    /\ UNCHANGED <<backend, people, tables, job, outcome, play, word>>

(* A task ends where it reads from its client, not in the middle of a      *)
(* statement it awaits, nor of a reply.                                    *)
Disconnect(g) ==
    /\ online[g] # NoAccount /\ job[g] = NoJob /\ outcome[g] = NoAnswer
    /\ online' = [online EXCEPT ![g] = NoAccount]
    /\ play' = [play EXCEPT ![g] = NoCharacter]
    /\ UNCHANGED <<backend, people, tables, job, outcome, word>>

(* The game server restarts: its tasks, what they waited for, what they    *)
(* had still to say and the in-memory store are gone, and it uses the      *)
(* database if that answers now.  A statement on its way is lost here, or  *)
(* was set adrift (GiveUp) before.                                         *)
Restart ==
    /\ backend' \in {"database", "memory"}
    /\ devAuth' \in BOOLEAN
    /\ memory' = {}
    /\ online' = [g \in Gateways |-> NoAccount]
    /\ play' = [g \in Gateways |-> NoCharacter]
    /\ job' = [x \in Senders |-> IF x \in Gateways THEN NoJob ELSE job[x]]
    /\ outcome' = [w \in Workers |-> IF w \in Gateways THEN NoAnswer ELSE outcome[w]]
    /\ UNCHANGED <<registered, rows, nextId, word>>
------------------------------------------------------------------------------
(* The operations on characters.                                           *)

Busy(x) == job[x] # NoJob \/ (x \in Workers /\ outcome[x] # NoAnswer)

(* w handles a request of account a: a connection task in selection, or an *)
(* HTTP handler that extracted a from a valid token.                       *)
Serves(w, a) ==
    /\ ~Busy(w) /\ Cardinality({x \in Senders : Busy(x)}) < MaxBusy
    /\ \/ w \in Gateways /\ online[w] = a /\ play[w] = NoCharacter
       \/ w \in Requests /\ HasToken(a)

OnDatabase(x) == x \in Gateways => backend = "database"

(* The database store and the login server refuse an account that is not a *)
(* UUID before they send any statement.                                    *)
Reachable(w, a) == OnDatabase(w) => a \in Accounts

Stored(x) == IF OnDatabase(x) THEN rows ELSE memory

Owned(table, a) == {c \in table : c.owner = a}

(* WHERE id = $1 AND account_id = $2, or the account's own list *)
\* Mutant: the id alone selects the row.
FoundOfAll(x, a, i) == {c \in Stored(x) : c.id = i}
Found(x, a, i) == {c \in Stored(x) : c.id = i /\ c.owner = a}

(* eq_ignore_ascii_case in memory, the UNIQUE constraint in the database *)
\* Mutant: the in-memory store compares names with their case.
NameTakenExactly(x, n) == \E c \in Stored(x) : c.name = n
NameTaken(x, n) ==
    \E c \in Stored(x) :
        IF OnDatabase(x) THEN c.name = n ELSE Fold[c.name] = Fold[n]

Update(x, table) ==
    IF OnDatabase(x) THEN rows' = table /\ UNCHANGED memory
                     ELSE memory' = table /\ UNCHANGED rows

Report(w, kind, a, cs) == [worker |-> w, kind |-> kind, account |-> a, characters |-> cs]

(* When x is a worker it has that to tell; otherwise nobody is told. *)
Done(x, kind, a, cs) ==
    outcome' = [w \in Workers |-> IF w = x THEN Report(w, kind, a, cs) ELSE outcome[w]]

List(w, a) ==
    /\ Serves(w, a) /\ Reachable(w, a)
    /\ Done(w, "read", a, Owned(Stored(w), a))
    /\ UNCHANGED <<backend, people, tables, online, job, play, word>>

\* Mutant: the count is compared with > in place of >=.
RoomForOneMore(w, a) == Cardinality(Owned(Stored(w), a)) <= MaxCharacters
Room(w, a) == Cardinality(Owned(Stored(w), a)) < MaxCharacters

Insert(x, a, n) ==
    LET c == [id |-> nextId, owner |-> a, name |-> n] IN
    /\ nextId <= MaxId
    /\ ~NameTaken(x, n)
    /\ OnDatabase(x) => a \in registered   \* REFERENCES accounts(id)
    /\ Update(x, Stored(x) \cup {c})
    /\ nextId' = nextId + 1
    /\ Done(x, "created", a, {c})

Remove(x, a, i) ==
    /\ Found(x, a, i) # {}
    /\ Update(x, Stored(x) \ Found(x, a, i))
    /\ Done(x, "deleted", a, Found(x, a, i))
    /\ UNCHANGED nextId

(* InMemoryCharacterStore::create, under its mutex throughout *)
CreateInMemory(w, a, n) ==
    /\ Serves(w, a) /\ ~OnDatabase(w)
    /\ n \in ValidNames /\ Room(w, a)
    /\ Insert(w, a, n)
    /\ UNCHANGED <<backend, people, online, job, play, word>>

(* The COUNT of a creation in the database; the INSERT follows at once. *)
CountRows(w, a, n) ==
    /\ Serves(w, a) /\ OnDatabase(w) /\ Reachable(w, a)
    /\ n \in ValidNames /\ Room(w, a)
    /\ job' = [job EXCEPT ![w] = [kind |-> "insert", account |-> a, name |-> n]]
    /\ UNCHANGED <<backend, people, tables, online, outcome, play, word>>

(* The INSERT commits. *)
InsertRow(x) ==
    /\ job[x] # NoJob /\ job[x].kind = "insert"
    /\ Insert(x, job[x].account, job[x].name)
    /\ job' = [job EXCEPT ![x] = NoJob]
    /\ UNCHANGED <<backend, people, online, play, word>>

(* InMemoryCharacterStore::delete *)
DeleteInMemory(w, a, i) ==
    /\ Serves(w, a) /\ ~OnDatabase(w)
    /\ Remove(w, a, i)
    /\ UNCHANGED <<backend, people, online, job, play, word>>

(* A DELETE is sent, for an id that was given to somebody: a UUID that was *)
(* not is found nowhere (Fails).                                           *)
SendDelete(w, a, i) ==
    /\ Serves(w, a) /\ OnDatabase(w) /\ Reachable(w, a)
    /\ i < nextId
    /\ job' = [job EXCEPT ![w] = [kind |-> "delete", account |-> a, id |-> i]]
    /\ word' = [word EXCEPT ![i] =
                    IF \E c \in rows : c.id = i /\ c.owner = a THEN "asked" ELSE @]
    /\ UNCHANGED <<backend, people, tables, online, outcome, play>>

(* It commits. *)
DeleteRow(x) ==
    /\ job[x] # NoJob /\ job[x].kind = "delete"
    /\ Remove(x, job[x].account, job[x].id)
    /\ job' = [job EXCEPT ![x] = NoJob]
    /\ UNCHANGED <<backend, people, online, play, word>>

(* A statement changes nothing: the name is taken, the account is not      *)
(* registered, no row is found, or the statement is lost on its way.       *)
StatementFails(x) ==
    /\ job[x] # NoJob
    /\ job' = [job EXCEPT ![x] = NoJob]
    /\ Done(x, "failed", job[x].account, {})
    /\ UNCHANGED <<backend, people, tables, online, play, word>>

(* w waits no longer for its statement, and the database still has it: the *)
(* connection between them breaks, which is an error of the query to w,    *)
(* the handler is dropped with its client's HTTP connection, or the server *)
(* restarts.                                                               *)
GiveUp(w, x) ==
    /\ job[w] # NoJob /\ job[x] = NoJob
    /\ job' = [job EXCEPT ![x] = job[w], ![w] = NoJob]
    /\ Done(w, "failed", job[w].account, {})
    /\ UNCHANGED <<backend, people, tables, online, play, word>>

(* w has this to tell of row i of the database. *)
Claims(w, kind, i) ==
    /\ outcome[w] # NoAnswer /\ outcome[w].kind = kind /\ OnDatabase(w)
    /\ \E c \in outcome[w].characters : c.id = i

(* The client hears what has become of its request ... *)
Reply(w) ==
    /\ outcome[w] # NoAnswer
    /\ outcome' = [outcome EXCEPT ![w] = NoAnswer]
    /\ word' = [i \in 1 .. MaxId |->
                    IF Claims(w, "deleted", i) THEN "deleted"
                    ELSE IF Claims(w, "created", i) /\ word[i] = "none" THEN "created"
                    ELSE word[i]]
    /\ UNCHANGED <<backend, people, tables, online, job, play>>

(* ... or does not, although it is done: the database's reply is lost, the *)
(* handler is dropped, or write_tcp_message fails.                         *)
ReplyLost(w) ==
    /\ outcome[w] # NoAnswer
    /\ outcome' = [outcome EXCEPT ![w] = NoAnswer]
    /\ UNCHANGED <<backend, people, tables, online, job, play, word>>

(* get_full of the gateway: the task then places the player in a zone. *)
SelectCharacter(w, a, i) ==
    /\ w \in Gateways
    /\ Serves(w, a) /\ Reachable(w, a)
    /\ \E c \in Found(w, a, i) : play' = [play EXCEPT ![w] = c]
    /\ UNCHANGED <<backend, people, tables, online, job, outcome, word>>

(* GET /characters/:id of the login server *)
GetCharacter(w, a, i) ==
    /\ w \in Requests
    /\ Serves(w, a)
    /\ Found(w, a, i) # {}
    /\ Done(w, "read", a, Found(w, a, i))
    /\ UNCHANGED <<backend, people, tables, online, job, play, word>>

(* Any request may end in an error before it changes a table: an invalid   *)
(* name, no room, nothing found, an account that is no UUID, a query that  *)
(* fails.  The gateway answers some with CharacterCreateFailed and others  *)
(* not at all.                                                             *)
Fails(w, a) ==
    /\ Serves(w, a)
    /\ Done(w, "failed", a, {})
    /\ UNCHANGED <<backend, people, tables, online, job, play, word>>

Next ==
    \/ \E a \in Accounts : Register(a)
    \/ \E g \in Gateways : Connect(g) \/ Disconnect(g)
    \/ Restart
    \/ \E x \in Senders : InsertRow(x) \/ DeleteRow(x) \/ StatementFails(x)
    \/ \E w \in Workers :
        \/ \E x \in Adrift : GiveUp(w, x)
        \/ Reply(w) \/ ReplyLost(w)
    \/ \E w \in Workers, a \in Subjects :
        \/ List(w, a) \/ Fails(w, a)
        \/ \E n \in Names : CreateInMemory(w, a, n) \/ CountRows(w, a, n)
        \/ \E i \in 1 .. MaxId :
            \/ DeleteInMemory(w, a, i) \/ SendDelete(w, a, i)
            \/ SelectCharacter(w, a, i) \/ GetCharacter(w, a, i)

Spec == Init /\ [][Next]_vars
------------------------------------------------------------------------------
(* The variables hold values of their types. *)
TypeOK ==
    /\ backend \in {"database", "memory"}
    /\ devAuth \in BOOLEAN
    /\ registered \subseteq Accounts
    /\ rows \subseteq Characters /\ IsFiniteSet(rows)
    /\ memory \subseteq Characters /\ IsFiniteSet(memory)
    /\ nextId \in 1 .. MaxId + 1
    /\ online \in [Gateways -> Subjects \cup {NoAccount}]
    /\ job \in [Senders -> Statements \cup {NoJob}]
    /\ outcome \in [Workers -> Answers \cup {NoAnswer}]
    /\ play \in [Gateways -> Characters \cup {NoCharacter}]
    /\ word \in [1 .. MaxId -> Words]

(* The INSERTs on their way for a, each counted for before it was sent *)
Inserting(a) == {x \in Senders : job[x] # NoJob /\ job[x].kind = "insert" /\ job[x].account = a}

(* The limit on an account's characters holds exactly in memory.  In the   *)
(* database every INSERT on its way was counted for without the others, so *)
(* the limit is exceeded by at most the statements that are on their way   *)
(* at a time, less one; those that nobody waits for are among them.        *)
LimitHolds ==
    /\ \A a \in Subjects : Cardinality(Owned(memory, a)) <= MaxCharacters
    /\ \A a \in Accounts :
        Cardinality(Owned(rows, a)) + Cardinality(Inserting(a))
            <= MaxCharacters - 1 + Cardinality(Senders)

(* No interleaving of creations gives two characters one name: the names   *)
(* in the database differ, those in memory differ whatever their case.     *)
NamesUnique ==
    /\ \A c, d \in rows : c.name = d.name => c = d
    /\ \A c, d \in memory : Fold[c.name] = Fold[d.name] => c = d

(* Ids are never given twice, to either store. *)
IdsFresh ==
    /\ \A c \in rows \cup memory : c.id < nextId
    /\ \A c, d \in rows : c.id = d.id => c = d
    /\ \A c, d \in memory : c.id = d.id => c = d

(* Accounts are kept apart: what a worker listed, created, fetched, or     *)
(* deleted, and has to tell, belongs to the account it acts for, to which  *)
(* its connection still belongs; so does the character it plays.           *)
AccountsApart ==
    /\ \A w \in Workers : outcome[w] # NoAnswer =>
        /\ outcome[w].worker = w
        /\ \A c \in outcome[w].characters : c.owner = outcome[w].account
        /\ w \in Gateways => outcome[w].account = online[w]
    /\ \A g \in Gateways : play[g] # NoCharacter => play[g].owner = online[g]

(* A worker waits for the database only for the account it still acts for, *)
(* and with nothing to tell.                                               *)
JobShape ==
    \A w \in Workers : job[w] # NoJob =>
        /\ OnDatabase(w) /\ outcome[w] = NoAnswer
        /\ w \in Gateways => online[w] = job[w].account

Ids(table) == {c.id : c \in table}

(* What a client was told of the database is and stays true, whatever      *)
(* statements are late, given up or lost and whatever restarts: a          *)
(* character it was told to be created is there until its owner asks for   *)
(* its deletion, and one it was told to be deleted never comes back.       *)
(* Nothing holds the other way round: a request that ended in an error or  *)
(* without an answer may have been carried out, or may still be.           *)
AcknowledgedHolds ==
    \A i \in 1 .. MaxId :
        /\ word[i] = "created" => i \in Ids(rows)
        /\ word[i] = "deleted" => i \notin Ids(rows)

(* Why that is so: what is to be told holds from the commit on, ids are    *)
(* not given again, and a DELETE on its way was asked for by the owner of  *)
(* what it will find.                                                      *)
ClaimsHold ==
    /\ \A w \in Workers, i \in 1 .. MaxId :
        /\ Claims(w, "created", i) =>
            i < nextId /\ (i \in Ids(rows) \/ word[i] \in {"asked", "deleted"})
        /\ Claims(w, "deleted", i) => i < nextId /\ i \notin Ids(rows)
    /\ \A i \in 1 .. MaxId : word[i] # "none" => i < nextId
    /\ \A x \in Senders : job[x] # NoJob /\ job[x].kind = "delete" =>
        /\ job[x].id < nextId
        /\ \A c \in rows : c.id = job[x].id /\ c.owner = job[x].account =>
            word[c.id] = "asked"

(* All of them at once: limits, names and ids hold in both stores whatever *)
(* the handlers of the two servers interleave.                             *)
IInv ==
    /\ TypeOK /\ LimitHolds /\ NamesUnique /\ IdsFresh /\ AccountsApart
    /\ JobShape /\ AcknowledgedHolds /\ ClaimsHold

(* The stores as tables of characters, with their limits and name classes. *)
Database == INSTANCE CharacterTable WITH
    Accounts <- Accounts, Names <- ValidNames, table <- rows, Volatile <- FALSE,
    Class <- [n \in ValidNames |-> n], Limit <- MaxCharacters - 1 + Cardinality(Senders)
InMemory == INSTANCE CharacterTable WITH
    Accounts <- Subjects, Names <- ValidNames, table <- memory, Volatile <- TRUE,
    Class <- Fold, Limit <- MaxCharacters

(* The database, used by the gateway and the login server at once, is a    *)
(* table that loses nothing, though racing INSERTs exceed the limit by     *)
(* one less than they are; the in-memory store is a table with the exact   *)
(* limit, and without case in its names, that is lost with the game        *)
(* server.                                                                 *)
StoresAreTables == Database!Spec /\ InMemory!Spec
=============================================================================
