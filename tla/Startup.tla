------------------------------- MODULE Startup -------------------------------
(***************************************************************************)
(* cmd/postbode: how processes start on one home directory.  A daemon      *)
(* loads config.yaml, opens the database and migrates it (queue.Open),     *)
(* needs a Gmail identity, takes the review token from session.token or    *)
(* mints it (webui.LoadOrCreateToken), binds the port of the review UI or  *)
(* goes on without, and runs.  A command (`postbode status', `find',       *)
(* `retry' ...) opens the database the same way and ends.                  *)
(*                                                                         *)
(* The processes share the database file, session.token and the port.      *)
(* SQLite has one writer at a time: a process waits five seconds for it    *)
(* (busy_timeout) and then fails, and a transaction that is not committed  *)
(* leaves nothing.  launchd starts its daemon again after any exit; people *)
(* start the other processes.                                              *)
(***************************************************************************)
EXTENDS Reading

CONSTANTS
  Daemons, Commands,  \* processes; a stopped one may be started again
  Managed,            \* the daemons launchd keeps alive
  Knows,              \* the migrations in each process' binary: 1..n
  Statements,         \* the statements of each migration, a sequence
  Files,              \* the versions of config.yaml a person may have put there
  Contents,           \* what each holds: the `file' of Settings!Load
  Documents,          \* the documents that may come
  MaxFaults,          \* bound: crashes, failed reads and writes, failed servers
  MaxRotations        \* bound: deletions of session.token

Procs == Daemons \cup Commands

Versions == DOMAIN Statements

Objects(v) == {Statements[v][i] : i \in DOMAIN Statements[v]}

Configured == [f \in Files |-> Load(Contents[f])]

ASSUME StartupAssumption ==
  /\ Managed \subseteq Daemons
  /\ Daemons \cap Commands = {}
  /\ Statements \in [Versions -> Seq(STRING)]
  /\ Versions \subseteq Nat
  /\ Knows \in [Procs -> SUBSET Versions]
  /\ \A p \in Procs : \A v \in Knows[p] : \A u \in Versions : u < v => u \in Knows[p]
  /\ \A v, w \in Versions : v # w => Objects(v) \cap Objects(w) = {}
  /\ Nil \notin Procs \cup Files
  /\ {MaxFaults, MaxRotations} \subseteq Nat
  /\ \A f \in Files :
       /\ Contents[f].state \in {"absent", "empty", "unreadable", "text"}
       /\ RulesIn(Contents[f]).kind = "list" => DOMAIN RulesIn(Contents[f]).items \subseteq Nat

VARIABLES
  pc,        \* where each process is
  loaded,    \* the version of config.yaml each process loaded, Nil before
  created,   \* the file is in WAL mode and has schema_migrations
  schema,    \* the committed tables, columns and indices, by statement
  applied,   \* schema_migrations
  tx,        \* the open write transaction
  todo,      \* the migrations each process has still to apply
  identity,  \* credentials.json and a Gmail token exist
  disk,      \* session.token: 0 when it is missing or blank
  held,      \* the token each process read or minted
  minted,    \* how many tokens were minted: the next one is new
  port,      \* the process that has the review UI's port, or Nil
  apart,     \* history: processes whose token may differ from the file's
  faults, rotations

dbVars == <<created, schema, applied, tx, todo>>
tokenVars == <<disk, held, minted, apart>>
bounds == <<faults, rotations>>
vars == <<pc, loaded, dbVars, identity, tokenVars, port, bounds>>

NoTx == [by |-> Nil, version |-> 0, done |-> 0]

Minting == {"truncate", "write"}
PastOpen == {"opened", "token", "truncate", "write", "bind", "running"}
HasToken == {"truncate", "write", "bind", "running"}

At(p, here) == pc[p] = here
Goto(p, there) == pc' = [pc EXCEPT ![p] = there]

(* What the end of a process leaves, however it ends: the transaction is    *)
(* rolled back and the port free.                                           *)
Exit(p) ==
  /\ Goto(p, "down")
  /\ loaded' = [loaded EXCEPT ![p] = Nil]
  /\ tx' = IF tx.by = p THEN NoTx ELSE tx
  /\ todo' = [todo EXCEPT ![p] = {}]
  /\ held' = [held EXCEPT ![p] = 0]
  /\ port' = IF port = p THEN Nil ELSE port
  /\ apart' = apart \ {p}
  /\ UNCHANGED <<created, schema, applied, identity, disk, minted>>
-----------------------------------------------------------------------------
(* Configuration.  People edit config.yaml whenever they like: what a load  *)
(* finds is any of its versions.                                            *)

Start(p) ==
  /\ At(p, "down")
  /\ Goto(p, IF p \in Daemons THEN "config" ELSE "open")
  /\ UNCHANGED <<loaded, dbVars, identity, tokenVars, port, bounds>>

LoadConfig(p) ==
  /\ At(p, "config")
  /\ \E f \in Files :
       /\ Configured[f] # Invalid
       /\ loaded' = [loaded EXCEPT ![p] = f]
  /\ Goto(p, "open")
  /\ UNCHANGED <<dbVars, identity, tokenVars, port, bounds>>

(* F-29: refuse to start. *)
RefuseConfig(p) ==
  /\ At(p, "config")
  /\ \E f \in Files : Configured[f] = Invalid
  /\ Exit(p)
  /\ UNCHANGED bounds
-----------------------------------------------------------------------------
(* queue.Open. *)

(* journal_mode=WAL and CREATE TABLE IF NOT EXISTS schema_migrations lock   *)
(* the file only when they have something to do.                            *)
PrepareFile(p) ==
  /\ At(p, "open")
  /\ ~created
  /\ tx = NoTx
  /\ tx' = [by |-> p, version |-> 0, done |-> 0]
  /\ Goto(p, "prepare")
  /\ UNCHANGED <<loaded, created, schema, applied, todo, identity, tokenVars, port, bounds>>

FilePrepared(p) ==
  /\ At(p, "prepare")
  /\ created' = TRUE
  /\ tx' = NoTx
  /\ Goto(p, "open")
  /\ UNCHANGED <<loaded, schema, applied, todo, identity, tokenVars, port, bounds>>

ReadApplied(p) ==
  /\ At(p, "open")
  /\ created
  /\ todo' = [todo EXCEPT ![p] = Knows[p] \ applied]
  /\ Goto(p, "migrate")
  /\ UNCHANGED <<loaded, created, schema, applied, tx, identity, tokenVars, port, bounds>>

WantsLock(p) ==
  \/ At(p, "open") /\ ~created
  \/ At(p, "migrate") /\ todo[p] # {}

(* SQLITE_BUSY: on a new file at once (journal_mode comes before            *)
(* busy_timeout), later after five seconds.                                 *)
Busy(p) ==
  /\ WantsLock(p)
  /\ tx.by \notin {Nil, p}
  /\ Exit(p)
  /\ UNCHANGED bounds

(* The first statement of a migration takes the write lock. *)
BeginMigration(p) ==
  /\ At(p, "migrate")
  /\ tx = NoTx
  /\ \E v \in todo[p] :
       /\ \A u \in todo[p] : v <= u
       /\ tx' = [by |-> p, version |-> v, done |-> 0]
  /\ UNCHANGED <<pc, loaded, created, schema, applied, todo, identity, tokenVars, port, bounds>>

Script == Statements[tx.version]

(* Slip: the statements run outside the transaction. *)
ApplyStatementAtOnce(p) ==
  /\ At(p, "migrate")
  /\ tx.by = p
  /\ tx.done < Len(Script)
  /\ Script[tx.done + 1] \notin schema
  /\ tx' = [tx EXCEPT !.done = @ + 1]
  /\ schema' = schema \cup {Script[tx.done + 1]}
  /\ UNCHANGED <<pc, loaded, created, applied, todo, identity, tokenVars, port, bounds>>

ApplyStatement(p) ==
  /\ At(p, "migrate")
  /\ tx.by = p
  /\ tx.done < Len(Script)
  /\ Script[tx.done + 1] \notin schema
  /\ tx' = [tx EXCEPT !.done = @ + 1]
  /\ UNCHANGED <<pc, loaded, created, schema, applied, todo, identity, tokenVars, port, bounds>>

(* "already exists": another process applied it since schema_migrations was *)
(* read.                                                                    *)
StatementFails(p) ==
  /\ At(p, "migrate")
  /\ tx.by = p
  /\ tx.done < Len(Script)
  /\ Script[tx.done + 1] \in schema
  /\ Exit(p)
  /\ UNCHANGED bounds

(* Slip: the version is not recorded. *)
CommitUnrecorded(p) ==
  /\ At(p, "migrate")
  /\ tx.by = p
  /\ tx.done = Len(Script)
  /\ schema' = schema \cup Objects(tx.version)
  /\ todo' = [todo EXCEPT ![p] = @ \ {tx.version}]
  /\ tx' = NoTx
  /\ UNCHANGED <<pc, loaded, created, applied, identity, tokenVars, port, bounds>>

CommitMigration(p) ==
  /\ At(p, "migrate")
  /\ tx.by = p
  /\ tx.done = Len(Script)
  /\ schema' = schema \cup Objects(tx.version)
  /\ applied' = applied \cup {tx.version}
  /\ todo' = [todo EXCEPT ![p] = @ \ {tx.version}]
  /\ tx' = NoTx
  /\ UNCHANGED <<pc, loaded, created, identity, tokenVars, port, bounds>>

Migrated(p) ==
  /\ At(p, "migrate")
  /\ todo[p] = {}
  /\ Goto(p, "opened")
  /\ UNCHANGED <<loaded, dbVars, identity, tokenVars, port, bounds>>

CommandEnds(p) ==
  /\ p \in Commands
  /\ At(p, "opened")
  /\ Exit(p)
  /\ UNCHANGED bounds
-----------------------------------------------------------------------------
(* The daemon after it opened the database. *)

(* buildGmailService finds no credentials: exit 0 with a notice. *)
NotAuthenticated(p) ==
  /\ p \in Daemons
  /\ At(p, "opened")
  /\ ~identity
  /\ Exit(p)
  /\ UNCHANGED bounds

Authenticated(p) ==
  /\ p \in Daemons
  /\ At(p, "opened")
  /\ identity
  /\ Goto(p, "token")
  /\ UNCHANGED <<loaded, dbVars, identity, tokenVars, port, bounds>>

OthersMinting(p) == {q \in Procs \ {p} : pc[q] \in Minting}

(* Who has a token that the one now read or minted may not agree with.      *)
Settle(p) == apart' = IF OthersMinting(p) = {} THEN apart \ {p}
                      ELSE apart \cup {p} \cup OthersMinting(p)

ReadToken(p) ==
  /\ At(p, "token")
  /\ disk # 0
  /\ held' = [held EXCEPT ![p] = disk]
  /\ Settle(p)
  /\ Goto(p, "bind")
  /\ UNCHANGED <<loaded, dbVars, identity, disk, minted, port, bounds>>

(* Slip: the new token is served without being written. *)
GenerateTokenOnly(p) ==
  /\ At(p, "token")
  /\ disk = 0
  /\ minted' = minted + 1
  /\ held' = [held EXCEPT ![p] = minted']
  /\ Settle(p)
  /\ Goto(p, "bind")
  /\ UNCHANGED <<loaded, dbVars, identity, disk, port, bounds>>

GenerateToken(p) ==
  /\ At(p, "token")
  /\ disk = 0
  /\ minted' = minted + 1
  /\ held' = [held EXCEPT ![p] = minted']
  /\ Settle(p)
  /\ Goto(p, "truncate")
  /\ UNCHANGED <<loaded, dbVars, identity, disk, port, bounds>>

(* os.WriteFile truncates before it writes. *)
TruncateToken(p) ==
  /\ At(p, "truncate")
  /\ disk' = 0
  /\ Goto(p, "write")
  /\ UNCHANGED <<loaded, dbVars, identity, held, minted, apart, port, bounds>>

WriteToken(p) ==
  /\ At(p, "write")
  /\ disk' = held[p]
  /\ Goto(p, "bind")
  /\ UNCHANGED <<loaded, dbVars, identity, held, minted, apart, port, bounds>>

(* The port is tried once.  Without it the daemon polls and has no UI.      *)
Bind(p) ==
  /\ At(p, "bind")
  /\ port' = IF port = Nil THEN p ELSE port
  /\ Goto(p, "running")
  /\ UNCHANGED <<loaded, dbVars, identity, tokenVars, bounds>>
-----------------------------------------------------------------------------
(* Faults and people. *)

Fault == faults < MaxFaults /\ faults' = faults + 1 /\ UNCHANGED rotations

(* A crash, a signal, a reboot; an error of a read or a write, but for one  *)
(* of reading session.token.                                                *)
Stop(p) ==
  /\ Fault
  /\ pc[p] # "down"
  /\ Exit(p)

(* Any error of reading session.token counts as `nothing usable there': the *)
(* token in it is replaced, and who holds it is set apart.                  *)
GenerateTokenOverUnread(p) ==
  /\ Fault
  /\ At(p, "token")
  /\ disk # 0
  /\ minted' = minted + 1
  /\ held' = [held EXCEPT ![p] = minted']
  /\ apart' = (IF OthersMinting(p) = {} THEN apart \ {p} ELSE apart \cup {p})
                \cup {q \in Procs \ {p} : pc[q] \in HasToken}
  /\ Goto(p, "truncate")
  /\ UNCHANGED <<loaded, dbVars, identity, disk, port>>

(* The server's goroutine ends with an error; the daemon does not. *)
ServeFails(p) ==
  /\ Fault
  /\ port = p
  /\ port' = Nil
  /\ UNCHANGED <<pc, loaded, dbVars, identity, tokenVars>>

(* The deliberate rotation of token.go:90-93. *)
DeleteToken ==
  /\ rotations < MaxRotations
  /\ rotations' = rotations + 1
  /\ disk # 0
  /\ disk' = 0
  /\ apart' = apart \cup {p \in Procs : pc[p] \in HasToken}
  /\ UNCHANGED <<pc, loaded, dbVars, identity, held, minted, port, faults>>

(* `make spike', once. *)
Authenticate ==
  /\ ~identity
  /\ identity' = TRUE
  /\ UNCHANGED <<pc, loaded, dbVars, tokenVars, port, bounds>>
-----------------------------------------------------------------------------
Init ==
  /\ pc = [p \in Procs |-> "down"]
  /\ loaded = [p \in Procs |-> Nil]
  /\ created = FALSE
  /\ schema = {}
  /\ applied = {}
  /\ tx = NoTx
  /\ todo = [p \in Procs |-> {}]
  /\ identity \in BOOLEAN
  /\ disk = 0
  /\ held = [p \in Procs |-> 0]
  /\ minted = 0
  /\ port = Nil
  /\ apart = {}
  /\ faults = 0
  /\ rotations = 0

OpenStep(p) ==
  \/ PrepareFile(p)
  \/ FilePrepared(p)
  \/ ReadApplied(p)
  \/ Busy(p)
  \/ BeginMigration(p)
  \/ ApplyStatement(p)
  \/ StatementFails(p)
  \/ CommitMigration(p)
  \/ Migrated(p)

DaemonStep(p) ==
  \/ LoadConfig(p)
  \/ RefuseConfig(p)
  \/ NotAuthenticated(p)
  \/ Authenticated(p)
  \/ ReadToken(p)
  \/ GenerateToken(p)
  \/ TruncateToken(p)
  \/ WriteToken(p)
  \/ Bind(p)

(* What a process does once it is started. *)
Step(p) == OpenStep(p) \/ CommandEnds(p) \/ DaemonStep(p)

Mishap(p) == Stop(p) \/ GenerateTokenOverUnread(p) \/ ServeFails(p)

People == DeleteToken \/ Authenticate

Next ==
  \/ \E p \in Procs : Start(p) \/ Step(p) \/ Mishap(p)
  \/ People

(* A running process runs on, and launchd starts its daemon again.  Nobody  *)
(* has to start another process, mend the file or authenticate.             *)
Fairness ==
  /\ \A p \in Procs : WF_vars(Step(p))
  /\ \A p \in Managed : WF_vars(Start(p))

Spec == Init /\ [][Next]_vars

LiveSpec == Spec /\ Fairness
-----------------------------------------------------------------------------
(* Properties. *)

(* The schema is that of the migrations on record and nothing else, in      *)
(* their order, whoever crashed, lost the race for the lock or ran an older *)
(* binary; and a process that got past queue.Open finds every migration its *)
(* binary knows (db.go:61-63: a failure cannot leave the schema             *)
(* half-changed).                                                           *)
SchemaIsWhole ==
  /\ schema = UNION {Objects(v) : v \in applied}
  /\ \A v \in applied, u \in Versions : u < v => u \in applied
  /\ \A p \in Procs : pc[p] \in PastOpen => Knows[p] \subseteq applied

WrittenFiles == {f \in Files : AsWritten(Contents[f], Documents)}

(* F-26 to F-29, F-87: a daemon that is past the load decides about every   *)
(* document as the rules and the watch scope of the file it loaded are      *)
(* written, the first rule that applies winning, with the bounds the file   *)
(* asks for in force and above zero; and it never is up on a file with a    *)
(* defect anywhere in it, nor on a part of one (config.go:10-14).           *)
RulesAsWritten ==
  \A p \in Daemons : pc[p] \notin {"down", "config"} => loaded[p] \in WrittenFiles

(* F-46: the token in session.token, which `postbode review' hands to the   *)
(* browser, is the one the review UI accepts, whoever restarts and however  *)
(* a write was cut off - unless a person deleted the file since, two        *)
(* daemons looked for a token while one of them was minting it, or another  *)
(* daemon could not read the file and minted over it since                  *)
(* (token.go:94-108).                                                       *)
ReviewIsLetIn == port # Nil /\ port \notin apart => disk = held[port]

(* F-60, F-61: once there is a Gmail identity and config.yaml is sound each *)
(* time they load it, launchd's daemons come up and stay up, whatever a     *)
(* migration, another process or a token file half written did to earlier   *)
(* starts.                                                                  *)
DaemonsComeUp ==
  \A p \in Managed :
    <>[]identity /\ <>[][~RefuseConfig(p)]_vars => <>[](pc[p] = "running")
=============================================================================
