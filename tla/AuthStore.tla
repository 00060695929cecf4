----------------------------- MODULE AuthStore -----------------------------
(***************************************************************************)
(* The accounts of family_chat: the configuration in memory behind         *)
(* state.auth, its file auth.json, and the handlers that change both       *)
(* (plugins/family_chat/src/api.rs and auth.rs).                           *)
(*                                                                         *)
(* create_user and update_user change the memory under the lock, clone it, *)
(* release the lock and save the clone; bootstrap saves first and keeps    *)
(* the lock meanwhile.  A save is tokio::fs::write: the file is opened and *)
(* truncated, then written from its start, on a blocking thread that goes  *)
(* on even when the request is dropped.  Nothing orders two saves.  The    *)
(* process may crash between any two steps and start again.                *)
(***************************************************************************)
EXTENDS Naturals, Sequences, FiniteSets

CONSTANTS
    Request,            \* admin requests that may be under way at once
    Name,               \* lower-cased user names
    Admin,              \* the name of the administrator in a bootstrap
    Member,             \* the name of the ordinary user in a bootstrap
    Sections,           \* whether the configuration may have a bootstrap section
    MaxVersion,         \* bound: changes made to one configuration
    MaxSecret,          \* bound: configurations created
    MaxCrashes          \* bound: crashes of the process

ASSUME AuthAssumption ==
    /\ Admin \in Name /\ Member \in Name /\ Admin # Member
    /\ Sections \subseteq BOOLEAN
    /\ MaxVersion \in Nat /\ MaxSecret \in Nat /\ MaxCrashes \in Nat

VARIABLES
    phase,      \* the process: down, bootstrapping, up
    mem,        \* state.auth, NoConfig when it is None
    file,       \* auth.json
    holder,     \* the bootstrap request that holds the lock, if any
    req,        \* req[q]: what request q is about
    secrets,    \* configurations created so far: each has its own secret
    crashes,    \* crashes so far
    inForce,    \* the configurations that were in memory (history)
    mishaps,    \* a torn file read, a whole one that could not be read, a
                \* bootstrap dropped as it wrote, a change made while another
                \* one was being saved (history)
    acked       \* last change reported as done: [secret, version] (history)

vars == <<phase, mem, file, holder, req, secrets, crashes, inForce, mishaps, acked>>

-----------------------------------------------------------------------------
Account == [id : Nat, name : Name, admin : BOOLEAN, disabled : BOOLEAN]

\* version is not in the file: it numbers the changes made to the memory.
Config == [secret : Nat, version : Nat, users : Seq(Account)]
NoConfig == [secret |-> 0, version |-> 0, users |-> <<>>]

File == [state : {"missing", "torn", "whole"}, size : Nat, cfg : Config]

Work == [at : {"idle", "saving", "writing", "queued", "orphan"}, cfg : Config]
Idle == [at |-> "idle", cfg |-> NoConfig]
NoOne == "nobody"

ASSUME NoOneAssumption == NoOne \notin Request

NewAccount(n, name, admin) ==
    [id |-> n, name |-> name, admin |-> admin, disabled |-> FALSE]

\* Mutant of IsNextId: the number of accounts, taken once more.
IsLength(users, n) == n = Len(users)

\* AuthConfig::next_id, max of the ids plus one, for any list of accounts.
IsNextId(users, n) ==
    /\ \A i \in DOMAIN users : users[i].id < n
    /\ users = <<>> => n = 1
    /\ users # <<>> => \E i \in DOMAIN users : users[i].id = n - 1

\* The length of the file, up to what matters: an account takes about a
\* hundred bytes, and "disabled":true is one shorter than "disabled":false.
Size(cfg) ==
    100 * Len(cfg.users)
        - Cardinality({i \in DOMAIN cfg.users : cfg.users[i].disabled})

\* Opening for writing empties the file; a write puts the new text over the
\* start of what other writers put there since, and leaves their tail.  A
\* write that is cut short leaves as much of the new text as was written.
Torn(n) == [state |-> "torn", size |-> n, cfg |-> NoConfig]
Truncated == Torn(0)

Overwritten(cfg) ==
    IF file.size <= Size(cfg)
    THEN [state |-> "whole", size |-> Size(cfg), cfg |-> cfg]
    ELSE Torn(file.size)

CutShort(cfg) ==
    {Torn(n) : n \in {m \in {file.size, Size(cfg) - 1} : file.size <= m}}

Init ==
    /\ phase = "down"
    /\ mem = NoConfig
    /\ file = [state |-> "missing", size |-> 0, cfg |-> NoConfig]
    /\ holder = NoOne
    /\ req = [q \in Request |-> Idle]
    /\ secrets = 0
    /\ crashes = 0
    /\ inForce = {}
    /\ mishaps = {}
    /\ acked = [secret |-> 0, version |-> 0]

-----------------------------------------------------------------------------
(* AppState::new.  A file that is missing, cannot be parsed or cannot be  *)
(* read, whole as it may be, is taken for a first run; the configuration's *)
(* bootstrap section may be edited while the process is down.              *)

FirstRun ==
    \/ /\ TRUE \in Sections
       /\ secrets < MaxSecret
       /\ secrets' = secrets + 1
       /\ file' = Truncated
       /\ phase' = "bootstrapping"
    \/ /\ FALSE \in Sections
       /\ phase' = "up"
       /\ UNCHANGED <<file, secrets>>

Load ==
    /\ phase = "down"
    /\ \/ /\ file.state = "whole"
          /\ phase' = "up"
          /\ mem' = file.cfg
          /\ inForce' = inForce \cup {file.cfg.secret}
          /\ UNCHANGED <<file, secrets, mishaps>>
       \/ /\ FirstRun
          /\ mishaps' = mishaps \cup CASE file.state = "missing" -> {}
                                      [] file.state = "torn"    -> {"torn"}
                                      [] file.state = "whole"   -> {"unreadable"}
          /\ UNCHANGED <<mem, inForce>>
    /\ UNCHANGED <<holder, req, crashes, acked>>

\* The bootstrap section's account is written, then put in memory.
ConfigCreated ==
    LET cfg == [secret |-> secrets, version |-> 0,
                users |-> <<NewAccount(1, Admin, TRUE)>>]
    IN  /\ phase = "bootstrapping"
        /\ file' = Overwritten(cfg)
        /\ mem' = cfg
        /\ phase' = "up"
        /\ inForce' = inForce \cup {secrets}
        /\ UNCHANGED <<holder, req, secrets, crashes, mishaps, acked>>

\* A crash loses the memory and the requests; a write under way is cut short.
Crash ==
    /\ phase # "down"
    /\ crashes < MaxCrashes
    /\ phase' = "down"
    /\ mem' = NoConfig
    /\ holder' = NoOne
    /\ req' = [q \in Request |-> Idle]
    /\ crashes' = crashes + 1
    /\ file' \in {file} \cup
          UNION {CutShort(req[q].cfg) :
                    q \in {p \in Request : req[p].at \in {"writing", "orphan"}}}
    /\ UNCHANGED <<secrets, inForce, mishaps, acked>>

-----------------------------------------------------------------------------
(* The handlers, up to the save.                                           *)

\* Mutant of LockFree: bootstrap does not keep the lock.
LockIgnored(q) == phase = "up" /\ req[q].at = "idle"

LockFree(q) == phase = "up" /\ holder = NoOne /\ req[q].at = "idle"

\* Mutant of Bootstrap: the configuration is in memory before it is saved.
BootstrapFirst(q) ==
    LET cfg == [secret |-> secrets + 1, version |-> 0,
                users |-> <<NewAccount(1, Admin, TRUE), NewAccount(2, Member, FALSE)>>]
    IN  /\ LockFree(q)
        /\ mem = NoConfig
        /\ secrets < MaxSecret
        /\ secrets' = secrets + 1
        /\ holder' = q
        /\ mem' = cfg
        /\ req' = [req EXCEPT ![q] = [at |-> "saving", cfg |-> cfg]]
        /\ UNCHANGED <<phase, file, crashes, inForce, mishaps, acked>>

\* POST /api/bootstrap while there is no configuration: the handler keeps
\* the lock over the save.
Bootstrap(q) ==
    /\ LockFree(q)
    /\ mem = NoConfig
    /\ secrets < MaxSecret
    /\ secrets' = secrets + 1
    /\ holder' = q
    /\ req' = [req EXCEPT ![q] =
                 [at |-> "saving",
                  cfg |-> [secret |-> secrets + 1, version |-> 0,
                           users |-> <<NewAccount(1, Admin, TRUE),
                                       NewAccount(2, Member, FALSE)>>]]]
    /\ UNCHANGED <<phase, mem, file, crashes, inForce, mishaps, acked>>

\* Mutant of Change: the clone is changed, the memory is not.
ChangeOfClone(q, users) ==
    LET cfg == [secret |-> mem.secret, version |-> mem.version + 1, users |-> users]
    IN  /\ mem.version < MaxVersion
        /\ req' = [req EXCEPT ![q] = [at |-> "saving", cfg |-> cfg]]
        /\ UNCHANGED <<phase, mem, file, holder, secrets, crashes, inForce,
                       mishaps, acked>>

\* The change of create_user and update_user: made in memory and cloned
\* under the lock, saved after it.
Change(q, users) ==
    LET cfg == [secret |-> mem.secret, version |-> mem.version + 1, users |-> users]
    IN  /\ mem.version < MaxVersion
        /\ mem' = cfg
        /\ req' = [req EXCEPT ![q] = [at |-> "saving", cfg |-> cfg]]
        /\ mishaps' = IF \E p \in Request : req[p].at # "idle"
                      THEN mishaps \cup {"overlap"} ELSE mishaps
        /\ UNCHANGED <<phase, file, holder, secrets, crashes, inForce, acked>>

\* A taken name is refused with 409 and changes nothing.
CreateUser(q, name) ==
    /\ LockFree(q)
    /\ mem # NoConfig
    /\ \A i \in DOMAIN mem.users : mem.users[i].name # name
    /\ \E n \in 1..(Len(mem.users) + 1) :
          /\ IsNextId(mem.users, n)
          /\ Change(q, Append(mem.users, NewAccount(n, name, FALSE)))

UpdateUser(q, i, disabled) ==
    /\ LockFree(q)
    /\ mem # NoConfig
    /\ Change(q, [mem.users EXCEPT ![i].disabled = disabled])

-----------------------------------------------------------------------------
(* save_auth, and what follows it.                                         *)

OpenFile(q) ==
    /\ req[q].at \in {"saving", "queued"}
    /\ file' = Truncated
    /\ req' = [req EXCEPT ![q].at = IF @ = "saving" THEN "writing" ELSE "orphan"]
    /\ UNCHANGED <<phase, mem, holder, secrets, crashes, inForce, mishaps, acked>>

\* The request is answered: bootstrap puts its configuration in force and
\* releases the lock, the others have nothing left to do.
Reply(q) ==
    LET cfg == req[q].cfg
    IN  /\ req' = [req EXCEPT ![q] = Idle]
        /\ IF holder = q
           THEN mem' = cfg /\ holder' = NoOne /\ inForce' = inForce \cup {cfg.secret}
           ELSE UNCHANGED <<mem, holder, inForce>>
        /\ acked' = IF cfg.secret = acked.secret /\ cfg.version < acked.version
                    THEN acked
                    ELSE [secret |-> cfg.secret, version |-> cfg.version]

WriteFile(q) ==
    /\ req[q].at = "writing"
    /\ file' = Overwritten(req[q].cfg)
    /\ Reply(q)
    /\ UNCHANGED <<phase, secrets, crashes, mishaps>>

\* Mutant of SaveFails: the error of the save is ignored.
FailureIgnored(q) ==
    /\ req[q].at \in {"saving", "writing"}
    /\ Reply(q)
    /\ UNCHANGED <<phase, file, secrets, crashes, mishaps>>

\* The directory or the file cannot be written, or only in part: 500
\* "persist", the memory keeps a change that was made before the save.
SaveFails(q) ==
    /\ req[q].at \in {"saving", "writing"}
    /\ file' \in {file} \cup (IF req[q].at = "writing" THEN CutShort(req[q].cfg) ELSE {})
    /\ req' = [req EXCEPT ![q] = Idle]
    /\ holder' = IF holder = q THEN NoOne ELSE holder
    /\ UNCHANGED <<phase, mem, secrets, crashes, inForce, mishaps, acked>>

\* The client hangs up and the handler is dropped where it awaits: the lock
\* is released.  A write that was handed to the blocking thread is finished
\* all the same.
HangUp(q) ==
    /\ \/ /\ req[q].at = "saving"
          /\ req' = [req EXCEPT ![q] = Idle]
          /\ UNCHANGED mishaps
       \/ /\ req[q].at \in {"saving", "writing"}
          /\ req' = [req EXCEPT ![q].at = IF @ = "saving" THEN "queued" ELSE "orphan"]
          /\ mishaps' = IF holder = q THEN mishaps \cup {"dropped"} ELSE mishaps
    /\ holder' = IF holder = q THEN NoOne ELSE holder
    /\ UNCHANGED <<phase, mem, file, secrets, crashes, inForce, acked>>

\* Nobody hears whether the write of a dropped request succeeds.
OrphanWrite(q) ==
    /\ req[q].at = "orphan"
    /\ file' \in {file, Overwritten(req[q].cfg)} \cup CutShort(req[q].cfg)
    /\ req' = [req EXCEPT ![q] = Idle]
    /\ UNCHANGED <<phase, mem, holder, secrets, crashes, inForce, mishaps, acked>>

-----------------------------------------------------------------------------
Handle(q) ==
    \/ Bootstrap(q)
    \/ \E name \in Name : CreateUser(q, name)
    \/ \E i \in DOMAIN mem.users, disabled \in BOOLEAN : UpdateUser(q, i, disabled)
    \/ OpenFile(q)
    \/ WriteFile(q)
    \/ SaveFails(q)
    \/ HangUp(q)
    \/ OrphanWrite(q)

Next ==
    \/ Load
    \/ ConfigCreated
    \/ Crash
    \/ \E q \in Request : Handle(q)

Spec == Init /\ [][Next]_vars

-----------------------------------------------------------------------------
Types ==
    /\ phase \in {"down", "bootstrapping", "up"}
    /\ mem \in Config
    /\ file \in File
    /\ holder \in Request \cup {NoOne}
    /\ req \in [Request -> Work]
    /\ secrets \in Nat
    /\ crashes \in Nat
    /\ inForce \subseteq Nat
    /\ mishaps \subseteq {"torn", "unreadable", "dropped", "overlap"}
    /\ acked \in [secret : Nat, version : Nat]

\* The state has the types of the code, and a bootstrap that has the lock has
\* not put its configuration in memory before the save is done: whatever
\* fails, hangs up or crashes, the lock is with a request that saves.
TypeOK ==
    /\ Types
    /\ holder # NoOne =>
          /\ phase = "up" /\ mem = NoConfig
          /\ req[holder].at \in {"saving", "writing"}

Unique(users) ==
    \A i, j \in DOMAIN users :
        users[i].id = users[j].id \/ users[i].name = users[j].name => i = j

\* No two accounts share an id or a name: in memory, in the file, and in
\* the clones of the requests that save at the same time.
UniqueAccounts ==
    /\ Unique(mem.users)
    /\ Unique(file.cfg.users)
    /\ \A q \in Request : Unique(req[q].cfg.users)

\* The file of the configuration in force never tells of a change the
\* memory has not seen, and never names an account otherwise: a restart may
\* go back in time, but not sideways.
FileIsThePast ==
    file.state = "whole" /\ phase = "up" /\ file.cfg.secret = mem.secret =>
        /\ file.cfg.version <= mem.version
        /\ Len(file.cfg.users) <= Len(mem.users)
        /\ \A i \in DOMAIN file.cfg.users :
              /\ file.cfg.users[i].id = mem.users[i].id
              /\ file.cfg.users[i].name = mem.users[i].name

\* At most one configuration is ever in force, however many bootstrap
\* requests race or fail and wherever the process crashes, unless a start
\* found a file that was torn or could not be read, or the client of a
\* bootstrap hung up as the file was written.
OneConfiguration ==
    mishaps \cap {"torn", "unreadable", "dropped"} = {} => Cardinality(inForce) <= 1

\* "Bootstrap should not run again": once there is a configuration, a start
\* uses it, also when the process crashed before.
BootstrapRunsOnce == mishaps \subseteq {"torn"} => Cardinality(inForce) <= 1

\* A change reported as done is in the file whenever the file can be read,
\* through crashes, failed saves and requests dropped half-way, as long as
\* no change was made while another was being saved.
ReportedSaved ==
    file.state = "whole" /\ file.cfg.secret = acked.secret
        => file.cfg.version >= acked.version

AckedIsSaved == mishaps = {} => ReportedSaved

\* auth.rs calls the configuration persistent: a change reported as done is
\* in the file whenever the file can be read, whatever else is being saved.
ReportedIsSaved == mishaps \subseteq {"overlap"} => ReportedSaved

=============================================================================
