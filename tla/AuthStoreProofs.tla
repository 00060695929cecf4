-------------------------- MODULE AuthStoreProofs --------------------------
(***************************************************************************)
(* Proofs about AuthStore for any number of overlapping requests, any      *)
(* names and any bounds.                                                   *)
(***************************************************************************)
EXTENDS AuthStore, FiniteSetTheorems, SequenceTheorems, TLAPS

\* The absence of a configuration, of work and of a file's text.
LEMMA NoConfigType == NoConfig \in Config /\ Idle \in Work /\ Truncated \in File
BY DEF NoConfig, Config, Idle, Work, Truncated, Torn, File

\* Lists of one and of two elements.
LEMMA ShortSequence ==
    ASSUME NEW S, NEW a \in S, NEW b \in S
    PROVE  <<a>> \in Seq(S) /\ <<a, b>> \in Seq(S)
OBVIOUS

\* A list with one more element is a list.
LEMMA LongerSequence ==
    ASSUME NEW S, NEW s \in Seq(S), NEW a \in S
    PROVE  Append(s, a) \in Seq(S)
OBVIOUS

\* New accounts are accounts, administrators or not.
LEMMA AccountType ==
    ASSUME NEW n \in Nat, NEW name \in Name
    PROVE  /\ NewAccount(n, name, TRUE) \in Account
           /\ NewAccount(n, name, FALSE) \in Account
BY DEF NewAccount, Account

\* The length of a text is a number.
LEMMA SizeType ==
    ASSUME NEW cfg \in Config
    PROVE  Size(cfg) \in Nat
<1> DEFINE n == Len(cfg.users)
           D == {i \in DOMAIN cfg.users : cfg.users[i].disabled}
<1>1. n \in Nat /\ DOMAIN cfg.users = 1..n
  BY DEF Config
<1>2. IsFiniteSet(1..n) /\ Cardinality(1..n) = n
  BY <1>1, FS_Interval
<1>3. D \subseteq 1..n
  BY <1>1
<1>4. Cardinality(D) \in Nat /\ Cardinality(D) <= n
  BY <1>2, <1>3, FS_Subset, FS_CardinalityType
<1> HIDE DEF D
<1>5. Size(cfg) = 100 * n - Cardinality(D)
  BY DEF Size, D
<1> QED BY <1>1, <1>4, <1>5

\* The file after a write is a file, torn or whole.
LEMMA OverwrittenType ==
    ASSUME Types, NEW cfg \in Config
    PROVE  Overwritten(cfg) \in File
BY SizeType, NoConfigType DEF Overwritten, Torn, File, Types

\* The file after a write that was cut short is a torn one.
LEMMA CutShortType ==
    ASSUME Types, NEW cfg \in Config, NEW f \in CutShort(cfg)
    PROVE  f \in File /\ f.state = "torn" /\ f.cfg = NoConfig
<1>1. PICK n \in {file.size, Size(cfg) - 1} : file.size <= n /\ f = Torn(n)
  BY DEF CutShort
<1>2. file.size \in Nat /\ Size(cfg) \in Nat
  BY SizeType DEF Types, File
<1>3. n \in Nat
  BY <1>1, <1>2
<1> QED BY <1>1, <1>3, NoConfigType DEF Torn, File

\* What a crash may leave of the file.
LEMMA CrashedFile ==
    ASSUME Types, Crash
    PROVE  \/ file' = file
           \/ file' \in File /\ file'.state = "torn" /\ file'.cfg = NoConfig
<1>1. CASE file' = file
  BY <1>1
<1>2. CASE file' # file
  <2>1. PICK q \in Request : file' \in CutShort(req[q].cfg)
    BY <1>2 DEF Crash
  <2>2. PICK cfg \in Config : cfg = req[q].cfg
    BY DEF Types, Work
  <2> QED BY <2>1, <2>2, CutShortType
<1> QED BY <1>1, <1>2

\* What a save that fails may leave of the file.
LEMMA FailedFile ==
    ASSUME Types, NEW q \in Request, SaveFails(q)
    PROVE  \/ file' = file
           \/ file' \in File /\ file'.state = "torn" /\ file'.cfg = NoConfig
<1>1. PICK cfg \in Config : cfg = req[q].cfg
  BY DEF Types, Work
<1>2. file' = file \/ file' \in CutShort(cfg)
  BY <1>1 DEF SaveFails
<1> QED BY <1>1, <1>2, CutShortType

\* What the write of a dropped request may leave of the file.
LEMMA OrphanFile ==
    ASSUME Types, NEW q \in Request, OrphanWrite(q)
    PROVE  \/ file' = file
           \/ file' = Overwritten(req[q].cfg)
           \/ file' \in File /\ file'.state = "torn" /\ file'.cfg = NoConfig
<1>1. PICK cfg \in Config : cfg = req[q].cfg
  BY DEF Types, Work
<1>2. file' \in {file, Overwritten(cfg)} \/ file' \in CutShort(cfg)
  BY <1>1 DEF OrphanWrite
<1> QED BY <1>1, <1>2, CutShortType

\* What one request may do to the configuration it saves.
LEMMA ReplyType ==
    ASSUME Types, NEW q \in Request, Reply(q)
    PROVE  /\ mem' \in Config
           /\ holder' \in Request \cup {NoOne}
           /\ req' \in [Request -> Work]
           /\ inForce' \subseteq Nat
           /\ acked' \in [secret : Nat, version : Nat]
<1>1. req[q].cfg \in Config
  BY DEF Types, Work
<1>2. req' \in [Request -> Work]
  BY NoConfigType DEF Reply, Types
<1>3. acked' \in [secret : Nat, version : Nat]
  BY <1>1 DEF Reply, Types, Config
<1>4. CASE holder = q
  BY <1>1, <1>2, <1>3, <1>4 DEF Reply, Types, Config
<1>5. CASE holder # q
  BY <1>2, <1>3, <1>5 DEF Reply, Types
<1> QED BY <1>4, <1>5

\* A change under the lock keeps the types.
LEMMA ChangeType ==
    ASSUME Types, NEW q \in Request, NEW users \in Seq(Account), Change(q, users)
    PROVE  Types'
<1>1. [secret |-> mem.secret, version |-> mem.version + 1, users |-> users] \in Config
  BY DEF Types, Config
<1>2. mem' \in Config /\ req' \in [Request -> Work]
  BY <1>1 DEF Change, Types, Work
<1> QED BY <1>2 DEF Change, Types

\* Every reachable state has the types of the code: in particular a new id
\* is a number and no request saves what is not a configuration.
LEMMA TypesCorrect == Spec => []Types
<1>1. Init => Types
  BY NoConfigType DEF Init, Types, File
<1>2. Types /\ [Next]_vars => Types'
  <2> SUFFICES ASSUME Types, [Next]_vars PROVE Types'
    OBVIOUS
  <2> USE AuthAssumption
  <2>1. ASSUME Load PROVE Types'
    <3>1. file.cfg \in Config /\ mem \in Config
      BY DEF Types, File
    <3>2. UNCHANGED <<holder, req, crashes, acked>>
      BY <2>1 DEF Load
    <3>3. ASSUME phase' = "up", mem' = file.cfg,
                 inForce' = inForce \cup {file.cfg.secret},
                 UNCHANGED <<file, secrets, mishaps>>
          PROVE  Types'
      BY <3>1, <3>2, <3>3 DEF Types, Config
    <3>4. ASSUME FirstRun, UNCHANGED <<mem, inForce>>,
                 mishaps' = mishaps \cup CASE file.state = "missing" -> {}
                                          [] file.state = "torn"    -> {"torn"}
                                          [] file.state = "whole"   -> {"unreadable"}
          PROVE  Types'
      <4>1. file.state \in {"missing", "torn", "whole"}
        BY DEF Types, File
      <4>2. mishaps' \subseteq {"torn", "unreadable", "dropped", "overlap"}
        BY <3>4, <4>1 DEF Types
      <4>3. /\ phase' \in {"bootstrapping", "up"} /\ file' \in {file, Truncated}
            /\ secrets' \in {secrets, secrets + 1}
        BY <3>4 DEF FirstRun
      <4>4. file' \in File
        BY <4>3, NoConfigType DEF Types
      <4>5. secrets' \in Nat
        BY <4>3 DEF Types
      <4> QED BY <3>2, <3>4, <4>2, <4>3, <4>4, <4>5 DEF Types
    <3> QED BY <2>1, <3>3, <3>4 DEF Load
  <2>2. ASSUME ConfigCreated PROVE Types'
    <3> DEFINE cfg == [secret |-> secrets, version |-> 0,
                       users |-> <<NewAccount(1, Admin, TRUE)>>]
    <3>0. NewAccount(1, Admin, TRUE) \in Account
      BY AccountType
    <3>1. cfg \in Config
      <4>1. <<NewAccount(1, Admin, TRUE)>> \in Seq(Account)
        BY <3>0, ShortSequence
      <4> QED BY <4>1 DEF Types, Config
    <3>2. Overwritten(cfg) \in File
      BY <3>1, OverwrittenType
    <3> QED BY <2>2, <3>1, <3>2 DEF ConfigCreated, Types
  <2>3. ASSUME Crash PROVE Types'
    <3>1. file' \in File
      BY <2>3, CrashedFile DEF Types
    <3> QED BY <2>3, <3>1, NoConfigType DEF Crash, Types
  <2>4. ASSUME NEW q \in Request, Bootstrap(q) PROVE Types'
    <3> DEFINE users == <<NewAccount(1, Admin, TRUE), NewAccount(2, Member, FALSE)>>
    <3>0. NewAccount(1, Admin, TRUE) \in Account /\ NewAccount(2, Member, FALSE) \in Account
      BY AccountType
    <3>1. users \in Seq(Account)
      BY <3>0, ShortSequence
    <3> HIDE DEF users
    <3>2. [secret |-> secrets + 1, version |-> 0, users |-> users] \in Config
      BY <3>1 DEF Types, Config
    <3>3. req' \in [Request -> Work]
      BY <2>4, <3>2 DEF Bootstrap, Types, Work, users
    <3> QED BY <2>4, <3>3 DEF Bootstrap, Types
  <2>5. ASSUME NEW q \in Request, NEW name \in Name, CreateUser(q, name) PROVE Types'
    <3>1. mem.users \in Seq(Account)
      BY DEF Types, Config
    <3>2. PICK n \in 1..(Len(mem.users) + 1) : Change(q, Append(mem.users, NewAccount(n, name, FALSE)))
      BY <2>5 DEF CreateUser
    <3>3. NewAccount(n, name, FALSE) \in Account
      <4>1. n \in Nat
        BY <3>1
      <4> QED BY <4>1, AccountType
    <3>4. Append(mem.users, NewAccount(n, name, FALSE)) \in Seq(Account)
      BY <3>1, <3>3, LongerSequence
    <3> QED BY <3>2, <3>4, ChangeType
  <2>6. ASSUME NEW q \in Request, NEW i \in DOMAIN mem.users, NEW d \in BOOLEAN,
               UpdateUser(q, i, d)
        PROVE  Types'
    <3>1. mem.users \in Seq(Account)
      BY DEF Types, Config
    <3>2. [mem.users[i] EXCEPT !.disabled = d] \in Account
      <4>1. mem.users[i] \in Account
        BY <3>1
      <4> QED BY <4>1 DEF Account
    <3>3. [mem.users EXCEPT ![i].disabled = d] \in Seq(Account)
      BY <3>1, <3>2
    <3> QED BY <2>6, <3>3, ChangeType DEF UpdateUser
  <2>7. ASSUME NEW q \in Request, OpenFile(q) PROVE Types'
    BY <2>7, NoConfigType DEF OpenFile, Types, Work
  <2>8. ASSUME NEW q \in Request, WriteFile(q) PROVE Types'
    <3>1. Overwritten(req[q].cfg) \in File
      BY OverwrittenType DEF Types, Work
    <3> QED BY <2>8, <3>1, ReplyType DEF WriteFile, Types
  <2>9. ASSUME NEW q \in Request, SaveFails(q) PROVE Types'
    <3>1. file' \in File
      BY <2>9, FailedFile DEF Types
    <3> QED BY <2>9, <3>1, NoConfigType DEF SaveFails, Types
  <2>10. ASSUME NEW q \in Request, HangUp(q) PROVE Types'
    BY <2>10, NoConfigType DEF HangUp, Types, Work
  <2>11. ASSUME NEW q \in Request, OrphanWrite(q) PROVE Types'
    <3>1. Overwritten(req[q].cfg) \in File
      BY OverwrittenType DEF Types, Work
    <3>2. file' \in File
      BY <2>11, <3>1, OrphanFile DEF Types
    <3> QED BY <2>11, <3>2, NoConfigType DEF OrphanWrite, Types
  <2>12. ASSUME UNCHANGED vars PROVE Types'
    BY <2>12 DEF vars, Types
  <2> QED
    BY <2>1, <2>2, <2>3, <2>4, <2>5, <2>6, <2>7, <2>8, <2>9, <2>10, <2>11, <2>12
       DEF Next, Handle
<1> QED BY <1>1, <1>2, PTL DEF Spec

-----------------------------------------------------------------------------
(* Accounts stay unique in every copy of the configuration.                *)

\* A new account with a later id and a free name keeps a list unique.
LEMMA UniqueAppend ==
    ASSUME NEW users \in Seq(Account), Unique(users),
           NEW a \in Account,
           \A i \in DOMAIN users : users[i].id < a.id /\ users[i].name # a.name
    PROVE  Unique(Append(users, a))
<1> DEFINE longer == Append(users, a)
<1>1. /\ DOMAIN users = 1..Len(users) /\ Len(users) \in Nat
      /\ DOMAIN longer = 1..(Len(users) + 1)
      /\ longer[Len(users) + 1] = a
      /\ \A i \in DOMAIN users : longer[i] = users[i]
  BY AppendProperties
<1>2. \A i \in DOMAIN users : users[i].id # a.id
  <2> SUFFICES ASSUME NEW i \in DOMAIN users PROVE users[i].id # a.id
    OBVIOUS
  <2>1. users[i] \in Account
    BY <1>1
  <2>2. users[i].id \in Nat /\ a.id \in Nat /\ users[i].id < a.id
    BY <2>1 DEF Account
  <2> QED BY <2>2
<1> SUFFICES ASSUME NEW i \in DOMAIN longer, NEW j \in DOMAIN longer,
                    longer[i].id = longer[j].id \/ longer[i].name = longer[j].name
             PROVE  i = j
  BY DEF Unique
<1>3. CASE i \in DOMAIN users /\ j \in DOMAIN users
  <2> HIDE DEF longer
  <2> QED BY <1>1, <1>3 DEF Unique
<1>4. CASE i \notin DOMAIN users /\ j \notin DOMAIN users
  BY <1>1, <1>4
<1>5. CASE i \in DOMAIN users /\ j \notin DOMAIN users
  <2>1. longer[j] = a /\ longer[i] = users[i]
    BY <1>1, <1>5
  <2> HIDE DEF longer
  <2> QED BY <1>2, <1>5, <2>1
<1>6. CASE i \notin DOMAIN users /\ j \in DOMAIN users
  <2>1. longer[i] = a /\ longer[j] = users[j]
    BY <1>1, <1>6
  <2> HIDE DEF longer
  <2> QED BY <1>2, <1>6, <2>1
<1> QED BY <1>3, <1>4, <1>5, <1>6

\* The accounts that a bootstrap or the section makes are unique.
LEMMA UniqueShort ==
    ASSUME AuthAssumption
    PROVE  /\ Unique(<<>>)
           /\ Unique(<<NewAccount(1, Admin, TRUE)>>)
           /\ Unique(<<NewAccount(1, Admin, TRUE), NewAccount(2, Member, FALSE)>>)
BY DEF Unique, NewAccount, AuthAssumption

\* Overwriting the file leaves it with the text written or with none.
LEMMA OverwrittenUsers ==
    ASSUME NEW cfg
    PROVE  Overwritten(cfg).cfg \in {cfg, NoConfig}
BY DEF Overwritten, Torn

\* A change made to the memory is cloned into the request, nowhere else.
LEMMA ChangeUnique ==
    ASSUME Types, UniqueAccounts, NEW q \in Request, NEW users,
           Unique(users), Change(q, users)
    PROVE  UniqueAccounts'
<1>1. mem'.users = users /\ file' = file
  BY DEF Change
<1>2. req'[q].cfg.users = users /\ \A p \in Request \ {q} : req'[p] = req[p]
  BY DEF Change, Types
<1>3. \A p \in Request : Unique(req'[p].cfg.users)
  BY <1>2 DEF UniqueAccounts
<1> QED BY <1>1, <1>3 DEF UniqueAccounts, Unique

\* Ids and names of accounts stay unique, in memory, in the file and in the
\* clones on their way to it, whatever requests overlap, fail, are dropped
\* or are cut off by a crash.
THEOREM AccountsStayUnique == Spec => []UniqueAccounts
<1>1. Init => UniqueAccounts
  BY AuthAssumption, UniqueShort DEF Init, UniqueAccounts, NoConfig, Idle
<1>2. Types /\ UniqueAccounts /\ [Next]_vars => UniqueAccounts'
  <2> SUFFICES ASSUME Types, UniqueAccounts, [Next]_vars PROVE UniqueAccounts'
    OBVIOUS
  <2> USE AuthAssumption
  <2>0. Unique(NoConfig.users) /\ Unique(Idle.cfg.users) /\ Unique(Truncated.cfg.users)
    BY UniqueShort DEF NoConfig, Idle, Truncated, Torn
  <2>1. ASSUME Load PROVE UniqueAccounts'
    <3>1. mem' \in {mem, file.cfg} /\ file' \in {file, Truncated} /\ req' = req
      BY <2>1 DEF Load, FirstRun
    <3> QED BY <2>0, <3>1 DEF UniqueAccounts
  <2>2. ASSUME ConfigCreated PROVE UniqueAccounts'
    <3>1. mem'.users = <<NewAccount(1, Admin, TRUE)>> /\ file'.cfg \in {mem', NoConfig}
      BY <2>2, OverwrittenUsers DEF ConfigCreated
    <3>2. req' = req
      BY <2>2 DEF ConfigCreated
    <3> QED BY <2>0, <3>1, <3>2, UniqueShort DEF UniqueAccounts
  <2>3. ASSUME Crash PROVE UniqueAccounts'
    <3>1. file'.cfg \in {file.cfg, NoConfig}
      BY <2>3, CrashedFile
    <3> QED BY <2>0, <2>3, <3>1 DEF Crash, UniqueAccounts
  <2>4. ASSUME NEW q \in Request, Bootstrap(q) PROVE UniqueAccounts'
    <3>1. req'[q].cfg.users = <<NewAccount(1, Admin, TRUE), NewAccount(2, Member, FALSE)>>
      BY <2>4 DEF Bootstrap, Types
    <3>2. \A p \in Request \ {q} : req'[p] = req[p]
      BY <2>4 DEF Bootstrap, Types
    <3>3. mem' = mem /\ file' = file
      BY <2>4 DEF Bootstrap
    <3> QED BY <3>1, <3>2, <3>3, UniqueShort DEF UniqueAccounts
  <2>5. ASSUME NEW q \in Request, NEW name \in Name, CreateUser(q, name)
        PROVE  UniqueAccounts'
    <3>1. mem.users \in Seq(Account) /\ Unique(mem.users)
      BY DEF Types, Config, UniqueAccounts
    <3>2. PICK n \in 1..(Len(mem.users) + 1) :
            /\ IsNextId(mem.users, n)
            /\ Change(q, Append(mem.users, NewAccount(n, name, FALSE)))
      BY <2>5 DEF CreateUser
    <3> DEFINE a == NewAccount(n, name, FALSE)
    <3>3. n \in Nat
      BY <3>1
    <3>4. a \in Account /\ a.id = n /\ a.name = name
      BY <3>3, AccountType DEF NewAccount
    <3>5. \A i \in DOMAIN mem.users : mem.users[i].id < a.id /\ mem.users[i].name # a.name
      BY <2>5, <3>2, <3>4 DEF CreateUser, IsNextId
    <3>6. Unique(Append(mem.users, a))
      <4> HIDE DEF a
      <4> QED BY <3>1, <3>4, <3>5, UniqueAppend
    <3> QED BY <3>2, <3>6, ChangeUnique
  <2>6. ASSUME NEW q \in Request, NEW i \in DOMAIN mem.users, NEW d \in BOOLEAN,
               UpdateUser(q, i, d)
        PROVE  UniqueAccounts'
    <3> DEFINE users == [mem.users EXCEPT ![i].disabled = d]
    <3>1. mem.users \in Seq(Account)
      BY DEF Types, Config
    <3>2. /\ DOMAIN users = DOMAIN mem.users
          /\ \A j \in DOMAIN users :
                users[j].id = mem.users[j].id /\ users[j].name = mem.users[j].name
      BY <3>1 DEF Account
    <3>3. Unique(users)
      <4> HIDE DEF users
      <4> QED BY <3>2 DEF UniqueAccounts, Unique
    <3> QED BY <2>6, <3>3, ChangeUnique DEF UpdateUser
  <2>7. ASSUME NEW q \in Request, OpenFile(q) \/ SaveFails(q) \/ HangUp(q)
        PROVE  UniqueAccounts'
    <3>1. mem' = mem /\ file'.cfg \in {file.cfg, NoConfig}
      BY <2>7, FailedFile DEF OpenFile, SaveFails, HangUp, Truncated, Torn
    <3>2. \A p \in Request : req'[p].cfg \in {req[p].cfg, Idle.cfg}
      BY <2>7 DEF OpenFile, SaveFails, HangUp, Types, Work
    <3> QED BY <2>0, <3>1, <3>2 DEF UniqueAccounts
  <2>8. ASSUME NEW q \in Request, WriteFile(q) \/ OrphanWrite(q)
        PROVE  UniqueAccounts'
    <3>1. mem' \in {mem, req[q].cfg}
      BY <2>8 DEF WriteFile, Reply, OrphanWrite
    <3>2. file'.cfg \in {file.cfg, req[q].cfg, NoConfig}
      BY <2>8, OverwrittenUsers, OrphanFile DEF WriteFile
    <3>3. \A p \in Request : req'[p] \in {req[p], Idle}
      BY <2>8 DEF WriteFile, Reply, OrphanWrite, Types
    <3> QED BY <2>0, <3>1, <3>2, <3>3 DEF UniqueAccounts
  <2>9. ASSUME UNCHANGED vars PROVE UniqueAccounts'
    BY <2>9 DEF vars, UniqueAccounts, Unique
  <2> QED
    BY <2>1, <2>2, <2>3, <2>4, <2>5, <2>6, <2>7, <2>8, <2>9 DEF Next, Handle
<1> QED BY <1>1, <1>2, TypesCorrect, PTL DEF Spec

-----------------------------------------------------------------------------
(* What the three histories rest on.                                       *)

Busy(q) == req[q].at # "idle"
Whole == file.state = "whole"

\* c is the configuration d at an earlier time.
PastOf(c, d) ==
    /\ c.version <= d.version
    /\ Len(c.users) <= Len(d.users)
    /\ \A i \in DOMAIN c.users :
          c.users[i].id = d.users[i].id /\ c.users[i].name = d.users[i].name

\* Every copy has a secret that was made; a bootstrap that keeps the lock has
\* one that is nowhere else.
SecretsAreMade ==
    /\ mem # NoConfig => mem.secret \in 1..secrets
    /\ Whole => file.cfg.secret \in 1..secrets
    /\ \A q \in Request : Busy(q) => req[q].cfg.secret \in 1..secrets
    /\ acked.secret \in 0..secrets

LockIsHeld ==
    \A q \in Request : holder = q =>
        /\ phase = "up" /\ mem = NoConfig
        /\ req[q].at \in {"saving", "writing"}
        /\ \A p \in Request \ {q} :
              Busy(p) => req[p].cfg.secret # req[q].cfg.secret
        /\ Whole => file.cfg.secret # req[q].cfg.secret
        /\ acked.secret # req[q].cfg.secret

DownIsEmpty ==
    /\ phase # "up" => /\ mem = NoConfig /\ holder = NoOne
                       /\ \A q \in Request : ~Busy(q)
    /\ phase = "bootstrapping" => ~Whole /\ acked.secret < secrets

CopiesArePast ==
    /\ mem # NoConfig /\ Whole /\ file.cfg.secret = mem.secret
          => PastOf(file.cfg, mem)
    /\ \A q \in Request :
          mem # NoConfig /\ Busy(q) /\ req[q].cfg.secret = mem.secret
              => PastOf(req[q].cfg, mem)

\* As long as no two changes overlap, no copy is older than what was reported.
NothingIsOlder ==
    mishaps = {} =>
        /\ Whole /\ file.cfg.secret = acked.secret
              => file.cfg.version >= acked.version
        /\ mem # NoConfig /\ mem.secret = acked.secret
              => mem.version >= acked.version
        /\ \A q \in Request :
              Busy(q) /\ req[q].cfg.secret = acked.secret
                  => req[q].cfg.version >= acked.version
        /\ \A p, q \in Request :
              p # q /\ Busy(p) /\ Busy(q)
                  => req[p].cfg.secret # req[q].cfg.secret

\* Unless a start found the file torn or unreadable or a bootstrap was dropped
\* as it wrote, every copy is of the configuration in force.
CopiesAreInForce ==
    mishaps \cap {"torn", "unreadable", "dropped"} = {} =>
        /\ \A s, t \in inForce : s = t
        /\ file.state = "missing" => inForce = {}
        /\ Whole => inForce \subseteq {file.cfg.secret}
        /\ mem = NoConfig /\ phase # "down" => inForce = {}
        /\ mem # NoConfig => inForce \subseteq {mem.secret}
        /\ \A q \in Request :
              Busy(q) => \/ holder = q
                         \/ mem # NoConfig /\ req[q].cfg.secret = mem.secret

AuthInv ==
    /\ SecretsAreMade /\ LockIsHeld /\ DownIsEmpty
    /\ CopiesArePast /\ NothingIsOlder /\ CopiesAreInForce

-----------------------------------------------------------------------------
\* A configuration is its own past, ...
LEMMA PastOfItself ==
    ASSUME NEW c \in Config
    PROVE  PastOf(c, c)
  BY DEF PastOf, Config

\* ... the past of a past is past, ...
LEMMA PastOfPast ==
    ASSUME NEW c \in Config, NEW d \in Config, NEW e \in Config,
           PastOf(c, d), PastOf(d, e)
    PROVE  PastOf(c, e)
<1>1. c.version <= e.version /\ Len(c.users) <= Len(e.users)
  BY DEF PastOf, Config
<1>2. DOMAIN c.users \subseteq DOMAIN d.users
  BY DEF PastOf, Config
<1> QED BY <1>1, <1>2 DEF PastOf

\* ... and a change of a handler leaves what was there in the past of what is.
LEMMA ChangeKeepsPast ==
    ASSUME NEW c \in Config, NEW d \in Config, d.version = c.version + 1,
           Len(c.users) <= Len(d.users),
           \A i \in DOMAIN c.users :
              c.users[i].id = d.users[i].id /\ c.users[i].name = d.users[i].name
    PROVE  PastOf(c, d)
  BY DEF PastOf, Config

\* The file after a write: the text written, whole, or a torn one.
LEMMA OverwrittenState ==
    ASSUME NEW cfg
    PROVE  /\ Overwritten(cfg).state \in {"whole", "torn"}
           /\ Overwritten(cfg).state = "whole" => Overwritten(cfg).cfg = cfg
  BY DEF Overwritten, Torn

\* The start of the process: a file that is read is the configuration again,
\* else a section writes a new one, and without both there is none.
LEMMA LoadStep ==
    ASSUME Types, Types', AuthInv, Load
    PROVE  AuthInv'
<1> USE NoOneAssumption DEF AuthInv
<1>1. /\ phase = "down" /\ mem = NoConfig /\ holder = NoOne
      /\ \A q \in Request : ~Busy(q)
      /\ UNCHANGED <<holder, req, crashes, acked>>
  BY DEF Load, DownIsEmpty
<1>2. LockIsHeld' /\ \A q \in Request : ~Busy(q)'
  BY <1>1 DEF LockIsHeld, Busy
<1>3. ASSUME Whole, phase' = "up", mem' = file.cfg,
             inForce' = inForce \cup {file.cfg.secret},
             UNCHANGED <<file, secrets, mishaps>>
      PROVE  AuthInv'
  <2>1. file.cfg \in Config
    BY DEF Types, File
  <2>2. SecretsAreMade'
    BY <1>1, <1>2, <1>3 DEF SecretsAreMade, Whole
  <2>3. DownIsEmpty'
    BY <1>3 DEF DownIsEmpty
  <2>4. CopiesArePast'
    BY <1>2, <1>3, <2>1, PastOfItself DEF CopiesArePast
  <2>5. NothingIsOlder'
    BY <1>1, <1>2, <1>3 DEF NothingIsOlder, Whole
  <2>6. CopiesAreInForce'
    <3>1. file.cfg # NoConfig
      BY <1>3 DEF SecretsAreMade, NoConfig
    <3>2. mishaps' \cap {"torn", "unreadable", "dropped"} = {} =>
            inForce' = {file.cfg.secret} /\ file.state # "missing"
      BY <1>3 DEF CopiesAreInForce, Whole
    <3> QED BY <1>2, <1>3, <3>1, <3>2 DEF CopiesAreInForce, Whole
  <2> QED BY <1>2, <2>2, <2>3, <2>4, <2>5, <2>6
<1>4. ASSUME FirstRun, UNCHANGED <<mem, inForce>>,
             mishaps' = mishaps \cup CASE file.state = "missing" -> {}
                                      [] file.state = "torn"    -> {"torn"}
                                      [] file.state = "whole"   -> {"unreadable"}
      PROVE  AuthInv'
  <2>1. /\ mishaps \subseteq mishaps'
        /\ mishaps' \cap {"torn", "unreadable", "dropped"} = {} => file.state = "missing"
    <3>1. file.state \in {"missing", "torn", "whole"}
      BY DEF Types, File
    <3> QED BY <1>4, <3>1
  <2>2. mishaps' \cap {"torn", "unreadable", "dropped"} = {} => inForce = {}
    BY <2>1 DEF CopiesAreInForce
  <2>3. CASE secrets' = secrets + 1 /\ file' = Truncated /\ phase' = "bootstrapping"
    <3>1. ~Whole' /\ file'.state = "torn"
      BY <2>3 DEF Whole, Truncated, Torn
    <3>2. SecretsAreMade'
      BY <1>1, <1>2, <1>4, <2>3, <3>1 DEF SecretsAreMade, Types
    <3>3. DownIsEmpty'
      BY <1>1, <1>2, <1>4, <2>3, <3>1 DEF DownIsEmpty, SecretsAreMade, Types
    <3>4. CopiesArePast'
      BY <1>1, <1>2, <1>4 DEF CopiesArePast
    <3>5. NothingIsOlder'
      BY <1>1, <1>2, <1>4, <2>1, <2>3, <3>1 DEF NothingIsOlder
    <3>6. CopiesAreInForce'
      BY <1>1, <1>2, <1>4, <2>2, <3>1 DEF CopiesAreInForce
    <3> QED BY <1>2, <3>2, <3>3, <3>4, <3>5, <3>6
  <2>4. CASE phase' = "up" /\ UNCHANGED <<file, secrets>>
    <3>1. Whole' <=> Whole
      BY <2>4 DEF Whole
    <3>2. SecretsAreMade'
      BY <1>1, <1>2, <1>4, <2>4, <3>1 DEF SecretsAreMade
    <3>3. DownIsEmpty'
      BY <2>4 DEF DownIsEmpty
    <3>4. CopiesArePast'
      BY <1>1, <1>2, <1>4 DEF CopiesArePast
    <3>5. NothingIsOlder'
      BY <1>1, <1>2, <1>4, <2>1, <2>4, <3>1 DEF NothingIsOlder
    <3>6. CopiesAreInForce'
      BY <1>1, <1>2, <1>4, <2>2, <2>4, <3>1 DEF CopiesAreInForce
    <3> QED BY <1>2, <3>2, <3>3, <3>4, <3>5, <3>6
  <2> QED BY <1>4, <2>3, <2>4 DEF FirstRun
<1> QED BY <1>3, <1>4 DEF Load, Whole

\* The section's configuration is on the disk and in memory, or the file is
\* torn: nobody else is there.
LEMMA ConfigCreatedStep ==
    ASSUME Types, Types', AuthInv, ConfigCreated
    PROVE  AuthInv'
<1> USE NoOneAssumption DEF AuthInv
<1> DEFINE cfg == [secret |-> secrets, version |-> 0,
                   users |-> <<NewAccount(1, Admin, TRUE)>>]
<1>1. /\ phase = "bootstrapping" /\ file' = Overwritten(cfg) /\ mem' = cfg
      /\ phase' = "up" /\ inForce' = inForce \cup {secrets}
      /\ UNCHANGED <<holder, req, secrets, crashes, mishaps, acked>>
  BY DEF ConfigCreated
<1>2. cfg.secret = secrets /\ cfg \in Config
  BY <1>1 DEF Types
<1>3. acked.secret < secrets /\ holder = NoOne /\ \A q \in Request : ~Busy(q)'
  BY <1>1 DEF DownIsEmpty, Busy
<1> HIDE DEF cfg
<1>4. mem' # NoConfig /\ secrets \in Nat \ {0}
  <2>1. secrets # 0
    BY <1>3 DEF SecretsAreMade, Types
  <2> QED BY <1>1, <1>2, <2>1 DEF NoConfig, Types
<1>5. file'.state \in {"whole", "torn"} /\ (Whole' => file'.cfg = cfg)
  BY <1>1, OverwrittenState DEF Whole
<1>6. SecretsAreMade'
  BY <1>1, <1>2, <1>3, <1>4, <1>5 DEF SecretsAreMade
<1>7. LockIsHeld'
  BY <1>1, <1>3 DEF LockIsHeld
<1>8. DownIsEmpty'
  BY <1>1 DEF DownIsEmpty
<1>9. CopiesArePast'
  BY <1>1, <1>2, <1>3, <1>5, PastOfItself DEF CopiesArePast
<1>10. NothingIsOlder'
  BY <1>1, <1>2, <1>3, <1>5 DEF NothingIsOlder, SecretsAreMade, Types
<1>11. CopiesAreInForce'
  <2>1. mishaps' \cap {"torn", "unreadable", "dropped"} = {} => inForce' = {secrets}
    BY <1>1 DEF CopiesAreInForce, DownIsEmpty
  <2> QED BY <1>1, <1>2, <1>3, <1>4, <1>5, <2>1 DEF CopiesAreInForce
<1> QED BY <1>6, <1>7, <1>8, <1>9, <1>10, <1>11

\* A crash leaves the file or a torn one, and the memory and the requests
\* empty.
LEMMA CrashStep ==
    ASSUME Types, Types', AuthInv, Crash
    PROVE  AuthInv'
<1> USE NoOneAssumption DEF AuthInv
<1>1. /\ phase' = "down" /\ mem' = NoConfig /\ holder' = NoOne
      /\ UNCHANGED <<secrets, inForce, mishaps, acked>>
  BY DEF Crash
<1>2. \A q \in Request : ~Busy(q)'
  BY DEF Crash, Busy, Idle
<1>3. file' = file \/ (file'.state = "torn" /\ ~Whole')
  BY CrashedFile DEF Whole
<1>4. (Whole' => Whole /\ file' = file) /\ (file'.state = "missing" => file.state = "missing")
  BY <1>3 DEF Whole
<1>5. SecretsAreMade' /\ LockIsHeld' /\ DownIsEmpty' /\ CopiesArePast'
  BY <1>1, <1>2, <1>4 DEF SecretsAreMade, LockIsHeld, DownIsEmpty, CopiesArePast
<1>6. NothingIsOlder' /\ CopiesAreInForce'
  BY <1>1, <1>2, <1>4 DEF NothingIsOlder, CopiesAreInForce
<1> QED BY <1>5, <1>6

\* A bootstrap takes the lock with a secret that is nowhere else.
LEMMA BootstrapStep ==
    ASSUME Types, Types', AuthInv, NEW q \in Request, Bootstrap(q)
    PROVE  AuthInv'
<1> USE NoOneAssumption DEF AuthInv
<1>1. /\ phase = "up" /\ mem = NoConfig /\ holder = NoOne /\ ~Busy(q)
      /\ secrets' = secrets + 1 /\ holder' = q
      /\ UNCHANGED <<phase, mem, file, crashes, inForce, mishaps, acked>>
  BY DEF Bootstrap, LockFree, Busy
<1>2. req'[q].at = "saving" /\ req'[q].cfg.secret = secrets + 1
  BY DEF Bootstrap, Types
<1>3. \A p \in Request \ {q} : req'[p] = req[p] /\ (Busy(p)' <=> Busy(p))
  BY DEF Bootstrap, Types, Busy
<1>4. Whole' <=> Whole
  BY <1>1 DEF Whole
<1>5. secrets \in Nat
  BY DEF Types
<1>6. SecretsAreMade'
  BY <1>1, <1>2, <1>3, <1>4, <1>5 DEF SecretsAreMade
<1>7. LockIsHeld'
  BY <1>1, <1>2, <1>3, <1>4, <1>5 DEF LockIsHeld, SecretsAreMade
<1>8. DownIsEmpty' /\ CopiesArePast'
  BY <1>1 DEF DownIsEmpty, CopiesArePast
<1>9. NothingIsOlder'
  BY <1>1, <1>2, <1>3, <1>4, <1>5 DEF NothingIsOlder, SecretsAreMade
<1>10. CopiesAreInForce'
  BY <1>1, <1>2, <1>3, <1>4 DEF CopiesAreInForce
<1> QED BY <1>6, <1>7, <1>8, <1>9, <1>10

\* A change that renames nobody makes what there was past, and its clone is
\* the memory; another clone that is under way makes it an overlap.
LEMMA ChangeStep ==
    ASSUME Types, Types', AuthInv, NEW q \in Request, LockFree(q),
           mem # NoConfig, NEW users \in Seq(Account), Change(q, users),
           Len(mem.users) <= Len(users),
           \A i \in DOMAIN mem.users :
              /\ mem.users[i].id = users[i].id
              /\ mem.users[i].name = users[i].name
    PROVE  AuthInv'
<1> USE NoOneAssumption DEF AuthInv
<1> DEFINE cfg == [secret |-> mem.secret, version |-> mem.version + 1,
                   users |-> users]
<1>1. /\ phase = "up" /\ holder = NoOne /\ ~Busy(q) /\ mem' = cfg
      /\ UNCHANGED <<phase, file, holder, secrets, crashes, inForce, acked>>
  BY DEF Change, LockFree, Busy
<1>2. cfg \in Config /\ mem \in Config /\ file.cfg \in Config
      /\ \A p \in Request : req[p].cfg \in Config
  <2>1. mem \in Config /\ file.cfg \in Config /\ \A p \in Request : req[p].cfg \in Config
    BY DEF Types, File, Work
  <2>2. mem.secret \in Nat /\ mem.version \in Nat
    BY <2>1 DEF Config
  <2> QED BY <2>1, <2>2 DEF Config
<1>3. req'[q].at = "saving" /\ req'[q].cfg = cfg
  BY DEF Change, Types
<1>4. \A p \in Request \ {q} : req'[p] = req[p] /\ (Busy(p)' <=> Busy(p))
  BY DEF Change, Types, Busy
<1>5. /\ mishaps \subseteq mishaps'
      /\ mishaps' \subseteq mishaps \cup {"overlap"}
      /\ mishaps' = {} => \A p \in Request : ~Busy(p)
  BY DEF Change, Busy
<1>6. cfg.secret = mem.secret /\ cfg.version = mem.version + 1 /\ cfg.users = users
  OBVIOUS
<1> HIDE DEF cfg
<1>7. PastOf(mem, cfg)
  BY <1>2, <1>6, ChangeKeepsPast
<1>8. mem.secret \in 1..secrets /\ mem' # NoConfig
  <2>1. mem.secret \in 1..secrets
    BY DEF SecretsAreMade
  <2> QED BY <1>1, <1>6, <2>1 DEF NoConfig, Types
<1>9. Whole' <=> Whole
  BY <1>1 DEF Whole
<1>10. SecretsAreMade'
  BY <1>1, <1>3, <1>4, <1>6, <1>8, <1>9 DEF SecretsAreMade
<1>11. LockIsHeld'
  BY <1>1 DEF LockIsHeld
<1>12. DownIsEmpty'
  BY <1>1 DEF DownIsEmpty
<1>13. CopiesArePast'
  <2>1. Whole' /\ file'.cfg.secret = mem'.secret => PastOf(file'.cfg, cfg)
    BY <1>1, <1>2, <1>6, <1>7, <1>9, PastOfPast DEF CopiesArePast
  <2>2. ASSUME NEW p \in Request, Busy(p)', req'[p].cfg.secret = mem'.secret
        PROVE  PastOf(req'[p].cfg, cfg)
    <3>1. CASE p = q
      BY <1>2, <1>3, <3>1, PastOfItself
    <3>2. CASE p # q
      <4>1. PastOf(req[p].cfg, mem)
        BY <1>1, <1>4, <1>6, <2>2, <3>2 DEF CopiesArePast
      <4> QED BY <1>2, <1>4, <1>7, <3>2, <4>1, PastOfPast
    <3> QED BY <3>1, <3>2
  <2> QED BY <1>1, <2>1, <2>2 DEF CopiesArePast
<1>14. NothingIsOlder'
  <2>1. SUFFICES ASSUME mishaps' = {} PROVE NothingIsOlder'
    BY DEF NothingIsOlder
  <2>2. mishaps = {} /\ \A p \in Request : ~Busy(p)
    BY <1>5, <2>1
  <2>3. \A p \in Request : Busy(p)' => p = q
    BY <1>4, <2>2
  <2>4. mem.secret = acked.secret => cfg.version >= acked.version
    BY <1>2, <1>6, <2>2 DEF NothingIsOlder, Types, Config
  <2> QED BY <1>1, <1>3, <1>6, <1>9, <2>2, <2>3, <2>4 DEF NothingIsOlder
<1>15. CopiesAreInForce'
  <2>1. mishaps' \cap {"torn", "unreadable", "dropped"} = {} => mishaps \cap {"torn", "unreadable", "dropped"} = {}
    BY <1>5
  <2> QED BY <1>1, <1>3, <1>4, <1>6, <1>8, <1>9, <2>1 DEF CopiesAreInForce
<1> QED BY <1>10, <1>11, <1>12, <1>13, <1>14, <1>15

\* A save begins: the file is torn until it is written.
LEMMA OpenFileStep ==
    ASSUME Types, Types', AuthInv, NEW q \in Request, OpenFile(q)
    PROVE  AuthInv'
<1> USE NoOneAssumption DEF AuthInv
<1>1. /\ UNCHANGED <<phase, mem, holder, secrets, crashes, inForce, mishaps, acked>>
      /\ file'.state = "torn" /\ ~Whole'
  BY DEF OpenFile, Truncated, Torn, Whole
<1>2. /\ \A p \in Request : req'[p].cfg = req[p].cfg /\ (Busy(p)' <=> Busy(p))
      /\ holder = q => req'[q].at \in {"saving", "writing"}
      /\ \A p \in Request \ {q} : req'[p].at = req[p].at
  BY DEF OpenFile, Types, Work, Busy, LockIsHeld
<1>3. SecretsAreMade' /\ DownIsEmpty' /\ CopiesArePast'
  BY <1>1, <1>2 DEF SecretsAreMade, DownIsEmpty, CopiesArePast
<1>4. LockIsHeld'
  BY <1>1, <1>2 DEF LockIsHeld
<1>5. NothingIsOlder' /\ CopiesAreInForce'
  BY <1>1, <1>2 DEF NothingIsOlder, CopiesAreInForce
<1> QED BY <1>3, <1>4, <1>5

\* A save fails: its request and the lock it may keep are gone, the file is
\* as it was or torn.
LEMMA SaveFailsStep ==
    ASSUME Types, Types', AuthInv, NEW q \in Request, SaveFails(q)
    PROVE  AuthInv'
<1> USE NoOneAssumption DEF AuthInv
<1>1. /\ UNCHANGED <<phase, mem, secrets, crashes, inForce, mishaps, acked>>
      /\ holder' = (IF holder = q THEN NoOne ELSE holder)
  BY DEF SaveFails
<1>2. /\ ~Busy(q)'
      /\ \A p \in Request \ {q} : req'[p] = req[p] /\ (Busy(p)' <=> Busy(p))
  BY DEF SaveFails, Types, Busy, Idle
<1>3. file' = file \/ (file'.state = "torn" /\ ~Whole')
  BY FailedFile DEF Whole
<1>4. (Whole' => Whole /\ file' = file) /\ (file'.state = "missing" => file.state = "missing")
  BY <1>3 DEF Whole
<1>5. SecretsAreMade' /\ DownIsEmpty' /\ CopiesArePast'
  BY <1>1, <1>2, <1>4 DEF SecretsAreMade, DownIsEmpty, CopiesArePast
<1>6. LockIsHeld'
  BY <1>1, <1>2, <1>4 DEF LockIsHeld
<1>7. NothingIsOlder' /\ CopiesAreInForce'
  BY <1>1, <1>2, <1>4 DEF NothingIsOlder, CopiesAreInForce
<1> QED BY <1>5, <1>6, <1>7

\* A client hangs up: a bootstrap that may write after it is a mishap.
LEMMA HangUpStep ==
    ASSUME Types, Types', AuthInv, NEW q \in Request, HangUp(q)
    PROVE  AuthInv'
<1> USE NoOneAssumption DEF AuthInv
<1>1. /\ UNCHANGED <<phase, mem, file, secrets, crashes, inForce, acked>>
      /\ holder' = (IF holder = q THEN NoOne ELSE holder)
      /\ Whole' <=> Whole
      /\ Busy(q) /\ mishaps \subseteq mishaps'
  BY DEF HangUp, Whole, Busy
<1>2. /\ Busy(q)' => /\ req'[q].cfg = req[q].cfg
                     /\ holder = q => "dropped" \in mishaps'
      /\ \A p \in Request \ {q} : req'[p] = req[p] /\ (Busy(p)' <=> Busy(p))
  BY DEF HangUp, Types, Work, Busy, Idle
<1>3. SecretsAreMade' /\ DownIsEmpty' /\ CopiesArePast'
  BY <1>1, <1>2 DEF SecretsAreMade, DownIsEmpty, CopiesArePast
<1>4. LockIsHeld'
  BY <1>1, <1>2 DEF LockIsHeld
<1>5. NothingIsOlder' /\ CopiesAreInForce'
  BY <1>1, <1>2 DEF NothingIsOlder, CopiesAreInForce
<1> QED BY <1>3, <1>4, <1>5

\* A request that writes and one whose client went leave the file whole with
\* their clone, or torn; a bootstrap that still has the lock comes into force.
LEMMA WriteStep ==
    ASSUME Types, Types', AuthInv, NEW q \in Request,
           WriteFile(q) \/ OrphanWrite(q)
    PROVE  AuthInv'
<1> USE NoOneAssumption DEF AuthInv
<1>0. PICK cfg \in Config : cfg = req[q].cfg
  BY DEF Types, Work
<1>1. UNCHANGED <<phase, secrets, crashes, mishaps>> /\ Busy(q)
  BY DEF WriteFile, OrphanWrite, Busy
<1>2. ASSUME WriteFile(q)
      PROVE  file'.state \in {"whole", "torn"} /\ (Whole' => file'.cfg = cfg)
  BY <1>0, <1>2, OverwrittenState DEF WriteFile, Whole
<1>3. /\ ~Busy(q)'
      /\ \A p \in Request \ {q} : req'[p] = req[p] /\ (Busy(p)' <=> Busy(p))
  BY DEF WriteFile, Reply, OrphanWrite, Types, Busy, Idle
<1>4. cfg.secret \in 1..secrets /\ cfg # NoConfig
  BY <1>0, <1>1 DEF SecretsAreMade, NoConfig
<1>5. ASSUME mishaps \cap {"torn", "unreadable", "dropped"} = {}, holder # q
      PROVE  inForce \subseteq {cfg.secret}
  BY <1>0, <1>1, <1>5 DEF CopiesAreInForce
<1>6. CASE OrphanWrite(q)
  <2>1. UNCHANGED <<mem, holder, inForce, acked>> /\ req[q].at = "orphan"
    BY <1>6 DEF OrphanWrite
  <2>2. holder # q
    BY <2>1 DEF LockIsHeld
  <2>3. /\ Whole' => file'.cfg = cfg \/ (Whole /\ file'.cfg = file.cfg)
        /\ file'.state = "missing" => file.state = "missing"
    BY <1>0, <1>6, OrphanFile, OverwrittenState DEF Whole
  <2>4. SecretsAreMade'
    BY <1>1, <1>3, <1>4, <2>1, <2>3 DEF SecretsAreMade
  <2>5. LockIsHeld'
    BY <1>0, <1>1, <1>3, <2>1, <2>2, <2>3 DEF LockIsHeld
  <2>6. DownIsEmpty'
    BY <1>1, <2>1, <2>2 DEF DownIsEmpty
  <2>7. CopiesArePast'
    BY <1>0, <1>1, <1>3, <2>1, <2>3 DEF CopiesArePast
  <2>8. NothingIsOlder'
    BY <1>0, <1>1, <1>3, <2>1, <2>3 DEF NothingIsOlder
  <2>9. CopiesAreInForce'
    BY <1>1, <1>3, <1>5, <2>1, <2>2, <2>3 DEF CopiesAreInForce
  <2> QED BY <2>4, <2>5, <2>6, <2>7, <2>8, <2>9
<1>7. CASE WriteFile(q)
  <2>0. file'.state \in {"whole", "torn"} /\ (Whole' => file'.cfg = cfg)
    BY <1>2, <1>7
  <2>1. acked' = IF cfg.secret = acked.secret /\ cfg.version < acked.version
                 THEN acked
                 ELSE [secret |-> cfg.secret, version |-> cfg.version]
    BY <1>0, <1>7 DEF WriteFile, Reply
  <2>2. /\ acked'.secret = cfg.secret
        /\ mishaps = {} => acked'.version = cfg.version
    <3>1. CASE cfg.secret = acked.secret /\ cfg.version < acked.version
      <4>1. mishaps = {} => cfg.version >= acked.version
        BY <1>0, <1>1, <3>1 DEF NothingIsOlder
      <4>2. cfg.version \in Nat /\ acked.version \in Nat
        BY DEF Config, Types
      <4> QED BY <2>1, <3>1, <4>1, <4>2
    <3>2. CASE ~(cfg.secret = acked.secret /\ cfg.version < acked.version)
      BY <2>1, <3>2
    <3> QED BY <3>1, <3>2
  <2>3. CASE holder = q
    <3>1. mem' = cfg /\ holder' = NoOne /\ inForce' = inForce \cup {cfg.secret}
      BY <1>0, <1>7, <2>3 DEF WriteFile, Reply
    <3>2. /\ phase = "up" /\ mem = NoConfig
          /\ \A p \in Request \ {q} : Busy(p) => req[p].cfg.secret # cfg.secret
      BY <1>0, <2>3 DEF LockIsHeld
    <3>3. SecretsAreMade'
      BY <1>1, <2>0, <1>3, <1>4, <2>2, <3>1 DEF SecretsAreMade
    <3>4. LockIsHeld' /\ DownIsEmpty'
      BY <1>1, <3>1, <3>2 DEF LockIsHeld, DownIsEmpty
    <3>5. CopiesArePast'
      BY <2>0, <1>3, <3>1, <3>2, PastOfItself DEF CopiesArePast
    <3>6. NothingIsOlder'
      <4>1. cfg.version \in Nat
        BY DEF Config
      <4> QED BY <1>1, <2>0, <1>3, <2>2, <3>1, <3>2, <4>1 DEF NothingIsOlder
    <3>7. CopiesAreInForce'
      <4>1. mishaps \cap {"torn", "unreadable", "dropped"} = {} =>
              /\ inForce' = {cfg.secret}
              /\ \A p \in Request \ {q} : ~Busy(p)
        BY <2>3, <3>1, <3>2 DEF CopiesAreInForce
      <4> QED BY <1>1, <2>0, <1>3, <1>4, <3>1, <4>1 DEF CopiesAreInForce
    <3> QED BY <3>3, <3>4, <3>5, <3>6, <3>7
  <2>4. CASE holder # q
    <3>1. UNCHANGED <<mem, holder, inForce>>
      BY <1>7, <2>4 DEF WriteFile, Reply
    <3>2. SecretsAreMade'
      BY <1>1, <2>0, <1>3, <1>4, <2>2, <3>1 DEF SecretsAreMade
    <3>3. LockIsHeld'
      BY <1>0, <1>1, <2>0, <1>3, <2>2, <2>4, <3>1 DEF LockIsHeld
    <3>4. DownIsEmpty'
      BY <1>1, <3>1 DEF DownIsEmpty
    <3>5. CopiesArePast'
      BY <1>0, <1>1, <2>0, <1>3, <3>1 DEF CopiesArePast
    <3>6. NothingIsOlder'
      <4>1. cfg.version \in Nat
        BY DEF Config
      <4>2. mem # NoConfig /\ mem.secret = cfg.secret => mem.version >= cfg.version
        <5>1. mem.version \in Nat
          BY DEF Types, Config
        <5> QED BY <1>0, <1>1, <4>1, <5>1 DEF CopiesArePast, PastOf
      <4>3. mishaps = {} =>
              \A p \in Request \ {q} : Busy(p) => req[p].cfg.secret # cfg.secret
        BY <1>0, <1>1 DEF NothingIsOlder
      <4> QED BY <1>1, <2>0, <1>3, <2>2, <3>1, <4>1, <4>2, <4>3 DEF NothingIsOlder
    <3>7. CopiesAreInForce'
      BY <1>1, <2>0, <1>3, <1>5, <2>4, <3>1 DEF CopiesAreInForce
    <3> QED BY <3>2, <3>3, <3>4, <3>5, <3>6, <3>7
  <2> QED BY <2>3, <2>4
<1> QED BY <1>6, <1>7

\* No step leaves the invariant.
LEMMA AuthInvStep ==
    ASSUME Types, Types', AuthInv, [Next]_vars
    PROVE  AuthInv'
<1>1. ASSUME NEW q \in Request, NEW name \in Name, CreateUser(q, name)
      PROVE  AuthInv'
  <2>1. PICK n \in 1..(Len(mem.users) + 1) :
          Change(q, Append(mem.users, NewAccount(n, name, FALSE)))
    BY <1>1 DEF CreateUser
  <2>2. mem.users \in Seq(Account) /\ LockFree(q) /\ mem # NoConfig
    BY <1>1 DEF CreateUser, Types, Config
  <2>3. PICK a \in Account : a = NewAccount(n, name, FALSE)
    <3>1. n \in Nat
      BY <2>2
    <3> QED BY <3>1, AccountType
  <2>4. PICK users : users = Append(mem.users, a)
    OBVIOUS
  <2>5. users \in Seq(Account)
    BY <2>2, <2>4, LongerSequence
  <2>6. /\ Len(mem.users) <= Len(users)
        /\ \A i \in DOMAIN mem.users : users[i] = mem.users[i]
    BY <2>2, <2>4, AppendProperties
  <2> QED BY <2>1, <2>2, <2>3, <2>4, <2>5, <2>6, ChangeStep
<1>2. ASSUME NEW q \in Request, NEW i \in DOMAIN mem.users, NEW d \in BOOLEAN,
             UpdateUser(q, i, d)
      PROVE  AuthInv'
  <2>1. PICK users : users = [mem.users EXCEPT ![i].disabled = d]
    OBVIOUS
  <2>2. mem.users \in Seq(Account) /\ LockFree(q) /\ mem # NoConfig /\ Change(q, users)
    BY <1>2, <2>1 DEF UpdateUser, Types, Config
  <2>3. [mem.users[i] EXCEPT !.disabled = d] \in Account
    <3>1. mem.users[i] \in Account
      BY <2>2
    <3> QED BY <3>1 DEF Account
  <2>4. users \in Seq(Account) /\ Len(users) = Len(mem.users)
    BY <2>1, <2>2, <2>3
  <2>5. /\ Len(mem.users) <= Len(users)
        /\ \A j \in DOMAIN mem.users :
              users[j].id = mem.users[j].id /\ users[j].name = mem.users[j].name
    BY <2>1, <2>2, <2>4 DEF Account
  <2> QED BY <2>2, <2>4, <2>5, ChangeStep
<1>3. CASE UNCHANGED vars
  <2>1. /\ SecretsAreMade' /\ LockIsHeld' /\ DownIsEmpty'
    BY <1>3 DEF vars, AuthInv, SecretsAreMade, LockIsHeld, DownIsEmpty, Whole, Busy
  <2>2. CopiesArePast' /\ NothingIsOlder' /\ CopiesAreInForce'
    BY <1>3 DEF vars, AuthInv, CopiesArePast, NothingIsOlder, CopiesAreInForce,
                Whole, Busy
  <2> QED BY <2>1, <2>2 DEF AuthInv
<1> QED
  BY <1>1, <1>2, <1>3, LoadStep, ConfigCreatedStep, CrashStep, BootstrapStep,
     OpenFileStep, SaveFailsStep, HangUpStep, WriteStep
     DEF Next, Handle

\* What the file, the lock and the requests have in common at any time.
THEOREM AuthInvariant == Spec => []AuthInv
<1>1. Init => AuthInv
  <2>1. Init => SecretsAreMade /\ LockIsHeld /\ DownIsEmpty
    BY NoOneAssumption DEF Init, SecretsAreMade, LockIsHeld, DownIsEmpty, Whole, Busy, Idle
  <2>2. Init => CopiesArePast /\ NothingIsOlder /\ CopiesAreInForce
    BY DEF Init, CopiesArePast, NothingIsOlder, CopiesAreInForce, Whole, Busy, Idle
  <2> QED BY <2>1, <2>2 DEF AuthInv
<1>2. Types /\ Types' /\ AuthInv /\ [Next]_vars => AuthInv'
  BY AuthInvStep
<1> QED BY <1>1, <1>2, TypesCorrect, PTL DEF Spec

\* Memory, file and clones have their types, and a bootstrap that has the lock
\* is a request that saves before there is a configuration in memory.
THEOREM AuthTypeCorrect == Spec => []TypeOK
<1>1. Types /\ AuthInv => TypeOK
  BY DEF TypeOK, Types, AuthInv, LockIsHeld
<1> QED BY <1>1, TypesCorrect, AuthInvariant, PTL

\* The file of the configuration in force is a past of the memory, whatever
\* saves overlap, fail, tear the file or are cut off by a crash.
THEOREM FileStaysPast == Spec => []FileIsThePast
<1>1. Types /\ AuthInv => FileIsThePast
  <2> SUFFICES ASSUME Types, AuthInv, Whole, phase = "up",
                      file.cfg.secret = mem.secret
               PROVE  PastOf(file.cfg, mem)
    BY DEF FileIsThePast, Whole, PastOf
  <2>1. mem # NoConfig
    BY DEF AuthInv, SecretsAreMade, NoConfig
  <2> QED BY <2>1 DEF AuthInv, CopiesArePast
<1> QED BY <1>1, TypesCorrect, AuthInvariant, PTL

\* As long as every start reads the file that is there and no bootstrap is
\* dropped as it writes, no second configuration ever comes into force.
THEOREM ConfigurationIsOne == Spec => []OneConfiguration
<1>1. AuthInv => OneConfiguration
  <2> SUFFICES ASSUME AuthInv, mishaps \cap {"torn", "unreadable", "dropped"} = {}
               PROVE  Cardinality(inForce) <= 1
    BY DEF OneConfiguration
  <2>1. \A s, t \in inForce : s = t
    BY DEF AuthInv, CopiesAreInForce
  <2>2. CASE inForce = {}
    BY <2>2, FS_EmptySet
  <2>3. CASE inForce # {}
    <3>1. PICK s : inForce = {s}
      BY <2>1, <2>3
    <3> QED BY <3>1, FS_Singleton
  <2> QED BY <2>2, <2>3
<1> QED BY <1>1, AuthInvariant, PTL

\* A change reported as done is in the file that can be read, as long as no
\* two changes overlap: crashes and failures alone lose none.
THEOREM ReportedStaysSaved == Spec => []AckedIsSaved
<1>1. AuthInv => AckedIsSaved
  BY DEF AuthInv, NothingIsOlder, AckedIsSaved, ReportedSaved, Whole
<1> QED BY <1>1, AuthInvariant, PTL

=============================================================================
