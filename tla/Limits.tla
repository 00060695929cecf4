------------------------------- MODULE Limits -------------------------------
(* The three limiters of family_chat: the bucket of uploads (api.rs,         *)
(* check_upload_limit), the attempts to log in (auth.rs, LoginRateLimiter)   *)
(* and the typing notices (typing.rs, TypingTracker).  Each reads the clock, *)
(* tests and counts under a lock of its own, in one step.                    *)
EXTENDS Integers, Selection

CONSTANTS
    Key,            \* users, user names, or users with a room
    Burst,          \* uploads per bucket: 3
    Refill,         \* a bucket is filled again after: 60 s
    MaxLogins,      \* attempts per window: 5
    LoginWindow,    \* 60 s
    Debounce,       \* between two notices: 2 s
    MaxTime         \* bound: the clock

ASSUME LimitsAssumption ==
    /\ Burst \in Nat \ {0} /\ MaxLogins \in Nat \ {0}
    /\ Refill \in Nat \ {0} /\ LoginWindow \in Nat \ {0}
    /\ Debounce \in Nat \ {0} /\ MaxTime \in Nat

Time == 0 .. MaxTime
Never == -1
Limiter == {"upload", "login", "typing"}

VARIABLES
    now,            \* Instant::now()
    bucket,         \* upload_limits
    attempts,       \* LoginRateLimiter.inner
    typed,          \* TypingTracker.last
    granted,        \* history: when each limiter let a key pass
    refused         \* history: the limiters and keys refused just now

limitsVars == <<now, bucket, attempts, typed, granted, refused>>

LimitsTypeOK ==
    /\ now \in Time
    /\ bucket \in [Key -> [tokens : 0 .. Burst, since : Time \cup {Never}]]
    /\ attempts \in [Key -> Seq(Time)]
    /\ \A k \in Key : Len(attempts[k]) <= MaxLogins
    /\ typed \in [Key -> Time \cup {Never}]
    /\ granted \in [Limiter -> [Key -> Seq(Time)]]
    /\ refused \subseteq Limiter \X Key

LimitsInit ==
    /\ now = 0
    /\ bucket = [k \in Key |-> [tokens |-> Burst, since |-> Never]]
    /\ attempts = [k \in Key |-> <<>>]
    /\ typed = [k \in Key |-> Never]
    /\ granted = [l \in Limiter |-> [k \in Key |-> <<>>]]
    /\ refused = {}

Tick ==
    /\ now < MaxTime
    /\ now' = now + 1
    /\ refused' = {}
    /\ UNCHANGED <<bucket, attempts, typed, granted>>

Answer(l, k, ok) ==
    /\ granted' = IF ok THEN [granted EXCEPT ![l][k] = Append(@, now)]
                  ELSE granted
    /\ refused' = IF ok THEN {} ELSE {<<l, k>>}

(* Variants with a fault: a refill adds to what is left, or keeps no time.   *)
RefilledOnTop(b) ==
    IF b.since = Never \/ now - b.since >= Refill
    THEN [tokens |-> b.tokens + Burst, since |-> now]
    ELSE b
RefilledSinceFirst(b) ==
    IF b.since = Never THEN [tokens |-> Burst, since |-> now]
    ELSE IF now - b.since >= Refill THEN [b EXCEPT !.tokens = Burst]
    ELSE b

(* The bucket is made full at the first upload, and again at the first one   *)
(* Refill or more after it was last filled.                                  *)
Refilled(b) ==
    IF b.since = Never \/ now - b.since >= Refill
    THEN [tokens |-> Burst, since |-> now]
    ELSE b

CheckUpload(k) ==
    LET b == Refilled(bucket[k])
        ok == b.tokens > 0
    IN  /\ bucket' = [bucket EXCEPT ![k] =
                          [b EXCEPT !.tokens = IF ok THEN @ - 1 ELSE @]]
        /\ Answer("upload", k, ok)
        /\ UNCHANGED <<now, attempts, typed>>

(* A variant with a fault: an attempt counts for one unit of time too long.  *)
RecentOrOld(k) == Kept(attempts[k], {t \in Time : now - t <= LoginWindow})

Recent(k) == Kept(attempts[k], {t \in Time : now - t < LoginWindow})

(* Attempts that are refused are not counted.                                *)
CheckLogin(k) ==
    LET ok == Len(Recent(k)) < MaxLogins
    IN  /\ attempts' = [attempts EXCEPT ![k] =
                            IF ok THEN Append(Recent(k), now) ELSE Recent(k)]
        /\ Answer("login", k, ok)
        /\ UNCHANGED <<now, bucket, typed>>

Typing(k) ==
    LET ok == typed[k] = Never \/ now - typed[k] >= Debounce
    IN  /\ typed' = IF ok THEN [typed EXCEPT ![k] = now] ELSE typed
        /\ Answer("typing", k, ok)
        /\ UNCHANGED <<now, bucket, attempts>>

LimitsNext ==
    \/ Tick
    \/ \E k \in Key : CheckUpload(k) \/ CheckLogin(k) \/ Typing(k)

LimitsSpec == LimitsInit /\ [][LimitsNext]_limitsVars

-----------------------------------------------------------------------------
GrantedWithin(l, k, window) ==
    Cardinality({i \in DOMAIN granted[l][k] : now - granted[l][k][i] < window})

(* No key passes more than most times in any window of this length, and none *)
(* is refused that has not passed at least least times in the last one.      *)
Fair(l, most, least, window) ==
    \A k \in Key :
        /\ \A i \in 1 .. Len(granted[l][k]) - most :
              granted[l][k][i + most] - granted[l][k][i] >= window
        /\ <<l, k>> \in refused => GrantedWithin(l, k, window) >= least

(* Attempts to log in and typing notices are limited in a sliding window:    *)
(* whatever the moments at which a key tries, check lets 5 attempts and      *)
(* typing 1 notice pass in any window, and refuses only what would be one    *)
(* more; the attempts it forgets and those it refuses do not count.          *)
SlidingLimits ==
    /\ Fair("login", MaxLogins, MaxLogins, LoginWindow)
    /\ Fair("typing", 1, 1, Debounce)

(* The bucket of uploads is filled at the first upload after Refill, not as  *)
(* time goes by: around that moment twice the burst passes, never more, and  *)
(* nobody is refused who has not sent a burst in the last Refill.            *)
UploadLimit == Fair("upload", 2 * Burst, Burst, Refill)

=============================================================================
