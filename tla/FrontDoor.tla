------------------------------ MODULE FrontDoor ------------------------------
(***************************************************************************)
(* What a request passes on its way to a handler (internal/api): the rate  *)
(* limiter's token bucket, who the caller is, the checks of the router on  *)
(* cookie writes and on public callers, and behind it the audit row of a   *)
(* chat turn (internal/audit).  Beside it the admin sign in with its       *)
(* lockout and its sessions.                                               *)
(*                                                                         *)
(* A tick refills one token; sessions and lockouts are counted in ticks.   *)
(***************************************************************************)
EXTENDS Integers, Sequences, FiniteSets, SequencesExt

CONSTANTS
    Callers,            \* client addresses
    Arrivals,
    Burst,              \* RATE_LIMIT_BURST
    MaxTracked,         \* RATE_LIMIT_MAX_TRACKED
    MaxFails,           \* ADMIN_LOGIN_MAX_FAILS
    LockoutTicks, SessionTicks, RetryTicks, \* lockoutFor, the session's life, audit.RetryInterval
    Servers,            \* [public, open, required, login, limited, wanted]: a configuration, and
                        \* the requests made of it, each [key, cookie, route, write, csrf]
    MaxTime, MaxFlips   \* bounds

(* What a bearer key turns out to be.                                      *)
KeyKinds == {"none", "bad", "superadmin", "admin", "operator", "readonly"}

ASSUME FrontDoorBounds ==
    /\ Burst \in Nat \ {0} /\ MaxTracked \in Nat \ {0} /\ MaxFails \in Nat \ {0}
    /\ \A s \in Servers : \A w \in s.wanted : w.key \in KeyKinds /\ {w.write, w.csrf} \subseteq BOOLEAN

VARIABLES
    server,         \* the configuration
    time,
    buckets,        \* the callers seen, least recently first: [caller, tokens, updated]
    granted,        \* of each tracked caller: when its bucket was made, the requests let in
                    \* since, and by how much requests came late
    request,        \* each request
    sessions,       \* live admin sessions with their expiry
    ended,          \* sessions signed out of
    failed,         \* each caller's failed sign ins
    auditLog,       \* the state of audit.Log: [state, lastAttempt, rows, dropped]
    reachable,      \* the database answers
    flips

doorVars == <<server, time, buckets, granted, request, sessions, ended, failed, auditLog, reachable, flips>>
meter == <<buckets, granted>>
signIns == <<sessions, ended, failed>>

New == [at |-> "new"]
DoorInit ==
    /\ server \in Servers /\ time = 0 /\ buckets = << >> /\ granted = [c \in {} |-> 0]
    /\ request = [r \in Arrivals |-> New] /\ sessions = {} /\ ended = {}
    /\ failed = [c \in Callers |-> {}]
    /\ reachable \in BOOLEAN /\ flips = 0
    /\ auditLog = [state |-> IF reachable THEN "ready" ELSE "unavailable", lastAttempt |-> 0, rows |-> {}, dropped |-> 0]

Move(r, fields) == request' = [request EXCEPT ![r] = fields]
Refused(r, status) == Move(r, [at |-> "answered", status |-> status, chat |-> FALSE])
Respond(r) == Move(r, [at |-> "answered", status |-> 200, chat |-> request[r].wants.route = "chat"])
-----------------------------------------------------------------------------
(* Limiter.Allow: refill for the time elapsed, then spend one token; a new *)
(* caller takes the place of the one not seen for longest.  The time is    *)
(* the request's own, read before the limiter's lock, so it may be earlier *)
(* than that of the request before: nothing is refilled, and the bucket    *)
(* remembers the earlier time.                                             *)

Tracked(c) == \E i \in DOMAIN buckets : buckets[i].caller = c
Evicted(list) == IF Len(list) >= MaxTracked THEN Tail(list) ELSE list
Least(a, b) == IF a < b THEN a ELSE b
Elapsed(b, stamp) == IF stamp > b.updated THEN stamp - b.updated ELSE 0
(* A variant leaves the time of the refill where it was.                   *)
RefillOnly(b, stamp) == [b EXCEPT !.tokens = Least(Burst, b.tokens + Elapsed(b, stamp))]
Refill(b, stamp) == [b EXCEPT !.tokens = Least(Burst, b.tokens + Elapsed(b, stamp)), !.updated = stamp]
PlaceOf(c) == CHOOSE i \in DOMAIN buckets : buckets[i].caller = c
BucketOf(c) == buckets[PlaceOf(c)]
Others(c) == IF Tracked(c) THEN RemoveAt(buckets, PlaceOf(c)) ELSE Evicted(buckets)
NewGrant(stamp) == [made |-> stamp, let |-> 0, late |-> 0]
Lateness(c, stamp) == IF BucketOf(c).updated > stamp THEN BucketOf(c).updated - stamp ELSE 0
Allow(c, stamp, allowed) ==
    LET b == IF Tracked(c) THEN Refill(BucketOf(c), stamp) ELSE [caller |-> c, tokens |-> Burst, updated |-> stamp]
        grant == IF Tracked(c) THEN [granted[c] EXCEPT !.late = @ + Lateness(c, stamp)] ELSE NewGrant(stamp)
    IN  /\ allowed = (b.tokens >= 1)
        /\ buckets' = Append(Others(c), IF allowed THEN [b EXCEPT !.tokens = @ - 1] ELSE b)
        /\ granted' = [k \in {o.caller : o \in ToSet(buckets')} |->
               IF k # c THEN granted[k] ELSE IF allowed THEN [grant EXCEPT !.let = @ + 1] ELSE grant]
-----------------------------------------------------------------------------
(* Authenticator.Identify: a bearer key decides, then a live session, then *)
(* the public demo; with no keys configured everybody is the admin, unless *)
(* authentication is required.                                             *)

KeyRole(w) ==
    IF server.open THEN (IF server.required THEN "nobody" ELSE "admin")
    ELSE IF w.key \in {"none", "bad"} THEN "nobody"
    ELSE w.key
As(role, via) == [role |-> role, via |-> via]
Live(token) == \E s \in sessions : s.token = token /\ time < s.expires
ViaCookie(w) == server.login /\ Live(w.cookie)
(* A variant lets a bad key through as a visitor.                          *)
IdentifyLeniently(w) ==
    IF w.key \notin {"none", "bad"} THEN As(KeyRole(w), "key")
    ELSE IF ViaCookie(w) THEN As("admin", "cookie")
    ELSE IF server.public THEN As("public", "none")
    ELSE As(KeyRole(w), "none")
Identify(w) ==
    IF w.key # "none" THEN As(KeyRole(w), "key")
    ELSE IF ViaCookie(w) THEN As("admin", "cookie")
    ELSE IF server.public THEN As("public", "none")
    ELSE As(KeyRole(w), "none")
(* authed: what the router asks of each of them.                           *)
PublicRoutes == {"chat", "read"}
Passage(w, id) ==
    IF id.role = "nobody" THEN 401
    ELSE IF id.via = "cookie" /\ w.write /\ ~w.csrf THEN 403
    ELSE IF id.role = "public" /\ w.route \notin PublicRoutes THEN 403
    ELSE 200

(* A request past the limiter: the sign in asks for no role, the others do. *)
Enter(r, c, w) ==
    IF w.route = "login" THEN Move(r, [at |-> "login", caller |-> c, wants |-> w])
    ELSE IF Passage(w, Identify(w)) # 200 THEN Refused(r, Passage(w, Identify(w)))
    ELSE Move(r, [at |-> "handled", caller |-> c, wants |-> w, role |-> Identify(w).role,
                  via |-> Identify(w).via, honoured |-> w.cookie \notin ended])
EnterFrame == UNCHANGED <<server, time, signIns, auditLog, reachable, flips>>
(* Limiter.Middleware lets a probe through unseen.                         *)
Arrive(r) ==
    /\ request[r] = New
    /\ \E c \in Callers, w \in server.wanted :
          IF w.route = "probe" THEN Refused(r, 200)
          ELSE IF server.limited THEN Move(r, [at |-> "limiter", caller |-> c, wants |-> w, stamp |-> time])
          ELSE Enter(r, c, w)
    /\ UNCHANGED meter /\ EnterFrame
PassLimiter(r) ==
    /\ request[r].at = "limiter"
    /\ \/ Allow(request[r].caller, request[r].stamp, TRUE) /\ Enter(r, request[r].caller, request[r].wants)
       \/ Allow(request[r].caller, request[r].stamp, FALSE) /\ Refused(r, 429)
    /\ EnterFrame
(* Handlers other than chat and sign out answer and are done.              *)
Handle(r) ==
    /\ request[r].at = "handled"
    /\ IF request[r].wants.route = "chat" THEN Move(r, [request[r] EXCEPT !.at = "audit"])
       ELSE Respond(r)
    /\ UNCHANGED <<server, time, meter, signIns, auditLog, reachable, flips>>
-----------------------------------------------------------------------------
(* adminLogin: not when it is not set up, not from another site, not when  *)
(* locked out; the password is checked after the lockout was looked up.    *)

Recent(c) == {f \in failed[c] : time - f.time < LockoutTicks}
Locked(c) == Cardinality(Recent(c)) >= MaxFails
LoginChecks(r) ==
    /\ request[r].at = "login"
    /\ failed' = [failed EXCEPT ![request[r].caller] = Recent(request[r].caller)]
    /\ IF ~server.login THEN Refused(r, 404)
       ELSE IF ~request[r].wants.csrf THEN Refused(r, 403)
       ELSE IF Locked(request[r].caller) THEN Refused(r, 429)
       ELSE Move(r, [request[r] EXCEPT !.at = "password"]) \/ Refused(r, 422)
    /\ UNCHANGED <<server, time, meter, sessions, ended, auditLog, reachable, flips>>
Fresh == {s \in sessions : time <= s.expires}
LoginVerdict(r) ==
    /\ request[r].at = "password"
    /\ \/ /\ failed' = [failed EXCEPT ![request[r].caller] = Recent(request[r].caller) \cup {[by |-> r, time |-> time]}]
          /\ Refused(r, 401) /\ UNCHANGED sessions
       \/ /\ failed' = [failed EXCEPT ![request[r].caller] = {}]
          /\ sessions' = Fresh \cup {[token |-> r, expires |-> time + SessionTicks]}
          /\ Respond(r)
    /\ UNCHANGED <<server, time, meter, ended, auditLog, reachable, flips>>
(* adminLogout drops the session the cookie names.                         *)
Logout(s) ==
    /\ sessions' = sessions \ {s} /\ ended' = ended \cup {s.token}
    /\ UNCHANGED <<server, time, meter, request, failed, auditLog, reachable, flips>>
-----------------------------------------------------------------------------
(* audit.Log.Write: the state is read; a log that is not ready tries to    *)
(* open, at most once per interval; the row is inserted or counted.        *)

AuditFrame == UNCHANGED <<server, time, meter, signIns, flips>>
AuditReads(r) ==
    /\ request[r].at = "audit"
    /\ Move(r, [request[r] EXCEPT !.at =
           IF auditLog.state = "ready" THEN "insert"
           ELSE IF time - auditLog.lastAttempt >= RetryTicks THEN "open" ELSE "again"])
    /\ UNCHANGED <<auditLog, reachable>> /\ AuditFrame
AuditOpens(r) ==
    /\ request[r].at = "open" /\ Move(r, [request[r] EXCEPT !.at = "ping"])
    /\ auditLog' = [auditLog EXCEPT !.lastAttempt = time]
    /\ UNCHANGED reachable /\ AuditFrame
AuditPinged(r) ==
    /\ request[r].at = "ping" /\ Move(r, [request[r] EXCEPT !.at = "again"])
    /\ auditLog' = [auditLog EXCEPT !.state = IF reachable THEN "ready" ELSE "unavailable"]
    /\ UNCHANGED reachable /\ AuditFrame
AuditLooksAgain(r) ==
    /\ request[r].at = "again"
    /\ IF auditLog.state = "ready" THEN Move(r, [request[r] EXCEPT !.at = "insert"]) /\ UNCHANGED auditLog
       ELSE Respond(r) /\ auditLog' = [auditLog EXCEPT !.dropped = @ + 1]
    /\ UNCHANGED reachable /\ AuditFrame
NotWrittenQuietly(log) == log \* a variant that does not count it
NotWritten(log) == [log EXCEPT !.dropped = @ + 1]
AuditInserts(r) ==
    /\ request[r].at = "insert" /\ Respond(r)
    /\ LET written == [auditLog EXCEPT !.rows = @ \cup {r}]
       IN  \/ reachable /\ auditLog' = written
           \/ reachable /\ auditLog' = NotWritten(written) \* the answer of the insert was lost
           \/ ~reachable /\ auditLog' = NotWritten(auditLog)
    /\ UNCHANGED reachable /\ AuditFrame

TimePasses ==
    /\ time < MaxTime /\ time' = time + 1
    /\ UNCHANGED <<server, meter, request, signIns, auditLog, reachable, flips>>
DatabaseFlips ==
    /\ flips < MaxFlips /\ flips' = flips + 1 /\ reachable' = ~reachable
    /\ UNCHANGED <<server, time, meter, request, signIns, auditLog>>
DoorNext ==
    \/ \E r \in Arrivals :
          \/ Arrive(r) \/ PassLimiter(r) \/ Handle(r) \/ LoginChecks(r) \/ LoginVerdict(r)
          \/ AuditReads(r) \/ AuditOpens(r) \/ AuditPinged(r) \/ AuditLooksAgain(r) \/ AuditInserts(r)
    \/ \E s \in sessions : Logout(s)
    \/ TimePasses \/ DatabaseFlips
DoorSpec == DoorInit /\ [][DoorNext]_doorVars
-----------------------------------------------------------------------------
(* Nobody is let in faster than the rate: as long as the limiter remembers *)
(* a caller, it let in no more than a burst, what the time refilled and    *)
(* what was refilled twice because requests overtook each other.           *)
RateIsKept == \A c \in DOMAIN granted : granted[c].let <= Burst + (time - granted[c].made) + granted[c].late

(* A handler runs for a role that was shown: a key's own role and nothing  *)
(* less or more for a bad key, a session nobody signed out of, a write by  *)
(* cookie only from the own page, a visitor only where visitors may be.    *)
ServedAsProven ==
    \A r \in Arrivals : request[r].at = "handled" =>
        LET q == request[r]
        IN  /\ q.wants.key # "none" => \/ q.role = q.wants.key /\ ~server.open
                                       \/ q.role = "admin" /\ server.open /\ ~server.required
            /\ q.role = "public" => server.public /\ q.wants.route \in PublicRoutes /\ q.wants.key = "none"
            /\ q.via = "cookie" => server.login /\ q.honoured /\ (q.wants.write => q.wants.csrf)

(* Whoever reaches a handler came in at the rate and as what they proved.  *)
LetInProperly == RateIsKept /\ ServedAsProven

(* Every chat turn that was answered is a row of the audit or counted as   *)
(* not recorded, whoever opened the log and whenever the database went.    *)
Audited == {r \in Arrivals : request[r].at = "answered" /\ request[r].chat}
TurnsAccounted ==
    /\ auditLog.rows \subseteq Audited
    /\ Cardinality(Audited \ auditLog.rows) <= auditLog.dropped /\ auditLog.dropped <= Cardinality(Audited)
=============================================================================
