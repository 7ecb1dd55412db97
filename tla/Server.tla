------------------------------- MODULE Server -------------------------------
(***************************************************************************)
(* The example server (example.ts, session.mjs): users register            *)
(* credentials and log in with them, each in a ceremony of two requests.   *)
(* The session data of a ceremony is not kept, but given to the browser,   *)
(* sealed, and comes back with the second request.                         *)
(*                                                                         *)
(* Requests are handled side by side: a handler runs from one await to the *)
(* next, and each such segment is a step.  A request answered in its first *)
(* segment changes nothing and is not shown; finish calls refuse what is     *)
(* named below, beginRegistration and beginLogin may refuse anything.      *)
(*                                                                         *)
(* Whatever the server sent stays with the browsers, so requests may come  *)
(* twice, late, out of order, never, or with the session data of another   *)
(* ceremony (as in test.js).  A ceremony is named by its challenge, a      *)
(* credential by the challenge it was created for.                         *)
(***************************************************************************)
EXTENDS Naturals, Sequences, FiniteSets

CONSTANTS
    Names,           \* of users
    Authenticators,
    Counting,        \* the authenticators that count signatures
    Requests,        \* handled at one time
    Timeout,         \* challenge_timeout
    MaxCeremonies, MaxNow, MaxRestarts   \* bounds of the counters

ASSUME ServerAssumption ==
    /\ Counting \subseteq Authenticators
    /\ Timeout \in Nat \ {0}
    /\ MaxCeremonies \in Nat /\ MaxNow \in Nat /\ MaxRestarts \in Nat

VARIABLES
    users,        \* by name, in memory
    key,          \* session_data_key: a new one for every start
    now,          \* Date.now()
    requests,     \* the handlers that wait
    ceremonies,   \* the ceremonies begun, by challenge, and the browsers' answers
    accepted,     \* history: the users and assertions of accepted logins
    replayed,     \* history: the assertions accepted more than once
    raced         \* history: the credentials on which two logins overlapped

vars == <<users, key, now, requests, ceremonies, accepted, replayed, raced>>
history == <<accepted, replayed, raced>>

None == "none"
Unsealed == MaxNow + 1
Challenges == 1 .. MaxCeremonies

Idle == [pc |-> "idle", kind |-> None, name |-> None, session |-> 0,
         response |-> 0, arrived |-> 0, seen |-> 0]

(* since: history, how many ceremonies had begun when it was stored. *)
Credential == [id : Challenges, signCount : Nat, since : Nat]

User == [id : Nat, credentials : Seq(Credential)]

Request ==
    [pc : {"idle", "seal", "verify", "finish", "commit"},
     kind : {"registration", "login", None}, name : Names \union {None},
     session : 0 .. MaxCeremonies, response : 0 .. MaxCeremonies,
     arrived : 0 .. MaxNow, seen : Nat]

Ceremony ==
    [kind : {"registration", "login"}, name : Names, user : Nat,
     credentials : SUBSET Challenges, key : 0 .. MaxRestarts,
     timestamp : 0 .. MaxNow + 1, by : Authenticators \union {None},
     credential : 0 .. MaxCeremonies, count : Nat]

(* User ids are counted from 0. *)
TypeOK ==
    /\ DOMAIN users \subseteq Names
    /\ users \in [DOMAIN users -> User]
    /\ \A u \in DOMAIN users : users[u].id < Cardinality(DOMAIN users)
    /\ key \in 0 .. MaxRestarts
    /\ now \in 0 .. MaxNow
    /\ requests \in [Requests -> Request]
    /\ ceremonies \in Seq(Ceremony) /\ Len(ceremonies) <= MaxCeremonies
    /\ accepted \subseteq Names \X Challenges
    /\ replayed \subseteq Challenges
    /\ raced \subseteq Challenges

NoUsers == [u \in {} |-> None]

Init ==
    /\ users = NoUsers /\ key = 0 /\ now = 0
    /\ requests = [r \in Requests |-> Idle]
    /\ ceremonies = <<>>
    /\ accepted = {} /\ replayed = {} /\ raced = {}

Known(u) == u \in DOMAIN users
Ids(u) == {users[u].credentials[i].id : i \in DOMAIN users[u].credentials}
Stored == UNION {Ids(u) : u \in DOMAIN users}

(* credentials.find, in the credentials of u *)
Place(u, c) == CHOOSE i \in DOMAIN users[u].credentials :
                 /\ users[u].credentials[i].id = c
                 /\ \A j \in 1 .. i - 1 : users[u].credentials[j].id # c

-----------------------------------------------------------------------------
(* The first request of a ceremony.                                        *)

Begin(r, kind, u, user, credentials) ==
    /\ ceremonies' = Append(ceremonies,
         [kind |-> kind, name |-> u, user |-> user, credentials |-> credentials,
          key |-> key, timestamp |-> Unsealed, by |-> None, credential |-> 0, count |-> 0])
    /\ requests' = [requests EXCEPT ![r] =
         [Idle EXCEPT !.pc = "seal", !.kind = kind, !.name = u, !.session = Len(ceremonies')]]
    /\ UNCHANGED <<key, now, history>>

NewIdOffByOne == Cardinality(DOMAIN users) + 1

(* user${users.size} *)
NewId == Cardinality(DOMAIN users)

ExcludeNothing(u) == {}

Exclude(u) == IF Known(u) THEN Ids(u) ELSE {}

(* GET /register: the user is created and the credentials to exclude are read
   in the segment that calls beginRegistration. *)
RegisterGet(r, u) ==
    /\ requests[r] = Idle /\ Len(ceremonies) < MaxCeremonies
    /\ users' = IF Known(u) THEN users
                ELSE [v \in DOMAIN users \union {u} |->
                        IF v = u THEN [id |-> NewId, credentials |-> <<>>] ELSE users[v]]
    /\ Begin(r, "registration", u, users'[u].id, Exclude(u))

(* GET /login: beginLogin allows the credentials of the user, if there are any. *)
LoginGet(r, u) ==
    /\ requests[r] = Idle /\ Len(ceremonies) < MaxCeremonies
    /\ Known(u) /\ Ids(u) # {}
    /\ Begin(r, "login", u, users[u].id, Ids(u))
    /\ UNCHANGED users

(* make_secret_session_data, and the answer. *)
Seal(r) ==
    /\ requests[r].pc = "seal"
    /\ ceremonies' = [ceremonies EXCEPT ![requests[r].session].timestamp = now]
    /\ requests' = [requests EXCEPT ![r] = Idle]
    /\ UNCHANGED <<users, key, now, history>>

(* beginRegistration or beginLogin rejects: a user created for it stays. *)
BeginRefused(r) ==
    /\ requests[r].pc = "seal"
    /\ requests' = [requests EXCEPT ![r] = Idle]
    /\ UNCHANGED <<users, key, now, ceremonies, history>>

-----------------------------------------------------------------------------
(* The browser and its authenticators.                                     *)

Sealed(c) == c \in DOMAIN ceremonies /\ ceremonies[c].timestamp # Unsealed
Answered(c) == Sealed(c) /\ ceremonies[c].by # None

(* How often the authenticator has signed with a credential. *)
Uses(credential) == Cardinality({d \in DOMAIN ceremonies : ceremonies[d].credential = credential})

Answer(c, a, credential) ==
    /\ Sealed(c) /\ ~Answered(c)
    /\ ceremonies' = [ceremonies EXCEPT ![c].by = a, ![c].credential = credential,
                        ![c].count = IF a \in Counting THEN Uses(credential) + 1 ELSE 0]
    /\ UNCHANGED <<users, key, now, requests, history>>

(* navigator.credentials.create(): not on an authenticator that has one of the
   credentials to exclude. *)
Create(c, a) ==
    /\ Sealed(c) /\ ceremonies[c].kind = "registration"
    /\ \A d \in ceremonies[c].credentials : ceremonies[d].by # a
    /\ Answer(c, a, c)

(* navigator.credentials.get() *)
Get(c, d) ==
    /\ Sealed(c) /\ ceremonies[c].kind = "login"
    /\ d \in ceremonies[c].credentials
    /\ Answer(c, ceremonies[d].by, d)

-----------------------------------------------------------------------------
(* The second request.                                                     *)

(* PUT /register, POST /login: the user is looked up. *)
Arrive(r, kind, u, s, c) ==
    /\ requests[r] = Idle
    /\ Known(u) /\ Sealed(s) /\ Answered(c)
    /\ requests' = [requests EXCEPT ![r] =
         [pc |-> "verify", kind |-> kind, name |-> u, session |-> s, response |-> c,
          arrived |-> now, seen |-> 0]]
    /\ UNCHANGED <<users, key, now, ceremonies, history>>

Session(r) == ceremonies[requests[r].session]
Response(r) == ceremonies[requests[r].response]

OpensWithAnyKey(r) == TRUE

(* crypto_secretbox_open *)
Opens(r) == Session(r).key = key

TimedOutLater(r) == Session(r).timestamp + Timeout < now

TimedOut(r) == Session(r).timestamp + Timeout <= now

Verified(r) ==
    /\ Opens(r)
    /\ Session(r).name = requests[r].name
    /\ Session(r).kind = requests[r].kind
    /\ ~TimedOut(r)

VerifyOrHang(r) ==
    /\ requests[r].pc = "verify" /\ Verified(r)
    /\ requests' = [requests EXCEPT ![r].pc = "finish"]
    /\ UNCHANGED <<users, key, now, ceremonies, history>>

(* verify_secret_session_data, which throws a 400 *)
Verify(r) ==
    /\ requests[r].pc = "verify"
    /\ requests' = [requests EXCEPT ![r] = IF Verified(r) THEN [@ EXCEPT !.pc = "finish"] ELSE Idle]
    /\ UNCHANGED <<users, key, now, ceremonies, history>>

(* What both finish calls of the library check. *)
Matches(r) ==
    /\ Session(r).user = users[requests[r].name].id
    /\ requests[r].response = requests[r].session
    /\ Response(r).kind = requests[r].kind

(* finishRegistration: CreateCredential *)
FinishRegistration(r) ==
    /\ requests[r].pc = "finish" /\ requests[r].kind = "registration"
    /\ requests' = [requests EXCEPT ![r] = IF Matches(r) THEN [@ EXCEPT !.pc = "commit"] ELSE Idle]
    /\ UNCHANGED <<users, key, now, ceremonies, history>>

(* What finishLogin checks besides: ValidateLogin *)
Owns(r) ==
    LET u == requests[r].name IN
    /\ Session(r).credentials \subseteq Ids(u)
    /\ Response(r).credential \in Session(r).credentials \intersect Ids(u)

(* finishLogin, with the user as it is when the call is made. *)
FinishLogin(r) ==
    LET u == requests[r].name IN
    /\ requests[r].pc = "finish" /\ requests[r].kind = "login"
    /\ requests' = [requests EXCEPT ![r] =
         IF Matches(r) /\ Owns(r)
         THEN [@ EXCEPT !.pc = "commit",
                 !.seen = users[u].credentials[Place(u, Response(r).credential)].signCount]
         ELSE Idle]
    /\ UNCHANGED <<users, key, now, ceremonies, history>>

InUseElsewhere(r) ==
    \E u \in DOMAIN users \ {requests[r].name} : Response(r).credential \in Ids(u)

InUse(r) == Response(r).credential \in Stored

PushAlone(list, credential) == <<credential>>

PushFront(list, credential) == <<credential>> \o list

Push(list, credential) == Append(list, credential)

(* The loop over the users (409), and the push. *)
CommitRegistration(r) ==
    LET new == [id |-> Response(r).credential, signCount |-> Response(r).count,
                since |-> Len(ceremonies)] IN
    /\ requests[r].pc = "commit" /\ requests[r].kind = "registration"
    /\ users' = IF InUse(r) THEN users
                ELSE [users EXCEPT ![requests[r].name].credentials = Push(@, new)]
    /\ requests' = [requests EXCEPT ![r] = Idle]
    /\ UNCHANGED <<key, now, ceremonies, history>>

CloneWarningIfLess(r) == Response(r).count < requests[r].seen

CloneWarningIfSame(r) == Response(r).count = requests[r].seen /\ requests[r].seen # 0

(* UpdateCounter of the library *)
CloneWarning(r) ==
    /\ Response(r).count <= requests[r].seen
    /\ Response(r).count # 0 \/ requests[r].seen # 0

Accepts(r) ==
    /\ requests[r].pc = "commit" /\ requests[r].kind = "login"
    /\ ~CloneWarning(r)
    /\ Response(r).credential \in Ids(requests[r].name)

(* The clone warning is looked at, the credential found, its count written. *)
CommitLogin(r) ==
    LET u == requests[r].name
        c == requests[r].response
        i == Place(u, Response(r).credential) IN
    /\ Accepts(r)
    /\ users' = [users EXCEPT ![u].credentials[i].signCount = Response(r).count]
    /\ requests' = [requests EXCEPT ![r] = Idle]
    /\ accepted' = accepted \union {<<u, c>>}
    /\ replayed' = IF <<u, c>> \in accepted THEN replayed \union {c} ELSE replayed
    /\ raced' = IF users[u].credentials[i].signCount # requests[r].seen
                THEN raced \union {Response(r).credential} ELSE raced
    /\ UNCHANGED <<key, now, ceremonies>>

(* 403, and 500 if the credential is not found. *)
RefuseLogin(r) ==
    /\ requests[r].pc = "commit" /\ requests[r].kind = "login" /\ ~Accepts(r)
    /\ requests' = [requests EXCEPT ![r] = Idle]
    /\ UNCHANGED <<users, key, now, ceremonies, history>>

-----------------------------------------------------------------------------
Tick ==
    /\ now < MaxNow /\ now' = now + 1
    /\ UNCHANGED <<users, key, requests, ceremonies, history>>

(* A new process: a new key, no users, no requests. *)
Restart ==
    /\ key < MaxRestarts /\ key' = key + 1
    /\ users' = NoUsers
    /\ requests' = [r \in Requests |-> Idle]
    /\ accepted' = {}
    /\ UNCHANGED <<now, ceremonies, replayed, raced>>

Handle(r) ==
    \/ Seal(r) \/ BeginRefused(r) \/ Verify(r)
    \/ FinishRegistration(r) \/ FinishLogin(r)
    \/ CommitRegistration(r) \/ CommitLogin(r) \/ RefuseLogin(r)

Next ==
    \/ \E r \in Requests, u \in Names :
         \/ RegisterGet(r, u) \/ LoginGet(r, u)
         \/ \E kind \in {"registration", "login"}, s, c \in DOMAIN ceremonies :
              Arrive(r, kind, u, s, c)
    \/ \E r \in Requests : Handle(r)
    \/ \E c \in DOMAIN ceremonies, a \in Authenticators : Create(c, a)
    \/ \E c, d \in DOMAIN ceremonies : Get(c, d)
    \/ Tick \/ Restart

Spec == Init /\ [][Next]_vars

(* A handler that waits is resumed: every promise it awaits settles. *)
FairSpec == Spec /\ \A r \in Requests : WF_vars(Handle(r))

-----------------------------------------------------------------------------
(* Correctness.                                                            *)

(* A credential is pushed once, to one user, though its PUT may be handled
   twice at a time (CommitRegistration checks after the await). *)
CredentialOnce ==
    \A u, v \in DOMAIN users :
        \A i \in DOMAIN users[u].credentials, j \in DOMAIN users[v].credentials :
            users[u].credentials[i].id = users[v].credentials[j].id => u = v /\ i = j

(* A credential was created in a registration that this process began for the
   user who has it, whatever session data came with it: data of another user
   or of an earlier process, whose user ids are given out again, is refused. *)
CredentialsBelong ==
    \A u \in DOMAIN users : \A c \in Ids(u) :
        /\ ceremonies[c].kind = "registration" /\ ceremonies[c].key = key
        /\ ceremonies[c].name = u /\ ceremonies[c].user = users[u].id

(* Two credentials of a user are on one authenticator only if each of the two
   registrations began before the credential of the other was stored. *)
ExcludedStaysOut ==
    \A u \in DOMAIN users : \A i, j \in DOMAIN users[u].credentials :
        LET a == users[u].credentials[i]
            b == users[u].credentials[j]
        IN  i # j /\ ceremonies[a.id].by = ceremonies[b.id].by => a.id <= b.since

(* A request that gets past verification arrived before its session data
   timed out, at the very millisecond too, and after it was sealed. *)
ArrivedInTime ==
    \A r \in Requests : requests[r].pc \in {"finish", "commit"} =>
        /\ requests[r].arrived < Session(r).timestamp + Timeout
        /\ requests[r].arrived >= Session(r).timestamp

(* "Should have been checked already in Go by webAuthn.finishLogin": after the
   await the credential is there, so the 500 is never sent. *)
CredentialStillThere ==
    \A r \in Requests : requests[r].pc = "commit" /\ requests[r].kind = "login" =>
        Response(r).credential \in Ids(requests[r].name)

(* A stored sign count goes back only if two logins with the credential
   overlapped and the older was written last. *)
CountGoesBackOnlyIfRaced ==
    [][\A u \in DOMAIN users \intersect DOMAIN users' : \A i \in DOMAIN users[u].credentials :
          users'[u].credentials[i].signCount < users[u].credentials[i].signCount
          => users[u].credentials[i].id \in raced']_vars

(* An assertion is accepted twice only if logins with its credential
   overlapped (even earlier: the count they leave may be too old), or if its
   authenticator does not count. *)
ReplayedOnlyIfRaced ==
    \A c \in replayed : \/ ceremonies[c].credential \in raced
                        \/ ceremonies[c].by \notin Counting

(* Nobody logs in as somebody else: an accepted assertion answers a login that
   this process began for the user, with a credential the user still has. *)
LoginsBelong ==
    \A a \in accepted :
        LET login == ceremonies[a[2]] IN
        /\ login.kind = "login" /\ login.key = key /\ login.name = a[1]
        /\ login.credential \in Ids(a[1])

(* Every request is answered, or lost in a restart. *)
EveryRequestAnswered == \A r \in Requests : requests[r].pc # "idle" ~> requests[r].pc = "idle"

At(u, i, c) == i \in DOMAIN users[u].credentials /\ users[u].credentials[i].id = c
Places(c) == {p \in (DOMAIN users) \X Challenges : At(p[1], p[2], c)}

Contract == INSTANCE Registry WITH
    places <- [c \in Challenges |-> Places(c)],
    logins <- {<<a[1], ceremonies[a[2]].credential>> : a \in accepted}

(* The server implements the registry. *)
ImplementsRegistry == Contract!Spec

=============================================================================
