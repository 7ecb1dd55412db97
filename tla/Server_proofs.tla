--------------------------- MODULE Server_proofs ---------------------------
(***************************************************************************)
(* Proofs about Server, for any names, authenticators, requests and        *)
(* bounds.                                                                 *)
(*                                                                         *)
(* What a handler may rely on after an await rests on three facts: the     *)
(* ceremonies it looked at do not change once they are sealed and          *)
(* answered, users keep their ids and credentials while the process runs,  *)
(* and each check it has passed is about such things only.                 *)
(***************************************************************************)
EXTENDS Server, FiniteSetTheorems, TLAPS

(* A handler that has yet to seal the session data of its ceremony is the only
   one to do so. *)
SealInv(r) == requests[r].pc = "seal" =>
    /\ requests[r].session \in DOMAIN ceremonies
    /\ Session(r).timestamp = Unsealed
    /\ \A s \in Requests :
         requests[s].pc = "seal" /\ requests[s].session = requests[r].session => s = r

Waits(r) == requests[r].pc \in {"verify", "finish", "commit"}

WaitInv(r) == Waits(r) =>
    /\ requests[r].name \in DOMAIN users
    /\ requests[r].session \in DOMAIN ceremonies
    /\ requests[r].response \in DOMAIN ceremonies
    /\ Response(r).by # None
    /\ Session(r).timestamp # Unsealed
    /\ Session(r).timestamp <= requests[r].arrived /\ requests[r].arrived <= now

VerifiedInv(r) == requests[r].pc \in {"finish", "commit"} =>
    /\ Session(r).name = requests[r].name /\ Session(r).kind = requests[r].kind
    /\ Session(r).key = key
    /\ requests[r].arrived < Session(r).timestamp + Timeout

CommitInv(r) == requests[r].pc = "commit" =>
    /\ Matches(r)
    /\ requests[r].kind = "login" => Response(r).credential \in Ids(requests[r].name)

RequestInv(r) == SealInv(r) /\ WaitInv(r) /\ VerifiedInv(r) /\ CommitInv(r)

CeremonyInv == \A c \in DOMAIN ceremonies :
    /\ ceremonies[c].timestamp # Unsealed => ceremonies[c].timestamp <= now
    /\ ceremonies[c].by # None /\ ceremonies[c].kind = "registration" =>
         ceremonies[c].credential = c

StoredInv == \A u \in DOMAIN users : Ids(u) \subseteq DOMAIN ceremonies

AcceptedInv == \A a \in accepted : a[2] \in DOMAIN ceremonies /\ ceremonies[a[2]].by # None

DataInv ==
    /\ IsFiniteSet(DOMAIN users)
    /\ CeremonyInv /\ StoredInv /\ AcceptedInv
    /\ CredentialOnce /\ CredentialsBelong

IInv == TypeOK /\ DataInv /\ \A r \in Requests : RequestInv(r)

-----------------------------------------------------------------------------
(* What never changes. *)

CeremoniesGrow ==
    /\ DOMAIN ceremonies \subseteq DOMAIN ceremonies'
    /\ \A c \in DOMAIN ceremonies :
         /\ ceremonies'[c].kind = ceremonies[c].kind /\ ceremonies'[c].name = ceremonies[c].name
         /\ ceremonies'[c].user = ceremonies[c].user /\ ceremonies'[c].key = ceremonies[c].key
         /\ ceremonies[c].timestamp # Unsealed =>
              ceremonies'[c].timestamp = ceremonies[c].timestamp
         /\ ceremonies[c].by # None =>
              /\ ceremonies'[c].by = ceremonies[c].by
              /\ ceremonies'[c].credential = ceremonies[c].credential

UsersGrow ==
    /\ DOMAIN users \subseteq DOMAIN users'
    /\ \A u \in DOMAIN users : users'[u].id = users[u].id /\ Ids(u) \subseteq Ids(u)'

Grows == CeremoniesGrow /\ UsersGrow /\ key' = key /\ now <= now' /\ now' \in 0 .. MaxNow

LEMMA Types ==
    ASSUME TypeOK
    PROVE  /\ \A r \in Requests : requests[r] \in Request
           /\ Len(ceremonies) \in 0 .. MaxCeremonies /\ DOMAIN ceremonies = 1 .. Len(ceremonies)
           /\ \A c \in DOMAIN ceremonies : ceremonies[c] \in Ceremony
           /\ \A u \in DOMAIN users : users[u] \in User
           /\ \A u \in DOMAIN users : users[u].credentials \in Seq(Credential)
           /\ MaxNow \in Nat /\ now \in 0 .. MaxNow
  BY ServerAssumption DEF TypeOK, User

(* What a handler knows of ceremonies and users stays true. *)
LEMMA WaitingStays ==
    ASSUME TypeOK, Grows, NEW r \in Requests, requests'[r] = requests[r],
           WaitInv(r), VerifiedInv(r), CommitInv(r)
    PROVE  WaitInv(r)' /\ VerifiedInv(r)' /\ CommitInv(r)'
<1>1. PICK s : s = requests[r].session
  OBVIOUS
<1>2. PICK c : c = requests[r].response
  OBVIOUS
<1>3. PICK u : u = requests[r].name
  OBVIOUS
<1>4. requests[r] \in Request /\ now \in Nat /\ now' \in Nat /\ requests[r].arrived \in Nat
  BY Types DEF Grows, Request
<1>5. CASE Waits(r)
  <2>1. /\ u \in DOMAIN users /\ s \in DOMAIN ceremonies /\ c \in DOMAIN ceremonies
        /\ ceremonies[c].by # None /\ ceremonies[s].timestamp # Unsealed
        /\ ceremonies[s].timestamp <= requests[r].arrived /\ requests[r].arrived <= now
    BY <1>1, <1>2, <1>3, <1>5 DEF WaitInv, Session, Response
  <2>2. /\ u \in DOMAIN users' /\ users'[u].id = users[u].id /\ Ids(u) \subseteq Ids(u)'
        /\ s \in DOMAIN ceremonies' /\ c \in DOMAIN ceremonies'
        /\ ceremonies'[s].timestamp = ceremonies[s].timestamp
        /\ ceremonies'[s].name = ceremonies[s].name /\ ceremonies'[s].kind = ceremonies[s].kind
        /\ ceremonies'[s].key = ceremonies[s].key /\ ceremonies'[s].user = ceremonies[s].user
        /\ ceremonies'[c].by = ceremonies[c].by /\ ceremonies'[c].kind = ceremonies[c].kind
        /\ ceremonies'[c].credential = ceremonies[c].credential
        /\ key' = key
    BY <2>1 DEF Grows, CeremoniesGrow, UsersGrow
  <2>3. requests[r].arrived <= now'
    BY <1>4, <2>1 DEF Grows
  <2>4. WaitInv(r)'
    BY <1>1, <1>2, <1>3, <2>1, <2>2, <2>3 DEF WaitInv, Session, Response
  <2>5. VerifiedInv(r)'
    BY <1>1, <2>1, <2>2 DEF VerifiedInv, Session
  <2>6. CommitInv(r)'
    BY <1>1, <1>2, <1>3, <2>1, <2>2 DEF CommitInv, Matches, Session, Response
  <2> QED
    BY <2>4, <2>5, <2>6
<1>6. CASE ~Waits(r)
  BY <1>6 DEF Waits, WaitInv, VerifiedInv, CommitInv
<1> QED
  BY <1>5, <1>6

LEMMA InitIInv == Init => IInv
<1> SUFFICES ASSUME Init PROVE IInv
  OBVIOUS
<1>1. DOMAIN users = {} /\ IsFiniteSet(DOMAIN users)
  BY FS_EmptySet DEF Init, NoUsers
<1>2. \A r \in Requests : requests[r] = Idle
  BY DEF Init
<1>3. Idle \in Request
  BY ServerAssumption DEF Idle, Request
<1>4. requests \in [Requests -> Request]
  BY <1>3 DEF Init
<1>5. TypeOK
  BY <1>1, <1>4, ServerAssumption DEF Init, TypeOK
<1>6. DataInv
  BY <1>1 DEF Init, DataInv, CeremonyInv, StoredInv, AcceptedInv, CredentialOnce, CredentialsBelong
<1>7. \A r \in Requests : RequestInv(r)
  BY <1>2 DEF RequestInv, SealInv, WaitInv, Waits, VerifiedInv, CommitInv, Idle
<1> QED
  BY <1>5, <1>6, <1>7 DEF IInv

-----------------------------------------------------------------------------
(* Steps that change one request only. *)

LEMMA SameRequest ==
    ASSUME NEW r, requests'[r] = requests[r], UNCHANGED <<users, key, now, ceremonies>>
    PROVE  /\ WaitInv(r)' = WaitInv(r) /\ VerifiedInv(r)' = VerifiedInv(r)
           /\ CommitInv(r)' = CommitInv(r)
  BY DEF WaitInv, Waits, VerifiedInv, CommitInv, Matches, Session, Response, Ids

LEMMA SameData ==
    ASSUME DataInv, UNCHANGED <<users, key, now, ceremonies, history>>
    PROVE  DataInv'
  BY DEF DataInv, CeremonyInv, StoredInv, AcceptedInv, CredentialOnce, CredentialsBelong, Ids,
         history

LEMMA OneRequest ==
    ASSUME IInv, NEW r \in Requests, NEW q \in Request, q.pc # "seal",
           requests' = [requests EXCEPT ![r] = q],
           UNCHANGED <<users, key, now, ceremonies, history>>,
           WaitInv(r)', VerifiedInv(r)', CommitInv(r)'
    PROVE  IInv'
<1>1. requests \in [Requests -> Request]
  BY DEF IInv, TypeOK
<1>2. /\ requests' \in [Requests -> Request] /\ requests'[r] = q
      /\ \A s \in Requests : s # r => requests'[s] = requests[s]
  BY <1>1
<1>3. TypeOK'
  BY <1>2 DEF IInv, TypeOK, history
<1>4. DataInv'
  BY SameData DEF IInv
<1>5. \A s \in Requests : SealInv(s)'
  <2> SUFFICES ASSUME NEW s \in Requests, requests'[s].pc = "seal"
               PROVE  /\ requests'[s].session \in DOMAIN ceremonies
                      /\ ceremonies[requests'[s].session].timestamp = Unsealed
                      /\ \A t \in Requests :
                           requests'[t].pc = "seal"
                           /\ requests'[t].session = requests'[s].session => t = s
    BY DEF SealInv, Session
  <2>1. SealInv(s) /\ requests'[s] = requests[s]
    BY <1>2 DEF IInv, RequestInv
  <2> QED
    BY <1>2, <2>1 DEF SealInv, Session
<1>6. \A s \in Requests : WaitInv(s)' /\ VerifiedInv(s)' /\ CommitInv(s)'
  <2> SUFFICES ASSUME NEW s \in Requests, s # r
               PROVE  WaitInv(s)' /\ VerifiedInv(s)' /\ CommitInv(s)'
    OBVIOUS
  <2>1. requests'[s] = requests[s] /\ RequestInv(s)
    BY <1>2 DEF IInv
  <2> QED
    BY <2>1, SameRequest DEF RequestInv
<1> QED
  BY <1>3, <1>4, <1>5, <1>6 DEF IInv, RequestInv

LEMMA IdleRequest ==
    ASSUME IInv, NEW r \in Requests, requests' = [requests EXCEPT ![r] = Idle],
           UNCHANGED <<users, key, now, ceremonies, history>>
    PROVE  IInv'
<1>1. Idle \in Request /\ Idle.pc = "idle"
  BY ServerAssumption DEF Idle, Request
<1>2. requests'[r] = Idle
  BY DEF IInv, TypeOK
<1>3. WaitInv(r)' /\ VerifiedInv(r)' /\ CommitInv(r)'
  BY <1>1, <1>2 DEF WaitInv, Waits, VerifiedInv, CommitInv
<1> QED
  BY <1>1, <1>3, OneRequest

LEMMA ArriveIInv ==
    ASSUME IInv, NEW r \in Requests, NEW u \in Names, NEW kind \in {"registration", "login"},
           NEW s \in DOMAIN ceremonies, NEW c \in DOMAIN ceremonies, Arrive(r, kind, u, s, c)
    PROVE  IInv'
<1>1. PICK q : q = [pc |-> "verify", kind |-> kind, name |-> u, session |-> s, response |-> c,
                    arrived |-> now, seen |-> 0]
  OBVIOUS
<1>2. s \in 0 .. MaxCeremonies /\ c \in 0 .. MaxCeremonies /\ now \in 0 .. MaxNow
  BY Types, ServerAssumption DEF IInv
<1>3. q \in Request /\ q.pc = "verify"
  BY <1>1, <1>2 DEF Request
<1>4. /\ requests' = [requests EXCEPT ![r] = q]
      /\ UNCHANGED <<users, key, now, ceremonies, history>>
      /\ u \in DOMAIN users
      /\ ceremonies[s].timestamp # Unsealed /\ ceremonies[c].by # None
  BY <1>1 DEF Arrive, Known, Sealed, Answered
<1>5. requests'[r] = q
  BY <1>4 DEF IInv, TypeOK
<1>6. ceremonies[s].timestamp <= now /\ now <= now
  BY <1>2, <1>4 DEF IInv, DataInv, CeremonyInv
<1>7. WaitInv(r)'
  BY <1>1, <1>4, <1>5, <1>6 DEF WaitInv, Session, Response
<1>8. VerifiedInv(r)' /\ CommitInv(r)'
  BY <1>3, <1>5 DEF VerifiedInv, CommitInv
<1> QED
  BY <1>3, <1>4, <1>7, <1>8, OneRequest

(* A request moves on, and all it knew still holds. *)
LEMMA MovesOn ==
    ASSUME IInv, NEW r \in Requests, NEW pc \in {"finish", "commit"}, NEW seen \in Nat, Waits(r),
           requests' = [requests EXCEPT ![r] = [@ EXCEPT !.pc = pc, !.seen = seen]],
           UNCHANGED <<users, key, now, ceremonies, history>>,
           Session(r).name = requests[r].name, Session(r).kind = requests[r].kind,
           Session(r).key = key, requests[r].arrived < Session(r).timestamp + Timeout,
           pc = "commit" => /\ Matches(r)
                            /\ requests[r].kind = "login" =>
                                 Response(r).credential \in Ids(requests[r].name)
    PROVE  IInv'
<1>1. PICK q : q = [requests[r] EXCEPT !.pc = pc, !.seen = seen]
  OBVIOUS
<1>2. requests[r] \in Request
  BY DEF IInv, TypeOK
<1>3. /\ q \in Request /\ q.pc = pc
      /\ q.name = requests[r].name /\ q.kind = requests[r].kind
      /\ q.session = requests[r].session /\ q.response = requests[r].response
      /\ q.arrived = requests[r].arrived
  BY <1>1, <1>2 DEF Request
<1>4. requests' = [requests EXCEPT ![r] = q] /\ requests'[r] = q
  BY <1>1 DEF IInv, TypeOK
<1>5. WaitInv(r)
  BY DEF IInv, RequestInv
<1>6. WaitInv(r)'
  BY <1>3, <1>4, <1>5 DEF WaitInv, Session, Response
<1>7. VerifiedInv(r)'
  BY <1>3, <1>4 DEF VerifiedInv, Session
<1>8. CommitInv(r)'
  <2>1. /\ Matches(r)' = Matches(r) /\ Response(r)' = Response(r)
        /\ requests'[r].name = requests[r].name
    BY <1>3, <1>4 DEF Matches, Session, Response
  <2>2. Ids(requests[r].name)' = Ids(requests[r].name)
    BY <2>1 DEF Ids
  <2> QED
    BY <1>3, <1>4, <2>1, <2>2 DEF CommitInv
<1> QED
  BY <1>3, <1>4, <1>6, <1>7, <1>8, OneRequest

LEMMA VerifyIInv == ASSUME IInv, NEW r \in Requests, Verify(r) PROVE IInv'
<1>1. CASE ~Verified(r)
  BY <1>1, IdleRequest DEF Verify
<1>2. CASE Verified(r)
  <2>1. requests[r] \in Request
    BY DEF IInv, TypeOK
  <2>2. PICK n \in Nat : n = requests[r].seen
    BY <2>1 DEF Request
  <2>3. [requests[r] EXCEPT !.pc = "finish"] = [requests[r] EXCEPT !.pc = "finish", !.seen = n]
    BY <2>1, <2>2 DEF Request
  <2>4. /\ Waits(r)
        /\ requests' = [requests EXCEPT ![r] = [@ EXCEPT !.pc = "finish", !.seen = n]]
        /\ UNCHANGED <<users, key, now, ceremonies, history>>
    BY <1>2, <2>3 DEF Verify, Waits
  <2>5. /\ Session(r).name = requests[r].name /\ Session(r).kind = requests[r].kind
        /\ Session(r).key = key
    BY <1>2 DEF Verified, Opens
  <2>6. requests[r].arrived < Session(r).timestamp + Timeout
    <3>1. requests[r].arrived \in Nat /\ now \in Nat /\ Timeout \in Nat
      BY <2>1, Types, ServerAssumption DEF IInv, Request
    <3>2. Session(r).timestamp \in Nat
      BY <2>4, Types DEF IInv, RequestInv, WaitInv, Session, Ceremony
    <3>3. requests[r].arrived <= now
      BY <2>4 DEF IInv, RequestInv, WaitInv
    <3>4. ~(Session(r).timestamp + Timeout <= now)
      BY <1>2 DEF Verified, TimedOut
    <3> QED
      BY <3>1, <3>2, <3>3, <3>4
  <2> QED
    BY <2>4, <2>5, <2>6, MovesOn
<1> QED
  BY <1>1, <1>2

LEMMA FinishRegistrationIInv ==
    ASSUME IInv, NEW r \in Requests, FinishRegistration(r) PROVE IInv'
<1>1. CASE ~Matches(r)
  BY <1>1, IdleRequest DEF FinishRegistration
<1>2. CASE Matches(r)
  <2>1. requests[r] \in Request
    BY DEF IInv, TypeOK
  <2>2. PICK n \in Nat : n = requests[r].seen
    BY <2>1 DEF Request
  <2>3. [requests[r] EXCEPT !.pc = "commit"] = [requests[r] EXCEPT !.pc = "commit", !.seen = n]
    BY <2>1, <2>2 DEF Request
  <2>4. /\ Waits(r) /\ requests[r].pc = "finish" /\ requests[r].kind = "registration"
        /\ requests' = [requests EXCEPT ![r] = [@ EXCEPT !.pc = "commit", !.seen = n]]
        /\ UNCHANGED <<users, key, now, ceremonies, history>>
    BY <1>2, <2>3 DEF FinishRegistration, Waits
  <2>5. VerifiedInv(r)
    BY DEF IInv, RequestInv
  <2> QED
    BY <1>2, <2>4, <2>5, MovesOn DEF VerifiedInv
<1> QED
  BY <1>1, <1>2

(* credentials.find finds the one place of a credential. *)
LEMMA PlaceOf ==
    ASSUME TypeOK, CredentialOnce, NEW u \in DOMAIN users, NEW c \in Ids(u)
    PROVE  /\ Place(u, c) \in DOMAIN users[u].credentials
           /\ users[u].credentials[Place(u, c)].id = c
<1>1. PICK i \in DOMAIN users[u].credentials : users[u].credentials[i].id = c
  BY DEF Ids
<1>2. DOMAIN users[u].credentials = 1 .. Len(users[u].credentials)
      /\ Len(users[u].credentials) \in Nat
  BY Types
<1>3. \A j \in 1 .. i - 1 : j \in DOMAIN users[u].credentials /\ j # i
  BY <1>1, <1>2
<1>4. \A j \in 1 .. i - 1 : users[u].credentials[j].id # c
  BY <1>1, <1>3 DEF CredentialOnce
<1> QED
  BY <1>1, <1>4 DEF Place

LEMMA FinishLoginIInv == ASSUME IInv, NEW r \in Requests, FinishLogin(r) PROVE IInv'
<1>1. CASE ~(Matches(r) /\ Owns(r))
  BY <1>1, IdleRequest DEF FinishLogin
<1>2. CASE Matches(r) /\ Owns(r)
  <2>1. PICK u : u = requests[r].name
    OBVIOUS
  <2>2. PICK n : n = users[u].credentials[Place(u, Response(r).credential)].signCount
    OBVIOUS
  <2>3. /\ Waits(r) /\ requests[r].pc = "finish" /\ requests[r].kind = "login"
        /\ requests' = [requests EXCEPT ![r] = [@ EXCEPT !.pc = "commit", !.seen = n]]
        /\ UNCHANGED <<users, key, now, ceremonies, history>>
    BY <1>2, <2>1, <2>2 DEF FinishLogin, Waits
  <2>4. VerifiedInv(r) /\ u \in DOMAIN users
    BY <2>1, <2>3 DEF IInv, RequestInv, WaitInv
  <2>5. Response(r).credential \in Ids(u)
    BY <1>2, <2>1 DEF Owns
  <2>6. n \in Nat
    <3>1. Place(u, Response(r).credential) \in DOMAIN users[u].credentials
      BY <2>4, <2>5, PlaceOf DEF IInv, DataInv
    <3>2. users[u].credentials[Place(u, Response(r).credential)] \in Credential
      BY <2>4, <3>1, Types DEF IInv
    <3> QED
      BY <2>2, <3>2 DEF Credential
  <2> QED
    BY <1>2, <2>1, <2>3, <2>4, <2>5, <2>6, MovesOn DEF VerifiedInv
<1> QED
  BY <1>1, <1>2

-----------------------------------------------------------------------------
(* Steps that change ceremonies. *)

(* Users who keep what they have, and new ones without credentials. *)
UsersKept ==
    /\ DOMAIN users \subseteq DOMAIN users'
    /\ \A v \in DOMAIN users : users'[v] = users[v]
    /\ \A v \in DOMAIN users' \ DOMAIN users : users'[v].credentials = <<>>
    /\ DOMAIN users' \subseteq Names /\ users' \in [DOMAIN users' -> User]
    /\ IsFiniteSet(DOMAIN users')
    /\ \A v \in DOMAIN users' : users'[v].id < Cardinality(DOMAIN users')

LEMMA KeptFacts ==
    ASSUME TypeOK, UsersKept
    PROVE  /\ UsersGrow
           /\ \A v \in DOMAIN users : Ids(v)' = Ids(v)
           /\ \A v \in DOMAIN users' : v \in DOMAIN users \/ Ids(v)' = {}
<1>1. \A v \in DOMAIN users : Ids(v)' = Ids(v)
  BY DEF UsersKept, Ids
<1>2. \A v \in DOMAIN users' : v \in DOMAIN users \/ Ids(v)' = {}
  BY DEF UsersKept, Ids
<1> QED
  BY <1>1, <1>2 DEF UsersGrow, UsersKept

LEMMA KeptData ==
    ASSUME TypeOK, DataInv, UsersKept, CeremoniesGrow, key' = key, accepted' = accepted
    PROVE  /\ StoredInv' /\ AcceptedInv' /\ CredentialOnce' /\ CredentialsBelong'
           /\ IsFiniteSet(DOMAIN users')
<1>1. StoredInv'
  BY KeptFacts DEF DataInv, StoredInv, CeremoniesGrow
<1>2. AcceptedInv'
  BY DEF DataInv, AcceptedInv, CeremoniesGrow
<1>3. CredentialOnce'
  <2> SUFFICES ASSUME NEW u \in DOMAIN users', NEW v \in DOMAIN users',
                      NEW i \in DOMAIN users'[u].credentials, NEW j \in DOMAIN users'[v].credentials,
                      users'[u].credentials[i].id = users'[v].credentials[j].id
               PROVE  u = v /\ i = j
    BY DEF CredentialOnce
  <2>1. u \in DOMAIN users /\ v \in DOMAIN users
    BY DEF UsersKept
  <2> QED
    BY <2>1 DEF UsersKept, DataInv, CredentialOnce
<1>4. CredentialsBelong'
  <2> SUFFICES ASSUME NEW u \in DOMAIN users', NEW c, c \in Ids(u)'
               PROVE  /\ ceremonies'[c].kind = "registration" /\ ceremonies'[c].key = key'
                      /\ ceremonies'[c].name = u /\ ceremonies'[c].user = users'[u].id
    BY DEF CredentialsBelong
  <2>1. u \in DOMAIN users /\ c \in Ids(u) /\ c \in DOMAIN ceremonies /\ users'[u].id = users[u].id
    BY KeptFacts DEF DataInv, StoredInv, UsersKept
  <2> QED
    BY <2>1 DEF DataInv, CredentialsBelong, CeremoniesGrow
<1> QED
  BY <1>1, <1>2, <1>3, <1>4 DEF UsersKept

LEMMA BeginIInv ==
    ASSUME IInv, NEW r \in Requests, NEW kind \in {"registration", "login"}, NEW u \in Names,
           NEW user \in Nat, NEW credentials \in SUBSET Challenges,
           requests[r] = Idle, Len(ceremonies) < MaxCeremonies,
           Begin(r, kind, u, user, credentials), UsersKept
    PROVE  IInv'
<1>1. PICK n \in 1 .. MaxCeremonies : n = Len(ceremonies) + 1
  <2>1. Len(ceremonies) + 1 \in 1 .. MaxCeremonies
    BY Types, ServerAssumption DEF IInv
  <2> QED
    BY <2>1
<1>2. PICK new : new =
        [kind |-> kind, name |-> u, user |-> user, credentials |-> credentials, key |-> key,
         timestamp |-> Unsealed, by |-> None, credential |-> 0, count |-> 0]
  OBVIOUS
<1>3. new \in Ceremony /\ new.timestamp = Unsealed /\ new.by = None
  BY <1>2, ServerAssumption DEF IInv, TypeOK, Ceremony, Unsealed
<1>4. /\ ceremonies' = Append(ceremonies, new)
      /\ ceremonies \in Seq(Ceremony) /\ UNCHANGED <<key, now, history>>
  BY <1>2 DEF Begin, IInv, TypeOK
<1>5. /\ ceremonies' \in Seq(Ceremony) /\ Len(ceremonies') = n /\ DOMAIN ceremonies' = 1 .. n
      /\ DOMAIN ceremonies = 1 .. (n - 1) /\ ceremonies'[n] = new
      /\ \A c \in DOMAIN ceremonies : ceremonies'[c] = ceremonies[c]
  BY <1>1, <1>3, <1>4
<1>6. PICK q : q = [Idle EXCEPT !.pc = "seal", !.kind = kind, !.name = u, !.session = n]
  OBVIOUS
<1>7. q \in Request /\ q.pc = "seal" /\ q.session = n
  <2>1. q = [pc |-> "seal", kind |-> kind, name |-> u, session |-> n, response |-> 0,
             arrived |-> 0, seen |-> 0]
    BY <1>6 DEF Idle
  <2>2. n \in 0 .. MaxCeremonies /\ 0 \in 0 .. MaxCeremonies /\ 0 \in 0 .. MaxNow
    BY ServerAssumption
  <2> QED
    BY <2>1, <2>2 DEF Request
<1>8. /\ requests' = [requests EXCEPT ![r] = q] /\ requests' \in [Requests -> Request]
      /\ requests'[r] = q /\ \A s \in Requests : s # r => requests'[s] = requests[s]
  BY <1>5, <1>6, <1>7 DEF Begin, IInv, TypeOK
<1>9. CeremoniesGrow
  BY <1>5 DEF CeremoniesGrow
<1>10. Grows
  <2>1. now \in 0 .. MaxNow /\ now <= now
    BY Types DEF IInv
  <2> QED
    BY <1>4, <1>9, <2>1, KeptFacts DEF IInv, Grows
<1>11. TypeOK'
  <2>1. /\ key' \in 0 .. MaxRestarts /\ now' \in 0 .. MaxNow
        /\ accepted' \subseteq Names \X Challenges
        /\ replayed' \subseteq Challenges /\ raced' \subseteq Challenges
    BY <1>4 DEF IInv, TypeOK, history
  <2> QED
    BY <1>1, <1>5, <1>8, <2>1 DEF TypeOK, UsersKept
<1>12. CeremonyInv'
  BY <1>3, <1>4, <1>5 DEF IInv, DataInv, CeremonyInv
<1>13. DataInv'
  BY <1>4, <1>9, <1>12, KeptData DEF IInv, DataInv, history
<1>14. ASSUME NEW s \in Requests PROVE SealInv(s)'
  <2>1. \A t \in Requests : t # r /\ requests[t].pc = "seal" => requests[t].session \in 1 .. (n - 1)
    BY <1>5 DEF IInv, RequestInv, SealInv
  <2>2. CASE s = r
    <3>1. \A t \in Requests : requests'[t].pc = "seal" /\ requests'[t].session = n => t = r
      BY <1>1, <1>8, <2>1
    <3> QED
      BY <1>1, <1>3, <1>5, <1>7, <1>8, <2>2, <3>1 DEF SealInv, Session
  <2>3. CASE s # r /\ requests[s].pc = "seal"
    <3>1. requests[s].session \in DOMAIN ceremonies /\ requests[s].session # n
      BY <1>1, <1>5, <2>1, <2>3
    <3>2. SealInv(s) /\ requests'[s] = requests[s]
      BY <1>8, <2>3 DEF IInv, RequestInv
    <3>3. ceremonies'[requests[s].session].timestamp = Unsealed
      BY <1>5, <2>3, <3>1, <3>2 DEF SealInv, Session
    <3>4. \A t \in Requests :
            requests'[t].pc = "seal" /\ requests'[t].session = requests[s].session => t = s
      BY <1>7, <1>8, <2>3, <3>1, <3>2 DEF SealInv
    <3>5. requests[s].session \in DOMAIN ceremonies'
      BY <1>9, <3>1 DEF CeremoniesGrow
    <3> QED
      BY <3>2, <3>3, <3>4, <3>5 DEF SealInv, Session
  <2>4. CASE s # r /\ requests[s].pc # "seal"
    BY <1>8, <2>4 DEF SealInv
  <2> QED
    BY <2>2, <2>3, <2>4
<1>15. ASSUME NEW s \in Requests PROVE WaitInv(s)' /\ VerifiedInv(s)' /\ CommitInv(s)'
  <2>1. CASE s = r
    BY <1>7, <1>8, <2>1 DEF WaitInv, Waits, VerifiedInv, CommitInv
  <2>2. CASE s # r
    BY <1>8, <1>10, <2>2, WaitingStays DEF IInv, RequestInv
  <2> QED
    BY <2>1, <2>2
<1> QED
  BY <1>11, <1>13, <1>14, <1>15 DEF IInv, RequestInv

LEMMA IdsAreChallenges ==
    ASSUME TypeOK, NEW u \in DOMAIN users
    PROVE  Ids(u) \subseteq Challenges
<1>1. \A i \in DOMAIN users[u].credentials : users[u].credentials[i] \in Credential
  BY Types
<1> QED
  BY <1>1 DEF Ids, Credential

LEMMA LoginGetIInv ==
    ASSUME IInv, NEW r \in Requests, NEW u \in Names, LoginGet(r, u) PROVE IInv'
<1>1. u \in DOMAIN users /\ users' = users
  BY DEF LoginGet, Known
<1>2. UsersKept
  BY <1>1 DEF IInv, DataInv, TypeOK, UsersKept
<1>3. users[u].id \in Nat /\ Ids(u) \in SUBSET Challenges
  BY <1>1, Types, IdsAreChallenges DEF IInv, User
<1> QED
  BY <1>2, <1>3, BeginIInv DEF LoginGet

LEMMA RegisterKeeps ==
    ASSUME IInv, NEW r \in Requests, NEW u \in Names, RegisterGet(r, u) PROVE UsersKept
<1>1. PICK n \in Nat : n = Cardinality(DOMAIN users)
  BY FS_CardinalityType DEF IInv, DataInv
<1>2. PICK new : new = [id |-> n, credentials |-> <<>>]
  OBVIOUS
<1>3. new \in User /\ new.id = n /\ new.credentials = <<>>
  BY <1>1, <1>2 DEF User
<1>4. /\ users \in [DOMAIN users -> User] /\ IsFiniteSet(DOMAIN users) /\ DOMAIN users \subseteq Names
      /\ \A v \in DOMAIN users : users[v] \in User /\ users[v].id \in Nat /\ users[v].id < n
  BY <1>1, Types DEF IInv, DataInv, TypeOK, User
<1> QED
  <2>1. CASE Known(u)
    <3>1. users' = users
      BY <2>1 DEF RegisterGet
    <3> QED
      BY <1>1, <1>4, <3>1 DEF UsersKept
  <2>2. CASE ~Known(u)
    <3>1. users' = [v \in DOMAIN users \cup {u} |-> IF v = u THEN new ELSE users[v]]
      BY <1>1, <1>2, <2>2 DEF RegisterGet, NewId
    <3>2. u \notin DOMAIN users
      BY <2>2 DEF Known
    <3>3. IsFiniteSet(DOMAIN users \cup {u}) /\ Cardinality(DOMAIN users \cup {u}) = n + 1
      BY <1>1, <1>4, <3>2, FS_AddElement
    <3>4. DOMAIN users' = DOMAIN users \cup {u}
      BY <3>1
    <3>5. /\ \A v \in DOMAIN users : users'[v] = users[v]
          /\ users'[u] = new
      BY <3>1, <3>2
    <3>6. \A v \in DOMAIN users' : users'[v].id < n + 1
      BY <1>1, <1>3, <1>4, <3>4, <3>5
    <3>7. users' \in [DOMAIN users' -> User] /\ DOMAIN users' \subseteq Names
      BY <1>3, <1>4, <3>1, <3>4
    <3> QED
      BY <1>3, <3>3, <3>4, <3>5, <3>6, <3>7 DEF UsersKept
  <2> QED
    BY <2>1, <2>2

LEMMA RegisterGetIInv ==
    ASSUME IInv, NEW r \in Requests, NEW u \in Names, RegisterGet(r, u) PROVE IInv'
<1>1. UsersKept
  BY RegisterKeeps
<1>2. u \in DOMAIN users' /\ users'[u] \in User
  <2>1. u \in DOMAIN users'
    BY DEF RegisterGet, Known
  <2> QED
    BY <1>1, <2>1 DEF UsersKept
<1>3. users'[u].id \in Nat
  BY <1>2 DEF User
<1>4. Exclude(u) \in SUBSET Challenges
  BY IdsAreChallenges DEF IInv, Exclude, Known
<1> QED
  BY <1>1, <1>3, <1>4, BeginIInv DEF RegisterGet

(* Steps that change one ceremony. *)
LEMMA OneCeremony ==
    ASSUME IInv, CeremoniesGrow, DOMAIN ceremonies' = DOMAIN ceremonies,
           ceremonies' \in Seq(Ceremony), Len(ceremonies') = Len(ceremonies),
           CeremonyInv', UNCHANGED <<users, key, now, history>>,
           requests' \in [Requests -> Request],
           \A s \in Requests : requests'[s] = requests[s] \/ requests'[s] = Idle,
           \A s \in Requests : requests'[s].pc = "seal" =>
             ceremonies'[requests'[s].session].timestamp = Unsealed
    PROVE  IInv'
<1>1. UsersKept
  BY DEF IInv, DataInv, TypeOK, UsersKept
<1>2. Grows
  <2>1. now \in 0 .. MaxNow /\ now <= now
    BY Types DEF IInv
  <2> QED
    BY <1>1, <2>1, KeptFacts DEF IInv, Grows
<1>3. TypeOK'
  BY DEF IInv, TypeOK, history
<1>4. DataInv'
  BY <1>1, KeptData DEF IInv, DataInv, history
<1>5. Idle.pc = "idle"
  BY DEF Idle
<1>6. ASSUME NEW s \in Requests PROVE RequestInv(s)'
  <2>1. CASE requests'[s] = Idle
    BY <1>5, <2>1 DEF RequestInv, SealInv, WaitInv, Waits, VerifiedInv, CommitInv
  <2>2. CASE requests'[s] = requests[s] /\ requests[s].pc = "seal"
    <3>1. SealInv(s)
      BY DEF IInv, RequestInv
    <3>2. \A t \in Requests : requests'[t].pc = "seal" =>
            requests[t].pc = "seal" /\ requests'[t].session = requests[t].session
      BY <1>5
    <3>3. SealInv(s)'
      BY <2>2, <3>1, <3>2 DEF SealInv, Session
    <3> QED
      BY <2>2, <3>3 DEF RequestInv, WaitInv, Waits, VerifiedInv, CommitInv
  <2>3. CASE requests'[s] = requests[s] /\ requests[s].pc # "seal"
    <3>1. WaitInv(s)' /\ VerifiedInv(s)' /\ CommitInv(s)'
      BY <1>2, <2>3, WaitingStays DEF IInv, RequestInv
    <3> QED
      BY <2>3, <3>1 DEF RequestInv, SealInv
  <2> QED
    BY <2>1, <2>2, <2>3
<1> QED
  BY <1>3, <1>4, <1>6 DEF IInv

LEMMA SealIInv == ASSUME IInv, NEW r \in Requests, Seal(r) PROVE IInv'
<1>1. PICK c : c = requests[r].session
  OBVIOUS
<1>2. c \in DOMAIN ceremonies /\ ceremonies[c].timestamp = Unsealed
  BY <1>1 DEF IInv, RequestInv, SealInv, Seal, Session
<1>3. /\ ceremonies \in Seq(Ceremony) /\ ceremonies[c] \in Ceremony
      /\ now \in 0 .. MaxNow /\ now \in 0 .. MaxNow + 1 /\ now # Unsealed
  BY <1>2, Types DEF IInv, TypeOK, Unsealed
<1>4. PICK new : new = [ceremonies[c] EXCEPT !.timestamp = now]
  OBVIOUS
<1>5. /\ new \in Ceremony /\ new.timestamp = now /\ new.by = ceremonies[c].by
      /\ new.kind = ceremonies[c].kind /\ new.name = ceremonies[c].name
      /\ new.user = ceremonies[c].user /\ new.key = ceremonies[c].key
      /\ new.credential = ceremonies[c].credential
  BY <1>3, <1>4 DEF Ceremony
<1>6. ceremonies' = [ceremonies EXCEPT ![c] = new] /\ UNCHANGED <<users, key, now, history>>
  BY <1>1, <1>4 DEF Seal
<1>7. /\ ceremonies' \in Seq(Ceremony) /\ Len(ceremonies') = Len(ceremonies)
      /\ DOMAIN ceremonies' = DOMAIN ceremonies /\ ceremonies'[c] = new
      /\ \A d \in DOMAIN ceremonies : d # c => ceremonies'[d] = ceremonies[d]
  BY <1>2, <1>3, <1>5, <1>6
<1>8. CeremoniesGrow
  BY <1>2, <1>5, <1>7 DEF CeremoniesGrow
<1>9. CeremonyInv'
  <2>1. now <= now
    BY <1>3
  <2> QED
    BY <1>2, <1>5, <1>6, <1>7, <2>1 DEF IInv, DataInv, CeremonyInv
<1>10. /\ Idle \in Request /\ Idle.pc = "idle" /\ requests \in [Requests -> Request]
       /\ requests' = [requests EXCEPT ![r] = Idle]
  BY ServerAssumption DEF Idle, Request, IInv, TypeOK, Seal
<1>11. /\ requests' \in [Requests -> Request] /\ requests'[r] = Idle
       /\ \A s \in Requests : s # r => requests'[s] = requests[s]
  BY <1>10
<1>12. \A s \in Requests : requests'[s].pc = "seal" =>
         ceremonies'[requests'[s].session].timestamp = Unsealed
  <2> SUFFICES ASSUME NEW s \in Requests, requests'[s].pc = "seal"
               PROVE  ceremonies'[requests'[s].session].timestamp = Unsealed
    OBVIOUS
  <2>1. s # r /\ requests'[s] = requests[s]
    BY <1>10, <1>11
  <2>2. SealInv(s) /\ SealInv(r) /\ requests[r].pc = "seal"
    BY DEF IInv, RequestInv, Seal
  <2>3. requests[s].session # c /\ requests[s].session \in DOMAIN ceremonies
    BY <1>1, <2>1, <2>2 DEF SealInv
  <2> QED
    BY <1>7, <2>1, <2>2, <2>3 DEF SealInv, Session
<1> QED
  BY <1>6, <1>7, <1>8, <1>9, <1>11, <1>12, OneCeremony

LEMMA UsesType == ASSUME TypeOK, NEW c PROVE Uses(c) \in Nat
<1>1. PICK S : S = {d \in DOMAIN ceremonies : ceremonies[d].credential = c}
  OBVIOUS
<1>2. Len(ceremonies) \in Int /\ 1 \in Int /\ DOMAIN ceremonies = 1 .. Len(ceremonies)
  BY Types, ServerAssumption
<1>3. IsFiniteSet(1 .. Len(ceremonies))
  BY <1>2, FS_Interval
<1>4. S \subseteq 1 .. Len(ceremonies)
  BY <1>1, <1>2
<1>5. IsFiniteSet(S)
  BY <1>3, <1>4, FS_Subset
<1> QED
  BY <1>1, <1>5, FS_CardinalityType DEF Uses

LEMMA AnswerIInv ==
    ASSUME IInv, NEW c \in DOMAIN ceremonies, NEW a \in Authenticators \cup {None},
           NEW credential \in DOMAIN ceremonies,
           ceremonies[c].kind = "registration" => credential = c,
           Answer(c, a, credential)
    PROVE  IInv'
<1>1. PICK n \in Nat : n = IF a \in Counting THEN Uses(credential) + 1 ELSE 0
  <2>1. Uses(credential) + 1 \in Nat
    BY UsesType DEF IInv
  <2> QED
    BY <2>1
<1>2. /\ ceremonies[c].timestamp # Unsealed /\ ceremonies[c].by = None
      /\ UNCHANGED <<users, key, now, requests, history>>
      /\ ceremonies' = [ceremonies EXCEPT ![c].by = a, ![c].credential = credential, ![c].count = n]
  BY <1>1 DEF Answer, Sealed, Answered
<1>3. PICK new : new = [ceremonies[c] EXCEPT !.by = a, !.credential = credential, !.count = n]
  OBVIOUS
<1>4. /\ ceremonies \in Seq(Ceremony) /\ ceremonies[c] \in Ceremony
      /\ credential \in 0 .. MaxCeremonies
  BY Types, ServerAssumption DEF IInv, TypeOK
<1>5. /\ new \in Ceremony /\ new.timestamp = ceremonies[c].timestamp /\ new.by = a
      /\ new.kind = ceremonies[c].kind /\ new.name = ceremonies[c].name
      /\ new.user = ceremonies[c].user /\ new.key = ceremonies[c].key
      /\ new.credential = credential
  BY <1>3, <1>4 DEF Ceremony
<1>6. ceremonies' = [ceremonies EXCEPT ![c] = new]
  BY <1>2, <1>3, <1>4 DEF Ceremony
<1>7. /\ ceremonies' \in Seq(Ceremony) /\ Len(ceremonies') = Len(ceremonies)
      /\ DOMAIN ceremonies' = DOMAIN ceremonies /\ ceremonies'[c] = new
      /\ \A d \in DOMAIN ceremonies : d # c => ceremonies'[d] = ceremonies[d]
  BY <1>4, <1>5, <1>6
<1>8. CeremoniesGrow
  BY <1>2, <1>5, <1>7 DEF CeremoniesGrow
<1>9. CeremonyInv'
  BY <1>2, <1>5, <1>7 DEF IInv, DataInv, CeremonyInv
<1>10. requests' \in [Requests -> Request] /\ \A s \in Requests : requests'[s] = requests[s]
  BY <1>2 DEF IInv, TypeOK
<1>11. \A s \in Requests : requests'[s].pc = "seal" =>
         ceremonies'[requests'[s].session].timestamp = Unsealed
  <2> SUFFICES ASSUME NEW s \in Requests, requests'[s].pc = "seal"
               PROVE  ceremonies'[requests'[s].session].timestamp = Unsealed
    OBVIOUS
  <2>1. requests'[s] = requests[s] /\ SealInv(s)
    BY <1>10 DEF IInv, RequestInv
  <2>2. /\ requests[s].session \in DOMAIN ceremonies
        /\ ceremonies[requests[s].session].timestamp = Unsealed
    BY <2>1 DEF SealInv, Session
  <2>3. requests[s].session # c
    BY <1>2, <2>2
  <2> QED
    BY <1>7, <2>1, <2>2, <2>3
<1> QED
  BY <1>2, <1>7, <1>8, <1>9, <1>10, <1>11, OneCeremony

LEMMA CreateIInv ==
    ASSUME IInv, NEW c \in DOMAIN ceremonies, NEW a \in Authenticators, Create(c, a) PROVE IInv'
  BY AnswerIInv DEF Create

LEMMA GetIInv ==
    ASSUME IInv, NEW c \in DOMAIN ceremonies, NEW d \in DOMAIN ceremonies, Get(c, d) PROVE IInv'
<1>1. ceremonies[d].by \in Authenticators \cup {None}
  BY Types DEF IInv, Ceremony
<1>2. ceremonies[c].kind = "login" /\ Answer(c, ceremonies[d].by, d)
  BY DEF Get
<1> QED
  BY <1>1, <1>2, AnswerIInv

LEMMA BeginRefusedIInv == ASSUME IInv, NEW r \in Requests, BeginRefused(r) PROVE IInv'
  BY IdleRequest DEF BeginRefused

LEMMA RefuseLoginIInv == ASSUME IInv, NEW r \in Requests, RefuseLogin(r) PROVE IInv'
  BY IdleRequest DEF RefuseLogin

-----------------------------------------------------------------------------
(* Steps that change the time or the process. *)

LEMMA TickIInv == ASSUME IInv, Tick PROVE IInv'
<1>1. /\ now \in Nat /\ now' = now + 1 /\ now' \in 0 .. MaxNow
      /\ UNCHANGED <<users, key, requests, ceremonies, history>>
  BY Types DEF IInv, Tick
<1>2. CeremoniesGrow /\ UsersKept
  BY <1>1 DEF CeremoniesGrow, IInv, DataInv, TypeOK, UsersKept
<1>3. Grows
  BY <1>1, <1>2, KeptFacts DEF IInv, Grows
<1>4. TypeOK'
  BY <1>1 DEF IInv, TypeOK, history
<1>5. CeremonyInv'
  <2> SUFFICES ASSUME NEW c \in DOMAIN ceremonies, ceremonies[c].timestamp # Unsealed
               PROVE  ceremonies[c].timestamp <= now + 1
    BY <1>1 DEF IInv, DataInv, CeremonyInv
  <2>1. ceremonies[c].timestamp \in Nat /\ ceremonies[c].timestamp <= now
    BY Types DEF IInv, DataInv, CeremonyInv, Ceremony
  <2> QED
    BY <1>1, <2>1
<1>6. DataInv'
  BY <1>1, <1>2, <1>5, KeptData DEF IInv, DataInv, history
<1>7. ASSUME NEW s \in Requests PROVE RequestInv(s)'
  <2>1. RequestInv(s) /\ requests'[s] = requests[s]
    BY <1>1 DEF IInv
  <2>2. SealInv(s)'
    BY <1>1, <2>1 DEF RequestInv, SealInv, Session
  <2> QED
    BY <1>3, <2>1, <2>2, WaitingStays DEF IInv, RequestInv
<1> QED
  BY <1>4, <1>6, <1>7 DEF IInv

LEMMA RestartIInv == ASSUME IInv, Restart PROVE IInv'
<1>1. DOMAIN users' = {} /\ IsFiniteSet(DOMAIN users')
  BY FS_EmptySet DEF Restart, NoUsers
<1>2. /\ Idle \in Request /\ Idle.pc = "idle" /\ requests' = [r \in Requests |-> Idle]
      /\ UNCHANGED <<now, ceremonies, replayed, raced>> /\ accepted' = {}
  BY ServerAssumption DEF Idle, Request, Restart
<1>3. key' \in 0 .. MaxRestarts
  BY ServerAssumption DEF IInv, TypeOK, Restart
<1>4. TypeOK'
  BY <1>1, <1>2, <1>3 DEF IInv, TypeOK
<1>5. DataInv'
  BY <1>1, <1>2 DEF IInv, DataInv, CeremonyInv, StoredInv, AcceptedInv, CredentialOnce,
     CredentialsBelong
<1>6. \A r \in Requests : RequestInv(r)'
  BY <1>2 DEF RequestInv, SealInv, WaitInv, Waits, VerifiedInv, CommitInv
<1> QED
  BY <1>4, <1>5, <1>6 DEF IInv

-----------------------------------------------------------------------------
(* Steps that change the credentials of users. *)

LEMMA OneCommit ==
    ASSUME IInv, NEW r \in Requests, requests' = [requests EXCEPT ![r] = Idle],
           UsersGrow, UNCHANGED <<key, now, ceremonies>>,
           DOMAIN users' = DOMAIN users, users' \in [DOMAIN users -> User],
           accepted' \subseteq Names \X Challenges,
           replayed' \subseteq Challenges, raced' \subseteq Challenges,
           StoredInv', AcceptedInv', CredentialOnce', CredentialsBelong'
    PROVE  IInv'
<1>1. Idle \in Request /\ Idle.pc = "idle" /\ requests \in [Requests -> Request]
  BY ServerAssumption DEF Idle, Request, IInv, TypeOK
<1>2. /\ requests' \in [Requests -> Request] /\ requests'[r] = Idle
      /\ \A s \in Requests : s # r => requests'[s] = requests[s]
  BY <1>1
<1>3. Grows
  <2>1. CeremoniesGrow
    BY DEF CeremoniesGrow
  <2>2. now \in 0 .. MaxNow /\ now <= now
    BY Types DEF IInv
  <2> QED
    BY <2>1, <2>2 DEF Grows
<1>4. TypeOK'
  <2>1. \A u \in DOMAIN users' : users'[u].id < Cardinality(DOMAIN users')
    BY DEF IInv, TypeOK, UsersGrow
  <2> QED
    BY <1>2, <2>1 DEF IInv, TypeOK
<1>5. DataInv'
  BY DEF IInv, DataInv, CeremonyInv
<1>6. ASSUME NEW s \in Requests PROVE RequestInv(s)'
  <2>1. CASE s = r
    BY <1>1, <1>2, <2>1 DEF RequestInv, SealInv, WaitInv, Waits, VerifiedInv, CommitInv
  <2>2. CASE s # r
    <3>1. RequestInv(s) /\ requests'[s] = requests[s]
      BY <1>2, <2>2 DEF IInv
    <3>2. SealInv(s)'
      BY <1>1, <1>2, <3>1 DEF RequestInv, SealInv, Session
    <3> QED
      BY <1>3, <3>1, <3>2, WaitingStays DEF IInv, RequestInv
  <2> QED
    BY <2>1, <2>2
<1> QED
  BY <1>4, <1>5, <1>6 DEF IInv

(* What is pushed: the credential of the ceremony that the session data is of. *)
LEMMA PushedCredential ==
    ASSUME IInv, NEW r \in Requests, requests[r].pc = "commit", requests[r].kind = "registration"
    PROVE  /\ requests[r].name \in DOMAIN users
           /\ Response(r).credential = requests[r].response
           /\ requests[r].response \in DOMAIN ceremonies
           /\ Response(r).kind = "registration" /\ Response(r).key = key
           /\ Response(r).name = requests[r].name
           /\ Response(r).user = users[requests[r].name].id
           /\ Response(r).count \in Nat /\ Response(r).by # None
<1>1. WaitInv(r) /\ VerifiedInv(r) /\ CommitInv(r) /\ Waits(r)
  BY DEF IInv, RequestInv, Waits
<1>2. /\ requests[r].name \in DOMAIN users /\ requests[r].response \in DOMAIN ceremonies
      /\ Response(r).by # None
  BY <1>1 DEF WaitInv
<1>3. requests[r].response = requests[r].session /\ Response(r).kind = "registration"
      /\ Session(r).user = users[requests[r].name].id
  BY <1>1 DEF CommitInv, Matches
<1>4. Session(r) = Response(r) /\ Session(r).name = requests[r].name /\ Session(r).key = key
  BY <1>1, <1>3 DEF VerifiedInv, Session, Response
<1>5. Response(r).credential = requests[r].response
  BY <1>2, <1>3 DEF IInv, DataInv, CeremonyInv, Response
<1>6. Response(r).count \in Nat
  BY <1>2, Types DEF IInv, Response, Ceremony
<1> QED
  BY <1>2, <1>3, <1>4, <1>5, <1>6

Pushes(u, new) == users' = [users EXCEPT ![u].credentials = Push(@, new)]

(* The list that a credential is pushed to. *)
LEMMA Pushed ==
    ASSUME IInv, NEW u \in DOMAIN users, NEW new \in Credential,
           NEW n, n = Len(users[u].credentials) + 1, Pushes(u, new)
    PROVE  /\ n \in Nat \ {0} /\ DOMAIN users' = DOMAIN users
           /\ users' \in [DOMAIN users -> User]
           /\ users'[u].id = users[u].id
           /\ \A v \in DOMAIN users : v # u => users'[v] = users[v]
           /\ DOMAIN users[u].credentials = 1 .. n - 1
           /\ DOMAIN users'[u].credentials = 1 .. n
           /\ users'[u].credentials[n] = new
           /\ \A i \in 1 .. n - 1 : users'[u].credentials[i] = users[u].credentials[i]
<1>1. PICK list : list = users[u].credentials
  OBVIOUS
<1>2. /\ users \in [DOMAIN users -> User] /\ users[u] \in User /\ list \in Seq(Credential)
  BY <1>1, Types DEF IInv, TypeOK
<1>3. PICK more : more = Append(list, new)
  OBVIOUS
<1>4. /\ more \in Seq(Credential) /\ Len(more) = Len(list) + 1 /\ Len(list) \in Nat
      /\ DOMAIN list = 1 .. Len(list) /\ DOMAIN more = 1 .. Len(list) + 1
      /\ more[Len(list) + 1] = new /\ \A i \in 1 .. Len(list) : more[i] = list[i]
  BY <1>2, <1>3
<1>5. PICK user : user = [users[u] EXCEPT !.credentials = more]
  OBVIOUS
<1>6. user \in User /\ user.id = users[u].id /\ user.credentials = more
  BY <1>2, <1>4, <1>5 DEF User
<1>7. users' = [users EXCEPT ![u] = user]
  BY <1>1, <1>3, <1>5 DEF Pushes, Push
<1>8. /\ DOMAIN users' = DOMAIN users /\ users' \in [DOMAIN users -> User] /\ users'[u] = user
      /\ \A v \in DOMAIN users : v # u => users'[v] = users[v]
  BY <1>2, <1>6, <1>7
<1> QED
  BY <1>1, <1>4, <1>6, <1>8

(* What a registration that is not refused does. *)
LEMMA Commits ==
    ASSUME IInv, NEW r \in Requests, CommitRegistration(r), ~InUse(r)
    PROVE  \E u \in DOMAIN users, c \in DOMAIN ceremonies, new \in Credential :
             /\ new.id = c /\ new.since = Len(ceremonies) /\ ceremonies[c].by # None
             /\ ceremonies[c].kind = "registration" /\ ceremonies[c].key = key
             /\ ceremonies[c].name = u /\ ceremonies[c].user = users[u].id
             /\ \A v \in DOMAIN users : c \notin Ids(v)
             /\ Pushes(u, new)
<1>1. PICK u : u = requests[r].name
  OBVIOUS
<1>2. PICK c : c = requests[r].response
  OBVIOUS
<1>3. /\ u \in DOMAIN users /\ Response(r).credential = c /\ c \in DOMAIN ceremonies
      /\ ceremonies[c].kind = "registration" /\ ceremonies[c].key = key
      /\ ceremonies[c].name = u /\ ceremonies[c].user = users[u].id
      /\ Response(r).count \in Nat /\ ceremonies[c].by # None
  BY <1>1, <1>2, PushedCredential DEF CommitRegistration, Response
<1>4. PICK new : new = [id |-> Response(r).credential, signCount |-> Response(r).count,
                        since |-> Len(ceremonies)]
  OBVIOUS
<1>5. new \in Credential /\ new.id = c /\ new.since = Len(ceremonies)
  <2>1. Len(ceremonies) \in Nat /\ c \in Challenges
    BY <1>3, Types, ServerAssumption DEF IInv, Challenges
  <2> QED
    BY <1>3, <1>4, <2>1 DEF Credential
<1>6. Pushes(u, new)
  BY <1>1, <1>4 DEF CommitRegistration, Pushes
<1>7. \A v \in DOMAIN users : c \notin Ids(v)
  BY <1>3 DEF InUse, Stored
<1> QED
  BY <1>3, <1>5, <1>6, <1>7

LEMMA CommitRegistrationIInv ==
    ASSUME IInv, NEW r \in Requests, CommitRegistration(r) PROVE IInv'
<1>1. CASE InUse(r)
  BY <1>1, IdleRequest DEF CommitRegistration
<1>2. CASE ~InUse(r)
  <2>1. PICK u \in DOMAIN users, c \in DOMAIN ceremonies, new \in Credential :
          /\ new.id = c
          /\ ceremonies[c].kind = "registration" /\ ceremonies[c].key = key
          /\ ceremonies[c].name = u /\ ceremonies[c].user = users[u].id
          /\ \A v \in DOMAIN users : c \notin Ids(v)
          /\ Pushes(u, new)
    BY <1>2, Commits
  <2>2. /\ requests' = [requests EXCEPT ![r] = Idle]
        /\ UNCHANGED <<key, now, ceremonies, history>>
    BY DEF CommitRegistration
  <2>3. PICK n : n = Len(users[u].credentials) + 1
    OBVIOUS
  <2>4. /\ n \in Nat \ {0} /\ DOMAIN users' = DOMAIN users
        /\ users' \in [DOMAIN users -> User]
        /\ users'[u].id = users[u].id
        /\ \A v \in DOMAIN users : v # u => users'[v] = users[v]
        /\ DOMAIN users[u].credentials = 1 .. n - 1
        /\ DOMAIN users'[u].credentials = 1 .. n
        /\ users'[u].credentials[n] = new
        /\ \A i \in 1 .. n - 1 : users'[u].credentials[i] = users[u].credentials[i]
    BY <2>1, <2>3, Pushed
  <2>5. \A v \in DOMAIN users : v # u => Ids(v)' = Ids(v)
    BY <2>4 DEF Ids
  <2>6. Ids(u)' = Ids(u) \cup {c}
    <3>1. 1 .. n = (1 .. n - 1) \cup {n}
      BY <2>4
    <3> QED
      BY <2>1, <2>4, <3>1 DEF Ids
  <2>7. UsersGrow
    BY <2>4, <2>5, <2>6 DEF UsersGrow
  <2>8. StoredInv'
    BY <2>1, <2>2, <2>4, <2>5, <2>6 DEF IInv, DataInv, StoredInv
  <2>9. CredentialsBelong'
    <3> SUFFICES ASSUME NEW v \in DOMAIN users', NEW d, d \in Ids(v)'
                 PROVE  /\ ceremonies[d].kind = "registration" /\ ceremonies[d].key = key
                        /\ ceremonies[d].name = v /\ ceremonies[d].user = users'[v].id
      BY <2>2 DEF CredentialsBelong
    <3>1. CASE v = u /\ d = c
      BY <2>1, <2>4, <3>1
    <3>2. CASE ~(v = u /\ d = c)
      <4>1. v \in DOMAIN users /\ d \in Ids(v) /\ users'[v].id = users[v].id
        BY <2>4, <2>5, <2>6, <3>2
      <4> QED
        BY <4>1 DEF IInv, DataInv, CredentialsBelong
    <3> QED
      BY <3>1, <3>2
  <2>10. CredentialOnce'
    <3> SUFFICES ASSUME NEW v \in DOMAIN users, NEW w \in DOMAIN users,
                        NEW i \in DOMAIN users'[v].credentials,
                        NEW j \in DOMAIN users'[w].credentials,
                        users'[v].credentials[i].id = users'[w].credentials[j].id
                 PROVE  v = w /\ i = j
      BY <2>4 DEF CredentialOnce
    <3>1. \A x \in DOMAIN users : \A k \in DOMAIN users'[x].credentials :
            \/ x = u /\ k = n /\ users'[x].credentials[k].id = c
            \/ /\ k \in DOMAIN users[x].credentials
               /\ users'[x].credentials[k].id = users[x].credentials[k].id
               /\ users[x].credentials[k].id \in Ids(x)
      BY <2>1, <2>4 DEF Ids
    <3> QED
      BY <2>1, <3>1 DEF IInv, DataInv, CredentialOnce
  <2>11. AcceptedInv'
    BY <2>2 DEF IInv, DataInv, AcceptedInv, history
  <2>12. /\ accepted' \subseteq Names \X Challenges
         /\ replayed' \subseteq Challenges /\ raced' \subseteq Challenges
    BY <2>2 DEF IInv, TypeOK, history
  <2> QED
    BY <2>2, <2>4, <2>7, <2>8, <2>9, <2>10, <2>11, <2>12, OneCommit
<1> QED
  BY <1>1, <1>2

(* What an accepted login writes: the count at the place of its credential. *)
LEMMA Counted ==
    ASSUME IInv, NEW u \in DOMAIN users, NEW i \in DOMAIN users[u].credentials, NEW count \in Nat,
           users' = [users EXCEPT ![u].credentials[i].signCount = count]
    PROVE  /\ DOMAIN users' = DOMAIN users /\ users' \in [DOMAIN users -> User]
           /\ \A v \in DOMAIN users :
                /\ users'[v].id = users[v].id
                /\ DOMAIN users'[v].credentials = DOMAIN users[v].credentials
                /\ \A j \in DOMAIN users[v].credentials :
                     /\ users'[v].credentials[j].id = users[v].credentials[j].id
                     /\ users'[v].credentials[j].since = users[v].credentials[j].since
           /\ \A v \in DOMAIN users : Ids(v)' = Ids(v)
<1>1. PICK list : list = users[u].credentials
  OBVIOUS
<1>2. /\ users \in [DOMAIN users -> User] /\ users[u] \in User /\ list \in Seq(Credential)
      /\ list[i] \in Credential
  BY <1>1, Types DEF IInv, TypeOK
<1>3. PICK new : new = [list[i] EXCEPT !.signCount = count]
  OBVIOUS
<1>4. new \in Credential /\ new.id = list[i].id /\ new.since = list[i].since
  BY <1>2, <1>3 DEF Credential
<1>5. PICK more : more = [list EXCEPT ![i] = new]
  OBVIOUS
<1>6. /\ more \in Seq(Credential) /\ DOMAIN more = DOMAIN list
      /\ \A j \in DOMAIN list : more[j].id = list[j].id /\ more[j].since = list[j].since
  BY <1>1, <1>2, <1>4, <1>5
<1>7. PICK user : user = [users[u] EXCEPT !.credentials = more]
  OBVIOUS
<1>8. user \in User /\ user.id = users[u].id /\ user.credentials = more
  BY <1>2, <1>6, <1>7 DEF User
<1>9. users' = [users EXCEPT ![u] = user]
  BY <1>1, <1>3, <1>5, <1>7
<1>10. /\ DOMAIN users' = DOMAIN users /\ users' \in [DOMAIN users -> User] /\ users'[u] = user
       /\ \A v \in DOMAIN users : v # u => users'[v] = users[v]
  BY <1>2, <1>8, <1>9
<1>11. \A v \in DOMAIN users :
         /\ users'[v].id = users[v].id
         /\ DOMAIN users'[v].credentials = DOMAIN users[v].credentials
         /\ \A j \in DOMAIN users[v].credentials :
              /\ users'[v].credentials[j].id = users[v].credentials[j].id
              /\ users'[v].credentials[j].since = users[v].credentials[j].since
  BY <1>1, <1>6, <1>8, <1>10
<1>12. \A v \in DOMAIN users : Ids(v)' = Ids(v)
  BY <1>11 DEF Ids
<1> QED
  BY <1>10, <1>11, <1>12

LEMMA CommitLoginIInv == ASSUME IInv, NEW r \in Requests, CommitLogin(r) PROVE IInv'
<1>1. PICK u : u = requests[r].name
  OBVIOUS
<1>2. PICK c : c = requests[r].response
  OBVIOUS
<1>3. PICK i : i = Place(u, Response(r).credential)
  OBVIOUS
<1>4. PICK count : count = Response(r).count
  OBVIOUS
<1>5. /\ users' = [users EXCEPT ![u].credentials[i].signCount = count]
      /\ requests' = [requests EXCEPT ![r] = Idle]
      /\ accepted' = accepted \union {<<u, c>>}
      /\ replayed' \subseteq replayed \union {c}
      /\ raced' \subseteq raced \union {Response(r).credential}
      /\ UNCHANGED <<key, now, ceremonies>>
  BY <1>1, <1>2, <1>3, <1>4 DEF CommitLogin
<1>6. /\ u \in DOMAIN users /\ c \in DOMAIN ceremonies /\ ceremonies[c].by # None
      /\ Response(r).credential \in Ids(u)
  BY <1>1, <1>2 DEF IInv, RequestInv, WaitInv, Waits, CommitLogin, Accepts, Response
<1>7. i \in DOMAIN users[u].credentials
  BY <1>3, <1>6, PlaceOf DEF IInv, DataInv
<1>8. count \in Nat
  <2>1. ceremonies[c] \in Ceremony
    BY <1>6, Types DEF IInv
  <2> QED
    BY <1>2, <1>4, <2>1 DEF Response, Ceremony
<1>9. /\ DOMAIN users' = DOMAIN users /\ users' \in [DOMAIN users -> User]
      /\ \A v \in DOMAIN users :
           /\ users'[v].id = users[v].id
           /\ DOMAIN users'[v].credentials = DOMAIN users[v].credentials
           /\ \A j \in DOMAIN users[v].credentials :
                users'[v].credentials[j].id = users[v].credentials[j].id
      /\ \A v \in DOMAIN users : Ids(v)' = Ids(v)
  BY <1>5, <1>6, <1>7, <1>8, Counted
<1>10. UsersGrow
  BY <1>9 DEF UsersGrow
<1>11. StoredInv'
  BY <1>5, <1>9 DEF IInv, DataInv, StoredInv
<1>12. CredentialOnce'
  BY <1>9 DEF IInv, DataInv, CredentialOnce
<1>13. CredentialsBelong'
  BY <1>5, <1>9 DEF IInv, DataInv, CredentialsBelong
<1>14. AcceptedInv'
  BY <1>5, <1>6 DEF IInv, DataInv, AcceptedInv
<1>15. u \in Names /\ c \in Challenges /\ Response(r).credential \in Challenges
  BY <1>6, Types, IdsAreChallenges, ServerAssumption DEF IInv, TypeOK, Challenges
<1>16. /\ accepted' \subseteq Names \X Challenges
       /\ replayed' \subseteq Challenges /\ raced' \subseteq Challenges
  BY <1>5, <1>15 DEF IInv, TypeOK
<1> QED
  BY <1>5, <1>9, <1>10, <1>11, <1>12, <1>13, <1>14, <1>16, OneCommit

-----------------------------------------------------------------------------
LEMMA NextIInv == IInv /\ [Next]_vars => IInv'
<1> SUFFICES ASSUME IInv, [Next]_vars PROVE IInv'
  OBVIOUS
<1>1. CASE UNCHANGED vars
  <2>1. UNCHANGED <<users, key, now, ceremonies, history>> /\ requests' = requests
    BY <1>1 DEF vars, history
  <2>2. TypeOK'
    BY <2>1 DEF IInv, TypeOK, history
  <2>3. DataInv'
    BY <2>1, SameData DEF IInv
  <2>4. ASSUME NEW s \in Requests PROVE RequestInv(s)'
    <3>1. RequestInv(s) /\ requests'[s] = requests[s]
      BY <2>1 DEF IInv
    <3>2. SealInv(s)'
      BY <2>1, <3>1 DEF RequestInv, SealInv, Session
    <3> QED
      BY <2>1, <3>1, <3>2, SameRequest DEF RequestInv
  <2> QED
    BY <2>2, <2>3, <2>4 DEF IInv
<1>2. CASE Next
  BY <1>2, RegisterGetIInv, LoginGetIInv, ArriveIInv, SealIInv, VerifyIInv,
     FinishRegistrationIInv, FinishLoginIInv, CommitRegistrationIInv, CommitLoginIInv,
     BeginRefusedIInv, RefuseLoginIInv, CreateIInv, GetIInv, TickIInv, RestartIInv
     DEF Next, Handle
<1> QED
  BY <1>1, <1>2

LEMMA Inductive == Spec => []IInv
  BY InitIInv, NextIInv, PTL DEF Spec

(* All that is stored has its type. *)
THEOREM Typing == Spec => []TypeOK
<1>1. IInv => TypeOK
  BY DEF IInv
<1> QED
  BY <1>1, Inductive, PTL

(* No credential is pushed twice, however its requests interleave. *)
THEOREM StoredOnce == Spec => []CredentialOnce
<1>1. IInv => CredentialOnce
  BY DEF IInv, DataInv
<1> QED
  BY <1>1, Inductive, PTL

(* Users have the credentials that were created for them, by this process. *)
THEOREM StoredRight == Spec => []CredentialsBelong
<1>1. IInv => CredentialsBelong
  BY DEF IInv, DataInv
<1> QED
  BY <1>1, Inductive, PTL

(* What finishLogin found is found again after the await. *)
THEOREM FoundAgain == Spec => []CredentialStillThere
<1>1. IInv => CredentialStillThere
  BY DEF IInv, RequestInv, CommitInv, CredentialStillThere
<1> QED
  BY <1>1, Inductive, PTL

(* No session data is used after its time. *)
THEOREM NotTooLate == Spec => []ArrivedInTime
<1>1. IInv => ArrivedInTime
  <2> SUFFICES ASSUME IInv, NEW r \in Requests, requests[r].pc \in {"finish", "commit"}
               PROVE  /\ requests[r].arrived < Session(r).timestamp + Timeout
                      /\ requests[r].arrived >= Session(r).timestamp
    BY DEF ArrivedInTime
  <2>1. WaitInv(r) /\ VerifiedInv(r) /\ Waits(r)
    BY DEF IInv, RequestInv, Waits
  <2>2. requests[r].arrived \in Nat /\ Session(r).timestamp \in Nat
    BY <2>1, Types DEF IInv, Request, WaitInv, Session, Ceremony
  <2> QED
    BY <2>1, <2>2 DEF WaitInv, VerifiedInv
<1> QED
  BY <1>1, Inductive, PTL

-----------------------------------------------------------------------------
(* The server implements the registry.                                     *)

PlacesOf == [c \in Challenges |-> Places(c)]
LoginsOf == {<<a[1], ceremonies[a[2]].credential>> : a \in accepted}

LEMMA PlacesAre ==
    ASSUME NEW c, NEW u, NEW i
    PROVE  <<u, i>> \in Places(c) <=>
             u \in DOMAIN users /\ i \in Challenges /\ At(u, i, c)
  BY DEF Places

(* Distinct credentials are no more than there are challenges. *)
LEMMA Fits ==
    ASSUME NEW list \in Seq(Credential),
           \A i, j \in DOMAIN list : list[i].id = list[j].id => i = j
    PROVE  DOMAIN list \subseteq Challenges
<1>1. PICK n \in Nat : n = Len(list)
  OBVIOUS
<1>2. DOMAIN list = 1 .. n /\ \A i \in 1 .. n : list[i].id \in Challenges
  <2>1. DOMAIN list = 1 .. n /\ \A i \in 1 .. n : list[i] \in Credential
    BY <1>1
  <2>2. \A x \in Credential : x.id \in Challenges
    BY DEF Credential
  <2> QED
    BY <2>1, <2>2
<1>3. /\ IsFiniteSet(1 .. n) /\ Cardinality(1 .. n) = n
      /\ IsFiniteSet(Challenges) /\ Cardinality(Challenges) = MaxCeremonies
  <2>1. 1 \in Int /\ n \in Int /\ MaxCeremonies \in Nat /\ MaxCeremonies \in Int
    BY ServerAssumption
  <2> QED
    BY <2>1, FS_Interval DEF Challenges
<1>4. PICK f : f = [i \in 1 .. n |-> list[i].id]
  OBVIOUS
<1>5. f \in [1 .. n -> Challenges] /\ \A i \in 1 .. n : f[i] = list[i].id
  BY <1>2, <1>4
<1>6. ~(MaxCeremonies < n)
  <2> SUFFICES ASSUME MaxCeremonies < n PROVE FALSE
    OBVIOUS
  <2>1. \E i, j \in 1 .. n : i # j /\ f[i] = f[j]
    BY <1>3, <1>5, FS_PigeonHole
  <2> QED
    BY <1>2, <1>5, <2>1
<1> QED
  BY <1>2, <1>6, ServerAssumption DEF Challenges

(* What has been answered stays so. *)
AnswersStay == \A c \in DOMAIN ceremonies :
    ceremonies[c].by # None =>
      c \in DOMAIN ceremonies' /\ ceremonies'[c].credential = ceremonies[c].credential

LEMMA LoginsStay ==
    ASSUME IInv, AnswersStay, accepted' = accepted
    PROVE  LoginsOf' = LoginsOf
<1>1. \A a \in accepted : ceremonies'[a[2]].credential = ceremonies[a[2]].credential
  BY DEF IInv, DataInv, AcceptedInv, AnswersStay
<1> QED
  BY <1>1 DEF LoginsOf

LEMMA KeptStutters ==
    ASSUME IInv, UsersKept, AnswersStay, accepted' = accepted
    PROVE  UNCHANGED <<PlacesOf, LoginsOf>>
<1>1. ASSUME NEW c PROVE Places(c)' = Places(c)
  <2>1. ASSUME NEW u \in DOMAIN users', NEW i
        PROVE  At(u, i, c)' <=> u \in DOMAIN users /\ At(u, i, c)
    BY DEF UsersKept, At
  <2>2. DOMAIN users \subseteq DOMAIN users'
    BY DEF UsersKept
  <2> QED
    BY <2>1, <2>2 DEF Places
<1> QED
  BY <1>1, LoginsStay DEF PlacesOf

LEMMA NothingMoves ==
    ASSUME UNCHANGED <<users, ceremonies, accepted>>
    PROVE  UNCHANGED <<PlacesOf, LoginsOf>>
<1>1. ASSUME NEW c PROVE Places(c)' = Places(c)
  BY DEF Places, At
<1> QED
  BY <1>1 DEF PlacesOf, LoginsOf

(* Steps of a ceremony. *)
LEMMA CeremonyStutters ==
    ASSUME IInv,
           \/ \E r \in Requests, u \in Names : RegisterGet(r, u) \/ LoginGet(r, u)
           \/ \E r \in Requests : Seal(r)
           \/ \E c \in DOMAIN ceremonies, a \in Authenticators : Create(c, a)
           \/ \E c, d \in DOMAIN ceremonies : Get(c, d)
    PROVE  UNCHANGED <<PlacesOf, LoginsOf>>
<1>1. /\ DOMAIN ceremonies = 1 .. Len(ceremonies) /\ Len(ceremonies) \in Nat
      /\ \A c \in DOMAIN ceremonies : ceremonies[c] \in Ceremony
  BY Types, ServerAssumption DEF IInv
<1>2. users' = users => UsersKept
  BY DEF IInv, DataInv, TypeOK, UsersKept
<1>3. ASSUME NEW r \in Requests, NEW u \in Names, RegisterGet(r, u) \/ LoginGet(r, u)
      PROVE  UNCHANGED <<PlacesOf, LoginsOf>>
  <2>1. UsersKept
    BY <1>2, <1>3, RegisterKeeps DEF LoginGet
  <2>2. PICK new : ceremonies' = Append(ceremonies, new) /\ accepted' = accepted
    BY <1>3 DEF RegisterGet, LoginGet, Begin, history
  <2>3. ceremonies \in Seq(Ceremony)
    BY DEF IInv, TypeOK
  <2>4. \A c \in DOMAIN ceremonies : c \in DOMAIN ceremonies' /\ ceremonies'[c] = ceremonies[c]
    BY <1>1, <2>2, <2>3
  <2>5. AnswersStay
    BY <2>4 DEF AnswersStay
  <2> QED
    BY <2>1, <2>2, <2>5, KeptStutters
<1>4. ASSUME NEW r \in Requests, Seal(r) PROVE UNCHANGED <<PlacesOf, LoginsOf>>
  <2>1. PICK s : s = requests[r].session
    OBVIOUS
  <2>2. /\ ceremonies' = [ceremonies EXCEPT ![s].timestamp = now]
        /\ users' = users /\ accepted' = accepted
    BY <1>4, <2>1 DEF Seal, history
  <2>3. AnswersStay
    BY <1>1, <2>2 DEF AnswersStay, Ceremony
  <2> QED
    BY <1>2, <2>2, <2>3, KeptStutters
<1>5. ASSUME NEW c \in DOMAIN ceremonies, NEW a, NEW d, Answer(c, a, d)
      PROVE  UNCHANGED <<PlacesOf, LoginsOf>>
  <2>1. PICK n : ceremonies' =
          [ceremonies EXCEPT ![c].by = a, ![c].credential = d, ![c].count = n]
    BY <1>5 DEF Answer
  <2>2. ceremonies[c].by = None /\ users' = users /\ accepted' = accepted
    BY <1>5 DEF Answer, Sealed, Answered, history
  <2>3. DOMAIN ceremonies' = DOMAIN ceremonies
        /\ \A b \in DOMAIN ceremonies : b # c => ceremonies'[b] = ceremonies[b]
    BY <2>1
  <2>4. AnswersStay
    BY <2>2, <2>3 DEF AnswersStay
  <2> QED
    BY <1>2, <2>2, <2>4, KeptStutters
<1> QED
  BY <1>3, <1>4, <1>5 DEF Create, Get

(* A registration that is not refused adds its credential. *)
LEMMA CommitAdds ==
    ASSUME IInv, NEW r \in Requests, CommitRegistration(r), ~InUse(r)
    PROVE  \E c \in Challenges, u \in Names, i \in Challenges :
             /\ PlacesOf[c] = {}
             /\ \A d \in Challenges : <<u, i>> \notin PlacesOf[d]
             /\ PlacesOf' = [PlacesOf EXCEPT ![c] = {<<u, i>>}]
             /\ LoginsOf' = LoginsOf
<1>1. PICK u \in DOMAIN users, c \in DOMAIN ceremonies, new \in Credential :
        /\ new.id = c
        /\ \A v \in DOMAIN users : c \notin Ids(v)
        /\ Pushes(u, new)
  BY Commits
<1>2. PICK n : n = Len(users[u].credentials) + 1
  OBVIOUS
<1>3. /\ n \in Nat \ {0} /\ DOMAIN users' = DOMAIN users
      /\ users' \in [DOMAIN users -> User]
      /\ \A v \in DOMAIN users : v # u => users'[v] = users[v]
      /\ DOMAIN users[u].credentials = 1 .. n - 1
      /\ DOMAIN users'[u].credentials = 1 .. n
      /\ users'[u].credentials[n] = new
      /\ \A i \in 1 .. n - 1 : users'[u].credentials[i] = users[u].credentials[i]
  BY <1>1, <1>2, Pushed
<1>4. c \in Challenges /\ u \in Names
  BY <1>1, Types, ServerAssumption DEF IInv, TypeOK, Challenges
<1>5. n \in Challenges
  <2>1. IInv'
    BY CommitRegistrationIInv
  <2>2. users'[u] \in User
    BY <1>3
  <2>3. users'[u].credentials \in Seq(Credential)
    BY <2>2 DEF User
  <2>4. \A i, j \in DOMAIN users'[u].credentials :
          users'[u].credentials[i].id = users'[u].credentials[j].id => i = j
    BY <1>3, <2>1 DEF IInv, DataInv, CredentialOnce
  <2>5. DOMAIN users'[u].credentials \subseteq Challenges
    BY <2>3, <2>4, Fits
  <2> QED
    BY <1>3, <2>5
<1>6. \A v \in DOMAIN users : \A i, d :
        At(v, i, d)' <=> At(v, i, d) \/ (v = u /\ i = n /\ d = c)
  <2>1. ASSUME NEW i, NEW d PROVE At(u, i, d)' <=> At(u, i, d) \/ (i = n /\ d = c)
    <3>1. 1 .. n = (1 .. n - 1) \cup {n} /\ n \notin 1 .. n - 1
      BY <1>3
    <3>2. At(u, i, d)' <=> i \in 1 .. n /\ users'[u].credentials[i].id = d
      BY <1>3 DEF At
    <3>3. At(u, i, d) <=> i \in 1 .. n - 1 /\ users[u].credentials[i].id = d
      BY <1>3 DEF At
    <3>4. users'[u].credentials[n].id = c
      BY <1>1, <1>3
    <3> QED
      BY <1>3, <3>1, <3>2, <3>3, <3>4 DEF At
  <2>2. ASSUME NEW v \in DOMAIN users, v # u, NEW i, NEW d PROVE At(v, i, d)' <=> At(v, i, d)
    BY <1>3, <2>2 DEF At
  <2> TAKE v \in DOMAIN users
  <2> TAKE i, d
  <2>3. CASE v = u
    BY <2>1, <2>3 DEF At
  <2>4. CASE v # u
    BY <2>2, <2>4 DEF At
  <2> QED
    BY <2>3, <2>4
<1>7. \A v \in DOMAIN users : \A i : ~At(v, i, c)
  BY <1>1 DEF At, Ids
<1>8. \A d : ~At(u, n, d)
  BY <1>3 DEF At
<1>9. Places(c) = {}
  BY <1>7 DEF Places
<1>10. \A d : <<u, n>> \notin Places(d)
  BY <1>8, PlacesAre
<1>11. Places(c)' = {<<u, n>>}
  BY <1>3, <1>4, <1>5, <1>6, <1>7 DEF Places
<1>12. ASSUME NEW d, d # c PROVE Places(d)' = Places(d)
  <2>1. \A v \in DOMAIN users : \A i : At(v, i, d)' <=> At(v, i, d)
    <3> TAKE v \in DOMAIN users
    <3> TAKE i
    <3>1. At(v, i, d)' <=> At(v, i, d) \/ (v = u /\ i = n /\ d = c)
      BY <1>6
    <3> QED
      BY <1>12, <3>1
  <2> QED
    BY <1>3, <2>1 DEF Places
<1>13. PlacesOf' = [PlacesOf EXCEPT ![c] = {<<u, n>>}]
  BY <1>4, <1>11, <1>12 DEF PlacesOf
<1>14. LoginsOf' = LoginsOf
  BY DEF LoginsOf, CommitRegistration, history
<1> QED
  BY <1>4, <1>5, <1>9, <1>10, <1>13, <1>14 DEF PlacesOf

(* An accepted login is one with a credential where the registry has it. *)
LEMMA CommitLogsIn ==
    ASSUME IInv, NEW r \in Requests, CommitLogin(r)
    PROVE  \E c \in Challenges, u \in Names, i \in Challenges :
             /\ PlacesOf[c] = {<<u, i>>}
             /\ LoginsOf' = LoginsOf \cup {<<u, c>>}
             /\ PlacesOf' = PlacesOf
<1>1. PICK u : u = requests[r].name
  OBVIOUS
<1>2. PICK d : d = requests[r].response
  OBVIOUS
<1>3. PICK c : c = ceremonies[d].credential
  OBVIOUS
<1>4. PICK i : i = Place(u, c)
  OBVIOUS
<1>5. PICK count : count = Response(r).count
  OBVIOUS
<1>6. /\ users' = [users EXCEPT ![u].credentials[i].signCount = count]
      /\ accepted' = accepted \union {<<u, d>>} /\ ceremonies' = ceremonies
  BY <1>1, <1>2, <1>3, <1>4, <1>5 DEF CommitLogin, Response
<1>7. u \in DOMAIN users /\ d \in DOMAIN ceremonies /\ c \in Ids(u)
  BY <1>1, <1>2, <1>3 DEF IInv, RequestInv, WaitInv, Waits, CommitLogin, Accepts, Response
<1>8. i \in DOMAIN users[u].credentials /\ users[u].credentials[i].id = c
  BY <1>4, <1>7, PlaceOf DEF IInv, DataInv
<1>9. count \in Nat
  <2>1. ceremonies[d] \in Ceremony
    BY <1>7, Types DEF IInv
  <2> QED
    BY <1>2, <1>5, <2>1 DEF Response, Ceremony
<1>10. /\ DOMAIN users' = DOMAIN users
       /\ \A v \in DOMAIN users :
            /\ DOMAIN users'[v].credentials = DOMAIN users[v].credentials
            /\ \A j \in DOMAIN users[v].credentials :
                 users'[v].credentials[j].id = users[v].credentials[j].id
  BY <1>6, <1>7, <1>8, <1>9, Counted
<1>11. u \in Names /\ c \in Challenges
  BY <1>7, IdsAreChallenges DEF IInv, TypeOK
<1>12. i \in Challenges
  <2>1. users[u].credentials \in Seq(Credential)
    BY <1>7, Types DEF IInv
  <2>2. \A j, k \in DOMAIN users[u].credentials :
          users[u].credentials[j].id = users[u].credentials[k].id => j = k
    BY <1>7 DEF IInv, DataInv, CredentialOnce
  <2>3. DOMAIN users[u].credentials \subseteq Challenges
    BY <2>1, <2>2, Fits
  <2> QED
    BY <1>8, <2>3
<1>13. Places(c) = {<<u, i>>}
  <2>1. \A v \in DOMAIN users : \A j : At(v, j, c) <=> v = u /\ j = i
    BY <1>7, <1>8 DEF At, IInv, DataInv, CredentialOnce
  <2> QED
    BY <1>7, <1>12, <2>1 DEF Places
<1>14. ASSUME NEW e PROVE Places(e)' = Places(e)
  BY <1>10 DEF Places, At
<1>15. LoginsOf' = LoginsOf \cup {<<u, c>>}
  <2>1. PICK L : L = [a \in accepted' |-> <<a[1], ceremonies[a[2]].credential>>]
    OBVIOUS
  <2>2. LoginsOf' = {L[a] : a \in accepted'} /\ LoginsOf = {L[a] : a \in accepted}
    BY <1>6, <2>1 DEF LoginsOf
  <2>3. L[<<u, d>>] = <<u, c>>
    BY <1>3, <1>6, <2>1
  <2> QED
    BY <1>6, <2>2, <2>3
<1> QED
  BY <1>11, <1>12, <1>13, <1>14, <1>15 DEF PlacesOf

(* Every step of the server is one of the registry, or none. *)
LEMMA Refines == IInv /\ [Next]_vars => [Contract!Next]_(Contract!vars)
<1> SUFFICES ASSUME IInv, [Next]_vars PROVE [Contract!Next]_(Contract!vars)
  OBVIOUS
<1>1. UNCHANGED <<PlacesOf, LoginsOf>> => UNCHANGED Contract!vars
  BY DEF PlacesOf, LoginsOf, Contract!vars
<1>2. CASE UNCHANGED vars
  BY <1>1, <1>2, NothingMoves DEF vars
<1>3. CASE \/ \E r \in Requests, u \in Names : RegisterGet(r, u) \/ LoginGet(r, u)
           \/ \E r \in Requests : Seal(r)
           \/ \E c \in DOMAIN ceremonies, a \in Authenticators : Create(c, a)
           \/ \E c, d \in DOMAIN ceremonies : Get(c, d)
  BY <1>1, <1>3, CeremonyStutters
<1>4. CASE \/ \E r \in Requests, u \in Names, kind \in {"registration", "login"},
                 s \in DOMAIN ceremonies, c \in DOMAIN ceremonies : Arrive(r, kind, u, s, c)
           \/ \E r \in Requests :
                \/ BeginRefused(r) \/ Verify(r) \/ FinishRegistration(r)
                \/ FinishLogin(r) \/ RefuseLogin(r)
                \/ CommitRegistration(r) /\ InUse(r)
           \/ Tick
  <2>1. UNCHANGED <<users, ceremonies, accepted>>
    BY <1>4 DEF Arrive, Verify, FinishRegistration, FinishLogin, BeginRefused, RefuseLogin,
       CommitRegistration, Tick, history
  <2> QED
    BY <1>1, <2>1, NothingMoves
<1>5. ASSUME NEW r \in Requests, CommitRegistration(r), ~InUse(r) PROVE Contract!Next
  <2>1. PICK c \in Challenges, u \in Names, i \in Challenges :
          /\ PlacesOf[c] = {}
          /\ \A d \in Challenges : <<u, i>> \notin PlacesOf[d]
          /\ PlacesOf' = [PlacesOf EXCEPT ![c] = {<<u, i>>}]
          /\ LoginsOf' = LoginsOf
    BY <1>5, CommitAdds
  <2>2. Contract!Add(c, u, i)
    BY <2>1 DEF Contract!Add, PlacesOf, LoginsOf
  <2> QED
    BY <2>2 DEF Contract!Next
<1>6. ASSUME NEW r \in Requests, CommitLogin(r) PROVE Contract!Next
  <2>1. PICK c \in Challenges, u \in Names, i \in Challenges :
          /\ PlacesOf[c] = {<<u, i>>}
          /\ LoginsOf' = LoginsOf \cup {<<u, c>>}
          /\ PlacesOf' = PlacesOf
    BY <1>6, CommitLogsIn
  <2>2. Contract!Login(c, u, i)
    BY <2>1 DEF Contract!Login, PlacesOf, LoginsOf
  <2> QED
    BY <2>2 DEF Contract!Next
<1>7. CASE Restart
  <2>1. DOMAIN users' = {} /\ accepted' = {}
    BY <1>7 DEF Restart, NoUsers
  <2>2. ASSUME NEW c PROVE Places(c)' = {}
    BY <2>1 DEF Places
  <2>3. Contract!Forget
    BY <2>1, <2>2 DEF Contract!Forget, Contract!Nowhere
  <2> QED
    BY <2>3 DEF Contract!Next
<1> QED
  BY <1>2, <1>3, <1>4, <1>5, <1>6, <1>7 DEF Next, Handle

(* Whatever interleaves, comes twice or is lost: each credential has one place
   at most and stays there until a restart, and only the user who has it logs
   in with it. *)
THEOREM Refinement == Spec => ImplementsRegistry
<1>1. Init => Contract!Init
  <2> SUFFICES ASSUME Init PROVE Contract!Init
    OBVIOUS
  <2>1. DOMAIN users = {} /\ accepted = {}
    BY DEF Init, NoUsers
  <2>2. ASSUME NEW c PROVE Places(c) = {}
    BY <2>1 DEF Places
  <2> QED
    BY <2>1, <2>2 DEF Contract!Init, Contract!Nowhere
<1> QED
  BY <1>1, Refines, Inductive, PTL DEF Spec, ImplementsRegistry, Contract!Spec

-----------------------------------------------------------------------------
(* Who logs in: what an accepted login rests on stays as it is while the       *)
(* process runs.                                                               *)

LEMMA BeginGrows ==
    ASSUME IInv, NEW r, NEW kind, NEW u, NEW user, NEW credentials,
           Begin(r, kind, u, user, credentials)
    PROVE  CeremoniesGrow /\ key' = key /\ accepted' = accepted
<1>1. PICK new : ceremonies' = Append(ceremonies, new)
  BY DEF Begin
<1>2. ceremonies \in Seq(Ceremony)
  BY DEF IInv, TypeOK
<1>3. /\ DOMAIN ceremonies \subseteq DOMAIN ceremonies'
      /\ \A c \in DOMAIN ceremonies : ceremonies'[c] = ceremonies[c]
  BY <1>1, <1>2
<1> QED
  BY <1>3 DEF CeremoniesGrow, Begin, history

(* The fields of a ceremony that a step may write. *)
LEMMA WriteGrows ==
    ASSUME IInv, NEW c \in DOMAIN ceremonies, NEW t, NEW by, NEW credential, NEW count,
           ceremonies' = [ceremonies EXCEPT ![c] = [ceremonies[c] EXCEPT
             !.timestamp = t, !.by = by, !.credential = credential, !.count = count]],
           ceremonies[c].timestamp # Unsealed => t = ceremonies[c].timestamp,
           ceremonies[c].by # None => by = ceremonies[c].by /\ credential = ceremonies[c].credential
    PROVE  CeremoniesGrow
<1>1. ceremonies[c] \in Ceremony
  BY Types DEF IInv
<1>2. PICK new : new = [ceremonies[c] EXCEPT
         !.timestamp = t, !.by = by, !.credential = credential, !.count = count]
  OBVIOUS
<1>3. /\ new.timestamp = t /\ new.by = by /\ new.credential = credential
      /\ new.kind = ceremonies[c].kind /\ new.name = ceremonies[c].name
      /\ new.user = ceremonies[c].user /\ new.key = ceremonies[c].key
  BY <1>1, <1>2 DEF Ceremony
<1>4. /\ DOMAIN ceremonies' = DOMAIN ceremonies /\ ceremonies'[c] = new
      /\ \A d \in DOMAIN ceremonies : d # c => ceremonies'[d] = ceremonies[d]
  BY <1>2
<1> QED
  BY <1>3, <1>4 DEF CeremoniesGrow

LEMMA SealGrows == ASSUME IInv, NEW r \in Requests, Seal(r) PROVE CeremoniesGrow
<1>1. PICK c : c = requests[r].session
  OBVIOUS
<1>2. c \in DOMAIN ceremonies /\ ceremonies[c].timestamp = Unsealed
  BY <1>1 DEF IInv, RequestInv, SealInv, Seal, Session
<1>3. ceremonies[c] \in Ceremony
  BY <1>2, Types DEF IInv
<1>4. [ceremonies[c] EXCEPT !.timestamp = now]
        = [ceremonies[c] EXCEPT !.timestamp = now, !.by = ceremonies[c].by,
             !.credential = ceremonies[c].credential, !.count = ceremonies[c].count]
  BY <1>3 DEF Ceremony
<1>5. ceremonies' = [ceremonies EXCEPT ![c] = [ceremonies[c] EXCEPT !.timestamp = now]]
  BY <1>1 DEF Seal
<1>6. ceremonies' = [ceremonies EXCEPT ![c] = [ceremonies[c] EXCEPT
         !.timestamp = now, !.by = ceremonies[c].by,
         !.credential = ceremonies[c].credential, !.count = ceremonies[c].count]]
  BY <1>4, <1>5, Zenon
<1>7. ceremonies[c].timestamp # Unsealed => now = ceremonies[c].timestamp
  BY <1>2
<1> QED
  BY <1>2, <1>6, <1>7, WriteGrows

LEMMA AnswerGrows ==
    ASSUME IInv, NEW c \in DOMAIN ceremonies, NEW a, NEW credential, Answer(c, a, credential)
    PROVE  CeremoniesGrow
<1>1. PICK n : n = IF a \in Counting THEN Uses(credential) + 1 ELSE 0
  OBVIOUS
<1>2. ceremonies' = [ceremonies EXCEPT ![c].by = a, ![c].credential = credential, ![c].count = n]
  BY <1>1 DEF Answer
<1>3. ceremonies[c] \in Ceremony /\ ceremonies[c].by = None
  BY Types DEF IInv, Answer, Answered, Sealed
<1>4. ceremonies' = [ceremonies EXCEPT ![c] = [ceremonies[c] EXCEPT
         !.timestamp = ceremonies[c].timestamp, !.by = a, !.credential = credential, !.count = n]]
  BY <1>2, <1>3 DEF Ceremony
<1> QED
  BY <1>3, <1>4, WriteGrows

LEMMA PushGrows ==
    ASSUME IInv, NEW r \in Requests, CommitRegistration(r) PROVE UsersGrow
<1>1. CASE InUse(r)
  BY <1>1 DEF CommitRegistration, UsersGrow, Ids
<1>2. CASE ~InUse(r)
  <2>1. PICK u \in DOMAIN users, new \in Credential : Pushes(u, new)
    BY <1>2, Commits
  <2>2. PICK n : n = Len(users[u].credentials) + 1
    OBVIOUS
  <2>3. /\ n \in Nat \ {0} /\ DOMAIN users' = DOMAIN users /\ users'[u].id = users[u].id
        /\ \A v \in DOMAIN users : v # u => users'[v] = users[v]
        /\ DOMAIN users[u].credentials = 1 .. n - 1
        /\ DOMAIN users'[u].credentials = 1 .. n
        /\ \A i \in 1 .. n - 1 : users'[u].credentials[i] = users[u].credentials[i]
    BY <2>1, <2>2, Pushed
  <2>4. 1 .. n - 1 \subseteq 1 .. n
    BY <2>3
  <2>5. Ids(u) \subseteq Ids(u)'
    BY <2>3, <2>4 DEF Ids
  <2>6. \A v \in DOMAIN users : v # u => Ids(v)' = Ids(v)
    BY <2>3 DEF Ids
  <2> QED
    BY <2>3, <2>5, <2>6 DEF UsersGrow
<1> QED
  BY <1>1, <1>2

(* An accepted assertion is of the login that the handler's session data is
   of, and the login writes a count only. *)
LEMMA AcceptedLogin ==
    ASSUME IInv, NEW r \in Requests, CommitLogin(r)
    PROVE  /\ UsersGrow
           /\ \E u \in DOMAIN users, c \in DOMAIN ceremonies :
                /\ accepted' = accepted \union {<<u, c>>}
                /\ ceremonies[c].kind = "login" /\ ceremonies[c].key = key
                /\ ceremonies[c].name = u /\ ceremonies[c].credential \in Ids(u)
<1>1. PICK u : u = requests[r].name
  OBVIOUS
<1>2. PICK c : c = requests[r].response
  OBVIOUS
<1>3. PICK i : i = Place(u, Response(r).credential)
  OBVIOUS
<1>4. WaitInv(r) /\ VerifiedInv(r) /\ CommitInv(r) /\ Waits(r)
  BY DEF IInv, RequestInv, Waits, CommitLogin, Accepts
<1>5. /\ u \in DOMAIN users /\ c \in DOMAIN ceremonies /\ Response(r).credential \in Ids(u)
      /\ Response(r) = ceremonies[c]
  BY <1>1, <1>2, <1>4 DEF WaitInv, Response, CommitLogin, Accepts
<1>6. ceremonies[c].kind = "login" /\ ceremonies[c].key = key /\ ceremonies[c].name = u
  BY <1>1, <1>2, <1>4 DEF VerifiedInv, CommitInv, Matches, Session, Response, CommitLogin, Accepts
<1>7. i \in DOMAIN users[u].credentials
  BY <1>3, <1>5, PlaceOf DEF IInv, DataInv
<1>8. PICK count : count = Response(r).count
  OBVIOUS
<1>9. count \in Nat
  BY <1>5, <1>8, Types DEF IInv, Ceremony
<1>10. users' = [users EXCEPT ![u].credentials[i].signCount = count]
  BY <1>1, <1>3, <1>8 DEF CommitLogin
<1>11. UsersGrow
  BY <1>5, <1>7, <1>9, <1>10, Counted DEF UsersGrow
<1>12. accepted' = accepted \union {<<u, c>>}
  BY <1>1, <1>2 DEF CommitLogin
<1> QED
  BY <1>5, <1>6, <1>11, <1>12

LEMMA StepGrows ==
    ASSUME IInv, [Next]_vars, ~Restart
    PROVE  CeremoniesGrow /\ UsersGrow /\ key' = key
<1>1. CASE UNCHANGED <<users, ceremonies, key>>
  BY <1>1 DEF CeremoniesGrow, UsersGrow, Ids
<1>2. ASSUME NEW r \in Requests, NEW u \in Names, RegisterGet(r, u)
      PROVE  CeremoniesGrow /\ UsersGrow /\ key' = key
  BY <1>2, RegisterKeeps, KeptFacts, BeginGrows DEF IInv, RegisterGet
<1>3. ASSUME NEW r \in Requests, NEW u \in Names, LoginGet(r, u)
      PROVE  CeremoniesGrow /\ UsersGrow /\ key' = key
  BY <1>3, BeginGrows DEF LoginGet, UsersGrow, Ids
<1>4. ASSUME NEW r \in Requests, Seal(r) PROVE CeremoniesGrow /\ UsersGrow /\ key' = key
  BY <1>4, SealGrows DEF Seal, UsersGrow, Ids
<1>5. ASSUME NEW r \in Requests, CommitRegistration(r)
      PROVE  CeremoniesGrow /\ UsersGrow /\ key' = key
  BY <1>5, PushGrows DEF CommitRegistration, CeremoniesGrow
<1>6. ASSUME NEW r \in Requests, CommitLogin(r)
      PROVE  CeremoniesGrow /\ UsersGrow /\ key' = key
  BY <1>6, AcceptedLogin DEF CommitLogin, CeremoniesGrow
<1>7. ASSUME NEW c \in DOMAIN ceremonies, NEW a, NEW d, Answer(c, a, d)
      PROVE  CeremoniesGrow /\ UsersGrow /\ key' = key
  BY <1>7, AnswerGrows DEF Answer, UsersGrow, Ids
<1> QED
  <2>1. CASE UNCHANGED vars
    BY <1>1, <2>1 DEF vars
  <2>2. ASSUME NEW r \in Requests, NEW u \in Names,
               NEW kind \in {"registration", "login"}, NEW s, NEW c, Arrive(r, kind, u, s, c)
        PROVE  UNCHANGED <<users, ceremonies, key>>
    BY <2>2 DEF Arrive
  <2>3. ASSUME NEW r \in Requests, \/ BeginRefused(r) \/ Verify(r) \/ FinishRegistration(r)
                                   \/ FinishLogin(r) \/ RefuseLogin(r)
        PROVE  UNCHANGED <<users, ceremonies, key>>
    BY <2>3 DEF Verify, FinishRegistration, FinishLogin, BeginRefused, RefuseLogin
  <2>4. CASE Tick
    BY <1>1, <2>4 DEF Tick
  <2>5. CASE Next
    BY <1>1, <1>2, <1>3, <1>4, <1>5, <1>6, <1>7, <2>2, <2>3, <2>4, <2>5
       DEF Next, Handle, Create, Get
  <2> QED
    BY <2>1, <2>5

(* Users, their ids and their credentials, and what was begun and answered,
   stay until the process is started again: a user id is not given out twice
   by one process, and no handler finds less after an await than before it. *)
THEOREM UsersStay == Spec => [][key' = key => UsersGrow /\ CeremoniesGrow]_vars
<1>1. IInv /\ [Next]_vars => [key' = key => UsersGrow /\ CeremoniesGrow]_vars
  <2> SUFFICES ASSUME IInv, [Next]_vars, key' = key PROVE UsersGrow /\ CeremoniesGrow
    OBVIOUS
  <2>1. key \in Nat
    BY ServerAssumption DEF IInv, TypeOK
  <2>2. ~Restart
    BY <2>1 DEF Restart
  <2> QED
    BY <2>2, StepGrows
<1> QED
  BY <1>1, Inductive, PTL DEF Spec

(* What LoginsBelong says of one login, and that its user is there. *)
Belongs(a) ==
    /\ a[1] \in DOMAIN users
    /\ ceremonies[a[2]].kind = "login" /\ ceremonies[a[2]].key = key
    /\ ceremonies[a[2]].name = a[1] /\ ceremonies[a[2]].credential \in Ids(a[1])

LoginsInv == \A a \in accepted : Belongs(a)

LEMMA StaysRight ==
    ASSUME IInv, CeremoniesGrow, UsersGrow, key' = key, NEW a \in accepted, Belongs(a)
    PROVE  Belongs(a)'
<1>1. PICK c : c = a[2]
  OBVIOUS
<1>2. PICK u : u = a[1]
  OBVIOUS
<1>3. c \in DOMAIN ceremonies /\ ceremonies[c].by # None
  BY <1>1 DEF IInv, DataInv, AcceptedInv
<1>4. /\ u \in DOMAIN users /\ ceremonies[c].kind = "login" /\ ceremonies[c].key = key
      /\ ceremonies[c].name = u /\ ceremonies[c].credential \in Ids(u)
  BY <1>1, <1>2 DEF Belongs
<1>5. u \in DOMAIN users' /\ Ids(u) \subseteq Ids(u)'
  BY <1>4 DEF UsersGrow
<1>6. /\ ceremonies'[c].kind = "login" /\ ceremonies'[c].key = key' /\ ceremonies'[c].name = u
      /\ ceremonies'[c].credential = ceremonies[c].credential
  BY <1>3, <1>4 DEF CeremoniesGrow
<1> QED
  BY <1>1, <1>2, <1>4, <1>5, <1>6 DEF Belongs

LEMMA OldStayRight ==
    ASSUME IInv, LoginsInv, [Next]_vars, ~Restart PROVE \A a \in accepted : Belongs(a)'
  BY StepGrows, StaysRight DEF LoginsInv

LEMMA NextLogins == IInv /\ LoginsInv /\ [Next]_vars => LoginsInv'
<1> SUFFICES ASSUME IInv, LoginsInv, [Next]_vars PROVE LoginsInv'
  OBVIOUS
<1>1. CASE Restart
  BY <1>1 DEF Restart, LoginsInv
<1>2. ASSUME NEW r \in Requests, CommitLogin(r), ~Restart PROVE LoginsInv'
  <2>1. PICK u \in DOMAIN users, c \in DOMAIN ceremonies :
          /\ accepted' = accepted \union {<<u, c>>}
          /\ ceremonies[c].kind = "login" /\ ceremonies[c].key = key
          /\ ceremonies[c].name = u /\ ceremonies[c].credential \in Ids(u)
    BY <1>2, AcceptedLogin
  <2>2. UsersGrow /\ UNCHANGED <<ceremonies, key>>
    BY <1>2, AcceptedLogin DEF CommitLogin
  <2>3. Belongs(<<u, c>>)'
    BY <2>1, <2>2 DEF Belongs, UsersGrow
  <2> QED
    BY <1>2, <2>1, <2>3, OldStayRight DEF LoginsInv
<1>3. CASE accepted' = accepted /\ ~Restart
  BY <1>3, OldStayRight DEF LoginsInv
<1>4. \/ accepted' = accepted \/ Restart
      \/ \E r \in Requests : CommitLogin(r)
  BY DEF Next, Handle, vars, history, RegisterGet, LoginGet, Begin, Arrive, Seal, Verify,
     FinishRegistration, FinishLogin, CommitRegistration, BeginRefused, RefuseLogin, Create, Get,
     Answer, Tick
<1> QED
  BY <1>1, <1>2, <1>3, <1>4

(* Every accepted assertion answers a login that this process began for the
   user it was accepted for, with a credential the user still has
   (LoginsBelong): what was checked before the await of finishLogin is about
   things that do not change any more. *)
THEOREM LogsInAsThemselves == Spec => []LoginsBelong
<1>1. Init => LoginsInv
  BY DEF Init, LoginsInv
<1>2. LoginsInv => LoginsBelong
  BY DEF LoginsInv, Belongs, LoginsBelong
<1> QED
  BY <1>1, <1>2, NextLogins, Inductive, PTL DEF Spec

-----------------------------------------------------------------------------
(* Sign counts. *)

CountsKept == \A u \in DOMAIN users \intersect DOMAIN users' :
    \A i \in DOMAIN users[u].credentials :
        users'[u].credentials[i].signCount < users[u].credentials[i].signCount
        => users[u].credentials[i].id \in raced'

LEMMA SameCounts ==
    ASSUME IInv,
           \A u \in DOMAIN users \intersect DOMAIN users' : \A i \in DOMAIN users[u].credentials :
             users'[u].credentials[i] = users[u].credentials[i]
    PROVE  CountsKept
<1>1. ASSUME NEW u \in DOMAIN users, NEW i \in DOMAIN users[u].credentials
      PROVE  users[u].credentials[i].signCount \in Nat
  <2>1. users[u].credentials[i] \in Credential
    BY Types DEF IInv
  <2> QED
    BY <2>1 DEF Credential
<1>2. \A n \in Nat : ~(n < n)
  OBVIOUS
<1> QED
  BY <1>1, <1>2 DEF CountsKept

LEMMA PushKeepsCounts ==
    ASSUME IInv, NEW r \in Requests, CommitRegistration(r) PROVE CountsKept
<1>1. CASE InUse(r)
  BY <1>1, SameCounts DEF CommitRegistration
<1>2. CASE ~InUse(r)
  <2>1. PICK u \in DOMAIN users, new \in Credential : Pushes(u, new)
    BY <1>2, Commits
  <2>2. PICK n : n = Len(users[u].credentials) + 1
    OBVIOUS
  <2>3. /\ \A v \in DOMAIN users : v # u => users'[v] = users[v]
        /\ DOMAIN users[u].credentials = 1 .. n - 1
        /\ \A i \in 1 .. n - 1 : users'[u].credentials[i] = users[u].credentials[i]
    BY <2>1, <2>2, Pushed
  <2> QED
    BY <2>3, SameCounts
<1> QED
  BY <1>1, <1>2

(* What an accepted login does, at the place i of its credential c. *)
Writes(r, u, i, c, count, seen) ==
    /\ u = requests[r].name /\ c = Response(r).credential /\ users[u].credentials[i].id = c
    /\ count = Response(r).count /\ requests[r].response \in DOMAIN ceremonies
    /\ Response(r).by # None
    /\ users[u].credentials[i].signCount # seen => c \in raced'
    /\ ~(count <= seen) \/ (count = 0 /\ seen = 0)
    /\ DOMAIN users' = DOMAIN users
    /\ \A v \in DOMAIN users : v # u => users'[v] = users[v]
    /\ DOMAIN users'[u].credentials = DOMAIN users[u].credentials
    /\ users'[u].credentials[i].id = c
    /\ users'[u].credentials[i].signCount = count
    /\ \A j \in DOMAIN users[u].credentials :
         j # i => users'[u].credentials[j] = users[u].credentials[j]

LEMMA LoginWrites ==
    ASSUME IInv, NEW r \in Requests, CommitLogin(r)
    PROVE  \E u \in DOMAIN users : \E i \in DOMAIN users[u].credentials :
             \E c, count, seen : count \in Nat /\ seen \in Nat /\ Writes(r, u, i, c, count, seen)
<1>1. PICK u : u = requests[r].name
  OBVIOUS
<1>2. PICK c : c = Response(r).credential
  OBVIOUS
<1>3. PICK i : i = Place(u, c)
  OBVIOUS
<1>4. PICK count : count = Response(r).count
  OBVIOUS
<1>5. PICK seen : seen = requests[r].seen
  OBVIOUS
<1>6. PICK list : list = users[u].credentials
  OBVIOUS
<1>7. /\ users' = [users EXCEPT ![u].credentials[i].signCount = count]
      /\ list[i].signCount # seen => c \in raced'
      /\ ~(count <= seen) \/ (count = 0 /\ seen = 0)
  BY <1>1, <1>2, <1>3, <1>4, <1>5, <1>6 DEF CommitLogin, Accepts, CloneWarning
<1>8. /\ u \in DOMAIN users /\ c \in Ids(u) /\ requests[r].response \in DOMAIN ceremonies
      /\ Response(r).by # None
  BY <1>1, <1>2 DEF IInv, RequestInv, WaitInv, Waits, CommitLogin, Accepts
<1>9. /\ i \in DOMAIN list /\ list[i].id = c
      /\ \A j \in DOMAIN list : list[j] \in Credential
  BY <1>3, <1>6, <1>8, PlaceOf, Types DEF IInv, DataInv
<1>10. count \in Nat /\ seen \in Nat
  <2>1. ceremonies[requests[r].response] \in Ceremony /\ requests[r] \in Request
    BY <1>8, Types DEF IInv
  <2> QED
    BY <1>4, <1>5, <2>1 DEF Response, Ceremony, Request
<1>11. PICK new : new = [list[i] EXCEPT !.signCount = count]
  OBVIOUS
<1>12. PICK user : user = [users[u] EXCEPT !.credentials = [list EXCEPT ![i] = new]]
  OBVIOUS
<1>13. users' = [users EXCEPT ![u] = user]
  BY <1>6, <1>7, <1>11, <1>12
<1>14. new.signCount = count /\ new.id = c /\ user.credentials = [list EXCEPT ![i] = new]
  <2>1. list[i] \in Credential /\ users[u] \in User
    BY <1>8, <1>9, Types DEF IInv
  <2> QED
    BY <1>9, <1>11, <1>12, <2>1 DEF Credential, User
<1>15. /\ DOMAIN users' = DOMAIN users
       /\ \A v \in DOMAIN users : v # u => users'[v] = users[v]
       /\ DOMAIN users'[u].credentials = DOMAIN list
       /\ users'[u].credentials[i].id = c
       /\ users'[u].credentials[i].signCount = count
       /\ \A j \in DOMAIN list : j # i => users'[u].credentials[j] = list[j]
  BY <1>8, <1>9, <1>13, <1>14
<1>16. Writes(r, u, i, c, count, seen)
  BY <1>1, <1>2, <1>4, <1>6, <1>7, <1>8, <1>9, <1>15 DEF Writes
<1> QED
  BY <1>6, <1>8, <1>9, <1>10, <1>16

LEMMA CountIsNat ==
    ASSUME IInv, NEW u \in DOMAIN users, NEW i \in DOMAIN users[u].credentials
    PROVE  users[u].credentials[i].signCount \in Nat
<1>1. users[u].credentials[i] \in Credential
  BY Types DEF IInv
<1> QED
  BY <1>1 DEF Credential

LEMMA LoginCounts ==
    ASSUME IInv, NEW r \in Requests, CommitLogin(r) PROVE CountsKept
<1>1. PICK u \in DOMAIN users : \E i \in DOMAIN users[u].credentials :
        \E c, count, seen : count \in Nat /\ seen \in Nat /\ Writes(r, u, i, c, count, seen)
  BY LoginWrites
<1>2. PICK i \in DOMAIN users[u].credentials : \E c, count, seen :
        count \in Nat /\ seen \in Nat /\ Writes(r, u, i, c, count, seen)
  BY <1>1
<1>3. PICK c, count, seen : count \in Nat /\ seen \in Nat /\ Writes(r, u, i, c, count, seen)
  BY <1>2
<1> SUFFICES ASSUME NEW v \in DOMAIN users, NEW j \in DOMAIN users[v].credentials,
                    users'[v].credentials[j].signCount < users[v].credentials[j].signCount
             PROVE  users[v].credentials[j].id \in raced'
  BY DEF CountsKept
<1>4. v = u /\ j = i
  <2>1. \A n \in Nat : ~(n < n)
    OBVIOUS
  <2> QED
    BY <1>3, <2>1, CountIsNat DEF Writes
<1>5. users[u].credentials[i].signCount # seen
  <2>1. users[u].credentials[i].signCount \in Nat
    BY CountIsNat
  <2> QED
    BY <1>3, <1>4, <2>1 DEF Writes
<1> QED
  BY <1>3, <1>4, <1>5 DEF Writes

(* A count goes back only where logins overlapped, in every step. *)
THEOREM CountsForward == Spec => CountGoesBackOnlyIfRaced
<1>1. IInv /\ [Next]_vars => CountsKept
  <2> SUFFICES ASSUME IInv, [Next]_vars PROVE CountsKept
    OBVIOUS
  <2>1. CASE users' = users
    BY <2>1, SameCounts
  <2>2. ASSUME NEW r \in Requests, NEW u \in Names, RegisterGet(r, u) PROVE CountsKept
    BY <2>2, RegisterKeeps, SameCounts DEF UsersKept
  <2>3. CASE Restart
    BY <2>3 DEF Restart, NoUsers, CountsKept
  <2>4. CASE \/ UNCHANGED vars \/ Tick
             \/ \E r \in Requests, u \in Names :
                  \/ LoginGet(r, u)
                  \/ \E kind \in {"registration", "login"}, s, c \in DOMAIN ceremonies :
                       Arrive(r, kind, u, s, c)
             \/ \E r \in Requests :
                  \/ Seal(r) \/ Verify(r) \/ FinishRegistration(r) \/ FinishLogin(r)
                  \/ BeginRefused(r) \/ RefuseLogin(r)
             \/ \E c \in DOMAIN ceremonies, a \in Authenticators : Create(c, a)
             \/ \E c, d \in DOMAIN ceremonies : Get(c, d)
    BY <2>1, <2>4 DEF vars, Tick, LoginGet, Arrive, Seal, Verify, FinishRegistration, FinishLogin,
       BeginRefused, RefuseLogin, Create, Get, Answer
  <2> QED
    BY <2>2, <2>3, <2>4, PushKeepsCounts, LoginCounts DEF Next, Handle
<1>2. CountsKept => [\A u \in DOMAIN users \intersect DOMAIN users' :
                       \A i \in DOMAIN users[u].credentials :
                         users'[u].credentials[i].signCount < users[u].credentials[i].signCount
                         => users[u].credentials[i].id \in raced']_vars
  BY DEF CountsKept
<1> QED
  BY <1>1, <1>2, Inductive, PTL DEF Spec, CountGoesBackOnlyIfRaced

-----------------------------------------------------------------------------
(* Excluded credentials.                                                   *)

(* The credentials that a ceremony names have been created, and it was not on
   the authenticator of one of them that a new one was. *)
NamesInv == \A c \in DOMAIN ceremonies : \A d \in ceremonies[c].credentials :
    /\ d \in DOMAIN ceremonies /\ ceremonies[d].by # None
    /\ ceremonies[c].kind = "registration" /\ ceremonies[c].by # None =>
         ceremonies[d].by # ceremonies[c].by

(* Every registration that began for u after b was stored excludes b. *)
Excluded(u, b) ==
    /\ b.id \in DOMAIN ceremonies /\ ceremonies[b.id].by # None
    /\ \A c \in DOMAIN ceremonies :
         /\ ceremonies[c].kind = "registration"
         /\ ceremonies[c].name = u /\ ceremonies[c].key = key
         /\ ~(c <= b.since)
         => b.id \in ceremonies[c].credentials

ListInv == \A u \in DOMAIN users : \A i \in DOMAIN users[u].credentials :
    Excluded(u, users[u].credentials[i])

ExcludeInv == NamesInv /\ ListInv

(* Ceremonies that change in nothing that these invariants look at, but for
   an answer. *)
SameCeremonies ==
    /\ DOMAIN ceremonies' = DOMAIN ceremonies
    /\ \A c \in DOMAIN ceremonies :
         /\ ceremonies'[c].kind = ceremonies[c].kind /\ ceremonies'[c].name = ceremonies[c].name
         /\ ceremonies'[c].key = ceremonies[c].key
         /\ ceremonies'[c].credentials = ceremonies[c].credentials
         /\ ceremonies[c].by # None => ceremonies'[c].by = ceremonies[c].by

LEMMA StillExcluded ==
    ASSUME SameCeremonies, key' = key, NEW u, NEW b, NEW b2, Excluded(u, b),
           b2.id = b.id, b2.since = b.since
    PROVE  Excluded(u, b2)'
  BY DEF SameCeremonies, Excluded

LEMMA SameLists ==
    ASSUME ListInv, SameCeremonies, key' = key, DOMAIN users' = DOMAIN users,
           \A u \in DOMAIN users :
             /\ DOMAIN users'[u].credentials = DOMAIN users[u].credentials
             /\ \A i \in DOMAIN users[u].credentials :
                  /\ users'[u].credentials[i].id = users[u].credentials[i].id
                  /\ users'[u].credentials[i].since = users[u].credentials[i].since
    PROVE  ListInv'
<1> SUFFICES ASSUME NEW u \in DOMAIN users, NEW i \in DOMAIN users[u].credentials
             PROVE  Excluded(u, users[u].credentials[i])'
  BY DEF ListInv
<1>1. PICK b : b = users[u].credentials[i]
  OBVIOUS
<1>2. PICK b2 : b2 = users'[u].credentials[i]
  OBVIOUS
<1>3. Excluded(u, b) /\ b2.id = b.id /\ b2.since = b.since
  BY <1>1, <1>2 DEF ListInv
<1>4. Excluded(u, b2)'
  BY <1>3, StillExcluded
<1> QED
  BY <1>2, <1>4

LEMMA InitExclude == Init => ExcludeInv
  BY DEF Init, NoUsers, ExcludeInv, NamesInv, ListInv

(* A ceremony that begins excludes, or allows, what its user has. *)
LEMMA BeginExclude ==
    ASSUME IInv, ExcludeInv, NEW r \in Requests, NEW kind, NEW u, NEW user, NEW credentials,
           Begin(r, kind, u, user, credentials), UsersKept,
           u \in DOMAIN users => credentials = Ids(u),
           u \notin DOMAIN users => credentials = {}
    PROVE  ExcludeInv'
<1>1. PICK n \in Nat : n = Len(ceremonies) + 1
  BY Types DEF IInv
<1>2. PICK new : new =
        [kind |-> kind, name |-> u, user |-> user, credentials |-> credentials, key |-> key,
         timestamp |-> Unsealed, by |-> None, credential |-> 0, count |-> 0]
  OBVIOUS
<1>3. new.name = u /\ new.credentials = credentials /\ new.by = None
  BY <1>2
<1>4. ceremonies' = Append(ceremonies, new) /\ ceremonies \in Seq(Ceremony) /\ key' = key
  BY <1>2 DEF Begin, IInv, TypeOK
<1>5. /\ DOMAIN ceremonies' = DOMAIN ceremonies \cup {n} /\ ceremonies'[n] = new
      /\ \A c \in DOMAIN ceremonies : ceremonies'[c] = ceremonies[c]
  <2>1. 1 .. n = (1 .. Len(ceremonies)) \cup {n}
    BY <1>1, <1>4
  <2> QED
    BY <1>1, <1>4, <2>1
<1>6. \A v \in DOMAIN users : \A i \in DOMAIN users[v].credentials :
        Excluded(v, users[v].credentials[i]) /\ users[v].credentials[i].id \in Ids(v)
  BY DEF ExcludeInv, ListInv, Ids
<1>7. NamesInv'
  <2>1. \A d \in credentials : d \in DOMAIN ceremonies /\ ceremonies[d].by # None
    BY <1>6 DEF Ids, Excluded
  <2> QED
    BY <1>3, <1>5, <2>1 DEF ExcludeInv, NamesInv
<1>8. ListInv'
  <2> SUFFICES ASSUME NEW v \in DOMAIN users', NEW i \in DOMAIN users'[v].credentials
               PROVE  Excluded(v, users[v].credentials[i])'
    BY DEF ListInv
  <2>1. v \in DOMAIN users /\ users'[v] = users[v]
    BY DEF UsersKept
  <2>2. PICK b : b = users[v].credentials[i]
    OBVIOUS
  <2>3. Excluded(v, b) /\ b.id \in Ids(v)
    BY <1>6, <2>1, <2>2
  <2>4. Excluded(v, b)'
    BY <1>3, <1>4, <1>5, <2>1, <2>3 DEF Excluded
  <2> QED
    BY <2>1, <2>2, <2>4
<1> QED
  BY <1>7, <1>8 DEF ExcludeInv

LEMMA GetsExclude ==
    ASSUME IInv, ExcludeInv, NEW r \in Requests, NEW u \in Names,
           RegisterGet(r, u) \/ LoginGet(r, u)
    PROVE  ExcludeInv'
<1>1. CASE RegisterGet(r, u)
  <2>1. PICK kind, user, credentials :
          Begin(r, kind, u, user, credentials) /\ credentials = Exclude(u)
    BY <1>1 DEF RegisterGet
  <2>2. UsersKept
    BY <1>1, RegisterKeeps
  <2> QED
    BY <2>1, <2>2, BeginExclude DEF Exclude, Known
<1>2. CASE LoginGet(r, u)
  <2>1. PICK kind, user : Begin(r, kind, u, user, Ids(u)) /\ u \in DOMAIN users
    BY <1>2 DEF LoginGet, Known
  <2>2. UsersKept
    BY <1>2 DEF LoginGet, IInv, DataInv, TypeOK, UsersKept
  <2> QED
    BY <2>1, <2>2, BeginExclude
<1> QED
  BY <1>1, <1>2

(* Create does not use an authenticator with a credential to exclude. *)
LEMMA AnswerExclude ==
    ASSUME IInv, ExcludeInv, NEW c \in DOMAIN ceremonies, NEW a, NEW credential,
           Answer(c, a, credential),
           ceremonies[c].kind = "registration" =>
             \A d \in ceremonies[c].credentials : ceremonies[d].by # a
    PROVE  ExcludeInv'
<1>1. PICK n : ceremonies' =
        [ceremonies EXCEPT ![c].by = a, ![c].credential = credential, ![c].count = n]
  BY DEF Answer
<1>2. /\ ceremonies[c].by = None /\ key' = key /\ users' = users
      /\ \A b \in DOMAIN ceremonies : ceremonies[b] \in Ceremony
  BY Types DEF Answer, Sealed, Answered, IInv
<1>3. PICK new : new = [ceremonies[c] EXCEPT !.by = a, !.credential = credential, !.count = n]
  OBVIOUS
<1>4. /\ new.by = a /\ new.kind = ceremonies[c].kind /\ new.name = ceremonies[c].name
      /\ new.key = ceremonies[c].key /\ new.credentials = ceremonies[c].credentials
  BY <1>2, <1>3 DEF Ceremony
<1>5. ceremonies' = [ceremonies EXCEPT ![c] = new]
  BY <1>1, <1>2, <1>3 DEF Ceremony
<1>6. /\ DOMAIN ceremonies' = DOMAIN ceremonies /\ ceremonies'[c] = new
      /\ \A b \in DOMAIN ceremonies : b # c => ceremonies'[b] = ceremonies[b]
  BY <1>5
<1>7. SameCeremonies
  BY <1>2, <1>4, <1>6 DEF SameCeremonies
<1>8. NamesInv'
  <2> SUFFICES ASSUME NEW b \in DOMAIN ceremonies, NEW d \in ceremonies[b].credentials
               PROVE  /\ d \in DOMAIN ceremonies /\ ceremonies'[d].by # None
                      /\ ceremonies[b].kind = "registration" /\ ceremonies'[b].by # None =>
                           ceremonies'[d].by # ceremonies'[b].by
    BY <1>7 DEF NamesInv, SameCeremonies
  <2>1. d \in DOMAIN ceremonies /\ ceremonies[d].by # None /\ d # c
    BY <1>2 DEF ExcludeInv, NamesInv
  <2>2. ceremonies'[d] = ceremonies[d]
    BY <1>6, <2>1
  <2> QED
    BY <1>4, <1>6, <2>1, <2>2 DEF ExcludeInv, NamesInv
<1>9. ListInv'
  BY <1>2, <1>7, SameLists DEF ExcludeInv
<1> QED
  BY <1>8, <1>9 DEF ExcludeInv

LEMMA SameExclude ==
    ASSUME IInv, ExcludeInv, UNCHANGED <<users, key>>,
           DOMAIN ceremonies' = DOMAIN ceremonies,
           \A c \in DOMAIN ceremonies :
             /\ ceremonies'[c].kind = ceremonies[c].kind /\ ceremonies'[c].name = ceremonies[c].name
             /\ ceremonies'[c].key = ceremonies[c].key
             /\ ceremonies'[c].credentials = ceremonies[c].credentials
             /\ ceremonies'[c].by = ceremonies[c].by
    PROVE  ExcludeInv'
<1>1. SameCeremonies
  BY DEF SameCeremonies
<1>2. NamesInv'
  BY DEF ExcludeInv, NamesInv
<1>3. ListInv'
  BY <1>1, SameLists DEF ExcludeInv
<1> QED
  BY <1>2, <1>3 DEF ExcludeInv

LEMMA SealExclude ==
    ASSUME IInv, ExcludeInv, NEW r \in Requests, Seal(r) PROVE ExcludeInv'
<1>1. PICK s : s = requests[r].session
  OBVIOUS
<1>2. /\ ceremonies' = [ceremonies EXCEPT ![s].timestamp = now] /\ UNCHANGED <<users, key>>
      /\ \A c \in DOMAIN ceremonies : ceremonies[c] \in Ceremony
  BY <1>1, Types DEF Seal, IInv
<1>3. /\ DOMAIN ceremonies' = DOMAIN ceremonies
      /\ \A c \in DOMAIN ceremonies :
           /\ ceremonies'[c].kind = ceremonies[c].kind /\ ceremonies'[c].name = ceremonies[c].name
           /\ ceremonies'[c].key = ceremonies[c].key
           /\ ceremonies'[c].credentials = ceremonies[c].credentials
           /\ ceremonies'[c].by = ceremonies[c].by
  BY <1>2 DEF Ceremony
<1> QED
  BY <1>2, <1>3, SameExclude

(* What is pushed was created, and no registration has begun since. *)
LEMMA PushExclude ==
    ASSUME IInv, ExcludeInv, NEW r \in Requests, CommitRegistration(r) PROVE ExcludeInv'
<1>1. CASE InUse(r)
  BY <1>1, SameExclude DEF CommitRegistration
<1>2. CASE ~InUse(r)
  <2>1. PICK u \in DOMAIN users, c \in DOMAIN ceremonies, new \in Credential :
          /\ new.id = c /\ new.since = Len(ceremonies) /\ ceremonies[c].by # None
          /\ Pushes(u, new)
    BY <1>2, Commits
  <2>2. PICK n : n = Len(users[u].credentials) + 1
    OBVIOUS
  <2>3. /\ n \in Nat \ {0} /\ DOMAIN users' = DOMAIN users
        /\ \A v \in DOMAIN users : v # u => users'[v] = users[v]
        /\ DOMAIN users[u].credentials = 1 .. n - 1
        /\ DOMAIN users'[u].credentials = 1 .. n
        /\ users'[u].credentials[n] = new
        /\ \A i \in 1 .. n - 1 : users'[u].credentials[i] = users[u].credentials[i]
    BY <2>1, <2>2, Pushed
  <2>4. UNCHANGED <<key, ceremonies>>
    BY DEF CommitRegistration
  <2>5. NamesInv'
    BY <2>4 DEF ExcludeInv, NamesInv
  <2>6. ASSUME NEW v, NEW b, Excluded(v, b) PROVE Excluded(v, b)'
    BY <2>4, <2>6 DEF Excluded
  <2>7. Excluded(u, new)'
    <3>1. \A d \in DOMAIN ceremonies : d <= Len(ceremonies)
      BY Types DEF IInv
    <3> QED
      BY <2>1, <2>4, <3>1 DEF Excluded
  <2>8. ListInv'
    <3> SUFFICES ASSUME NEW v \in DOMAIN users, NEW i \in DOMAIN users'[v].credentials
                 PROVE  Excluded(v, users[v].credentials[i])'
      BY <2>3 DEF ListInv
    <3>1. PICK b : b = users'[v].credentials[i]
      OBVIOUS
    <3>2. CASE v = u /\ i = n
      BY <2>3, <2>7, <3>2
    <3>3. CASE ~(v = u /\ i = n)
      <4>1. i \in DOMAIN users[v].credentials /\ b = users[v].credentials[i]
        <5>1. CASE v # u
          BY <2>3, <3>1, <5>1
        <5>2. CASE v = u
          <6>1. i \in 1 .. n - 1
            BY <2>3, <3>3, <5>2
          <6> QED
            BY <2>3, <3>1, <5>2, <6>1
        <5> QED
          BY <5>1, <5>2
      <4>2. Excluded(v, b)
        BY <4>1 DEF ExcludeInv, ListInv
      <4>3. Excluded(v, b)'
        BY <2>6, <4>2
      <4> QED
        BY <3>1, <4>3
    <3> QED
      BY <3>2, <3>3
  <2> QED
    BY <2>5, <2>8 DEF ExcludeInv
<1> QED
  BY <1>1, <1>2

LEMMA LoginExclude ==
    ASSUME IInv, ExcludeInv, NEW r \in Requests, CommitLogin(r) PROVE ExcludeInv'
<1>1. PICK u : u = requests[r].name
  OBVIOUS
<1>2. PICK i : i = Place(u, Response(r).credential)
  OBVIOUS
<1>3. PICK count : count = Response(r).count
  OBVIOUS
<1>4. /\ users' = [users EXCEPT ![u].credentials[i].signCount = count]
      /\ UNCHANGED <<key, ceremonies>>
  BY <1>1, <1>2, <1>3 DEF CommitLogin
<1>5. /\ u \in DOMAIN users /\ Response(r).credential \in Ids(u)
      /\ requests[r].response \in DOMAIN ceremonies
  BY <1>1 DEF IInv, RequestInv, WaitInv, Waits, CommitLogin, Accepts
<1>6. i \in DOMAIN users[u].credentials
  BY <1>2, <1>5, PlaceOf DEF IInv, DataInv
<1>7. count \in Nat
  <2>1. ceremonies[requests[r].response] \in Ceremony
    BY <1>5, Types DEF IInv
  <2> QED
    BY <1>3, <2>1 DEF Response, Ceremony
<1>8. /\ DOMAIN users' = DOMAIN users
      /\ \A v \in DOMAIN users :
           /\ DOMAIN users'[v].credentials = DOMAIN users[v].credentials
           /\ \A j \in DOMAIN users[v].credentials :
                /\ users'[v].credentials[j].id = users[v].credentials[j].id
                /\ users'[v].credentials[j].since = users[v].credentials[j].since
  BY <1>4, <1>5, <1>6, <1>7, Counted
<1>9. SameCeremonies
  BY <1>4 DEF SameCeremonies
<1>10. ListInv'
  BY <1>4, <1>8, <1>9, SameLists DEF ExcludeInv
<1>11. NamesInv'
  BY <1>4 DEF ExcludeInv, NamesInv
<1> QED
  BY <1>10, <1>11 DEF ExcludeInv

LEMMA NextExclude == IInv /\ ExcludeInv /\ [Next]_vars => ExcludeInv'
<1> SUFFICES ASSUME IInv, ExcludeInv, [Next]_vars PROVE ExcludeInv'
  OBVIOUS
<1>1. CASE UNCHANGED <<users, key, ceremonies>>
  BY <1>1, SameExclude
<1>2. CASE \/ UNCHANGED vars \/ Tick
           \/ \E r \in Requests, u \in Names, kind \in {"registration", "login"},
                 s \in DOMAIN ceremonies, c \in DOMAIN ceremonies : Arrive(r, kind, u, s, c)
           \/ \E r \in Requests :
                \/ BeginRefused(r) \/ Verify(r) \/ FinishRegistration(r)
                \/ FinishLogin(r) \/ RefuseLogin(r)
  BY <1>1, <1>2 DEF vars, Tick, Arrive, Verify, FinishRegistration, FinishLogin, BeginRefused,
     RefuseLogin
<1>3. ASSUME NEW c \in DOMAIN ceremonies, NEW a, Create(c, a) PROVE ExcludeInv'
  BY <1>3, AnswerExclude DEF Create
<1>4. ASSUME NEW c \in DOMAIN ceremonies, NEW d, Get(c, d) PROVE ExcludeInv'
  <2>1. ceremonies[c].kind # "registration" /\ Answer(c, ceremonies[d].by, d)
    BY <1>4 DEF Get
  <2> QED
    BY <2>1, AnswerExclude
<1>5. CASE Restart
  <2>1. DOMAIN users' = {} /\ ceremonies' = ceremonies
    BY <1>5 DEF Restart, NoUsers
  <2> QED
    BY <2>1 DEF ExcludeInv, NamesInv, ListInv
<1> QED
  BY <1>2, <1>3, <1>4, <1>5, GetsExclude, SealExclude, PushExclude, LoginExclude
     DEF Next, Handle

(* Excluding works, but for registrations that overlap. *)
THEOREM StaysOut == Spec => []ExcludedStaysOut
<1>1. Init => ExcludeInv
  BY InitExclude
<1>2. IInv /\ ExcludeInv /\ [Next]_vars => ExcludeInv'
  BY NextExclude
<1>3. IInv /\ ExcludeInv => ExcludedStaysOut
  <2> SUFFICES ASSUME IInv, ExcludeInv, NEW u \in DOMAIN users,
                      NEW i \in DOMAIN users[u].credentials, NEW j \in DOMAIN users[u].credentials,
                      ceremonies[users[u].credentials[i].id].by
                        = ceremonies[users[u].credentials[j].id].by
               PROVE  i = j \/ users[u].credentials[i].id <= users[u].credentials[j].since
    BY DEF ExcludedStaysOut
  <2>1. PICK a : a = users[u].credentials[i]
    OBVIOUS
  <2>2. PICK b : b = users[u].credentials[j]
    OBVIOUS
  <2>3. Excluded(u, a) /\ Excluded(u, b)
    BY <2>1, <2>2 DEF ExcludeInv, ListInv
  <2>4. /\ ceremonies[a.id].kind = "registration" /\ ceremonies[a.id].key = key
        /\ ceremonies[a.id].name = u
    BY <2>1 DEF IInv, DataInv, CredentialsBelong, Ids
  <2>5. b.id \in ceremonies[a.id].credentials \/ a.id <= b.since
    BY <2>3, <2>4 DEF Excluded
  <2>6. b.id \notin ceremonies[a.id].credentials
    BY <2>1, <2>2, <2>3, <2>4 DEF Excluded, ExcludeInv, NamesInv
  <2> QED
    BY <2>1, <2>2, <2>5, <2>6
<1> QED
  BY <1>1, <1>2, <1>3, Inductive, PTL DEF Spec

-----------------------------------------------------------------------------
(* Replayed assertions.                                                    *)

(* The first signature of an authenticator that counts is number one. *)
CountInv == \A c \in DOMAIN ceremonies :
    ceremonies[c].by # None /\ ceremonies[c].by \in Counting => ceremonies[c].count # 0

(* As long as logins with a credential do not overlap, the count stored with it
   is the highest accepted. *)
HighestInv == \A a \in accepted :
    /\ a[1] \in DOMAIN users /\ ceremonies[a[2]].credential \in Ids(a[1])
    /\ ceremonies[a[2]].by \in Counting /\ ceremonies[a[2]].credential \notin raced =>
         \A i \in DOMAIN users[a[1]].credentials :
             users[a[1]].credentials[i].id = ceremonies[a[2]].credential =>
                 ceremonies[a[2]].count <= users[a[1]].credentials[i].signCount

AnsweredInv == \A c \in replayed : c \in DOMAIN ceremonies /\ ceremonies[c].by # None

ReplayInv == CountInv /\ HighestInv /\ AnsweredInv /\ ReplayedOnlyIfRaced

AnswersFixed == \A c \in DOMAIN ceremonies :
    /\ c \in DOMAIN ceremonies'
    /\ ceremonies[c].by # None =>
         /\ ceremonies'[c].by = ceremonies[c].by
         /\ ceremonies'[c].credential = ceremonies[c].credential
         /\ ceremonies'[c].count = ceremonies[c].count

(* Users keep what they have; what they get has not been used. *)
OnlyNew == \A u \in DOMAIN users :
    /\ u \in DOMAIN users' /\ Ids(u) \subseteq Ids(u)'
    /\ \A i \in DOMAIN users'[u].credentials :
         \/ /\ i \in DOMAIN users[u].credentials
            /\ users'[u].credentials[i] = users[u].credentials[i]
         \/ users'[u].credentials[i].id \notin Ids(u)

LEMMA HistoryKept ==
    ASSUME IInv, ReplayInv, AnswersFixed, OnlyNew, CountInv', UNCHANGED history
    PROVE  ReplayInv'
<1>1. UNCHANGED <<accepted, replayed, raced>>
  BY DEF history
<1>2. HighestInv'
  <2> SUFFICES ASSUME NEW a \in accepted
               PROVE  /\ a[1] \in DOMAIN users' /\ ceremonies'[a[2]].credential \in Ids(a[1])'
                      /\ ceremonies'[a[2]].by \in Counting
                         /\ ceremonies'[a[2]].credential \notin raced =>
                           \A i \in DOMAIN users'[a[1]].credentials :
                             users'[a[1]].credentials[i].id = ceremonies'[a[2]].credential =>
                               ceremonies'[a[2]].count <= users'[a[1]].credentials[i].signCount
    BY <1>1 DEF HighestInv
  <2>1. PICK u : u = a[1]
    OBVIOUS
  <2>2. PICK c : c = a[2]
    OBVIOUS
  <2>3. /\ c \in DOMAIN ceremonies /\ ceremonies'[c].by = ceremonies[c].by
        /\ ceremonies'[c].credential = ceremonies[c].credential
        /\ ceremonies'[c].count = ceremonies[c].count
    BY <2>2 DEF IInv, DataInv, AcceptedInv, AnswersFixed
  <2>4. u \in DOMAIN users /\ ceremonies[c].credential \in Ids(u)
    BY <2>1, <2>2 DEF ReplayInv, HighestInv
  <2>5. u \in DOMAIN users' /\ ceremonies'[c].credential \in Ids(u)'
    BY <2>3, <2>4 DEF OnlyNew
  <2>6. ASSUME ceremonies[c].by \in Counting, ceremonies[c].credential \notin raced,
               NEW i \in DOMAIN users'[u].credentials,
               users'[u].credentials[i].id = ceremonies[c].credential
        PROVE  ceremonies[c].count <= users'[u].credentials[i].signCount
    <3>1. /\ i \in DOMAIN users[u].credentials
          /\ users'[u].credentials[i] = users[u].credentials[i]
      BY <2>4, <2>6 DEF OnlyNew
    <3>2. users[u].credentials[i].id = ceremonies[c].credential
      BY <2>6, <3>1
    <3>3. ceremonies[c].count <= users[u].credentials[i].signCount
      BY <2>1, <2>2, <2>6, <3>1, <3>2 DEF ReplayInv, HighestInv
    <3> QED
      BY <3>1, <3>3
  <2> QED
    BY <2>1, <2>2, <2>3, <2>5, <2>6
<1>3. AnsweredInv' /\ ReplayedOnlyIfRaced'
  BY <1>1 DEF ReplayInv, AnsweredInv, ReplayedOnlyIfRaced, AnswersFixed
<1> QED
  BY <1>2, <1>3 DEF ReplayInv

LEMMA SameOnly == ASSUME users' = users PROVE OnlyNew
  BY DEF OnlyNew, Ids

LEMMA GetsReplay ==
    ASSUME IInv, ReplayInv, NEW r \in Requests, NEW u \in Names,
           RegisterGet(r, u) \/ LoginGet(r, u)
    PROVE  ReplayInv'
<1>1. PICK new : /\ ceremonies' = Append(ceremonies, new) /\ new.by = None
                 /\ UNCHANGED history
  BY DEF RegisterGet, LoginGet, Begin
<1>2. ceremonies \in Seq(Ceremony)
  BY DEF IInv, TypeOK
<1>3. \A c \in DOMAIN ceremonies : c \in DOMAIN ceremonies' /\ ceremonies'[c] = ceremonies[c]
  BY <1>1, <1>2
<1>4. \A c \in DOMAIN ceremonies' : c \in DOMAIN ceremonies \/ ceremonies'[c].by = None
  BY <1>1, <1>2
<1>5. AnswersFixed
  BY <1>3 DEF AnswersFixed
<1>6. CountInv'
  BY <1>3, <1>4 DEF ReplayInv, CountInv
<1>7. OnlyNew
  <2>1. CASE RegisterGet(r, u)
    <3>1. UsersKept
      BY <2>1, RegisterKeeps
    <3>2. \A v \in DOMAIN users : v \in DOMAIN users' /\ users'[v] = users[v]
      BY <3>1 DEF UsersKept
    <3> QED
      BY <3>2 DEF OnlyNew, Ids
  <2>2. CASE LoginGet(r, u)
    BY <2>2, SameOnly DEF LoginGet
  <2> QED
    BY <2>1, <2>2
<1> QED
  BY <1>1, <1>5, <1>6, <1>7, HistoryKept

LEMMA SealReplay ==
    ASSUME IInv, ReplayInv, NEW r \in Requests, Seal(r) PROVE ReplayInv'
<1>1. PICK s : s = requests[r].session
  OBVIOUS
<1>2. /\ ceremonies' = [ceremonies EXCEPT ![s].timestamp = now]
      /\ users' = users /\ UNCHANGED history
      /\ \A c \in DOMAIN ceremonies : ceremonies[c] \in Ceremony
  BY <1>1, Types DEF Seal, IInv
<1>3. /\ DOMAIN ceremonies' = DOMAIN ceremonies
      /\ \A c \in DOMAIN ceremonies :
           /\ ceremonies'[c].by = ceremonies[c].by
           /\ ceremonies'[c].credential = ceremonies[c].credential
           /\ ceremonies'[c].count = ceremonies[c].count
  BY <1>2 DEF Ceremony
<1>4. AnswersFixed /\ CountInv'
  BY <1>3 DEF AnswersFixed, ReplayInv, CountInv
<1> QED
  BY <1>2, <1>4, SameOnly, HistoryKept

LEMMA AnswerReplay ==
    ASSUME IInv, ReplayInv, NEW c \in DOMAIN ceremonies, NEW a, NEW credential,
           Answer(c, a, credential)
    PROVE  ReplayInv'
<1>1. PICK n \in Nat : n = Uses(credential)
  BY UsesType DEF IInv
<1>2. PICK m : m = IF a \in Counting THEN n + 1 ELSE 0
  OBVIOUS
<1>3. a \in Counting => m # 0
  BY <1>2
<1>4. /\ ceremonies' = [ceremonies EXCEPT ![c].by = a, ![c].credential = credential, ![c].count = m]
      /\ ceremonies[c].by = None /\ users' = users /\ UNCHANGED history
      /\ \A b \in DOMAIN ceremonies : ceremonies[b] \in Ceremony
  BY <1>1, <1>2, Types DEF Answer, Sealed, Answered, IInv
<1>5. PICK new : new = [ceremonies[c] EXCEPT !.by = a, !.credential = credential, !.count = m]
  OBVIOUS
<1>6. new.by = a /\ new.count = m
  BY <1>4, <1>5 DEF Ceremony
<1>7. ceremonies' = [ceremonies EXCEPT ![c] = new]
  BY <1>4, <1>5 DEF Ceremony
<1>8. /\ DOMAIN ceremonies' = DOMAIN ceremonies /\ ceremonies'[c] = new
      /\ \A b \in DOMAIN ceremonies : b # c => ceremonies'[b] = ceremonies[b]
  BY <1>7
<1>9. AnswersFixed
  BY <1>4, <1>8 DEF AnswersFixed
<1>10. CountInv'
  BY <1>3, <1>6, <1>8 DEF ReplayInv, CountInv
<1> QED
  BY <1>4, <1>9, <1>10, SameOnly, HistoryKept

LEMMA SameReplay ==
    ASSUME IInv, ReplayInv, UNCHANGED <<ceremonies, history>>, OnlyNew PROVE ReplayInv'
<1>1. AnswersFixed /\ CountInv'
  BY DEF AnswersFixed, ReplayInv, CountInv
<1> QED
  BY <1>1, HistoryKept

LEMMA PushReplay ==
    ASSUME IInv, ReplayInv, NEW r \in Requests, CommitRegistration(r) PROVE ReplayInv'
<1>1. CASE InUse(r)
  BY <1>1, SameOnly, SameReplay DEF CommitRegistration
<1>2. CASE ~InUse(r)
  <2>1. PICK u \in DOMAIN users, c \in DOMAIN ceremonies, new \in Credential :
          /\ new.id = c
          /\ \A v \in DOMAIN users : c \notin Ids(v)
          /\ Pushes(u, new)
    BY <1>2, Commits
  <2>2. PICK n : n = Len(users[u].credentials) + 1
    OBVIOUS
  <2>3. /\ n \in Nat \ {0} /\ DOMAIN users' = DOMAIN users
        /\ \A v \in DOMAIN users : v # u => users'[v] = users[v]
        /\ DOMAIN users[u].credentials = 1 .. n - 1
        /\ DOMAIN users'[u].credentials = 1 .. n
        /\ users'[u].credentials[n] = new
        /\ \A i \in 1 .. n - 1 : users'[u].credentials[i] = users[u].credentials[i]
    BY <2>1, <2>2, Pushed
  <2>4. 1 .. n = (1 .. n - 1) \cup {n}
    BY <2>3
  <2>5. OnlyNew
    <3>1. Ids(u) \subseteq Ids(u)'
      BY <2>3, <2>4 DEF Ids
    <3>2. \A v \in DOMAIN users : v # u => Ids(v)' = Ids(v)
      BY <2>3 DEF Ids
    <3> QED
      BY <2>1, <2>3, <2>4, <3>1, <3>2 DEF OnlyNew
  <2>6. UNCHANGED <<ceremonies, history>>
    BY DEF CommitRegistration
  <2> QED
    BY <2>5, <2>6, SameReplay
<1> QED
  BY <1>1, <1>2

(* A login is accepted with a higher count than the one it saw, so, if nothing
   came in between, with the highest so far. *)
LEMMA LoginReplay ==
    ASSUME IInv, ReplayInv, NEW r \in Requests, CommitLogin(r) PROVE ReplayInv'
<1>1. PICK u \in DOMAIN users : \E i \in DOMAIN users[u].credentials :
        \E c, count, seen : count \in Nat /\ seen \in Nat /\ Writes(r, u, i, c, count, seen)
  BY LoginWrites
<1>2. PICK i \in DOMAIN users[u].credentials : \E c, count, seen :
        count \in Nat /\ seen \in Nat /\ Writes(r, u, i, c, count, seen)
  BY <1>1
<1>3. PICK c, count, seen : count \in Nat /\ seen \in Nat /\ Writes(r, u, i, c, count, seen)
  BY <1>2
<1>4. PICK d : d = requests[r].response
  OBVIOUS
<1>5. /\ d \in DOMAIN ceremonies /\ ceremonies[d].by # None
      /\ ceremonies[d].credential = c /\ ceremonies[d].count = count
  BY <1>3, <1>4 DEF Writes, Response
<1>6. /\ accepted' = accepted \union {<<u, d>>} /\ UNCHANGED ceremonies
      /\ replayed' = IF <<u, d>> \in accepted THEN replayed \union {d} ELSE replayed
      /\ raced \subseteq raced'
  BY <1>3, <1>4 DEF CommitLogin, Writes
<1>7. /\ DOMAIN users' = DOMAIN users
      /\ \A v \in DOMAIN users :
           /\ DOMAIN users'[v].credentials = DOMAIN users[v].credentials
           /\ \A j \in DOMAIN users[v].credentials :
                users'[v].credentials[j].id = users[v].credentials[j].id
      /\ users[u].credentials[i].id = c /\ users'[u].credentials[i].signCount = count
      /\ \A v \in DOMAIN users : \A j \in DOMAIN users[v].credentials :
           v # u \/ j # i => users'[v].credentials[j] = users[v].credentials[j]
  BY <1>3 DEF Writes
<1>8. \A v \in DOMAIN users : Ids(v)' = Ids(v)
  BY <1>7 DEF Ids
<1>9. c \notin raced' => users[u].credentials[i].signCount <= count
  BY <1>3 DEF Writes
<1>10. ASSUME NEW a \in accepted'
       PROVE  /\ a[1] \in DOMAIN users' /\ ceremonies[a[2]].credential \in Ids(a[1])'
              /\ ceremonies[a[2]].by \in Counting /\ ceremonies[a[2]].credential \notin raced' =>
                   \A j \in DOMAIN users'[a[1]].credentials :
                     users'[a[1]].credentials[j].id = ceremonies[a[2]].credential =>
                       ceremonies[a[2]].count <= users'[a[1]].credentials[j].signCount
  <2>1. PICK v : v = a[1]
    OBVIOUS
  <2>2. PICK e : e = a[2]
    OBVIOUS
  <2>3. \/ v = u /\ e = d
        \/ /\ a \in accepted
           /\ v \in DOMAIN users /\ ceremonies[e].credential \in Ids(v)
    BY <1>6, <2>1, <2>2 DEF ReplayInv, HighestInv
  <2>4. v \in DOMAIN users' /\ ceremonies[e].credential \in Ids(v)'
    <3>1. c \in Ids(u)
      BY <1>7 DEF Ids
    <3> QED
      BY <1>5, <1>7, <1>8, <2>3, <3>1
  <2>5. ASSUME ceremonies[e].by \in Counting, ceremonies[e].credential \notin raced',
               NEW j \in DOMAIN users[v].credentials,
               users[v].credentials[j].id = ceremonies[e].credential
        PROVE  ceremonies[e].count <= users'[v].credentials[j].signCount
    <3>1. CASE v = u /\ e = d
      <4>1. j = i
        BY <1>5, <1>7, <2>5, <3>1 DEF IInv, DataInv, CredentialOnce
      <4> QED
        BY <1>3, <1>5, <1>7, <3>1, <4>1
    <3>2. CASE ~(v = u /\ e = d)
      <4>1. ceremonies[e].count <= users[v].credentials[j].signCount
        BY <1>6, <2>1, <2>2, <2>3, <2>5, <3>2 DEF ReplayInv, HighestInv
      <4>2. CASE v = u /\ j = i
        <5>1. ceremonies[e].credential = c
          BY <1>7, <2>5, <4>2
        <5>2. users[u].credentials[i].signCount <= count
          BY <1>9, <2>5, <5>1
        <5>3. e \in DOMAIN ceremonies
          BY <2>2, <2>3, <3>2 DEF IInv, DataInv, AcceptedInv
        <5>4. ceremonies[e].count \in Nat
          BY <5>3, Types DEF IInv, Ceremony
        <5>5. users[u].credentials[i].signCount \in Nat
          BY CountIsNat
        <5> QED
          BY <1>3, <1>7, <4>1, <4>2, <5>2, <5>4, <5>5
      <4>3. CASE ~(v = u /\ j = i)
        BY <1>7, <2>3, <4>1, <4>3
      <4> QED
        BY <4>2, <4>3
    <3> QED
      BY <3>1, <3>2
  <2> QED
    BY <1>7, <2>1, <2>2, <2>3, <2>4, <2>5
<1>11. HighestInv'
  BY <1>6, <1>10 DEF HighestInv
<1>12. ReplayedOnlyIfRaced'
  <2> SUFFICES ASSUME NEW x \in replayed'
               PROVE  ceremonies[x].credential \in raced' \/ ceremonies[x].by \notin Counting
    BY <1>6 DEF ReplayedOnlyIfRaced
  <2>1. CASE x \in replayed
    BY <1>6, <2>1 DEF ReplayInv, ReplayedOnlyIfRaced
  <2>2. CASE x \notin replayed
    <3>1. x = d /\ <<u, d>> \in accepted
      BY <1>6, <2>2
    <3>2. SUFFICES ASSUME c \notin raced', ceremonies[d].by \in Counting PROVE FALSE
      BY <1>5, <3>1
    <3>3. count <= users[u].credentials[i].signCount
      BY <1>5, <1>6, <1>7, <3>1, <3>2 DEF ReplayInv, HighestInv
    <3>4. count # 0
      BY <1>5, <3>2 DEF ReplayInv, CountInv
    <3>5. users[u].credentials[i].signCount = seen /\ ~(count <= seen)
      BY <1>3, <3>2, <3>4 DEF Writes
    <3> QED
      BY <3>3, <3>5
  <2> QED
    BY <2>1, <2>2
<1>13. AnsweredInv' /\ CountInv'
  BY <1>5, <1>6 DEF ReplayInv, AnsweredInv, CountInv
<1> QED
  BY <1>11, <1>12, <1>13 DEF ReplayInv

LEMMA NextReplay == IInv /\ ReplayInv /\ [Next]_vars => ReplayInv'
<1> SUFFICES ASSUME IInv, ReplayInv, [Next]_vars PROVE ReplayInv'
  OBVIOUS
<1>1. CASE \/ UNCHANGED vars \/ Tick
           \/ \E r \in Requests, u \in Names, kind \in {"registration", "login"},
                 s \in DOMAIN ceremonies, c \in DOMAIN ceremonies : Arrive(r, kind, u, s, c)
           \/ \E r \in Requests :
                \/ BeginRefused(r) \/ Verify(r) \/ FinishRegistration(r)
                \/ FinishLogin(r) \/ RefuseLogin(r)
  <2>1. users' = users /\ UNCHANGED <<ceremonies, history>>
    BY <1>1 DEF vars, history, Tick, Arrive, Verify, FinishRegistration, FinishLogin, BeginRefused,
       RefuseLogin
  <2> QED
    BY <2>1, SameOnly, SameReplay
<1>2. ASSUME NEW c \in DOMAIN ceremonies, NEW a, Create(c, a) PROVE ReplayInv'
  BY <1>2, AnswerReplay DEF Create
<1>3. ASSUME NEW c \in DOMAIN ceremonies, NEW d, Get(c, d) PROVE ReplayInv'
  BY <1>3, AnswerReplay DEF Get
<1>4. CASE Restart
  <2>1. accepted' = {} /\ UNCHANGED <<ceremonies, replayed, raced>>
    BY <1>4 DEF Restart
  <2> QED
    BY <2>1 DEF ReplayInv, CountInv, HighestInv, AnsweredInv, ReplayedOnlyIfRaced
<1> QED
  BY <1>1, <1>2, <1>3, <1>4, GetsReplay, SealReplay, PushReplay, LoginReplay DEF Next, Handle

(* Who counts signatures is not logged in twice with one, unless logins with
   the credential overlap. *)
THEOREM NoReplay == Spec => []ReplayedOnlyIfRaced
<1>1. Init => ReplayInv
  BY DEF Init, ReplayInv, CountInv, HighestInv, AnsweredInv, ReplayedOnlyIfRaced
<1>2. IInv /\ ReplayInv /\ [Next]_vars => ReplayInv'
  BY NextReplay
<1>3. ReplayInv => ReplayedOnlyIfRaced
  BY DEF ReplayInv
<1> QED
  BY <1>1, <1>2, <1>3, Inductive, PTL DEF Spec

=============================================================================
