---------------------------- MODULE Registration -----------------------------
(***************************************************************************)
(* Phone numbers, users and one-time codes: authentication.service.ts over *)
(* the Cognito user pool (cognito.service.ts) and the tables               *)
(* Registration-Pins and User-Message-Token.  A request is a job of the    *)
(* Node process that interleaves with the others at every awaited call;    *)
(* the pc of a job names the call it is about to make.  Each member of     *)
(* Registrations, Updates and Logins stands for one request, and also for  *)
(* what that request draws: the code it stores and the identifier (sub) of *)
(* the user it creates.  The branch for NODE_ENV = 'prod' is modelled.     *)
(***************************************************************************)
EXTENDS Naturals, Sequences

CONSTANTS
    Phones,         \* full phone numbers, the user names of the pool
    Registrations,  \* requests to /register or /resend
    Updates,        \* requests to /phone/update
    Logins,         \* requests to /verify
    WithDevice,     \* the logins that carry a message token
    Whitelisted,    \* numbers whose OTP is fixed
    Faults,         \* what may go wrong, a subset of FaultKinds
    MaxMishaps,     \* bound: how many faults other than overlaps happen
    None            \* no user, no item, no value

Issuers == Registrations \cup Updates
Requests == Issuers \cup Logins

(* overlap: requests for the same number run at the same time.  crash: the *)
(* process restarts.  callError: an awaited call throws, before or after   *)
(* taking effect.  smsFails: the provider answers error.  expire: a code   *)
(* outlives its ttl.                                                       *)
FaultKinds == {"overlap", "crash", "callError", "smsFails", "expire"}

ASSUME RegistrationAssumption ==
    /\ Registrations \cap Updates = {}
    /\ Issuers \cap Logins = {}
    /\ None \notin Phones \cup Requests
    /\ None \notin [sub : Issuers, ready : BOOLEAN]
    /\ None \notin [code : Issuers, live : BOOLEAN]
    /\ WithDevice \subseteq Logins
    /\ Whitelisted \subseteq Phones
    /\ Faults \subseteq FaultKinds
    /\ MaxMishaps \in Nat

VARIABLES
    pool,       \* the Cognito user of each number
    pins,       \* the item of each number in Registration-Pins
    inbox,      \* the codes the SMS gateway took for each number, oldest first
    devices,    \* the login whose time is createdAt of each user's token
    owner,      \* the user each code was stored for (history)
    shared,     \* the numbers on which requests have overlapped (history)
    job,        \* the state of each request
    mishaps     \* how many faults have happened

vars == <<pool, pins, inbox, devices, owner, shared, job, mishaps>>

User == [sub : Issuers, ready : BOOLEAN]    \* ready: it has its password
Pin  == [code : Issuers, live : BOOLEAN]

Job == [pc     : {"idle", "own", "exists", "create", "password", "otp", "send",
                  "unpin", "delete", "find", "pins", "authenticate", "device",
                  "done"},
        phone  : Phones \cup {None},
        old    : Phones \cup {None},
        user   : Issuers \cup {None},   \* the caller, or the user of a login
        held   : Issuers \cup {None},   \* an update: the user of the old number
        auth   : Issuers \cup {None},
        otp    : Issuers \cup {None},
        sub    : Issuers \cup {None},   \* whom the tokens of a login are for
        answer : {"none", "code", "tokens", "empty", "failed"}]

Idle == [pc |-> "idle", phone |-> None, old |-> None, user |-> None,
         held |-> None, auth |-> None, otp |-> None, sub |-> None,
         answer |-> "none"]

TypeOK ==
    /\ pool \in [Phones -> User \cup {None}]
    /\ pins \in [Phones -> Pin \cup {None}]
    /\ inbox \in [Phones -> Seq(Issuers)]
    /\ devices \in [Issuers -> Logins \cup {None}]
    /\ owner \in [Issuers -> Issuers \cup {None}]
    /\ shared \subseteq Phones
    /\ job \in [Requests -> Job]
    /\ mishaps \in 0..MaxMishaps

Init ==
    /\ pool = [p \in Phones |-> None]
    /\ pins = [p \in Phones |-> None]
    /\ inbox = [p \in Phones |-> <<>>]
    /\ devices = [u \in Issuers |-> None]
    /\ owner = [c \in Issuers |-> None]
    /\ shared = {}
    /\ job = [r \in Requests |-> Idle]
    /\ mishaps = 0

-----------------------------------------------------------------------------
Active(r) == job[r].pc \notin {"idle", "done"}

(* A request of the set works on the number.                               *)
Uses(requests, p) == \E r \in requests : Active(r) /\ p \in {job[r].phone, job[r].old}

(* A request starts although others work on the numbers of the set.        *)
Overlap(numbers) ==
    /\ numbers = {} \/ "overlap" \in Faults
    /\ shared' = shared \cup numbers

Goto(r, pc) == job' = [job EXCEPT ![r].pc = pc]

(* The request is answered, or its exception is logged and swallowed by    *)
(* the controller ("failed").                                              *)
End(r, answer) == job' = [job EXCEPT ![r].pc = "done", ![r].answer = answer]

Mishap(kind) ==
    /\ kind \in Faults
    /\ mishaps < MaxMishaps
    /\ mishaps' = mishaps + 1

(* The last call of a request took effect: its answer may still be lost.   *)
Finish(r, answer) ==
    \/ End(r, answer) /\ UNCHANGED mishaps
    \/ End(r, "failed") /\ Mishap("callError")

HasUser(p) == pool[p] # None

SubOf(p) == IF HasUser(p) THEN pool[p].sub ELSE None

(* The OTP that goes with a code: drawn with it, or the number's own.      *)
Otp(p, code) == IF p \in Whitelisted THEN p ELSE code

-----------------------------------------------------------------------------
(* register and resend; updatePhone up to its reading of the old number.   *)

Register(r, p) ==
    /\ r \in Registrations
    /\ job[r].pc = "idle"
    /\ Overlap({q \in {p} : Uses(Issuers, q)})
    /\ job' = [job EXCEPT ![r] = [Idle EXCEPT !.pc = "exists", !.phone = p]]
    /\ UNCHANGED <<pool, pins, inbox, devices, owner, mishaps>>

(* A caller holds tokens from a login, and JwtStrategy finds its user.     *)
Authenticated(u) ==
    /\ \E l \in Logins : job[l].answer = "tokens" /\ job[l].sub = u
    /\ \E p \in Phones : SubOf(p) = u

UpdatePhone(r, u, old, new) ==
    /\ r \in Updates
    /\ job[r].pc = "idle"
    /\ Authenticated(u)
    /\ Overlap({q \in {old} : Uses(Requests, q)} \cup {q \in {new} : Uses(Issuers, q)})
    /\ job' = [job EXCEPT ![r] =
                [Idle EXCEPT !.pc = "own", !.phone = new, !.old = old, !.user = u]]
    /\ UNCHANGED <<pool, pins, inbox, devices, owner, mishaps>>

(* getUser throws when the number has no user.                             *)
ReadOld(r) ==
    /\ job[r].pc = "own"
    /\ IF HasUser(job[r].old)
         THEN job' = [job EXCEPT ![r].pc = "exists", ![r].held = SubOf(job[r].old)]
         ELSE End(r, "failed")
    /\ UNCHANGED <<pool, pins, inbox, devices, owner, shared, mishaps>>

(* Faulty variant: whose number the old one is goes unchecked.             *)
OwnsAny(r) == TRUE

Owns(r) == job[r].held = job[r].user

(* userExists: an error of the call counts as "does not exist".            *)
CheckExists(r) ==
    /\ job[r].pc = "exists"
    /\ \E exists \in BOOLEAN :
        /\ \/ exists = HasUser(job[r].phone) /\ UNCHANGED mishaps
           \/ exists = FALSE /\ HasUser(job[r].phone) /\ Mishap("callError")
        /\ IF r \in Registrations
             THEN Goto(r, IF exists THEN "otp" ELSE "create")
             ELSE IF Owns(r) /\ ~exists THEN Goto(r, "create") ELSE End(r, "failed")
    /\ UNCHANGED <<pool, pins, inbox, devices, owner, shared>>

-----------------------------------------------------------------------------
(* CognitoService.register: two calls.                                     *)

(* Faulty variant: the user keeps its temporary password.                  *)
SkipPassword(r) == "otp"

AfterCreate(r) == "password"

CreateUser(r) ==
    /\ job[r].pc = "create"
    /\ IF HasUser(job[r].phone)
         THEN End(r, "failed") /\ UNCHANGED pool
         ELSE /\ pool' = [pool EXCEPT ![job[r].phone] = [sub |-> r, ready |-> FALSE]]
              /\ Goto(r, AfterCreate(r))
    /\ UNCHANGED <<pins, inbox, devices, owner, shared, mishaps>>

SetPassword(r) ==
    /\ job[r].pc = "password"
    /\ IF HasUser(job[r].phone)
         THEN pool' = [pool EXCEPT ![job[r].phone].ready = TRUE] /\ Goto(r, "otp")
         ELSE End(r, "failed") /\ UNCHANGED pool
    /\ UNCHANGED <<pins, inbox, devices, owner, shared, mishaps>>

(* generateAndStoreAuthCodeAndOtp: the item of the number is replaced.     *)
StoreCode(r) ==
    /\ job[r].pc = "otp"
    /\ pins' = [pins EXCEPT ![job[r].phone] = [code |-> r, live |-> TRUE]]
    /\ owner' = [owner EXCEPT ![r] = SubOf(job[r].phone)]
    /\ Goto(r, "send")
    /\ UNCHANGED <<pool, inbox, devices, shared, mishaps>>

(* Faulty variant: register answers a code whatever became of the message. *)
RegisteredAnyway(isSend) == "code"

(* Faulty variant: the provider's own word is handed on as the answer.     *)
RegisteredRaw(isSend) == IF isSend THEN "code" ELSE "error"

Registered(isSend) == IF isSend THEN "code" ELSE "failed"

(* sendSMS answers true when the gateway took the message, and false when  *)
(* it refused it or for any error of its own, taken or not; updatePhone    *)
(* does not look at the answer.  A message taken may be read at any later  *)
(* time, or never.                                                         *)
SendCode(r) ==
    /\ job[r].pc = "send"
    /\ \E isSend, taken \in BOOLEAN :
        /\ \/ isSend /\ taken /\ UNCHANGED mishaps
           \/ ~isSend /\ Mishap("smsFails")
        /\ inbox' = IF taken THEN [inbox EXCEPT ![job[r].phone] = Append(@, r)]
                    ELSE inbox
        /\ IF r \in Registrations THEN End(r, Registered(isSend)) ELSE Goto(r, "unpin")
    /\ UNCHANGED <<pool, pins, devices, owner, shared>>

-----------------------------------------------------------------------------
(* updatePhone, the old number.                                            *)

(* Faulty variant: the item of the old number is left behind.              *)
PinsKept(p) == pins

PinsWithout(p) == [pins EXCEPT ![p] = None]

DeletePin(r) ==
    /\ job[r].pc = "unpin"
    /\ pins' = PinsWithout(job[r].old)
    /\ Goto(r, "delete")
    /\ UNCHANGED <<pool, inbox, devices, owner, shared, mishaps>>

(* Faulty variant: the user of the old number is left behind.              *)
PoolKept(p) == pool

PoolWithout(p) == [pool EXCEPT ![p] = None]

DeleteUser(r) ==
    /\ job[r].pc = "delete"
    /\ IF HasUser(job[r].old)
         THEN pool' = PoolWithout(job[r].old) /\ Finish(r, "code")
         ELSE End(r, "failed") /\ UNCHANGED <<pool, mishaps>>
    /\ UNCHANGED <<pins, inbox, devices, owner, shared>>

-----------------------------------------------------------------------------
(* verifyOtp.  The client sends an authorization code it was answered and  *)
(* a one-time password it was sent, of the same request or not.            *)

VerifyOtp(l, p, auth, otp) ==
    /\ l \in Logins
    /\ job[l].pc = "idle"
    /\ Overlap({q \in {p} : \E r \in Updates : Active(r) /\ job[r].old = q})
    /\ job[auth].answer = "code" /\ job[auth].phone = p
    /\ \E i \in DOMAIN inbox[p] : inbox[p][i] = otp
    /\ job' = [job EXCEPT ![l] =
                [Idle EXCEPT !.pc = "find", !.phone = p, !.auth = auth, !.otp = otp]]
    /\ UNCHANGED <<pool, pins, inbox, devices, owner, mishaps>>

(* UsersService.getUser: the user of the number, or 404.                   *)
FindUser(l) ==
    /\ job[l].pc = "find"
    /\ IF HasUser(job[l].phone)
         THEN job' = [job EXCEPT ![l].pc = "pins", ![l].user = SubOf(job[l].phone)]
         ELSE End(l, "failed")
    /\ UNCHANGED <<pool, pins, inbox, devices, owner, shared, mishaps>>

Accepts(p, pin, auth, otp) ==
    /\ pin # None
    /\ Otp(p, pin.code) = Otp(p, otp)
    /\ pin.code = auth
    /\ pin.live

(* A number without an item makes the comparison throw.                    *)
CheckCode(l) ==
    /\ job[l].pc = "pins"
    /\ IF Accepts(job[l].phone, pins[job[l].phone], job[l].auth, job[l].otp)
         THEN Goto(l, "authenticate")
         ELSE End(l, "failed")
    /\ UNCHANGED <<pool, pins, inbox, devices, owner, shared, mishaps>>

(* authenticate: a user without its password is challenged for a new one,  *)
(* and the missing result becomes three null tokens.                       *)
Tokens(l, sub) ==
    job' = [job EXCEPT ![l].sub = sub,
                       ![l].pc = IF l \in WithDevice THEN "device" ELSE "done",
                       ![l].answer = IF l \in WithDevice THEN "none"
                                     ELSE IF sub = None THEN "empty" ELSE "tokens"]

Authenticate(l) ==
    /\ job[l].pc = "authenticate"
    /\ LET user == pool[job[l].phone]
       IN  IF user = None THEN End(l, "failed")
           ELSE Tokens(l, IF user.ready THEN user.sub ELSE None)
    /\ UNCHANGED <<pool, pins, inbox, devices, owner, shared, mishaps>>

(* createOrUpdateUserMessageToken: createdAt is stored as a string and     *)
(* looked up as a number, so the item never keeps an earlier one.          *)
StoreDevice(l) ==
    /\ job[l].pc = "device"
    /\ devices' = [devices EXCEPT ![job[l].user] = l]
    /\ Finish(l, IF job[l].sub = None THEN "empty" ELSE "tokens")
    /\ UNCHANGED <<pool, pins, inbox, owner, shared>>

-----------------------------------------------------------------------------
(* An awaited call throws before it takes effect; one that took effect and *)
(* whose answer is lost is the same as the next call throwing, and so at   *)
(* "send" it is the code stored just before that throws.  An error of      *)
(* userExists is swallowed (CheckExists), and one of sendSMS is an answer  *)
(* of false (SendCode).                                                    *)
CallThrows(r) ==
    /\ Active(r) /\ job[r].pc # "exists"
    /\ Mishap("callError")
    /\ End(r, "failed")
    /\ UNCHANGED <<pool, pins, inbox, devices, owner, shared>>

Crash ==
    /\ \E r \in Requests : Active(r)
    /\ Mishap("crash")
    /\ job' = [r \in Requests |->
                IF Active(r) THEN [job[r] EXCEPT !.pc = "done", !.answer = "failed"]
                ELSE job[r]]
    /\ UNCHANGED <<pool, pins, inbox, devices, owner, shared>>

Expire(p) ==
    /\ pins[p] # None /\ pins[p].live
    /\ Mishap("expire")
    /\ pins' = [pins EXCEPT ![p].live = FALSE]
    /\ UNCHANGED <<pool, inbox, devices, owner, shared, job>>

Step(r) ==
    \/ ReadOld(r) \/ CheckExists(r) \/ CreateUser(r) \/ SetPassword(r)
    \/ StoreCode(r) \/ SendCode(r) \/ DeletePin(r) \/ DeleteUser(r)
    \/ FindUser(r) \/ CheckCode(r) \/ Authenticate(r) \/ StoreDevice(r)
    \/ CallThrows(r)

Next ==
    \/ \E r \in Registrations, p \in Phones : Register(r, p)
    \/ \E r \in Updates, u \in Issuers, old, new \in Phones : UpdatePhone(r, u, old, new)
    \/ \E l \in Logins, p \in Phones, auth, otp \in Issuers : VerifyOtp(l, p, auth, otp)
    \/ \E r \in Requests : Step(r)
    \/ \E p \in Phones : Expire(p)
    \/ Crash

Spec == Init /\ [][Next]_vars

-----------------------------------------------------------------------------
(* A login that gets tokens gets those of the user its code was stored     *)
(* for, and its device is registered with that user.  updatePhone keeps    *)
(* this up by deleting the old number's item before its user: a number     *)
(* given to somebody else must not come with a code that still works.      *)
LoginIsOwn ==
    \A l \in Logins : job[l].answer = "tokens" /\ job[l].phone \notin shared =>
        /\ job[l].sub = owner[job[l].auth]
        /\ job[l].user = job[l].sub

(* When register answers that a code was sent, and its code is still the   *)
(* number's, the last message the gateway took for the number carries that *)
(* code: neither a refused message nor a failed write lets the last code   *)
(* sent and the code stored differ.  What the gateway then delivers, and   *)
(* in which order, the code does not know.                                 *)
StoredIsSent ==
    \A p \in Phones :
        LET pin == pins[p]
        IN  (/\ pin # None
             /\ pin.code \in Registrations /\ job[pin.code].answer = "code"
             /\ p \notin shared /\ ~Uses(Issuers, p))
            => /\ inbox[p] # <<>>
               /\ inbox[p][Len(inbox[p])] = pin.code

(* A correct code is answered with null tokens only when the request that  *)
(* created the user has ended without answering a code: a user lacks its   *)
(* password because its creator was cut off before setting it, never       *)
(* because a login ran ahead of it.  This says who caused the lock-out,    *)
(* not who suffers it: a later register or resend of the number finds the  *)
(* user, skips both calls and answers a code, and its login gets null      *)
(* tokens too, for good.                                                   *)
EmptyOnlyInterrupted ==
    \A l \in Logins : job[l].answer = "empty" /\ job[l].phone \notin shared =>
        job[job[l].user].pc = "done" /\ job[job[l].user].answer = "failed"

(* A number change that answered its code has retired the old user for     *)
(* good: no number leads to it any more, whatever failed on the way.       *)
RetiredForGood ==
    \A r \in Updates : job[r].answer = "code" =>
        \A p \in Phones : SubOf(p) # job[r].user

(* A user disappears only by its own request, and only when the number it  *)
(* moves to is complete: created, with its password, and a code stored.    *)
NeverLockedOut ==
    [][\A p \in Phones \ shared : HasUser(p) /\ pool'[p] = None =>
        \E r \in Updates :
            /\ job[r].pc = "delete" /\ job[r].old = p /\ job[r].user = SubOf(p)
            /\ job[r].phone \notin shared =>
                 /\ pool[job[r].phone] = [sub |-> r, ready |-> TRUE]
                 /\ pins[job[r].phone] # None /\ pins[job[r].phone].code = r]_vars
=============================================================================
