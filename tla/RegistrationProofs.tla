-------------------------- MODULE RegistrationProofs --------------------------
(***************************************************************************)
(* Registration for every set of numbers and requests and every fault      *)
(* model.  With overlaps: the type correctness and the fate of a retired   *)
(* user.  A user is created once, by the request that carries its sub, at  *)
(* that request's number and nowhere else, so an update that found its     *)
(* caller's user at the old number empties the only place the user can be  *)
(* in (RegInv).  Of numbers on which requests never overlapped: whose      *)
(* tokens a login gets, what was sent last, who gets null tokens and who   *)
(* is deleted.  What a request found or wrote at such a number stays true  *)
(* until its end, since nobody else works on it (LoneInv).                 *)
(***************************************************************************)
EXTENDS Registration, TLAPS

(* Which requests are at which calls, and what they know there.            *)
Lane(r) ==
    /\ job[r].pc \in {"own", "unpin", "delete"} => r \in Updates
    /\ job[r].pc \in {"exists", "create", "password", "otp", "send"} => r \in Issuers
    /\ job[r].pc \in {"find", "pins", "authenticate", "device"} => r \in Logins
    /\ Active(r) => job[r].phone \in Phones
    /\ Active(r) /\ r \in Updates => job[r].old \in Phones
    /\ job[r].pc \in {"pins", "authenticate", "device"} => job[r].user \in Issuers

(* A request that will not create its user any more.                       *)
Past(r) == job[r].pc \notin {"idle", "own", "exists", "create"}

(* Every user of the pool is at the number of the request that created it. *)
Born ==
    \A p \in Phones : HasUser(p) =>
        Past(pool[p].sub) /\ job[pool[p].sub].phone = p

(* An update past its reading of the old number holds the user it found    *)
(* there, who from its check on is the caller.                             *)
HeldAtOld(r) ==
    job[r].pc \in {"exists", "create", "password", "otp", "send", "unpin", "delete"} =>
        /\ job[r].held \in Issuers /\ Past(job[r].held)
        /\ job[job[r].held].phone = job[r].old
        /\ job[r].pc # "exists" => job[r].user = job[r].held

(* The user of an answered update was born before, and is nowhere.         *)
Retired(r) ==
    job[r].answer = "code" =>
        /\ job[r].pc = "done"
        /\ job[r].user \in Issuers /\ Past(job[r].user)
        /\ \A p \in Phones : SubOf(p) # job[r].user

RegInv ==
    /\ TypeOK
    /\ \A r \in Requests : Lane(r)
    /\ Born
    /\ \A r \in Updates : HeldAtOld(r) /\ Retired(r)

-----------------------------------------------------------------------------
(* The part of TypeOK that is not about the requests.                      *)
TablesTyped ==
    /\ pool \in [Phones -> User \cup {None}]
    /\ pins \in [Phones -> Pin \cup {None}]
    /\ inbox \in [Phones -> Seq(Issuers)]
    /\ devices \in [Issuers -> Logins \cup {None}]
    /\ owner \in [Issuers -> Issuers \cup {None}]
    /\ shared \subseteq Phones
    /\ mishaps \in 0..MaxMishaps

(* What r may become: it fits its lane, does not go back, and an update    *)
(* keeps what it holds.                                                    *)
Becomes(r, j) ==
    /\ j \in Job
    /\ j.pc \in {"own", "unpin", "delete"} => r \in Updates
    /\ j.pc \in {"exists", "create", "password", "otp", "send"} => r \in Issuers
    /\ j.pc \in {"find", "pins", "authenticate", "device"} => r \in Logins
    /\ j.pc \notin {"idle", "done"} => j.phone \in Phones
    /\ j.pc \notin {"idle", "done"} /\ r \in Updates => j.old \in Phones
    /\ j.pc \in {"pins", "authenticate", "device"} => j.user \in Issuers
    /\ Past(r) => j.pc \notin {"idle", "own", "exists", "create"} /\ j.phone = job[r].phone
    /\ r \in Updates =>
         /\ j.pc \in {"exists", "create", "password", "otp", "send", "unpin", "delete"} =>
              /\ j.held \in Issuers /\ Past(j.held) /\ job[j.held].phone = j.old
              /\ j.pc # "exists" => j.user = j.held
         /\ j.answer = "code" =>
              /\ j.pc = "done" /\ j.user \in Issuers /\ Past(j.user)
              /\ \A p \in Phones : SubOf(p)' # j.user

(* Nobody enters the pool, except the user that r creates.                 *)
NobodyNew(r, j) ==
    \A p \in Phones :
        \/ SubOf(p)' \in {SubOf(p), None}
        \/ /\ SubOf(p)' = r /\ r \in Issuers
           /\ ~Past(r) /\ j.phone = p
           /\ j.pc \notin {"idle", "own", "exists", "create"}

LEMMA SubsKnown ==
    ASSUME TypeOK, NEW p \in Phones
    PROVE  /\ None \notin Issuers /\ Issuers \subseteq Requests
           /\ HasUser(p) <=> SubOf(p) \in Issuers
           /\ ~HasUser(p) <=> SubOf(p) = None
           /\ HasUser(p) => SubOf(p) = pool[p].sub
<1>1. None \notin Issuers /\ Issuers \subseteq Requests
    BY RegistrationAssumption DEF RegistrationAssumption, Requests
<1>2. pool[p] \in User \cup {None}
    BY DEF TypeOK
<1> QED
    BY <1>1, <1>2 DEF HasUser, SubOf, User

LEMMA MoveKeeps ==
    ASSUME RegInv, NEW r \in Requests, NEW j, job' = [job EXCEPT ![r] = j],
           TablesTyped', Becomes(r, j), NobodyNew(r, j)
    PROVE  RegInv'
<1>1. /\ TypeOK /\ Born /\ \A s \in Requests : Lane(s)
      /\ \A s \in Updates : HeldAtOld(s) /\ Retired(s)
    BY DEF RegInv
<1>2. job'[r] = j /\ \A s \in Requests \ {r} : job'[s] = job[s]
    BY <1>1 DEF TypeOK
<1>3. TypeOK'
    BY <1>1 DEF TypeOK, TablesTyped, Becomes
<1>4. \A s \in Requests : Lane(s)'
    BY <1>1, <1>2 DEF Becomes, Lane, Active
<1>5. \A s \in Issuers : Past(s) => Past(s)' /\ job'[s].phone = job[s].phone
    BY <1>2 DEF Becomes, Past, Requests
<1>6. None \notin Issuers /\ Issuers \subseteq Requests /\ Updates \subseteq Issuers
    BY RegistrationAssumption DEF RegistrationAssumption, Requests, Issuers
<1>7. Born'
    <2> SUFFICES ASSUME NEW p \in Phones, HasUser(p)'
                 PROVE  Past(pool[p].sub)' /\ job'[pool'[p].sub].phone = p
        BY DEF Born
    <2>1. SubOf(p)' = pool'[p].sub /\ SubOf(p)' \in Issuers
        <3>1. pool'[p] \in User \cup {None} /\ pool'[p] # None
            BY <1>3 DEF TypeOK, HasUser
        <3> QED
            BY <3>1 DEF SubOf, HasUser, User
    <2>2. PICK x \in Issuers : pool'[p].sub = x /\ SubOf(p)' = x
        BY <2>1
    <2>3. Past(x)' /\ job'[x].phone = p
        <3>1. CASE SubOf(p) = x
            <4>1. HasUser(p) /\ pool[p].sub = x
                BY <1>1, <3>1, SubsKnown
            <4>2. Past(x) /\ job[x].phone = p
                BY <1>1, <4>1 DEF Born
            <4> QED
                BY <1>5, <4>2
        <3>2. CASE x = r /\ j.phone = p
                   /\ j.pc \notin {"idle", "own", "exists", "create"}
            BY <1>2, <3>2 DEF Past
        <3> QED
            BY <1>6, <2>2, <3>1, <3>2 DEF NobodyNew
    <2> QED
        BY <2>2, <2>3 DEF Past
<1>8. ASSUME NEW s \in Updates PROVE HeldAtOld(s)'
    <2>1. CASE s = r
        <3> SUFFICES ASSUME j.pc \in {"exists", "create", "password", "otp", "send",
                                      "unpin", "delete"}
                     PROVE  /\ j.held \in Issuers /\ Past(j.held)'
                            /\ job'[j.held].phone = j.old
                            /\ j.pc # "exists" => j.user = j.held
            BY <1>2, <2>1 DEF HeldAtOld
        <3> QED
            BY <1>5, <2>1 DEF Becomes
    <2>2. CASE s # r
        <3>1. job'[s] = job[s]
            BY <1>2, <1>6, <2>2
        <3> QED
            BY <1>1, <1>5, <3>1 DEF HeldAtOld
    <2> QED
        BY <2>1, <2>2
<1>9. ASSUME NEW s \in Updates PROVE Retired(s)'
    <2> SUFFICES ASSUME job'[s].answer = "code"
                 PROVE  /\ job'[s].pc = "done"
                        /\ \E x \in Issuers :
                             /\ job'[s].user = x /\ Past(x)'
                             /\ \A p \in Phones : SubOf(p)' # x
        BY DEF Retired, Past
    <2>1. CASE s = r
        <3>1. /\ j.pc = "done" /\ j.user \in Issuers /\ Past(j.user)
              /\ \A p \in Phones : SubOf(p)' # j.user
            BY <1>2, <2>1 DEF Becomes
        <3>2. PICK x \in Issuers : j.user = x
            BY <3>1
        <3>3. Past(x)'
            BY <1>5, <3>1, <3>2
        <3> QED
            BY <1>2, <2>1, <3>1, <3>2, <3>3
    <2>2. CASE s # r
        <3>1. job'[s] = job[s]
            BY <1>2, <1>6, <2>2
        <3>2. /\ job[s].pc = "done"
              /\ job[s].user \in Issuers /\ Past(job[s].user)
              /\ \A p \in Phones : SubOf(p) # job[s].user
            BY <1>1, <3>1 DEF Retired
        <3>3. PICK x \in Issuers : job[s].user = x
            BY <3>2
        <3>4. Past(x) /\ Past(x)' /\ \A p \in Phones : SubOf(p) # x
            BY <1>5, <3>2, <3>3
        <3>5. \A p \in Phones : SubOf(p)' # x
            BY <1>6, <3>4 DEF NobodyNew
        <3> QED
            BY <3>1, <3>2, <3>3, <3>4, <3>5
    <2> QED
        BY <2>1, <2>2
<1> QED
    BY <1>3, <1>4, <1>7, <1>8, <1>9 DEF RegInv

-----------------------------------------------------------------------------
LEMMA Tables == TypeOK => TablesTyped
BY DEF TypeOK, TablesTyped

(* What RegInv says of one request.                                        *)
LEMMA Known ==
    ASSUME RegInv, NEW r \in Requests
    PROVE  /\ TypeOK /\ TablesTyped /\ job[r] \in Job /\ Lane(r)
           /\ r \in Updates => HeldAtOld(r) /\ Retired(r)
BY Tables DEF RegInv, TypeOK

LEMMA Kinds ==
    /\ None \notin Phones /\ None \notin Issuers
    /\ Requests = Issuers \cup Logins /\ Updates \subseteq Issuers
    /\ Issuers = Registrations \cup Updates
    /\ Registrations \cap Updates = {} /\ Issuers \cap Logins = {}
    /\ MaxMishaps \in Nat
BY RegistrationAssumption DEF RegistrationAssumption, Requests, Issuers

(* The pool is left alone: nobody new.                                     *)
LEMMA SamePool ==
    ASSUME pool' = pool, NEW r, NEW j
    PROVE  NobodyNew(r, j)
BY DEF NobodyNew, SubOf, HasUser

(* A request ends, and an update not with its code.                        *)
LEMMA EndKeeps ==
    ASSUME RegInv, TablesTyped', NEW r \in Requests, Active(r),
           NEW a \in {"code", "empty", "tokens", "failed"}, End(r, a),
           r \in Updates => a # "code",
           \A p \in Phones : SubOf(p)' \in {SubOf(p), None}
    PROVE  RegInv'
<1> DEFINE j == [job[r] EXCEPT !.pc = "done", !.answer = a]
<1>1. job[r] \in Job
    BY Known
<1>2. j \in Job /\ j.pc = "done" /\ j.answer = a /\ j.phone = job[r].phone
    <2>1. j \in Job
        BY ONLY <1>1, a \in {"code", "empty", "tokens", "failed"} DEF Job
    <2>2. j.pc = "done" /\ j.answer = a /\ j.phone = job[r].phone
        BY ONLY <1>1 DEF Job
    <2> QED
        BY <2>1, <2>2
<1>3. job' = [job EXCEPT ![r] = j]
    BY DEF End
<1> HIDE DEF j
<1>4. Becomes(r, j)
    BY <1>2 DEF Becomes
<1>5. NobodyNew(r, j)
    BY DEF NobodyNew
<1> QED
    BY <1>3, <1>4, <1>5, MoveKeeps

(* A request moves to its next call, and creates a user at most on its way *)
(* out of "create".                                                        *)
LEMMA GotoKeeps ==
    ASSUME RegInv, TablesTyped', NEW r \in Requests, NEW pc, Goto(r, pc),
           \/ job[r].pc = "exists" /\ pc \in {"otp", "create"} /\ r \in Registrations
           \/ job[r].pc = "exists" /\ pc = "create" /\ Owns(r)
           \/ job[r].pc \in {"create", "password"} /\ pc \in {"password", "otp"}
           \/ job[r].pc = "otp" /\ pc = "send"
           \/ job[r].pc = "send" /\ pc = "unpin" /\ r \in Updates
           \/ job[r].pc = "unpin" /\ pc = "delete"
           \/ job[r].pc = "pins" /\ pc = "authenticate",
           \A p \in Phones :
             \/ SubOf(p)' \in {SubOf(p), None}
             \/ SubOf(p)' = r /\ job[r].pc = "create" /\ job[r].phone = p
    PROVE  RegInv'
<1> DEFINE j == [job[r] EXCEPT !.pc = pc]
<1>1. job[r] \in Job /\ Lane(r) /\ (r \in Updates => HeldAtOld(r) /\ Retired(r))
    BY Known
<1>2. /\ j \in Job /\ j.pc = pc
      /\ j.phone = job[r].phone /\ j.old = job[r].old /\ j.user = job[r].user
      /\ j.held = job[r].held /\ j.answer = job[r].answer
    BY <1>1 DEF Job
<1>3. job' = [job EXCEPT ![r] = j]
    BY DEF Goto
<1> HIDE DEF j
<1>4. Active(r)
    BY DEF Active
<1>5. r \in Updates => j.answer # "code"
    BY <1>1, <1>2, <1>4 DEF Retired, Active
<1>6. r \in Updates /\ pc \in {"exists", "create", "password", "otp", "send",
                             "unpin", "delete"} =>
          /\ j.held \in Issuers /\ Past(j.held) /\ job[j.held].phone = j.old
          /\ j.user = j.held
    BY <1>1, <1>2, Kinds DEF HeldAtOld, Owns, Lane
<1>7. Becomes(r, j)
    <2>1. /\ pc \in {"own", "unpin", "delete"} => r \in Updates
          /\ pc \in {"exists", "create", "password", "otp", "send"} => r \in Issuers
          /\ pc \in {"find", "pins", "authenticate", "device"} => r \in Logins
          /\ j.phone \in Phones /\ (r \in Updates => j.old \in Phones)
          /\ pc \in {"pins", "authenticate", "device"} => j.user \in Issuers
        BY <1>1, <1>2, <1>4, Kinds DEF Lane
    <2>2. Past(r) => pc \notin {"idle", "own", "exists", "create"}
        BY DEF Past
    <2> QED
        BY <1>2, <1>5, <1>6, <2>1, <2>2 DEF Becomes
<1>8. NobodyNew(r, j)
    BY <1>1, <1>2 DEF NobodyNew, Lane, Past
<1> QED
    BY <1>3, <1>7, <1>8, MoveKeeps

-----------------------------------------------------------------------------
(* The requests begin.                                                     *)
LEMMA StartKeeps ==
    ASSUME RegInv,
           \/ \E r \in Registrations, p \in Phones : Register(r, p)
           \/ \E r \in Updates, u \in Issuers, old, new \in Phones :
                UpdatePhone(r, u, old, new)
           \/ \E l \in Logins, p \in Phones, auth, otp \in Issuers :
                VerifyOtp(l, p, auth, otp)
    PROVE  RegInv'
<1>1. TypeOK /\ TablesTyped
    BY Tables DEF RegInv
<1>2. Idle \in Job
    BY DEF Idle, Job
<1>3. CASE \E r \in Registrations, p \in Phones : Register(r, p)
    <2>1. PICK r \in Registrations, p \in Phones : Register(r, p)
        BY <1>3
    <2> DEFINE j == [Idle EXCEPT !.pc = "exists", !.phone = p]
    <2>2. j \in Job /\ j.pc = "exists" /\ j.phone = p
        BY DEF Idle, Job
    <2>3. /\ job' = [job EXCEPT ![r] = j] /\ pool' = pool
          /\ job[r].pc = "idle"
        BY <2>1 DEF Register
    <2>4. TablesTyped'
        BY <1>1, <2>1 DEF Register, Overlap, TablesTyped
    <2> HIDE DEF j
    <2>5. r \in Requests /\ r \in Issuers /\ r \notin Updates
        BY Kinds
    <2>6. Becomes(r, j)
        BY <2>2, <2>3, <2>5 DEF Becomes, Past
    <2> QED
        BY <2>3, <2>4, <2>5, <2>6, SamePool, MoveKeeps
<1>4. CASE \E r \in Updates, u \in Issuers, old, new \in Phones :
             UpdatePhone(r, u, old, new)
    <2>1. PICK r \in Updates, u \in Issuers, old \in Phones, new \in Phones :
             UpdatePhone(r, u, old, new)
        BY <1>4
    <2> DEFINE j == [Idle EXCEPT !.pc = "own", !.phone = new, !.old = old, !.user = u]
    <2>2. /\ j \in Job /\ j.pc = "own" /\ j.phone = new /\ j.old = old
          /\ j.answer = "none"
        <3>1. j \in Job
            BY ONLY <1>2, new \in Phones, old \in Phones, u \in Issuers DEF Job
        <3> QED
            BY <3>1 DEF Idle
    <2>3. /\ job' = [job EXCEPT ![r] = j] /\ pool' = pool
          /\ job[r].pc = "idle"
        BY <2>1 DEF UpdatePhone
    <2>4. TablesTyped'
        BY <1>1, <2>1 DEF UpdatePhone, Overlap, TablesTyped
    <2> HIDE DEF j
    <2>5. r \in Requests /\ r \in Issuers
        BY Kinds
    <2>6. Becomes(r, j)
        BY <2>2, <2>3, <2>5 DEF Becomes, Past
    <2> QED
        BY <2>3, <2>4, <2>5, <2>6, SamePool, MoveKeeps
<1>5. CASE \E l \in Logins, p \in Phones, auth, otp \in Issuers :
             VerifyOtp(l, p, auth, otp)
    <2>1. PICK l \in Logins, p \in Phones, auth \in Issuers, otp \in Issuers :
             VerifyOtp(l, p, auth, otp)
        BY <1>5
    <2> DEFINE j == [Idle EXCEPT !.pc = "find", !.phone = p, !.auth = auth, !.otp = otp]
    <2>2. j \in Job /\ j.pc = "find" /\ j.phone = p
        <3>1. j \in Job
            BY ONLY <1>2, p \in Phones, auth \in Issuers, otp \in Issuers DEF Job
        <3> QED
            BY <3>1 DEF Idle
    <2>3. /\ job' = [job EXCEPT ![l] = j] /\ pool' = pool
          /\ job[l].pc = "idle"
        BY <2>1 DEF VerifyOtp
    <2>4. TablesTyped'
        BY <1>1, <2>1 DEF VerifyOtp, Overlap, TablesTyped
    <2> HIDE DEF j
    <2>5. l \in Requests /\ l \notin Updates
        BY Kinds
    <2>6. Becomes(l, j)
        BY <2>2, <2>3, <2>5 DEF Becomes, Past
    <2> QED
        BY <2>3, <2>4, <2>5, <2>6, SamePool, MoveKeeps
<1> QED
    BY <1>3, <1>4, <1>5

(* An update finds the user of the old number: born there, so Born places  *)
(* it.                                                                     *)
LEMMA ReadOldKeeps ==
    ASSUME RegInv, NEW r \in Requests, ReadOld(r)
    PROVE  RegInv'
<1>1. TypeOK /\ TablesTyped /\ job[r] \in Job /\ Lane(r)
    BY Known
<1>2. /\ job[r].pc = "own" /\ Active(r) /\ r \in Updates /\ r \in Issuers
      /\ job[r].phone \in Phones /\ job[r].old \in Phones
      /\ TablesTyped' /\ pool' = pool
    BY <1>1, Kinds DEF ReadOld, Lane, Active, TablesTyped
<1>3. CASE End(r, "failed")
    BY <1>2, <1>3, EndKeeps DEF SubOf, HasUser
<1>4. CASE /\ HasUser(job[r].old)
           /\ job' = [job EXCEPT ![r].pc = "exists", ![r].held = SubOf(job[r].old)]
    <2> DEFINE h == SubOf(job[r].old)
               j == [job[r] EXCEPT !.pc = "exists", !.held = h]
    <2>1. h \in Issuers /\ h = pool[job[r].old].sub
        BY <1>1, <1>2, <1>4, SubsKnown
    <2>2. Past(h) /\ job[h].phone = job[r].old
        BY <1>2, <1>4, <2>1 DEF RegInv, Born
    <2>3. job' = [job EXCEPT ![r] = j]
        BY <1>4
    <2> HIDE DEF h
    <2>4. /\ j \in Job /\ j.pc = "exists" /\ j.held = h /\ j.answer = job[r].answer
          /\ j.old = job[r].old /\ j.phone = job[r].phone
        <3>1. j \in Job
            BY ONLY <1>1, <2>1 DEF Job
        <3> QED
            BY ONLY <1>1, <3>1 DEF Job
    <2>5. job[r].answer # "code"
        BY <1>2, Known DEF Retired
    <2> HIDE DEF j
    <2>6. Becomes(r, j)
        BY <1>2, <2>1, <2>2, <2>4, <2>5 DEF Becomes, Past
    <2> QED
        BY <1>2, <2>3, <2>6, SamePool, MoveKeeps
<1> QED
    BY <1>3, <1>4 DEF ReadOld

(* A user is created at the number of its request only.                    *)
LEMMA CreateKeeps ==
    ASSUME RegInv, NEW r \in Requests, CreateUser(r)
    PROVE  RegInv'
<1>1. TypeOK /\ TablesTyped /\ job[r] \in Job /\ Lane(r)
    BY Known
<1>2. job[r].pc = "create" /\ Active(r) /\ r \in Issuers /\ job[r].phone \in Phones
    BY <1>1 DEF CreateUser, Lane, Active
<1>3. CASE End(r, "failed") /\ pool' = pool
    <2>1. TablesTyped'
        BY <1>1, <1>3 DEF CreateUser, TablesTyped
    <2> QED
        BY <1>2, <1>3, <2>1, EndKeeps DEF SubOf, HasUser
<1>4. CASE /\ pool' = [pool EXCEPT ![job[r].phone] = [sub |-> r, ready |-> FALSE]]
           /\ Goto(r, "password")
    <2>1. [sub |-> r, ready |-> FALSE] \in User
        BY <1>2 DEF User
    <2>2. TablesTyped'
        BY <1>1, <1>4, <2>1 DEF CreateUser, TablesTyped
    <2>3. ASSUME NEW p \in Phones
          PROVE  \/ SubOf(p)' \in {SubOf(p), None}
                 \/ SubOf(p)' = r /\ job[r].pc = "create" /\ job[r].phone = p
        <3>1. CASE p = job[r].phone
            <4>1. pool'[p] = [sub |-> r, ready |-> FALSE]
                BY <1>1, <1>2, <1>4, <3>1 DEF TypeOK
            <4> QED
                BY <1>2, <3>1, <4>1 DEF SubOf
        <3>2. CASE p # job[r].phone
            BY <1>1, <1>4, <3>2 DEF TypeOK, SubOf, HasUser
        <3> QED
            BY <3>1, <3>2
    <2> QED
        BY <1>2, <1>4, <2>2, <2>3, GotoKeeps
<1> QED
    BY <1>3, <1>4 DEF CreateUser, AfterCreate

(* The number of an update's user is left empty when the update answers:   *)
(* the user was at that number, or had left it before.                     *)
LEMMA DeleteUserKeeps ==
    ASSUME RegInv, NEW r \in Requests, DeleteUser(r)
    PROVE  RegInv'
<1>1. TypeOK /\ TablesTyped /\ job[r] \in Job /\ Lane(r)
    BY Known
<1>2. /\ job[r].pc = "delete" /\ Active(r) /\ r \in Updates
      /\ job[r].old \in Phones
    BY <1>1 DEF DeleteUser, Lane, Active
<1>3. CASE End(r, "failed") /\ pool' = pool /\ UNCHANGED mishaps
    <2>1. TablesTyped'
        BY <1>1, <1>3 DEF DeleteUser, TablesTyped
    <2> QED
        BY <1>2, <1>3, <2>1, EndKeeps DEF SubOf, HasUser
<1>4. CASE /\ pool' = [pool EXCEPT ![job[r].old] = None]
           /\ Finish(r, "code")
    <2>1. TablesTyped'
        <3>1. mishaps' \in 0..MaxMishaps
            BY <1>1, <1>4, Kinds DEF Finish, Mishap, TablesTyped
        <3>2. pool' \in [Phones -> User \cup {None}]
            BY <1>1, <1>4 DEF TablesTyped
        <3> QED
            BY <1>1, <3>1, <3>2 DEF DeleteUser, TablesTyped
    <2>2. \A p \in Phones : /\ SubOf(p)' \in {SubOf(p), None}
                            /\ p = job[r].old => SubOf(p)' = None
        BY <1>1, <1>2, <1>4 DEF TypeOK, SubOf, HasUser
    <2>3. CASE End(r, "failed")
        BY <1>2, <2>1, <2>2, <2>3, EndKeeps
    <2>4. CASE End(r, "code")
        <3> DEFINE j == [job[r] EXCEPT !.pc = "done", !.answer = "code"]
        <3>1. /\ j \in Job /\ j.pc = "done" /\ j.answer = "code"
              /\ j.phone = job[r].phone /\ j.user = job[r].user
            <4>1. j \in Job
                BY ONLY <1>1 DEF Job
            <4> QED
                BY ONLY <1>1, <4>1 DEF Job
        <3>2. job' = [job EXCEPT ![r] = j]
            BY <2>4 DEF End
        <3> HIDE DEF j
        <3>3. /\ job[r].user \in Issuers /\ Past(job[r].user)
              /\ job[job[r].user].phone = job[r].old
            BY <1>2, Known DEF HeldAtOld
        <3>4. ASSUME NEW p \in Phones, SubOf(p)' = job[r].user
              PROVE  FALSE
            <4>1. SubOf(p) = job[r].user /\ p # job[r].old
                BY <2>2, <3>3, <3>4, Kinds
            <4>2. HasUser(p) /\ pool[p].sub = job[r].user
                BY <1>1, <3>3, <4>1, SubsKnown
            <4>3. job[job[r].user].phone = p
                BY <4>2 DEF RegInv, Born
            <4> QED
                BY <3>3, <4>1, <4>3
        <3>5. Becomes(r, j)
            BY <3>1, <3>3, <3>4 DEF Becomes
        <3>6. NobodyNew(r, j)
            BY <2>2 DEF NobodyNew
        <3> QED
            BY <2>1, <3>2, <3>5, <3>6, MoveKeeps
    <2> QED
        BY <1>4, <2>3, <2>4 DEF Finish
<1> QED
    BY <1>3, <1>4 DEF DeleteUser, PoolWithout

(* The other calls of an issuer.                                           *)
LEMMA IssueKeeps ==
    ASSUME RegInv, NEW r \in Requests,
           \/ CheckExists(r) \/ SetPassword(r) \/ StoreCode(r)
           \/ SendCode(r) \/ DeletePin(r)
    PROVE  RegInv'
<1>1. TypeOK /\ TablesTyped /\ job[r] \in Job /\ Lane(r)
    BY Known
<1>2. /\ Active(r) /\ r \in Issuers /\ job[r].phone \in Phones
      /\ job[r].pc \in {"exists", "password", "otp", "send", "unpin"}
    BY <1>1, Kinds DEF Lane, Active, CheckExists, SetPassword, StoreCode, SendCode,
                       DeletePin
<1>3. pool' = pool => \A p \in Phones : SubOf(p)' \in {SubOf(p), None}
    BY DEF SubOf, HasUser
<1>4. CASE CheckExists(r)
    <2>1. TablesTyped' /\ pool' = pool
        BY <1>1, <1>4, Kinds DEF CheckExists, Mishap, TablesTyped
    <2>2. CASE End(r, "failed")
        BY <1>2, <1>3, <2>1, <2>2, EndKeeps
    <2>3. CASE r \in Registrations /\ \E pc \in {"otp", "create"} : Goto(r, pc)
        BY <1>3, <1>4, <2>1, <2>3, GotoKeeps DEF CheckExists
    <2>4. CASE Owns(r) /\ Goto(r, "create")
        BY <1>3, <1>4, <2>1, <2>4, GotoKeeps DEF CheckExists
    <2> QED
        BY <1>4, <2>2, <2>3, <2>4 DEF CheckExists
<1>5. CASE SetPassword(r)
    <2>1. CASE End(r, "failed") /\ pool' = pool
        <3>1. TablesTyped'
            BY <1>1, <1>5, <2>1 DEF SetPassword, TablesTyped
        <3> QED
            BY <1>2, <1>3, <2>1, <3>1, EndKeeps
    <2>2. CASE /\ HasUser(job[r].phone)
               /\ pool' = [pool EXCEPT ![job[r].phone].ready = TRUE] /\ Goto(r, "otp")
        <3>1. pool[job[r].phone] \in User
            BY <1>1, <1>2, <2>2 DEF TypeOK, HasUser
        <3>2. /\ [pool[job[r].phone] EXCEPT !.ready = TRUE] \in User
              /\ [pool[job[r].phone] EXCEPT !.ready = TRUE].sub = pool[job[r].phone].sub
            BY <3>1 DEF User
        <3>3. TablesTyped'
            BY <1>1, <1>5, <2>2, <3>2 DEF SetPassword, TablesTyped
        <3>4. ASSUME NEW p \in Phones PROVE SubOf(p)' \in {SubOf(p), None}
            <4>1. CASE p = job[r].phone
                <5>1. pool'[p] = [pool[p] EXCEPT !.ready = TRUE]
                    BY <1>1, <2>2, <4>1 DEF TypeOK
                <5> QED
                    BY <2>2, <3>2, <4>1, <5>1 DEF SubOf, HasUser
            <4>2. CASE p # job[r].phone
                BY <1>1, <2>2, <4>2 DEF TypeOK, SubOf, HasUser
            <4> QED
                BY <4>1, <4>2
        <3> QED
            BY <1>5, <2>2, <3>3, <3>4, GotoKeeps DEF SetPassword
    <2> QED
        BY <1>5, <2>1, <2>2 DEF SetPassword
<1>6. CASE StoreCode(r)
    <2>1. [code |-> r, live |-> TRUE] \in Pin
        BY <1>2 DEF Pin
    <2>2. SubOf(job[r].phone) \in Issuers \cup {None}
        BY <1>1, <1>2, SubsKnown
    <2>3. TablesTyped' /\ pool' = pool
        BY <1>1, <1>6, <2>1, <2>2 DEF StoreCode, TablesTyped
    <2> QED
        BY <1>3, <1>6, <2>3, GotoKeeps DEF StoreCode
<1>7. CASE SendCode(r)
    <2>1. TablesTyped' /\ pool' = pool
        <3>1. mishaps' \in 0..MaxMishaps
            <4>1. mishaps' = mishaps \/ Mishap("smsFails")
                BY <1>7 DEF SendCode
            <4> QED
                BY <1>1, <4>1, Kinds DEF Mishap, TablesTyped
        <3>2. \A p \in Phones : Append(inbox[p], r) \in Seq(Issuers)
            BY <1>1, <1>2 DEF TablesTyped
        <3>3. inbox' \in [Phones -> Seq(Issuers)]
            <4>1. \/ inbox' = inbox
                  \/ inbox' = [inbox EXCEPT ![job[r].phone] = Append(@, r)]
                BY <1>7 DEF SendCode
            <4> QED
                BY <1>1, <1>2, <3>2, <4>1 DEF TablesTyped
        <3> QED
            BY <1>1, <1>7, <3>1, <3>3 DEF SendCode, TablesTyped
    <2>2. CASE r \in Registrations /\ \E a \in {"code", "failed"} : End(r, a)
        BY <1>2, <1>3, <2>1, <2>2, Kinds, EndKeeps
    <2>3. CASE r \in Updates /\ Goto(r, "unpin")
        BY <1>3, <1>7, <2>1, <2>3, GotoKeeps DEF SendCode
    <2> QED
        BY <1>2, <1>7, <2>2, <2>3, Kinds DEF SendCode, Registered
<1>8. CASE DeletePin(r)
    <2>1. TablesTyped' /\ pool' = pool
        BY <1>1, <1>8 DEF DeletePin, PinsWithout, TablesTyped
    <2> QED
        BY <1>3, <1>8, <2>1, GotoKeeps DEF DeletePin
<1> QED
    BY <1>4, <1>5, <1>6, <1>7, <1>8

(* A login: it is no issuer, so only its lane matters.                     *)
LEMMA LoginKeeps ==
    ASSUME RegInv, NEW l \in Requests,
           FindUser(l) \/ CheckCode(l) \/ Authenticate(l) \/ StoreDevice(l)
    PROVE  RegInv'
<1>1. TypeOK /\ TablesTyped /\ job[l] \in Job /\ Lane(l)
    BY Known
<1>2. /\ Active(l) /\ l \in Logins /\ l \notin Issuers /\ l \notin Updates
      /\ job[l].phone \in Phones
    BY <1>1, Kinds DEF Lane, Active, FindUser, CheckCode, Authenticate, StoreDevice
<1>3. pool' = pool
    BY DEF FindUser, CheckCode, Authenticate, StoreDevice
<1>4. \A p \in Phones : SubOf(p)' \in {SubOf(p), None}
    BY <1>3 DEF SubOf, HasUser
<1>5. ASSUME NEW j \in Job, job' = [job EXCEPT ![l] = j], TablesTyped',
             j.pc \in {"pins", "device", "done"},
             j.phone = job[l].phone, j.pc # "done" => j.user \in Issuers
      PROVE  RegInv'
    <2>1. Becomes(l, j)
        BY <1>2, <1>5 DEF Becomes
    <2> QED
        BY <1>3, <1>5, <2>1, SamePool, MoveKeeps
<1>6. CASE FindUser(l)
    <2>1. TablesTyped'
        BY <1>1, <1>6 DEF FindUser, TablesTyped
    <2>2. CASE End(l, "failed")
        BY <1>2, <1>4, <2>1, <2>2, EndKeeps
    <2>3. CASE /\ HasUser(job[l].phone)
               /\ job' = [job EXCEPT ![l].pc = "pins", ![l].user = SubOf(job[l].phone)]
        <3> DEFINE u == SubOf(job[l].phone)
                   j == [job[l] EXCEPT !.pc = "pins", !.user = u]
        <3>1. u \in Issuers
            BY <1>1, <1>2, <2>3, SubsKnown
        <3> HIDE DEF u
        <3>2. j \in Job /\ j.pc = "pins" /\ j.phone = job[l].phone /\ j.user = u
            <4>1. j \in Job
                BY ONLY <1>1, <3>1 DEF Job
            <4> QED
                BY ONLY <1>1, <4>1 DEF Job
        <3>3. job' = [job EXCEPT ![l] = j]
            BY <2>3 DEF u
        <3> HIDE DEF j
        <3> QED
            BY <1>5, <2>1, <3>1, <3>2, <3>3
    <2> QED
        BY <1>6, <2>2, <2>3 DEF FindUser
<1>7. CASE CheckCode(l)
    <2>1. TablesTyped'
        BY <1>1, <1>7 DEF CheckCode, TablesTyped
    <2> QED
        BY <1>2, <1>4, <1>7, <2>1, EndKeeps, GotoKeeps DEF CheckCode
<1>8. CASE Authenticate(l)
    <2>1. TablesTyped'
        BY <1>1, <1>8 DEF Authenticate, TablesTyped
    <2>2. CASE End(l, "failed")
        BY <1>2, <1>4, <2>1, <2>2, EndKeeps
    <2>3. ASSUME NEW sub \in Issuers \cup {None}, Tokens(l, sub)
          PROVE  RegInv'
        <3> DEFINE pc == IF l \in WithDevice THEN "device" ELSE "done"
                   a  == IF l \in WithDevice THEN "none"
                         ELSE IF sub = None THEN "empty" ELSE "tokens"
                   i  == [job[l] EXCEPT !.sub = sub]
                   j  == [i EXCEPT !.pc = pc, !.answer = a]
        <3>1. pc \in {"device", "done"} /\ a \in {"none", "empty", "tokens"}
            OBVIOUS
        <3>2. job' = [job EXCEPT ![l] = j]
            BY <2>3 DEF Tokens
        <3>3. job[l].user \in Issuers
            BY <1>1, <1>8 DEF Authenticate, Lane
        <3> HIDE DEF pc, a
        <3>4. j \in Job /\ j.pc = pc /\ j.phone = job[l].phone /\ j.user = job[l].user
            <4>1. job[l] \in Job
                BY <1>1
            <4>2. /\ pc \in {"device", "done"}
                  /\ a \in {"none", "code", "tokens", "empty", "failed"}
                BY <3>1
            <4>3. i \in Job /\ i.phone = job[l].phone /\ i.user = job[l].user
                BY ONLY <4>1, sub \in Issuers \cup {None} DEF Job
            <4> HIDE DEF i
            <4>4. j \in Job
                BY ONLY <4>2, <4>3 DEF Job
            <4>5. j.pc = pc /\ j.phone = i.phone /\ j.user = i.user
                BY ONLY <4>3 DEF Job
            <4> QED
                BY <4>3, <4>4, <4>5
        <3> HIDE DEF j
        <3> QED
            BY <1>5, <2>1, <3>1, <3>2, <3>3, <3>4
    <2>4. pool[job[l].phone] \in User \cup {None}
        BY <1>1, <1>2 DEF TypeOK
    <2>5. pool[job[l].phone] # None => pool[job[l].phone].sub \in Issuers
        BY <2>4 DEF User
    <2> QED
        BY <1>8, <2>2, <2>3, <2>5 DEF Authenticate
<1>9. CASE StoreDevice(l)
    <2>1. job[l].user \in Issuers
        BY <1>1, <1>9 DEF StoreDevice, Lane
    <2>2. mishaps' \in 0..MaxMishaps
        BY <1>1, <1>9, Kinds DEF StoreDevice, Finish, Mishap, TablesTyped
    <2>3. TablesTyped'
        BY <1>1, <1>2, <1>9, <2>1, <2>2 DEF StoreDevice, TablesTyped
    <2>4. \E a \in {"empty", "tokens", "failed"} : End(l, a)
        BY <1>9 DEF StoreDevice, Finish
    <2> QED
        BY <1>2, <1>4, <2>3, <2>4, EndKeeps
<1> QED
    BY <1>6, <1>7, <1>8, <1>9

(* A restart ends every request at work; an expiry is about no request.    *)
LEMMA QuietKeeps ==
    ASSUME RegInv, TablesTyped', pool' = pool, job' \in [Requests -> Job],
           \A r \in Requests :
             \/ job'[r] = job[r]
             \/ job'[r].pc = "done" /\ job'[r].phone = job[r].phone
                                    /\ job'[r].answer = "failed"
    PROVE  RegInv'
<1>1. TypeOK'
    BY DEF TypeOK, TablesTyped
<1>2. \A r \in Requests : Lane(r)'
    BY DEF RegInv, Lane, Active
<1>3. \A s \in Issuers : Past(s) => Past(s)' /\ job'[s].phone = job[s].phone
    BY Kinds DEF Past
<1>4. \A p \in Phones : SubOf(p)' = SubOf(p) /\ (HasUser(p)' <=> HasUser(p))
    BY DEF SubOf, HasUser
<1>5. Born'
    <2> SUFFICES ASSUME NEW p \in Phones, HasUser(p)
                 PROVE  Past(pool[p].sub)' /\ job'[pool'[p].sub].phone = p
        BY <1>4 DEF Born
    <2>1. pool[p].sub \in Issuers
        BY SubsKnown DEF RegInv
    <2>2. PICK x \in Issuers : pool[p].sub = x
        BY <2>1
    <2>3. Past(x) /\ job[x].phone = p
        BY <2>2 DEF RegInv, Born
    <2> QED
        BY <1>3, <2>2, <2>3 DEF Past
<1>6. ASSUME NEW s \in Updates PROVE HeldAtOld(s)' /\ Retired(s)'
    <2>1. HeldAtOld(s) /\ Retired(s) /\ s \in Requests
        BY Kinds DEF RegInv
    <2>2. CASE job'[s] = job[s]
        <3>1. HeldAtOld(s)'
            BY <1>3, <2>1, <2>2 DEF HeldAtOld, Past
        <3>2. Retired(s)'
            BY <1>3, <1>4, <2>1, <2>2 DEF Retired, Past
        <3> QED
            BY <3>1, <3>2
    <2>3. CASE job'[s].pc = "done" /\ job'[s].answer = "failed"
        BY <2>3 DEF HeldAtOld, Retired
    <2> QED
        BY <2>1, <2>2, <2>3
<1> QED
    BY <1>1, <1>2, <1>5, <1>6 DEF RegInv

(* Every step keeps RegInv.                                                *)
LEMMA RegStep == RegInv /\ [Next]_vars => RegInv'
<1> SUFFICES ASSUME RegInv, [Next]_vars PROVE RegInv'
    OBVIOUS
<1>1. TypeOK /\ TablesTyped
    BY Tables DEF RegInv
<1>2. ASSUME NEW r \in Requests, Step(r) PROVE RegInv'
    <2>1. CASE ReadOld(r)
        BY <2>1, ReadOldKeeps
    <2>2. CASE CreateUser(r)
        BY <2>2, CreateKeeps
    <2>3. CASE CheckExists(r) \/ SetPassword(r) \/ StoreCode(r) \/ SendCode(r)
               \/ DeletePin(r)
        BY <2>3, IssueKeeps
    <2>4. CASE DeleteUser(r)
        BY <2>4, DeleteUserKeeps
    <2>5. CASE FindUser(r) \/ CheckCode(r) \/ Authenticate(r) \/ StoreDevice(r)
        BY <2>5, LoginKeeps
    <2>6. CASE CallThrows(r)
        <3>1. TablesTyped' /\ pool' = pool
            BY <1>1, <2>6, Kinds DEF CallThrows, Mishap, TablesTyped
        <3>2. \A p \in Phones : SubOf(p)' \in {SubOf(p), None}
            BY <3>1 DEF SubOf, HasUser
        <3> QED
            BY <2>6, <3>1, <3>2, EndKeeps DEF CallThrows
    <2> QED
        BY <1>2, <2>1, <2>2, <2>3, <2>4, <2>5, <2>6 DEF Step
<1>3. CASE \E p \in Phones : Expire(p)
    <2>1. PICK p \in Phones : Expire(p)
        BY <1>3
    <2>2. pins[p] \in Pin
        BY <1>1, <2>1 DEF Expire, TablesTyped
    <2>3. [pins[p] EXCEPT !.live = FALSE] \in Pin
        BY <2>2 DEF Pin
    <2>4. TablesTyped'
        BY <1>1, <2>1, <2>3, Kinds DEF Expire, Mishap, TablesTyped
    <2>5. pool' = pool /\ job' = job
        BY <2>1 DEF Expire
    <2> QED
        BY <1>1, <2>4, <2>5, QuietKeeps DEF TypeOK
<1>4. CASE Crash
    <2>1. TablesTyped' /\ pool' = pool
        <3>1. /\ Mishap("crash")
              /\ UNCHANGED <<pool, pins, inbox, devices, owner, shared>>
            BY <1>4 DEF Crash
        <3>2. mishaps' \in 0..MaxMishaps
            BY <1>1, <3>1, Kinds DEF Mishap, TablesTyped
        <3> QED
            BY <1>1, <3>1, <3>2 DEF TablesTyped
    <2>2. ASSUME NEW r \in Requests
          PROVE  /\ [job[r] EXCEPT !.pc = "done", !.answer = "failed"] \in Job
                 /\ [job[r] EXCEPT !.pc = "done", !.answer = "failed"].pc = "done"
                 /\ [job[r] EXCEPT !.pc = "done", !.answer = "failed"].answer = "failed"
                 /\ [job[r] EXCEPT !.pc = "done", !.answer = "failed"].phone = job[r].phone
        <3>1. job[r] \in Job
            BY <1>1 DEF TypeOK
        <3>2. [job[r] EXCEPT !.pc = "done", !.answer = "failed"] \in Job
            BY ONLY <3>1 DEF Job
        <3> QED
            BY ONLY <3>1, <3>2 DEF Job
    <2>3. job' \in [Requests -> Job]
        <3>1. \A r \in Requests : job[r] \in Job
            BY <1>1 DEF TypeOK
        <3>2. job' = [r \in Requests |->
                       IF Active(r) THEN [job[r] EXCEPT !.pc = "done", !.answer = "failed"]
                       ELSE job[r]]
            BY <1>4 DEF Crash
        <3>3. ASSUME NEW r \in Requests
              PROVE  (IF Active(r) THEN [job[r] EXCEPT !.pc = "done", !.answer = "failed"]
                      ELSE job[r]) \in Job
            BY <2>2, <3>1
        <3> QED
            BY <3>2, <3>3
    <2>4. \A r \in Requests :
            \/ job'[r] = job[r]
            \/ job'[r] = [job[r] EXCEPT !.pc = "done", !.answer = "failed"]
        BY <1>4 DEF Crash, Active
    <2>5. \A r \in Requests :
            \/ job'[r] = job[r]
            \/ job'[r].pc = "done" /\ job'[r].phone = job[r].phone
                                   /\ job'[r].answer = "failed"
        BY <2>2, <2>4
    <2> QED
        BY <2>1, <2>3, <2>5, QuietKeeps
<1>5. CASE UNCHANGED vars
    <2>1. TablesTyped' /\ pool' = pool /\ job' = job
        BY <1>1, <1>5 DEF vars, TablesTyped
    <2> QED
        BY <1>1, <2>1, QuietKeeps DEF TypeOK
<1> QED
    BY <1>2, <1>3, <1>4, <1>5, StartKeeps DEF Next

LEMMA RegStart == Init => RegInv
<1> SUFFICES ASSUME Init PROVE RegInv
    OBVIOUS
<1>1. Idle \in Job
    BY DEF Idle, Job
<1>2. TypeOK
    BY <1>1, Kinds DEF Init, TypeOK
<1>3. \A r \in Requests : job[r].pc = "idle" /\ job[r].answer = "none"
    BY DEF Init, Idle
<1>4. \A r \in Requests : Lane(r)
    BY <1>3 DEF Lane, Active
<1>5. Born
    BY DEF Init, Born, HasUser
<1>6. \A r \in Updates : HeldAtOld(r) /\ Retired(r)
    BY <1>3, Kinds DEF HeldAtOld, Retired
<1> QED
    BY <1>2, <1>4, <1>5, <1>6 DEF RegInv

(* The variables keep their types in every behaviour, whatever fails and   *)
(* overlaps.                                                               *)
THEOREM RegistrationTyped == Spec => []TypeOK
<1>1. RegInv => TypeOK
    BY DEF RegInv
<1> QED
    BY <1>1, RegStart, RegStep, PTL DEF Spec

(* A number change that answered its code left no number that leads to the *)
(* caller's old user, for every interleaving of registrations, logins and  *)
(* other number changes: updatePhone deletes by number, and the only       *)
(* number the user was ever at is the one it deletes.                      *)
THEOREM RetiredUsers == Spec => []RetiredForGood
<1>1. RegInv => RetiredForGood
    BY DEF RegInv, Retired, RetiredForGood
<1> QED
    BY <1>1, RegStart, RegStep, PTL DEF Spec


-----------------------------------------------------------------------------
(* Numbers on which requests did not overlap.  Only the request at work on *)
(* such a number changes what is stored of it, so each request may rely on *)
(* what it read or wrote there several calls earlier.                      *)

CodeOf(p) == IF pins[p] = None THEN None ELSE pins[p].code

On(r, p) == Active(r) /\ p \in {job[r].phone, job[r].old}

(* One issuer at a time, and no login while the number is given up.        *)
Alone(p) ==
    /\ \A r, s \in Issuers : On(r, p) /\ On(s, p) => r = s
    /\ \A r \in Updates, l \in Logins :
        Active(r) /\ job[r].old = p /\ Active(l) => job[l].phone # p

(* A request that will not store its code any more.                        *)
Stored(r) == job[r].pc \notin {"idle", "own", "exists", "create", "password", "otp"}

(* A code is at the number of the request that stored it.                  *)
CodeHome(p) == CodeOf(p) # None => Stored(CodeOf(p)) /\ job[CodeOf(p)].phone = p

(* A user lacks its password while, or because, its request was cut off.   *)
CutOff(u) == job[u].pc = "done" /\ job[u].answer = "failed"

Unready(p) ==
    HasUser(p) /\ ~pool[p].ready => job[pool[p].sub].pc = "password" \/ CutOff(pool[p].sub)

(* The user a code was stored for was complete, or cut off, by then.       *)
OwnedLater(c) ==
    owner[c] # None =>
        /\ Stored(c)
        /\ job[c].phone \notin shared => Past(owner[c]) /\ job[owner[c]].pc # "password"

Answered(r) == job[r].answer # "none" => job[r].pc = "done"

(* A stored code is the present user's.                                    *)
PinFits(p) == CodeOf(p) # None => HasUser(p) /\ owner[CodeOf(p)] = SubOf(p)

(* The code a registration answered for is the last one sent.              *)
SentLast(p) ==
    CodeOf(p) \in Registrations /\ job[CodeOf(p)].answer = "code" =>
        inbox[p] # <<>> /\ inbox[p][Len(inbox[p])] = CodeOf(p)

(* What a request has made of its number so far.                           *)
AtNew(r) ==
    LET p == job[r].phone
    IN  p \notin shared =>
            /\ job[r].pc = "password" => SubOf(p) = r
            /\ job[r].pc \in {"otp", "send", "unpin", "delete"} =>
                /\ HasUser(p)
                /\ r \in Updates => pool[p] = [sub |-> r, ready |-> TRUE]
            /\ job[r].pc \in {"send", "unpin", "delete"} => CodeOf(p) = r

(* What an update still finds at the old number.                           *)
AtOld(r) ==
    LET p == job[r].old
    IN  p \notin shared =>
            /\ job[r].pc \in {"exists", "create", "password", "otp", "send",
                              "unpin", "delete"} =>
                SubOf(p) = job[r].held /\ job[r].held # r
            /\ job[r].pc = "delete" => CodeOf(p) = None

(* What a login has learnt.                                                *)
LoginFits(l) ==
    LET Told == {"tokens", "empty"}
    IN  job[l].phone \notin shared =>
            /\ job[l].pc \in {"pins", "authenticate", "device"} =>
                job[l].user = SubOf(job[l].phone)
            /\ job[l].pc \in {"authenticate", "device"} \/ job[l].answer \in Told =>
                /\ job[l].auth \in Issuers /\ job[l].user \in Issuers
                /\ Stored(job[l].auth) /\ job[job[l].auth].phone = job[l].phone
                /\ owner[job[l].auth] = job[l].user
            /\ job[l].pc = "device" \/ job[l].answer \in Told =>
                \/ job[l].sub = job[l].user /\ job[l].answer # "empty"
                \/ job[l].sub = None /\ job[l].answer # "tokens" /\ CutOff(job[l].user)

LoneInv ==
    /\ \A p \in Phones : CodeHome(p) /\ Unready(p)
    /\ \A r \in Requests : Answered(r)
    /\ \A r \in Issuers : OwnedLater(r) /\ AtNew(r)
    /\ \A r \in Updates : AtOld(r)
    /\ \A p \in Phones \ shared : Alone(p) /\ PinFits(p) /\ SentLast(p)
    /\ \A l \in Logins : LoginFits(l)

-----------------------------------------------------------------------------
(* How the requests move.                                                  *)
SameCall(r) ==
    /\ job'[r].phone = job[r].phone /\ job'[r].old = job[r].old
    /\ job'[r].user = job[r].user /\ job'[r].held = job[r].held
    /\ job'[r].auth = job[r].auth /\ job'[r].sub = job[r].sub

LEMMA EndFacts ==
    ASSUME TypeOK, NEW r \in Requests, NEW a, End(r, a)
    PROVE  /\ job'[r].pc = "done" /\ job'[r].answer = a /\ SameCall(r)
           /\ \A s \in Requests \ {r} : job'[s] = job[s]
<1>1. job[r] \in Job /\ job \in [Requests -> Job]
    BY DEF TypeOK
<1>2. job' = [job EXCEPT ![r] = [job[r] EXCEPT !.pc = "done", !.answer = a]]
    BY DEF End
<1>3. job'[r] = [job[r] EXCEPT !.pc = "done", !.answer = a]
    BY <1>1, <1>2
<1> QED
    BY <1>1, <1>2, <1>3 DEF Job, SameCall

LEMMA GotoFacts ==
    ASSUME TypeOK, NEW r \in Requests, NEW pc, Goto(r, pc)
    PROVE  /\ job'[r].pc = pc /\ job'[r].answer = job[r].answer /\ SameCall(r)
           /\ \A s \in Requests \ {r} : job'[s] = job[s]
<1>1. job[r] \in Job /\ job \in [Requests -> Job]
    BY DEF TypeOK
<1>2. job'[r] = [job[r] EXCEPT !.pc = pc]
    BY <1>1 DEF Goto
<1> QED
    BY <1>1, <1>2 DEF Goto, Job, SameCall

(* A request that starts.                                                  *)
Starts(r) ==
    \/ r \in Registrations /\ \E p \in Phones : Register(r, p)
    \/ r \in Updates /\ \E u \in Issuers, old, new \in Phones : UpdatePhone(r, u, old, new)
    \/ r \in Logins /\ \E p \in Phones, auth, otp \in Issuers : VerifyOtp(r, p, auth, otp)

LEMMA StartFacts ==
    ASSUME TypeOK, NEW r \in Requests, Starts(r)
    PROVE  /\ job[r].pc = "idle" /\ job'[r].pc \in {"exists", "own", "find"}
           /\ job'[r].answer = "none"
           /\ UNCHANGED <<pool, pins, inbox, owner>>
           /\ shared \subseteq shared'
           /\ \A s \in Requests \ {r} : job'[s] = job[s]
<1>1. job \in [Requests -> Job]
    BY DEF TypeOK
<1>2. ASSUME NEW p \in Phones, Register(r, p)
      PROVE  /\ job[r].pc = "idle" /\ job' = [job EXCEPT ![r] = [Idle EXCEPT !.pc = "exists", !.phone = p]]
             /\ UNCHANGED <<pool, pins, inbox, owner>> /\ shared \subseteq shared'
    BY <1>2 DEF Register, Overlap
<1>3. ASSUME NEW u \in Issuers, NEW old \in Phones, NEW new \in Phones, UpdatePhone(r, u, old, new)
      PROVE  /\ job[r].pc = "idle"
             /\ job' = [job EXCEPT ![r] =
                          [Idle EXCEPT !.pc = "own", !.phone = new, !.old = old, !.user = u]]
             /\ UNCHANGED <<pool, pins, inbox, owner>> /\ shared \subseteq shared'
    BY <1>3 DEF UpdatePhone, Overlap
<1>4. ASSUME NEW p \in Phones, NEW auth \in Issuers, NEW otp \in Issuers, VerifyOtp(r, p, auth, otp)
      PROVE  /\ job[r].pc = "idle"
             /\ job' = [job EXCEPT ![r] =
                          [Idle EXCEPT !.pc = "find", !.phone = p, !.auth = auth, !.otp = otp]]
             /\ UNCHANGED <<pool, pins, inbox, owner>> /\ shared \subseteq shared'
    BY <1>4 DEF VerifyOtp, Overlap
<1>5. CASE \E p \in Phones : Register(r, p)
    BY <1>1, <1>2, <1>5 DEF Idle
<1>6. CASE \E u \in Issuers, old, new \in Phones : UpdatePhone(r, u, old, new)
    <2>1. PICK u \in Issuers, old \in Phones, new \in Phones : UpdatePhone(r, u, old, new)
        BY <1>6
    <2> DEFINE j == [Idle EXCEPT !.pc = "own", !.phone = new, !.old = old, !.user = u]
    <2>2. j.pc = "own" /\ j.answer = "none"
        BY DEF Idle
    <2>3. job' = [job EXCEPT ![r] = j]
        BY <1>3, <2>1
    <2> HIDE DEF j
    <2> QED
        BY <1>1, <1>3, <2>1, <2>2, <2>3
<1>7. CASE \E p \in Phones, auth, otp \in Issuers : VerifyOtp(r, p, auth, otp)
    <2>1. PICK p \in Phones, auth \in Issuers, otp \in Issuers : VerifyOtp(r, p, auth, otp)
        BY <1>7
    <2> DEFINE j == [Idle EXCEPT !.pc = "find", !.phone = p, !.auth = auth, !.otp = otp]
    <2>2. j.pc = "find" /\ j.answer = "none"
        BY DEF Idle
    <2>3. job' = [job EXCEPT ![r] = j]
        BY <2>1 DEF VerifyOtp
    <2> HIDE DEF j
    <2> QED
        BY <1>1, <1>4, <2>1, <2>2, <2>3
<1> QED
    BY <1>5, <1>6, <1>7 DEF Starts

(* What the calls of a request make of its job.                            *)
LEMMA ReadOldFacts ==
    ASSUME RegInv, NEW r \in Requests, ReadOld(r), job'[r].pc # "done"
    PROVE  /\ job[r].pc = "own" /\ job'[r].pc = "exists" /\ job'[r].answer = job[r].answer
           /\ HasUser(job[r].old) /\ job'[r].held = SubOf(job[r].old)
           /\ job'[r].phone = job[r].phone /\ job'[r].old = job[r].old
<1>1. TypeOK /\ job[r] \in Job
    BY Known
<1>2. ~End(r, "failed")
    BY <1>1, EndFacts
<1>3. /\ job[r].pc = "own" /\ HasUser(job[r].old)
      /\ job'[r] = [job[r] EXCEPT !.pc = "exists", !.held = SubOf(job[r].old)]
    BY <1>1, <1>2 DEF ReadOld, TypeOK
<1> QED
    BY <1>1, <1>3 DEF Job

LEMMA FindUserFacts ==
    ASSUME RegInv, NEW l \in Requests, FindUser(l), job'[l].pc # "done"
    PROVE  /\ job[l].pc = "find" /\ job'[l].pc = "pins" /\ job'[l].answer = job[l].answer
           /\ job'[l].user = SubOf(job[l].phone) /\ job'[l].phone = job[l].phone
           /\ job'[l].old = job[l].old /\ job'[l].auth = job[l].auth
<1>1. TypeOK /\ job[l] \in Job
    BY Known
<1>2. ~End(l, "failed")
    BY <1>1, EndFacts
<1>3. /\ job[l].pc = "find"
      /\ job'[l] = [job[l] EXCEPT !.pc = "pins", !.user = SubOf(job[l].phone)]
    BY <1>1, <1>2 DEF FindUser, TypeOK
<1> QED
    BY <1>1, <1>3 DEF Job

LEMMA TokensFacts ==
    ASSUME TypeOK, NEW l \in Requests, NEW sub, Tokens(l, sub)
    PROVE  /\ job'[l].pc \in {"device", "done"} /\ job'[l].sub = sub
           /\ job'[l].pc = "device" => job'[l].answer = "none"
           /\ job'[l].pc = "done" => job'[l].answer = IF sub = None THEN "empty" ELSE "tokens"
           /\ job'[l].phone = job[l].phone /\ job'[l].old = job[l].old
           /\ job'[l].user = job[l].user /\ job'[l].auth = job[l].auth
           /\ \A s \in Requests \ {l} : job'[s] = job[s]
<1>1. job[l] \in Job /\ job \in [Requests -> Job]
    BY DEF TypeOK
<1> DEFINE pc == IF l \in WithDevice THEN "device" ELSE "done"
           a  == IF l \in WithDevice THEN "none" ELSE IF sub = None THEN "empty" ELSE "tokens"
           i  == [job[l] EXCEPT !.sub = sub]
           j  == [i EXCEPT !.pc = pc, !.answer = a]
<1>2. job' = [job EXCEPT ![l] = j]
    BY DEF Tokens
<1>3. job'[l] = j /\ \A s \in Requests \ {l} : job'[s] = job[s]
    BY <1>1, <1>2
<1>4. pc \in {"device", "done"} /\ (pc = "device" => a = "none")
      /\ (pc = "done" => a = IF sub = None THEN "empty" ELSE "tokens")
    OBVIOUS
<1> HIDE DEF pc, a
<1>5. /\ i.sub = sub /\ i.phone = job[l].phone /\ i.old = job[l].old
      /\ i.user = job[l].user /\ i.auth = job[l].auth
      /\ DOMAIN i = DOMAIN job[l]
    BY <1>1 DEF Job
<1>6. DOMAIN job[l] = {"pc", "phone", "old", "user", "held", "auth", "otp", "sub", "answer"}
    BY <1>1 DEF Job
<1>7. /\ j.pc = pc /\ j.answer = a /\ j.sub = i.sub /\ j.phone = i.phone
      /\ j.old = i.old /\ j.user = i.user /\ j.auth = i.auth
    BY <1>5, <1>6
<1> HIDE DEF i, j
<1> QED
    BY <1>3, <1>4, <1>5, <1>7


(* The calls a request makes, one after the other.                         *)
Leads(from, to) ==
    \/ from = "own" /\ to = "exists"
    \/ from = "exists" /\ to \in {"otp", "create"}
    \/ from = "create" /\ to = "password"
    \/ from = "password" /\ to = "otp"
    \/ from = "otp" /\ to = "send"
    \/ from = "send" /\ to = "unpin"
    \/ from = "unpin" /\ to = "delete"
    \/ from = "find" /\ to = "pins"
    \/ from = "pins" /\ to = "authenticate"
    \/ from = "authenticate" /\ to = "device"

LEMMA StepFacts ==
    ASSUME RegInv, NEW r \in Requests, Step(r)
    PROVE  /\ Active(r) /\ shared' = shared
           /\ \A s \in Requests \ {r} : job'[s] = job[s]
           /\ job'[r].phone = job[r].phone /\ job'[r].old = job[r].old
           /\ job'[r].pc = "done" \/ Leads(job[r].pc, job'[r].pc)
<1>1. TypeOK /\ job[r] \in Job /\ Lane(r)
    BY Known
<1>2. Active(r) /\ shared' = shared
    BY DEF Step, ReadOld, CheckExists, CreateUser, SetPassword, StoreCode, SendCode,
           DeletePin, DeleteUser, FindUser, CheckCode, Authenticate, StoreDevice,
           CallThrows, Active
<1>3. ASSUME NEW a, End(r, a)
      PROVE  /\ \A s \in Requests \ {r} : job'[s] = job[s]
             /\ job'[r].phone = job[r].phone /\ job'[r].old = job[r].old
             /\ job'[r].pc = "done"
    BY <1>1, <1>3, EndFacts DEF SameCall
<1>4. ASSUME NEW pc, Goto(r, pc), Leads(job[r].pc, pc)
      PROVE  /\ \A s \in Requests \ {r} : job'[s] = job[s]
             /\ job'[r].phone = job[r].phone /\ job'[r].old = job[r].old
             /\ Leads(job[r].pc, job'[r].pc)
    BY <1>1, <1>4, GotoFacts DEF SameCall
<1>5. CASE ReadOld(r)
    <2>1. \A s \in Requests \ {r} : job'[s] = job[s]
        BY <1>1, <1>5 DEF ReadOld, End, TypeOK
    <2>2. CASE End(r, "failed")
        BY <1>2, <1>3, <2>2
    <2>3. CASE job'[r].pc # "done"
        BY <1>2, <1>5, <2>1, <2>3, ReadOldFacts DEF Leads
    <2>4. CASE job' = [job EXCEPT ![r].pc = "exists", ![r].held = SubOf(job[r].old)]
        <3>1. job'[r].pc # "done"
            BY <1>1, <2>4 DEF TypeOK, Job
        <3> QED
            BY <2>3, <3>1
    <2> QED
        BY <1>5, <2>2, <2>4 DEF ReadOld
<1>6. CASE FindUser(r)
    <2>1. \A s \in Requests \ {r} : job'[s] = job[s]
        BY <1>1, <1>6 DEF FindUser, End, TypeOK
    <2>2. CASE End(r, "failed")
        BY <1>2, <1>3, <2>2
    <2>3. CASE job'[r].pc # "done"
        BY <1>2, <1>6, <2>1, <2>3, FindUserFacts DEF Leads
    <2>4. CASE job' = [job EXCEPT ![r].pc = "pins", ![r].user = SubOf(job[r].phone)]
        <3>1. job'[r].pc # "done"
            BY <1>1, <2>4 DEF TypeOK, Job
        <3> QED
            BY <2>3, <3>1
    <2> QED
        BY <1>6, <2>2, <2>4 DEF FindUser
<1>7. CASE Authenticate(r)
    <2>1. CASE End(r, "failed")
        BY <1>2, <1>3, <2>1
    <2>2. CASE \E sub : Tokens(r, sub)
        BY <1>1, <1>2, <1>7, <2>2, TokensFacts DEF Authenticate, Leads
    <2> QED
        BY <1>7, <2>1, <2>2 DEF Authenticate
<1>8. CASE CallThrows(r) \/ StoreDevice(r) \/ DeleteUser(r)
    <2>1. \E a : End(r, a)
        BY <1>8 DEF CallThrows, StoreDevice, DeleteUser, Finish
    <2> QED
        BY <1>2, <1>3, <2>1
<1>9. CASE CheckExists(r) \/ CreateUser(r) \/ SetPassword(r) \/ StoreCode(r) \/ SendCode(r)
           \/ DeletePin(r) \/ CheckCode(r)
    <2>1. \/ \E a : End(r, a)
          \/ \E pc : Goto(r, pc) /\ Leads(job[r].pc, pc)
        <3>1. CASE CheckExists(r)
            BY <3>1 DEF CheckExists, Leads
        <3>2. CASE CreateUser(r)
            BY <3>2 DEF CreateUser, AfterCreate, Leads
        <3>3. CASE SetPassword(r)
            BY <3>3 DEF SetPassword, Leads
        <3>4. CASE StoreCode(r)
            BY <3>4 DEF StoreCode, Leads
        <3>5. CASE SendCode(r)
            BY <3>5 DEF SendCode, Leads
        <3>6. CASE DeletePin(r)
            BY <3>6 DEF DeletePin, Leads
        <3>7. CASE CheckCode(r)
            BY <3>7 DEF CheckCode, Leads
        <3> QED
            BY <1>9, <3>1, <3>2, <3>3, <3>4, <3>5, <3>6, <3>7
    <2> QED
        BY <1>2, <1>3, <1>4, <2>1
<1> QED
    BY <1>5, <1>6, <1>7, <1>8, <1>9 DEF Step

LEMMA CrashFacts ==
    ASSUME RegInv, Crash
    PROVE  /\ UNCHANGED <<pool, pins, inbox, owner, shared>>
           /\ \A r \in Requests :
                \/ job'[r] = job[r]
                \/ /\ Active(r) /\ job'[r].pc = "done" /\ job'[r].answer = "failed"
                   /\ job'[r].phone = job[r].phone /\ job'[r].old = job[r].old
                   /\ job'[r].auth = job[r].auth /\ job'[r].user = job[r].user
<1>1. ASSUME NEW r \in Requests, Active(r)
      PROVE  /\ job'[r].pc = "done" /\ job'[r].answer = "failed"
             /\ job'[r].phone = job[r].phone /\ job'[r].old = job[r].old
             /\ job'[r].auth = job[r].auth /\ job'[r].user = job[r].user
    <2>1. job[r] \in Job
        BY Known
    <2>2. job'[r] = [job[r] EXCEPT !.pc = "done", !.answer = "failed"]
        BY <1>1 DEF Crash
    <2> QED
        BY ONLY <2>1, <2>2 DEF Job
<1>2. ASSUME NEW r \in Requests, ~Active(r) PROVE job'[r] = job[r]
    BY <1>2 DEF Crash
<1> QED
    BY <1>1, <1>2 DEF Crash

(* A step starts a request, or is one's next call, or a crash, or an       *)
(* expiry.                                                                 *)
LEMMA StepKinds ==
    ASSUME [Next]_vars
    PROVE  \/ \E r \in Requests : Starts(r) \/ Step(r)
           \/ Crash
           \/ \E p \in Phones : Expire(p)
           \/ UNCHANGED vars
<1>1. Registrations \subseteq Requests /\ Updates \subseteq Requests /\ Logins \subseteq Requests
    BY Kinds
<1> QED
    BY <1>1 DEF Next, Starts

(* No request goes back.                                                   *)
Onward(r) ==
    /\ job[r].pc # "idle" => job'[r].phone = job[r].phone /\ job'[r].old = job[r].old
    /\ job[r].pc = "done" => job'[r] = job[r]
    /\ Past(r) => Past(r)'
    /\ Stored(r) => Stored(r)'
    /\ Past(r) /\ job[r].pc # "password" => job'[r].pc # "password"

LEMMA AllOnward ==
    ASSUME RegInv, [Next]_vars, NEW r \in Requests
    PROVE  Onward(r) /\ shared \subseteq shared'
<1>1. TypeOK
    BY DEF RegInv
<1>2. job'[r] = job[r] => Onward(r)
    BY DEF Onward, Past, Stored
<1>3. ASSUME NEW s \in Requests, Starts(s) PROVE Onward(r) /\ shared \subseteq shared'
    <2>1. CASE r = s
        BY <1>1, <1>3, <2>1, StartFacts DEF Onward, Past, Stored
    <2>2. CASE r # s
        BY <1>1, <1>2, <1>3, <2>2, StartFacts
    <2> QED
        BY <2>1, <2>2
<1>4. ASSUME NEW s \in Requests, Step(s) PROVE Onward(r) /\ shared \subseteq shared'
    <2>1. CASE r = s
        BY <1>4, <2>1, StepFacts DEF Onward, Past, Stored, Active, Leads
    <2>2. CASE r # s
        BY <1>2, <1>4, <2>2, StepFacts
    <2> QED
        BY <2>1, <2>2
<1>5. CASE Crash
    BY <1>2, <1>5, CrashFacts DEF Onward, Past, Stored, Active
<1>6. CASE (\E p \in Phones : Expire(p)) \/ UNCHANGED vars
    BY <1>2, <1>6 DEF Expire, vars
<1> QED
    BY <1>3, <1>4, <1>5, <1>6, StepKinds


(* What each call makes of the tables.                                     *)
LEMMA CodesKnown ==
    ASSUME TypeOK, NEW p \in Phones
    PROVE  /\ CodeOf(p) \in Issuers \cup {None}
           /\ CodeOf(p) = None <=> pins[p] = None
<1>1. pins[p] \in Pin \cup {None} /\ None \notin Issuers
    BY Kinds DEF TypeOK
<1> QED
    BY <1>1 DEF CodeOf, Pin

LEMMA RecordsReal ==
    ASSUME NEW r \in Issuers, NEW b \in BOOLEAN
    PROVE  [sub |-> r, ready |-> b] # None /\ [code |-> r, live |-> b] # None
<1>1. [sub |-> r, ready |-> b] \in [sub : Issuers, ready : BOOLEAN]
    OBVIOUS
<1>2. [code |-> r, live |-> b] \in [code : Issuers, live : BOOLEAN]
    OBVIOUS
<1> QED
    BY <1>1, <1>2, RegistrationAssumption DEF RegistrationAssumption

LEMMA PasswordSet ==
    ASSUME NEW u \in User
    PROVE  [u EXCEPT !.ready = TRUE] = [sub |-> u.sub, ready |-> TRUE]
<1> DEFINE v == [u EXCEPT !.ready = TRUE]
<1>1. v \in User /\ v.sub = u.sub /\ v.ready = TRUE
    BY DEF User
<1> HIDE DEF v
<1>2. v = [sub |-> v.sub, ready |-> v.ready]
    BY <1>1 DEF User
<1>3. v = [sub |-> u.sub, ready |-> TRUE]
    BY <1>1, <1>2
<1> QED
    BY <1>3 DEF v

LEMMA CreateFacts ==
    ASSUME RegInv, NEW r \in Requests, CreateUser(r)
    PROVE  /\ job[r].pc = "create" /\ r \in Issuers /\ job[r].phone \in Phones
           /\ UNCHANGED <<pins, inbox, owner>>
           /\ \/ job'[r].pc = "done" /\ job'[r].answer = "failed" /\ pool' = pool
              \/ /\ job'[r].pc = "password" /\ job'[r].answer = job[r].answer
                 /\ ~HasUser(job[r].phone)
                 /\ pool'[job[r].phone] = [sub |-> r, ready |-> FALSE]
                 /\ SubOf(job[r].phone)' = r
                 /\ \A p \in Phones \ {job[r].phone} : pool'[p] = pool[p]
<1>1. TypeOK /\ job[r].pc = "create" /\ r \in Issuers /\ job[r].phone \in Phones
    BY Known DEF CreateUser, Lane, Active
<1>3. [sub |-> r, ready |-> FALSE] # None
    BY <1>1, RecordsReal
<1>4. CASE End(r, "failed") /\ pool' = pool
    BY <1>1, <1>4, EndFacts DEF CreateUser
<1>5. CASE /\ ~HasUser(job[r].phone) /\ Goto(r, "password")
           /\ pool' = [pool EXCEPT ![job[r].phone] = [sub |-> r, ready |-> FALSE]]
    <2>1. /\ pool'[job[r].phone] = [sub |-> r, ready |-> FALSE]
          /\ \A p \in Phones \ {job[r].phone} : pool'[p] = pool[p]
        BY <1>1, <1>5 DEF TypeOK
    <2>2. SubOf(job[r].phone)' = r
        <3>1. job'[r].phone = job[r].phone
            BY StepFacts DEF Step
        <3> QED
            BY <1>3, <2>1, <3>1 DEF SubOf, HasUser
    <2> QED
        BY <1>1, <1>5, <2>1, <2>2, GotoFacts DEF CreateUser
<1> QED
    BY <1>4, <1>5 DEF CreateUser, AfterCreate

LEMMA PasswordFacts ==
    ASSUME RegInv, NEW r \in Requests, SetPassword(r)
    PROVE  /\ job[r].pc = "password" /\ r \in Issuers /\ job[r].phone \in Phones
           /\ UNCHANGED <<pins, inbox, owner>>
           /\ \A p \in Phones : SubOf(p)' = SubOf(p) /\ (HasUser(p)' <=> HasUser(p))
           /\ \/ job'[r].pc = "done" /\ job'[r].answer = "failed" /\ pool' = pool
              \/ /\ job'[r].pc = "otp" /\ job'[r].answer = job[r].answer
                 /\ HasUser(job[r].phone)
                 /\ pool'[job[r].phone] = [sub |-> SubOf(job[r].phone), ready |-> TRUE]
                 /\ \A p \in Phones \ {job[r].phone} : pool'[p] = pool[p]
<1>1. TypeOK /\ job[r].pc = "password" /\ r \in Issuers /\ job[r].phone \in Phones
    BY Known DEF SetPassword, Lane, Active
<1>2. CASE End(r, "failed") /\ pool' = pool
    BY <1>1, <1>2, EndFacts DEF SetPassword, SubOf, HasUser
<1>3. CASE /\ HasUser(job[r].phone) /\ Goto(r, "otp")
           /\ pool' = [pool EXCEPT ![job[r].phone].ready = TRUE]
    <2>1. pool[job[r].phone] \in User
        BY <1>1, <1>3 DEF TypeOK, HasUser
    <2>2. [pool[job[r].phone] EXCEPT !.ready = TRUE]
            = [sub |-> SubOf(job[r].phone), ready |-> TRUE]
        BY <1>3, <2>1, PasswordSet DEF SubOf
    <2>3. /\ pool'[job[r].phone] = [sub |-> SubOf(job[r].phone), ready |-> TRUE]
          /\ \A p \in Phones \ {job[r].phone} : pool'[p] = pool[p]
        BY <1>1, <1>3, <2>2 DEF TypeOK
    <2>4. SubOf(job[r].phone) \in Issuers
        BY <1>1, <1>3, SubsKnown
    <2>6. [sub |-> SubOf(job[r].phone), ready |-> TRUE] # None
        BY <2>4, RecordsReal
    <2>7. ASSUME NEW p \in Phones PROVE SubOf(p)' = SubOf(p) /\ (HasUser(p)' <=> HasUser(p))
        <3>1. CASE p = job[r].phone
            <4>1. pool'[p] = [sub |-> SubOf(p), ready |-> TRUE] /\ pool'[p] # None
                BY <2>3, <2>6, <3>1
            <4> QED
                BY <1>3, <3>1, <4>1 DEF SubOf, HasUser
        <3>2. CASE p # job[r].phone
            BY <2>3, <3>2 DEF SubOf, HasUser
        <3> QED
            BY <3>1, <3>2
    <2> QED
        BY <1>1, <1>3, <2>3, <2>7, GotoFacts DEF SetPassword
<1> QED
    BY <1>2, <1>3 DEF SetPassword

LEMMA StoreFacts ==
    ASSUME RegInv, NEW r \in Requests, StoreCode(r)
    PROVE  /\ job[r].pc = "otp" /\ r \in Issuers /\ job[r].phone \in Phones
           /\ UNCHANGED <<pool, inbox>>
           /\ job'[r].pc = "send" /\ job'[r].answer = job[r].answer
           /\ CodeOf(job[r].phone)' = r
           /\ \A p \in Phones \ {job[r].phone} : CodeOf(p)' = CodeOf(p)
           /\ owner'[r] = SubOf(job[r].phone)
           /\ \A c \in Issuers \ {r} : owner'[c] = owner[c]
<1>1. TypeOK /\ job[r].pc = "otp" /\ r \in Issuers /\ job[r].phone \in Phones
    BY Known DEF StoreCode, Lane, Active
<1>3. [code |-> r, live |-> TRUE] # None
    BY <1>1, RecordsReal
<1>4. /\ pins'[job[r].phone] = [code |-> r, live |-> TRUE]
      /\ \A p \in Phones \ {job[r].phone} : pins'[p] = pins[p]
      /\ owner'[r] = SubOf(job[r].phone)
      /\ \A c \in Issuers \ {r} : owner'[c] = owner[c]
    BY <1>1 DEF StoreCode, TypeOK
<1>5. job'[r].pc = "send" /\ job'[r].answer = job[r].answer /\ job'[r].phone = job[r].phone
    BY <1>1, GotoFacts DEF StoreCode, SameCall
<1>6. CodeOf(job[r].phone)' = r
    BY <1>3, <1>4, <1>5 DEF CodeOf
<1>7. \A p \in Phones \ {job[r].phone} : CodeOf(p)' = CodeOf(p)
    BY <1>4 DEF CodeOf
<1> QED
    BY <1>1, <1>4, <1>5, <1>6, <1>7 DEF StoreCode

LEMMA SendFacts ==
    ASSUME RegInv, NEW r \in Requests, SendCode(r)
    PROVE  /\ job[r].pc = "send" /\ r \in Issuers /\ job[r].phone \in Phones
           /\ UNCHANGED <<pool, pins, owner>>
           /\ \A p \in Phones \ {job[r].phone} : inbox'[p] = inbox[p]
           /\ job'[r].answer = "code" =>
                \/ /\ r \in Registrations
                   /\ inbox'[job[r].phone] # <<>>
                   /\ inbox'[job[r].phone][Len(inbox'[job[r].phone])] = r
                \/ r \in Updates /\ job[r].answer = "code"
<1>1. TypeOK /\ job[r].pc = "send" /\ r \in Issuers /\ job[r].phone \in Phones
    BY Known DEF SendCode, Lane, Active
<1>2. \A p \in Phones \ {job[r].phone} : inbox'[p] = inbox[p]
    <2>1. \/ inbox' = inbox
          \/ inbox' = [inbox EXCEPT ![job[r].phone] = Append(@, r)]
        BY DEF SendCode
    <2> QED
        BY <1>1, <2>1 DEF TypeOK
<1>3. ASSUME job'[r].answer = "code"
      PROVE  \/ /\ r \in Registrations
                /\ inbox'[job[r].phone] # <<>>
                /\ inbox'[job[r].phone][Len(inbox'[job[r].phone])] = r
             \/ r \in Updates /\ job[r].answer = "code"
    <2>1. CASE r \in Registrations
        <3>1. PICK isSend \in BOOLEAN, taken \in BOOLEAN :
                /\ isSend => taken
                /\ inbox' = IF taken THEN [inbox EXCEPT ![job[r].phone] = Append(@, r)]
                            ELSE inbox
                /\ End(r, Registered(isSend))
            BY <2>1 DEF SendCode
        <3>2. Registered(isSend) = "code"
            BY <1>1, <1>3, <3>1, EndFacts
        <3>3. isSend /\ inbox'[job[r].phone] = Append(inbox[job[r].phone], r)
            BY <1>1, <3>1, <3>2 DEF Registered, TypeOK
        <3>4. inbox[job[r].phone] \in Seq(Issuers)
            BY <1>1 DEF TypeOK
        <3> QED
            BY <1>1, <2>1, <3>3, <3>4
    <2>2. CASE r \notin Registrations
        <3>1. r \in Updates /\ Goto(r, "unpin")
            BY <1>1, <2>2, Kinds DEF SendCode
        <3> QED
            BY <1>1, <1>3, <3>1, GotoFacts
    <2> QED
        BY <2>1, <2>2
<1> QED
    BY <1>1, <1>2, <1>3 DEF SendCode

LEMMA UnpinFacts ==
    ASSUME RegInv, NEW r \in Requests, DeletePin(r)
    PROVE  /\ job[r].pc = "unpin" /\ r \in Updates /\ job[r].old \in Phones
           /\ UNCHANGED <<pool, inbox, owner>>
           /\ job'[r].pc = "delete" /\ job'[r].answer = job[r].answer
           /\ CodeOf(job[r].old)' = None
           /\ \A p \in Phones \ {job[r].old} : CodeOf(p)' = CodeOf(p)
<1>1. TypeOK /\ job[r].pc = "unpin" /\ r \in Updates /\ job[r].old \in Phones
    BY Known DEF DeletePin, Lane, Active
<1>2. /\ job'[r].pc = "delete" /\ job'[r].answer = job[r].answer /\ job'[r].old = job[r].old
    BY <1>1, GotoFacts DEF DeletePin, SameCall
<1>3. pins'[job[r].old] = None /\ \A p \in Phones \ {job[r].old} : pins'[p] = pins[p]
    BY <1>1 DEF DeletePin, PinsWithout, TypeOK
<1>4. CodeOf(job[r].old)' = None
    BY <1>2, <1>3 DEF CodeOf
<1>5. \A p \in Phones \ {job[r].old} : CodeOf(p)' = CodeOf(p)
    BY <1>3 DEF CodeOf
<1> QED
    BY <1>1, <1>2, <1>4, <1>5 DEF DeletePin

LEMMA DeleteFacts ==
    ASSUME RegInv, NEW r \in Requests, DeleteUser(r)
    PROVE  /\ job[r].pc = "delete" /\ r \in Updates /\ job[r].old \in Phones
           /\ UNCHANGED <<pins, inbox, owner>> /\ job'[r].pc = "done"
           /\ \/ pool' = pool
              \/ /\ SubOf(job[r].old)' = None /\ ~HasUser(job[r].old)'
                 /\ pool'[job[r].old] = None
                 /\ \A p \in Phones \ {job[r].old} : pool'[p] = pool[p]
<1>1. TypeOK /\ job[r].pc = "delete" /\ r \in Updates /\ job[r].old \in Phones
    BY Known DEF DeleteUser, Lane, Active
<1>2. \E a : End(r, a)
    BY DEF DeleteUser, Finish
<1>3. job'[r].pc = "done" /\ job'[r].old = job[r].old
    BY <1>1, <1>2, EndFacts DEF SameCall
<1>4. CASE pool' = [pool EXCEPT ![job[r].old] = None]
    <2>1. /\ pool'[job[r].old] = None
          /\ \A p \in Phones \ {job[r].old} : pool'[p] = pool[p]
        BY <1>1, <1>4 DEF TypeOK
    <2>2. SubOf(job[r].old)' = None /\ ~HasUser(job[r].old)'
        BY <1>3, <2>1 DEF SubOf, HasUser
    <2> QED
        BY <1>1, <1>3, <2>1, <2>2 DEF DeleteUser
<1>5. CASE pool' = pool
    BY <1>1, <1>3, <1>5 DEF DeleteUser
<1> QED
    BY <1>4, <1>5 DEF DeleteUser, PoolWithout

(* The other calls leave the tables alone.                                 *)
Calm ==
    /\ UNCHANGED <<pool, inbox, owner>>
    /\ \A p \in Phones : CodeOf(p)' = CodeOf(p)

LEMMA CalmFacts ==
    ASSUME TypeOK,
           \/ \E r \in Requests : \/ Starts(r) \/ ReadOld(r) \/ CheckExists(r) \/ FindUser(r)
                                  \/ CheckCode(r) \/ Authenticate(r) \/ StoreDevice(r)
                                  \/ CallThrows(r)
           \/ Crash
           \/ \E p \in Phones : Expire(p)
           \/ UNCHANGED vars
    PROVE  Calm
<1>1. CASE \E p \in Phones : Expire(p)
    <2>1. PICK p \in Phones : Expire(p)
        BY <1>1
    <2>2. pins[p] \in Pin
        BY <2>1 DEF Expire, TypeOK
    <2>3. None \notin [code : Issuers, live : BOOLEAN]
        BY RegistrationAssumption DEF RegistrationAssumption
    <2>4. [pins[p] EXCEPT !.live = FALSE] \in Pin
        BY <2>2 DEF Pin
    <2>5. /\ [pins[p] EXCEPT !.live = FALSE] # None /\ pins[p] # None
          /\ [pins[p] EXCEPT !.live = FALSE].code = pins[p].code
        <3>1. [pins[p] EXCEPT !.live = FALSE].code = pins[p].code
            BY <2>2 DEF Pin
        <3>2. None \notin Pin
            BY <2>3 DEF Pin
        <3> QED
            BY <2>2, <2>4, <3>1, <3>2
    <2>6. /\ pins'[p] = [pins[p] EXCEPT !.live = FALSE]
          /\ \A q \in Phones \ {p} : pins'[q] = pins[q]
        BY <2>1 DEF Expire, TypeOK
    <2>7. \A q \in Phones : CodeOf(q)' = CodeOf(q)
        BY <2>5, <2>6 DEF CodeOf
    <2> QED
        BY <2>1, <2>7 DEF Calm, Expire
<1>2. CASE UNCHANGED <<pool, pins, inbox, owner>>
    BY <1>2 DEF Calm, CodeOf
<1>3. ASSUME NEW r \in Requests, Starts(r) PROVE UNCHANGED <<pool, pins, inbox, owner>>
    BY <1>3, StartFacts
<1>4. ASSUME NEW r \in Requests,
             \/ ReadOld(r) \/ CheckExists(r) \/ FindUser(r) \/ CheckCode(r)
             \/ Authenticate(r) \/ StoreDevice(r) \/ CallThrows(r)
      PROVE  UNCHANGED <<pool, pins, inbox, owner>>
    BY <1>4 DEF ReadOld, CheckExists, FindUser, CheckCode, Authenticate, StoreDevice, CallThrows
<1>5. CASE Crash \/ UNCHANGED vars
    BY <1>2, <1>5 DEF Crash, vars
<1> QED
    BY <1>1, <1>2, <1>3, <1>4, <1>5


(* Who changes what is stored of a number.                                 *)
LEMMA Writers ==
    ASSUME RegInv, [Next]_vars
    PROVE  \/ Calm
           \/ \E r \in Requests : \/ CreateUser(r) \/ SetPassword(r) \/ StoreCode(r)
                                  \/ SendCode(r) \/ DeletePin(r) \/ DeleteUser(r)
<1>1. TypeOK
    BY DEF RegInv
<1>2. CASE \E r \in Requests : Starts(r)
    BY <1>1, <1>2, CalmFacts
<1>3. CASE \E r \in Requests : Step(r)
    <2>1. PICK r \in Requests : Step(r)
        BY <1>3
    <2>2. CASE \/ ReadOld(r) \/ CheckExists(r) \/ FindUser(r) \/ CheckCode(r)
               \/ Authenticate(r) \/ StoreDevice(r) \/ CallThrows(r)
        BY <1>1, <2>2, CalmFacts
    <2> QED
        BY <2>1, <2>2 DEF Step
<1>4. CASE Crash \/ (\E p \in Phones : Expire(p)) \/ UNCHANGED vars
    BY <1>1, <1>4, CalmFacts
<1> QED
    BY <1>2, <1>3, <1>4, StepKinds

LEMMA PoolMoves ==
    ASSUME RegInv, [Next]_vars, NEW p \in Phones
    PROVE  \/ pool'[p] = pool[p]
           \/ \E r \in Issuers : /\ CreateUser(r) /\ job[r].phone = p /\ job'[r].pc = "password"
                                 /\ ~HasUser(p) /\ SubOf(p)' = r
                                 /\ pool'[p] = [sub |-> r, ready |-> FALSE]
           \/ \E r \in Issuers : /\ SetPassword(r) /\ job[r].phone = p /\ job'[r].pc = "otp"
                                 /\ HasUser(p) /\ SubOf(p)' = SubOf(p)
                                 /\ pool'[p] = [sub |-> SubOf(p), ready |-> TRUE]
           \/ \E r \in Updates : /\ DeleteUser(r) /\ job[r].old = p
                                 /\ pool'[p] = None /\ SubOf(p)' = None
<1>1. CASE Calm
    BY <1>1 DEF Calm
<1>2. ASSUME NEW r \in Requests, CreateUser(r), pool'[p] # pool[p]
      PROVE  /\ r \in Issuers /\ job[r].phone = p /\ job'[r].pc = "password"
             /\ ~HasUser(p) /\ SubOf(p)' = r
             /\ pool'[p] = [sub |-> r, ready |-> FALSE]
    <2>1. job[r].phone = p
        BY <1>2, CreateFacts
    <2>2. job'[r].phone = job[r].phone
        BY <1>2, StepFacts DEF Step
    <2> QED
        BY <1>2, <2>1, <2>2, CreateFacts
<1>3. ASSUME NEW r \in Requests, SetPassword(r), pool'[p] # pool[p]
      PROVE  /\ r \in Issuers /\ job[r].phone = p /\ job'[r].pc = "otp"
             /\ HasUser(p) /\ SubOf(p)' = SubOf(p)
             /\ pool'[p] = [sub |-> SubOf(p), ready |-> TRUE]
    BY <1>3, PasswordFacts
<1>4. ASSUME NEW r \in Requests, DeleteUser(r), pool'[p] # pool[p]
      PROVE  /\ r \in Updates /\ job[r].old = p /\ pool'[p] = None /\ SubOf(p)' = None
    BY <1>4, DeleteFacts DEF SubOf, HasUser
<1>5. ASSUME NEW r \in Requests, StoreCode(r) \/ SendCode(r) \/ DeletePin(r)
      PROVE  pool'[p] = pool[p]
    BY <1>5 DEF StoreCode, SendCode, DeletePin
<1> QED
    BY <1>1, <1>2, <1>3, <1>4, <1>5, Writers

LEMMA CodeMoves ==
    ASSUME RegInv, [Next]_vars, NEW p \in Phones
    PROVE  \/ CodeOf(p)' = CodeOf(p)
           \/ \E r \in Issuers : StoreCode(r) /\ job[r].phone = p /\ CodeOf(p)' = r
           \/ \E r \in Updates : DeletePin(r) /\ job[r].old = p /\ CodeOf(p)' = None
<1>1. CASE Calm
    BY <1>1 DEF Calm
<1>2. ASSUME NEW r \in Requests, StoreCode(r), CodeOf(p)' # CodeOf(p)
      PROVE  r \in Issuers /\ job[r].phone = p /\ CodeOf(p)' = r
    <2>1. r \in Issuers /\ job[r].phone = p
        BY <1>2, StoreFacts
    <2>2. pins'[p] = [code |-> r, live |-> TRUE]
        BY <1>2, <2>1 DEF StoreCode, RegInv, TypeOK
    <2>3. [code |-> r, live |-> TRUE] # None
        BY <2>1, RecordsReal
    <2>4. CodeOf(p)' = r
        BY <2>2, <2>3 DEF CodeOf
    <2> QED
        BY <2>1, <2>4
<1>3. ASSUME NEW r \in Requests, DeletePin(r), CodeOf(p)' # CodeOf(p)
      PROVE  r \in Updates /\ job[r].old = p /\ CodeOf(p)' = None
    <2>1. r \in Updates /\ job[r].old = p
        BY <1>3, UnpinFacts
    <2>2. pins'[p] = None
        BY <1>3, <2>1 DEF DeletePin, PinsWithout, RegInv, TypeOK
    <2> QED
        BY <2>1, <2>2 DEF CodeOf
<1>4. ASSUME NEW r \in Requests,
             CreateUser(r) \/ SetPassword(r) \/ SendCode(r) \/ DeleteUser(r)
      PROVE  CodeOf(p)' = CodeOf(p)
    BY <1>4 DEF CreateUser, SetPassword, SendCode, DeleteUser, CodeOf
<1> QED
    BY <1>1, <1>2, <1>3, <1>4, Writers

LEMMA OwnerMoves ==
    ASSUME RegInv, [Next]_vars, NEW c \in Issuers
    PROVE  owner'[c] = owner[c] \/ StoreCode(c)
<1>1. CASE Calm
    BY <1>1 DEF Calm
<1>2. ASSUME NEW r \in Requests, StoreCode(r) PROVE r = c \/ owner'[c] = owner[c]
    BY <1>2, StoreFacts
<1>3. ASSUME NEW r \in Requests,
             CreateUser(r) \/ SetPassword(r) \/ SendCode(r) \/ DeletePin(r) \/ DeleteUser(r)
      PROVE  owner'[c] = owner[c]
    BY <1>3 DEF CreateUser, SetPassword, SendCode, DeletePin, DeleteUser
<1> QED
    BY <1>1, <1>2, <1>3, Writers

LEMMA InboxMoves ==
    ASSUME RegInv, [Next]_vars, NEW p \in Phones
    PROVE  inbox'[p] = inbox[p] \/ \E r \in Issuers : SendCode(r) /\ job[r].phone = p
<1>1. CASE Calm
    BY <1>1 DEF Calm
<1>2. ASSUME NEW r \in Requests, SendCode(r), inbox'[p] # inbox[p]
      PROVE  r \in Issuers /\ job[r].phone = p
    BY <1>2, SendFacts
<1>3. ASSUME NEW r \in Requests,
             CreateUser(r) \/ SetPassword(r) \/ StoreCode(r) \/ DeletePin(r) \/ DeleteUser(r)
      PROVE  inbox'[p] = inbox[p]
    BY <1>3 DEF CreateUser, SetPassword, StoreCode, DeletePin, DeleteUser
<1> QED
    BY <1>1, <1>2, <1>3, Writers

(* A request is answered only when it ends.                                *)
LEMMA AnsweredStep ==
    ASSUME RegInv, [Next]_vars, NEW r \in Requests, Answered(r)
    PROVE  Answered(r)'
<1>0. r \in Requests /\ TypeOK /\ job[r] \in Job /\ Lane(r)
    BY Kinds, Known
<1>1. job'[r] = job[r] => Answered(r)'
    BY DEF Answered
<1>2. job'[r].answer = "none" \/ job'[r].pc = "done" => Answered(r)'
    BY DEF Answered
<1>3. ASSUME NEW s \in Requests, Starts(s) PROVE Answered(r)'
    BY <1>0, <1>1, <1>2, <1>3, StartFacts
<1>4. ASSUME Step(r), job'[r].pc # "done" PROVE Answered(r)'
    <2>1. \/ \E pc : Goto(r, pc)
          \/ job'[r].answer = job[r].answer
          \/ job'[r].answer = "none"
        <3>1. \A a : ~End(r, a)
            BY <1>0, <1>4, EndFacts
        <3>2. ~\E sub : Tokens(r, sub) /\ job'[r].answer # "none"
            BY <1>0, <1>4, TokensFacts
        <3>3. CASE ReadOld(r)
            BY <1>0, <1>4, <3>3, ReadOldFacts, Known
        <3>4. CASE FindUser(r)
            BY <1>0, <1>4, <3>4, FindUserFacts, Known
        <3>5. CASE CheckExists(r) \/ CreateUser(r) \/ SetPassword(r) \/ StoreCode(r)
                   \/ SendCode(r) \/ DeletePin(r) \/ CheckCode(r)
            BY <3>1, <3>5 DEF CheckExists, CreateUser, SetPassword, StoreCode, SendCode,
                              DeletePin, CheckCode
        <3>6. CASE Authenticate(r) \/ DeleteUser(r) \/ StoreDevice(r) \/ CallThrows(r)
            BY <3>1, <3>2, <3>6 DEF Authenticate, DeleteUser, StoreDevice, CallThrows, Finish
        <3> QED
            BY <1>4, <3>3, <3>4, <3>5, <3>6 DEF Step
    <2>2. job'[r].answer \in {job[r].answer, "none"}
        BY <1>0, <2>1, GotoFacts
    <2>3. Active(r)
        BY <1>0, <1>4, StepFacts
    <2> QED
        BY <2>2, <2>3 DEF Answered, Active
<1>5. ASSUME NEW s \in Requests \ {r}, Step(s) PROVE Answered(r)'
    BY <1>0, <1>1, <1>5, StepFacts
<1>6. CASE Crash
    BY <1>0, <1>1, <1>2, <1>6, CrashFacts
<1>7. CASE (\E p \in Phones : Expire(p)) \/ UNCHANGED vars
    BY <1>1, <1>7 DEF Expire, vars
<1> QED
    BY <1>0, <1>2, <1>3, <1>4, <1>5, <1>6, <1>7, StepKinds

LEMMA CodeHomeStep ==
    ASSUME RegInv, [Next]_vars, NEW p \in Phones, CodeHome(p)
    PROVE  CodeHome(p)'
<1>0. TypeOK /\ TypeOK' /\ None \notin Issuers
    BY Kinds, RegStep DEF RegInv
<1>1. SUFFICES ASSUME NEW c \in Issuers, CodeOf(p)' = c
               PROVE  Stored(c)' /\ job'[c].phone = p
    <2>1. CodeOf(p)' \in Issuers \cup {None}
        <3>1. pins'[p] \in Pin \cup {None}
            BY <1>0 DEF TypeOK
        <3> QED
            BY <3>1 DEF CodeOf, Pin
    <2> QED
        BY <2>1 DEF CodeHome, Stored
<1>2. c \in Requests
    BY Kinds
<1>3. CASE CodeOf(p) = c
    <2>1. Stored(c) /\ job[c].phone = p
        BY <1>0, <1>3 DEF CodeHome
    <2> QED
        BY <1>2, <2>1, AllOnward DEF Onward, Stored
<1>4. CASE StoreCode(c) /\ job[c].phone = p
    <2>1. job'[c].pc = "send" /\ job'[c].phone = p
        BY <1>2, <1>4, StoreFacts, StepFacts DEF Step
    <2> QED
        BY <2>1 DEF Stored
<1> QED
    BY <1>0, <1>1, <1>3, <1>4, CodeMoves

(* How one request moves in a step.                                        *)
LEMMA JobMoves ==
    ASSUME RegInv, [Next]_vars, NEW r \in Requests
    PROVE  \/ job'[r] = job[r]
           \/ Starts(r) \/ Step(r)
           \/ /\ job'[r].pc = "done" /\ job'[r].answer = "failed"
              /\ job'[r].phone = job[r].phone /\ job'[r].old = job[r].old
<1>1. TypeOK
    BY DEF RegInv
<1>2. ASSUME NEW s \in Requests, Starts(s) PROVE s = r \/ job'[r] = job[r]
    BY <1>1, <1>2, StartFacts
<1>3. ASSUME NEW s \in Requests, Step(s) PROVE s = r \/ job'[r] = job[r]
    BY <1>3, StepFacts
<1>4. CASE (\E p \in Phones : Expire(p)) \/ UNCHANGED vars
    BY <1>4 DEF Expire, vars
<1> QED
    BY <1>2, <1>3, <1>4, CrashFacts, StepKinds

(* The next call of a request that does not end.                           *)
LEMMA Calls ==
    ASSUME RegInv, NEW r \in Requests, Step(r), job'[r].pc # "done"
    PROVE  /\ job[r].pc = "own" => ReadOld(r)
           /\ job[r].pc = "exists" => CheckExists(r)
           /\ job[r].pc = "create" => CreateUser(r)
           /\ job[r].pc = "password" => SetPassword(r)
           /\ job[r].pc = "otp" => StoreCode(r)
           /\ job[r].pc = "send" => SendCode(r)
           /\ job[r].pc = "unpin" => DeletePin(r)
           /\ job[r].pc = "find" => FindUser(r)
           /\ job[r].pc = "pins" => CheckCode(r)
           /\ job[r].pc = "authenticate" => Authenticate(r)
           /\ job[r].pc \notin {"delete", "device"}
<1>1. TypeOK
    BY DEF RegInv
<1>2. \A a : ~End(r, a)
    BY <1>1, EndFacts
<1>3. ~CallThrows(r) /\ ~StoreDevice(r) /\ ~DeleteUser(r)
    BY <1>2 DEF CallThrows, StoreDevice, DeleteUser, Finish
<1> QED
    BY <1>3 DEF Step, ReadOld, CheckExists, CreateUser, SetPassword, StoreCode, SendCode,
                DeletePin, FindUser, CheckCode, Authenticate

(* A request whose call throws is not answered.                            *)
LEMMA ThrowFacts ==
    ASSUME RegInv, NEW r \in Requests, CallThrows(r)
    PROVE  job'[r].pc = "done" /\ job'[r].answer = "failed"
BY EndFacts DEF CallThrows, RegInv

LEMMA UnreadyStep ==
    ASSUME RegInv, [Next]_vars, NEW p \in Phones, Unready(p)
    PROVE  Unready(p)'
<1>0. RegInv' /\ TypeOK /\ TypeOK' /\ Born
    BY RegStep DEF RegInv
<1>1. SUFFICES ASSUME NEW u \in Issuers, pool'[p] # None, pool'[p].sub = u, ~pool'[p].ready
               PROVE  job'[u].pc = "password" \/ CutOff(u)'
    <2>1. pool'[p] # None => pool'[p].sub \in Issuers
        BY <1>0 DEF TypeOK, User
    <2> QED
        BY <2>1 DEF Unready, HasUser, CutOff
<1>2. u \in Requests
    BY Kinds
<1>3. CASE pool'[p] = pool[p]
    <2>1. HasUser(p) /\ pool[p].sub = u /\ ~pool[p].ready
        BY <1>1, <1>3 DEF HasUser
    <2>2. job[u].phone = p /\ (job[u].pc = "password" \/ CutOff(u))
        BY <1>0, <2>1 DEF Unready, Born
    <2>3. CASE CutOff(u)
        BY <1>2, <2>3, AllOnward DEF CutOff, Onward
    <2>4. CASE job[u].pc = "password" /\ Step(u)
        <3>1. SetPassword(u) \/ CallThrows(u)
            BY <2>4 DEF Step, ReadOld, CheckExists, CreateUser, StoreCode, SendCode, DeletePin,
                        DeleteUser, FindUser, CheckCode, Authenticate, StoreDevice
        <3>2. CASE CallThrows(u)
            BY <1>2, <3>2, ThrowFacts DEF CutOff
        <3>3. CASE SetPassword(u)
            <4>1. ~(job'[u].pc = "otp" /\ pool'[p] = [sub |-> SubOf(p), ready |-> TRUE])
                BY <1>1
            <4>2. job'[u].pc = "done" /\ job'[u].answer = "failed"
                BY <1>2, <2>2, <3>3, <4>1, PasswordFacts
            <4> QED
                BY <4>2 DEF CutOff
        <3> QED
            BY <3>1, <3>2, <3>3
    <2>5. CASE job[u].pc = "password" /\ ~Step(u)
        <3>1. ~Starts(u)
            BY <1>0, <1>2, <2>5, StartFacts
        <3> QED
            BY <1>2, <2>5, <3>1, JobMoves DEF CutOff
    <2> QED
        BY <2>2, <2>3, <2>4, <2>5
<1>4. CASE \E r \in Issuers : job'[r].pc = "password" /\ pool'[p] = [sub |-> r, ready |-> FALSE]
    BY <1>1, <1>4
<1>5. CASE pool'[p] = [sub |-> SubOf(p), ready |-> TRUE] \/ pool'[p] = None
    BY <1>1, <1>5
<1> QED
    BY <1>3, <1>4, <1>5, PoolMoves

LEMMA OwnedLaterStep ==
    ASSUME RegInv, [Next]_vars, \A p \in Phones \ shared : Alone(p),
           NEW c \in Issuers, OwnedLater(c)
    PROVE  OwnedLater(c)'
<1>0. TypeOK /\ Born /\ c \in Requests /\ None \notin Issuers /\ Issuers \subseteq Requests
    BY Kinds DEF RegInv
<1>1. CASE owner'[c] = owner[c]
    <2> SUFFICES ASSUME NEW u \in Issuers, owner[c] = u
                 PROVE  /\ Stored(c)'
                        /\ job'[c].phone \notin shared' => Past(u)' /\ job'[u].pc # "password"
        <3>1. owner[c] \in Issuers \cup {None}
            BY <1>0 DEF TypeOK
        <3> QED
            BY <1>1, <3>1 DEF OwnedLater, Past
    <2>1. Stored(c) /\ Onward(c) /\ Onward(u) /\ shared \subseteq shared'
        BY <1>0, AllOnward DEF OwnedLater
    <2>2. Stored(c)' /\ job'[c].phone = job[c].phone
        BY <2>1 DEF Onward, Stored
    <2>3. job[c].phone \notin shared => Past(u) /\ job[u].pc # "password"
        BY <1>0 DEF OwnedLater
    <2> QED
        BY <2>1, <2>2, <2>3 DEF Onward
<1>2. CASE StoreCode(c)
    <2>1. PICK p \in Phones : p = job[c].phone
        BY <1>0, <1>2, StoreFacts
    <2>2. /\ job[c].pc = "otp" /\ owner'[c] = SubOf(p) /\ job'[c].pc = "send"
          /\ job'[c].phone = p /\ shared' = shared
          /\ \A s \in Requests \ {c} : job'[s] = job[s]
        BY <1>0, <1>2, <2>1, StoreFacts, StepFacts DEF Step
    <2>3. Stored(c)'
        BY <2>2 DEF Stored
    <2>4. ASSUME NEW u \in Issuers, SubOf(p) = u, p \notin shared
          PROVE  Past(u)' /\ job'[u].pc # "password"
        <3>1. Past(u) /\ job[u].phone = p
            BY <1>0, <2>4, SubsKnown DEF Born
        <3>2. CASE u = c
            BY <2>2, <3>2 DEF Past
        <3>3. CASE u # c
            <4>1. job'[u] = job[u]
                BY <1>0, <2>2, <3>3
            <4>2. On(c, p) /\ (job[u].pc = "password" => On(u, p))
                BY <2>1, <2>2, <3>1 DEF On, Active
            <4>3. job[u].pc # "password"
                BY <2>4, <3>3, <4>2 DEF Alone
            <4> QED
                BY <3>1, <4>1, <4>3 DEF Past
        <3> QED
            BY <3>2, <3>3
    <2>5. SubOf(p) \in Issuers \cup {None}
        BY <1>0, SubsKnown
    <2>6. \A u \in Issuers : owner'[c] = u =>
              (job'[c].phone \notin shared' => Past(u)' /\ job'[u].pc # "password")
        BY <2>2, <2>4
    <2> QED
        BY <2>2, <2>3, <2>5, <2>6 DEF OwnedLater, Past
<1> QED
    BY <1>1, <1>2, OwnerMoves

(* Whoever starts without overlapping finds nobody it must not meet.       *)
LEMMA StartsAlone ==
    ASSUME TypeOK, NEW s \in Requests, Starts(s), NEW p \in Phones, p \notin shared',
           p \in {job'[s].phone, job'[s].old}
    PROVE  /\ s \in Issuers => ~Uses(Issuers, p)
           /\ s \in Updates /\ job'[s].old = p => ~Uses(Requests, p)
           /\ s \in Logins => \A r \in Updates : Active(r) => job[r].old # p
           /\ s \in Registrations => job'[s].old # p
<1>0. job \in [Requests -> Job] /\ None \notin Phones
    BY Kinds DEF TypeOK
<1>1. CASE s \in Registrations
    <2>1. PICK q \in Phones : Register(s, q)
        BY <1>1, Kinds DEF Starts
    <2>2. job'[s].phone = q /\ job'[s].old = None
        BY <1>0, <2>1 DEF Register, Idle
    <2>3. p = q /\ {x \in {q} : Uses(Issuers, x)} \subseteq shared'
        BY <1>0, <2>1, <2>2 DEF Register, Overlap
    <2> QED
        BY <1>0, <1>1, <2>2, <2>3, Kinds
<1>2. CASE s \in Updates
    <2>1. PICK u \in Issuers, old \in Phones, new \in Phones : UpdatePhone(s, u, old, new)
        BY <1>2, Kinds DEF Starts
    <2> DEFINE j == [Idle EXCEPT !.pc = "own", !.phone = new, !.old = old, !.user = u]
    <2>2. j.phone = new /\ j.old = old
        BY DEF Idle
    <2>3. job'[s] = j
        BY <1>0, <2>1 DEF UpdatePhone
    <2> HIDE DEF j
    <2>4. {x \in {old} : Uses(Requests, x)} \subseteq shared'
          /\ {x \in {new} : Uses(Issuers, x)} \subseteq shared'
        BY <2>1 DEF UpdatePhone, Overlap
    <2>5. Uses(Issuers, p) => Uses(Requests, p)
        BY Kinds DEF Uses
    <2> QED
        BY <1>2, <2>2, <2>3, <2>4, <2>5, Kinds
<1>3. CASE s \in Logins
    <2>1. PICK q \in Phones, auth \in Issuers, otp \in Issuers : VerifyOtp(s, q, auth, otp)
        BY <1>3, Kinds DEF Starts
    <2> DEFINE j == [Idle EXCEPT !.pc = "find", !.phone = q, !.auth = auth, !.otp = otp]
    <2>2. j.phone = q /\ j.old = None
        BY DEF Idle
    <2>3. job'[s] = j
        BY <1>0, <2>1 DEF VerifyOtp
    <2> HIDE DEF j
    <2>4. {x \in {q} : \E r \in Updates : Active(r) /\ job[r].old = x} \subseteq shared'
        BY <2>1 DEF VerifyOtp, Overlap
    <2>5. p = q
        BY <1>0, <2>2, <2>3
    <2> QED
        BY <1>3, <2>4, <2>5, Kinds
<1> QED
    BY <1>1, <1>2, <1>3, Kinds

LEMMA AloneStep ==
    ASSUME RegInv, [Next]_vars, NEW p \in Phones, p \notin shared', Alone(p)
    PROVE  Alone(p)'
<1>0. TypeOK
    BY DEF RegInv
<1> DEFINE Same(r) == Active(r)' => Active(r) /\ job'[r].phone = job[r].phone
                                              /\ job'[r].old = job[r].old
<1>1. ASSUME \A r \in Requests : Same(r) PROVE Alone(p)'
    <2>1. \A r \in Requests : On(r, p)' => On(r, p)
        BY <1>1 DEF On
    <2> QED
        BY <1>1, <2>1, Kinds DEF Alone
<1>2. \A r \in Requests : job'[r] = job[r] => Same(r)
    BY DEF Active
<1>3. CASE \E s \in Requests : Starts(s)
    <2>1. PICK s \in Requests : Starts(s)
        BY <1>3
    <2>2. \A r \in Requests \ {s} : job'[r] = job[r] /\ Same(r)
        BY <1>0, <1>2, <2>1, StartFacts
    <2>3. CASE p \notin {job'[s].phone, job'[s].old}
        <3>1. \A r \in Issuers : On(r, p)' => On(r, p) /\ r # s
            BY <2>2, <2>3, Kinds DEF On
        <3>2. \A r \in Updates : Active(r)' /\ job'[r].old = p =>
                r # s /\ Active(r) /\ job[r].old = p
            BY <2>2, <2>3, Kinds
        <3>3. \A l \in Logins : Active(l)' /\ job'[l].phone = p =>
                l # s /\ Active(l) /\ job[l].phone = p
            BY <2>2, <2>3, Kinds
        <3> QED
            BY <3>1, <3>2, <3>3 DEF Alone
    <2>4. CASE p \in {job'[s].phone, job'[s].old}
        <3>1. /\ s \in Issuers => ~Uses(Issuers, p)
              /\ s \in Updates /\ job'[s].old = p => ~Uses(Requests, p)
              /\ s \in Logins => \A r \in Updates : Active(r) => job[r].old # p
            BY <1>0, <2>1, <2>4, StartsAlone
        <3>2. ASSUME NEW r \in Issuers, NEW t \in Issuers, On(r, p)', On(t, p)' PROVE r = t
            <4>1. (r # s => On(r, p)) /\ (t # s => On(t, p))
                BY <2>2, <3>2, Kinds DEF On
            <4>2. s \in Issuers => ~On(r, p) /\ ~On(t, p)
                BY <3>1 DEF On, Uses
            <4> QED
                BY <4>1, <4>2 DEF Alone
        <3>3. ASSUME NEW r \in Updates, NEW l \in Logins, Active(r)', job'[r].old = p, Active(l)'
              PROVE  job'[l].phone # p
            <4>1. CASE r = s
                <5>1. l # s /\ l \in Requests
                    BY <4>1, Kinds
                <5> QED
                    BY <2>2, <3>1, <3>3, <4>1, <5>1 DEF Uses
            <4>2. CASE l = s
                <5>1. r # s /\ r \in Requests
                    BY <4>2, Kinds
                <5> QED
                    BY <2>2, <3>1, <3>3, <4>2, <5>1
            <4>3. CASE r # s /\ l # s
                BY <2>2, <3>3, <4>3, Kinds DEF Alone
            <4> QED
                BY <4>1, <4>2, <4>3
        <3> QED
            BY <3>2, <3>3 DEF Alone
    <2> QED
        BY <2>3, <2>4
<1>4. CASE \E s \in Requests : Step(s)
    <2>1. PICK s \in Requests : Step(s)
        BY <1>4
    <2>2. Same(s)
        BY <2>1, StepFacts
    <2> QED
        BY <1>1, <1>2, <2>1, <2>2, StepFacts
<1>5. CASE Crash
    <2>1. \A r \in Requests : Same(r)
        BY <1>2, <1>5, CrashFacts DEF Active
    <2> QED
        BY <1>1, <2>1
<1>6. CASE (\E q \in Phones : Expire(q)) \/ UNCHANGED vars
    <2>1. job' = job
        BY <1>6 DEF Expire, vars
    <2> QED
        BY <1>1, <1>2, <2>1
<1> QED
    BY <1>3, <1>4, <1>5, <1>6, StepKinds

(* While an issuer waits for its call nobody else changes its number.      *)
LEMMA LonelyFrame ==
    ASSUME RegInv, [Next]_vars, NEW p \in Phones, Alone(p),
           NEW r \in Issuers, On(r, p), job'[r] = job[r]
    PROVE  pool'[p] = pool[p] /\ CodeOf(p)' = CodeOf(p) /\ inbox'[p] = inbox[p]
<1>1. ~Step(r)
    <2>1. Step(r) => job'[r].pc = "done" \/ Leads(job[r].pc, job'[r].pc)
        BY Kinds, StepFacts
    <2> QED
        BY <2>1 DEF On, Active, Leads
<1>2. ASSUME NEW s \in Issuers, Step(s) PROVE p \notin {job[s].phone, job[s].old}
    <2>1. Active(s) /\ s # r
        BY <1>1, <1>2, Kinds, StepFacts
    <2> QED
        BY <2>1 DEF Alone, On
<1>3. \A s \in Issuers : job[s].phone = p \/ job[s].old = p =>
          /\ ~CreateUser(s) /\ ~SetPassword(s) /\ ~StoreCode(s) /\ ~SendCode(s)
          /\ ~DeletePin(s) /\ ~DeleteUser(s)
    BY <1>2 DEF Step
<1>4. pool'[p] = pool[p]
    BY <1>3, PoolMoves, Kinds
<1>5. CodeOf(p)' = CodeOf(p)
    BY <1>3, CodeMoves, Kinds
<1>6. inbox'[p] = inbox[p]
    BY <1>3, InboxMoves
<1> QED
    BY <1>4, <1>5, <1>6

(* What the number of a request and the old number of an update are like   *)
(* after its next call.                                                    *)
LEMMA AtNewStep ==
    ASSUME RegInv, [Next]_vars, NEW r \in Issuers, AtNew(r), r \in Updates => AtOld(r),
           \A p \in Phones \ shared : Alone(p)
    PROVE  AtNew(r)'
<1>0. /\ TypeOK /\ TypeOK' /\ r \in Requests /\ Lane(r) /\ Onward(r) /\ shared \subseteq shared'
      /\ None \notin Issuers /\ (r \in Updates => HeldAtOld(r))
    BY Kinds, Known, AllOnward, RegStep DEF RegInv
<1>1. SUFFICES ASSUME NEW p, job'[r].phone = p, p \notin shared'
               PROVE  /\ job'[r].pc = "password" => SubOf(p)' = r
                      /\ job'[r].pc \in {"otp", "send", "unpin", "delete"} =>
                          /\ HasUser(p)'
                          /\ r \in Updates => pool'[p] = [sub |-> r, ready |-> TRUE]
                      /\ job'[r].pc \in {"send", "unpin", "delete"} => CodeOf(p)' = r
    BY DEF AtNew, HasUser, SubOf, CodeOf
<1>2. CASE job'[r].pc \notin {"password", "otp", "send", "unpin", "delete"}
    BY <1>2
<1>3. CASE job'[r] = job[r] /\ job'[r].pc \in {"password", "otp", "send", "unpin", "delete"}
    <2>1. p = job[r].phone /\ Active(r) /\ p \in Phones /\ p \notin shared
        BY <1>0, <1>1, <1>3 DEF Active, Lane
    <2>2. pool'[p] = pool[p] /\ CodeOf(p)' = CodeOf(p)
        BY <1>3, <2>1, LonelyFrame DEF On
    <2>3. HasUser(p)' = HasUser(p) /\ SubOf(p)' = SubOf(p)
        BY <2>2 DEF HasUser, SubOf
    <2> QED
        BY <1>3, <2>1, <2>2, <2>3 DEF AtNew
<1>4. CASE Step(r) /\ job'[r].pc # "done"
    <2>1. /\ Active(r) /\ p = job[r].phone /\ p \in Phones /\ p \notin shared
          /\ Leads(job[r].pc, job'[r].pc)
        BY <1>0, <1>1, <1>4, StepFacts DEF Lane
    <2>2. pool' = pool => HasUser(p)' = HasUser(p) /\ SubOf(p)' = SubOf(p)
        BY DEF HasUser, SubOf
    <2>3. CASE job[r].pc = "exists"
        <3>1. CheckExists(r)
            BY <1>0, <1>4, <2>3, Calls
        <3>2. \A a : ~End(r, a)
            BY <1>0, <1>4, EndFacts
        <3>3. job'[r].pc = "otp" => HasUser(p) /\ r \in Registrations
            <4>1. PICK exists \in BOOLEAN :
                    /\ exists => HasUser(p)
                    /\ IF r \in Registrations
                         THEN Goto(r, IF exists THEN "otp" ELSE "create")
                         ELSE Goto(r, "create")
                BY <2>1, <3>1, <3>2 DEF CheckExists
            <4> QED
                BY <1>0, <4>1, GotoFacts
        <3>4. job'[r].pc \in {"otp", "create"} /\ pool' = pool
            BY <2>1, <2>3, <3>1 DEF Leads, CheckExists
        <3> QED
            BY <2>2, <3>3, <3>4, Kinds
    <2>4. CASE job[r].pc = "create"
        <3>1. CreateUser(r) /\ job'[r].pc = "password"
            BY <1>0, <1>4, <2>1, <2>4, Calls DEF Leads
        <3>2. SubOf(p)' = r
            BY <1>0, <1>1, <2>1, <3>1, CreateFacts
        <3> QED
            BY <3>1, <3>2
    <2>5. CASE job[r].pc = "password"
        <3>1. SetPassword(r) /\ job'[r].pc = "otp"
            BY <1>0, <1>4, <2>1, <2>5, Calls DEF Leads
        <3>2. /\ HasUser(p) /\ SubOf(p) = r /\ (HasUser(p)' <=> HasUser(p))
              /\ pool'[p] = [sub |-> SubOf(p), ready |-> TRUE]
            BY <1>0, <2>1, <2>5, <3>1, PasswordFacts DEF AtNew
        <3> QED
            BY <3>1, <3>2
    <2>6. CASE job[r].pc = "otp"
        <3>1. StoreCode(r) /\ job'[r].pc = "send"
            BY <1>0, <1>4, <2>1, <2>6, Calls DEF Leads
        <3>2. CodeOf(p)' = r /\ pool' = pool
            BY <1>0, <1>1, <2>1, <3>1, StoreFacts
        <3> QED
            BY <2>1, <2>2, <2>6, <3>1, <3>2 DEF AtNew
    <2>7. CASE job[r].pc = "send"
        <3>1. SendCode(r) /\ job'[r].pc = "unpin"
            BY <1>0, <1>4, <2>1, <2>7, Calls DEF Leads
        <3>2. UNCHANGED <<pool, pins>>
            BY <3>1 DEF SendCode
        <3>3. CodeOf(p)' = CodeOf(p)
            BY <3>2 DEF CodeOf
        <3> QED
            BY <2>1, <2>2, <2>7, <3>1, <3>2, <3>3 DEF AtNew
    <2>8. CASE job[r].pc = "unpin"
        <3>1. DeletePin(r) /\ job'[r].pc = "delete" /\ r \in Updates
            BY <1>0, <1>4, <2>1, <2>8, Calls DEF Leads, Lane
        <3>2. pool' = pool /\ \A q \in Phones \ {job[r].old} : CodeOf(q)' = CodeOf(q)
            BY <1>0, <3>1, UnpinFacts
        <3>3. p # job[r].old
            <4>1. pool[p] = [sub |-> r, ready |-> TRUE] /\ HasUser(p)
                BY <2>1, <2>8, <3>1 DEF AtNew
            <4>2. SubOf(p) = r
                BY <4>1 DEF SubOf
            <4>3. p = job[r].old => SubOf(p) # r
                BY <2>1, <2>8, <3>1 DEF AtOld
            <4> QED
                BY <4>2, <4>3
        <3> QED
            BY <2>1, <2>2, <2>8, <3>1, <3>2, <3>3 DEF AtNew
    <2>9. job'[r].pc \notin {"exists", "pins", "authenticate", "device", "create"} =>
              job[r].pc \in {"exists", "create", "password", "otp", "send", "unpin"}
        BY <2>1 DEF Leads
    <2> QED
        BY <1>2, <2>3, <2>4, <2>5, <2>6, <2>7, <2>8, <2>9
<1>5. CASE Starts(r)
    BY <1>0, <1>2, <1>5, StartFacts
<1> QED
    BY <1>0, <1>2, <1>3, <1>4, <1>5, JobMoves

LEMMA AtOldStep ==
    ASSUME RegInv, [Next]_vars, NEW r \in Updates, AtOld(r),
           \A p \in Phones \ shared : Alone(p)
    PROVE  AtOld(r)'
<1>0. /\ TypeOK /\ TypeOK' /\ r \in Requests /\ r \in Issuers /\ Lane(r)
      /\ Onward(r) /\ shared \subseteq shared' /\ Born
      /\ None \notin Issuers /\ HeldAtOld(r)
    BY Kinds, Known, AllOnward, RegStep DEF RegInv
<1> DEFINE After == {"exists", "create", "password", "otp", "send", "unpin", "delete"}
<1>1. SUFFICES ASSUME NEW p, job'[r].old = p, p \notin shared'
               PROVE  /\ job'[r].pc \in After =>
                          SubOf(p)' = job'[r].held /\ job'[r].held # r
                      /\ job'[r].pc = "delete" => CodeOf(p)' = None
    BY DEF AtOld, HasUser, SubOf, CodeOf
<1>2. CASE job'[r].pc \notin After
    BY <1>2
<1>3. CASE job'[r] = job[r] /\ job'[r].pc \in After
    <2>1. p = job[r].old /\ Active(r) /\ p \in Phones /\ p \notin shared
        BY <1>0, <1>1, <1>3 DEF Active, Lane
    <2>2. pool'[p] = pool[p] /\ CodeOf(p)' = CodeOf(p)
        BY <1>0, <1>3, <2>1, LonelyFrame DEF On
    <2>3. SubOf(p)' = SubOf(p)
        BY <2>2 DEF HasUser, SubOf
    <2> QED
        BY <1>3, <2>1, <2>2, <2>3 DEF AtOld
<1>4. CASE Step(r) /\ job'[r].pc # "done"
    <2>1. /\ Active(r) /\ p = job[r].old /\ p \in Phones /\ p \notin shared
          /\ Leads(job[r].pc, job'[r].pc)
        BY <1>0, <1>1, <1>4, StepFacts DEF Lane
    <2>2. pool' = pool => SubOf(p)' = SubOf(p)
        BY DEF HasUser, SubOf
    <2>3. \A a : ~End(r, a)
        BY <1>0, <1>4, EndFacts
    <2>4. ASSUME NEW pc, Goto(r, pc) PROVE job'[r].held = job[r].held
        BY <1>0, <2>4, GotoFacts DEF SameCall
    <2>5. CASE job[r].pc = "own"
        <3>1. ReadOld(r) /\ job'[r].pc = "exists"
            BY <1>0, <1>4, <2>1, <2>5, Calls DEF Leads
        <3>2. HasUser(p) /\ job'[r].held = SubOf(p) /\ pool' = pool
            BY <1>0, <2>1, <3>1, ReadOldFacts DEF ReadOld
        <3>3. SubOf(p) # r
            <4>1. Past(SubOf(p))
                BY <1>0, <2>1, <3>2, SubsKnown DEF Born
            <4> QED
                BY <2>5, <4>1 DEF Past
        <3> QED
            BY <2>2, <3>1, <3>2, <3>3
    <2>6. CASE job[r].pc \in After
        <3>1. SubOf(p) = job[r].held /\ job[r].held # r /\ job[r].held \in Issuers
            BY <1>0, <2>1, <2>6 DEF AtOld, HeldAtOld
        <3>2. HasUser(p)
            BY <1>0, <2>1, <3>1, SubsKnown
        <3>3. CASE job[r].pc = "exists"
            <4>1. CheckExists(r)
                BY <1>0, <1>4, <3>3, Calls
            <4>2. (\E pc : Goto(r, pc)) /\ pool' = pool
                BY <2>3, <4>1 DEF CheckExists
            <4> QED
                BY <2>1, <2>2, <2>4, <3>1, <3>3, <4>2 DEF Leads
        <3>4. CASE job[r].pc = "create"
            <4>1. CreateUser(r) /\ job'[r].pc = "password"
                BY <1>0, <1>4, <2>1, <3>4, Calls DEF Leads
            <4>2. \E pc : Goto(r, pc)
                BY <2>3, <4>1 DEF CreateUser
            <4>3. pool'[p] = pool[p]
                BY <1>0, <2>1, <3>2, <4>1, CreateFacts
            <4>4. SubOf(p)' = SubOf(p)
                BY <4>3 DEF SubOf, HasUser
            <4> QED
                BY <2>4, <3>1, <4>1, <4>2, <4>4
        <3>5. CASE job[r].pc = "password"
            <4>1. SetPassword(r) /\ job'[r].pc = "otp"
                BY <1>0, <1>4, <2>1, <3>5, Calls DEF Leads
            <4>2. \E pc : Goto(r, pc)
                BY <2>3, <4>1 DEF SetPassword
            <4>3. SubOf(p)' = SubOf(p)
                BY <1>0, <2>1, <4>1, PasswordFacts
            <4> QED
                BY <2>4, <3>1, <4>1, <4>2, <4>3
        <3>6. CASE job[r].pc = "otp"
            <4>1. StoreCode(r) /\ job'[r].pc = "send"
                BY <1>0, <1>4, <2>1, <3>6, Calls DEF Leads
            <4>2. (\E pc : Goto(r, pc)) /\ pool' = pool
                BY <4>1 DEF StoreCode
            <4> QED
                BY <2>2, <2>4, <3>1, <4>1, <4>2
        <3>7. CASE job[r].pc = "send"
            <4>1. SendCode(r) /\ job'[r].pc = "unpin"
                BY <1>0, <1>4, <2>1, <3>7, Calls DEF Leads
            <4>2. (\E pc : Goto(r, pc)) /\ pool' = pool
                BY <2>3, <4>1 DEF SendCode
            <4> QED
                BY <2>2, <2>4, <3>1, <4>1, <4>2
        <3>8. CASE job[r].pc = "unpin"
            <4>1. DeletePin(r) /\ job'[r].pc = "delete"
                BY <1>0, <1>4, <2>1, <3>8, Calls DEF Leads
            <4>2. (\E pc : Goto(r, pc)) /\ pool' = pool
                BY <4>1 DEF DeletePin
            <4>3. CodeOf(p)' = None
                BY <1>0, <1>1, <2>1, <4>1, UnpinFacts
            <4> QED
                BY <2>2, <2>4, <3>1, <4>2, <4>3
        <3> QED
            BY <1>0, <1>4, <2>6, <3>3, <3>4, <3>5, <3>6, <3>7, <3>8, Calls
    <2> QED
        BY <1>2, <2>1, <2>5, <2>6 DEF Leads
<1>5. CASE Starts(r)
    <2>1. job'[r].pc = "own"
        <3>1. PICK u \in Issuers, old \in Phones, new \in Phones : UpdatePhone(r, u, old, new)
            BY <1>5, Kinds DEF Starts
        <3> QED
            BY <1>0, <3>1 DEF UpdatePhone, TypeOK, Idle
    <2> QED
        BY <2>1
<1> QED
    BY <1>0, <1>2, <1>3, <1>4, <1>5, JobMoves

LEMMA SharedGrows ==
    ASSUME RegInv, [Next]_vars
    PROVE  shared \subseteq shared'
<1>1. TypeOK
    BY DEF RegInv
<1>2. \A r \in Requests : Starts(r) => shared \subseteq shared'
    BY <1>1, StartFacts
<1>3. \A r \in Requests : Step(r) => shared \subseteq shared'
    BY StepFacts
<1> QED
    BY <1>2, <1>3, StepKinds DEF Crash, Expire, vars

(* The item of a number, and the messages it got, after a step.            *)
LEMMA PinFitsStep ==
    ASSUME RegInv, LoneInv, [Next]_vars, NEW p \in Phones, p \notin shared'
    PROVE  PinFits(p)'
<1>0. /\ TypeOK /\ TypeOK' /\ None \notin Issuers /\ Issuers \subseteq Requests
      /\ Updates \subseteq Issuers /\ p \notin shared
    BY Kinds, SharedGrows, RegStep DEF RegInv
<1>1. SUFFICES ASSUME NEW c \in Issuers, CodeOf(p)' = c
               PROVE  SubOf(p)' # None /\ owner'[c] = SubOf(p)'
    <2>1. CodeOf(p)' \in Issuers \cup {None}
        <3>1. pins'[p] \in Pin \cup {None}
            BY <1>0 DEF TypeOK
        <3> QED
            BY <3>1 DEF CodeOf, Pin
    <2>2. SubOf(p)' # None => HasUser(p)'
        BY DEF SubOf
    <2> QED
        BY <2>1, <2>2 DEF PinFits
<1>2. CASE CodeOf(p) = c
    <2>1. HasUser(p) /\ owner[c] = SubOf(p) /\ Stored(c)
        BY <1>0, <1>2 DEF LoneInv, PinFits, CodeHome
    <2>2. SubOf(p) # None
        BY <1>0, <2>1, SubsKnown
    <2>3. owner'[c] = owner[c]
        BY <2>1, OwnerMoves DEF Stored, StoreCode
    <2>4. CASE pool'[p] = pool[p]
        <3>1. SubOf(p)' = SubOf(p)
            BY <2>4 DEF SubOf, HasUser
        <3> QED
            BY <2>1, <2>2, <2>3, <3>1
    <2>5. CASE SubOf(p)' = SubOf(p)
        BY <2>1, <2>2, <2>3, <2>5
    <2>6. \A r \in Updates : ~(DeleteUser(r) /\ job[r].old = p)
        <3> SUFFICES ASSUME NEW r \in Updates, DeleteUser(r), job[r].old = p
                     PROVE  FALSE
            OBVIOUS
        <3>1. CodeOf(p) = None
            BY <1>0 DEF LoneInv, AtOld, DeleteUser
        <3> QED
            BY <1>0, <1>2, <3>1
    <2> QED
        BY <2>1, <2>4, <2>5, <2>6, PoolMoves
<1>3. CASE StoreCode(c) /\ job[c].phone = p
    <2>1. /\ job[c].pc = "otp" /\ owner'[c] = SubOf(p) /\ pool' = pool
        BY <1>0, <1>3, StoreFacts
    <2>2. HasUser(p)
        BY <1>0, <1>3, <2>1 DEF LoneInv, AtNew
    <2>3. SubOf(p)' = SubOf(p) /\ SubOf(p) # None
        BY <1>0, <2>1, <2>2, SubsKnown DEF SubOf, HasUser
    <2> QED
        BY <2>1, <2>3
<1> QED
    BY <1>0, <1>1, <1>2, <1>3, CodeMoves

LEMMA SentLastStep ==
    ASSUME RegInv, LoneInv, [Next]_vars, NEW p \in Phones, p \notin shared'
    PROVE  SentLast(p)'
<1>0. /\ TypeOK /\ TypeOK' /\ None \notin Issuers /\ Issuers \subseteq Requests
      /\ Registrations \subseteq Issuers /\ Registrations \cap Updates = {} /\ p \notin shared
    BY Kinds, SharedGrows, RegStep DEF RegInv
<1>1. SUFFICES ASSUME NEW c \in Registrations, CodeOf(p)' = c, job'[c].answer = "code"
               PROVE  inbox'[p] # <<>> /\ inbox'[p][Len(inbox'[p])] = c
    BY DEF SentLast
<1>2. c \in Issuers /\ c \in Requests /\ Answered(c)
    BY <1>0 DEF LoneInv
<1>3. CASE CodeOf(p) = c
    <2>1. Stored(c) /\ job[c].phone = p
        BY <1>0, <1>2, <1>3 DEF LoneInv, CodeHome
    <2>2. CASE job[c].answer = "code"
        <3>1. job[c].pc = "done" /\ inbox[p] # <<>> /\ inbox[p][Len(inbox[p])] = c
            BY <1>0, <1>2, <1>3, <2>2 DEF LoneInv, SentLast, Answered
        <3>2. \A s \in Issuers : ~(SendCode(s) /\ job[s].phone = p)
            <4> SUFFICES ASSUME NEW s \in Issuers, SendCode(s), job[s].phone = p
                         PROVE  FALSE
                OBVIOUS
            <4>1. job[s].pc = "send"
                BY DEF SendCode
            <4>2. CodeOf(p) = s
                BY <1>0, <4>1 DEF LoneInv, AtNew
            <4> QED
                BY <1>3, <3>1, <4>1, <4>2
        <3> QED
            BY <3>1, <3>2, InboxMoves
    <2>3. CASE job[c].answer # "code"
        <3>1. Step(c)
            <4>1. ~Starts(c)
                BY <1>0, <1>2, <2>1, StartFacts DEF Stored
            <4> QED
                BY <1>1, <1>2, <2>3, <4>1, JobMoves
        <3>2. job[c].pc = "send"
            <4>1. Lane(c) /\ job[c] \in Job /\ Active(c)
                BY <1>2, <3>1, Known, StepFacts
            <4>2. c \notin Updates /\ c \notin Logins
                BY <1>0, <1>2, Kinds
            <4> QED
                BY <2>1, <4>1, <4>2 DEF Job, Stored, Lane, Active
        <3>3. SendCode(c) \/ CallThrows(c)
            BY <3>1, <3>2
                DEF Step, ReadOld, CheckExists, CreateUser, SetPassword, StoreCode, DeletePin,
                    DeleteUser, FindUser, CheckCode, Authenticate, StoreDevice
        <3>4. SendCode(c)
            BY <1>1, <1>2, <3>3, ThrowFacts
        <3> QED
            BY <1>0, <1>1, <1>2, <2>1, <3>4, SendFacts
    <2> QED
        BY <2>2, <2>3
<1>4. ~StoreCode(c)
    <2> SUFFICES ASSUME StoreCode(c) PROVE FALSE
        OBVIOUS
    <2>1. job'[c].pc = "send"
        BY <1>2, StoreFacts
    <2>2. Answered(c)'
        BY <1>2, AnsweredStep
    <2> QED
        BY <1>1, <2>1, <2>2 DEF Answered
<1> QED
    BY <1>0, <1>1, <1>2, <1>3, <1>4, CodeMoves

(* The calls of a login.                                                   *)
LEMMA LoginCalls ==
    ASSUME RegInv, NEW l \in Logins, Step(l)
    PROVE  \/ FindUser(l) \/ CheckCode(l) \/ Authenticate(l) \/ StoreDevice(l)
           \/ CallThrows(l)
<1>1. l \in Requests /\ l \notin Issuers /\ l \notin Updates
    BY Kinds
<1>2. Lane(l)
    BY <1>1, Known
<1> QED
    BY <1>1, <1>2 DEF Lane, Step, ReadOld, CheckExists, CreateUser, SetPassword, StoreCode,
                      SendCode, DeletePin, DeleteUser

LEMMA LoginFitsStep ==
    ASSUME RegInv, LoneInv, [Next]_vars, NEW l \in Logins
    PROVE  LoginFits(l)'
<1> DEFINE Told == {"tokens", "empty"}
<1>0. /\ TypeOK /\ TypeOK' /\ None \notin Issuers /\ Issuers \subseteq Requests
      /\ Updates \subseteq Issuers /\ Issuers \cap Logins = {} /\ l \in Requests
      /\ Onward(l) /\ shared \subseteq shared' /\ Lane(l) /\ job[l] \in Job /\ Born
    BY Kinds, Known, AllOnward, RegStep DEF RegInv
<1>1. SUFFICES
        ASSUME NEW p, NEW u, NEW a, job'[l].phone = p, job'[l].user = u, job'[l].auth = a,
               p \notin shared'
        PROVE  /\ job'[l].pc \in {"pins", "authenticate", "device"} => u = SubOf(p)'
               /\ job'[l].pc \in {"authenticate", "device"} \/ job'[l].answer \in Told =>
                   /\ a \in Issuers /\ u \in Issuers
                   /\ Stored(a)' /\ job'[a].phone = p /\ owner'[a] = u
               /\ job'[l].pc = "device" \/ job'[l].answer \in Told =>
                   \/ job'[l].sub = u /\ job'[l].answer # "empty"
                   \/ job'[l].sub = None /\ job'[l].answer # "tokens" /\ CutOff(u)'
    BY DEF LoginFits, HasUser, SubOf, CutOff, Stored
<1>2. p \notin shared /\ LoginFits(l) /\ Answered(l) /\ Answered(l)'
    BY <1>0, <1>1, AnsweredStep DEF LoneInv
(* What the login knows stays true.                                        *)
<1>3. ASSUME Active(l), job[l].phone = p, u \in Issuers, u = SubOf(p)
      PROVE  u = SubOf(p)'
    <2>1. p \in Phones /\ HasUser(p)
        BY <1>0, <1>3, SubsKnown DEF Lane
    <2>2. CASE pool'[p] = pool[p]
        BY <1>3, <2>2 DEF SubOf, HasUser
    <2>3. \A r \in Updates : ~(DeleteUser(r) /\ job[r].old = p)
        BY <1>2, <1>3, <2>1 DEF LoneInv, Alone, DeleteUser, Active
    <2> QED
        BY <1>3, <2>1, <2>2, <2>3, PoolMoves
<1>4. ASSUME a \in Issuers, Stored(a), job[a].phone = p, owner[a] = u
      PROVE  Stored(a)' /\ job'[a].phone = p /\ owner'[a] = u
    <2>1. Onward(a)
        BY <1>0, <1>4, AllOnward
    <2>2. owner'[a] = owner[a]
        BY <1>4, OwnerMoves DEF StoreCode, Stored
    <2> QED
        BY <1>4, <2>1, <2>2 DEF Onward, Stored
<1>5. ASSUME u \in Issuers, CutOff(u) PROVE CutOff(u)'
    BY <1>0, <1>5, AllOnward DEF Onward, CutOff
<1>6. CASE job'[l] = job[l]
    <2>1. /\ job[l].phone = p /\ job[l].user = u /\ job[l].auth = a
          /\ job[l].pc = job'[l].pc /\ job[l].answer = job'[l].answer
          /\ job[l].sub = job'[l].sub
        BY <1>1, <1>6
    <2>2. job'[l].pc \in {"pins", "authenticate", "device"} => u = SubOf(p)'
        <3>1. job[l].pc \in {"pins", "authenticate", "device"} =>
                  Active(l) /\ u \in Issuers /\ u = SubOf(p)
            BY <1>0, <1>2, <2>1 DEF LoginFits, Lane, Active
        <3> QED
            BY <1>3, <2>1, <3>1
    <2>3. job'[l].pc \in {"authenticate", "device"} \/ job'[l].answer \in Told =>
                /\ a \in Issuers /\ u \in Issuers
                /\ Stored(a) /\ job[a].phone = p /\ owner[a] = u
        BY <1>2, <2>1 DEF LoginFits
    <2>4. job'[l].pc = "device" \/ job'[l].answer \in Told =>
                \/ job'[l].sub = u /\ job'[l].answer # "empty"
                \/ job'[l].sub = None /\ job'[l].answer # "tokens" /\ CutOff(u)
        BY <1>2, <2>1 DEF LoginFits
    <2> QED
        BY <1>4, <1>5, <2>2, <2>3, <2>4
<1>7. CASE job'[l].pc \in {"idle", "find", "done"} /\ job'[l].answer \notin Told
    BY <1>7
<1>8. CASE Starts(l)
    <2>1. job'[l].pc = "find"
        <3>1. PICK q \in Phones, auth \in Issuers, otp \in Issuers : VerifyOtp(l, q, auth, otp)
            BY <1>0, <1>8, Kinds DEF Starts
        <3> QED
            BY <1>0, <3>1 DEF VerifyOtp, TypeOK, Idle
    <2> QED
        BY <1>0, <1>7, <1>8, <2>1, StartFacts
<1>9. CASE Step(l)
    <2>1. Active(l) /\ job[l].phone = p /\ job[l].answer = "none" /\ p \in Phones
        BY <1>0, <1>1, <1>2, <1>9, StepFacts DEF Answered, Lane, Active
    <2>2. CASE FindUser(l)
        <3>1. CASE job'[l].pc = "done"
            <4>1. End(l, "failed")
                <5>1. job' # [job EXCEPT ![l].pc = "pins", ![l].user = SubOf(job[l].phone)]
                    BY <1>0, <3>1 DEF TypeOK, Job
                <5> QED
                    BY <2>2, <5>1 DEF FindUser
            <4> QED
                BY <1>0, <1>7, <3>1, <4>1, EndFacts
        <3>2. CASE job'[l].pc # "done"
            <4>1. job'[l].pc = "pins" /\ job'[l].answer = "none" /\ u = SubOf(p)
                BY <1>0, <1>1, <2>1, <2>2, <3>2, FindUserFacts
            <4>2. SubOf(p)' = SubOf(p)
                BY <2>2 DEF FindUser, SubOf, HasUser
            <4> QED
                BY <4>1, <4>2
        <3> QED
            BY <3>1, <3>2
    <2>3. CASE CheckCode(l)
        <3>1. CASE End(l, "failed")
            BY <1>0, <1>7, <3>1, EndFacts
        <3>2. CASE Goto(l, "authenticate") /\ Accepts(p, pins[p], job[l].auth, job[l].otp)
            <4>1. /\ job'[l].pc = "authenticate" /\ job'[l].answer = "none"
                  /\ u = job[l].user /\ a = job[l].auth
                BY <1>0, <1>1, <2>1, <3>2, GotoFacts DEF SameCall
            <4>2. CodeOf(p) = a /\ a \in Issuers
                <5>1. CodeOf(p) = a /\ pins[p] # None
                    BY <3>2, <4>1 DEF Accepts, CodeOf
                <5> QED
                    BY <1>0, <2>1, <5>1, CodesKnown
            <4>3. Stored(a) /\ job[a].phone = p /\ owner[a] = SubOf(p)
                BY <1>0, <1>2, <2>1, <4>2 DEF LoneInv, CodeHome, PinFits
            <4>4. u \in Issuers /\ u = SubOf(p)
                BY <1>0, <1>2, <2>1, <2>3, <4>1 DEF CheckCode, LoginFits, Lane
            <4> QED
                BY <1>3, <1>4, <2>1, <4>1, <4>2, <4>3, <4>4
        <3> QED
            BY <2>1, <2>3, <3>1, <3>2 DEF CheckCode
    <2>4. CASE Authenticate(l)
        <3>1. CASE End(l, "failed")
            BY <1>0, <1>7, <3>1, EndFacts
        <3>2. CASE HasUser(p) /\ Tokens(l, IF pool[p].ready THEN pool[p].sub ELSE None)
            <4>1. PICK sub : sub = (IF pool[p].ready THEN pool[p].sub ELSE None) /\ Tokens(l, sub)
                BY <3>2
            <4>2. /\ job'[l].pc \in {"device", "done"} /\ job'[l].sub = sub
                  /\ job'[l].pc = "device" => job'[l].answer = "none"
                  /\ job'[l].pc = "done" =>
                        job'[l].answer = IF sub = None THEN "empty" ELSE "tokens"
                  /\ u = job[l].user /\ a = job[l].auth
                BY <1>0, <1>1, <4>1, TokensFacts
            <4>3. /\ a \in Issuers /\ u \in Issuers /\ u = SubOf(p)
                  /\ Stored(a) /\ job[a].phone = p /\ owner[a] = u
                BY <1>0, <1>2, <2>1, <2>4, <4>2 DEF Authenticate, LoginFits, Lane
            <4>4. pool[p].sub = u
                BY <1>0, <2>1, <3>2, <4>3, SubsKnown
            <4>5. pool[p].ready \/ CutOff(u)
                <5>1. pool[p].ready \/ job[u].pc = "password" \/ CutOff(u)
                    BY <2>1, <3>2, <4>4 DEF LoneInv, Unready
                <5>2. job[u].pc # "password"
                    BY <1>0, <1>2, <4>3 DEF LoneInv, OwnedLater
                <5> QED
                    BY <5>1, <5>2
            <4>6. \/ sub = u /\ sub # None
                  \/ sub = None /\ CutOff(u)
                BY <1>0, <4>1, <4>3, <4>4, <4>5
            <4>7. u = SubOf(p)' /\ Stored(a)' /\ job'[a].phone = p /\ owner'[a] = u
                BY <1>3, <1>4, <2>1, <4>3
            <4>8. \/ job'[l].sub = u /\ job'[l].answer # "empty"
                  \/ job'[l].sub = None /\ job'[l].answer # "tokens" /\ CutOff(u)'
                BY <1>5, <4>2, <4>3, <4>6
            <4> QED
                BY <4>3, <4>7, <4>8
        <3> QED
            BY <2>1, <2>4, <3>1, <3>2 DEF Authenticate, HasUser
    <2>5. CASE StoreDevice(l)
        <3>1. CASE End(l, "failed")
            BY <1>0, <1>7, <3>1, EndFacts
        <3>2. CASE End(l, IF job[l].sub = None THEN "empty" ELSE "tokens")
            <4>1. /\ job'[l].pc = "done" /\ job'[l].sub = job[l].sub
                  /\ job'[l].answer = IF job[l].sub = None THEN "empty" ELSE "tokens"
                  /\ u = job[l].user /\ a = job[l].auth
                BY <1>0, <1>1, <3>2, EndFacts DEF SameCall
            <4>2. /\ a \in Issuers /\ u \in Issuers
                  /\ Stored(a) /\ job[a].phone = p /\ owner[a] = u
                  /\ job[l].sub = u \/ (job[l].sub = None /\ CutOff(u))
                BY <1>2, <2>1, <2>5, <4>1 DEF StoreDevice, LoginFits
            <4>3. Stored(a)' /\ job'[a].phone = p /\ owner'[a] = u
                BY <1>4, <4>2
            <4>4. \/ job'[l].sub = u /\ job'[l].answer # "empty"
                  \/ job'[l].sub = None /\ job'[l].answer # "tokens" /\ CutOff(u)'
                BY <1>0, <1>5, <4>1, <4>2
            <4> QED
                BY <4>1, <4>2, <4>3, <4>4
        <3> QED
            BY <2>5, <3>1, <3>2 DEF StoreDevice, Finish
    <2>6. CASE CallThrows(l)
        BY <1>0, <1>7, <2>6, ThrowFacts
    <2> QED
        BY <1>9, <2>2, <2>3, <2>4, <2>5, <2>6, LoginCalls
<1> QED
    BY <1>0, <1>6, <1>7, <1>8, <1>9, JobMoves

-----------------------------------------------------------------------------
LEMMA LoneStart == Init => LoneInv
<1> SUFFICES ASSUME Init PROVE LoneInv
    OBVIOUS
<1>1. /\ \A r \in Requests : job[r].pc = "idle" /\ job[r].answer = "none"
      /\ \A p \in Phones : ~HasUser(p) /\ CodeOf(p) = None
      /\ \A c \in Issuers : owner[c] = None
      /\ None \notin Issuers /\ Registrations \subseteq Issuers
      /\ Issuers \subseteq Requests /\ Updates \subseteq Issuers /\ Logins \subseteq Requests
    BY Kinds DEF Init, Idle, HasUser, CodeOf
<1>2. \A p \in Phones : CodeHome(p) /\ Unready(p) /\ Alone(p) /\ PinFits(p) /\ SentLast(p)
    BY <1>1 DEF CodeHome, Unready, Alone, PinFits, SentLast, On, Active
<1>3. \A r \in Requests : Answered(r)
    BY <1>1 DEF Answered
<1>4. \A r \in Issuers : OwnedLater(r) /\ AtNew(r)
    BY <1>1 DEF OwnedLater, AtNew
<1>5. \A r \in Updates : AtOld(r)
    BY <1>1 DEF AtOld
<1>6. \A l \in Logins : LoginFits(l)
    BY <1>1 DEF LoginFits
<1> QED
    BY <1>2, <1>3, <1>4, <1>5, <1>6 DEF LoneInv

LEMMA LoneStep == RegInv /\ LoneInv /\ [Next]_vars => LoneInv'
<1> SUFFICES ASSUME RegInv, LoneInv, [Next]_vars PROVE LoneInv'
    OBVIOUS
<1>1. ASSUME NEW p \in Phones PROVE CodeHome(p)' /\ Unready(p)'
    BY CodeHomeStep, UnreadyStep DEF LoneInv
<1>2. ASSUME NEW r \in Requests PROVE Answered(r)'
    BY AnsweredStep DEF LoneInv
<1>3. ASSUME NEW r \in Issuers PROVE OwnedLater(r)' /\ AtNew(r)'
    BY OwnedLaterStep, AtNewStep DEF LoneInv
<1>4. ASSUME NEW r \in Updates PROVE AtOld(r)'
    BY AtOldStep DEF LoneInv
<1>5. ASSUME NEW p \in Phones \ shared' PROVE Alone(p)' /\ PinFits(p)' /\ SentLast(p)'
    <2>1. p \in Phones \ shared
        BY SharedGrows
    <2> QED
        BY <2>1, AloneStep, PinFitsStep, SentLastStep DEF LoneInv
<1>6. ASSUME NEW l \in Logins PROVE LoginFits(l)'
    BY LoginFitsStep
<1> QED
    BY <1>1, <1>2, <1>3, <1>4, <1>5, <1>6 DEF LoneInv

LEMMA LoneHeld == Spec => [](RegInv /\ LoneInv)
BY RegStart, LoneStart, RegStep, LoneStep, PTL DEF Spec

(* A login that gets tokens gets those of the user its code was stored     *)
(* for: the item of a number is its present user's as long as there is     *)
(* one, and the user stays while a login works on the number.              *)
THEOREM LoginsOwn == Spec => []LoginIsOwn
<1>1. RegInv /\ LoneInv => LoginIsOwn
    BY DEF LoneInv, LoginFits, LoginIsOwn
<1> QED
    BY <1>1, LoneHeld, PTL

(* The code that the table holds after a registration answered is the last *)
(* the number was sent.                                                    *)
THEOREM StoredSent == Spec => []StoredIsSent
<1>1. RegInv /\ LoneInv => StoredIsSent
    <2> SUFFICES ASSUME LoneInv, NEW p \in Phones \ shared, pins[p] # None,
                        pins[p].code \in Registrations, job[pins[p].code].answer = "code"
                 PROVE  inbox[p] # <<>> /\ inbox[p][Len(inbox[p])] = pins[p].code
        BY DEF StoredIsSent
    <2>1. CodeOf(p) = pins[p].code /\ SentLast(p)
        BY DEF CodeOf, LoneInv
    <2> QED
        BY <2>1 DEF SentLast
<1> QED
    BY <1>1, LoneHeld, PTL

(* Null tokens only where the request that created the user was cut off:   *)
(* whoever stores a code finds the user complete, or its request ended.    *)
THEOREM EmptyInterrupted == Spec => []EmptyOnlyInterrupted
<1>1. RegInv /\ LoneInv => EmptyOnlyInterrupted
    BY DEF LoneInv, LoginFits, CutOff, EmptyOnlyInterrupted
<1> QED
    BY <1>1, LoneHeld, PTL

(* A user is removed only by its own request, whose new number then has a  *)
(* complete user and its code.                                             *)
THEOREM LockedOutNever == Spec => NeverLockedOut
<1> DEFINE Safe(p) ==
        HasUser(p) /\ pool'[p] = None =>
            \E r \in Updates :
                /\ job[r].pc = "delete" /\ job[r].old = p /\ job[r].user = SubOf(p)
                /\ job[r].phone \notin shared =>
                     /\ pool[job[r].phone] = [sub |-> r, ready |-> TRUE]
                     /\ pins[job[r].phone] # None /\ pins[job[r].phone].code = r
<1>1. ASSUME RegInv, LoneInv, [Next]_vars, NEW p \in Phones \ shared PROVE Safe(p)
    <2> SUFFICES ASSUME HasUser(p), pool'[p] = None
                 PROVE  \E r \in Updates :
                            /\ job[r].pc = "delete" /\ job[r].old = p /\ job[r].user = SubOf(p)
                            /\ job[r].phone \notin shared =>
                                 /\ pool[job[r].phone] = [sub |-> r, ready |-> TRUE]
                                 /\ pins[job[r].phone] # None /\ pins[job[r].phone].code = r
        OBVIOUS
    <2>1. TypeOK /\ None \notin Issuers /\ Updates \subseteq Issuers
        BY <1>1, Kinds DEF RegInv
    <2>2. SubOf(p) \in Issuers
        BY <2>1, SubsKnown
    <2>3. PICK r \in Updates : DeleteUser(r) /\ job[r].old = p
        <3>1. pool'[p] # pool[p]
            BY DEF HasUser
        <3>2. \A r \in Issuers : pool'[p] # [sub |-> r, ready |-> FALSE]
            BY RecordsReal
        <3>3. pool'[p] # [sub |-> SubOf(p), ready |-> TRUE]
            BY <2>2, RecordsReal
        <3> QED
            BY <1>1, <3>1, <3>2, <3>3, PoolMoves
    <2>4. job[r].pc = "delete"
        BY <2>3 DEF DeleteUser
    <2>5. job[r].user = job[r].held /\ job[r].held = SubOf(p)
        BY <1>1, <2>3, <2>4 DEF RegInv, HeldAtOld, LoneInv, AtOld
    <2>6. ASSUME job[r].phone \notin shared
          PROVE  /\ pool[job[r].phone] = [sub |-> r, ready |-> TRUE]
                 /\ pins[job[r].phone] # None /\ pins[job[r].phone].code = r
        <3>1. pool[job[r].phone] = [sub |-> r, ready |-> TRUE] /\ CodeOf(job[r].phone) = r
            BY <1>1, <2>1, <2>4, <2>6 DEF LoneInv, AtNew
        <3>2. pins[job[r].phone] # None
            BY <2>1, <3>1 DEF CodeOf
        <3> QED
            BY <3>1, <3>2 DEF CodeOf
    <2> QED
        BY <2>3, <2>4, <2>5, <2>6
<1>2. RegInv /\ LoneInv /\ [Next]_vars => [\A p \in Phones \ shared : Safe(p)]_vars
    BY <1>1
<1>3. [][\A p \in Phones \ shared : Safe(p)]_vars <=> NeverLockedOut
    BY DEF NeverLockedOut
<1> QED
    BY <1>2, <1>3, LoneHeld, PTL DEF Spec
=============================================================================
