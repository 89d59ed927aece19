-------------------------- MODULE LinkSocialsProofs ---------------------------
(***************************************************************************)
(* The safety of LinkSocials for every number of users, accounts, codes    *)
(* and requests, and every fault model.  The arguments are two: a code is  *)
(* redeemed once, so it has at most one holder, a callback or a link       *)
(* (LinkInv); and the callbacks of a user that never overlapped are one    *)
(* after another, so what the check saw is still so at the write (OneInv). *)
(***************************************************************************)
EXTENDS LinkSocials, TLAPS

(* A callback that has redeemed its code and not written its link yet.     *)
Holds(r) == job[r].pc \in {"profile", "write"}

(* A callback between its check and its write.                             *)
Checked(r) == job[r].pc \in {"config", "exchange", "profile", "write"}

(* A request at work has a provider and a user, a callback at work has a   *)
(* code, and a request with a code is a callback with a consent behind it. *)
CodesKnown ==
    \A r \in Requests :
        /\ Active(r) => job[r].provider \in Providers /\ job[r].user \in Users
        /\ job[r].pc = "check" \/ Checked(r) => job[r].code # None
        /\ job[r].code # None =>
             /\ r \in Callbacks
             /\ grant[job[r].code] # None

(* What a callback holds was redeemed, by it alone, from the provider of   *)
(* the callback and with its challenge, and names the account of the       *)
(* consent.                                                                *)
HeldOnce ==
    \A r \in Requests : Holds(r) =>
        /\ grant[job[r].code].used /\ Fits(r)
        /\ job[r].pc = "write" => job[r].account = grant[job[r].code].account
        /\ \A s \in Requests : Holds(s) /\ job[s].code = job[r].code => s = r

(* A link was written by a callback that ended, whose code nobody holds.   *)
WrittenOnce ==
    \A p \in Providers : \A i \in links[p] :
        /\ job[i.id].pc = "done" /\ job[i.id].code # None
        /\ \A r \in Requests : Holds(r) => job[r].code # job[i.id].code

LinkInv == TypeOK /\ CodesKnown /\ HeldOnce /\ WrittenOnce /\ LinkTruthful

(* A user whose callbacks never met: one at work at most, and none past    *)
(* its check while the user has a link.                                    *)
InTurn ==
    \A p \in Providers, u \in Users : <<p, u>> \notin raced =>
        \A c \in Callbacks :
            Active(c) /\ job[c].provider = p /\ job[c].user = u =>
                /\ \A d \in Callbacks :
                     Active(d) /\ job[d].provider = p /\ job[d].user = u => d = c
                /\ Checked(c) => LinksOf(p, u) = {}

OneInv == LinkInv /\ InTurn /\ OneAccount

-----------------------------------------------------------------------------
(* What a step may do to a request without touching LinkInv.               *)
Harmless(r) ==
    /\ job[r].pc # "done"
    /\ Active(r)' => job'[r].provider \in Providers /\ job'[r].user \in Users
    /\ job'[r].pc = "check" \/ Checked(r)' => job'[r].code # None
    /\ job'[r].code # None => r \in Callbacks /\ grant[job'[r].code] # None
    /\ Holds(r)' =>
         /\ Holds(r) /\ job'[r].code = job[r].code
         /\ job'[r].provider = job[r].provider /\ job'[r].user = job[r].user
         /\ job'[r].pc = "write" => job'[r].account = grant[job[r].code].account

(* A request that moves on with its provider, user and code unchanged, and *)
(* redeems nothing, is harmless.                                           *)
LEMMA MovesOn ==
    ASSUME LinkInv, NEW r \in Requests, job[r].pc # "done",
           job'[r].provider = job[r].provider, job'[r].user = job[r].user,
           job'[r].code = job[r].code, Active(r)' => Active(r),
           job'[r].pc = "check" \/ Checked(r)' => job[r].pc = "check" \/ Checked(r),
           Holds(r)' => Holds(r) /\ job'[r].pc = "write"
                          /\ job'[r].account = grant[job[r].code].account
    PROVE  Harmless(r)
BY DEF LinkInv, CodesKnown, Harmless

(* A step that writes no link, changes no consent and treats every request *)
(* harmlessly keeps LinkInv.                                               *)
LEMMA HarmlessKeeps ==
    ASSUME LinkInv, TypeOK', links' = links,
           \A k \in Codes : grant[k] # None => grant'[k] = grant[k],
           \A r \in Requests : job'[r] = job[r] \/ Harmless(r)
    PROVE  LinkInv'
<1>1. \A r \in Requests : job[r] \in Job /\ job'[r] \in Job
    BY DEF LinkInv, TypeOK
<1>2. \A r \in Requests : job[r].code # None => job[r].code \in Codes
                          /\ grant[job[r].code] # None
    BY <1>1 DEF LinkInv, CodesKnown, Job
<1>3. \A r \in Requests : Holds(r)' =>
        /\ Holds(r) /\ job'[r].code = job[r].code /\ job[r].code # None
        /\ job'[r].provider = job[r].provider /\ job'[r].user = job[r].user
        /\ job'[r].pc = "write" => job'[r].account = grant[job[r].code].account
    <2>1. SUFFICES ASSUME NEW r \in Requests, Holds(r)'
                   PROVE  /\ Holds(r) /\ job'[r].code = job[r].code
                          /\ job[r].code # None
                          /\ job'[r].provider = job[r].provider
                          /\ job'[r].user = job[r].user
                          /\ job'[r].pc = "write" =>
                               job'[r].account = grant[job[r].code].account
        OBVIOUS
    <2>2. Holds(r) /\ job'[r].code = job[r].code
          /\ job'[r].provider = job[r].provider /\ job'[r].user = job[r].user
          /\ (job'[r].pc = "write" => job'[r].account = grant[job[r].code].account)
        BY <2>1 DEF Harmless, LinkInv, HeldOnce, Holds
    <2> QED
        BY <2>2 DEF LinkInv, CodesKnown, Holds, Checked
<1>4. CodesKnown'
    <2> SUFFICES ASSUME NEW r \in Requests
                 PROVE  /\ Active(r)' =>
                             job'[r].provider \in Providers /\ job'[r].user \in Users
                        /\ job'[r].pc = "check" \/ Checked(r)' => job'[r].code # None
                        /\ job'[r].code # None =>
                             r \in Callbacks /\ grant'[job'[r].code] # None
        BY DEF CodesKnown
    <2>1. CASE Harmless(r)
        <3>1. job'[r].code # None => grant'[job'[r].code] = grant[job'[r].code]
            BY <1>1, <2>1 DEF Harmless, Job
        <3> QED
            BY <2>1, <3>1 DEF Harmless
    <2>2. CASE job'[r] = job[r]
        <3>1. job[r].code # None => grant'[job[r].code] = grant[job[r].code]
            BY <1>2
        <3> QED
            BY <2>2, <3>1 DEF LinkInv, CodesKnown, Active, Checked
    <2> QED
        BY <2>1, <2>2
<1>5. HeldOnce'
    <2> SUFFICES ASSUME NEW r \in Requests, Holds(r)'
                 PROVE  /\ grant'[job'[r].code].used /\ Fits(r)'
                        /\ job'[r].pc = "write" =>
                             job'[r].account = grant'[job'[r].code].account
                        /\ \A s \in Requests :
                             Holds(s)' /\ job'[s].code = job'[r].code => s = r
        BY DEF HeldOnce
    <2>1. grant'[job'[r].code] = grant[job[r].code]
        BY <1>2, <1>3
    <2> QED
        BY <1>3, <2>1 DEF LinkInv, HeldOnce, Fits
<1>6. \A p \in Providers : \A i \in links[p] : i.id \in Requests /\ job'[i.id] = job[i.id]
    BY DEF LinkInv, TypeOK, WrittenOnce, Harmless, Link, Requests
<1>7. WrittenOnce'
    BY <1>3, <1>6 DEF LinkInv, WrittenOnce
<1>8. LinkTruthful'
    <2>1. \A p \in Providers : \A i \in links[p] :
            grant'[job'[i.id].code] = grant[job[i.id].code]
        BY <1>2, <1>6 DEF LinkInv, WrittenOnce
    <2> QED
        BY <1>6, <2>1 DEF LinkInv, LinkTruthful
<1> QED
    BY <1>4, <1>5, <1>7, <1>8 DEF LinkInv

-----------------------------------------------------------------------------
(* What a request about to write knows.                                    *)
LEMMA WriterKnown ==
    ASSUME LinkInv, NEW r \in Requests, job[r].pc \in {"profile", "write"}
    PROVE  /\ r \in Callbacks
           /\ job[r].code \in Codes
           /\ grant[job[r].code] \in Grant
           /\ grant[job[r].code].used
           /\ job[r].provider \in Providers /\ job[r].user \in Users
           /\ grant[job[r].code].provider = job[r].provider
           /\ job[r].provider \in Challenged => grant[job[r].code].user = job[r].user
           /\ job[r].pc = "write" =>
                /\ job[r].account \in Accounts
                /\ job[r].account = grant[job[r].code].account
<1>1. job[r] \in Job /\ job[r].code # None /\ Holds(r)
    BY DEF LinkInv, TypeOK, CodesKnown, Checked, Holds
<1>2. job[r].code \in Codes
    BY <1>1 DEF Job
<1>3. grant[job[r].code] \in Grant
    BY <1>1, <1>2 DEF LinkInv, TypeOK, CodesKnown
<1>4. job[r].provider \in Providers /\ job[r].user \in Users /\ r \in Callbacks
    BY <1>1 DEF LinkInv, CodesKnown, Active
<1> QED
    BY <1>1, <1>2, <1>3, <1>4 DEF LinkInv, HeldOnce, Fits, Grant

(* The link a callback writes.                                             *)
Written(r) == [id |-> r, user |-> job[r].user, account |-> job[r].account]

(* Both ways of writing: the answer arrives or is lost.                    *)
Writes(r) ==
    /\ job[r].pc = "write"
    /\ links' = [links EXCEPT ![job[r].provider] = @ \cup {Written(r)}]
    /\ \E a \in {"success", "error"} : End(r, a)
    /\ UNCHANGED <<config, grant, raced>>
    /\ mishaps' \in 0..MaxMishaps

LEMMA WritesShape ==
    ASSUME LinkInv, NEW r \in Requests, WriteLink(r) \/ WriteUnanswered(r)
    PROVE  Writes(r)
BY LinkSocialsAssumption
DEF WriteLink, WriteUnanswered, Writes, Written, Mishap, LinkInv, TypeOK,
    LinkSocialsAssumption

LEMMA TypeKept == LinkInv /\ [Next]_vars => TypeOK'
<1> SUFFICES ASSUME LinkInv, [Next]_vars PROVE TypeOK'
    OBVIOUS
<1>0. MaxConfigs \in Nat /\ MaxMishaps \in Nat
    BY LinkSocialsAssumption DEF LinkSocialsAssumption
<1>1. TypeOK
    BY DEF LinkInv
<1>2. \A r \in Requests :
        /\ \A a \in {"success", "error", "deleted", "failed"} :
             End(r, a) => job' \in [Requests -> Job]
        /\ \A pc \in {"config", "exchange", "profile"} :
             Goto(r, pc) => job' \in [Requests -> Job]
    <2> TAKE r \in Requests
    <2>1. job[r] \in Job
        BY <1>1 DEF TypeOK
    <2>2. ASSUME NEW a \in {"success", "error", "deleted", "failed"}
          PROVE  [job[r] EXCEPT !.pc = "done", !.answer = a] \in Job
        BY <2>1 DEF Job
    <2>3. ASSUME NEW pc \in {"config", "exchange", "profile"}
          PROVE  [job[r] EXCEPT !.pc = pc] \in Job
        BY <2>1 DEF Job
    <2> QED
        BY <1>1, <2>2, <2>3 DEF TypeOK, End, Goto
<1>3. Idle \in Job
    BY <1>0 DEF Idle, Job
<1>4. CASE \E p \in Providers : AddOAuthInfo(p)
    BY <1>0, <1>1, <1>4 DEF TypeOK, AddOAuthInfo
<1>5. CASE \E k \in Codes, p \in Providers, u \in Users, a \in Accounts :
             Consent(k, p, u, a)
    <2>1. PICK k \in Codes, p \in Providers, u \in Users, a \in Accounts :
             Consent(k, p, u, a)
        BY <1>5
    <2>2. [provider |-> p, user |-> u, account |-> a, config |-> config[p],
           used |-> FALSE] \in Grant
        BY <1>0, <1>1, <2>1 DEF TypeOK, Consent, Grant
    <2> QED
        BY <1>1, <2>1, <2>2 DEF TypeOK, Consent
<1>6. CASE \E c \in Callbacks, p \in Providers, k \in Codes, u \in Users :
             Callback(c, p, k, u)
    <2>1. PICK c \in Callbacks, p \in Providers, k \in Codes, u \in Users :
             Callback(c, p, k, u)
        BY <1>6
    <2>2. [Idle EXCEPT !.pc = "check", !.provider = p, !.user = u, !.code = k] \in Job
        BY <1>3 DEF Job
    <2>3. job' \in [Requests -> Job]
        BY <1>1, <2>1, <2>2 DEF TypeOK, Callback
    <2>4. raced' \subseteq Providers \X Users
        BY <1>1, <2>1 DEF TypeOK, Callback
    <2> QED
        BY <1>1, <2>1, <2>3, <2>4 DEF TypeOK, Callback
<1>7. CASE \E c \in Callbacks : Refused(c)
    BY <1>1, <1>2, <1>7 DEF TypeOK, Refused, Requests
<1>8. CASE \E d \in Deletions, p \in Providers, u \in Users : Delete(d, p, u)
    <2>1. PICK d \in Deletions, p \in Providers, u \in Users : Delete(d, p, u)
        BY <1>8
    <2>2. [Idle EXCEPT !.pc = "find", !.provider = p, !.user = u] \in Job
        BY <1>3 DEF Job
    <2> QED
        BY <1>1, <2>1, <2>2 DEF TypeOK, Delete, Requests
<1>9. ASSUME NEW r \in Requests, Step(r) PROVE TypeOK'
    <2>0. job[r] \in Job
        BY <1>1 DEF TypeOK
    <2>1. CASE CheckLinked(r)
        <3>1. job[r].provider \in Providers
            BY <2>1 DEF CheckLinked, LinkInv, CodesKnown, Active
        <3>2. job[r].user \in Users
            BY <2>1 DEF CheckLinked, LinkInv, CodesKnown, Active
        <3>3. job' \in [Requests -> Job]
            BY <1>2, <2>1 DEF CheckLinked
        <3> QED
            BY <1>0, <1>1, <2>1, <3>1, <3>2, <3>3 DEF TypeOK, CheckLinked, Mishap
    <2>2. CASE ReadConfig(r)
        <3>1. config[job[r].provider] \in 0..MaxConfigs
            BY <1>1, <2>2 DEF ReadConfig, LinkInv, CodesKnown, Active, TypeOK
        <3>2. [job[r] EXCEPT !.pc = "exchange", !.config = config[job[r].provider]] \in Job
            BY <2>0, <3>1 DEF Job
        <3>3. job' \in [Requests -> Job]
            BY <1>1, <1>2, <2>2, <3>2 DEF TypeOK, ReadConfig
        <3> QED
            BY <1>1, <2>2, <3>3 DEF TypeOK, ReadConfig
    <2>3. CASE Exchange(r)
        <3>1. job' \in [Requests -> Job]
            BY <1>2, <2>3 DEF Exchange
        <3>2. job[r].code \in Codes /\ grant[job[r].code] \in Grant
            BY <1>1, <2>0, <2>3 DEF Exchange, LinkInv, CodesKnown, Checked, TypeOK, Job
        <3>3. [grant[job[r].code] EXCEPT !.used = TRUE] \in Grant
            BY <3>2 DEF Grant
        <3>4. grant' \in [Codes -> Grant \cup {None}]
            BY <1>1, <2>3, <3>3 DEF Exchange, TypeOK
        <3> QED
            BY <1>1, <2>3, <3>1, <3>4 DEF TypeOK, Exchange
    <2>4. CASE ReadProfile(r)
        <3>1. grant[job[r].code].account \in Accounts
            BY <2>4, WriterKnown DEF ReadProfile, Grant
        <3>2. [job[r] EXCEPT !.pc = "write", !.account = grant[job[r].code].account] \in Job
            BY <2>0, <3>1 DEF Job
        <3> QED
            BY <1>1, <2>4, <3>2 DEF TypeOK, ReadProfile, Profiles
    <2>5. CASE WriteLink(r) \/ WriteUnanswered(r)
        <3>1. Writes(r)
            BY <2>5, WritesShape
        <3>2. Written(r) \in Link /\ job[r].provider \in Providers
            BY <3>1, WriterKnown DEF Writes, Written, Link
        <3>3. job' \in [Requests -> Job]
            BY <1>2, <3>1 DEF Writes
        <3> QED
            BY <1>1, <3>1, <3>2, <3>3 DEF TypeOK, Writes
    <2>6. CASE FindLink(r)
        <3>1. LinksOf(job[r].provider, job[r].user) \subseteq Link
            BY <1>1, <2>6 DEF FindLink, LinkInv, CodesKnown, Active, TypeOK, LinksOf
        <3>2. \A i \in Link : [job[r] EXCEPT !.pc = "delete", !.item = i] \in Job
            BY <2>0 DEF Job
        <3>3. job' \in [Requests -> Job]
            <4>1. CASE End(r, "failed")
                BY <1>2, <4>1
            <4>2. CASE \E i \in Link : job' = [job EXCEPT ![r].pc = "delete", ![r].item = i]
                BY <1>1, <3>2, <4>2 DEF TypeOK
            <4> QED
                BY <2>6, <3>1, <4>1, <4>2 DEF FindLink
        <3> QED
            BY <1>1, <2>6, <3>3 DEF TypeOK, FindLink
    <2>7. CASE DeleteLink(r)
        BY <1>1, <1>2, <2>7 DEF TypeOK, DeleteLink, KeyOf
    <2>8. CASE CallThrows(r)
        BY <1>0, <1>1, <1>2, <2>8 DEF TypeOK, CallThrows, Mishap
    <2> QED
        BY <1>9, <2>1, <2>2, <2>3, <2>4, <2>5, <2>6, <2>7, <2>8 DEF Step
<1>10. CASE Crash
    <2>1. \A r \in Requests : [job[r] EXCEPT !.pc = "done"] \in Job
        BY <1>1 DEF TypeOK, Job
    <2> QED
        BY <1>0, <1>1, <1>10, <2>1 DEF TypeOK, Crash, Mishap
<1>11. CASE UNCHANGED vars
    BY <1>1, <1>11 DEF TypeOK, vars
<1> QED
    BY <1>4, <1>5, <1>6, <1>7, <1>8, <1>9, <1>10, <1>11 DEF Next

-----------------------------------------------------------------------------
(* Redeeming a code: it was unused, so neither a callback nor a link has   *)
(* it, and the callback becomes its only holder.                           *)
LEMMA RedeemKeeps ==
    ASSUME LinkInv, TypeOK', NEW r \in Requests, Exchange(r),
           ~grant[job[r].code].used, Fits(r), Goto(r, "profile"),
           grant' = [grant EXCEPT ![job[r].code].used = TRUE]
    PROVE  LinkInv'
<1> DEFINE k == job[r].code
<1>1. /\ job[r] \in Job /\ job[r].pc = "exchange" /\ k # None
      /\ k \in Codes /\ grant[k] \in Grant /\ r \in Callbacks
      /\ job[r].provider \in Providers /\ job[r].user \in Users
    <2>1. job[r] \in Job /\ job[r].pc = "exchange"
        BY DEF LinkInv, TypeOK, Exchange
    <2>2. /\ k # None /\ r \in Callbacks /\ grant[k] # None
          /\ job[r].provider \in Providers /\ job[r].user \in Users
        BY <2>1 DEF LinkInv, CodesKnown, Checked, Active
    <2>3. k \in Codes
        BY <2>1, <2>2 DEF Job
    <2> QED
        BY <2>1, <2>2, <2>3 DEF LinkInv, TypeOK
<1>2. /\ ~grant[k].used
      /\ grant' = [grant EXCEPT ![k].used = TRUE]
      /\ job' = [job EXCEPT ![r].pc = "profile"]
      /\ links' = links
    BY DEF Exchange, Goto
<1>3. /\ job'[r] = [job[r] EXCEPT !.pc = "profile"]
      /\ \A s \in Requests \ {r} : job'[s] = job[s]
      /\ \A s \in Requests : job'[s].code = job[s].code
                             /\ job'[s].provider = job[s].provider
                             /\ job'[s].user = job[s].user
                             /\ job'[s].account = job[s].account
                             /\ job[s] \in Job /\ job'[s] \in Job
    BY <1>1, <1>2 DEF LinkInv, TypeOK, Job
<1>4. /\ job'[r].pc = "profile" /\ ~Holds(r)
      /\ \A s \in Requests : Holds(s)' <=> s = r \/ Holds(s)
    BY <1>1, <1>3 DEF Holds, Job
<1>5. /\ grant'[k].used
      /\ \A c \in Codes : /\ grant[c].used => grant'[c].used
                          /\ grant[c] # None => grant'[c] # None
                          /\ grant[c] # None =>
                               /\ grant'[c].provider = grant[c].provider
                               /\ grant'[c].user = grant[c].user
                               /\ grant'[c].account = grant[c].account
    <2>1. grant'[k] = [grant[k] EXCEPT !.used = TRUE]
          /\ \A c \in Codes \ {k} : grant'[c] = grant[c]
        <3>1. grant \in [Codes -> Grant \cup {None}] /\ k \in Codes
              /\ grant' = [grant EXCEPT ![k].used = TRUE]
            BY <1>1, <1>2 DEF LinkInv, TypeOK
        <3> HIDE DEF k
        <3> QED
            BY <3>1
    <2>2. grant'[k] \in Grant
        <3>1. grant[k] \in Grant /\ grant'[k] = [grant[k] EXCEPT !.used = TRUE]
            BY <1>1, <2>1
        <3> QED
            BY <3>1 DEF Grant
    <2>3. grant'[k] # None
        BY <2>2, LinkSocialsAssumption DEF LinkSocialsAssumption
    <2> QED
        BY <1>1, <2>1, <2>3 DEF Grant
<1>6. \A s \in Requests : job[s].code # None => job[s].code \in Codes
    BY <1>3 DEF Job
<1>7. CodesKnown'
    <2> SUFFICES ASSUME NEW s \in Requests
                 PROVE  /\ Active(s)' =>
                             job'[s].provider \in Providers /\ job'[s].user \in Users
                        /\ job'[s].pc = "check" \/ Checked(s)' => job'[s].code # None
                        /\ job'[s].code # None =>
                             s \in Callbacks /\ grant'[job'[s].code] # None
        BY DEF CodesKnown
    <2>1. CASE s = r
        BY <1>1, <1>3, <1>5, <2>1 DEF LinkInv, CodesKnown
    <2>2. CASE s # r
        BY <1>3, <1>5, <1>6, <2>2 DEF LinkInv, CodesKnown, Active, Checked
    <2> QED
        BY <2>1, <2>2
<1>8. \A s \in Requests : Holds(s) => job[s].code \in Codes /\ job[s].code # k
                                      /\ grant[job[s].code] # None
    BY <1>2, <1>6 DEF LinkInv, HeldOnce, CodesKnown, Holds, Checked
<1>9. HeldOnce'
    <2> SUFFICES ASSUME NEW s \in Requests, Holds(s)'
                 PROVE  /\ grant'[job'[s].code].used /\ Fits(s)'
                        /\ job'[s].pc = "write" =>
                             job'[s].account = grant'[job'[s].code].account
                        /\ \A t \in Requests :
                             Holds(t)' /\ job'[t].code = job'[s].code => t = s
        BY DEF HeldOnce
    <2>1. CASE s = r
        <3>1. grant'[job'[s].code].used /\ job'[s].pc = "profile"
            BY <1>3, <1>4, <1>5, <2>1
        <3>2. ASSUME NEW t \in Requests, Holds(t)', job'[t].code = job'[s].code
              PROVE  t = s
            <4>1. job[t].code = k
                BY <1>3, <2>1, <3>2
            <4> QED
                BY <1>4, <1>8, <2>1, <3>2, <4>1
        <3>3. /\ grant'[k].provider = grant[k].provider
              /\ grant'[k].user = grant[k].user
              /\ job'[r].code = k
              /\ job'[r].provider = job[r].provider /\ job'[r].user = job[r].user
            <4>1. grant[k] # None
                BY <1>1, LinkSocialsAssumption DEF LinkSocialsAssumption
            <4> QED
                BY <1>1, <1>3, <1>5, <4>1
        <3>4. Fits(s)'
            BY <2>1, <3>3 DEF Fits
        <3> QED
            BY <3>1, <3>2, <3>4
    <2>2. CASE s # r
        <3>1. Holds(s) /\ job'[s] = job[s]
            BY <1>3, <1>4, <2>2
        <3>2. /\ grant[job[s].code].used /\ Fits(s)
              /\ job[s].pc = "write" => job[s].account = grant[job[s].code].account
              /\ \A t \in Requests : Holds(t) /\ job[t].code = job[s].code => t = s
            BY <3>1 DEF LinkInv, HeldOnce
        <3>3. job[s].code \in Codes /\ job[s].code # k /\ grant[job[s].code] # None
            BY <1>8, <3>1
        <3>4. ASSUME NEW t \in Requests, Holds(t)', job'[t].code = job'[s].code
              PROVE  t = s
            <4>1. t # r
                BY <1>3, <3>1, <3>3, <3>4
            <4> QED
                BY <1>3, <1>4, <3>1, <3>2, <3>4, <4>1
        <3>5. Fits(s)'
            BY <1>5, <3>1, <3>2, <3>3 DEF Fits
        <3> QED
            BY <1>5, <3>1, <3>2, <3>3, <3>4, <3>5
    <2> QED
        BY <2>1, <2>2
<1>10. \A p \in Providers : \A i \in links[p] :
            /\ i.id \in Requests /\ i.id # r
            /\ job'[i.id] = job[i.id]
            /\ job[i.id].code \in Codes /\ job[i.id].code # k
            /\ grant[job[i.id].code] # None
    <2> SUFFICES ASSUME NEW p \in Providers, NEW i \in links[p]
                 PROVE  /\ i.id \in Requests /\ i.id # r
                        /\ job'[i.id] = job[i.id]
                        /\ job[i.id].code \in Codes /\ job[i.id].code # k
                        /\ grant[job[i.id].code] # None
        OBVIOUS
    <2>1. i.id \in Requests
        BY DEF LinkInv, TypeOK, Link, Requests
    <2>2. job[i.id].pc = "done" /\ job[i.id].code # None /\ grant[job[i.id].code].used
        BY DEF LinkInv, WrittenOnce, LinkTruthful
    <2> QED
        BY <1>1, <1>2, <1>3, <1>6, <2>1, <2>2 DEF LinkInv, CodesKnown
<1>11. WrittenOnce'
    <2> SUFFICES ASSUME NEW p \in Providers, NEW i \in links[p]
                 PROVE  /\ job'[i.id].pc = "done" /\ job'[i.id].code # None
                        /\ \A s \in Requests : Holds(s)' => job'[s].code # job'[i.id].code
        BY <1>2 DEF WrittenOnce
    <2>1. /\ job[i.id].pc = "done" /\ job[i.id].code # None
          /\ \A s \in Requests : Holds(s) => job[s].code # job[i.id].code
        BY DEF LinkInv, WrittenOnce
    <2> QED
        BY <1>3, <1>4, <1>10, <2>1
<1>12. LinkTruthful'
    <2> SUFFICES ASSUME NEW p \in Providers, NEW i \in links[p]
                 PROVE  /\ grant'[job'[i.id].code].used
                        /\ grant'[job'[i.id].code].provider = p
                        /\ grant'[job'[i.id].code].account = i.account
                        /\ p \in Challenged => grant'[job'[i.id].code].user = i.user
                        /\ \A j \in links[p] :
                             job'[j.id].code = job'[i.id].code => i = j
        BY <1>2 DEF LinkTruthful
    <2> QED
        BY <1>5, <1>10 DEF LinkInv, LinkTruthful
<1> QED
    BY <1>7, <1>9, <1>11, <1>12 DEF LinkInv

(* Writing: the callback hands its code over to the link.                  *)
LEMMA WriteKeeps ==
    ASSUME LinkInv, TypeOK', NEW r \in Requests, Writes(r)
    PROVE  LinkInv'
<1> DEFINE k == job[r].code
           q == job[r].provider
<1>1. /\ job[r] \in Job /\ job[r].pc = "write" /\ Holds(r)
      /\ k \in Codes /\ grant[k] \in Grant /\ grant[k].used
      /\ q \in Providers
      /\ grant[k].provider = q
      /\ q \in Challenged => grant[k].user = job[r].user
      /\ grant[k].account = job[r].account
    BY WriterKnown DEF Writes, Holds, LinkInv, TypeOK
<1>2. k # None
    BY <1>1 DEF LinkInv, CodesKnown, Checked
<1>3. /\ grant' = grant
      /\ \E a \in {"success", "error"} :
            job'[r] = [job[r] EXCEPT !.pc = "done", !.answer = a]
      /\ \A s \in Requests \ {r} : job'[s] = job[s]
    BY DEF Writes, End, LinkInv, TypeOK
<1>4. /\ job'[r].pc = "done" /\ job'[r].code = k
      /\ job'[r].provider = q /\ job'[r].user = job[r].user
    BY <1>1, <1>3 DEF Job
<1>5. \A s \in Requests : /\ Holds(s)' <=> s # r /\ Holds(s)
                          /\ job'[s].code = job[s].code
    BY <1>3, <1>4 DEF Holds
<1>6. CodesKnown'
    <2> SUFFICES ASSUME NEW s \in Requests
                 PROVE  /\ Active(s)' =>
                             job'[s].provider \in Providers /\ job'[s].user \in Users
                        /\ job'[s].pc = "check" \/ Checked(s)' => job'[s].code # None
                        /\ job'[s].code # None =>
                             s \in Callbacks /\ grant'[job'[s].code] # None
        BY DEF CodesKnown
    <2>1. CASE s = r
        BY <1>1, <1>2, <1>3, <1>4, <2>1 DEF LinkInv, CodesKnown, Active, Checked
    <2>2. CASE s # r
        BY <1>3, <2>2 DEF LinkInv, CodesKnown, Active, Checked
    <2> QED
        BY <2>1, <2>2
<1>7. HeldOnce'
    <2> SUFFICES ASSUME NEW s \in Requests, Holds(s)'
                 PROVE  /\ grant[job'[s].code].used /\ Fits(s)'
                        /\ job'[s].pc = "write" =>
                             job'[s].account = grant[job'[s].code].account
                        /\ \A t \in Requests :
                             Holds(t)' /\ job'[t].code = job'[s].code => t = s
        BY <1>3 DEF HeldOnce
    <2>1. s # r /\ Holds(s) /\ job'[s] = job[s]
        BY <1>3, <1>5
    <2>2. Fits(s)'
        BY <1>3, <2>1 DEF LinkInv, HeldOnce, Fits
    <2> QED
        BY <1>5, <2>1, <2>2 DEF LinkInv, HeldOnce
<1>8. \A p \in Providers : \A i \in links'[p] :
        \/ i \in links[p]
        \/ p = q /\ i = Written(r)
    BY <1>1 DEF Writes, LinkInv, TypeOK
<1>9. \A p \in Providers : \A i \in links[p] :
        /\ i.id \in Requests /\ i.id # r
        /\ job'[i.id] = job[i.id] /\ job[i.id].code # k
    <2> SUFFICES ASSUME NEW p \in Providers, NEW i \in links[p]
                 PROVE  i.id \in Requests /\ job[i.id].pc = "done" /\ job[i.id].code # k
        BY <1>1, <1>3
    <2>1. i.id \in Requests
        BY DEF LinkInv, TypeOK, Link, Requests
    <2> QED
        BY <1>1, <2>1 DEF LinkInv, WrittenOnce
<1>10. \A s \in Requests : Holds(s) /\ s # r => job[s].code # k
    BY <1>1 DEF LinkInv, HeldOnce
<1>11. WrittenOnce'
    <2> SUFFICES ASSUME NEW p \in Providers, NEW i \in links'[p]
                 PROVE  /\ job'[i.id].pc = "done" /\ job'[i.id].code # None
                        /\ \A s \in Requests : Holds(s)' => job'[s].code # job'[i.id].code
        BY DEF WrittenOnce
    <2>1. CASE i \in links[p]
        <3>1. /\ job[i.id].pc = "done" /\ job[i.id].code # None
              /\ \A s \in Requests : Holds(s) => job[s].code # job[i.id].code
            BY <2>1 DEF LinkInv, WrittenOnce
        <3> QED
            BY <1>5, <1>9, <2>1, <3>1
    <2>2. CASE i = Written(r)
        BY <1>2, <1>4, <1>5, <1>10, <2>2 DEF Written
    <2> QED
        BY <1>8, <2>1, <2>2
<1>12. LinkTruthful'
    <2>1. Written(r).id = r /\ Written(r).user = job[r].user
          /\ Written(r).account = job[r].account
        BY DEF Written
    <2> SUFFICES ASSUME NEW p \in Providers, NEW i \in links'[p]
                 PROVE  /\ grant[job'[i.id].code].used
                        /\ grant[job'[i.id].code].provider = p
                        /\ grant[job'[i.id].code].account = i.account
                        /\ p \in Challenged => grant[job'[i.id].code].user = i.user
                        /\ \A j \in links'[p] :
                             job'[j.id].code = job'[i.id].code => i = j
        BY <1>3 DEF LinkTruthful
    <2>2. CASE i \in links[p]
        BY <1>4, <1>8, <1>9, <2>1, <2>2 DEF LinkInv, LinkTruthful
    <2>3. CASE p = q /\ i = Written(r)
        BY <1>1, <1>4, <1>8, <1>9, <2>1, <2>3
    <2> QED
        BY <1>8, <2>2, <2>3
<1> QED
    BY <1>6, <1>7, <1>11, <1>12 DEF LinkInv

(* Every step keeps LinkInv.                                               *)
LEMMA LinkStep == LinkInv /\ [Next]_vars => LinkInv'
<1> SUFFICES ASSUME LinkInv, [Next]_vars PROVE LinkInv'
    OBVIOUS
<1>1. TypeOK /\ TypeOK'
    BY TypeKept DEF LinkInv
<1>2. \A r \in Requests : job[r] \in Job
    BY <1>1 DEF TypeOK
<1>3. CASE \E p \in Providers : AddOAuthInfo(p)
    BY <1>1, <1>3, HarmlessKeeps DEF AddOAuthInfo
<1>4. CASE \E k \in Codes, p \in Providers, u \in Users, a \in Accounts :
             Consent(k, p, u, a)
    <2>1. /\ links' = links /\ job' = job
          /\ \A k \in Codes : grant[k] # None => grant'[k] = grant[k]
        BY <1>1, <1>4 DEF Consent, TypeOK
    <2> QED
        BY <1>1, <2>1, HarmlessKeeps
<1>5. CASE \E c \in Callbacks, p \in Providers, k \in Codes, u \in Users :
             Callback(c, p, k, u)
    <2>1. PICK c \in Callbacks, p \in Providers, k \in Codes, u \in Users :
             Callback(c, p, k, u)
        BY <1>5
    <2>2. /\ links' = links /\ grant' = grant /\ grant[k] # None
          /\ c \in Requests /\ job[c].pc = "idle"
        BY <2>1 DEF Callback, Requests
    <2>3. /\ job'[c] = [Idle EXCEPT !.pc = "check", !.provider = p,
                                    !.user = u, !.code = k]
          /\ \A r \in Requests \ {c} : job'[r] = job[r]
        BY <1>1, <2>1, <2>2 DEF Callback, TypeOK
    <2>4. /\ job'[c].pc = "check" /\ job'[c].provider = p
          /\ job'[c].user = u /\ job'[c].code = k
        BY <2>3 DEF Idle
    <2>5. k # None
        BY LinkSocialsAssumption DEF LinkSocialsAssumption
    <2>6. Harmless(c)
        BY <2>2, <2>4, <2>5 DEF Harmless, Holds
    <2> QED
        BY <1>1, <2>2, <2>3, <2>6, HarmlessKeeps
<1>6. ASSUME NEW r \in Requests, NEW a, End(r, a), job[r].pc # "done",
             links' = links, grant' = grant
      PROVE  LinkInv'
    <2>1. /\ job'[r] = [job[r] EXCEPT !.pc = "done", !.answer = a]
          /\ \A s \in Requests \ {r} : job'[s] = job[s]
        BY <1>1, <1>6 DEF End, TypeOK
    <2>2. /\ job'[r].pc = "done" /\ job'[r].provider = job[r].provider
          /\ job'[r].user = job[r].user /\ job'[r].code = job[r].code
        BY <1>2, <2>1 DEF Job
    <2>3. Harmless(r)
        BY <1>6, <2>2, MovesOn DEF Active, Checked, Holds
    <2> QED
        BY <1>1, <1>6, <2>1, <2>3, HarmlessKeeps
<1>7. ASSUME NEW r \in Requests, NEW j, job' = [job EXCEPT ![r] = j],
             job[r].pc # "done", links' = links, grant' = grant,
             j.provider = job[r].provider, j.user = job[r].user, j.code = job[r].code,
             \/ j.pc \in {"config", "exchange"} /\ job[r].pc \in {"check", "config"}
             \/ j.pc = "write" /\ job[r].pc = "profile"
                               /\ j.account = grant[job[r].code].account
             \/ j.pc = "delete" /\ job[r].pc = "find"
      PROVE  LinkInv'
    <2>1. job'[r] = j /\ \A s \in Requests \ {r} : job'[s] = job[s]
        BY <1>1, <1>7 DEF TypeOK
    <2>2. Harmless(r)
        BY <1>7, <2>1, MovesOn DEF Active, Checked, Holds
    <2> QED
        BY <1>1, <1>7, <2>1, <2>2, HarmlessKeeps
<1>8. CASE \E c \in Callbacks : Refused(c)
    BY <1>6, <1>8 DEF Refused, Requests
<1>9. CASE \E d \in Deletions, p \in Providers, u \in Users : Delete(d, p, u)
    <2>1. PICK d \in Deletions, p \in Providers, u \in Users : Delete(d, p, u)
        BY <1>9
    <2>2. /\ links' = links /\ grant' = grant
          /\ d \in Requests /\ job[d].pc = "idle"
          /\ job'[d] = [Idle EXCEPT !.pc = "find", !.provider = p, !.user = u]
          /\ \A r \in Requests \ {d} : job'[r] = job[r]
        BY <1>1, <2>1 DEF Delete, TypeOK, Requests
    <2>3. job'[d].pc = "find" /\ job'[d].provider = p /\ job'[d].user = u
          /\ job'[d].code = None
        BY <2>2 DEF Idle
    <2>4. Harmless(d)
        BY <2>2, <2>3 DEF Harmless, Checked, Holds
    <2> QED
        BY <1>1, <2>2, <2>4, HarmlessKeeps
<1>10. ASSUME NEW r \in Requests, Step(r) PROVE LinkInv'
    <2>1. CASE CheckLinked(r)
        <3>1. CASE Goto(r, "config")
            <4> DEFINE j == [job[r] EXCEPT !.pc = "config"]
            <4>1. /\ j.provider = job[r].provider /\ j.user = job[r].user
                  /\ j.code = job[r].code /\ j.pc = "config"
                BY <1>2 DEF Job
            <4> HIDE DEF j
            <4> QED
                BY <1>7, <2>1, <3>1, <4>1 DEF CheckLinked, Goto, j
        <3>2. CASE End(r, "error")
            BY <1>6, <2>1, <3>2 DEF CheckLinked
        <3> QED
            BY <2>1, <3>1, <3>2 DEF CheckLinked
    <2>2. CASE ReadConfig(r)
        <3> DEFINE j == [job[r] EXCEPT !.pc = "exchange",
                                       !.config = config[job[r].provider]]
        <3>1. /\ j.provider = job[r].provider /\ j.user = job[r].user
              /\ j.code = job[r].code /\ j.pc = "exchange"
            BY <1>2 DEF Job
        <3>2. CASE End(r, "error")
            BY <1>6, <2>2, <3>2 DEF ReadConfig
        <3>3. CASE job' = [job EXCEPT ![r] = j]
            <4> HIDE DEF j
            <4> QED
                BY <1>7, <2>2, <3>1, <3>3 DEF ReadConfig
        <3> QED
            BY <2>2, <3>2, <3>3 DEF ReadConfig
    <2>3. CASE Exchange(r)
        <3>1. CASE End(r, "error") /\ grant' = grant
            BY <1>6, <2>3, <3>1 DEF Exchange
        <3>2. CASE /\ ~grant[job[r].code].used /\ Fits(r) /\ Goto(r, "profile")
                   /\ grant' = [grant EXCEPT ![job[r].code].used = TRUE]
            BY <1>1, <2>3, <3>2, RedeemKeeps
        <3> QED
            BY <2>3, <3>1, <3>2 DEF Exchange
    <2>4. CASE ReadProfile(r)
        <3> DEFINE j == [job[r] EXCEPT !.pc = "write",
                                       !.account = grant[job[r].code].account]
        <3>1. /\ j.provider = job[r].provider /\ j.user = job[r].user
              /\ j.code = job[r].code /\ j.pc = "write"
              /\ j.account = grant[job[r].code].account
            BY <1>2 DEF Job
        <3>2. job' = [job EXCEPT ![r] = j]
            BY <2>4 DEF ReadProfile, Profiles
        <3> HIDE DEF j
        <3> QED
            BY <1>7, <2>4, <3>1, <3>2 DEF ReadProfile
    <2>5. CASE WriteLink(r) \/ WriteUnanswered(r)
        BY <1>1, <2>5, WritesShape, WriteKeeps
    <2>6. CASE FindLink(r)
        <3>1. CASE End(r, "failed")
            BY <1>6, <2>6, <3>1 DEF FindLink
        <3>2. ASSUME NEW i, job' = [job EXCEPT ![r].pc = "delete", ![r].item = i]
              PROVE  LinkInv'
            <4> DEFINE j == [job[r] EXCEPT !.pc = "delete", !.item = i]
            <4>1. /\ j.provider = job[r].provider /\ j.user = job[r].user
                  /\ j.code = job[r].code /\ j.pc = "delete"
                BY <1>2 DEF Job
            <4>2. job' = [job EXCEPT ![r] = j]
                BY <3>2
            <4> HIDE DEF j
            <4> QED
                BY <1>7, <2>6, <4>1, <4>2 DEF FindLink
        <3> QED
            BY <2>6, <3>1, <3>2 DEF FindLink
    <2>7. CASE DeleteLink(r)
        BY <1>6, <2>7 DEF DeleteLink, KeyOf
    <2>8. CASE CallThrows(r)
        BY <1>6, <2>8 DEF CallThrows, Active
    <2> QED
        BY <1>10, <2>1, <2>2, <2>3, <2>4, <2>5, <2>6, <2>7, <2>8 DEF Step
<1>11. CASE Crash
    <2>1. /\ links' = links /\ grant' = grant
          /\ \A r \in Requests : job'[r] =
                IF Active(r) THEN [job[r] EXCEPT !.pc = "done"] ELSE job[r]
        BY <1>11 DEF Crash, Active
    <2>2. ASSUME NEW r \in Requests, Active(r), job'[r] = [job[r] EXCEPT !.pc = "done"]
          PROVE  Harmless(r)
        <3>1. /\ job'[r].pc = "done" /\ job'[r].provider = job[r].provider
              /\ job'[r].user = job[r].user /\ job'[r].code = job[r].code
            BY <1>2, <2>2 DEF Job
        <3> QED
            BY <2>2, <3>1, MovesOn DEF Active, Checked, Holds
    <2> QED
        <3>1. ASSUME NEW r \in Requests
              PROVE  job'[r] = job[r] \/ Harmless(r)
            <4>1. CASE Active(r)
                BY <2>1, <2>2, <4>1
            <4>2. CASE ~Active(r)
                BY <2>1, <4>2
            <4> QED
                BY <4>1, <4>2
        <3> QED
            BY <1>1, <2>1, <3>1, HarmlessKeeps
<1>12. CASE UNCHANGED vars
    BY <1>1, <1>12, HarmlessKeeps DEF vars
<1> QED
    BY <1>3, <1>4, <1>5, <1>8, <1>9, <1>10, <1>11, <1>12 DEF Next

LEMMA LinkStart == Init => LinkInv
<1> SUFFICES ASSUME Init PROVE LinkInv
    OBVIOUS
<1>1. MaxConfigs \in Nat /\ MaxMishaps \in Nat
    BY LinkSocialsAssumption DEF LinkSocialsAssumption
<1>2. Idle \in Job
    BY <1>1 DEF Idle, Job
<1>3. TypeOK
    BY <1>1, <1>2 DEF Init, TypeOK
<1>4. \A r \in Requests : job[r] = Idle
    BY DEF Init
<1>5. CodesKnown /\ HeldOnce
    BY <1>4 DEF CodesKnown, HeldOnce, Active, Checked, Holds, Idle
<1>6. WrittenOnce /\ LinkTruthful
    BY DEF Init, WrittenOnce, LinkTruthful
<1> QED
    BY <1>3, <1>5, <1>6 DEF LinkInv

(* The variables keep their types in every behaviour, whatever fails.      *)
THEOREM SocialsTyped == Spec => []TypeOK
<1>1. LinkInv => TypeOK
    BY DEF LinkInv
<1> QED
    BY <1>1, LinkStart, LinkStep, PTL DEF Spec

(* Every link in the tables of Connect-Discord and Connect-Twitter names   *)
(* the account of a consent that user gave to that provider, redeemed for  *)
(* this link alone, for every interleaving of the callbacks and every      *)
(* fault: the write of discordWriteToDB and twitterWriteToDB never mixes   *)
(* up two requests.                                                        *)
THEOREM LinksTruthful == Spec => []LinkTruthful
<1>1. LinkInv => LinkTruthful
    BY DEF LinkInv
<1> QED
    BY <1>1, LinkStart, LinkStep, PTL DEF Spec

-----------------------------------------------------------------------------
(* A step that writes no link and starts no callback, and lets one past    *)
(* its check only without a link or with its user counted as raced.        *)
LEMMA CalmKeeps ==
    ASSUME InTurn, OneAccount, links' = links, raced \subseteq raced',
           \A c \in Callbacks : Active(c)' =>
             /\ Active(c)
             /\ job'[c].provider = job[c].provider /\ job'[c].user = job[c].user
             /\ Checked(c)' => \/ Checked(c)
                               \/ <<job[c].provider, job[c].user>> \in raced'
                               \/ LinksOf(job[c].provider, job[c].user) = {}
    PROVE  InTurn' /\ OneAccount'
<1>1. OneAccount'
    BY DEF OneAccount, LinksOf
<1>2. InTurn'
    <2> SUFFICES ASSUME NEW p \in Providers, NEW u \in Users, <<p, u>> \notin raced',
                        NEW c \in Callbacks, Active(c)',
                        job'[c].provider = p, job'[c].user = u
                 PROVE  /\ \A d \in Callbacks :
                             Active(d)' /\ job'[d].provider = p /\ job'[d].user = u => d = c
                        /\ Checked(c)' => LinksOf(p, u)' = {}
        BY DEF InTurn
    <2>1. /\ <<p, u>> \notin raced
          /\ Active(c) /\ job[c].provider = p /\ job[c].user = u
        OBVIOUS
    <2>2. /\ \A d \in Callbacks :
               Active(d) /\ job[d].provider = p /\ job[d].user = u => d = c
          /\ Checked(c) => LinksOf(p, u) = {}
        BY <2>1 DEF InTurn
    <2>3. LinksOf(p, u)' = LinksOf(p, u)
        BY DEF LinksOf
    <2> QED
        BY <2>1, <2>2, <2>3
<1> QED
    BY <1>1, <1>2

(* A callback that starts beside another of its user makes the user raced. *)
LEMMA StartKeepsTurn ==
    ASSUME OneInv, NEW c \in Callbacks, NEW q \in Providers, NEW k \in Codes,
           NEW v \in Users, Callback(c, q, k, v)
    PROVE  InTurn' /\ OneAccount'
<1>1. /\ job'[c].pc = "check" /\ job'[c].provider = q /\ job'[c].user = v
      /\ \A d \in Callbacks \ {c} : job'[d] = job[d]
    BY DEF Callback, Idle, OneInv, LinkInv, TypeOK, Requests
<1>2. links' = links /\ raced \subseteq raced' /\ ~Checked(c)'
    BY <1>1 DEF Callback, Checked
<1>3. Connecting(q, v) => <<q, v>> \in raced'
    BY DEF Callback
<1>4. OneAccount'
    BY <1>2 DEF OneInv, OneAccount, LinksOf
<1>5. InTurn'
    <2> SUFFICES ASSUME NEW p \in Providers, NEW u \in Users, <<p, u>> \notin raced',
                        NEW d \in Callbacks, Active(d)',
                        job'[d].provider = p, job'[d].user = u
                 PROVE  /\ \A e \in Callbacks :
                             Active(e)' /\ job'[e].provider = p /\ job'[e].user = u => e = d
                        /\ Checked(d)' => LinksOf(p, u)' = {}
        BY DEF InTurn
    <2>1. LinksOf(p, u)' = LinksOf(p, u) /\ <<p, u>> \notin raced
        BY <1>2 DEF LinksOf
    <2>2. CASE d = c
        <3>1. p = q /\ u = v /\ ~Connecting(p, u)
            BY <1>1, <1>3, <2>2
        <3>2. \A e \in Callbacks \ {c} : ~(Active(e)' /\ job'[e].provider = p /\ job'[e].user = u)
            BY <1>1, <3>1 DEF Connecting, Active
        <3> QED
            BY <1>2, <2>2, <3>2
    <2>3. CASE d # c
        <3>1. Active(d) /\ job[d].provider = p /\ job[d].user = u /\ job'[d] = job[d]
            BY <1>1, <2>3 DEF Active
        <3>2. ~(p = q /\ u = v)
            BY <1>3, <3>1 DEF Connecting
        <3>3. /\ \A e \in Callbacks :
                   Active(e) /\ job[e].provider = p /\ job[e].user = u => e = d
              /\ Checked(d) => LinksOf(p, u) = {}
            BY <2>1, <3>1 DEF OneInv, InTurn
        <3>4. ASSUME NEW e \in Callbacks, Active(e)',
                     job'[e].provider = p, job'[e].user = u
              PROVE  e = d
            <4>1. e # c /\ job'[e] = job[e]
                BY <1>1, <3>2, <3>4
            <4> QED
                BY <3>3, <3>4, <4>1 DEF Active
        <3> QED
            BY <2>1, <3>1, <3>3, <3>4 DEF Checked
    <2> QED
        BY <2>2, <2>3
<1> QED
    BY <1>4, <1>5

(* A callback that writes found no link of its user, and was alone.        *)
LEMMA WriteKeepsTurn ==
    ASSUME OneInv, NEW r \in Requests, Writes(r)
    PROVE  InTurn' /\ OneAccount'
<1> DEFINE q == job[r].provider
           v == job[r].user
<1>1. /\ r \in Callbacks /\ q \in Providers /\ v \in Users
      /\ Active(r) /\ Checked(r)
    BY WriterKnown DEF OneInv, Writes, Active, Checked
<1>2. raced' = raced /\ job'[r].pc = "done"
      /\ \A s \in Requests \ {r} : job'[s] = job[s]
    BY DEF Writes, End, OneInv, LinkInv, TypeOK
<1>3. <<q, v>> \notin raced =>
        /\ LinksOf(q, v) = {}
        /\ \A d \in Callbacks :
             Active(d) /\ job[d].provider = q /\ job[d].user = v => d = r
    BY <1>1 DEF OneInv, InTurn
<1>4. ASSUME NEW p \in Providers, NEW u \in Users
      PROVE  LinksOf(p, u)' = IF p = q /\ u = v THEN LinksOf(p, u) \cup {Written(r)}
                              ELSE LinksOf(p, u)
    <2>1. Written(r).user = v
        BY DEF Written
    <2>2. links'[p] = IF p = q THEN links[p] \cup {Written(r)} ELSE links[p]
        BY <1>1 DEF Writes, OneInv, LinkInv, TypeOK
    <2> HIDE DEF q, v
    <2> QED
        BY <2>1, <2>2 DEF LinksOf
<1>5. OneAccount'
    <2> SUFFICES ASSUME NEW p \in Providers, NEW u \in Users, <<p, u>> \notin raced
                 PROVE  \A i, j \in LinksOf(p, u)' : i = j
        BY <1>2 DEF OneAccount
    <2>1. \A i, j \in LinksOf(p, u) : i = j
        BY DEF OneInv, OneAccount
    <2>2. CASE p = q /\ u = v
        <3>1. LinksOf(p, u)' = {Written(r)}
            BY <1>3, <1>4, <2>2
        <3> QED
            BY <3>1
    <2>3. CASE ~(p = q /\ u = v)
        <3>1. LinksOf(p, u)' = LinksOf(p, u)
            BY <1>4, <2>3
        <3> QED
            BY <2>1, <3>1
    <2> QED
        BY <2>2, <2>3
<1>6. InTurn'
    <2> SUFFICES ASSUME NEW p \in Providers, NEW u \in Users, <<p, u>> \notin raced,
                        NEW c \in Callbacks, Active(c)',
                        job'[c].provider = p, job'[c].user = u
                 PROVE  /\ \A d \in Callbacks :
                             Active(d)' /\ job'[d].provider = p /\ job'[d].user = u => d = c
                        /\ Checked(c)' => LinksOf(p, u)' = {}
        BY <1>2 DEF InTurn
    <2>1. \A d \in Callbacks : Active(d)' => d # r /\ job'[d] = job[d] /\ Active(d)
        BY <1>2 DEF Active, Requests
    <2>2. job[c].provider = p /\ job[c].user = u /\ Active(c) /\ c # r
        BY <2>1
    <2>3. /\ \A d \in Callbacks :
               Active(d) /\ job[d].provider = p /\ job[d].user = u => d = c
          /\ Checked(c) => LinksOf(p, u) = {}
        BY <2>2 DEF OneInv, InTurn
    <2>4. ~(p = q /\ u = v)
        BY <1>3, <2>2
    <2>5. LinksOf(p, u)' = LinksOf(p, u)
        BY <1>4, <2>4
    <2>6. Checked(c)' => Checked(c)
        BY <2>1 DEF Checked
    <2> QED
        BY <2>1, <2>3, <2>5, <2>6
<1> QED
    BY <1>5, <1>6

(* Every step keeps OneInv.                                                *)
LEMMA OneStep == OneInv /\ [Next]_vars => OneInv'
<1> SUFFICES ASSUME OneInv, [Next]_vars PROVE InTurn' /\ OneAccount'
    BY LinkStep DEF OneInv
<1>1. TypeOK /\ InTurn /\ OneAccount
    BY DEF OneInv, LinkInv
<1>2. \A r \in Requests : job[r] \in Job
    BY <1>1 DEF TypeOK
<1>3. ASSUME links' = links, raced' = raced, job' = job
      PROVE  InTurn' /\ OneAccount'
    BY <1>1, <1>3, CalmKeeps DEF Active, Checked
<1>4. ASSUME NEW r \in Requests, NEW j, job' = [job EXCEPT ![r] = j],
             links' = links, raced \subseteq raced',
             j.pc \notin {"idle", "done"} /\ r \in Callbacks =>
               /\ Active(r)
               /\ j.provider = job[r].provider /\ j.user = job[r].user
               /\ \/ j.pc = "delete"
                  \/ Checked(r)
                  \/ <<job[r].provider, job[r].user>> \in raced'
                  \/ LinksOf(job[r].provider, job[r].user) = {}
      PROVE  InTurn' /\ OneAccount'
    <2>1. job'[r] = j /\ \A s \in Requests \ {r} : job'[s] = job[s]
        BY <1>1, <1>4 DEF TypeOK
    <2>2. ASSUME NEW c \in Callbacks, Active(c)'
          PROVE  /\ Active(c)
                 /\ job'[c].provider = job[c].provider /\ job'[c].user = job[c].user
                 /\ Checked(c)' => \/ Checked(c)
                                   \/ <<job[c].provider, job[c].user>> \in raced'
                                   \/ LinksOf(job[c].provider, job[c].user) = {}
        <3>1. CASE c = r
            BY <1>4, <2>1, <2>2, <3>1 DEF Active, Checked
        <3>2. CASE c # r
            BY <2>1, <2>2, <3>2 DEF Active, Checked, Requests
        <3> QED
            BY <3>1, <3>2
    <2> QED
        BY <1>1, <1>4, <2>2, CalmKeeps
<1>5. ASSUME NEW r \in Requests, NEW a, End(r, a), links' = links, raced' = raced
      PROVE  InTurn' /\ OneAccount'
    <2> DEFINE j == [job[r] EXCEPT !.pc = "done", !.answer = a]
    <2>1. j.pc = "done"
        BY <1>2 DEF Job
    <2>2. job' = [job EXCEPT ![r] = j]
        BY <1>5 DEF End
    <2> HIDE DEF j
    <2> QED
        BY <1>4, <1>5, <2>1, <2>2
<1>6. CASE \E p \in Providers : AddOAuthInfo(p)
    BY <1>3, <1>6 DEF AddOAuthInfo
<1>7. CASE \E k \in Codes, p \in Providers, u \in Users, a \in Accounts :
             Consent(k, p, u, a)
    BY <1>3, <1>7 DEF Consent
<1>8. CASE \E c \in Callbacks, p \in Providers, k \in Codes, u \in Users :
             Callback(c, p, k, u)
    BY <1>8, StartKeepsTurn
<1>9. CASE \E c \in Callbacks : Refused(c)
    BY <1>5, <1>9 DEF Refused, Requests
<1>10. CASE \E d \in Deletions, p \in Providers, u \in Users : Delete(d, p, u)
    <2>1. PICK d \in Deletions, p \in Providers, u \in Users : Delete(d, p, u)
        BY <1>10
    <2>2. d \in Requests /\ d \notin Callbacks
        BY LinkSocialsAssumption DEF LinkSocialsAssumption, Requests
    <2> QED
        BY <1>4, <2>1, <2>2 DEF Delete
<1>11. ASSUME NEW r \in Requests, Step(r) PROVE InTurn' /\ OneAccount'
    <2>1. CASE CheckLinked(r)
        <3> DEFINE j == [job[r] EXCEPT !.pc = "config"]
        <3>1. j.provider = job[r].provider /\ j.user = job[r].user
            BY <1>2 DEF Job
        <3>2. CASE End(r, "error") /\ raced' = raced
            BY <1>5, <2>1, <3>2 DEF CheckLinked
        <3>3. CASE /\ job' = [job EXCEPT ![r] = j]
                   /\ ~Linked(r) /\ raced' = raced
            <4> HIDE DEF j
            <4> QED
                BY <1>4, <2>1, <3>1, <3>3 DEF CheckLinked, Linked, Active
        <3>4. CASE /\ job' = [job EXCEPT ![r] = j]
                   /\ raced' = raced \cup {<<job[r].provider, job[r].user>>}
            <4> HIDE DEF j
            <4> QED
                BY <1>4, <2>1, <3>1, <3>4 DEF CheckLinked, Active
        <3> QED
            BY <2>1, <3>2, <3>3, <3>4 DEF CheckLinked, Goto
    <2>2. ASSUME NEW j, job' = [job EXCEPT ![r] = j], links' = links, raced' = raced,
                 job[r].pc \in {"config", "exchange", "profile"},
                 j.provider = job[r].provider, j.user = job[r].user
          PROVE  InTurn' /\ OneAccount'
        BY <1>4, <2>2 DEF Active, Checked
    <2>3. CASE ReadConfig(r)
        <3> DEFINE j == [job[r] EXCEPT !.pc = "exchange",
                                       !.config = config[job[r].provider]]
        <3>1. j.provider = job[r].provider /\ j.user = job[r].user
            BY <1>2 DEF Job
        <3>2. CASE End(r, "error")
            BY <1>5, <2>3, <3>2 DEF ReadConfig
        <3>3. CASE job' = [job EXCEPT ![r] = j]
            <4> HIDE DEF j
            <4> QED
                BY <2>2, <2>3, <3>1, <3>3 DEF ReadConfig
        <3> QED
            BY <2>3, <3>2, <3>3 DEF ReadConfig
    <2>4. CASE Exchange(r)
        <3>1. CASE End(r, "error")
            BY <1>5, <2>4, <3>1 DEF Exchange
        <3>2. CASE Goto(r, "profile")
            <4> DEFINE j == [job[r] EXCEPT !.pc = "profile"]
            <4>1. j.provider = job[r].provider /\ j.user = job[r].user
                BY <1>2 DEF Job
            <4>2. job' = [job EXCEPT ![r] = j]
                BY <3>2 DEF Goto
            <4> HIDE DEF j
            <4> QED
                BY <2>2, <2>4, <4>1, <4>2 DEF Exchange
        <3> QED
            BY <2>4, <3>1, <3>2 DEF Exchange
    <2>5. CASE ReadProfile(r)
        <3> DEFINE j == [job[r] EXCEPT !.pc = "write",
                                       !.account = grant[job[r].code].account]
        <3>1. j.provider = job[r].provider /\ j.user = job[r].user
            BY <1>2 DEF Job
        <3>2. job' = [job EXCEPT ![r] = j]
            BY <2>5 DEF ReadProfile, Profiles
        <3> HIDE DEF j
        <3> QED
            BY <2>2, <2>5, <3>1, <3>2 DEF ReadProfile
    <2>6. CASE WriteLink(r) \/ WriteUnanswered(r)
        BY <2>6, WritesShape, WriteKeepsTurn DEF OneInv
    <2>7. CASE FindLink(r)
        <3>1. CASE End(r, "failed")
            BY <1>5, <2>7, <3>1 DEF FindLink
        <3>2. CASE \E i \in LinksOf(job[r].provider, job[r].user) :
                     job' = [job EXCEPT ![r].pc = "delete", ![r].item = i]
            <4>1. PICK i : job' = [job EXCEPT ![r].pc = "delete", ![r].item = i]
                BY <3>2
            <4> DEFINE j == [job[r] EXCEPT !.pc = "delete", !.item = i]
            <4>2. job' = [job EXCEPT ![r] = j]
                BY <4>1
            <4>3. j.provider = job[r].provider /\ j.user = job[r].user /\ j.pc = "delete"
                BY <1>2 DEF Job
            <4> HIDE DEF j
            <4> QED
                BY <1>4, <2>7, <4>2, <4>3 DEF FindLink, Active
        <3> QED
            BY <2>7, <3>1, <3>2 DEF FindLink
    <2>8. CASE DeleteLink(r)
        BY <1>5, <2>8 DEF DeleteLink, KeyOf
    <2>9. CASE CallThrows(r)
        BY <1>5, <2>9 DEF CallThrows
    <2> QED
        BY <1>11, <2>1, <2>3, <2>4, <2>5, <2>6, <2>7, <2>8, <2>9 DEF Step
<1>12. CASE Crash
    <2>1. /\ links' = links /\ raced' = raced
          /\ \A r \in Requests : job'[r] =
                IF Active(r) THEN [job[r] EXCEPT !.pc = "done"] ELSE job[r]
        BY <1>12 DEF Crash, Active
    <2>2. \A c \in Callbacks : ~Active(c)'
        <3> SUFFICES ASSUME NEW c \in Callbacks PROVE ~Active(c)'
            OBVIOUS
        <3>1. c \in Requests /\ job[c] \in Job
            BY <1>2 DEF Requests
        <3>2. CASE Active(c)
            BY <2>1, <3>1, <3>2 DEF Active, Job
        <3>3. CASE ~Active(c)
            BY <2>1, <3>1, <3>3 DEF Active
        <3> QED
            BY <3>2, <3>3
    <2> QED
        BY <1>1, <2>1, <2>2, CalmKeeps
<1>13. CASE UNCHANGED vars
    BY <1>3, <1>13 DEF vars
<1> QED
    BY <1>6, <1>7, <1>8, <1>9, <1>10, <1>11, <1>12, <1>13 DEF Next

(* A user whose callbacks never overlapped, and no check of whose missed   *)
(* an item, has one linked account per provider at most, whatever fails:   *)
(* the check at the head of connectDiscord and connectTwitter is enough    *)
(* exactly as long as nothing runs between it and the write.               *)
THEOREM OneAccountEach == Spec => []OneAccount
<1>1. Init => OneInv
    <2> SUFFICES ASSUME Init PROVE OneInv
        OBVIOUS
    <2>1. InTurn
        BY DEF Init, InTurn, Active, Idle, Requests
    <2>2. OneAccount
        BY DEF Init, OneAccount, LinksOf
    <2> QED
        BY <2>1, <2>2, LinkStart DEF OneInv
<1>2. OneInv => OneAccount
    BY DEF OneInv
<1> QED
    BY <1>1, <1>2, OneStep, PTL DEF Spec

=============================================================================
