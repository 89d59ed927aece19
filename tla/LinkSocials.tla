----------------------------- MODULE LinkSocials ------------------------------
(***************************************************************************)
(* Linking a user's Discord and Twitter accounts: linkSocials.service.ts   *)
(* over the tables Connect-Discord, Connect-Twitter and Social-OAuth.  The *)
(* client sends its user to the provider's consent page, which is built    *)
(* from the stored configuration (discordInfo, twitterurl); the provider   *)
(* redirects the browser to the callback with a code that can be redeemed  *)
(* once and the state of the page, and the callback checks, redeems, reads *)
(* the profile and writes.  Both providers follow the same steps, but only *)
(* Twitter's page and exchange carry a challenge, the user.  Each member   *)
(* of Callbacks and Deletions is one request, and a callback also the      *)
(* random id of the item it writes.                                        *)
(***************************************************************************)
EXTENDS Naturals

CONSTANTS
    Providers,   \* DISCORD and TWITTER, each with a table of links
    Challenged,  \* the providers that are sent a challenge: TWITTER
    Users,
    Accounts,    \* the accounts people have at the providers
    Codes,       \* the codes the providers give out, one per consent
    Callbacks,   \* requests to /linksocial/discord and /linksocial/twitter
    Deletions,   \* DELETE requests to the same paths
    Faults,      \* what may go wrong, a subset of FaultKinds
    MaxConfigs,  \* bound: how often a provider is configured
    MaxMishaps,  \* bound: how many faults other than overlaps happen
    None

(* overlap: callbacks of one user and provider run at the same time.       *)
(* staleRead: a scan misses an item.  callError: an awaited call throws,   *)
(* before or after taking effect.  crash: the process restarts.            *)
FaultKinds == {"overlap", "staleRead", "callError", "crash"}

Link == [id : Callbacks, user : Users, account : Accounts]

Grant == [provider : Providers, user : Users, account : Accounts,
          config   : 1..MaxConfigs, used : BOOLEAN]

ASSUME LinkSocialsAssumption ==
    /\ Callbacks \cap Deletions = {}
    /\ None \notin Callbacks \cup Users \cup Providers \cup Accounts \cup Codes
    /\ None \notin Link \cup Grant
    /\ Faults \subseteq FaultKinds
    /\ MaxConfigs \in Nat /\ MaxMishaps \in Nat

VARIABLES
    links,      \* the items of each provider's Connect table
    config,     \* the version of each provider's Social-OAuth item, 0 for none
    grant,      \* the consent behind each code
    job,        \* the state of each request
    raced,      \* users whose callbacks overlapped or met a stale scan (history)
    mishaps     \* how many faults have happened

vars == <<links, config, grant, job, raced, mishaps>>

Requests == Callbacks \cup Deletions

Job == [pc       : {"idle", "check", "config", "exchange", "profile", "write",
                    "find", "delete", "done"},
        provider : Providers \cup {None},
        user     : Users \cup {None},
        code     : Codes \cup {None},
        config   : 0..MaxConfigs,
        account  : Accounts \cup {None},
        item     : Link \cup {None},
        answer   : {"none", "success", "error", "deleted", "failed"}]

Idle == [pc |-> "idle", provider |-> None, user |-> None, code |-> None,
         config |-> 0, account |-> None, item |-> None, answer |-> "none"]

TypeOK ==
    /\ links \in [Providers -> SUBSET Link]
    /\ config \in [Providers -> 0..MaxConfigs]
    /\ grant \in [Codes -> Grant \cup {None}]
    /\ job \in [Requests -> Job]
    /\ raced \subseteq Providers \X Users
    /\ mishaps \in 0..MaxMishaps

Init ==
    /\ links = [p \in Providers |-> {}]
    /\ config = [p \in Providers |-> 0]
    /\ grant = [k \in Codes |-> None]
    /\ job = [r \in Requests |-> Idle]
    /\ raced = {}
    /\ mishaps = 0

-----------------------------------------------------------------------------
Active(r) == job[r].pc \notin {"idle", "done"}

Goto(r, pc) == job' = [job EXCEPT ![r].pc = pc]

End(r, answer) == job' = [job EXCEPT ![r].pc = "done", ![r].answer = answer]

Mishap(kind) ==
    /\ kind \in Faults
    /\ mishaps < MaxMishaps
    /\ mishaps' = mishaps + 1

LinksOf(provider, user) == {i \in links[provider] : i.user = user}

(* addoauthinfo: the provider's item is replaced.                          *)
AddOAuthInfo(p) ==
    /\ config[p] < MaxConfigs
    /\ config' = [config EXCEPT ![p] = @ + 1]
    /\ UNCHANGED <<links, grant, job, raced, mishaps>>

(* The user follows the page's address, built from the item that is stored *)
(* now (twitterurl; Discord's is built by the client from discordInfo),    *)
(* and consents with one of its accounts.                                  *)
Consent(k, p, user, account) ==
    /\ grant[k] = None
    /\ config[p] > 0
    /\ grant' = [grant EXCEPT ![k] =
                    [provider |-> p, user |-> user, account |-> account,
                     config |-> config[p], used |-> FALSE]]
    /\ UNCHANGED <<links, config, job, raced, mishaps>>

-----------------------------------------------------------------------------
(* connectDiscord and connectTwitter.                                      *)

Connecting(p, user) ==
    \E c \in Callbacks : Active(c) /\ job[c].provider = p /\ job[c].user = user

(* The code and the state are two parameters of an unguarded request to    *)
(* one provider's path: the user is whoever the state names.  A reload of  *)
(* the page repeats the request with the same code.                        *)
Callback(c, p, k, user) ==
    /\ c \in Callbacks
    /\ job[c].pc = "idle"
    /\ grant[k] # None
    /\ job' = [job EXCEPT ![c] = [Idle EXCEPT !.pc = "check", !.provider = p,
                                             !.user = user, !.code = k]]
    /\ IF Connecting(p, user)
         THEN "overlap" \in Faults /\ raced' = raced \cup {<<p, user>>}
         ELSE UNCHANGED raced
    /\ UNCHANGED <<links, config, grant, mishaps>>

(* The user refuses, or a parameter is missing.                            *)
Refused(c) ==
    /\ c \in Callbacks
    /\ job[c].pc = "idle"
    /\ End(c, "error")
    /\ UNCHANGED <<links, config, grant, raced, mishaps>>

(* Faulty variant: the scan's filter compares the wrong attribute.         *)
LinkedById(c) == \E i \in links[job[c].provider] : i.id = c

Linked(c) == LinksOf(job[c].provider, job[c].user) # {}

(* checkIfItemExistOrGetItem(..., 'check').                                *)
CheckLinked(c) ==
    /\ job[c].pc = "check"
    /\ \/ /\ IF Linked(c) THEN End(c, "error") ELSE Goto(c, "config")
          /\ UNCHANGED <<raced, mishaps>>
       \/ /\ Linked(c) /\ Mishap("staleRead")
          /\ Goto(c, "config")
          /\ raced' = raced \cup {<<job[c].provider, job[c].user>>}
    /\ UNCHANGED <<links, config, grant>>

(* oauthInfo throws without an item.                                       *)
ReadConfig(c) ==
    /\ job[c].pc = "config"
    /\ IF config[job[c].provider] = 0
         THEN End(c, "error")
         ELSE job' = [job EXCEPT ![c].pc = "exchange",
                                 ![c].config = config[job[c].provider]]
    /\ UNCHANGED <<links, config, grant, raced, mishaps>>

(* The code is this provider's, and the challenge of twitterUserAccess,    *)
(* its user, is the one of the page on which the consent was given.        *)
Fits(c) ==
    /\ grant[job[c].code].provider = job[c].provider
    /\ job[c].provider \in Challenged => grant[job[c].code].user = job[c].user

(* discordGetTokens, twitterUserAccess: the provider redeems a code once,  *)
(* and only with the configuration the consent was given under.            *)
Exchange(c) ==
    /\ job[c].pc = "exchange"
    /\ LET g == grant[job[c].code]
       IN  IF ~g.used /\ g.config = job[c].config /\ Fits(c)
             THEN /\ grant' = [grant EXCEPT ![job[c].code].used = TRUE]
                  /\ Goto(c, "profile")
             ELSE End(c, "error") /\ UNCHANGED grant
    /\ UNCHANGED <<links, config, raced, mishaps>>

(* Faulty variant: the provider's client is a field of the service, which  *)
(* another callback may have replaced.                                     *)
ProfilesOfSharedClient(c) ==
    {grant[job[d].code].account : d \in {d \in Callbacks : job[d].pc \in {"profile", "write"}}}

(* Faulty variant: a refused profile call yields no account.               *)
ProfileMissing(c) == {None}

Profiles(c) == {grant[job[c].code].account}

(* discordGetPersonalInfo; for Twitter findMyUser in twitterWriteToDB.     *)
ReadProfile(c) ==
    /\ job[c].pc = "profile"
    /\ \E account \in Profiles(c) :
        job' = [job EXCEPT ![c].pc = "write", ![c].account = account]
    /\ UNCHANGED <<links, config, grant, raced, mishaps>>

(* discordWriteToDB, twitterWriteToDB: the id is fresh, nothing is replaced.*)
WriteLink(c) ==
    /\ job[c].pc = "write"
    /\ links' = [links EXCEPT ![job[c].provider] =
                    @ \cup {[id |-> c, user |-> job[c].user, account |-> job[c].account]}]
    /\ End(c, "success")
    /\ UNCHANGED <<config, grant, raced, mishaps>>

-----------------------------------------------------------------------------
(* deleteDiscord and deleteTwitter.                                        *)

Delete(d, p, user) ==
    /\ d \in Deletions
    /\ job[d].pc = "idle"
    /\ job' = [job EXCEPT ![d] = [Idle EXCEPT !.pc = "find", !.provider = p, !.user = user]]
    /\ UNCHANGED <<links, config, grant, raced, mishaps>>

(* checkIfItemExistOrGetItem(..., 'getItem'): the first item of the scan.  *)
FindLink(d) ==
    /\ job[d].pc = "find"
    /\ LET found == LinksOf(job[d].provider, job[d].user)
       IN  \/ /\ found = {}
              /\ End(d, "failed")
           \/ \E i \in found : job' = [job EXCEPT ![d].pc = "delete", ![d].item = i]
    /\ UNCHANGED <<links, config, grant, raced, mishaps>>

(* itemFound.id.S: the item is unmarshalled already, its id is a string    *)
(* and has no S.                                                           *)
KeyOf(item) == None

(* The client cannot serialise an empty key: send throws, and the catch    *)
(* answers for it.                                                         *)
DeleteLink(d) ==
    /\ job[d].pc = "delete"
    /\ LET key == KeyOf(job[d].item)
       IN  IF key = None
             THEN End(d, "failed") /\ UNCHANGED links
             ELSE /\ links' = [links EXCEPT ![job[d].provider] = {i \in @ : i.id # key}]
                  /\ End(d, "deleted")
    /\ UNCHANGED <<config, grant, raced, mishaps>>

-----------------------------------------------------------------------------
CallThrows(r) ==
    /\ Active(r)
    /\ Mishap("callError")
    /\ End(r, IF r \in Callbacks THEN "error" ELSE "failed")
    /\ UNCHANGED <<links, config, grant, raced>>

(* The write takes effect and its answer is lost.                          *)
WriteUnanswered(c) ==
    /\ job[c].pc = "write"
    /\ Mishap("callError")
    /\ links' = [links EXCEPT ![job[c].provider] =
                    @ \cup {[id |-> c, user |-> job[c].user, account |-> job[c].account]}]
    /\ End(c, "error")
    /\ UNCHANGED <<config, grant, raced>>

Crash ==
    /\ \E r \in Requests : Active(r)
    /\ Mishap("crash")
    /\ job' = [r \in Requests |->
                IF Active(r) THEN [job[r] EXCEPT !.pc = "done"] ELSE job[r]]
    /\ UNCHANGED <<links, config, grant, raced>>

Step(r) ==
    \/ CheckLinked(r) \/ ReadConfig(r) \/ Exchange(r) \/ ReadProfile(r)
    \/ WriteLink(r) \/ FindLink(r) \/ DeleteLink(r)
    \/ CallThrows(r) \/ WriteUnanswered(r)

Next ==
    \/ \E p \in Providers : AddOAuthInfo(p)
    \/ \E k \in Codes, p \in Providers, u \in Users, a \in Accounts : Consent(k, p, u, a)
    \/ \E c \in Callbacks, p \in Providers, k \in Codes, u \in Users : Callback(c, p, k, u)
    \/ \E c \in Callbacks : Refused(c)
    \/ \E d \in Deletions, p \in Providers, u \in Users : Delete(d, p, u)
    \/ \E r \in Requests : Step(r)
    \/ Crash

Spec == Init /\ [][Next]_vars

-----------------------------------------------------------------------------
(* A user has at most one linked account per provider, unless its own      *)
(* callbacks overlapped or a scan missed its item: the check before the    *)
(* four awaited calls is the only thing that keeps a second item out.      *)
OneAccount ==
    \A p \in Providers, u \in Users : <<p, u>> \notin raced =>
        \A i, j \in LinksOf(p, u) : i = j

(* Every link names the account with which its code was consented to, at   *)
(* its provider, and for Twitter the very user the consent was for; the    *)
(* code was redeemed, and two links never stem from one consent: callbacks *)
(* in progress, repeated or sent to the wrong path, do not mix up their    *)
(* tokens.  The user of a Discord link is whoever the callback's state     *)
(* named: nothing in the code compares it with the consent.                *)
LinkTruthful ==
    \A p \in Providers : \A i \in links[p] :
        LET g == grant[job[i.id].code]
        IN  /\ g.used /\ g.provider = p /\ g.account = i.account
            /\ p \in Challenged => g.user = i.user
            /\ \A j \in links[p] : job[j.id].code = job[i.id].code => i = j

(* "Disconnect Users Discord" (linkSocials.controller.ts): a request that  *)
(* finds the user's linked account deletes it.  Checked without faults.    *)
Disconnects ==
    \A d \in Deletions :
        job[d].pc = "done" /\ job[d].item # None => job[d].answer = "deleted"
=============================================================================
