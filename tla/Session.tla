------------------------------ MODULE Session ------------------------------
(***************************************************************************)
(* Challenges and tokens (src/security.rs, src/modules/auth, the lookup in *)
(* src/middleware/auth.rs).  A challenge is kept by the replica that made  *)
(* it, next to the private key of that process, and is taken out by the    *)
(* first request that names it.  A token is signed for a day with a secret *)
(* that all replicas share; each replica remembers the tokens it has seen  *)
(* for an hour and then does not look into them again.  Nothing is shared  *)
(* between the caches of two replicas, and a restart empties them.         *)
(***************************************************************************)
EXTENDS Naturals, FiniteSets

CONSTANTS
  User, Process,
  Challenge,     \* bound: ids of challenges
  Call,          \* requests that run at once
  TokenLife,     \* Claims::exp: 24 hours
  Leeway,        \* Validation::leeway: 60 seconds
  SessionTtl,    \* lifetime of an entry of sessions: 3600 seconds
  ChallengeTtl,  \* CHALLENGE_TTL: 120 seconds
  MaxTime,       \* bound: the last moment
  MaxTokens,     \* bound: how many tokens are issued
  Unset

ASSUME SessionAssumption ==
  /\ TokenLife \in Nat /\ Leeway \in Nat /\ MaxTime \in Nat /\ MaxTokens \in Nat
  /\ SessionTtl \in Nat \ {0} /\ ChallengeTtl \in Nat \ {0}
  /\ Unset \notin Process

Time == 0 .. MaxTime
(* Header, claims and signature depend on user and second only. *)
Token == [sub : User, iat : Time]
Door == {"rest", "vk"}

VARIABLES
  now,
  accounts,    \* users with a row
  challenges,  \* challenges[r]: the moment each challenge r keeps was made
  sessions,    \* sessions[r]: the moment each token r remembers was put there
  issued,      \* tokens that are in the hands of users
  phase, call, \* the next step of a request, and what it works on
  opened,      \* history: opened[c]: how often c was opened
  maker        \* history: maker[c]: the replica that made c, in its present life

sessionVars == <<now, accounts, challenges, sessions, issued, phase, call,
                 opened, maker>>
caches == <<challenges, sessions>>
openings == <<opened, maker>>

NoCall == [at |-> Unset, challenge |-> Unset, user |-> Unset, token |-> Unset, door |-> Unset]
Entries(S) == UNION {[D -> Time] : D \in SUBSET S}
Keep(f, S) == [x \in DOMAIN f \cap S |-> f[x]]
With(f, x) == [y \in DOMAIN f \cup {x} |-> IF y = x THEN now ELSE f[y]]

SessionInit ==
  /\ now = 0
  /\ accounts = User
  /\ challenges = [r \in Process |-> <<>>]
  /\ sessions = [r \in Process |-> <<>>]
  /\ issued = {}
  /\ phase = [t \in Call |-> "idle"] /\ call = [t \in Call |-> NoCall]
  /\ opened = [c \in Challenge |-> 0]
  /\ maker = [c \in Challenge |-> Unset]

Step(t, label, fields) ==
  phase' = [phase EXCEPT ![t] = label] /\ call' = [call EXCEPT ![t] = fields]
EndCall(t) == Step(t, "idle", NoCall)

-----------------------------------------------------------------------------
IssueChallenge(r, c) ==
  /\ maker[c] = Unset
  /\ challenges' = [challenges EXCEPT ![r] = With(@, c)]
  /\ maker' = [maker EXCEPT ![c] = r]
  /\ UNCHANGED <<now, accounts, sessions, issued, phase, call, opened>>

(* A sealed password comes with logging in and signing up, where the       *)
(* security check is first, and with changing the password and leaving.    *)
BringSealed(t, r, c, u) ==
  /\ phase[t] = "idle"
  /\ \E label \in {"check", "open"} :
       Step(t, label, [NoCall EXCEPT !.at = r, !.challenge = c, !.user = u])
  /\ UNCHANGED <<now, accounts, caches, issued, openings>>

(* Turnstile answers yes, or the request ends with an error. *)
PassCheck(t) ==
  /\ phase[t] = "check"
  /\ Step(t, "open", call[t]) \/ EndCall(t)
  /\ UNCHANGED <<now, accounts, caches, issued, openings>>

(* Mistake: looked up now, to be removed when the password was right. *)
OpenWithoutRemoving(t) ==
  LET r == call[t].at  c == call[t].challenge IN
  /\ phase[t] = "open"
  /\ opened' = IF c \in DOMAIN challenges[r] THEN [opened EXCEPT ![c] = @ + 1] ELSE opened
  /\ \/ c \in DOMAIN challenges[r] /\ Step(t, "authenticate", call[t])
     \/ EndCall(t)
  /\ UNCHANGED <<now, accounts, caches, issued, maker>>

(***************************************************************************)
(* The challenge is taken out of the cache of the replica the request has  *)
(* reached, which refuses it if there is none; then what was sealed is     *)
(* opened, and refused if it is not for the nonce.  A password to be       *)
(* changed, or a wrong one, ends the request with no token.                *)
(***************************************************************************)
OpenSealed(t) ==
  LET r == call[t].at  c == call[t].challenge IN
  /\ phase[t] = "open"
  /\ challenges' = [challenges EXCEPT ![r] = Keep(@, Challenge \ {c})]
  /\ opened' = IF c \in DOMAIN challenges[r] THEN [opened EXCEPT ![c] = @ + 1] ELSE opened
  /\ \/ c \in DOMAIN challenges[r] /\ Step(t, "authenticate", call[t])
     \/ EndCall(t)
  /\ UNCHANGED <<now, accounts, sessions, issued, maker>>

(* /token of the VK API takes the password as it is. *)
GrantToken(t, r, u) ==
  /\ phase[t] = "idle"
  /\ Step(t, "authenticate", [NoCall EXCEPT !.at = r, !.user = u])
  /\ UNCHANGED <<now, accounts, caches, issued, openings>>

Authenticate(t) ==
  /\ phase[t] = "authenticate"
  /\ IF call[t].user \in accounts THEN Step(t, "issue", call[t]) ELSE EndCall(t)
  /\ UNCHANGED <<now, accounts, caches, issued, openings>>

IssueToken(t) ==
  LET k == [sub |-> call[t].user, iat |-> now] IN
  /\ phase[t] = "issue"
  /\ Cardinality(issued \cup {k}) <= MaxTokens
  /\ sessions' = [sessions EXCEPT ![call[t].at] = With(@, k)]
  /\ issued' = issued \cup {k}
  /\ EndCall(t)
  /\ UNCHANGED <<now, accounts, challenges, openings>>

-----------------------------------------------------------------------------
Expired(k) == now > k.iat + TokenLife + Leeway

(* Mistake: every use puts the token into the cache again. *)
VerifyRenewing(t, r, k, door) ==
  /\ phase[t] = "idle"
  /\ IF k \in DOMAIN sessions[r] \/ ~Expired(k)
     THEN /\ sessions' = [sessions EXCEPT ![r] = With(@, k)]
          /\ Step(t, IF door = "rest" THEN "profile" ELSE "accepted",
                  [NoCall EXCEPT !.at = r, !.token = k, !.door = door])
     ELSE /\ Step(t, "refused", [NoCall EXCEPT !.token = k, !.door = door])
          /\ UNCHANGED sessions
  /\ UNCHANGED <<now, accounts, challenges, issued, openings>>

(***************************************************************************)
(* A token the replica remembers is taken for good; another one is decoded *)
(* and, unless it has expired, remembered.  The REST API then looks for    *)
(* the account, the VK API does not.                                       *)
(***************************************************************************)
VerifyToken(t, r, k, door) ==
  /\ phase[t] = "idle"
  /\ IF k \in DOMAIN sessions[r] \/ ~Expired(k)
     THEN /\ sessions' = IF k \in DOMAIN sessions[r] THEN sessions
                         ELSE [sessions EXCEPT ![r] = With(@, k)]
          /\ Step(t, IF door = "rest" THEN "profile" ELSE "accepted",
                  [NoCall EXCEPT !.at = r, !.token = k, !.door = door])
     ELSE /\ Step(t, "refused", [NoCall EXCEPT !.token = k, !.door = door])
          /\ UNCHANGED sessions
  /\ UNCHANGED <<now, accounts, challenges, issued, openings>>

(* The row is read first, whatever a cache says.                           *)
LookUpProfile(t) ==
  /\ phase[t] = "profile"
  /\ Step(t, IF call[t].token.sub \in accounts THEN "accepted" ELSE "refused",
             call[t])
  /\ UNCHANGED <<now, accounts, caches, issued, openings>>

Answer(t) ==
  /\ phase[t] \in {"accepted", "refused"}
  /\ EndCall(t)
  /\ UNCHANGED <<now, accounts, caches, issued, openings>>

(* Only the replica that is asked forgets the token. *)
Logout(r, k) ==
  /\ sessions' = [sessions EXCEPT ![r] = Keep(@, Token \ {k})]
  /\ UNCHANGED <<now, accounts, challenges, issued, phase, call, openings>>

LoseAccount(u) ==
  /\ accounts' = accounts \ {u}
  /\ UNCHANGED <<now, caches, issued, phase, call, openings>>

(* The key pair, with which challenges are sealed, is made anew as well. *)
Restart(r) ==
  /\ challenges' = [challenges EXCEPT ![r] = <<>>]
  /\ sessions' = [sessions EXCEPT ![r] = <<>>]
  /\ phase' = [t \in Call |-> IF call[t].at = r THEN "idle" ELSE phase[t]]
  /\ call' = [t \in Call |-> IF call[t].at = r THEN NoCall ELSE call[t]]
  /\ UNCHANGED <<now, accounts, issued, openings>>

Unexpired(f, ttl) == {x \in DOMAIN f : now + 1 < f[x] + ttl}

Tick ==
  /\ now < MaxTime
  /\ now' = now + 1
  /\ challenges' = [r \in Process |-> Keep(challenges[r], Unexpired(challenges[r], ChallengeTtl))]
  /\ sessions' = [r \in Process |-> Keep(sessions[r], Unexpired(sessions[r], SessionTtl))]
  /\ UNCHANGED <<accounts, issued, phase, call, openings>>

SessionNext ==
  \/ Tick
  \/ \E u \in User : LoseAccount(u)
  \/ \E r \in Process :
       \/ Restart(r)
       \/ \E c \in Challenge : IssueChallenge(r, c)
       \/ \E k \in issued : Logout(r, k)
       \/ \E t \in Call :
            \/ \E u \in User : GrantToken(t, r, u) \/ \E c \in Challenge : BringSealed(t, r, c, u)
            \/ \E k \in issued, door \in Door : VerifyToken(t, r, k, door)
  \/ \E t \in Call :
       \/ PassCheck(t) \/ OpenSealed(t) \/ Authenticate(t) \/ IssueToken(t)
       \/ LookUpProfile(t) \/ Answer(t)

SessionSpec == SessionInit /\ [][SessionNext]_sessionVars

-----------------------------------------------------------------------------
SessionTypeOK ==
  /\ now \in Time /\ accounts \subseteq User
  /\ challenges \in [Process -> Entries(Challenge)]
  /\ \A r \in Process : DOMAIN sessions[r] \subseteq issued
  /\ issued \subseteq Token
  /\ phase \in [Call -> {"idle", "check", "open", "authenticate", "issue",
                     "profile", "accepted", "refused"}]
  /\ opened \in [Challenge -> Nat] /\ maker \in [Challenge -> Process \cup {Unset}]

(***************************************************************************)
(* A challenge opens one sealed password, whichever requests name it at    *)
(* once and whatever replica they reach, and only while it is kept: it is  *)
(* in the cache of its maker until its time is over, and never comes back. *)
(***************************************************************************)
OpensOnce ==
  \A c \in Challenge :
    /\ opened[c] <= 1
    /\ \A r \in Process : c \in DOMAIN challenges[r] =>
         opened[c] = 0 /\ r = maker[c] /\ now < challenges[r][c] + ChallengeTtl

(***************************************************************************)
(* A token is accepted no longer than its day, the leeway and the hour     *)
(* some replica may remember it, however often it is used meanwhile; and   *)
(* within its day it is refused nowhere, whatever was restarted or logged  *)
(* out, unless the account has gone.                                       *)
(***************************************************************************)
TokensLast ==
  [][ \A t \in Call : phase'[t] # phase[t] =>
        LET k == call'[t].token IN
        /\ phase'[t] \in {"accepted", "profile"} /\ phase[t] = "idle" =>
             now < k.iat + TokenLife + Leeway + SessionTtl
        /\ phase'[t] = "refused" => Expired(k) \/ k.sub \notin accounts ]_sessionVars
=============================================================================
