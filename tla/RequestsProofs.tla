---------------------------- MODULE RequestsProofs ----------------------------
(***************************************************************************)
(* What holds of accounts, of sessions, of the rate limit, of the support  *)
(* desk, of lists and of uploads, which share no variable, for any number  *)
(* of replicas, requests, users, tickets, rows and parts of a file, and    *)
(* any lifetimes.                                                          *)
(***************************************************************************)
EXTENDS Session, Gate, Support, Inspect, Accounts, Pages, FiniteSetTheorems, TLAPS

(***************************************************************************)
(* Sessions: what a request works on at each of its steps.                 *)
(***************************************************************************)
JobOK(t) ==
  /\ phase[t] \in {"check", "open"} => call[t].at \in Process /\ call[t].challenge \in Challenge
  /\ phase[t] \in {"authenticate", "issue"} => call[t].at \in Process
  /\ phase[t] \in {"check", "open", "authenticate", "issue"} => call[t].user \in User
  /\ phase[t] \in {"profile", "accepted", "refused"} => call[t].token \in issued

SessionTypes ==
  /\ SessionTypeOK
  /\ sessions \in [Process -> Entries(Token)]
  /\ DOMAIN call = Call
  /\ \A t \in Call : JobOK(t)

(***************************************************************************)
(* What a replica remembers it put there while the token was valid, and    *)
(* drops in time; what was opened had been made.                           *)
(***************************************************************************)
Remembered ==
  \A r \in Process : \A k \in DOMAIN sessions[r] :
    /\ sessions[r][k] <= k.iat + TokenLife + Leeway
    /\ now < sessions[r][k] + SessionTtl

OpenedWasMade == \A c \in Challenge : maker[c] = Unset => opened[c] = 0

SessionIInv == SessionTypes /\ OpensOnce /\ OpenedWasMade /\ Remembered

-----------------------------------------------------------------------------
(***************************************************************************)
(* The two operators on caches: what is kept, and what is put there.       *)
(***************************************************************************)
LEMMA KeepFacts ==
  ASSUME NEW X, NEW S, NEW f \in Entries(X)
  PROVE  /\ Keep(f, S) \in Entries(X)
         /\ DOMAIN Keep(f, S) = DOMAIN f \cap S
         /\ \A x \in DOMAIN f \cap S : Keep(f, S)[x] = f[x]
<1>1. PICK D \in SUBSET X : f \in [D -> Time]
  BY DEF Entries
<1>2. Keep(f, S) \in [D \cap S -> Time]
  BY <1>1 DEF Keep
<1>3. D \cap S \in SUBSET X
  OBVIOUS
<1> QED BY <1>1, <1>2, <1>3 DEF Entries, Keep

LEMMA WithFacts ==
  ASSUME NEW X, NEW x \in X, NEW f \in Entries(X), now \in Time
  PROVE  /\ With(f, x) \in Entries(X)
         /\ DOMAIN With(f, x) = DOMAIN f \cup {x}
         /\ With(f, x)[x] = now
         /\ \A y \in DOMAIN f \ {x} : With(f, x)[y] = f[y]
<1>1. PICK D \in SUBSET X : f \in [D -> Time]
  BY DEF Entries
<1>2. With(f, x) \in [D \cup {x} -> Time]
  BY <1>1 DEF With
<1>3. D \cup {x} \in SUBSET X
  BY <1>1
<1> QED BY <1>1, <1>2, <1>3 DEF Entries, With

LEMMA NoEntries == \A X : <<>> \in Entries(X) /\ DOMAIN <<>> = {}
<1> SUFFICES ASSUME NEW X PROVE <<>> \in [{} -> Time] /\ {} \in SUBSET X /\ DOMAIN <<>> = {}
  BY DEF Entries
<1> QED OBVIOUS

LEMMA EntryTime ==
  ASSUME NEW X, NEW f \in Entries(X), NEW x \in DOMAIN f
  PROVE  x \in X /\ f[x] \in Time
  BY DEF Entries

-----------------------------------------------------------------------------
LEMMA SessionStarts == SessionInit => SessionIInv
<1> SUFFICES ASSUME SessionInit PROVE SessionIInv
  OBVIOUS
<1> USE DEF SessionInit
<1>1. SessionTypes
  <2>1. 0 \in Time
    BY SessionAssumption DEF Time
  <2>2. challenges \in [Process -> Entries(Challenge)] /\ sessions \in [Process -> Entries(Token)]
    BY NoEntries
  <2>3. \A r \in Process : DOMAIN sessions[r] = {}
    BY NoEntries
  <2> QED BY <2>1, <2>2, <2>3 DEF SessionTypes, SessionTypeOK, JobOK
<1>2. OpensOnce /\ OpenedWasMade /\ Remembered
  BY NoEntries DEF OpensOnce, OpenedWasMade, Remembered
<1> QED BY <1>1, <1>2 DEF SessionIInv

(***************************************************************************)
(* A step of a request that leaves the caches alone.                       *)
(***************************************************************************)
LEMMA RequestStep ==
  ASSUME SessionIInv, NEW t \in Call,
         NEW l \in {"idle", "check", "open", "authenticate", "issue",
                    "profile", "accepted", "refused"}, NEW j,
         Step(t, l, j),
         /\ l \in {"check", "open"} => j.at \in Process /\ j.challenge \in Challenge
         /\ l \in {"authenticate", "issue"} => j.at \in Process
         /\ l \in {"check", "open", "authenticate", "issue"} => j.user \in User
         /\ l \in {"profile", "accepted", "refused"} => j.token \in issued,
         UNCHANGED <<now, accounts, caches, issued, openings>>
  PROVE  SessionIInv'
<1> USE DEF caches, openings
<1>1. /\ phase' = [phase EXCEPT ![t] = l] /\ call' = [call EXCEPT ![t] = j]
      /\ phase'[t] = l /\ call'[t] = j
      /\ \A s \in Call \ {t} : phase'[s] = phase[s] /\ call'[s] = call[s]
  BY DEF Step, SessionIInv, SessionTypes, SessionTypeOK
<1>2. \A s \in Call : JobOK(s)'
  BY <1>1 DEF SessionIInv, SessionTypes, JobOK
<1>3. SessionTypeOK'
  BY <1>1 DEF SessionIInv, SessionTypes, SessionTypeOK
<1>4. SessionTypes'
  BY <1>1, <1>2, <1>3 DEF SessionIInv, SessionTypes
<1>5. OpensOnce' /\ OpenedWasMade' /\ Remembered'
  BY DEF SessionIInv, OpensOnce, OpenedWasMade, Remembered
<1> QED BY <1>4, <1>5 DEF SessionIInv

LEMMA IdleStep ==
  ASSUME SessionIInv, NEW t \in Call, EndCall(t), UNCHANGED <<now, accounts, caches, issued, openings>>
  PROVE  SessionIInv'
  BY RequestStep DEF EndCall

LEMMA BringSealedStep ==
  ASSUME SessionIInv, NEW t \in Call, NEW r \in Process, NEW c \in Challenge, NEW u \in User,
         BringSealed(t, r, c, u)
  PROVE  SessionIInv'
<1> DEFINE j == [NoCall EXCEPT !.at = r, !.challenge = c, !.user = u]
<1>1. j.at = r /\ j.challenge = c /\ j.user = u
  BY DEF NoCall
<1>2. PICK l \in {"check", "open"} : Step(t, l, j)
  BY DEF BringSealed
<1>3. UNCHANGED <<now, accounts, caches, issued, openings>>
  BY DEF BringSealed
<1> HIDE DEF j
<1> QED BY <1>1, <1>2, <1>3, RequestStep

LEMMA PassCheckStep ==
  ASSUME SessionIInv, NEW t \in Call, PassCheck(t)
  PROVE  SessionIInv'
<1>1. JobOK(t) /\ phase[t] = "check" /\ UNCHANGED <<now, accounts, caches, issued, openings>>
  BY DEF PassCheck, SessionIInv, SessionTypes
<1>2. CASE Step(t, "open", call[t])
  BY <1>1, <1>2, RequestStep DEF JobOK
<1>3. CASE EndCall(t)
  BY <1>1, <1>3, IdleStep
<1> QED BY <1>2, <1>3 DEF PassCheck

LEMMA GrantTokenStep ==
  ASSUME SessionIInv, NEW t \in Call, NEW r \in Process, NEW u \in User, GrantToken(t, r, u)
  PROVE  SessionIInv'
<1> DEFINE j == [NoCall EXCEPT !.at = r, !.user = u]
<1>1. j.at = r /\ j.user = u
  BY DEF NoCall
<1>2. Step(t, "authenticate", j) /\ UNCHANGED <<now, accounts, caches, issued, openings>>
  BY DEF GrantToken
<1> HIDE DEF j
<1> QED BY <1>1, <1>2, RequestStep

LEMMA AuthenticateStep ==
  ASSUME SessionIInv, NEW t \in Call, Authenticate(t)
  PROVE  SessionIInv'
<1>1. /\ JobOK(t) /\ phase[t] = "authenticate"
      /\ UNCHANGED <<now, accounts, caches, issued, openings>>
  BY DEF Authenticate, SessionIInv, SessionTypes
<1>2. CASE Step(t, "issue", call[t])
  BY <1>1, <1>2, RequestStep DEF JobOK
<1>3. CASE EndCall(t)
  BY <1>1, <1>3, IdleStep
<1> QED BY <1>2, <1>3 DEF Authenticate

LEMMA LookUpProfileStep ==
  ASSUME SessionIInv, NEW t \in Call, LookUpProfile(t)
  PROVE  SessionIInv'
<1> DEFINE l == IF call[t].token.sub \in accounts THEN "accepted" ELSE "refused"
<1>1. /\ JobOK(t) /\ phase[t] = "profile" /\ Step(t, l, call[t]) /\ l \in {"accepted", "refused"}
      /\ UNCHANGED <<now, accounts, caches, issued, openings>>
  BY DEF LookUpProfile, SessionIInv, SessionTypes
<1> HIDE DEF l
<1> QED BY <1>1, RequestStep DEF JobOK

LEMMA AnswerStep ==
  ASSUME SessionIInv, NEW t \in Call, Answer(t)
  PROVE  SessionIInv'
  BY IdleStep DEF Answer

-----------------------------------------------------------------------------
(***************************************************************************)
(* A step that changes the tokens some replica remembers.                  *)
(***************************************************************************)
LEMMA SessionsStep ==
  ASSUME SessionIInv,
         sessions' \in [Process -> Entries(Token)], issued \subseteq issued', issued' \subseteq Token,
         accounts' \subseteq User,
         \A r \in Process : \A k \in DOMAIN sessions'[r] :
           /\ k \in issued'
           /\ \/ k \in DOMAIN sessions[r] /\ sessions'[r][k] = sessions[r][k]
              \/ sessions'[r][k] = now /\ now <= k.iat + TokenLife + Leeway,
         phase' \in [Call -> {"idle", "check", "open", "authenticate", "issue",
                          "profile", "accepted", "refused"}],
         DOMAIN call' = Call, \A t \in Call : JobOK(t)',
         UNCHANGED <<now, challenges, openings>>
  PROVE  SessionIInv'
<1> USE DEF openings
<1>1. SessionTypes'
  BY DEF SessionIInv, SessionTypes, SessionTypeOK
<1>2. OpensOnce' /\ OpenedWasMade'
  BY DEF SessionIInv, OpensOnce, OpenedWasMade
<1>3. Remembered'
  <2>1. now \in Nat /\ now < now + SessionTtl
    BY SessionAssumption DEF SessionIInv, SessionTypes, SessionTypeOK, Time
  <2> QED BY <2>1 DEF SessionIInv, Remembered
<1> QED BY <1>1, <1>2, <1>3 DEF SessionIInv

LEMMA IssueTokenStep ==
  ASSUME SessionIInv, NEW t \in Call, IssueToken(t)
  PROVE  SessionIInv'
<1> DEFINE k == [sub |-> call[t].user, iat |-> now]
           r == call[t].at
<1>1. /\ phase[t] = "issue" /\ r \in Process /\ call[t].user \in User /\ now \in Time
      /\ sessions[r] \in Entries(Token)
  BY DEF IssueToken, SessionIInv, SessionTypes, SessionTypeOK, JobOK
<1>2. /\ sessions' = [sessions EXCEPT ![r] = With(@, k)] /\ issued' = issued \cup {k} /\ EndCall(t)
      /\ UNCHANGED <<now, accounts, challenges, openings>>
  BY DEF IssueToken
<1>3. k \in Token /\ k.iat = now
  BY <1>1 DEF Token
<1> HIDE DEF k
<1>4. /\ With(sessions[r], k) \in Entries(Token)
      /\ DOMAIN With(sessions[r], k) = DOMAIN sessions[r] \cup {k}
      /\ With(sessions[r], k)[k] = now
      /\ \A y \in DOMAIN sessions[r] \ {k} : With(sessions[r], k)[y] = sessions[r][y]
  <2>1. \A y \in DOMAIN sessions[r] \ {k} : With(sessions[r], k)[y] = sessions[r][y]
    BY DEF With
  <2>2. /\ With(sessions[r], k) \in Entries(Token)
        /\ DOMAIN With(sessions[r], k) = DOMAIN sessions[r] \cup {k}
        /\ With(sessions[r], k)[k] = now
    BY <1>1, <1>3, WithFacts, Zenon
  <2> QED BY <2>1, <2>2
<1>5. sessions' \in [Process -> Entries(Token)] /\ sessions'[r] = With(sessions[r], k)
      /\ \A q \in Process \ {r} : sessions'[q] = sessions[q]
  BY <1>1, <1>2, <1>4 DEF SessionIInv, SessionTypes
<1>6. now <= k.iat + TokenLife + Leeway
  BY <1>1, <1>3, SessionAssumption DEF Time
<1>7. ASSUME NEW q \in Process, NEW y \in DOMAIN sessions'[q]
      PROVE  /\ y \in issued'
             /\ \/ y \in DOMAIN sessions[q] /\ sessions'[q][y] = sessions[q][y]
                \/ sessions'[q][y] = now /\ now <= y.iat + TokenLife + Leeway
  <2>1. CASE q # r
    BY <1>2, <1>5, <1>7, <2>1 DEF SessionIInv, SessionTypes, SessionTypeOK
  <2>2. CASE q = r /\ y = k
    BY <1>2, <1>4, <1>5, <1>6, <2>2
  <2>3. CASE q = r /\ y # k
    BY <1>2, <1>4, <1>5, <1>7, <2>3 DEF SessionIInv, SessionTypes, SessionTypeOK
  <2> QED BY <2>1, <2>2, <2>3
<1>8. /\ phase' = [phase EXCEPT ![t] = "idle"] /\ call' = [call EXCEPT ![t] = NoCall] /\ phase'[t] = "idle"
      /\ \A s \in Call \ {t} : phase'[s] = phase[s] /\ call'[s] = call[s]
  BY <1>2 DEF EndCall, Step, SessionIInv, SessionTypes, SessionTypeOK
<1>9. DOMAIN call' = Call /\ \A s \in Call : JobOK(s)'
  BY <1>2, <1>8 DEF SessionIInv, SessionTypes, JobOK
<1>10. issued' \subseteq Token /\ accounts' \subseteq User
      /\ phase' \in [Call -> {"idle", "check", "open", "authenticate", "issue",
                           "profile", "accepted", "refused"}]
  BY <1>2, <1>3, <1>8 DEF SessionIInv, SessionTypes, SessionTypeOK
<1> QED BY <1>2, <1>5, <1>7, <1>9, <1>10, SessionsStep

LEMMA VerifyTokenStep ==
  ASSUME SessionIInv, NEW t \in Call, NEW r \in Process, NEW k \in issued, NEW door \in Door,
         VerifyToken(t, r, k, door)
  PROVE  SessionIInv'
<1> DEFINE taken == [NoCall EXCEPT !.at = r, !.token = k, !.door = door]
           refused == [NoCall EXCEPT !.token = k, !.door = door]
           l == IF door = "rest" THEN "profile" ELSE "accepted"
<1>1. taken.token = k /\ refused.token = k /\ l \in {"profile", "accepted"}
  BY DEF NoCall
<1>2. UNCHANGED <<now, accounts, challenges, issued, openings>>
  BY DEF VerifyToken
<1>3. CASE Step(t, "refused", refused) /\ UNCHANGED sessions
  <2> HIDE DEF refused
  <2> QED BY <1>1, <1>2, <1>3, RequestStep DEF caches
<1>4. CASE Step(t, l, taken) /\ UNCHANGED sessions
  <2> HIDE DEF taken, l
  <2> QED BY <1>1, <1>2, <1>4, RequestStep DEF caches
<1>5. CASE Step(t, l, taken) /\ ~Expired(k) /\ sessions' = [sessions EXCEPT ![r] = With(@, k)]
  <2> HIDE DEF taken, l
  <2>1. now \in Time /\ sessions[r] \in Entries(Token) /\ k \in Token
    BY DEF SessionIInv, SessionTypes, SessionTypeOK
  <2>2. /\ With(sessions[r], k) \in Entries(Token)
        /\ DOMAIN With(sessions[r], k) = DOMAIN sessions[r] \cup {k}
        /\ With(sessions[r], k)[k] = now
        /\ \A y \in DOMAIN sessions[r] \ {k} : With(sessions[r], k)[y] = sessions[r][y]
    <3>1. \A y \in DOMAIN sessions[r] \ {k} : With(sessions[r], k)[y] = sessions[r][y]
      BY DEF With
    <3>2. /\ With(sessions[r], k) \in Entries(Token)
          /\ DOMAIN With(sessions[r], k) = DOMAIN sessions[r] \cup {k}
          /\ With(sessions[r], k)[k] = now
      BY <2>1, WithFacts, Zenon
    <3> QED BY <3>1, <3>2
  <2>3. sessions' \in [Process -> Entries(Token)] /\ sessions'[r] = With(sessions[r], k)
        /\ \A q \in Process \ {r} : sessions'[q] = sessions[q]
    BY <1>5, <2>2 DEF SessionIInv, SessionTypes
  <2>4. now <= k.iat + TokenLife + Leeway
    BY <1>5, <2>1, SessionAssumption DEF Expired, Time, Token
  <2>5. ASSUME NEW q \in Process, NEW y \in DOMAIN sessions'[q]
        PROVE  /\ y \in issued'
               /\ \/ y \in DOMAIN sessions[q] /\ sessions'[q][y] = sessions[q][y]
                  \/ sessions'[q][y] = now /\ now <= y.iat + TokenLife + Leeway
    <3>1. CASE q # r
      BY <1>2, <2>3, <2>5, <3>1 DEF SessionIInv, SessionTypes, SessionTypeOK
    <3>2. CASE q = r /\ y = k
      BY <1>2, <2>2, <2>3, <2>4, <3>2
    <3>3. CASE q = r /\ y # k
      BY <1>2, <2>2, <2>3, <2>5, <3>3 DEF SessionIInv, SessionTypes, SessionTypeOK
    <3> QED BY <3>1, <3>2, <3>3
  <2>6. /\ phase' = [phase EXCEPT ![t] = l] /\ call' = [call EXCEPT ![t] = taken]
        /\ phase'[t] = l /\ call'[t] = taken
        /\ \A s \in Call \ {t} : phase'[s] = phase[s] /\ call'[s] = call[s]
    BY <1>5 DEF Step, SessionIInv, SessionTypes, SessionTypeOK
  <2>7. DOMAIN call' = Call /\ \A s \in Call : JobOK(s)'
    BY <1>1, <1>2, <2>6 DEF SessionIInv, SessionTypes, JobOK
  <2>8. issued' \subseteq Token /\ accounts' \subseteq User
        /\ phase' \in [Call -> {"idle", "check", "open", "authenticate", "issue",
                             "profile", "accepted", "refused"}]
    BY <1>1, <1>2, <2>6 DEF SessionIInv, SessionTypes, SessionTypeOK
  <2> QED BY <1>2, <2>3, <2>5, <2>7, <2>8, SessionsStep
<1> QED BY <1>3, <1>4, <1>5 DEF VerifyToken

LEMMA LogoutStep ==
  ASSUME SessionIInv, NEW r \in Process, NEW k \in issued, Logout(r, k)
  PROVE  SessionIInv'
<1> DEFINE S == Token \ {k}
<1>1. /\ sessions' = [sessions EXCEPT ![r] = Keep(@, S)]
      /\ UNCHANGED <<now, accounts, challenges, issued, phase, call, openings>>
  BY DEF Logout
<1> HIDE DEF S
<1>2. /\ Keep(sessions[r], S) \in Entries(Token)
      /\ DOMAIN Keep(sessions[r], S) = DOMAIN sessions[r] \cap S
      /\ \A y \in DOMAIN sessions[r] \cap S : Keep(sessions[r], S)[y] = sessions[r][y]
  <2>1. sessions[r] \in Entries(Token)
    BY DEF SessionIInv, SessionTypes
  <2>2. \A y \in DOMAIN sessions[r] \cap S : Keep(sessions[r], S)[y] = sessions[r][y]
    BY DEF Keep
  <2>3. /\ Keep(sessions[r], S) \in Entries(Token)
        /\ DOMAIN Keep(sessions[r], S) = DOMAIN sessions[r] \cap S
    BY <2>1, KeepFacts, Zenon
  <2> QED BY <2>2, <2>3
<1>3. sessions' \in [Process -> Entries(Token)] /\ sessions'[r] = Keep(sessions[r], S)
      /\ \A q \in Process \ {r} : sessions'[q] = sessions[q]
  BY <1>1, <1>2 DEF SessionIInv, SessionTypes
<1>4. ASSUME NEW q \in Process, NEW y \in DOMAIN sessions'[q]
      PROVE  y \in issued' /\ y \in DOMAIN sessions[q] /\ sessions'[q][y] = sessions[q][y]
  <2>1. y \in DOMAIN sessions[q] /\ sessions'[q][y] = sessions[q][y]
    BY <1>2, <1>3, <1>4
  <2> QED BY <1>1, <2>1 DEF SessionIInv, SessionTypes, SessionTypeOK
<1>5. DOMAIN call' = Call /\ \A s \in Call : JobOK(s)'
  BY <1>1 DEF SessionIInv, SessionTypes, JobOK
<1>6. issued' \subseteq Token /\ accounts' \subseteq User
      /\ phase' \in [Call -> {"idle", "check", "open", "authenticate", "issue",
                           "profile", "accepted", "refused"}]
  BY <1>1 DEF SessionIInv, SessionTypes, SessionTypeOK
<1> QED BY <1>1, <1>3, <1>4, <1>5, <1>6, SessionsStep

LEMMA DeleteAccountStep ==
  ASSUME SessionIInv, NEW u \in User, LoseAccount(u)
  PROVE  SessionIInv'
<1>1. /\ accounts' \subseteq User
      /\ UNCHANGED <<now, challenges, sessions, issued, phase, call, openings>>
  BY DEF LoseAccount, caches, SessionIInv, SessionTypes, SessionTypeOK
<1>2. \A s \in Call : JobOK(s)'
  BY <1>1 DEF SessionIInv, SessionTypes, JobOK
<1> QED BY <1>1, <1>2, SessionsStep DEF SessionIInv, SessionTypes, SessionTypeOK

-----------------------------------------------------------------------------
(***************************************************************************)
(* The steps on challenges.                                                *)
(***************************************************************************)
LEMMA IssueChallengeStep ==
  ASSUME SessionIInv, NEW r \in Process, NEW c \in Challenge, IssueChallenge(r, c)
  PROVE  SessionIInv'
<1>1. /\ maker[c] = Unset /\ challenges' = [challenges EXCEPT ![r] = With(@, c)]
      /\ maker' = [maker EXCEPT ![c] = r]
      /\ UNCHANGED <<now, accounts, sessions, issued, phase, call, opened>>
  BY DEF IssueChallenge
<1>2. now \in Time /\ challenges[r] \in Entries(Challenge)
  BY DEF SessionIInv, SessionTypes, SessionTypeOK
<1>3. /\ With(challenges[r], c) \in Entries(Challenge)
      /\ DOMAIN With(challenges[r], c) = DOMAIN challenges[r] \cup {c}
      /\ With(challenges[r], c)[c] = now
      /\ \A y \in DOMAIN challenges[r] \ {c} : With(challenges[r], c)[y] = challenges[r][y]
  <2>1. \A y \in DOMAIN challenges[r] \ {c} : With(challenges[r], c)[y] = challenges[r][y]
    BY DEF With
  <2>2. /\ With(challenges[r], c) \in Entries(Challenge)
        /\ DOMAIN With(challenges[r], c) = DOMAIN challenges[r] \cup {c}
        /\ With(challenges[r], c)[c] = now
    BY <1>2, WithFacts, Zenon
  <2> QED BY <2>1, <2>2
<1>4. challenges' \in [Process -> Entries(Challenge)] /\ challenges'[r] = With(challenges[r], c)
      /\ \A q \in Process \ {r} : challenges'[q] = challenges[q]
  BY <1>1, <1>3 DEF SessionIInv, SessionTypes, SessionTypeOK
<1>5. /\ maker' \in [Challenge -> Process \cup {Unset}] /\ maker'[c] = r
      /\ \A d \in Challenge \ {c} : maker'[d] = maker[d]
  BY <1>1 DEF SessionIInv, SessionTypes, SessionTypeOK
<1>6. SessionTypes'
  BY <1>1, <1>4, <1>5 DEF SessionIInv, SessionTypes, SessionTypeOK, JobOK
<1>7. OpensOnce'
  <2>1. opened[c] = 0 /\ \A q \in Process : c \notin DOMAIN challenges[q]
    BY <1>1, SessionAssumption DEF SessionIInv, OpenedWasMade, OpensOnce
  <2>2. now < now + ChallengeTtl
    BY <1>2, SessionAssumption DEF Time
  <2>3. ASSUME NEW d \in Challenge, NEW q \in Process, d \in DOMAIN challenges'[q]
        PROVE  opened[d] = 0 /\ q = maker'[d] /\ now < challenges'[q][d] + ChallengeTtl
    <3>1. CASE d = c
      BY <1>3, <1>4, <1>5, <2>1, <2>2, <2>3, <3>1
    <3>2. CASE d # c
      <4>1. d \in DOMAIN challenges[q] /\ challenges'[q][d] = challenges[q][d]
        BY <1>3, <1>4, <2>3, <3>2
      <4> QED BY <1>5, <3>2, <4>1 DEF SessionIInv, OpensOnce
    <3> QED BY <3>1, <3>2
  <2> QED BY <1>1, <2>3 DEF SessionIInv, OpensOnce
<1>8. OpenedWasMade' /\ Remembered'
  BY <1>1, <1>5 DEF SessionIInv, OpenedWasMade, Remembered
<1> QED BY <1>6, <1>7, <1>8 DEF SessionIInv

LEMMA OpenSealedStep ==
  ASSUME SessionIInv, NEW t \in Call, OpenSealed(t)
  PROVE  SessionIInv'
<1> DEFINE r == call[t].at
           c == call[t].challenge
           S == Challenge \ {c}
<1>1. /\ challenges' = [challenges EXCEPT ![r] = Keep(@, S)]
      /\ opened' = IF c \in DOMAIN challenges[r] THEN [opened EXCEPT ![c] = @ + 1] ELSE opened
      /\ Step(t, "authenticate", call[t]) \/ EndCall(t)
      /\ UNCHANGED <<now, accounts, sessions, issued, maker>>
  BY DEF OpenSealed
<1>2. /\ phase[t] = "open" /\ r \in Process /\ c \in Challenge /\ call[t].user \in User
      /\ challenges[r] \in Entries(Challenge) /\ opened \in [Challenge -> Nat]
  BY DEF OpenSealed, SessionIInv, SessionTypes, SessionTypeOK, JobOK
<1>3. /\ Keep(challenges[r], S) \in Entries(Challenge)
      /\ DOMAIN Keep(challenges[r], S) = DOMAIN challenges[r] \cap S
      /\ \A y \in DOMAIN challenges[r] \cap S : Keep(challenges[r], S)[y] = challenges[r][y]
  <2> HIDE DEF S, r
  <2>1. \A y \in DOMAIN challenges[r] \cap S : Keep(challenges[r], S)[y] = challenges[r][y]
    BY DEF Keep
  <2>2. /\ Keep(challenges[r], S) \in Entries(Challenge)
        /\ DOMAIN Keep(challenges[r], S) = DOMAIN challenges[r] \cap S
    BY <1>2, KeepFacts, Zenon
  <2> QED BY <2>1, <2>2
<1>4. challenges' \in [Process -> Entries(Challenge)] /\ challenges'[r] = Keep(challenges[r], S)
      /\ \A q \in Process \ {r} : challenges'[q] = challenges[q]
  BY <1>1, <1>2, <1>3 DEF SessionIInv, SessionTypes, SessionTypeOK
<1>5. /\ opened' \in [Challenge -> Nat] /\ \A d \in Challenge \ {c} : opened'[d] = opened[d]
      /\ c \in DOMAIN challenges[r] => opened'[c] = opened[c] + 1
      /\ c \notin DOMAIN challenges[r] => opened'[c] = opened[c]
  BY <1>1, <1>2
<1>6. SessionTypes'
  <2>1. PICK l \in {"idle", "authenticate"} : \E j :
          phase' = [phase EXCEPT ![t] = l] /\ call' = [call EXCEPT ![t] = j]
          /\ (l = "authenticate" => j = call[t])
    BY <1>1 DEF Step, EndCall
  <2> PICK j : /\ phase' = [phase EXCEPT ![t] = l] /\ call' = [call EXCEPT ![t] = j]
               /\ l = "authenticate" => j = call[t]
    BY <2>1
  <2>2. phase'[t] = l /\ call'[t] = j
        /\ \A s \in Call \ {t} : phase'[s] = phase[s] /\ call'[s] = call[s]
    BY <2>1 DEF SessionIInv, SessionTypes, SessionTypeOK
  <2>3. \A s \in Call : JobOK(s)'
    BY <1>1, <1>2, <2>1, <2>2 DEF SessionIInv, SessionTypes, JobOK
  <2>4. /\ phase' \in [Call -> {"idle", "check", "open", "authenticate", "issue",
                            "profile", "accepted", "refused"}]
        /\ DOMAIN call' = Call
    BY <2>1 DEF SessionIInv, SessionTypes, SessionTypeOK
  <2> QED BY <1>1, <1>4, <1>5, <2>3, <2>4 DEF SessionIInv, SessionTypes, SessionTypeOK
<1>7. OpensOnce'
  <2>1. ASSUME NEW d \in Challenge, NEW q \in Process, d \in DOMAIN challenges'[q]
        PROVE  opened'[d] = 0 /\ q = maker[d] /\ now < challenges'[q][d] + ChallengeTtl
    <3>1. /\ d \in DOMAIN challenges[q] /\ challenges'[q][d] = challenges[q][d]
          /\ q = r => d # c
      BY <1>3, <1>4, <2>1
    <3>2. opened[d] = 0 /\ q = maker[d] /\ now < challenges[q][d] + ChallengeTtl
      BY <3>1 DEF SessionIInv, OpensOnce
    <3>3. c \in DOMAIN challenges[r] => r = maker[c]
      BY <1>2 DEF SessionIInv, OpensOnce
    <3> QED BY <1>5, <3>1, <3>2, <3>3
  <2>2. ASSUME NEW d \in Challenge PROVE opened'[d] <= 1
    <3>1. opened[d] <= 1 /\ (d = c /\ c \in DOMAIN challenges[r] => opened[d] = 0)
      BY <1>2 DEF SessionIInv, OpensOnce
    <3> QED BY <1>2, <1>5, <3>1
  <2> QED BY <1>1, <2>1, <2>2 DEF OpensOnce
<1>8. OpenedWasMade'
  <2>1. c \in DOMAIN challenges[r] => maker[c] # Unset
    BY <1>2, SessionAssumption DEF SessionIInv, OpensOnce
  <2> QED BY <1>1, <1>2, <1>5, <2>1 DEF SessionIInv, OpenedWasMade
<1>9. Remembered'
  BY <1>1 DEF SessionIInv, Remembered
<1> QED BY <1>6, <1>7, <1>8, <1>9 DEF SessionIInv

(***************************************************************************)
(* Caches lose entries, all of them when a replica restarts, and those     *)
(* whose time is over when it passes.                                      *)
(***************************************************************************)
LEMMA RestartStep ==
  ASSUME SessionIInv, NEW r \in Process, Restart(r)
  PROVE  SessionIInv'
<1>1. /\ challenges' = [challenges EXCEPT ![r] = <<>>] /\ sessions' = [sessions EXCEPT ![r] = <<>>]
      /\ phase' = [t \in Call |-> IF call[t].at = r THEN "idle" ELSE phase[t]]
      /\ call' = [t \in Call |-> IF call[t].at = r THEN NoCall ELSE call[t]]
      /\ UNCHANGED <<now, accounts, issued, opened, maker>>
  BY DEF Restart, openings
<1>2. /\ challenges' \in [Process -> Entries(Challenge)] /\ sessions' \in [Process -> Entries(Token)]
      /\ DOMAIN challenges'[r] = {} /\ DOMAIN sessions'[r] = {}
      /\ \A q \in Process \ {r} : challenges'[q] = challenges[q] /\ sessions'[q] = sessions[q]
  <2>1. <<>> \in Entries(Challenge) /\ <<>> \in Entries(Token) /\ DOMAIN <<>> = {}
    BY NoEntries, Zenon
  <2>2. challenges' \in [Process -> Entries(Challenge)] /\ sessions' \in [Process -> Entries(Token)]
    BY <1>1, <2>1 DEF SessionIInv, SessionTypes, SessionTypeOK
  <2>3. challenges'[r] = <<>> /\ sessions'[r] = <<>>
    BY <1>1 DEF SessionIInv, SessionTypes, SessionTypeOK
  <2>4. \A q \in Process \ {r} : challenges'[q] = challenges[q] /\ sessions'[q] = sessions[q]
    BY <1>1 DEF SessionIInv, SessionTypes, SessionTypeOK
  <2> QED BY <2>1, <2>2, <2>3, <2>4
<1>3. SessionTypes'
  <2>1. \A q \in Process : DOMAIN sessions'[q] \subseteq issued
    BY <1>2 DEF SessionIInv, SessionTypes, SessionTypeOK
  <2>2. phase' \in [Call -> {"idle", "check", "open", "authenticate", "issue",
                         "profile", "accepted", "refused"}]
    BY <1>1 DEF SessionIInv, SessionTypes, SessionTypeOK
  <2>3. \A t \in Call : JobOK(t)'
    BY <1>1 DEF SessionIInv, SessionTypes, JobOK
  <2> QED BY <1>1, <1>2, <2>1, <2>2, <2>3 DEF SessionIInv, SessionTypes, SessionTypeOK
<1>4. OpensOnce'
  <2>1. ASSUME NEW d \in Challenge, NEW q \in Process, d \in DOMAIN challenges'[q]
        PROVE  opened[d] = 0 /\ q = maker[d] /\ now < challenges'[q][d] + ChallengeTtl
    <3>1. q # r
      BY <1>2, <2>1
    <3> QED BY <1>2, <2>1, <3>1 DEF SessionIInv, OpensOnce
  <2> QED BY <1>1, <2>1 DEF SessionIInv, OpensOnce
<1>5. OpenedWasMade'
  BY <1>1 DEF SessionIInv, OpenedWasMade
<1>6. Remembered'
  <2>1. ASSUME NEW q \in Process, NEW k \in DOMAIN sessions'[q]
        PROVE  /\ sessions'[q][k] <= k.iat + TokenLife + Leeway
               /\ now < sessions'[q][k] + SessionTtl
    <3>1. q # r
      BY <1>2, <2>1
    <3> QED BY <1>2, <2>1, <3>1 DEF SessionIInv, Remembered
  <2> QED BY <1>1, <2>1 DEF Remembered
<1> QED BY <1>3, <1>4, <1>5, <1>6 DEF SessionIInv

LEMMA TickStep ==
  ASSUME SessionIInv, Tick
  PROVE  SessionIInv'
<1> DEFINE Live(r) == Unexpired(challenges[r], ChallengeTtl)
           Fresh(r) == Unexpired(sessions[r], SessionTtl)
<1>1. /\ now < MaxTime /\ now' = now + 1
      /\ challenges' = [r \in Process |-> Keep(challenges[r], Live(r))]
      /\ sessions' = [r \in Process |-> Keep(sessions[r], Fresh(r))]
      /\ UNCHANGED <<accounts, issued, phase, call, opened, maker>>
  BY DEF Tick, openings
<1>2. now' \in Time /\ now \in Time
  BY <1>1, SessionAssumption DEF SessionIInv, SessionTypes, SessionTypeOK, Time
<1>3. ASSUME NEW r \in Process
      PROVE  /\ challenges'[r] \in Entries(Challenge)
             /\ \A c \in DOMAIN challenges'[r] :
                  /\ c \in DOMAIN challenges[r] /\ challenges'[r][c] = challenges[r][c]
                  /\ now' < challenges'[r][c] + ChallengeTtl
  <2>1. challenges[r] \in Entries(Challenge)
    BY DEF SessionIInv, SessionTypes, SessionTypeOK
  <2>2. challenges'[r] = Keep(challenges[r], Live(r))
    BY <1>1
  <2>3. \A c \in Live(r) : now + 1 < challenges[r][c] + ChallengeTtl
    BY DEF Unexpired
  <2> HIDE DEF Live
  <2>4. /\ Keep(challenges[r], Live(r)) \in Entries(Challenge)
        /\ DOMAIN Keep(challenges[r], Live(r)) = DOMAIN challenges[r] \cap Live(r)
    BY <2>1, KeepFacts, Zenon
  <2>5. \A c \in DOMAIN challenges[r] \cap Live(r) : Keep(challenges[r], Live(r))[c] = challenges[r][c]
    BY DEF Keep
  <2> QED BY <1>1, <2>2, <2>3, <2>4, <2>5
<1>4. ASSUME NEW r \in Process
      PROVE  /\ sessions'[r] \in Entries(Token)
             /\ \A k \in DOMAIN sessions'[r] :
                  /\ k \in DOMAIN sessions[r] /\ sessions'[r][k] = sessions[r][k]
                  /\ now' < sessions'[r][k] + SessionTtl
  <2>1. sessions[r] \in Entries(Token)
    BY DEF SessionIInv, SessionTypes
  <2>2. sessions'[r] = Keep(sessions[r], Fresh(r))
    BY <1>1
  <2>3. \A k \in Fresh(r) : now + 1 < sessions[r][k] + SessionTtl
    BY DEF Unexpired
  <2> HIDE DEF Fresh
  <2>4. /\ Keep(sessions[r], Fresh(r)) \in Entries(Token)
        /\ DOMAIN Keep(sessions[r], Fresh(r)) = DOMAIN sessions[r] \cap Fresh(r)
    BY <2>1, KeepFacts, Zenon
  <2>5. \A k \in DOMAIN sessions[r] \cap Fresh(r) : Keep(sessions[r], Fresh(r))[k] = sessions[r][k]
    BY DEF Keep
  <2> QED BY <1>1, <2>2, <2>3, <2>4, <2>5
<1>5. SessionTypes'
  <2>1. challenges' \in [Process -> Entries(Challenge)] /\ sessions' \in [Process -> Entries(Token)]
    <3>1. challenges' = [r \in Process |-> challenges'[r]] /\ sessions' = [r \in Process |-> sessions'[r]]
      BY <1>1
    <3> QED BY <1>3, <1>4, <3>1
  <2>2. \A r \in Process : DOMAIN sessions'[r] \subseteq issued
    BY <1>4 DEF SessionIInv, SessionTypes, SessionTypeOK
  <2>3. \A t \in Call : JobOK(t)'
    BY <1>1 DEF SessionIInv, SessionTypes, JobOK
  <2> QED BY <1>1, <1>2, <2>1, <2>2, <2>3 DEF SessionIInv, SessionTypes, SessionTypeOK
<1>6. OpensOnce' /\ OpenedWasMade'
  BY <1>1, <1>3 DEF SessionIInv, OpensOnce, OpenedWasMade
<1>7. Remembered'
  BY <1>4 DEF SessionIInv, Remembered
<1> QED BY <1>5, <1>6, <1>7 DEF SessionIInv

LEMMA SessionSteps == SessionIInv /\ [SessionNext]_sessionVars => SessionIInv'
<1> SUFFICES ASSUME SessionIInv, [SessionNext]_sessionVars PROVE SessionIInv'
  OBVIOUS
<1>1. CASE Tick
  BY <1>1, TickStep
<1>2. ASSUME NEW u \in User, LoseAccount(u) PROVE SessionIInv'
  BY <1>2, DeleteAccountStep
<1>3. ASSUME NEW r \in Process, Restart(r) PROVE SessionIInv'
  BY <1>3, RestartStep
<1>4. ASSUME NEW r \in Process, NEW c \in Challenge, IssueChallenge(r, c) PROVE SessionIInv'
  BY <1>4, IssueChallengeStep
<1>5. ASSUME NEW r \in Process, NEW k \in issued, Logout(r, k) PROVE SessionIInv'
  BY <1>5, LogoutStep
<1>6. ASSUME NEW r \in Process, NEW t \in Call, NEW u \in User, GrantToken(t, r, u)
      PROVE  SessionIInv'
  BY <1>6, GrantTokenStep
<1>7. ASSUME NEW r \in Process, NEW t \in Call, NEW u \in User, NEW c \in Challenge,
             BringSealed(t, r, c, u)
      PROVE  SessionIInv'
  BY <1>7, BringSealedStep
<1>8. ASSUME NEW r \in Process, NEW t \in Call, NEW k \in issued, NEW door \in Door,
             VerifyToken(t, r, k, door)
      PROVE  SessionIInv'
  BY <1>8, VerifyTokenStep
<1>9. ASSUME NEW t \in Call, \/ PassCheck(t) \/ OpenSealed(t) \/ Authenticate(t) \/ IssueToken(t)
                             \/ LookUpProfile(t) \/ Answer(t)
      PROVE  SessionIInv'
  BY <1>9, PassCheckStep, OpenSealedStep, AuthenticateStep, IssueTokenStep, LookUpProfileStep,
     AnswerStep
<1>10. CASE UNCHANGED sessionVars
  <2>1. SessionTypes'
    BY <1>10 DEF sessionVars, SessionIInv, SessionTypes, SessionTypeOK, JobOK
  <2> QED BY <1>10, <2>1 DEF sessionVars, SessionIInv, OpensOnce, OpenedWasMade, Remembered
<1> QED BY <1>1, <1>2, <1>3, <1>4, <1>5, <1>6, <1>7, <1>8, <1>9, <1>10 DEF SessionNext

LEMMA SessionInductive == SessionSpec => []SessionIInv
  BY SessionStarts, SessionSteps, PTL DEF SessionSpec

(***************************************************************************)
(* Caches, tokens and challenges have their types, and no replica          *)
(* remembers a token that was not issued.                                  *)
(***************************************************************************)
THEOREM SessionTypesHold == SessionSpec => []SessionTypeOK
  BY SessionInductive, PTL DEF SessionIInv, SessionTypes

(***************************************************************************)
(* A challenge opens one sealed password, whatever the requests that name  *)
(* it at once, on whatever replicas, and however these restart.            *)
(***************************************************************************)
THEOREM ChallengesOpenOnce == SessionSpec => []OpensOnce
  BY SessionInductive, PTL DEF SessionIInv

(***************************************************************************)
(* A step that accepts a token, or refuses one.                            *)
(***************************************************************************)
LEMMA TokenDecided ==
  ASSUME SessionIInv, [SessionNext]_sessionVars, NEW t \in Call, phase'[t] # phase[t]
  PROVE  /\ phase'[t] \in {"accepted", "profile"} /\ phase[t] = "idle" =>
              now < call'[t].token.iat + TokenLife + Leeway + SessionTtl
         /\ phase'[t] = "refused" =>
              Expired(call'[t].token) \/ call'[t].token.sub \notin accounts
<1> DEFINE Goal == /\ phase'[t] \in {"accepted", "profile"} /\ phase[t] = "idle" =>
                        now < call'[t].token.iat + TokenLife + Leeway + SessionTtl
                   /\ phase'[t] = "refused" =>
                        Expired(call'[t].token) \/ call'[t].token.sub \notin accounts
<1>1. ASSUME NEW s \in Call, NEW l, NEW j, Step(s, l, j)
      PROVE  s = t /\ phase'[t] = l /\ call'[t] = j
  BY <1>1 DEF Step, SessionIInv, SessionTypes, SessionTypeOK
<1>2. ASSUME NEW s \in Call, NEW r \in Process, NEW k \in issued, NEW door \in Door,
             VerifyToken(s, r, k, door)
      PROVE  Goal
  <2> DEFINE taken == [NoCall EXCEPT !.at = r, !.token = k, !.door = door]
             refused == [NoCall EXCEPT !.token = k, !.door = door]
             l == IF door = "rest" THEN "profile" ELSE "accepted"
  <2>1. taken.token = k /\ refused.token = k /\ l \in {"profile", "accepted"}
    BY DEF NoCall
  <2>2. k.iat \in Nat /\ now \in Nat
    BY DEF SessionIInv, SessionTypes, SessionTypeOK, Token, Time
  <2>3. CASE k \in DOMAIN sessions[r] /\ Step(s, l, taken)
    <3> HIDE DEF taken, l
    <3>1. sessions[r][k] <= k.iat + TokenLife + Leeway /\ now < sessions[r][k] + SessionTtl
      BY <2>3 DEF SessionIInv, Remembered
    <3>2. sessions[r][k] \in Nat
      BY <2>3, EntryTime DEF SessionIInv, SessionTypes, Time
    <3>3. now < k.iat + TokenLife + Leeway + SessionTtl
      BY <2>2, <3>1, <3>2, SessionAssumption
    <3> QED BY <1>1, <2>1, <2>3, <3>3
  <2>4. CASE ~Expired(k) /\ Step(s, l, taken)
    <3> HIDE DEF taken, l
    <3>1. now < k.iat + TokenLife + Leeway + SessionTtl
      BY <2>2, <2>4, SessionAssumption DEF Expired
    <3> QED BY <1>1, <2>1, <2>4, <3>1
  <2>5. CASE Expired(k) /\ Step(s, "refused", refused)
    <3> HIDE DEF refused
    <3> QED BY <1>1, <2>1, <2>5
  <2> QED BY <1>2, <2>3, <2>4, <2>5 DEF VerifyToken
<1>3. ASSUME NEW s \in Call, LookUpProfile(s) PROVE Goal
  <2>1. phase[s] = "profile" /\ Step(s, IF call[s].token.sub \in accounts THEN "accepted" ELSE "refused", call[s])
    BY <1>3 DEF LookUpProfile
  <2> QED BY <1>1, <2>1
<1>4. ASSUME NEW s \in Call, \E l \in {"idle", "check", "open", "authenticate", "issue"} : \E j : Step(s, l, j)
      PROVE  Goal
  BY <1>1, <1>4
<1>5. ASSUME NEW s \in Call, \/ PassCheck(s) \/ OpenSealed(s) \/ Authenticate(s) \/ IssueToken(s)
                             \/ Answer(s)
      PROVE  \E l \in {"idle", "check", "open", "authenticate", "issue"} : \E j : Step(s, l, j)
  BY <1>5 DEF PassCheck, OpenSealed, Authenticate, IssueToken, Answer, EndCall
<1>6. ASSUME NEW s \in Call, NEW r \in Process, NEW u \in User,
             GrantToken(s, r, u) \/ \E c \in Challenge : BringSealed(s, r, c, u)
      PROVE  \E l \in {"idle", "check", "open", "authenticate", "issue"} : \E j : Step(s, l, j)
  BY <1>6 DEF GrantToken, BringSealed
<1>7. ASSUME NEW r \in Process, Restart(r) PROVE Goal
  BY <1>7 DEF Restart
<1>8. ASSUME UNCHANGED phase PROVE FALSE
  BY <1>8
<1>9. ASSUME \/ Tick \/ (\E u \in User : LoseAccount(u)) \/ UNCHANGED sessionVars
             \/ \E r \in Process : \/ \E c \in Challenge : IssueChallenge(r, c)
                                   \/ \E k \in issued : Logout(r, k)
      PROVE  UNCHANGED phase
  BY <1>9 DEF Tick, LoseAccount, IssueChallenge, Logout, sessionVars
<1> HIDE DEF Goal
<1>10. Goal
  BY <1>2, <1>3, <1>4, <1>5, <1>6, <1>7, <1>8, <1>9 DEF SessionNext
<1> QED BY <1>10 DEF Goal

(***************************************************************************)
(* A token is not accepted longer than its day, the leeway and an hour,    *)
(* and not refused before its day is over, but for an account that went.   *)
(***************************************************************************)
THEOREM TokensHold == SessionSpec => TokensLast
<1>1. SessionIInv /\ [SessionNext]_sessionVars =>
        [\A t \in Call : phase'[t] # phase[t] =>
           LET k == call'[t].token IN
           /\ phase'[t] \in {"accepted", "profile"} /\ phase[t] = "idle" =>
                now < k.iat + TokenLife + Leeway + SessionTtl
           /\ phase'[t] = "refused" => Expired(k) \/ k.sub \notin accounts]_sessionVars
  BY TokenDecided
<1> QED BY <1>1, SessionInductive, PTL DEF SessionSpec, TokensLast

-----------------------------------------------------------------------------
(***************************************************************************)
(* The support desk: what a request was given, by the step it is at; a     *)
(* reply on its way to a closed ticket was overtaken by the closing; what  *)
(* is about to be stored is allowed, or its request was overtaken.         *)
(***************************************************************************)
WorkOK(q) ==
  /\ step[q] = "insert" => work[q].by \in Person /\ work[q].deed \in Deed
  /\ step[q] \in {"reply", "close"} => work[q].ticket \in Ticket

SupportTypes ==
  /\ SupportTypeOK
  /\ DOMAIN work = Client
  /\ \A q \in Client : WorkOK(q)

ReadOpen(q) ==
  step[q] = "reply" /\ tickets[work[q].ticket] # Nobody /\ ~tickets[work[q].ticket].open
    => q \in overtaken

Granted(q) ==
  step[q] = "insert" =>
    \/ work[q].deed \in allowed[work[q].by] \/ q \in overtaken
    \/ work[q].deed # "ticket" /\ work[q].by \in Agent

SupportIInv ==
  /\ SupportTypes
  /\ LateRepliesReadItOpen
  /\ \A q \in Client : ReadOpen(q) /\ Granted(q)

LEMMA SupportStarts == SupportInit => SupportIInv
<1> SUFFICES ASSUME SupportInit PROVE SupportIInv
  OBVIOUS
<1>1. SupportTypes
  <2>1. {Deed, {}} \subseteq SUBSET Deed
    OBVIOUS
  <2>2. allowed \in [Person -> SUBSET Deed]
    BY <2>1 DEF SupportInit
  <2> QED BY <2>2 DEF SupportInit, SupportTypes, SupportTypeOK, WorkOK
<1>2. LateRepliesReadItOpen /\ \A q \in Client : ReadOpen(q) /\ Granted(q)
  BY DEF SupportInit, LateRepliesReadItOpen, ReadOpen, Granted
<1> QED BY <1>1, <1>2 DEF SupportIInv

(***************************************************************************)
(* What Proceed and Finish do to the labels and the work of requests.      *)
(***************************************************************************)
LEMMA ProceedFacts ==
  ASSUME SupportTypes, NEW q \in Client, NEW l, NEW w, Proceed(q, l, w)
  PROVE  /\ step'[q] = l /\ work'[q] = w /\ DOMAIN work' = Client
         /\ \A p \in Client \ {q} : step'[p] = step[p] /\ work'[p] = work[p]
         /\ l \in {"new", "insert", "refused", "reply", "close", "done", "cut"} =>
              step' \in [Client -> {"new", "insert", "refused", "reply", "close", "done", "cut"}]
  BY DEF SupportTypes, SupportTypeOK, Proceed

LEMMA AskStep ==
  ASSUME SupportIInv, NEW q \in Client, NEW u \in Person, NEW deed \in Deed, Ask(q, u, deed)
  PROVE  SupportIInv'
<1> DEFINE w == [NoWork EXCEPT !.by = u, !.deed = deed]
<1>1. w.by = u /\ w.deed = deed
  BY DEF NoWork
<1>2. PICK found \in May(u, deed) :
        /\ Proceed(q, IF found THEN "insert" ELSE "refused", w)
        /\ copies' = IF deed = "ticket" THEN [copies EXCEPT ![u] = @ \cup {found}] ELSE copies
        /\ overtaken' = IF deed = "ticket" /\ found # ("ticket" \in allowed[u])
                        THEN overtaken \cup {q} ELSE overtaken
  BY DEF Ask
<1>3. SupportTypes /\ SupportTypeOK
  BY DEF SupportIInv, SupportTypes
<1>4. found \in BOOLEAN
  <2>1. copies[u] \subseteq BOOLEAN /\ {("ticket" \in allowed[u])} \subseteq BOOLEAN
        /\ {(u \in Agent) \/ (deed \in allowed[u])} \subseteq BOOLEAN
    <3>1. copies[u] \subseteq BOOLEAN
      BY <1>3 DEF SupportTypeOK
    <3>2. /\ {("ticket" \in allowed[u])} \subseteq BOOLEAN
          /\ {(u \in Agent) \/ (deed \in allowed[u])} \subseteq BOOLEAN
      OBVIOUS
    <3> QED BY <3>1, <3>2
  <2> QED BY <2>1, Zenon DEF May
<1>5. UNCHANGED <<allowed, tickets, used, replies>> /\ overtaken \subseteq overtaken'
  BY <1>2 DEF Ask, desk
<1> HIDE DEF w
<1>6. PICK l \in {"insert", "refused"} : l = (IF found THEN "insert" ELSE "refused")
  OBVIOUS
<1>7. Proceed(q, l, w) /\ (l = "insert" => found)
  BY <1>2, <1>6
<1>8. /\ step'[q] = l /\ work'[q] = w /\ DOMAIN work' = Client
      /\ \A p \in Client \ {q} : step'[p] = step[p] /\ work'[p] = work[p]
      /\ step' \in [Client -> {"new", "insert", "refused", "reply", "close", "done", "cut"}]
  BY <1>3, <1>6, <1>7, ProceedFacts
<1>9. SupportTypes'
  <2>1. copies' \in [Person -> SUBSET BOOLEAN] /\ overtaken' \subseteq Client
    BY <1>2, <1>3, <1>4 DEF SupportTypeOK
  <2>2. SupportTypeOK'
    BY <2>1, <1>3, <1>5, <1>8 DEF SupportTypeOK
  <2>3. \A p \in Client : WorkOK(p)'
    BY <1>1, <1>3, <1>6, <1>8 DEF SupportTypes, WorkOK
  <2> QED BY <2>2, <2>3, <1>8 DEF SupportTypes
<1>10. LateRepliesReadItOpen'
  BY <1>5 DEF SupportIInv, LateRepliesReadItOpen
<1>11. \A p \in Client : ReadOpen(p)'
  BY <1>5, <1>6, <1>8 DEF SupportIInv, ReadOpen
<1>12. \A p \in Client \ {q} : Granted(p)'
  BY <1>5, <1>8 DEF SupportIInv, Granted
<1>13. Granted(q)'
  <2> SUFFICES ASSUME found
               PROVE  deed \in allowed[u] \/ q \in overtaken' \/ (deed # "ticket" /\ u \in Agent)
    BY <1>1, <1>5, <1>7, <1>8 DEF Granted
  <2>1. CASE deed = "ticket"
    BY <1>2, <2>1
  <2>2. CASE deed # "ticket"
    BY <2>2 DEF May
  <2> QED BY <2>1, <2>2
<1> QED BY <1>9, <1>10, <1>11, <1>12, <1>13 DEF SupportIInv

LEMMA ReadTicketStep ==
  ASSUME SupportIInv, NEW q \in Client, NEW u \in Person, NEW k \in Ticket,
         NEW deed \in {"reply", "close"}, ReadTicket(q, u, k, deed)
  PROVE  SupportIInv'
<1> DEFINE w == [NoWork EXCEPT !.by = u, !.ticket = k]
<1>1. w.ticket = k
  BY DEF NoWork
<1>2. SupportTypes /\ Proceed(q, deed, w)
  BY DEF SupportIInv, ReadTicket
<1>3. UNCHANGED <<allowed, copies, tickets, used, replies, overtaken>>
  BY DEF ReadTicket, rights, desk
<1>4. deed = "reply" => tickets[k].open
  BY DEF ReadTicket
<1> HIDE DEF w
<1>5. /\ step'[q] = deed /\ work'[q] = w /\ DOMAIN work' = Client
      /\ \A p \in Client \ {q} : step'[p] = step[p] /\ work'[p] = work[p]
      /\ step' \in [Client -> {"new", "insert", "refused", "reply", "close", "done", "cut"}]
  BY <1>2, ProceedFacts
<1>6. SupportTypes'
  BY <1>1, <1>2, <1>3, <1>5 DEF SupportTypes, SupportTypeOK, WorkOK
<1>7. LateRepliesReadItOpen'
  BY <1>3 DEF SupportIInv, LateRepliesReadItOpen
<1>8. \A p \in Client : ReadOpen(p)' /\ Granted(p)'
  BY <1>1, <1>3, <1>4, <1>5 DEF SupportIInv, ReadOpen, Granted
<1> QED BY <1>6, <1>7, <1>8 DEF SupportIInv

(***************************************************************************)
(* The request that ends leaves the requirements on the other ones alone.  *)
(***************************************************************************)
LEMMA FinishFacts ==
  ASSUME SupportTypes, NEW q \in Client, NEW l \in {"done", "cut"}, Finish(q, l)
  PROVE  /\ step'[q] = l /\ DOMAIN work' = Client
         /\ \A p \in Client \ {q} : step'[p] = step[p]
         /\ \A p \in Client : work'[p] = work[p]
         /\ step' \in [Client -> {"new", "insert", "refused", "reply", "close", "done", "cut"}]
         /\ \A p \in Client : WorkOK(p)'
<1>1. Proceed(q, l, work[q])
  BY DEF Finish
<1>2. /\ step'[q] = l /\ work'[q] = work[q] /\ DOMAIN work' = Client
      /\ \A p \in Client \ {q} : step'[p] = step[p] /\ work'[p] = work[p]
      /\ step' \in [Client -> {"new", "insert", "refused", "reply", "close", "done", "cut"}]
  BY <1>1, ProceedFacts
<1>3. \A p \in Client : work'[p] = work[p]
  BY <1>2
<1>4. \A p \in Client : WorkOK(p)'
  BY <1>2, <1>3 DEF SupportTypes, WorkOK
<1> QED BY <1>2, <1>3, <1>4

LEMMA InsertTicketStep ==
  ASSUME SupportIInv, NEW q \in Client, NEW k \in Ticket, InsertTicket(q, k)
  PROVE  SupportIInv'
<1> DEFINE new == [author |-> work[q].by, open |-> TRUE]
<1>1. SupportTypes /\ SupportTypeOK /\ WorkOK(q) /\ Finish(q, "done")
  BY DEF SupportIInv, SupportTypes, InsertTicket
<1>2. UNCHANGED <<allowed, copies, replies, overtaken>>
  BY DEF InsertTicket, rights
<1>3. new \in [author : Person, open : BOOLEAN] /\ new.open = TRUE
  BY <1>1 DEF InsertTicket, WorkOK
<1>4. tickets' = [tickets EXCEPT ![k] = new] /\ used' = used \cup {k} /\ tickets[k] = Nobody
  BY <1>1 DEF InsertTicket, SupportTypeOK
<1> HIDE DEF new
<1>5. /\ step'[q] = "done" /\ DOMAIN work' = Client
      /\ \A p \in Client \ {q} : step'[p] = step[p]
      /\ \A p \in Client : work'[p] = work[p]
      /\ step' \in [Client -> {"new", "insert", "refused", "reply", "close", "done", "cut"}]
      /\ \A p \in Client : WorkOK(p)'
  BY <1>1, FinishFacts
<1>6. tickets' \in [Ticket -> [author : Person, open : BOOLEAN] \cup {Nobody}]
  BY <1>1, <1>3, <1>4 DEF SupportTypeOK
<1>7. tickets'[k] = new /\ \A m \in Ticket \ {k} : tickets'[m] = tickets[m]
  BY <1>1, <1>4 DEF SupportTypeOK
<1>8. SupportTypes'
  BY <1>1, <1>2, <1>4, <1>5, <1>6, <1>7 DEF SupportTypes, SupportTypeOK
<1>9. LateRepliesReadItOpen'
  BY <1>1, <1>2, <1>4, <1>7 DEF SupportIInv, SupportTypeOK, LateRepliesReadItOpen
<1>10. \A p \in Client : ReadOpen(p)' /\ Granted(p)'
  <2>1. \A p \in Client : Granted(p)'
    BY <1>2, <1>5 DEF SupportIInv, Granted
  <2>2. ASSUME NEW p \in Client, p # q, step[p] = "reply" PROVE ReadOpen(p)'
    <3>1. work[p].ticket \in Ticket /\ ReadOpen(p) /\ work'[p] = work[p] /\ step'[p] = step[p]
      BY <1>1, <1>5, <2>2 DEF SupportIInv, SupportTypes, WorkOK
    <3> QED BY <1>2, <1>3, <1>7, <3>1 DEF ReadOpen
  <2> QED BY <1>5, <2>1, <2>2 DEF ReadOpen
<1> QED BY <1>8, <1>9, <1>10 DEF SupportIInv

(***************************************************************************)
(* A request that ends without a write (InsertOther, whose row is not kept *)
(* here, and CutOff).                                                      *)
(***************************************************************************)
LEMMA EndStep ==
  ASSUME SupportIInv, NEW q \in Client, NEW l \in {"done", "cut"}, Finish(q, l),
         UNCHANGED <<allowed, copies, tickets, used, replies, overtaken>>
  PROVE  SupportIInv'
<1>1. SupportTypes
  BY DEF SupportIInv
<1>2. /\ step'[q] = l /\ DOMAIN work' = Client
      /\ \A p \in Client \ {q} : step'[p] = step[p]
      /\ \A p \in Client : work'[p] = work[p]
      /\ step' \in [Client -> {"new", "insert", "refused", "reply", "close", "done", "cut"}]
      /\ \A p \in Client : WorkOK(p)'
  BY <1>1, FinishFacts
<1>3. SupportTypes'
  BY <1>1, <1>2 DEF SupportTypes, SupportTypeOK
<1>4. LateRepliesReadItOpen' /\ \A p \in Client : ReadOpen(p)' /\ Granted(p)'
  BY <1>2 DEF SupportIInv, LateRepliesReadItOpen, ReadOpen, Granted
<1> QED BY <1>3, <1>4 DEF SupportIInv

LEMMA AddReplyStep ==
  ASSUME SupportIInv, NEW q \in Client, AddReply(q)
  PROVE  SupportIInv'
<1> DEFINE k == work[q].ticket
           new == [ticket |-> k, by |-> q, late |-> ~tickets[k].open]
<1>1. SupportTypes /\ SupportTypeOK /\ WorkOK(q) /\ ReadOpen(q) /\ Finish(q, "done")
  BY DEF SupportIInv, SupportTypes, AddReply
<1>2. UNCHANGED <<allowed, copies, tickets, used, overtaken>> /\ replies' = replies \cup {new}
  BY DEF AddReply, rights
<1>3. k \in Ticket /\ step[q] = "reply" /\ tickets[k] # Nobody
  BY <1>1 DEF AddReply, WorkOK
<1>4. new.ticket = k /\ new.by = q /\ new.late = (~tickets[k].open)
  OBVIOUS
<1>5. new \in [ticket : Ticket, by : Client, late : BOOLEAN]
  BY <1>3
<1>6. (~tickets[k].open) => q \in overtaken
  BY <1>1, <1>3 DEF ReadOpen
<1> HIDE DEF k, new
<1>7. /\ step'[q] = "done" /\ DOMAIN work' = Client
      /\ \A p \in Client \ {q} : step'[p] = step[p]
      /\ \A p \in Client : work'[p] = work[p]
      /\ step' \in [Client -> {"new", "insert", "refused", "reply", "close", "done", "cut"}]
      /\ \A p \in Client : WorkOK(p)'
  BY <1>1, FinishFacts
<1>8. SupportTypes'
  BY <1>1, <1>2, <1>5, <1>7 DEF SupportTypes, SupportTypeOK
<1>9. LateRepliesReadItOpen'
  BY <1>2, <1>3, <1>4, <1>6 DEF SupportIInv, LateRepliesReadItOpen
<1>10. \A p \in Client : ReadOpen(p)' /\ Granted(p)'
  BY <1>2, <1>7 DEF SupportIInv, ReadOpen, Granted
<1> QED BY <1>8, <1>9, <1>10 DEF SupportIInv

LEMMA CloseTicketStep ==
  ASSUME SupportIInv, NEW q \in Client, CloseTicket(q)
  PROVE  SupportIInv'
<1> DEFINE k == work[q].ticket
<1>1. SupportTypes /\ SupportTypeOK /\ WorkOK(q) /\ Finish(q, "done")
  BY DEF SupportIInv, SupportTypes, CloseTicket
<1>2. /\ UNCHANGED <<allowed, copies, used, replies>>
      /\ tickets' = [tickets EXCEPT ![k].open = FALSE]
      /\ overtaken' = overtaken \cup Answering(k)
  BY DEF CloseTicket, rights
<1>3. k \in Ticket /\ tickets[k] # Nobody
  BY <1>1 DEF CloseTicket, WorkOK
<1>4. tickets[k] \in [author : Person, open : BOOLEAN]
  BY <1>1, <1>3 DEF SupportTypeOK
<1> HIDE DEF k
<1>5. tickets'[k] = [tickets[k] EXCEPT !.open = FALSE]
  BY <1>1, <1>2, <1>3 DEF SupportTypeOK
<1>6. tickets'[k] \in [author : Person, open : BOOLEAN] /\ tickets'[k] # Nobody
  BY <1>4, <1>5, SupportAssumption
<1>7. \A m \in Ticket \ {k} : tickets'[m] = tickets[m]
  BY <1>1, <1>2, <1>3 DEF SupportTypeOK
<1>8. /\ step'[q] = "done" /\ DOMAIN work' = Client
      /\ \A p \in Client \ {q} : step'[p] = step[p]
      /\ \A p \in Client : work'[p] = work[p]
      /\ step' \in [Client -> {"new", "insert", "refused", "reply", "close", "done", "cut"}]
      /\ \A p \in Client : WorkOK(p)'
  BY <1>1, FinishFacts
<1>9. SupportTypes'
  <2>1. tickets' \in [Ticket -> [author : Person, open : BOOLEAN] \cup {Nobody}]
    BY <1>1, <1>2, <1>3, <1>6 DEF SupportTypeOK
  <2>2. \A m \in Ticket \ used' : tickets'[m] = Nobody
    BY <1>1, <1>2, <1>3, <1>7 DEF SupportTypeOK
  <2>3. overtaken' \subseteq Client
    BY <1>1, <1>2 DEF SupportTypeOK, Answering
  <2> QED BY <1>1, <1>2, <1>8, <2>1, <2>2, <2>3 DEF SupportTypes, SupportTypeOK
<1>10. LateRepliesReadItOpen'
  BY <1>1, <1>2, <1>3, <1>6, <1>7 DEF SupportIInv, SupportTypeOK, LateRepliesReadItOpen
<1>11. ASSUME NEW p \in Client PROVE ReadOpen(p)'
  <2> SUFFICES ASSUME step'[p] = "reply" PROVE ReadOpen(p)'
    BY DEF ReadOpen
  <2>1. p # q /\ step[p] = "reply" /\ work'[p] = work[p]
    BY <1>8
  <2>2. ReadOpen(p) /\ work[p].ticket \in Ticket
    BY <1>1, <2>1 DEF SupportIInv, SupportTypes, WorkOK
  <2>3. CASE work[p].ticket = k
    BY <1>2, <2>1, <2>3 DEF ReadOpen, Answering
  <2>4. CASE work[p].ticket # k
    BY <1>2, <1>7, <2>1, <2>2, <2>4 DEF ReadOpen
  <2> QED BY <2>3, <2>4
<1>12. \A p \in Client : Granted(p)'
  BY <1>2, <1>8 DEF SupportIInv, Granted
<1> QED BY <1>9, <1>10, <1>11, <1>12 DEF SupportIInv

LEMMA DeleteTicketStep ==
  ASSUME SupportIInv, NEW k \in Ticket, DeleteTicket(k)
  PROVE  SupportIInv'
<1>1. SupportTypes /\ SupportTypeOK
  BY DEF SupportIInv, SupportTypes
<1>2. /\ UNCHANGED <<allowed, copies, used, step, work, overtaken>>
      /\ tickets' = [tickets EXCEPT ![k] = Nobody]
      /\ replies' = {p \in replies : p.ticket # k}
  BY DEF DeleteTicket, rights
<1>3. tickets'[k] = Nobody /\ \A m \in Ticket \ {k} : tickets'[m] = tickets[m]
  BY <1>1, <1>2 DEF SupportTypeOK
<1>4. SupportTypes'
  <2>1. tickets' \in [Ticket -> [author : Person, open : BOOLEAN] \cup {Nobody}]
    BY <1>1, <1>2 DEF SupportTypeOK
  <2>2. \A m \in Ticket \ used' : tickets'[m] = Nobody
    BY <1>1, <1>2, <1>3 DEF SupportTypeOK
  <2> QED BY <1>1, <1>2, <2>1, <2>2 DEF SupportTypes, SupportTypeOK, WorkOK
<1>5. LateRepliesReadItOpen'
  BY <1>1, <1>2, <1>3 DEF SupportIInv, SupportTypeOK, LateRepliesReadItOpen
<1>6. ASSUME NEW p \in Client PROVE ReadOpen(p)' /\ Granted(p)'
  <2>1. Granted(p)'
    BY <1>2 DEF SupportIInv, Granted
  <2>2. ASSUME step[p] = "reply" PROVE ReadOpen(p)'
    <3>1. ReadOpen(p) /\ work[p].ticket \in Ticket
      BY <1>1, <2>2 DEF SupportIInv, SupportTypes, WorkOK
    <3> QED BY <1>2, <1>3, <3>1 DEF ReadOpen
  <2> QED BY <1>2, <2>1, <2>2 DEF ReadOpen
<1> QED BY <1>4, <1>5, <1>6 DEF SupportIInv

LEMMA SetRightsStep ==
  ASSUME SupportIInv, NEW u \in Person, NEW deeds \in SUBSET Deed, SetRights(u, deeds)
  PROVE  SupportIInv'
<1>1. SupportTypes /\ SupportTypeOK
  BY DEF SupportIInv, SupportTypes
<1>2. /\ UNCHANGED <<tickets, used, replies, step, work>>
      /\ allowed' = [allowed EXCEPT ![u] = deeds]
      /\ overtaken' = overtaken \cup Asking(u, allowed[u] \ deeds)
  BY DEF SetRights, desk
<1>3. PICK some \in SUBSET copies[u] : copies' = [copies EXCEPT ![u] = some]
  BY DEF SetRights
<1>4. SupportTypes'
  <2>1. copies' \in [Person -> SUBSET BOOLEAN]
    BY <1>1, <1>3 DEF SupportTypeOK
  <2>2. allowed' \in [Person -> SUBSET Deed] /\ overtaken' \subseteq Client
    BY <1>1, <1>2 DEF SupportTypeOK, Asking
  <2> QED BY <1>1, <1>2, <2>1, <2>2 DEF SupportTypes, SupportTypeOK, WorkOK
<1>5. LateRepliesReadItOpen' /\ \A p \in Client : ReadOpen(p)'
  BY <1>2 DEF SupportIInv, LateRepliesReadItOpen, ReadOpen
<1>6. ASSUME NEW p \in Client PROVE Granted(p)'
  <2> SUFFICES ASSUME step[p] = "insert" PROVE Granted(p)'
    BY <1>2 DEF Granted
  <2>1. Granted(p) /\ work[p].by \in Person
    BY <1>1 DEF SupportIInv, SupportTypes, WorkOK
  <2>2. CASE work[p].by = u
    <3>1. allowed'[u] = deeds
      BY <1>1, <1>2 DEF SupportTypeOK
    <3> QED BY <1>2, <2>1, <2>2, <3>1 DEF Granted, Asking
  <2>3. CASE work[p].by # u
    <3>1. allowed'[work[p].by] = allowed[work[p].by]
      BY <1>1, <1>2, <2>1, <2>3 DEF SupportTypeOK
    <3> QED BY <1>2, <2>1, <3>1 DEF Granted
  <2> QED BY <2>2, <2>3
<1> QED BY <1>4, <1>5, <1>6 DEF SupportIInv

LEMMA CopiesStep ==
  ASSUME SupportIInv, copies' \in [Person -> SUBSET BOOLEAN],
         UNCHANGED <<allowed, tickets, used, replies, step, work, overtaken>>
  PROVE  SupportIInv'
  BY DEF SupportIInv, SupportTypes, SupportTypeOK, WorkOK, LateRepliesReadItOpen,
         ReadOpen, Granted

LEMMA SupportSteps == SupportIInv /\ [SupportNext]_supportVars => SupportIInv'
<1> SUFFICES ASSUME SupportIInv, [SupportNext]_supportVars PROVE SupportIInv'
  OBVIOUS
<1>1. SupportTypes /\ SupportTypeOK
  BY DEF SupportIInv, SupportTypes
<1>2. ASSUME NEW q \in Client, NEW u \in Person, NEW deed \in Deed, Ask(q, u, deed)
      PROVE SupportIInv'
  BY <1>2, AskStep
<1>3. ASSUME NEW q \in Client, NEW u \in Person, NEW k \in Ticket,
             NEW deed \in {"reply", "close"}, ReadTicket(q, u, k, deed)
      PROVE SupportIInv'
  BY <1>3, ReadTicketStep
<1>4. ASSUME NEW q \in Client, NEW k \in Ticket, InsertTicket(q, k) PROVE SupportIInv'
  BY <1>4, InsertTicketStep
<1>5. ASSUME NEW q \in Client, InsertOther(q) PROVE SupportIInv'
  BY <1>5, EndStep DEF InsertOther, rights, desk
<1>6. ASSUME NEW q \in Client, AddReply(q) PROVE SupportIInv'
  BY <1>6, AddReplyStep
<1>7. ASSUME NEW q \in Client, CloseTicket(q) PROVE SupportIInv'
  BY <1>7, CloseTicketStep
<1>8. ASSUME NEW q \in Client, CutOff(q) PROVE SupportIInv'
  BY <1>8, EndStep DEF CutOff, rights, desk
<1>9. ASSUME NEW k \in Ticket, DeleteTicket(k) PROVE SupportIInv'
  BY <1>9, DeleteTicketStep
<1>10. ASSUME NEW u \in Subject, SupportBan(u) PROVE SupportIInv'
  <2>1. u \in Person /\ allowed[u] \ {"ticket"} \in SUBSET Deed
    BY <1>1, SupportAssumption DEF SupportTypeOK
  <2> QED BY <1>10, <2>1, SetRightsStep DEF SupportBan
<1>11. ASSUME NEW u \in Subject, SupportUnban(u) PROVE SupportIInv'
  <2>1. u \in Person /\ allowed[u] \cup {"ticket"} \in SUBSET Deed
    BY <1>1, SupportAssumption DEF SupportTypeOK, Deed
  <2> QED BY <1>11, <2>1, SetRightsStep DEF SupportUnban
<1>12. ASSUME NEW u \in Subject, NEW deeds \in SUBSET {"post", "message"}, SetLimits(u, deeds)
       PROVE SupportIInv'
  <2>1. u \in Person /\ (allowed[u] \cap {"ticket"}) \cup deeds \in SUBSET Deed
    BY SupportAssumption DEF Deed
  <2> QED BY <1>12, <2>1, SetRightsStep DEF SetLimits
<1>13. ASSUME NEW u \in Subject, LookUp(u) \/ Expire(u) PROVE SupportIInv'
  <2>1. copies' \in [Person -> SUBSET BOOLEAN]
    <3>1. u \in Person /\ copies[u] \subseteq BOOLEAN /\ copies \in [Person -> SUBSET BOOLEAN]
      BY <1>1, SupportAssumption DEF SupportTypeOK
    <3>2. {("ticket" \in allowed[u])} \subseteq BOOLEAN
      OBVIOUS
    <3>3. PICK some \in SUBSET BOOLEAN : copies' = [copies EXCEPT ![u] = some]
      BY <1>13, <3>1, <3>2 DEF LookUp, Expire
    <3> QED BY <3>1, <3>3
  <2> QED BY <1>13, <2>1, CopiesStep DEF LookUp, Expire, desk
<1>14. CASE UNCHANGED supportVars
  BY <1>14, <1>1, CopiesStep DEF supportVars, SupportTypeOK
<1> QED BY <1>2, <1>3, <1>4, <1>5, <1>6, <1>7, <1>8, <1>9, <1>10, <1>11, <1>12, <1>13, <1>14
        DEF SupportNext

LEMMA SupportInductive == SupportSpec => []SupportIInv
  BY SupportStarts, SupportSteps, PTL DEF SupportSpec

(***************************************************************************)
(* Tickets, replies and rights have their types in every state of the      *)
(* support desk: the type invariant of Support, for any people and tickets.*)
(***************************************************************************)
THEOREM SupportTypesHold == SupportSpec => []SupportTypeOK
<1>1. SupportIInv => SupportTypeOK
  BY DEF SupportIInv, SupportTypes
<1> QED BY <1>1, SupportInductive, PTL

(***************************************************************************)
(* A reply is in a closed ticket only if its request read the ticket while *)
(* it was open, and no reply outlives its ticket: add_reply inserts with   *)
(* no condition on the status it has read.                                 *)
(***************************************************************************)
THEOREM LateRepliesHold == SupportSpec => []LateRepliesReadItOpen
<1>1. SupportIInv => LateRepliesReadItOpen
  BY DEF SupportIInv
<1> QED BY <1>1, SupportInductive, PTL

(***************************************************************************)
(* The one step by which a request goes from its insert to done.           *)
(***************************************************************************)
LEMMA InsertGranted ==
  SupportIInv /\ [SupportNext]_supportVars =>
    [\A q \in Client :
       step[q] = "insert" /\ step'[q] = "done" =>
         \/ work[q].deed \in allowed[work[q].by] \/ q \in overtaken
         \/ work[q].deed # "ticket" /\ work[q].by \in Agent]_supportVars
  BY DEF SupportIInv, Granted

(***************************************************************************)
(* What an administrator took from a person is stored for that person no   *)
(* more, but by requests that looked before or that a cache answered, and  *)
(* but for agents.                                                         *)
(***************************************************************************)
THEOREM RefusalsKept == SupportSpec => RefusalsHold
<1>1. SupportIInv /\ [SupportNext]_supportVars =>
        [\A q \in Client :
           step[q] = "insert" /\ step'[q] = "done" =>
             \/ work[q].deed \in allowed[work[q].by] \/ q \in overtaken
             \/ work[q].deed # "ticket" /\ work[q].by \in Agent]_supportVars
  BY InsertGranted
<1> QED BY <1>1, SupportInductive, PTL DEF SupportSpec, RefusalsHold

-----------------------------------------------------------------------------
(***************************************************************************)
(* The rate limit: only the last counter made can be in the cache, and     *)
(* only while its minute runs; a request counts on no other; the next one  *)
(* is made when that minute is over.                                       *)
(***************************************************************************)
GateTypes ==
  /\ clock \in Moment
  /\ Last \in Nat
  /\ counters \in [1 .. Last -> [made : Moment, hits : Nat]]
  /\ current \in {0, Last}
  /\ held \in [Request -> {0, current}]

Running ==
  IF current # 0
  THEN counters[current].made <= clock /\ clock < counters[current].made + Window
  ELSE Last # 0 => counters[Last].made + Window <= clock

(***************************************************************************)
(* Two counters are a minute apart, so that three are never made within    *)
(* two minutes, and a minute meets two.                                    *)
(***************************************************************************)
MinuteApart ==
  \A n \in 1 .. Last : \A m \in 1 .. n - 1 : counters[m].made + Window <= counters[n].made

(* Who was let in: on which counter, within its minute and the limit.      *)
LetIn(a) ==
  /\ a \in [on : 1 .. Last, hit : 1 .. Limit, at : Moment]
  /\ a.hit <= counters[a.on].hits
  /\ counters[a.on].made <= a.at /\ a.at < counters[a.on].made + Window

Admissions ==
  /\ \A a \in admitted : LetIn(a)
  /\ \A a, b \in admitted : a.on = b.on /\ a.hit = b.hit => a = b

GateIInv == GateTypes /\ Running /\ MinuteApart /\ Admissions

LEMMA GateStarts == GateInit => GateIInv
<1> SUFFICES ASSUME GateInit PROVE GateIInv
  OBVIOUS
<1>1. DOMAIN counters = {} /\ 1 .. 0 = {}
  BY DEF GateInit
<1>2. Last = 0
  BY <1>1, FS_EmptySet DEF Last
<1>3. GateTypes
  BY <1>1, <1>2, GateAssumption DEF GateInit, GateTypes, Moment
<1>4. Running /\ MinuteApart /\ Admissions
  BY <1>2 DEF GateInit, Running, MinuteApart, Admissions
<1> QED BY <1>3, <1>4 DEF GateIInv

LEMMA LetInStays ==
  ASSUME GateTypes, GateTypes', Last <= Last',
         \A n \in 1 .. Last : /\ counters'[n].made = counters[n].made
                              /\ counters[n].hits <= counters'[n].hits,
         NEW a, LetIn(a)
  PROVE  LetIn(a)'
<1>1. LetIn(a) /\ Last \in Nat /\ Last' \in Nat
  BY DEF GateTypes
<1>2. /\ a \in [on : 1 .. Last, hit : 1 .. Limit, at : Moment]
      /\ a.on \in 1 .. Last /\ a.hit \in Nat /\ a.on \in 1 .. Last'
  BY <1>1, GateAssumption DEF LetIn
<1>3. a \in [on : 1 .. Last', hit : 1 .. Limit, at : Moment]
  BY <1>2
<1>4. a.hit <= counters'[a.on].hits
  <2>1. counters[a.on].hits \in Nat /\ counters'[a.on].hits \in Nat
    BY <1>2 DEF GateTypes
  <2>2. a.hit <= counters[a.on].hits /\ counters[a.on].hits <= counters'[a.on].hits
    BY <1>1, <1>2 DEF LetIn
  <2> QED BY <1>2, <2>1, <2>2
<1> QED BY <1>1, <1>2, <1>3, <1>4 DEF LetIn

LEMMA MakeCounterStep ==
  ASSUME GateIInv, NEW q \in Request, current = 0, MakeCounter(q), UNCHANGED <<clock, admitted>>
  PROVE  GateIInv'
<1> DEFINE N == Last + 1
           new == [made |-> clock, hits |-> 0]
<1>1. GateTypes /\ Running /\ MinuteApart /\ Last \in Nat /\ N \in Nat /\ N # 0 /\ Window \in Nat \ {0}
  BY GateAssumption DEF GateIInv, GateTypes
<1>2. /\ counters' = [n \in 1 .. N |-> IF n <= Last THEN counters[n] ELSE new]
      /\ current' = N /\ held' = [held EXCEPT ![q] = N]
  BY DEF MakeCounter
<1>3. Last' = N
  <2>1. DOMAIN counters' = 1 .. N
    BY <1>2
  <2>2. Cardinality(1 .. N) = N
    BY <1>1, FS_Interval
  <2> QED BY <2>1, <2>2 DEF Last
<1>4. new \in [made : Moment, hits : Nat] /\ new.made = clock
  BY <1>1 DEF GateTypes
<1> HIDE DEF new
<1>5. counters'[N] = new /\ \A n \in 1 .. Last : n \in 1 .. N /\ counters'[n] = counters[n]
  BY <1>1, <1>2
<1>6. counters' \in [1 .. N -> [made : Moment, hits : Nat]]
  BY <1>1, <1>2, <1>4 DEF GateTypes
<1>7. held' \in [Request -> {0, N}]
  BY <1>1, <1>2 DEF GateTypes
<1>8. GateTypes'
  BY <1>1, <1>2, <1>3, <1>6, <1>7 DEF GateTypes
<1>9. clock \in Nat
  BY <1>1 DEF GateTypes, Moment
<1>10. Running'
  BY <1>1, <1>2, <1>4, <1>5, <1>9 DEF Running
<1>11. MinuteApart'
  <2> SUFFICES ASSUME NEW n \in 1 .. N, NEW m \in 1 .. n - 1
               PROVE  counters'[m].made + Window <= counters'[n].made
    BY <1>3 DEF MinuteApart
  <2>1. m \in 1 .. Last /\ counters'[m] = counters[m]
    BY <1>1, <1>5
  <2>2. CASE n \in 1 .. Last
    BY <1>1, <1>5, <2>1, <2>2 DEF MinuteApart
  <2>3. CASE n = N
    <3>1. counters[Last].made + Window <= clock
      BY <1>1, <2>1 DEF Running
    <3>2. m # Last => counters[m].made + Window <= counters[Last].made
      BY <1>1, <2>1 DEF MinuteApart
    <3>3. counters[m].made \in Nat /\ counters[Last].made \in Nat
      BY <1>1, <2>1 DEF GateTypes, Moment
    <3> QED BY <1>1, <1>4, <1>5, <1>9, <2>1, <2>3, <3>1, <3>2, <3>3
  <2> QED BY <1>1, <2>2, <2>3
<1>12. Admissions'
  <2>1. \A n \in 1 .. Last : counters[n].hits \in Nat
    BY <1>1 DEF GateTypes
  <2>2. Last <= Last'
    BY <1>1, <1>3
  <2>3. admitted' = admitted /\ Admissions
    BY DEF GateIInv
  <2>4. \A a \in admitted : LetIn(a)'
    BY <1>1, <1>5, <1>8, <2>1, <2>2, <2>3, LetInStays DEF Admissions
  <2> QED BY <2>3, <2>4 DEF Admissions
<1> QED BY <1>8, <1>10, <1>11, <1>12 DEF GateIInv

LEMMA TakeCounterStep ==
  ASSUME GateIInv, NEW q \in Request, TakeCounter(q), UNCHANGED <<clock, admitted>>
  PROVE  GateIInv'
<1>1. Last' = Last
  BY DEF TakeCounter, Last
<1>2. GateTypes'
  BY <1>1 DEF GateIInv, GateTypes, TakeCounter
<1>3. Admissions'
  BY <1>1 DEF GateIInv, Admissions, LetIn, TakeCounter
<1> QED BY <1>1, <1>2, <1>3 DEF GateIInv, TakeCounter, Running, MinuteApart

(***************************************************************************)
(* A request counts on the counter that is in the cache, and is let in if  *)
(* that one had not reached the limit.                                     *)
(***************************************************************************)
Entry == [on |-> current, hit |-> counters[current].hits + 1, at |-> clock]

LEMMA CountFacts ==
  ASSUME GateIInv, NEW q \in Request, Count(q)
  PROVE  /\ held[q] = current /\ current = Last /\ current \in 1 .. Last
         /\ counters[current] \in [made : Moment, hits : Nat]
         /\ counters' = [counters EXCEPT ![current].hits = @ + 1]
         /\ counters'[current].hits = counters[current].hits + 1
         /\ admitted' # admitted =>
              /\ counters[current].hits < Limit
              /\ admitted' = admitted \cup {Entry}
<1>1. GateTypes /\ held[q] # 0
  BY DEF GateIInv, Count
<1>2. held[q] = current /\ current = Last /\ current \in 1 .. Last
  BY <1>1 DEF GateTypes
<1>3. counters[current] \in [made : Moment, hits : Nat]
  BY <1>1, <1>2 DEF GateTypes
<1>4. counters' = [counters EXCEPT ![current].hits = @ + 1]
  BY <1>2 DEF Count
<1>5. counters'[current].hits = counters[current].hits + 1
  BY <1>1, <1>2, <1>3, <1>4 DEF GateTypes
<1>6. admitted' # admitted => /\ ~(counters[current].hits + 1 > Limit)
                              /\ admitted' = admitted \cup {Entry}
  BY <1>2 DEF Count, Entry
<1>7. ~(counters[current].hits + 1 > Limit) => counters[current].hits < Limit
  BY <1>3, GateAssumption
<1> QED BY <1>2, <1>3, <1>4, <1>5, <1>6, <1>7

LEMMA CountStep ==
  ASSUME GateIInv, NEW q \in Request, Count(q)
  PROVE  GateIInv'
<1>1. /\ current \in 1 .. Last
      /\ counters[current] \in [made : Moment, hits : Nat]
      /\ counters' = [counters EXCEPT ![current].hits = @ + 1]
      /\ counters'[current].hits = counters[current].hits + 1
  BY CountFacts
<1>2. GateTypes /\ UNCHANGED <<clock, current>> /\ held' = [held EXCEPT ![q] = 0]
  BY DEF GateIInv, Count
<1>3. DOMAIN counters' = DOMAIN counters /\ Last' = Last
  BY <1>1 DEF Last
<1>4. counters' \in [1 .. Last -> [made : Moment, hits : Nat]]
  <2> DEFINE more == [counters[current] EXCEPT !.hits = @ + 1]
  <2>1. more \in [made : Moment, hits : Nat]
    BY <1>1
  <2>2. counters' = [counters EXCEPT ![current] = more]
    BY <1>1
  <2> HIDE DEF more
  <2> QED BY <1>1, <1>2, <2>1, <2>2 DEF GateTypes
<1>5. \A n \in 1 .. Last : counters'[n].made = counters[n].made
  BY <1>1, <1>2 DEF GateTypes
<1>6. \A n \in 1 .. Last : counters[n].hits <= counters'[n].hits
  <2> SUFFICES ASSUME NEW n \in 1 .. Last
               PROVE  counters[n].hits <= counters'[n].hits
    OBVIOUS
  <2>1. counters[n].hits \in Nat
    BY <1>2 DEF GateTypes
  <2>2. counters'[n].hits = counters[n].hits \/ n = current
    BY <1>1, <1>2 DEF GateTypes
  <2> QED BY <1>1, <2>1, <2>2
<1>7. GateTypes'
  BY <1>2, <1>3, <1>4 DEF GateTypes
<1>8. Running'
  <2>1. Running /\ (current # 0 => current \in 1 .. Last) /\ (Last # 0 => Last \in 1 .. Last)
    BY <1>1, <1>2 DEF GateIInv, GateTypes
  <2> QED BY <1>2, <1>3, <1>5, <2>1 DEF Running
<1>9. MinuteApart'
  <2>1. \A n \in 1 .. Last : \A m \in 1 .. n - 1 : m \in 1 .. Last
    BY <1>2 DEF GateTypes
  <2> QED BY <1>3, <1>5, <2>1 DEF GateIInv, MinuteApart
<1>10. Admissions'
  <2>1. \A a \in admitted : LetIn(a)'
    <3>1. Last \in Nat /\ Last <= Last'
      BY <1>2, <1>3 DEF GateTypes
    <3> QED BY <1>2, <1>5, <1>6, <1>7, <3>1, LetInStays DEF GateIInv, Admissions
  <2>2. CASE admitted' = admitted
    BY <2>1, <2>2 DEF GateIInv, Admissions
  <2>3. CASE admitted' # admitted
    <3>1. PICK e : e = Entry
      OBVIOUS
    <3>2. /\ counters[current].hits < Limit /\ admitted' = admitted \cup {e}
          /\ counters[current].hits \in Nat /\ Limit \in Nat /\ current # 0
      BY <1>1, <2>3, <3>1, CountFacts, GateAssumption
    <3>3. /\ e.on = current /\ e.hit = counters[current].hits + 1 /\ e.at = clock
          /\ e \in [on : 1 .. Last, hit : 1 .. Limit, at : Moment]
      BY <1>1, <1>2, <3>1, <3>2 DEF Entry, GateTypes
    <3>4. LetIn(e)'
      <4>1. counters[current].made <= clock /\ clock < counters[current].made + Window
        BY <3>2 DEF GateIInv, Running
      <4>2. e.hit <= counters'[current].hits /\ counters'[current].made = counters[current].made
        BY <1>1, <1>5, <3>2, <3>3
      <4> QED BY <1>3, <3>3, <4>1, <4>2 DEF LetIn
    <3>5. \A a \in admitted : ~(a.on = e.on /\ a.hit = e.hit)
      BY <3>2, <3>3, GateAssumption DEF GateIInv, Admissions, LetIn
    <3> QED BY <2>1, <3>2, <3>4, <3>5 DEF GateIInv, Admissions
  <2> QED BY <2>2, <2>3
<1> QED BY <1>7, <1>8, <1>9, <1>10 DEF GateIInv

LEMMA PassTimeStep == GateIInv /\ PassTime => GateIInv'
<1> SUFFICES ASSUME GateIInv, PassTime PROVE GateIInv'
  OBVIOUS
<1>1. GateTypes /\ Running /\ MinuteApart /\ Last' = Last /\ Last \in Nat
  BY DEF GateIInv, PassTime, Last, GateTypes
<1>2. clock \in Nat /\ clock' = clock + 1 /\ clock' \in Moment
  BY <1>1, GateAssumption DEF GateTypes, Moment, PassTime
<1>3. /\ current' = IF current # 0 /\ counters[current].made + Window <= clock + 1
                    THEN 0 ELSE current
      /\ UNCHANGED <<counters, held, admitted>> /\ \A q \in Request : held[q] = 0
  BY DEF PassTime
<1>4. held' \in [Request -> {0, current'}]
  BY <1>1, <1>3 DEF GateTypes
<1>5. GateTypes'
  BY <1>1, <1>2, <1>3, <1>4 DEF GateTypes
<1>6. \A n \in 1 .. Last : counters[n].made \in Nat
  BY <1>1 DEF GateTypes, Moment
<1>7. Running'
  <2>1. CASE current = 0
    <3>1. Last # 0 => counters[Last].made + Window <= clock /\ counters[Last].made \in Nat
      BY <1>1, <1>6, <2>1 DEF Running
    <3> QED BY <1>1, <1>2, <1>3, <2>1, <3>1, GateAssumption DEF Running
  <2>2. CASE current # 0
    <3>1. current = Last /\ counters[current].made \in Nat /\ counters[current].made <= clock
      BY <1>1, <1>6, <2>2 DEF GateTypes, Running
    <3> QED BY <1>1, <1>2, <1>3, <2>2, <3>1, GateAssumption DEF Running
  <2> QED BY <2>1, <2>2
<1>8. MinuteApart'
  BY <1>1, <1>3 DEF MinuteApart
<1>9. Admissions'
  BY <1>1, <1>3 DEF GateIInv, Admissions, LetIn
<1> QED BY <1>5, <1>7, <1>8, <1>9 DEF GateIInv

LEMMA GateSteps == GateIInv /\ [GateNext]_gateVars => GateIInv'
<1> SUFFICES ASSUME GateIInv, [GateNext]_gateVars PROVE GateIInv'
  OBVIOUS
<1>1. ASSUME NEW q \in Request, GetCounter(q) PROVE GateIInv'
  <2>1. CASE current = 0
    BY <1>1, <2>1, MakeCounterStep DEF GetCounter
  <2>2. CASE current # 0
    BY <1>1, <2>2, TakeCounterStep DEF GetCounter
  <2> QED BY <2>1, <2>2
<1>2. ASSUME NEW q \in Request, Count(q) PROVE GateIInv'
  BY <1>2, CountStep
<1>3. CASE PassTime
  BY <1>3, PassTimeStep
<1>4. CASE UNCHANGED gateVars
  BY <1>4 DEF gateVars, GateIInv, GateTypes, Running, MinuteApart, Admissions, LetIn, Last
<1> QED BY <1>1, <1>2, <1>3, <1>4 DEF GateNext

LEMMA GateInductive == GateSpec => []GateIInv
  BY GateStarts, GateSteps, PTL DEF GateSpec

(***************************************************************************)
(* A minute, wherever it begins, meets at most two counters: of three, the *)
(* first was dropped before the third was made, whatever requests met on   *)
(* them.                                                                   *)
(***************************************************************************)
MeetsTwo ==
  \A i \in Moment : \A a, b, c \in 1 .. Last :
    a < b /\ b < c =>
      ~(i < counters[a].made + Window /\ counters[c].made < i + Window)

LEMMA TwoMet == GateIInv => MeetsTwo
<1> SUFFICES ASSUME GateIInv, NEW i \in Moment,
                    NEW a \in 1 .. Last, NEW b \in 1 .. Last, NEW c \in 1 .. Last, a < b, b < c
             PROVE  ~(i < counters[a].made + Window /\ counters[c].made < i + Window)
  BY DEF MeetsTwo
<1>1. a \in 1 .. b - 1 /\ b \in 1 .. c - 1
  OBVIOUS
<1>2. /\ counters[a].made + Window <= counters[b].made
      /\ counters[b].made + Window <= counters[c].made
  BY <1>1 DEF GateIInv, MinuteApart
<1>3. counters[a].made \in Nat /\ counters[b].made \in Nat /\ counters[c].made \in Nat /\ i \in Nat
  BY DEF GateIInv, GateTypes, Moment
<1> QED BY <1>2, <1>3, GateAssumption

(* A minute meets two counters at most, whenever.                          *)
THEOREM MinuteMeetsTwo == GateSpec => []MeetsTwo
  BY TwoMet, GateInductive, PTL

(***************************************************************************)
(* A request is let in only on the one counter whose minute runs, while it *)
(* has counted fewer than Limit, and is counted on it: no counter lets in  *)
(* more than Limit.                                                        *)
(***************************************************************************)
CountsWhoComesIn ==
  [][ admitted' # admitted =>
        /\ counters[current].made <= clock /\ clock < counters[current].made + Window
        /\ counters[current].hits < Limit
        /\ counters'[current].hits = counters[current].hits + 1
        /\ admitted' = admitted \cup {Entry} ]_gateVars

LEMMA Admission ==
  ASSUME GateIInv, [GateNext]_gateVars, admitted' # admitted
  PROVE  /\ counters[current].made <= clock /\ clock < counters[current].made + Window
         /\ counters[current].hits < Limit
         /\ counters'[current].hits = counters[current].hits + 1
         /\ admitted' = admitted \cup {Entry}
<1>1. PICK q \in Request : Count(q)
  BY DEF GateNext, PassTime, GetCounter, gateVars
<1>2. current # 0 /\ Running
  BY <1>1, CountFacts DEF GateIInv
<1> QED BY <1>1, <1>2, CountFacts DEF Running

THEOREM AdmissionsCounted == GateSpec => CountsWhoComesIn
<1>1. GateIInv /\ [GateNext]_gateVars =>
        [admitted' # admitted =>
           /\ counters[current].made <= clock /\ clock < counters[current].made + Window
           /\ counters[current].hits < Limit
           /\ counters'[current].hits = counters[current].hits + 1
           /\ admitted' = admitted \cup {Entry}]_gateVars
  BY Admission
<1> QED BY <1>1, GateInductive, PTL DEF GateSpec, CountsWhoComesIn

(***************************************************************************)
(* The counters a minute meets are two of those made.                      *)
(***************************************************************************)
Meets(i, n) == i < counters[n].made + Window /\ counters[n].made < i + Window

LEMMA TwoAreMet ==
  ASSUME GateIInv, NEW i \in Moment
  PROVE  \E x, y : \A n \in 1 .. Last : Meets(i, n) => n \in {x, y}
<1> SUFFICES ASSUME \A x, y : \E n \in 1 .. Last : Meets(i, n) /\ n # x /\ n # y
             PROVE  FALSE
  OBVIOUS
<1>1. PICK x \in 1 .. Last : Meets(i, x)
  OBVIOUS
<1>2. PICK y \in 1 .. Last : Meets(i, y) /\ y # x
  OBVIOUS
<1>3. PICK z \in 1 .. Last : Meets(i, z) /\ z # x /\ z # y
  OBVIOUS
<1>4. Last \in Nat /\ MeetsTwo
  BY TwoMet DEF GateIInv, GateTypes
<1>5. \A a, b, c \in 1 .. Last : ~(a < b /\ b < c /\ Meets(i, a) /\ Meets(i, c))
  BY <1>4 DEF MeetsTwo, Meets
<1>6. x \in Int /\ y \in Int /\ z \in Int
  BY <1>4
<1> QED BY <1>1, <1>2, <1>3, <1>5, <1>6

(***************************************************************************)
(* Who is let in within a minute differs in the counter, which is one of   *)
(* two, or in the hit, which is within the limit.                          *)
(***************************************************************************)
LEMMA MinuteFits == GateIInv => MinuteHolds
<1> SUFFICES ASSUME GateIInv, NEW i \in Moment
             PROVE  Cardinality({a \in admitted : a.at \in i .. i + Window - 1}) <= 2 * Limit
  BY DEF MinuteHolds
<1> DEFINE A == {a \in admitted : a.at \in i .. i + Window - 1}
           f == [a \in A |-> <<a.on, a.hit>>]
<1>1. PICK x, y : \A n \in 1 .. Last : Meets(i, n) => n \in {x, y}
  BY TwoAreMet
<1>2. \A a \in A : a.on \in {x, y} /\ a.hit \in 1 .. Limit
  <2> SUFFICES ASSUME NEW a \in A PROVE a.on \in {x, y} /\ a.hit \in 1 .. Limit
    OBVIOUS
  <2>1. LetIn(a)
    BY DEF GateIInv, Admissions
  <2>2. a.on \in 1 .. Last /\ a.hit \in 1 .. Limit
    BY <2>1 DEF LetIn
  <2>3. counters[a.on].made \in Nat /\ a.at \in Nat /\ i \in Nat /\ Window \in Nat
    BY <2>1, <2>2, GateAssumption DEF GateIInv, GateTypes, Moment, LetIn
  <2>4. i <= a.at /\ a.at < i + Window
    BY <2>3
  <2>5. Meets(i, a.on)
    BY <2>1, <2>3, <2>4 DEF Meets, LetIn
  <2> QED BY <1>1, <2>2, <2>5
<1>3. \A a, b \in A : a.on = b.on /\ a.hit = b.hit => a = b
  BY DEF GateIInv, Admissions
<1>4. IsFiniteSet({x, y}) /\ Cardinality({x, y}) <= 2
  <2>1. IsFiniteSet({x}) /\ Cardinality({x}) = 1 /\ {x, y} = {x} \cup {y}
    BY FS_Singleton
  <2> QED BY <2>1, FS_AddElement
<1>5. Cardinality({x, y}) \in Nat
  BY <1>4, FS_CardinalityType
<1>6. IsFiniteSet(1 .. Limit) /\ Cardinality(1 .. Limit) = Limit /\ Limit \in Nat
  BY FS_Interval, GateAssumption
<1>7. /\ IsFiniteSet({x, y} \X (1 .. Limit))
      /\ Cardinality({x, y} \X (1 .. Limit)) = Cardinality({x, y}) * Limit
  BY <1>4, <1>6, FS_Product
<1>8. f \in Injection(A, {x, y} \X (1 .. Limit))
  <2>1. f \in [A -> {x, y} \X (1 .. Limit)]
    BY <1>2
  <2>2. \A a, b \in A : f[a] = f[b] => a = b
    BY <1>3
  <2> HIDE DEF f, A
  <2> QED BY <2>1, <2>2 DEF Injection, IsInjective
<1>9. IsFiniteSet(A) /\ Cardinality(A) <= Cardinality({x, y} \X (1 .. Limit))
  <2> HIDE DEF f, A
  <2> QED BY <1>7, <1>8, FS_Injection
<1>10. Cardinality(A) \in Nat
  BY <1>9, FS_CardinalityType
<1>11. Cardinality({x, y}) * Limit <= 2 * Limit
  <2>1. PICK k \in Nat : k = Cardinality({x, y}) /\ k <= 2
    BY <1>4, <1>5
  <2>2. k = 0 \/ k = 1 \/ k = 2
    BY <2>1
  <2> QED BY <1>6, <2>1, <2>2
<1> QED BY <1>5, <1>6, <1>7, <1>9, <1>10, <1>11

(***************************************************************************)
(* Any minute lets in at most twice the limit, wherever it begins and      *)
(* whatever requests meet on its counters.                                 *)
(***************************************************************************)
THEOREM MinuteIsBounded == GateSpec => []MinuteHolds
  BY MinuteFits, GateInductive, PTL

-----------------------------------------------------------------------------
(***************************************************************************)
(* Accounts.  What a request works on; the account it names is there or    *)
(* has been deleted since.                                                 *)
(***************************************************************************)
Tasks == [id : Account \cup {None}, gives : Login \cup Password \cup {None},
          takes : Password \cup {None}, contact : Contact \cup {None},
          level : Level \cup {None}]

Known(u) == users[u] # None \/ u \in gone

Fits(t) ==
  /\ pc[t] = "insert" => job[t].gives \in Login /\ job[t].takes \in Password
  /\ pc[t] = "write" => job[t].takes \in Password
  /\ pc[t] \in {"update", "settings"} => job[t].level \in Level
  /\ pc[t] \in {"write", "update", "settings", "delete"} =>
       job[t].id \in Account /\ Known(job[t].id)

AccountTypes == TypeOK /\ job \in [Task -> Tasks] /\ \A t \in Task : Fits(t)

(***************************************************************************)
(* An address opens under the id of its row and is found by its index.     *)
(***************************************************************************)
Addressed(u) ==
  users[u] # None =>
    LET field == users[u].contact IN
    IF field = None THEN users[u].index = None
    ELSE /\ field.for \in {None, u}
         /\ users[u].index = IF field.for = None THEN None ELSE Normal[field.text]
         /\ Served => field.for = u

(***************************************************************************)
(* A start that has read the rows has all those in plain text before it;   *)
(* what it will seal is what the row still says, unless the user rewrote   *)
(* the address; and of two starts that have the same row before them, both *)
(* know or neither does that it was rewritten: nothing is put back into    *)
(* plain text after the first of them has read it.                         *)
(***************************************************************************)
Unsealed(row) == row.contact # None /\ row.contact.for = None
Due(r, u) == boot[r] = "sealing" /\ u \in left[r] /\ Dirty(read[r][u])

Begun(r) ==
  boot[r] = "sealing" =>
    \A u \in Account :
      /\ u \in left[r] => read[r][u] # None /\ Known(u)
      /\ users[u] # None /\ Unsealed(users[u]) => Due(r, u)

TextKept(r) ==
  \A u \in Account :
    Due(r, u) /\ users[u] # None /\ u \notin rewritten[r] =>
      Text(users[u]) = Text(read[r][u])

SameRewrites ==
  \A r, s \in Replica : \A u \in Account :
    Due(r, u) /\ Due(s, u) /\ u \in rewritten[r] => u \in rewritten[s]

RewrittenSealed ==
  \A r \in Replica : \A u \in rewritten[r] : users[u] # None => ~Unsealed(users[u])

Starts ==
  (\A r \in Replica : Begun(r) /\ TextKept(r)) /\ SameRewrites /\ RewrittenSealed

(***************************************************************************)
(* Between the two statements of an update the row has the new level;      *)
(* where two updates of an account meet, the account is torn.              *)
(***************************************************************************)
Agrees(u) ==
  users[u] # None =>
    \/ settings[u] = users[u].level \/ u \in torn
    \/ \E t \in Task : pc[t] = "settings" /\ job[t].id = u

HalfDone(t) ==
  pc[t] = "settings" =>
    LET u == job[t].id IN users[u] = None \/ u \in torn \/ users[u].level = job[t].level

OneUpdate ==
  \A t, s \in Task :
    /\ t # s /\ job[t].id = job[s].id
    /\ pc[t] \in {"update", "settings"} /\ pc[s] \in {"update", "settings"}
    => job[t].id \in torn

Levels == (\A u \in Account : Agrees(u)) /\ (\A t \in Task : HalfDone(t)) /\ OneUpdate

(***************************************************************************)
(* A request about to write a password was given the one that is there,    *)
(* unless another request has replaced it since.                           *)
(***************************************************************************)
Verified(t) ==
  pc[t] = "write" /\ t \notin crossed =>
    LET u == job[t].id IN users[u] = None \/ users[u].password = job[t].gives

AccountsIInv ==
  /\ AccountTypes
  /\ \A u \in Account : Addressed(u)
  /\ Starts
  /\ Levels
  /\ \A t \in Task : Verified(t)

LEMMA FieldFacts ==
  ASSUME NEW f \in Field
  PROVE  f # None /\ f.for \in Account \cup {None} /\ f.text \in Contact
  BY AccountsAssumption DEF Field, Plain, Sealed

LEMMA SealedFacts ==
  ASSUME NEW u \in Account, NEW c \in Contact
  PROVE  Sealed(u, c) \in Field /\ Sealed(u, c).for = u /\ Sealed(u, c).text = c
  BY DEF Field, Sealed

LEMMA IndexFacts ==
  ASSUME NEW c \in Contact
  PROVE  BlindIndex(c) = Normal[c] /\ Normal[c] \in Contact /\ Normal[c] # None /\ c # None
  BY AccountsAssumption DEF BlindIndex

LEMMA AccountsInit ==
  ASSUME Init
  PROVE  AccountsIInv
<1> USE DEF Init
<1>1. Idle \in Tasks
  BY DEF Idle, Tasks
<1>2. ASSUME NEW u \in Account, users[u] # None
      PROVE  users[u] \in Row /\ users[u].index = None
             /\ (users[u].contact # None => users[u].contact.for = None)
  BY <1>2, AccountsAssumption
<1>3. users \in [Account -> Row \cup {None}]
  BY <1>2
<1>4. ~Served
  BY DEF Served
<1>5. AccountTypes
  <2>1. \A u \in Account : settings[u] = IF users[u] # None THEN users[u].level ELSE None
    BY DEF Present
  <2>2. \A u \in Account : /\ settings[u] \in Level \cup {None}
                           /\ settings[u] = None <=> users[u] = None
    BY <1>2, <2>1, AccountsAssumption DEF Row
  <2>3. settings \in [Account -> Level \cup {None}]
    BY <2>2
  <2>4. stops \in 0 .. MaxStops
    BY AccountsAssumption
  <2>5. TypeOK
    BY <1>3, <2>2, <2>3, <2>4 DEF TypeOK
  <2> QED BY <1>1, <2>5 DEF AccountTypes, Fits
<1>6. \A u \in Account : Addressed(u)
  BY <1>2, <1>4 DEF Addressed
<1>7. Starts
  BY DEF Starts, Begun, TextKept, SameRewrites, RewrittenSealed, Due
<1>8. Levels
  <2>1. \A u \in Account : users[u] # None => settings[u] = users[u].level
    BY DEF Present
  <2> QED BY <2>1 DEF Levels, Agrees, HalfDone, OneUpdate
<1>9. \A t \in Task : Verified(t)
  BY DEF Verified
<1> QED BY <1>5, <1>6, <1>7, <1>8, <1>9 DEF AccountsIInv

(***************************************************************************)
(* What keeps each of the parts.                                           *)
(***************************************************************************)
SameRows == \A u \in Account : users'[u] = None <=> users[u] = None

LEMMA FitsKept ==
  ASSUME NEW t \in Task, Fits(t), pc'[t] = pc[t], job'[t] = job[t],
         \A u \in Account : Known(u) => Known(u)'
  PROVE  Fits(t)'
  BY DEF Fits

LEMMA AddressedKept ==
  ASSUME \A u \in Account : Addressed(u), SameRows, Served' => Served,
         \A u \in Account : users[u] # None =>
           users'[u].contact = users[u].contact /\ users'[u].index = users[u].index
  PROVE  \A u \in Account : Addressed(u)'
  BY DEF Addressed, SameRows

LEMMA StartsKept ==
  ASSUME Starts, SameRows, UNCHANGED <<boot, read, left, rewritten>>, gone \subseteq gone',
         \A u \in Account : users[u] # None => users'[u].contact = users[u].contact,
         \A r \in Replica : rewritten[r] \subseteq Account
  PROVE  Starts'
<1>1. \A r \in Replica : Begun(r)'
  BY DEF Starts, SameRows, Begun, Known, Unsealed, Due
<1>2. \A r \in Replica : TextKept(r)'
  BY DEF Starts, SameRows, TextKept, Due, Text
<1>3. SameRewrites' /\ RewrittenSealed'
  BY DEF Starts, SameRows, SameRewrites, RewrittenSealed, Due, Unsealed
<1> QED BY <1>1, <1>2, <1>3 DEF Starts

LEMMA LevelsKept ==
  ASSUME Levels, SameRows, UNCHANGED <<settings, torn>>,
         \A u \in Account : users[u] # None => users'[u].level = users[u].level,
         \A t \in Task : pc[t] \in {"update", "settings"} => job[t].id \in Account,
         \A t \in Task :
           \/ pc'[t] = pc[t] /\ job'[t] = job[t]
           \/ pc[t] # "settings" /\ pc'[t] \notin {"update", "settings"}
  PROVE  Levels'
<1>1. \A u \in Account : Agrees(u)'
  BY DEF Levels, SameRows, Agrees
<1>2. \A t \in Task : HalfDone(t)'
  BY DEF Levels, SameRows, HalfDone
<1>3. OneUpdate'
  BY DEF Levels, OneUpdate
<1> QED BY <1>1, <1>2, <1>3 DEF Levels

LEMMA VerifiedKept ==
  ASSUME NEW t \in Task, Verified(t), SameRows, Fits(t),
         pc'[t] = "write" => pc[t] = "write" /\ job'[t] = job[t] /\ (t \in crossed => t \in crossed'),
         \A u \in Account : users[u] # None => users'[u].password = users[u].password
  PROVE  Verified(t)'
  BY DEF Verified, SameRows, Fits

LEMMA RowWritten ==
  ASSUME TypeOK, NEW u \in Account, NEW new \in Row,
         users' = [users EXCEPT ![u] = new]
  PROVE  /\ users' \in [Account -> Row \cup {None}]
         /\ users'[u] = new /\ new # None
         /\ \A w \in Account \ {u} : users'[w] = users[w]
  BY AccountsAssumption DEF TypeOK

LEMMA RowFacts ==
  ASSUME AccountsIInv, NEW u \in Account, users[u] # None
  PROVE  /\ users[u] \in Row
         /\ users[u].contact # None => users[u].contact \in Field
  BY DEF AccountsIInv, AccountTypes, TypeOK, Row

(***************************************************************************)
(* What a request does to its own label and work.                          *)
(***************************************************************************)
Labels == {"new", "insert", "write", "update", "settings", "delete", "ended"}

LEMMA StepFacts ==
  ASSUME AccountTypes, NEW t \in Task, NEW l \in Labels, NEW j \in Tasks,
         pc' = [pc EXCEPT ![t] = l], job' = [job EXCEPT ![t] = j]
  PROVE  /\ pc' \in [Task -> Labels] /\ job' \in [Task -> Tasks]
         /\ pc'[t] = l /\ job'[t] = j
         /\ \A s \in Task \ {t} : pc'[s] = pc[s] /\ job'[s] = job[s]
  BY DEF AccountTypes, TypeOK, Labels

LEMMA AcEndFacts ==
  ASSUME AccountTypes, NEW t \in Task, End(t)
  PROVE  /\ pc' \in [Task -> Labels] /\ job' \in [Task -> Tasks]
         /\ pc'[t] = "ended" /\ Fits(t)' /\ Verified(t)' /\ HalfDone(t)'
         /\ \A s \in Task \ {t} : pc'[s] = pc[s] /\ job'[s] = job[s]
<1>1. Idle \in Tasks /\ "ended" \in Labels
  BY DEF Idle, Tasks, Labels
<1>2. pc' = [pc EXCEPT ![t] = "ended"] /\ job' = [job EXCEPT ![t] = Idle]
  BY DEF End, Goto
<1>3. /\ pc' \in [Task -> Labels] /\ job' \in [Task -> Tasks] /\ pc'[t] = "ended"
      /\ \A s \in Task \ {t} : pc'[s] = pc[s] /\ job'[s] = job[s]
  BY <1>1, <1>2, StepFacts
<1> QED BY <1>3 DEF Fits, Verified, HalfDone

LEMMA TypesFacts ==
  ASSUME TypeOK
  PROVE  pc \in [Task -> Labels] /\ \A r \in Replica : rewritten[r] \subseteq Account
  BY DEF TypeOK, Labels

(***************************************************************************)
(* A request that has looked at a row: signing up, logging in, changing    *)
(* the password, leaving.                                                  *)
(***************************************************************************)
LEMMA AcceptStep ==
  ASSUME AccountsIInv, NEW t \in Task, NEW l \in {"insert", "write", "delete"}, NEW j \in Tasks,
         Accept(t, l, j),
         l = "insert" => j.gives \in Login /\ j.takes \in Password,
         l = "write" => /\ j.takes \in Password
                        /\ j.id \in Account => users[j.id].password = j.gives,
         l # "insert" => j.id \in Account /\ users[j.id] # None,
         UNCHANGED <<users, settings, boot, read, left, stops, gone, crossed, rewritten, torn>>
  PROVE  AccountsIInv'
<1>1. AccountTypes /\ pc[t] = "new" /\ l \in Labels
      /\ pc' = [pc EXCEPT ![t] = l] /\ job' = [job EXCEPT ![t] = j]
  BY DEF AccountsIInv, Accept, Goto, Labels
<1>2. /\ pc' \in [Task -> Labels] /\ job' \in [Task -> Tasks] /\ pc'[t] = l /\ job'[t] = j
      /\ \A s \in Task \ {t} : pc'[s] = pc[s] /\ job'[s] = job[s]
  BY <1>1, StepFacts
<1>3. SameRows
  BY DEF SameRows
<1>4. \A s \in Task : Fits(s)'
  BY <1>1, <1>2 DEF AccountTypes, Fits, Known
<1>5. TypeOK'
  BY <1>1, <1>2, <1>4 DEF AccountTypes, TypeOK, Labels, Fits
<1>6. AccountTypes'
  BY <1>2, <1>4, <1>5 DEF AccountTypes
<1>7. \A u \in Account : Addressed(u)'
  BY DEF AccountsIInv, Addressed, Served
<1>8. Starts'
  BY <1>1, <1>3, TypesFacts, StartsKept DEF AccountsIInv, AccountTypes
<1>9. Levels'
  BY <1>1, <1>2, <1>3, LevelsKept DEF AccountsIInv, AccountTypes, Fits
<1>10. \A s \in Task : Verified(s)'
  BY <1>2 DEF AccountsIInv, Verified
<1> QED BY <1>6, <1>7, <1>8, <1>9, <1>10 DEF AccountsIInv

LEMMA RegisterStep ==
  ASSUME AccountsIInv, NEW t \in Task, NEW l \in Login, NEW p \in Password, Register(t, l, p)
  PROVE  AccountsIInv'
<1> DEFINE j == [Idle EXCEPT !.gives = l, !.takes = p]
<1>1. j \in Tasks /\ j.gives = l /\ j.takes = p
  BY DEF Idle, Tasks
<1>2. Accept(t, "insert", j)
  BY DEF Register
<1>3. UNCHANGED <<users, settings, boot, read, left, stops, gone, crossed, rewritten, torn>>
  BY DEF Register, tables, starts, history
<1> HIDE DEF j
<1> QED BY <1>1, <1>2, <1>3, AcceptStep

LEMMA PasswordStep ==
  ASSUME AccountsIInv, NEW t \in Task, NEW u \in Account, NEW p \in Password, NEW q \in Password,
         LogIn(t, u, p) \/ ChangePassword(t, u, p, q)
  PROVE  AccountsIInv'
<1>1. PICK next \in {p, q} : Accept(t, "write", [Idle EXCEPT !.id = u, !.gives = p, !.takes = next])
  BY DEF LogIn, ChangePassword
<1> DEFINE j == [Idle EXCEPT !.id = u, !.gives = p, !.takes = next]
<1>2. j \in Tasks /\ j.id = u /\ j.gives = p /\ j.takes \in Password
  BY DEF Idle, Tasks
<1>3. Accept(t, "write", j)
  BY <1>1
<1>4. users[u] # None /\ users[u].password = p
  BY DEF LogIn, ChangePassword, Present, Verify
<1>5. UNCHANGED <<users, settings, boot, read, left, stops, gone, crossed, rewritten, torn>>
  BY DEF LogIn, ChangePassword, tables, starts, history
<1> HIDE DEF j
<1> QED BY <1>2, <1>3, <1>4, <1>5, AcceptStep

LEMMA LeaveStep ==
  ASSUME AccountsIInv, NEW t \in Task, NEW u \in Account, NEW p \in Password, Leave(t, u, p)
  PROVE  AccountsIInv'
<1> DEFINE j == [Idle EXCEPT !.id = u, !.gives = p]
<1>1. j \in Tasks /\ j.id = u
  BY DEF Idle, Tasks
<1>2. Accept(t, "delete", j) /\ users[u] # None
  BY DEF Leave, Present
<1>3. UNCHANGED <<users, settings, boot, read, left, stops, gone, crossed, rewritten, torn>>
  BY DEF Leave, tables, starts, history
<1> HIDE DEF j
<1> QED BY <1>1, <1>2, <1>3, AcceptStep

(***************************************************************************)
(* A new row: its id was never used, so that no start and no request knows *)
(* it.                                                                     *)
(***************************************************************************)
LEMMA InsertStep ==
  ASSUME AccountsIInv, NEW t \in Task, NEW u \in Account, Insert(t, u)
  PROVE  AccountsIInv'
<1> DEFINE new == [login |-> job[t].gives, algo |-> "argon2id", password |-> job[t].takes,
                   contact |-> None, index |-> None, level |-> Everyone]
<1>1. AccountTypes /\ TypeOK /\ Fits(t)
  BY DEF AccountsIInv, AccountTypes
<1>2. /\ pc[t] = "insert" /\ users[u] = None /\ u \notin gone /\ End(t)
      /\ users' = [users EXCEPT ![u] = new] /\ settings' = [settings EXCEPT ![u] = Everyone]
      /\ UNCHANGED <<boot, read, left, stops, gone, crossed, rewritten, torn>>
  BY DEF Insert, starts, history
<1>3. new \in Row /\ new.contact = None /\ new.index = None /\ new.level = Everyone
  BY <1>1, <1>2, AccountsAssumption DEF Fits, Row
<1> HIDE DEF new
<1>4. /\ users' \in [Account -> Row \cup {None}] /\ users'[u] = new /\ new # None
      /\ \A w \in Account \ {u} : users'[w] = users[w]
  BY <1>1, <1>2, <1>3, RowWritten
<1>5. /\ settings' \in [Account -> Level \cup {None}] /\ settings'[u] = Everyone /\ Everyone # None
      /\ \A w \in Account \ {u} : settings'[w] = settings[w]
  BY <1>1, <1>2, AccountsAssumption DEF TypeOK
<1>6. /\ pc' \in [Task -> Labels] /\ job' \in [Task -> Tasks]
      /\ pc'[t] = "ended" /\ Fits(t)' /\ Verified(t)' /\ HalfDone(t)'
      /\ \A s \in Task \ {t} : pc'[s] = pc[s] /\ job'[s] = job[s]
  BY <1>1, <1>2, AcEndFacts
<1>7. ~Known(u) /\ \A w \in Account : Known(w) => Known(w)' /\ w # u
  BY <1>2, <1>4 DEF Known
<1>8. \A s \in Task : Fits(s)'
  BY <1>1, <1>6, <1>7, FitsKept DEF AccountTypes
<1>9. AccountTypes'
  <2>1. \A w \in Account : settings'[w] = None <=> users'[w] = None
    BY <1>1, <1>3, <1>4, <1>5 DEF TypeOK
  <2>2. gone' \subseteq {w \in Account : users'[w] = None}
    BY <1>1, <1>2, <1>4 DEF TypeOK
  <2>3. \A s \in Task : pc'[s] \notin {"new", "insert", "ended"} => job'[s].id \in Account
    BY <1>6, <1>8 DEF Fits, Labels
  <2>4. TypeOK'
    BY <1>1, <1>2, <1>4, <1>5, <1>6, <2>1, <2>2, <2>3 DEF TypeOK, Labels
  <2> QED BY <1>6, <1>8, <2>4 DEF AccountTypes
<1>10. \A w \in Account : Addressed(w)'
  BY <1>2, <1>3, <1>4 DEF AccountsIInv, Addressed, Served
<1>11. Starts'
  <2>1. \A r \in Replica : boot[r] = "sealing" => u \notin left[r]
    BY <1>7 DEF AccountsIInv, Starts, Begun
  <2>2. \A r \in Replica : Begun(r)'
    BY <1>2, <1>3, <1>4, <1>7 DEF AccountsIInv, Starts, Begun, Unsealed, Due
  <2>3. \A r \in Replica : TextKept(r)'
    BY <1>2, <1>4, <2>1 DEF AccountsIInv, Starts, TextKept, Due
  <2>4. SameRewrites'
    BY <1>2 DEF AccountsIInv, Starts, SameRewrites, Due
  <2>5. RewrittenSealed'
    BY <1>1, <1>2, <1>3, <1>4, TypesFacts DEF AccountsIInv, Starts, RewrittenSealed, Unsealed
  <2> QED BY <2>2, <2>3, <2>4, <2>5 DEF Starts
<1>12. \A s \in Task : pc[s] \in {"write", "update", "settings", "delete"} =>
                        job[s].id \in Account /\ job[s].id # u
  BY <1>1, <1>7 DEF AccountTypes, Fits
<1>13. Levels'
  <2>1. \A w \in Account : Agrees(w)'
    BY <1>2, <1>3, <1>4, <1>5, <1>6 DEF AccountsIInv, Levels, Agrees
  <2>2. \A s \in Task : HalfDone(s)'
    BY <1>2, <1>4, <1>6, <1>12 DEF AccountsIInv, Levels, HalfDone
  <2>3. OneUpdate'
    BY <1>2, <1>6 DEF AccountsIInv, Levels, OneUpdate
  <2> QED BY <2>1, <2>2, <2>3 DEF Levels
<1>14. \A s \in Task : Verified(s)'
  BY <1>2, <1>4, <1>6, <1>12 DEF AccountsIInv, Verified
<1> QED BY <1>9, <1>10, <1>11, <1>13, <1>14 DEF AccountsIInv

(***************************************************************************)
(* A password is written: other requests that were to write are crossed,   *)
(* unless it is the one they were given.                                   *)
(***************************************************************************)
LEMMA WritePasswordStep ==
  ASSUME AccountsIInv, NEW t \in Task, WritePassword(t)
  PROVE  AccountsIInv'
<1> DEFINE u == job[t].id
           new == [users[u] EXCEPT !.password = job[t].takes, !.algo = "argon2id"]
<1>1. AccountTypes /\ TypeOK /\ Fits(t)
  BY DEF AccountsIInv, AccountTypes
<1>2. /\ pc[t] = "write" /\ users[u] # None /\ End(t)
      /\ crossed' = (crossed \ {t}) \cup
           {s \in Task \ {t} : pc[s] = "write" /\ job[s].id = u /\ users[u].password # job[t].takes}
      /\ UNCHANGED <<settings, boot, read, left, stops, gone, rewritten, torn>>
  BY DEF WritePassword, Present, starts
<1>3. u \in Account /\ job[t].takes \in Password /\ users[u] \in Row
  BY <1>1, <1>2, RowFacts DEF Fits
<1>4. users' = [users EXCEPT ![u] = new]
  BY <1>1, <1>3 DEF WritePassword, TypeOK
<1>5. /\ new \in Row /\ new.password = job[t].takes
      /\ new.contact = users[u].contact /\ new.index = users[u].index /\ new.level = users[u].level
  BY <1>3 DEF Row
<1> HIDE DEF u, new
<1>6. /\ users' \in [Account -> Row \cup {None}] /\ users'[u] = new /\ new # None
      /\ \A w \in Account \ {u} : users'[w] = users[w]
  BY <1>1, <1>3, <1>4, <1>5, RowWritten
<1>7. /\ SameRows /\ \A w \in Account : Known(w) => Known(w)'
      /\ \A w \in Account : users[w] # None =>
           /\ users'[w].contact = users[w].contact /\ users'[w].index = users[w].index
           /\ users'[w].level = users[w].level
  BY <1>2, <1>5, <1>6 DEF SameRows, Known
<1>8. /\ pc' \in [Task -> Labels] /\ job' \in [Task -> Tasks]
      /\ pc'[t] = "ended" /\ Fits(t)' /\ Verified(t)' /\ HalfDone(t)'
      /\ \A s \in Task \ {t} : pc'[s] = pc[s] /\ job'[s] = job[s]
  BY <1>1, <1>2, AcEndFacts
<1>9. \A s \in Task : Fits(s)'
  BY <1>1, <1>7, <1>8, FitsKept DEF AccountTypes
<1>10. AccountTypes'
  <2>1. (\A w \in Account : settings'[w] = None <=> users'[w] = None)
        /\ gone' \subseteq {w \in Account : users'[w] = None} /\ crossed' \subseteq Task
    BY <1>1, <1>2, <1>7 DEF TypeOK, SameRows
  <2>2. \A s \in Task : pc'[s] \notin {"new", "insert", "ended"} => job'[s].id \in Account
    BY <1>8, <1>9 DEF Fits, Labels
  <2>3. TypeOK'
    BY <1>1, <1>2, <1>6, <1>8, <2>1, <2>2 DEF TypeOK, Labels
  <2> QED BY <1>8, <1>9, <2>3 DEF AccountTypes
<1>11. \A w \in Account : Addressed(w)'
  BY <1>2, <1>7, AddressedKept DEF AccountsIInv, Served
<1>12. Starts'
  BY <1>1, <1>2, <1>7, TypesFacts, StartsKept DEF AccountsIInv
<1>13. Levels'
  BY <1>1, <1>2, <1>7, <1>8, LevelsKept DEF AccountsIInv, AccountTypes, Fits
<1>14. ASSUME NEW s \in Task \ {t} PROVE Verified(s)'
  BY <1>1, <1>2, <1>5, <1>6, <1>8 DEF AccountsIInv, AccountTypes, Fits, Verified
<1> QED BY <1>8, <1>10, <1>11, <1>12, <1>13, <1>14 DEF AccountsIInv

-----------------------------------------------------------------------------
(***************************************************************************)
(* Settings.  The second request for an account tears it.                  *)
(***************************************************************************)
LEMMA UpdateAccountStep ==
  ASSUME AccountsIInv, NEW t \in Task, NEW u \in Account, NEW c \in Contact \cup {None},
         NEW level \in Level, UpdateAccount(t, u, c, level)
  PROVE  AccountsIInv'
<1> DEFINE j == [Idle EXCEPT !.id = u, !.contact = c, !.level = level]
<1>1. AccountTypes /\ j \in Tasks /\ j.id = u /\ j.level = level /\ "update" \in Labels
  BY DEF AccountsIInv, Idle, Tasks, Labels
<1>2. /\ users[u] # None /\ pc[t] = "new"
      /\ pc' = [pc EXCEPT ![t] = "update"] /\ job' = [job EXCEPT ![t] = j]
      /\ torn' = IF Updating(u) = {} THEN torn ELSE torn \cup {u}
      /\ UNCHANGED <<users, settings, boot, read, left, stops, gone, crossed, rewritten>>
  BY DEF UpdateAccount, Present, Accept, Goto, tables, starts
<1> HIDE DEF j
<1>3. /\ pc' \in [Task -> Labels] /\ job' \in [Task -> Tasks] /\ pc'[t] = "update" /\ job'[t] = j
      /\ \A s \in Task \ {t} : pc'[s] = pc[s] /\ job'[s] = job[s]
  BY <1>1, <1>2, StepFacts
<1>4. SameRows /\ \A w \in Account : Known(w) => Known(w)'
  BY <1>2 DEF SameRows, Known
<1>5. \A s \in Task : Fits(s)'
  <2>1. Fits(t)'
    BY <1>1, <1>2, <1>3 DEF Fits, Known
  <2> QED BY <1>1, <1>3, <1>4, <2>1, FitsKept DEF AccountTypes
<1>6. AccountTypes'
  <2>1. \A s \in Task : pc'[s] \notin {"new", "insert", "ended"} => job'[s].id \in Account
    BY <1>3, <1>5 DEF Fits, Labels
  <2>2. TypeOK'
    BY <1>1, <1>2, <1>3, <2>1 DEF AccountTypes, TypeOK, Labels
  <2> QED BY <1>3, <1>5, <2>2 DEF AccountTypes
<1>7. \A w \in Account : Addressed(w)'
  BY <1>2 DEF AccountsIInv, Addressed, Served
<1>8. Starts'
  BY <1>1, <1>2, <1>4, TypesFacts, StartsKept DEF AccountsIInv, AccountTypes
<1>9. Levels'
  <2>1. torn \subseteq torn'
    BY <1>2
  <2>2. \A w \in Account : Agrees(w)'
    BY <1>2, <1>3, <2>1 DEF AccountsIInv, Levels, Agrees
  <2>3. \A s \in Task : HalfDone(s)'
    BY <1>2, <1>3, <2>1 DEF AccountsIInv, Levels, HalfDone
  <2>4. ASSUME NEW s \in Task \ {t}, pc[s] \in {"update", "settings"}, job[s].id = u
        PROVE  u \in torn'
    BY <1>2, <2>4 DEF Updating
  <2>5. OneUpdate'
    BY <1>1, <1>3, <2>1, <2>4 DEF AccountsIInv, Levels, OneUpdate
  <2> QED BY <2>2, <2>3, <2>5 DEF Levels
<1>10. \A s \in Task : Verified(s)'
  BY <1>2, <1>3 DEF AccountsIInv, Verified
<1> QED BY <1>6, <1>7, <1>8, <1>9, <1>10 DEF AccountsIInv

(***************************************************************************)
(* An address and its index are written at once, sealed or none; every     *)
(* start that has read the row before knows it has an old one.             *)
(***************************************************************************)
LEMMA UpdateRowStep ==
  ASSUME AccountsIInv, NEW t \in Task, UpdateRow(t)
  PROVE  AccountsIInv'
<1> DEFINE u == job[t].id
           c == job[t].contact
           field == IF c = None THEN None ELSE Sealed(u, c)
           new == [users[u] EXCEPT !.contact = field, !.index = BlindIndex(c),
                                   !.level = job[t].level]
<1>1. AccountTypes /\ TypeOK /\ Fits(t) /\ "settings" \in Labels
  BY DEF AccountsIInv, AccountTypes, Labels
<1>2. /\ pc[t] = "update" /\ users[u] # None /\ pc' = [pc EXCEPT ![t] = "settings"]
      /\ rewritten' = [r \in Replica |-> rewritten[r] \cup {u}]
      /\ UNCHANGED <<settings, boot, read, left, stops, job, gone, crossed, torn>>
  BY DEF UpdateRow, Present, Goto, starts
<1>3. /\ u \in Account /\ c \in Contact \cup {None} /\ job[t].level \in Level
      /\ users[u] \in Row /\ job[t] \in Tasks
  BY <1>1, <1>2, RowFacts DEF AccountTypes, Fits, Tasks
<1>4. users' = [users EXCEPT ![u] = new]
  BY <1>1, <1>3 DEF UpdateRow, TypeOK
<1>5. /\ field \in Field \cup {None} /\ BlindIndex(c) \in Contact \cup {None}
      /\ IF c = None THEN field = None /\ BlindIndex(c) = None
         ELSE /\ field # None /\ field.for = u /\ field.text = c
              /\ BlindIndex(c) = Normal[field.text]
  <2>1. CASE c = None
    BY <2>1 DEF BlindIndex
  <2>2. CASE c # None
    <3>1. c \in Contact
      BY <1>3, <2>2
    <3>2. Sealed(u, c) \in Field /\ Sealed(u, c).for = u /\ Sealed(u, c).text = c
      BY <1>3, <3>1, SealedFacts
    <3>3. Sealed(u, c) # None
      BY <3>2, FieldFacts
    <3> QED BY <2>2, <3>1, <3>2, <3>3, IndexFacts
  <2> QED BY <2>1, <2>2
<1> HIDE DEF field
<1>6. /\ new \in Row /\ new.password = users[u].password /\ new.level = job[t].level
      /\ new.contact = field /\ new.index = BlindIndex(c)
  BY <1>3, <1>5 DEF Row
<1> HIDE DEF u, c, new
<1>7. /\ users' \in [Account -> Row \cup {None}] /\ users'[u] = new /\ new # None
      /\ \A w \in Account \ {u} : users'[w] = users[w]
  BY <1>1, <1>3, <1>4, <1>6, RowWritten
<1>8. SameRows /\ \A w \in Account : Known(w) => Known(w)'
  BY <1>2, <1>7 DEF SameRows, Known
<1>9. /\ pc' \in [Task -> Labels] /\ pc'[t] = "settings" /\ job' \in [Task -> Tasks]
      /\ \A s \in Task \ {t} : pc'[s] = pc[s]
  BY <1>1, <1>2, TypesFacts DEF AccountTypes
<1>10. \A s \in Task : Fits(s)'
  <2>1. Fits(t)'
    BY <1>2, <1>1, <1>8, <1>9 DEF Fits
  <2> QED BY <1>1, <1>2, <1>8, <1>9, <2>1, FitsKept DEF AccountTypes
<1>11. \A r \in Replica : rewritten'[r] = rewritten[r] \cup {u}
  BY <1>2
<1>12. AccountTypes'
  <2>1. /\ \A w \in Account : settings'[w] = None <=> users'[w] = None
        /\ gone' \subseteq {w \in Account : users'[w] = None}
        /\ rewritten' \in [Replica -> SUBSET Account]
    BY <1>1, <1>2, <1>3, <1>8 DEF TypeOK, SameRows
  <2>2. \A s \in Task : pc'[s] \notin {"new", "insert", "ended"} => job'[s].id \in Account
    BY <1>9, <1>10 DEF Fits, Labels
  <2>3. TypeOK'
    BY <1>1, <1>2, <1>7, <1>9, <2>1, <2>2 DEF TypeOK, Labels
  <2> QED BY <1>9, <1>10, <2>3 DEF AccountTypes
<1>13. \A w \in Account : Addressed(w)'
  <2>1. ASSUME NEW w \in Account, w = u PROVE Addressed(w)'
    BY <1>3, <1>5, <1>6, <1>7, <2>1, AccountsAssumption DEF Addressed
  <2>2. \A w \in Account \ {u} : Addressed(w)'
    BY <1>2, <1>7 DEF AccountsIInv, Addressed, Served
  <2> QED BY <2>1, <2>2
<1>14. Starts'
  <2>1. ~Unsealed(users'[u])
    BY <1>3, <1>5, <1>6, <1>7, FieldFacts, AccountsAssumption DEF Unsealed
  <2>2. \A r \in Replica : Begun(r)'
    BY <1>2, <1>7, <1>8, <2>1 DEF AccountsIInv, Starts, Begun, Due
  <2>3. \A r \in Replica : TextKept(r)'
    BY <1>2, <1>7, <1>11 DEF AccountsIInv, Starts, TextKept, Due
  <2>4. SameRewrites'
    BY <1>2, <1>11 DEF AccountsIInv, Starts, SameRewrites, Due
  <2>5. RewrittenSealed'
    BY <1>1, <1>7, <1>11, <2>1, TypesFacts DEF AccountsIInv, Starts, RewrittenSealed
  <2> QED BY <2>2, <2>3, <2>4, <2>5 DEF Starts
<1>15. Levels'
  <2>1. \A w \in Account : Agrees(w)'
    <3>1. ASSUME NEW w \in Account, w = u PROVE Agrees(w)'
      BY <1>2, <1>9, <3>1 DEF Agrees, u
    <3>2. ASSUME NEW w \in Account \ {u} PROVE Agrees(w)'
      <4>1. \A s \in Task : pc[s] = "settings" => pc'[s] = "settings"
        BY <1>2, <1>9
      <4> QED BY <1>2, <1>7, <4>1 DEF AccountsIInv, Levels, Agrees
    <3> QED BY <3>1, <3>2
  <2>2. OneUpdate'
    BY <1>2, <1>9 DEF AccountsIInv, Levels, OneUpdate
  <2>3. HalfDone(t)'
    BY <1>2, <1>6, <1>7 DEF HalfDone, u
  <2>4. ASSUME NEW s \in Task \ {t} PROVE HalfDone(s)'
    <3>1. SUFFICES ASSUME pc[s] = "settings" PROVE HalfDone(s)'
      BY <1>9 DEF HalfDone
    <3>2. job[s].id \in Account /\ HalfDone(s) /\ pc'[s] = pc[s]
      BY <1>1, <1>9, <3>1 DEF AccountsIInv, AccountTypes, Fits, Levels
    <3>3. CASE job[s].id = u
      BY <1>2, <3>1, <3>3 DEF AccountsIInv, Levels, OneUpdate, HalfDone, u
    <3>4. CASE job[s].id # u
      BY <1>2, <1>7, <3>1, <3>2, <3>4 DEF HalfDone
    <3> QED BY <3>3, <3>4
  <2> QED BY <2>1, <2>2, <2>3, <2>4 DEF Levels
<1>16. ASSUME NEW s \in Task PROVE Verified(s)'
  <2>1. Verified(s) /\ Fits(s)
    BY <1>1 DEF AccountsIInv, AccountTypes
  <2>2. \A w \in Account : users[w] # None => users'[w].password = users[w].password
    BY <1>6, <1>7
  <2> QED BY <1>2, <1>8, <1>9, <2>1, <2>2, VerifiedKept
<1> QED BY <1>12, <1>13, <1>14, <1>15, <1>16 DEF AccountsIInv

(***************************************************************************)
(* Both tables have the level that was given, unless the account is torn.  *)
(***************************************************************************)
LEMMA UpdateSettingsStep ==
  ASSUME AccountsIInv, NEW t \in Task, UpdateSettings(t)
  PROVE  AccountsIInv'
<1> DEFINE u == job[t].id
<1>1. AccountTypes /\ TypeOK /\ Fits(t) /\ HalfDone(t)
  BY DEF AccountsIInv, AccountTypes, Levels
<1>2. /\ pc[t] = "settings" /\ End(t)
      /\ settings' = IF settings[u] = None THEN settings ELSE [settings EXCEPT ![u] = job[t].level]
      /\ UNCHANGED <<users, boot, read, left, stops, gone, crossed, rewritten, torn>>
  BY DEF UpdateSettings, starts, history
<1>3. u \in Account /\ job[t].level \in Level
  BY <1>1, <1>2 DEF Fits
<1>4. SameRows
  BY <1>2 DEF SameRows
<1>5. /\ pc' \in [Task -> Labels] /\ job' \in [Task -> Tasks]
      /\ pc'[t] = "ended" /\ Fits(t)' /\ Verified(t)' /\ HalfDone(t)'
      /\ \A s \in Task \ {t} : pc'[s] = pc[s] /\ job'[s] = job[s]
  BY <1>1, <1>2, AcEndFacts
<1>6. \A s \in Task : Fits(s)'
  BY <1>1, <1>2, <1>5, FitsKept DEF AccountTypes, Known
<1>7. /\ settings' \in [Account -> Level \cup {None}]
      /\ \A w \in Account : settings'[w] =
           IF w = u /\ settings[w] # None THEN job[t].level ELSE settings[w]
  BY <1>1, <1>2, <1>3 DEF TypeOK
<1>8. job[t].level # None
  BY <1>3, AccountsAssumption
<1>9. AccountTypes'
  <2>1. \A w \in Account : settings'[w] = None <=> users'[w] = None
    BY <1>1, <1>2, <1>7, <1>8 DEF TypeOK
  <2>2. \A s \in Task : pc'[s] \notin {"new", "insert", "ended"} => job'[s].id \in Account
    BY <1>5, <1>6 DEF Fits, Labels
  <2>3. TypeOK'
    BY <1>1, <1>2, <1>5, <1>7, <2>1, <2>2 DEF TypeOK, Labels
  <2> QED BY <1>5, <1>6, <2>3 DEF AccountTypes
<1>10. \A w \in Account : Addressed(w)'
  BY <1>2 DEF AccountsIInv, Addressed, Served
<1>11. Starts'
  BY <1>1, <1>2, <1>4, TypesFacts, StartsKept DEF AccountsIInv
<1>12. Levels'
  <2>1. ASSUME NEW w \in Account PROVE Agrees(w)'
    <3>1. CASE w = u
      BY <1>1, <1>2, <1>7, <3>1 DEF HalfDone, Agrees, TypeOK
    <3>2. CASE w # u
      BY <1>2, <1>5, <1>7, <3>2 DEF AccountsIInv, Levels, Agrees
    <3> QED BY <3>1, <3>2
  <2>2. \A s \in Task : HalfDone(s)'
    BY <1>2, <1>5 DEF AccountsIInv, Levels, HalfDone
  <2>3. OneUpdate'
    BY <1>2, <1>5 DEF AccountsIInv, Levels, OneUpdate
  <2> QED BY <2>1, <2>2, <2>3 DEF Levels
<1>13. \A s \in Task : Verified(s)'
  BY <1>2, <1>5 DEF AccountsIInv, Verified
<1> QED BY <1>9, <1>10, <1>11, <1>12, <1>13 DEF AccountsIInv

-----------------------------------------------------------------------------
LEMMA AcDeleteAccountStep ==
  ASSUME AccountsIInv, NEW t \in Task, DeleteAccount(t)
  PROVE  AccountsIInv'
<1> DEFINE u == job[t].id
<1>1. AccountTypes /\ TypeOK /\ Fits(t)
  BY DEF AccountsIInv, AccountTypes
<1>2. /\ pc[t] = "delete" /\ users[u] # None /\ End(t)
      /\ users' = [users EXCEPT ![u] = None] /\ settings' = [settings EXCEPT ![u] = None]
      /\ gone' = gone \cup {u}
      /\ UNCHANGED <<boot, read, left, stops, crossed, rewritten, torn>>
  BY DEF DeleteAccount, Present, starts
<1>3. u \in Account
  BY <1>1, <1>2 DEF Fits
<1>4. /\ pc' \in [Task -> Labels] /\ job' \in [Task -> Tasks]
      /\ pc'[t] = "ended" /\ Fits(t)' /\ Verified(t)' /\ HalfDone(t)'
      /\ \A s \in Task \ {t} : pc'[s] = pc[s] /\ job'[s] = job[s]
  BY <1>1, <1>2, AcEndFacts
<1> HIDE DEF u
<1>5. /\ users' \in [Account -> Row \cup {None}] /\ users'[u] = None
      /\ \A w \in Account \ {u} : users'[w] = users[w]
      /\ settings' \in [Account -> Level \cup {None}] /\ settings'[u] = None
      /\ \A w \in Account \ {u} : settings'[w] = settings[w]
  BY <1>1, <1>2, <1>3 DEF TypeOK
<1>6. \A w \in Account : Known(w) => Known(w)'
  BY <1>2, <1>5 DEF Known
<1>7. \A s \in Task : Fits(s)'
  BY <1>1, <1>4, <1>6, FitsKept DEF AccountTypes
<1>8. AccountTypes'
  <2>1. /\ \A w \in Account : settings'[w] = None <=> users'[w] = None
        /\ gone' \subseteq {w \in Account : users'[w] = None}
    BY <1>1, <1>2, <1>3, <1>5 DEF TypeOK
  <2>2. \A s \in Task : pc'[s] \notin {"new", "insert", "ended"} => job'[s].id \in Account
    BY <1>4, <1>7 DEF Fits, Labels
  <2>3. TypeOK'
    BY <1>1, <1>2, <1>4, <1>5, <2>1, <2>2 DEF TypeOK, Labels
  <2> QED BY <1>4, <1>7, <2>3 DEF AccountTypes
<1>9. \A w \in Account : Addressed(w)'
  BY <1>2, <1>5 DEF AccountsIInv, Addressed, Served
<1>10. Starts'
  <2>1. \A r \in Replica : Begun(r)'
    BY <1>2, <1>5, <1>6 DEF AccountsIInv, Starts, Begun, Due
  <2>2. \A r \in Replica : TextKept(r)'
    BY <1>2, <1>5 DEF AccountsIInv, Starts, TextKept, Due
  <2>3. SameRewrites'
    BY <1>2 DEF AccountsIInv, Starts, SameRewrites, Due
  <2>4. RewrittenSealed'
    BY <1>1, <1>2, <1>5, TypesFacts DEF AccountsIInv, Starts, RewrittenSealed
  <2> QED BY <2>1, <2>2, <2>3, <2>4 DEF Starts
<1>11. Levels'
  <2>1. \A w \in Account : Agrees(w)'
    BY <1>2, <1>4, <1>5 DEF AccountsIInv, Levels, Agrees
  <2>2. ASSUME NEW s \in Task \ {t} PROVE HalfDone(s)'
    <3>1. pc[s] = "settings" => job[s].id \in Account
      BY <1>1 DEF AccountTypes, Fits
    <3> QED BY <1>2, <1>4, <1>5, <3>1 DEF AccountsIInv, Levels, HalfDone
  <2>3. OneUpdate'
    BY <1>2, <1>4 DEF AccountsIInv, Levels, OneUpdate
  <2> QED BY <1>4, <2>1, <2>2, <2>3 DEF Levels
<1>12. ASSUME NEW s \in Task \ {t} PROVE Verified(s)'
  <2>1. pc[s] = "write" => job[s].id \in Account
    BY <1>1 DEF AccountTypes, Fits
  <2> QED BY <1>2, <1>4, <1>5, <2>1 DEF AccountsIInv, Verified
<1> QED BY <1>4, <1>8, <1>9, <1>10, <1>11, <1>12 DEF AccountsIInv

LEMMA AcDropStep ==
  ASSUME AccountsIInv, NEW t \in Task, Drop(t)
  PROVE  AccountsIInv'
<1>1. AccountTypes /\ TypeOK /\ Fits(t)
  BY DEF AccountsIInv, AccountTypes
<1>2. /\ End(t) /\ crossed' = crossed \ {t}
      /\ torn' = IF pc[t] = "settings" THEN torn \cup {job[t].id} ELSE torn
      /\ UNCHANGED <<users, settings, boot, read, left, stops, gone, rewritten>>
  BY DEF Drop, tables, starts
<1>3. /\ pc' \in [Task -> Labels] /\ job' \in [Task -> Tasks]
      /\ pc'[t] = "ended" /\ Fits(t)' /\ Verified(t)' /\ HalfDone(t)'
      /\ \A s \in Task \ {t} : pc'[s] = pc[s] /\ job'[s] = job[s]
  BY <1>1, <1>2, AcEndFacts
<1>4. \A s \in Task : Fits(s)'
  BY <1>1, <1>2, <1>3, FitsKept DEF AccountTypes, Known
<1>5. torn \subseteq torn' /\ torn' \subseteq Account
  BY <1>1, <1>2 DEF Fits, TypeOK
<1>6. AccountTypes'
  <2>1. \A s \in Task : pc'[s] \notin {"new", "insert", "ended"} => job'[s].id \in Account
    BY <1>3, <1>4 DEF Fits, Labels
  <2>2. TypeOK'
    BY <1>1, <1>2, <1>3, <1>5, <2>1 DEF TypeOK, Labels
  <2> QED BY <1>3, <1>4, <2>2 DEF AccountTypes
<1>7. \A w \in Account : Addressed(w)'
  BY <1>2 DEF AccountsIInv, Addressed, Served
<1>8. Starts'
  BY <1>1, <1>2, TypesFacts, StartsKept DEF AccountsIInv, SameRows
<1>9. Levels'
  <2>1. \A w \in Account : Agrees(w)'
    BY <1>2, <1>3, <1>5 DEF AccountsIInv, Levels, Agrees
  <2>2. \A s \in Task \ {t} : HalfDone(s)'
    BY <1>2, <1>3, <1>5 DEF AccountsIInv, Levels, HalfDone
  <2>3. OneUpdate'
    BY <1>3, <1>5 DEF AccountsIInv, Levels, OneUpdate
  <2> QED BY <1>3, <2>1, <2>2, <2>3 DEF Levels
<1>10. \A s \in Task \ {t} : Verified(s)'
  BY <1>2, <1>3 DEF AccountsIInv, Verified
<1> QED BY <1>3, <1>6, <1>7, <1>8, <1>9, <1>10 DEF AccountsIInv

-----------------------------------------------------------------------------
(***************************************************************************)
(* Starts: a step of one leaves requests and the other starts alone.       *)
(***************************************************************************)
LEMMA TasksKept ==
  ASSUME AccountsIInv, UNCHANGED <<settings, pc, job, gone, crossed, torn>>, SameRows,
         \A u \in Account : users[u] # None =>
           users'[u].level = users[u].level /\ users'[u].password = users[u].password
  PROVE  /\ \A t \in Task : Fits(t)' /\ Verified(t)'
         /\ \A t \in Task : pc'[t] \notin {"new", "insert", "ended"} => job'[t].id \in Account
         /\ Levels'
<1>1. \A t \in Task : Fits(t)'
  <2>1. \A u \in Account : Known(u) => Known(u)'
    BY DEF SameRows, Known
  <2> QED BY <2>1, FitsKept DEF AccountsIInv, AccountTypes
<1>2. \A t \in Task : Verified(t)'
  BY DEF AccountsIInv, AccountTypes, Fits, Verified, SameRows
<1>3. \A t \in Task : pc'[t] \notin {"new", "insert", "ended"} => job'[t].id \in Account
  BY DEF AccountsIInv, AccountTypes, TypeOK
<1>4. Levels'
  BY LevelsKept DEF AccountsIInv, AccountTypes, Fits
<1> QED BY <1>1, <1>2, <1>3, <1>4

LEMMA BootFacts ==
  ASSUME TypeOK, NEW r \in Replica, NEW b \in {"down", "sealing", "serving"},
         boot' = [boot EXCEPT ![r] = b]
  PROVE  /\ boot' \in [Replica -> {"down", "sealing", "serving"}] /\ boot'[r] = b
         /\ \A s \in Replica \ {r} : boot'[s] = boot[s]
         /\ b # "serving" => (Served' => Served)
  BY DEF TypeOK, Served

LEMMA ReadAllStep ==
  ASSUME AccountsIInv, NEW r \in Replica, ReadAll(r)
  PROVE  AccountsIInv'
<1>1. TypeOK /\ SameRows
  BY DEF AccountsIInv, AccountTypes, SameRows, ReadAll, tables
<1>2. /\ boot[r] = "down" /\ boot' = [boot EXCEPT ![r] = "sealing"]
      /\ read' = [read EXCEPT ![r] = users] /\ left' = [left EXCEPT ![r] = Present]
      /\ rewritten' = [rewritten EXCEPT ![r] = {}]
      /\ UNCHANGED <<users, settings, stops, pc, job, gone, crossed, torn>>
  BY DEF ReadAll, tables, tasks
<1>3. /\ boot' \in [Replica -> {"down", "sealing", "serving"}] /\ boot'[r] = "sealing"
      /\ \A s \in Replica \ {r} : boot'[s] = boot[s]
      /\ Served' => Served
  BY <1>1, <1>2, BootFacts
<1>4. /\ read' \in [Replica -> [Account -> Row \cup {None}]] /\ read'[r] = users
      /\ left' \in [Replica -> SUBSET Account] /\ left'[r] = {u \in Account : users[u] # None}
      /\ rewritten' \in [Replica -> SUBSET Account] /\ rewritten'[r] = {}
      /\ \A s \in Replica \ {r} :
           read'[s] = read[s] /\ left'[s] = left[s] /\ rewritten'[s] = rewritten[s]
  BY <1>1, <1>2 DEF TypeOK, Present
<1>5. /\ \A t \in Task : Fits(t)' /\ Verified(t)'
      /\ \A t \in Task : pc'[t] \notin {"new", "insert", "ended"} => job'[t].id \in Account
      /\ Levels'
  BY <1>1, <1>2, TasksKept
<1>6. AccountTypes'
  BY <1>1, <1>2, <1>3, <1>4, <1>5 DEF AccountsIInv, AccountTypes, TypeOK
<1>7. \A u \in Account : Addressed(u)'
  BY <1>2, <1>3 DEF AccountsIInv, Addressed
<1>8. ASSUME NEW u \in Account, users[u] # None PROVE Dirty(users[u]) <=> Unsealed(users[u])
  <2>1. CASE users[u].contact = None
    BY <2>1 DEF Dirty, Unsealed
  <2>2. CASE users[u].contact # None
    <3>1. users[u].contact \in Field /\ Addressed(u)
      BY <1>8, <2>2, RowFacts DEF AccountsIInv
    <3>2. users[u].contact.text \in Contact
      BY <3>1, FieldFacts
    <3> QED BY <1>8, <2>2, <3>1, <3>2, IndexFacts DEF Addressed, Dirty, Unsealed
  <2> QED BY <2>1, <2>2
<1>9. \A s \in Replica \ {r} : \A u \in Account : Due(s, u)' <=> Due(s, u)
  BY <1>3, <1>4 DEF Due, Dirty
<1>10. \A u \in Account : Due(r, u)' <=> users[u] # None /\ Unsealed(users[u])
  BY <1>3, <1>4, <1>8 DEF Due, Dirty
<1>11. Starts'
  <2>1. \A s \in Replica : Begun(s)'
    <3>1. Begun(r)'
      BY <1>2, <1>3, <1>4, <1>10 DEF Begun, Known, Unsealed
    <3>2. ASSUME NEW s \in Replica \ {r} PROVE Begun(s)'
      BY <1>2, <1>3, <1>4, <1>9 DEF AccountsIInv, Starts, Begun, Known, Unsealed
    <3> QED BY <3>1, <3>2
  <2>2. \A s \in Replica : TextKept(s)'
    <3>1. TextKept(r)'
      BY <1>2, <1>4 DEF TextKept, Text
    <3>2. ASSUME NEW s \in Replica \ {r} PROVE TextKept(s)'
      BY <1>2, <1>4, <1>9 DEF AccountsIInv, Starts, TextKept, Text
    <3> QED BY <3>1, <3>2
  <2>3. \A s \in Replica, u \in Account : Due(r, u)' => u \notin rewritten'[s]
    BY <1>4, <1>10 DEF AccountsIInv, Starts, RewrittenSealed
  <2>4. SameRewrites'
    <3> SUFFICES ASSUME NEW p \in Replica, NEW s \in Replica, NEW u \in Account,
                        Due(p, u)', Due(s, u)', u \in rewritten'[p]
                 PROVE  u \in rewritten'[s]
      BY DEF SameRewrites
    <3>1. p # r /\ s # r
      BY <2>3
    <3> QED BY <1>4, <1>9, <3>1 DEF AccountsIInv, Starts, SameRewrites
  <2>5. RewrittenSealed'
    BY <1>2, <1>4 DEF AccountsIInv, Starts, RewrittenSealed, Unsealed
  <2> QED BY <2>1, <2>2, <2>4, <2>5 DEF Starts
<1> QED BY <1>5, <1>6, <1>7, <1>11 DEF AccountsIInv

(***************************************************************************)
(* The end of a start: it fails, comes to serve, or is stopped.            *)
(***************************************************************************)
LEMMA ForgetStep ==
  ASSUME AccountsIInv, NEW r \in Replica, NEW b \in {"down", "serving"},
         boot' = [boot EXCEPT ![r] = b], Forget(r),
         b = "serving" => boot[r] = "sealing" /\ left[r] = {}, stops' \in 0 .. MaxStops,
         UNCHANGED <<users, settings, pc, job, gone, crossed, rewritten, torn>>
  PROVE  AccountsIInv'
<1>1. TypeOK /\ SameRows
  BY DEF AccountsIInv, AccountTypes, SameRows
<1>2. /\ boot' \in [Replica -> {"down", "sealing", "serving"}] /\ boot'[r] = b
      /\ \A s \in Replica \ {r} : boot'[s] = boot[s]
      /\ b # "serving" => (Served' => Served)
  BY <1>1, BootFacts
<1>3. /\ read' \in [Replica -> [Account -> Row \cup {None}]]
      /\ left' \in [Replica -> SUBSET Account]
      /\ \A s \in Replica \ {r} : read'[s] = read[s] /\ left'[s] = left[s]
  BY <1>1 DEF TypeOK, Forget
<1>4. /\ \A t \in Task : Fits(t)' /\ Verified(t)'
      /\ \A t \in Task : pc'[t] \notin {"new", "insert", "ended"} => job'[t].id \in Account
      /\ Levels'
  BY <1>1, TasksKept
<1>5. AccountTypes'
  BY <1>1, <1>2, <1>3, <1>4 DEF AccountsIInv, AccountTypes, TypeOK
<1>6. \A u \in Account : Addressed(u)'
  <2>1. CASE b # "serving"
    BY <1>2, <2>1 DEF AccountsIInv, Addressed
  <2>2. CASE b = "serving"
    <3>1. \A u \in Account : users[u] # None => ~Unsealed(users[u])
      BY <2>2 DEF AccountsIInv, Starts, Begun, Due
    <3> QED BY <3>1 DEF AccountsIInv, Addressed, Unsealed
  <2> QED BY <2>1, <2>2
<1>7. \A u \in Account : ~Due(r, u)'
  BY <1>2 DEF Due
<1>8. \A s \in Replica \ {r} : \A u \in Account : Due(s, u)' <=> Due(s, u)
  BY <1>2, <1>3 DEF Due, Dirty
<1>9. Starts'
  <2>1. \A s \in Replica : Begun(s)'
    BY <1>2, <1>3, <1>8 DEF AccountsIInv, Starts, Begun, Known, Unsealed
  <2>2. \A s \in Replica : TextKept(s)'
    BY <1>3, <1>7, <1>8 DEF AccountsIInv, Starts, TextKept, Text
  <2>3. SameRewrites'
    BY <1>7, <1>8 DEF AccountsIInv, Starts, SameRewrites
  <2>4. RewrittenSealed'
    BY DEF AccountsIInv, Starts, RewrittenSealed, Unsealed
  <2> QED BY <2>1, <2>2, <2>3, <2>4 DEF Starts
<1> QED BY <1>4, <1>5, <1>6, <1>9 DEF AccountsIInv

(***************************************************************************)
(* What a start seals is what the row says, unless the user rewrote it.    *)
(***************************************************************************)
LEMMA SealFacts ==
  ASSUME AccountsIInv, NEW r \in Replica, NEW u \in Account,
         SealUser(r, u), Dirty(read[r][u])
  PROVE  \E c \in Contact, new \in Row :
           /\ users[u] # None /\ Due(r, u) /\ c = Text(read[r][u])
           /\ users' = [users EXCEPT ![u] = new]
           /\ new.contact = Sealed(u, c) /\ new.index = Normal[c]
           /\ new.level = users[u].level /\ new.password = users[u].password
           /\ u \notin rewritten[r] => Text(users[u]) = c
<1> DEFINE c == read[r][u].contact.text
           new == [users[u] EXCEPT !.contact = Sealed(u, c), !.index = Normal[c]]
<1>1. Due(r, u) /\ users[u] # None
  BY DEF SealUser, Due, Present
<1>2. read[r][u] \in Row /\ read[r][u].contact # None
  BY <1>1 DEF Due, AccountsIInv, AccountTypes, TypeOK, Starts, Begun, Dirty
<1>3. c \in Contact
  BY <1>2, FieldFacts DEF Row
<1>4. BlindIndex(c) = Normal[c] /\ Normal[c] \in Contact
  BY <1>3, IndexFacts
<1>5. Sealed(u, c) \in Field
  BY <1>3, SealedFacts
<1>6. users[u] \in Row /\ users \in [Account -> Row \cup {None}]
  BY <1>1, RowFacts DEF AccountsIInv, AccountTypes, TypeOK
<1>7. users' = [users EXCEPT ![u] = new]
  BY <1>4, <1>6 DEF SealUser
<1>8. /\ new \in Row /\ new.contact = Sealed(u, c) /\ new.index = Normal[c]
      /\ new.level = users[u].level /\ new.password = users[u].password
  BY <1>4, <1>5, <1>6 DEF Row
<1>9. c = Text(read[r][u]) /\ (u \notin rewritten[r] => Text(users[u]) = c)
  BY <1>1, <1>2 DEF AccountsIInv, Starts, TextKept, Text
<1> HIDE DEF c, new
<1> QED BY <1>1, <1>3, <1>7, <1>8, <1>9

LEMMA SealUserStep ==
  ASSUME AccountsIInv, NEW r \in Replica, NEW u \in Account, SealUser(r, u)
  PROVE  AccountsIInv'
<1>1. TypeOK
  BY DEF AccountsIInv, AccountTypes
<1>2. /\ boot[r] = "sealing" /\ u \in left[r] /\ left' = [left EXCEPT ![r] = @ \ {u}]
      /\ UNCHANGED <<settings, boot, read, stops, pc, job, gone, crossed, rewritten, torn>>
  BY DEF SealUser, tasks, history
<1>3. /\ left' \in [Replica -> SUBSET Account] /\ left'[r] = left[r] \ {u}
      /\ \A s \in Replica \ {r} : left'[s] = left[s]
  BY <1>1, <1>2 DEF TypeOK
<1>4. \A s \in Replica, w \in Account : Due(s, w)' <=> Due(s, w) /\ ~(s = r /\ w = u)
  BY <1>2, <1>3 DEF Due, Dirty
<1>5. Served' <=> Served
  BY <1>2 DEF Served
<1>6. CASE ~Dirty(read[r][u])
  <2>1. users' = users /\ SameRows
    BY <1>6 DEF SealUser, SameRows
  <2>2. /\ \A t \in Task : Fits(t)' /\ Verified(t)'
        /\ \A t \in Task : pc'[t] \notin {"new", "insert", "ended"} => job'[t].id \in Account
        /\ Levels'
    BY <1>2, <2>1, TasksKept
  <2>3. AccountTypes'
    BY <1>1, <1>2, <1>3, <2>1, <2>2 DEF AccountsIInv, AccountTypes, TypeOK
  <2>4. \A w \in Account : Addressed(w)'
    BY <1>5, <2>1 DEF AccountsIInv, Addressed
  <2>5. ~Due(r, u)
    BY <1>6 DEF Due
  <2>6. \A s \in Replica : Begun(s)'
    BY <1>2, <1>3, <1>4, <2>1, <2>5 DEF AccountsIInv, Starts, Begun, Known, Unsealed
  <2>7. \A s \in Replica : TextKept(s)'
    BY <1>2, <1>4, <2>1 DEF AccountsIInv, Starts, TextKept, Text
  <2>8. SameRewrites' /\ RewrittenSealed'
    BY <1>2, <1>4, <2>1 DEF AccountsIInv, Starts, SameRewrites, RewrittenSealed, Unsealed
  <2> QED BY <2>2, <2>3, <2>4, <2>6, <2>7, <2>8 DEF AccountsIInv, Starts
<1>7. CASE Dirty(read[r][u])
  <2>1. PICK c \in Contact, new \in Row :
          /\ users[u] # None /\ Due(r, u) /\ c = Text(read[r][u])
          /\ users' = [users EXCEPT ![u] = new]
          /\ new.contact = Sealed(u, c) /\ new.index = Normal[c]
          /\ new.level = users[u].level /\ new.password = users[u].password
          /\ u \notin rewritten[r] => Text(users[u]) = c
    BY <1>7, SealFacts
  <2>2. /\ Sealed(u, c).for = u /\ Sealed(u, c).text = c /\ Sealed(u, c) # None
        /\ u # None
    BY <2>1, SealedFacts, FieldFacts, AccountsAssumption
  <2>3. /\ users' \in [Account -> Row \cup {None}] /\ users'[u] = new /\ new # None
        /\ \A w \in Account \ {u} : users'[w] = users[w]
    BY <1>1, <2>1, RowWritten
  <2>4. SameRows /\ \A w \in Account : Known(w) => Known(w)'
    BY <1>2, <2>1, <2>3 DEF SameRows, Known
  <2>5. /\ \A t \in Task : Fits(t)' /\ Verified(t)'
        /\ \A t \in Task : pc'[t] \notin {"new", "insert", "ended"} => job'[t].id \in Account
        /\ Levels'
    BY <1>2, <2>1, <2>3, <2>4, TasksKept
  <2>6. AccountTypes'
    <3>1. (\A w \in Account : settings'[w] = None <=> users'[w] = None)
          /\ gone' \subseteq {w \in Account : users'[w] = None}
      BY <1>1, <1>2, <2>4 DEF TypeOK, SameRows
    <3> QED BY <1>1, <1>2, <1>3, <2>3, <2>5, <3>1 DEF AccountsIInv, AccountTypes, TypeOK
  <2>7. \A w \in Account : Addressed(w)'
    BY <1>5, <2>1, <2>2, <2>3 DEF AccountsIInv, Addressed
  <2>8. ~Unsealed(users'[u]) /\ Text(users'[u]) = c
    BY <2>1, <2>2, <2>3 DEF Unsealed, Text
  <2>9. \A s \in Replica : Begun(s)'
    BY <1>2, <1>3, <1>4, <2>3, <2>4, <2>8 DEF AccountsIInv, Starts, Begun
  <2>10. ASSUME NEW s \in Replica PROVE TextKept(s)'
    <3> SUFFICES ASSUME NEW w \in Account, Due(s, w)', users'[w] # None, w \notin rewritten[s]
                 PROVE  Text(users'[w]) = Text(read[s][w])
      BY <1>2 DEF TextKept
    <3>1. Due(s, w) /\ users[w] # None /\ TextKept(s)
      BY <1>4, <2>4 DEF SameRows, AccountsIInv, Starts
    <3>2. Text(users[w]) = Text(read[s][w])
      BY <3>1 DEF TextKept
    <3>3. CASE w # u
      BY <2>3, <3>2, <3>3
    <3>4. CASE w = u
      <4>1. u \notin rewritten[r]
        BY <2>1, <3>1, <3>4 DEF AccountsIInv, Starts, SameRewrites
      <4> QED BY <2>1, <2>8, <3>2, <3>4, <4>1
    <3> QED BY <3>3, <3>4
  <2>11. SameRewrites'
    BY <1>2, <1>4 DEF AccountsIInv, Starts, SameRewrites
  <2>12. RewrittenSealed'
    BY <1>1, <1>2, <2>3, <2>8, TypesFacts DEF AccountsIInv, Starts, RewrittenSealed
  <2> QED BY <2>5, <2>6, <2>7, <2>9, <2>10, <2>11, <2>12 DEF AccountsIInv, Starts
<1> QED BY <1>6, <1>7

LEMMA EndOfStart ==
  ASSUME AccountsIInv, NEW r \in Replica,
         Serve(r) \/ Stop(r) \/ \E u \in Account : FailToSeal(r, u)
  PROVE  AccountsIInv'
<1>1. stops \in 0 .. MaxStops /\ MaxStops \in Nat
  BY AccountsAssumption DEF AccountsIInv, AccountTypes, TypeOK
<1>2. CASE Serve(r)
  <2>1. /\ boot' = [boot EXCEPT ![r] = "serving"] /\ Forget(r)
        /\ boot[r] = "sealing" /\ left[r] = {} /\ stops' \in 0 .. MaxStops
        /\ UNCHANGED <<users, settings, pc, job, gone, crossed, rewritten, torn>>
    BY <1>1, <1>2 DEF Serve, tables, tasks, history
  <2> QED BY <2>1, ForgetStep
<1>3. CASE Stop(r)
  <2>1. /\ boot' = [boot EXCEPT ![r] = "down"] /\ Forget(r) /\ stops' \in 0 .. MaxStops
        /\ UNCHANGED <<users, settings, pc, job, gone, crossed, rewritten, torn>>
    BY <1>1, <1>3 DEF Stop, tables, tasks, history
  <2> QED BY <2>1, ForgetStep
<1>4. CASE \E u \in Account : FailToSeal(r, u)
  <2>1. /\ boot' = [boot EXCEPT ![r] = "down"] /\ Forget(r) /\ stops' \in 0 .. MaxStops
        /\ UNCHANGED <<users, settings, pc, job, gone, crossed, rewritten, torn>>
    BY <1>1, <1>4 DEF FailToSeal, tables, tasks, history
  <2> QED BY <2>1, ForgetStep
<1> QED BY <1>2, <1>3, <1>4

LEMMA AccountsStutter ==
  ASSUME AccountsIInv, UNCHANGED vars
  PROVE  AccountsIInv'
<1>1. UNCHANGED <<users, settings, boot, read, left, stops, pc, job, gone, crossed, rewritten, torn>>
  BY DEF vars
<1>2. SameRows
  BY <1>1 DEF SameRows
<1>3. /\ \A t \in Task : Fits(t)' /\ Verified(t)'
      /\ Levels'
  BY <1>1, <1>2, TasksKept
<1>4. Starts'
  BY <1>1, <1>2, StartsKept DEF AccountsIInv, AccountTypes, TypeOK
<1>5. \A u \in Account : Addressed(u)'
  BY <1>1, <1>2, AddressedKept DEF AccountsIInv, Served
<1>6. AccountTypes'
  BY <1>1, <1>3 DEF AccountsIInv, AccountTypes, TypeOK
<1> QED BY <1>3, <1>4, <1>5, <1>6 DEF AccountsIInv

LEMMA AccountsSteps ==
  ASSUME AccountsIInv, [Next]_vars
  PROVE  AccountsIInv'
<1>1. ASSUME NEW r \in Replica, Replicas(r) \/ Stop(r) PROVE AccountsIInv'
  BY <1>1, ReadAllStep, SealUserStep, EndOfStart DEF Replicas
<1>2. ASSUME NEW t \in Task, NEW l \in Login, NEW p \in Password, Register(t, l, p)
      PROVE  AccountsIInv'
  BY <1>2, RegisterStep
<1>3. ASSUME NEW t \in Task, NEW u \in Account, Insert(t, u) PROVE AccountsIInv'
  BY <1>3, InsertStep
<1>4. ASSUME NEW t \in Task, NEW u \in Account, NEW p \in Password,
             LogIn(t, u, p) \/ Leave(t, u, p)
      PROVE  AccountsIInv'
  BY <1>4, PasswordStep, LeaveStep
<1>5. ASSUME NEW t \in Task, NEW u \in Account, NEW p \in Password, NEW q \in Password,
             ChangePassword(t, u, p, q)
      PROVE  AccountsIInv'
  BY <1>5, PasswordStep
<1>6. ASSUME NEW t \in Task, NEW u \in Account, NEW c \in Contact \cup {None}, NEW level \in Level,
             UpdateAccount(t, u, c, level)
      PROVE  AccountsIInv'
  BY <1>6, UpdateAccountStep
<1>7. ASSUME NEW t \in Task,
             \/ WritePassword(t) \/ UpdateRow(t) \/ UpdateSettings(t)
             \/ DeleteAccount(t) \/ Drop(t)
      PROVE  AccountsIInv'
  BY <1>7, WritePasswordStep, UpdateRowStep, UpdateSettingsStep, AcDeleteAccountStep, AcDropStep
<1> QED BY <1>1, <1>2, <1>3, <1>4, <1>5, <1>6, <1>7, AccountsStutter DEF Next

LEMMA AccountsInductive == Spec => []AccountsIInv
<1>1. Init => AccountsIInv
  BY AccountsInit
<1>2. AccountsIInv /\ [Next]_vars => AccountsIInv'
  BY AccountsSteps
<1> QED BY <1>1, <1>2, PTL DEF Spec

(***************************************************************************)
(* The rows of accounts have their types, and every account has settings:  *)
(* the type invariant of Accounts, for any number of them.                 *)
(***************************************************************************)
THEOREM AccountTypesHold == Spec => []TypeOK
<1>1. AccountsIInv => TypeOK
  BY DEF AccountsIInv, AccountTypes
<1> QED BY <1>1, AccountsInductive, PTL

(***************************************************************************)
(* An address opens under the id of its row and is found by its index, and *)
(* none is in plain text once a replica serves, although protect.rs seals  *)
(* from rows it read before, and update_account writes rows meanwhile.     *)
(***************************************************************************)
THEOREM AddressesFound == Spec => []AddressesOpen
<1>1. ASSUME AccountsIInv PROVE AddressesOpen
  <2> SUFFICES ASSUME NEW u \in Account, users[u] # None
               PROVE  LET field == users[u].contact IN
                      IF field = None THEN users[u].index = None
                      ELSE /\ Opens(u, field)
                           /\ users[u].index =
                                (IF field.for = None THEN None ELSE BlindIndex(field.text))
                           /\ Served => field.for = u
    BY DEF AddressesOpen, Present
  <2>1. Addressed(u)
    BY <1>1 DEF AccountsIInv
  <2>2. CASE users[u].contact = None
    BY <2>1, <2>2 DEF Addressed
  <2>3. CASE users[u].contact # None
    <3>1. users[u].contact.text \in Contact
      BY <1>1, <2>3, RowFacts, FieldFacts
    <3>2. BlindIndex(users[u].contact.text) = Normal[users[u].contact.text]
      BY <3>1, IndexFacts
    <3> QED BY <2>1, <2>3, <3>2 DEF Addressed, Opens
  <2> QED BY <2>2, <2>3
<1> QED BY <1>1, AccountsInductive, PTL

(***************************************************************************)
(* The two tables with the privacy level agree between updates: every      *)
(* update of account.rs writes both, and they differ after updates of one  *)
(* account that met, or one that was cut off.                              *)
(***************************************************************************)
THEOREM SettingsHold == Spec => []SettingsAgree
<1>1. AccountsIInv => SettingsAgree
  BY DEF AccountsIInv, Levels, Agrees, SettingsAgree, Present, Updating
<1> QED BY <1>1, AccountsInductive, PTL

(***************************************************************************)
(* A password is replaced by who gave it: change_password, and a login     *)
(* that renews the hash, write by id what they verified against a row they *)
(* read before, and no password is replaced unknown that was not written   *)
(* in between.                                                             *)
(***************************************************************************)
THEOREM PasswordsReplaced == Spec => ReplacesWhatItKnew
<1>1. ASSUME AccountsIInv, NEW u \in Account, NEW t \in Task, pc[t] = "write", job[t].id = u,
             t \notin crossed, u \in Present
      PROVE  users[u].password = job[t].gives
  BY <1>1 DEF AccountsIInv, Verified, Present
<1>2. AccountsIInv /\ [Next]_vars =>
        [ \A u \in Account, t \in Task :
            /\ pc[t] = "write" /\ pc'[t] = "ended" /\ job[t].id = u /\ t \notin crossed
            /\ u \in Present /\ users'[u] # users[u]
            => users[u].password = job[t].gives ]_vars
  BY <1>1
<1> QED BY <1>2, AccountsInductive, PTL DEF Spec, ReplacesWhatItKnew

(***************************************************************************)
(* Of the steps that move a start along, only the sealing of a row writes. *)
(***************************************************************************)
LEMMA OnlySealingWrites ==
  ASSUME AccountsIInv, [Next]_vars, NEW r \in Replica,
         boot[r] = "sealing", left'[r] # left[r]
  PROVE  users' = users \/ \E u \in Account : SealUser(r, u)
<1>1. left \in [Replica -> SUBSET Account]
  BY DEF AccountsIInv, AccountTypes, TypeOK
<1>2. ASSUME NEW s \in Replica, Replicas(s) \/ Stop(s)
      PROVE  users' = users \/ \E u \in Account : SealUser(r, u)
  <2>1. CASE ReadAll(s) \/ Serve(s) \/ Stop(s) \/ \E u \in Account : FailToSeal(s, u)
    BY <2>1 DEF ReadAll, Serve, Stop, FailToSeal, tables
  <2>2. ASSUME NEW u \in Account, SealUser(s, u) PROVE s = r
    BY <1>1, <2>2 DEF SealUser
  <2> QED BY <1>2, <2>1, <2>2 DEF Replicas
<1>3. ASSUME NEW t \in Task,
             \/ \E l \in Login, p \in Password : Register(t, l, p)
             \/ \E u \in Account :
                  \/ Insert(t, u)
                  \/ \E p \in Password : LogIn(t, u, p) \/ Leave(t, u, p)
                  \/ \E p, q \in Password : ChangePassword(t, u, p, q)
                  \/ \E c \in Contact \cup {None}, level \in Level : UpdateAccount(t, u, c, level)
             \/ WritePassword(t) \/ UpdateRow(t) \/ UpdateSettings(t)
             \/ DeleteAccount(t) \/ Drop(t)
      PROVE  left' = left
  BY <1>3 DEF Register, Insert, LogIn, Leave, ChangePassword, UpdateAccount,
              WritePassword, UpdateRow, UpdateSettings, DeleteAccount, Drop,
              starts
<1>4. UNCHANGED vars => left' = left
  BY DEF vars
<1> QED BY <1>2, <1>3, <1>4 DEF Next

LEMMA SealingTells ==
  ASSUME AccountsIInv, [Next]_vars, NEW r \in Replica,
         boot[r] = "sealing", left'[r] # left[r], NEW u \in Account, users[u] # None
  PROVE  u \in rewritten[r] \/ Text(users'[u]) = Text(users[u])
<1>1. CASE users' = users
  BY <1>1
<1>2. ASSUME NEW w \in Account, SealUser(r, w), Dirty(read[r][w])
      PROVE  u \in rewritten[r] \/ Text(users'[u]) = Text(users[u])
  <2>1. PICK c \in Contact, new \in Row :
          /\ users' = [users EXCEPT ![w] = new] /\ new.contact = Sealed(w, c)
          /\ w \notin rewritten[r] => Text(users[w]) = c
    BY <1>2, SealFacts
  <2>2. users'[w] = new /\ \A v \in Account \ {w} : users'[v] = users[v]
    BY <2>1 DEF AccountsIInv, AccountTypes, TypeOK
  <2>3. Text(new) = c
    BY <2>1, SealedFacts, FieldFacts DEF Text
  <2>4. CASE u = w
    BY <2>1, <2>2, <2>3, <2>4
  <2>5. CASE u # w
    BY <2>2, <2>5
  <2> QED BY <2>4, <2>5
<1>3. ASSUME NEW w \in Account, SealUser(r, w), ~Dirty(read[r][w]) PROVE users' = users
  BY <1>3 DEF SealUser
<1> QED BY <1>1, <1>2, <1>3, OnlySealingWrites

(***************************************************************************)
(* A start of protect.rs never changes what an address says, however many  *)
(* replicas start at once and whatever is written while they do; only one  *)
(* that read the row before its user changed the address puts the old one  *)
(* back.                                                                   *)
(***************************************************************************)
THEOREM SealedAsRead == Spec => SealingKeepsText
<1>1. AccountsIInv /\ [Next]_vars =>
        [ \A r \in Replica : boot[r] = "sealing" /\ left'[r] # left[r] =>
            \A u \in Present :
              u \in rewritten[r] \/ Text(users'[u]) = Text(users[u]) ]_vars
  BY SealingTells DEF Present
<1> QED BY <1>1, AccountsInductive, PTL DEF Spec, SealingKeepsText

(***************************************************************************)
(* What a start runs into when it fails: the row has gone, or its index is *)
(* that of another row, whose address therefore reads alike.               *)
(***************************************************************************)
LEMMA FailureCause ==
  ASSUME AccountsIInv, NEW r \in Replica, NEW u \in Account, FailToSeal(r, u)
  PROVE  Clash \/ \E v \in left[r] : v \in gone \cup rewritten[r]
<1> SUFFICES ASSUME u \notin gone, u \notin rewritten[r] PROVE Clash
  BY DEF FailToSeal
<1>1. Due(r, u) /\ u \in left[r]
  BY DEF FailToSeal, Due
<1>2. users[u] # None
  BY <1>1 DEF AccountsIInv, Starts, Begun, Known, Due
<1> DEFINE c == read[r][u].contact.text
<1>3. read[r][u].contact # None /\ read[r][u] # None
  BY <1>1 DEF Due, AccountsIInv, Starts, Begun, Dirty
<1>4. c \in Contact
  <2>1. read[r][u] \in Row
    BY <1>3 DEF AccountsIInv, AccountTypes, TypeOK
  <2> QED BY <1>3, <2>1, FieldFacts DEF Row
<1>5. Text(users[u]) = c
  BY <1>1, <1>2, <1>3 DEF AccountsIInv, Starts, TextKept, Text
<1>6. PICK w \in Present \ {u} : users[w].index = Normal[c] /\ Normal[c] # None
  BY <1>2, <1>4, IndexFacts DEF FailToSeal, IndexFree, Present
<1>7. users[w] # None /\ w \in Account /\ Addressed(w)
  BY <1>6 DEF AccountsIInv, Present
<1>8. users[w].contact # None /\ Normal[users[w].contact.text] = Normal[c]
  BY <1>6, <1>7 DEF Addressed
<1>9. users[w].contact.text \in Contact
  BY <1>7, <1>8, RowFacts, FieldFacts
<1>10. Text(users[w]) = users[w].contact.text /\ Text(users[w]) # None /\ Text(users[u]) # None
  BY <1>4, <1>5, <1>8, <1>9, IndexFacts DEF Text
<1> QED BY <1>2, <1>5, <1>6, <1>7, <1>8, <1>10 DEF Clash, Present

(***************************************************************************)
(* A start that fails while it seals was crossed by a deletion or by a     *)
(* change of an address it had yet to come to, or there is a clash that no *)
(* start gets past: to begin again is enough otherwise, for any number of  *)
(* replicas that start at once.                                            *)
(***************************************************************************)
THEOREM SealingFailures == Spec => SealingFailsForCause
<1>1. ASSUME AccountsIInv, [Next]_vars, NEW r \in Replica,
             boot[r] = "sealing", boot'[r] = "down", stops' = stops
      PROVE  Clash \/ \E u \in left[r] : u \in gone \cup rewritten[r]
  <2>1. boot \in [Replica -> {"down", "sealing", "serving"}] /\ stops \in Nat
    BY <1>1 DEF AccountsIInv, AccountTypes, TypeOK
  <2>2. ASSUME NEW s \in Replica, Replicas(s) \/ Stop(s) PROVE \E u \in Account : FailToSeal(r, u)
    <3>1. CASE ReadAll(s) \/ Serve(s)
      BY <1>1, <2>1, <3>1 DEF ReadAll, Serve
    <3>2. CASE Stop(s)
      BY <1>1, <2>1, <3>2 DEF Stop
    <3>3. ASSUME NEW u \in Account, SealUser(s, u) PROVE FALSE
      BY <1>1, <3>3 DEF SealUser
    <3>4. ASSUME NEW u \in Account, FailToSeal(s, u) PROVE \E v \in Account : FailToSeal(r, v)
      <4>1. s = r
        BY <1>1, <2>1, <3>4 DEF FailToSeal
      <4> QED BY <3>4, <4>1
    <3>5. CASE Replicas(s)
      <4>1. \/ ReadAll(s) \/ Serve(s)
            \/ (\E u \in Account : SealUser(s, u))
            \/ (\E u \in Account : FailToSeal(s, u))
        BY <3>5, Zenon DEF Replicas
      <4> QED BY <3>1, <3>3, <3>4, <4>1
    <3> QED BY <2>2, <3>2, <3>5
  <2>3. \/ \E s \in Replica : Replicas(s) \/ Stop(s)
        \/ UNCHANGED boot
    <3>1. ASSUME NEW t \in Task,
                 \/ \E l \in Login, p \in Password : Register(t, l, p)
                 \/ \E u \in Account :
                      \/ Insert(t, u)
                      \/ \E p \in Password : LogIn(t, u, p) \/ Leave(t, u, p)
                      \/ \E p, q \in Password : ChangePassword(t, u, p, q)
                      \/ \E c \in Contact \cup {None}, level \in Level : UpdateAccount(t, u, c, level)
                 \/ WritePassword(t) \/ UpdateRow(t) \/ UpdateSettings(t)
                 \/ DeleteAccount(t) \/ Drop(t)
          PROVE  UNCHANGED boot
      BY <3>1 DEF Register, Insert, LogIn, Leave, ChangePassword, UpdateAccount,
                  WritePassword, UpdateRow, UpdateSettings, DeleteAccount, Drop, starts
    <3>2. UNCHANGED vars => UNCHANGED boot
      BY DEF vars
    <3> QED BY <1>1, <3>1, <3>2 DEF Next
  <2> QED BY <1>1, <2>2, <2>3, FailureCause
<1>2. AccountsIInv /\ [Next]_vars =>
        [ \A r \in Replica : boot[r] = "sealing" /\ boot'[r] = "down" /\ stops' = stops =>
            Clash \/ \E u \in left[r] : u \in gone \cup rewritten[r] ]_vars
  BY <1>1
<1> QED BY <1>2, AccountsInductive, PTL DEF Spec, SealingFailsForCause

-----------------------------------------------------------------------------
(***************************************************************************)
(* Lists.  The queries still to come are the end of one of these series.   *)
(***************************************************************************)
Rests ==
  {<<>>, <<"hearts">>, <<"remarks", "hearts">>, <<"things", "remarks", "hearts">>,
   <<"items", "things", "remarks", "hearts">>, <<"walls", "items", "things", "remarks", "hearts">>,
   <<"things", "hearts">>, <<"items", "things", "hearts">>, <<"total", "items", "things", "hearts">>,
   <<"things">>, <<"items", "things">>, <<"one">>, <<"items", "one">>, <<"failed">>}

ToCome(name) == \E n \in DOMAIN queries : queries[n] = name
Reads(name) == \E n \in DOMAIN list.reads : list.reads[n] = name
Done(name) == Reads(name) /\ ~ToCome(name)

(***************************************************************************)
(* The order of a list's queries: the rows before what they refer to.      *)
(***************************************************************************)
InOrder ==
  /\ queries \in Rests
  /\ \A name : ToCome(name) => Reads(name) \/ name = "failed"
  /\ ToCome("walls") => ToCome("items")
  /\ ToCome("items") => ToCome("things") \/ ToCome("one")

(***************************************************************************)
(* What the kinds of lists have to do with their queries.                  *)
(***************************************************************************)
Kinds ==
  /\ list.reads \in Rests
  /\ Reads("walls") <=> list.of = "news"
  /\ Reads("items") /\ ~Reads("failed") /\ (Reads("things") \/ Reads("one"))
  /\ \A name : Reads("one") /\ Reads(name) => name \in {"items", "one"}
  /\ OfPosts => Reads("remarks") /\ Reads("hearts") /\ Reads("things")
  /\ list = Album => Reads("total")
  /\ Reads("total") => ~OfPosts

LEMMA ListKinds == list \in Lists => Kinds
<1> USE DEF Kinds, Reads, Rests, OfPosts
<1>1. CASE list = News
  BY <1>1, PagesAssumption DEF News, PostPage, Page, Others, Album
<1>2. CASE list \in {Comments, Likers, Notices, Album, Audios, Videos, Tickets, Reports, Users}
  BY <1>2, PagesAssumption DEF Comments, Likers, Notices, Album, Audios, Videos, Tickets, Reports, Users, Page, Others
<1>3. ASSUME NEW w \in Thing, list = Wall(w) PROVE Kinds
  BY <1>3, PagesAssumption DEF Wall, PostPage, Page, Others, Album
<1> QED BY <1>1, <1>2, <1>3 DEF Lists

(***************************************************************************)
(* A query takes its name from the front, and nothing else.                *)
(***************************************************************************)
LEMMA NextQuery ==
  ASSUME InOrder, queries # <<>>, queries' = Tail(queries)
  PROVE  /\ queries' \in Rests
         /\ \A name : ToCome(name)' <=> ToCome(name) /\ name # Head(queries)
         /\ ToCome(Head(queries))
         /\ Head(queries) = "items" => ~ToCome("walls")
         /\ Head(queries) \in {"things", "one"} => ~ToCome("items") /\ ~ToCome("walls")
         /\ queries' # <<"failed">>
<1> USE DEF InOrder, Rests, ToCome
<1>1. CASE queries = <<"hearts">>
  <2>1. queries' = <<>>
    BY <1>1
  <2> QED BY <1>1, <2>1
<1>2. CASE queries = <<"remarks", "hearts">>
  <2>1. queries' = <<"hearts">>
    BY <1>2
  <2> QED BY <1>2, <2>1
<1>3. CASE queries = <<"things", "remarks", "hearts">>
  <2>1. queries' = <<"remarks", "hearts">>
    BY <1>3
  <2> QED BY <1>3, <2>1
<1>4. CASE queries = <<"items", "things", "remarks", "hearts">>
  <2>1. queries' = <<"things", "remarks", "hearts">>
    BY <1>4
  <2> QED BY <1>4, <2>1
<1>5. CASE queries = <<"walls", "items", "things", "remarks", "hearts">>
  <2>1. queries' = <<"items", "things", "remarks", "hearts">>
    BY <1>5
  <2> QED BY <1>5, <2>1
<1>6. CASE queries = <<"things", "hearts">>
  <2>1. queries' = <<"hearts">>
    BY <1>6
  <2> QED BY <1>6, <2>1
<1>7. CASE queries = <<"items", "things", "hearts">>
  <2>1. queries' = <<"things", "hearts">>
    BY <1>7
  <2> QED BY <1>7, <2>1
<1>8. CASE queries = <<"total", "items", "things", "hearts">>
  <2>1. queries' = <<"items", "things", "hearts">>
    BY <1>8
  <2> QED BY <1>8, <2>1
<1>9. CASE queries = <<"things">>
  <2>1. queries' = <<>>
    BY <1>9
  <2> QED BY <1>9, <2>1
<1>10. CASE queries = <<"items", "things">>
  <2>1. queries' = <<"things">>
    BY <1>10
  <2> QED BY <1>10, <2>1
<1>11. CASE queries = <<"one">>
  <2>1. queries' = <<>>
    BY <1>11
  <2> QED BY <1>11, <2>1
<1>12. CASE queries = <<"items", "one">>
  <2>1. queries' = <<"one">>
    BY <1>12
  <2> QED BY <1>12, <2>1
<1>13. CASE queries = <<"failed">>
  <2>1. queries' = <<>>
    BY <1>13
  <2> QED BY <1>13, <2>1
<1> QED BY <1>1, <1>2, <1>3, <1>4, <1>5, <1>6, <1>7, <1>8, <1>9, <1>10, <1>11, <1>12, <1>13

(***************************************************************************)
(* What stood all the time stands now, and what stands now stood at some   *)
(* moment.  Only posts are hidden.                                         *)
(***************************************************************************)
Rows == [items : SUBSET Item, things : SUBSET Thing, remarks : SUBSET Mark, hearts : SUBSET Mark]

PagesTypes ==
  /\ list \in Lists /\ hidden \subseteq Item /\ items \subseteq Item
  /\ Standing \in Rows /\ steady \in Rows /\ ever \in Rows
  /\ got = [walls |-> got.walls, items |-> got.items, things |-> got.things, total |-> got.total,
            remarks |-> got.remarks, hearts |-> got.hearts]
  /\ got.items \subseteq Item
  /\ OfPosts \/ hidden = {}

Within(a, b) ==
  /\ a.items \subseteq b.items /\ a.things \subseteq b.things
  /\ a.remarks \subseteq b.remarks /\ a.hearts \subseteq b.hearts

Spans == Within(steady, Standing) /\ Within(Standing, ever)

(***************************************************************************)
(* What each query has found, as long as the request lasts.                *)
(***************************************************************************)
WallsFound ==
  ~ToCome("walls") =>
    IF list.of = "news" THEN steady.things \ {Club} \subseteq got.walls ELSE got.walls = {list.of}

ItemsFound ==
  Done("items") =>
    /\ got.items \subseteq ever.items
    /\ \A r \in steady.items : Followed(r) => r \in got.items \/ Crowded(r)

ThingsFound ==
  /\ Done("things") => \A r \in got.items : Refers(r) \cap steady.things \subseteq got.things
  /\ Reads("one") /\ queries = <<>> => \A r \in got.items : Refers(r) \subseteq got.things
  /\ queries = <<"failed">> => ~(Thing \subseteq steady.things)

Meanwhile(n, low, high) == n \in Nat /\ Between(n, low, high)

TotalFound == Done("total") => Meanwhile(got.total, steady.items, ever.items)

RemarksFound ==
  Done("remarks") =>
    \A r \in Item : Meanwhile(got.remarks[r], On(steady.remarks, r), On(ever.remarks, r))

HeartsFound ==
  Done("hearts") =>
    \A r \in Item :
      /\ Meanwhile(Cardinality(got.hearts[r]), On(steady.hearts, r), On(ever.hearts, r))
      /\ Viewer \in got.hearts[r] => <<r, Viewer>> \in ever.hearts
      /\ <<r, Viewer>> \in steady.hearts => Viewer \in got.hearts[r]

AllFound == WallsFound /\ ItemsFound /\ ThingsFound /\ TotalFound /\ RemarksFound /\ HeartsFound

PagesIInv == PagesTypes /\ InOrder /\ Spans /\ AllFound

LEMMA PagesStart == PagesInit => PagesIInv
<1> SUFFICES ASSUME PagesInit PROVE PagesIInv
  OBVIOUS
<1>1. Kinds
  BY ListKinds DEF PagesInit
<1>2. queries = list.reads /\ \A name : ToCome(name) <=> Reads(name)
  BY DEF PagesInit, ToCome, Reads
<1>3. PagesTypes
  BY DEF PagesInit, PagesTypes, Standing, Rows, Mark
<1>4. InOrder
  <2>1. \A name : Reads(name) => ToCome(name)
    BY <1>2
  <2> QED BY <1>1, <1>2 DEF InOrder, Kinds, PagesInit, Reads, ToCome
<1>5. Spans
  BY DEF PagesInit, Spans, Within
<1>6. AllFound
  <2>1. \A name : ~Done(name)
    BY <1>2 DEF Done
  <2>2. WallsFound
    BY <1>1, <1>2 DEF WallsFound, Kinds, PagesInit
  <2>3. ThingsFound
    BY <1>1, <1>2, <2>1 DEF ThingsFound, Kinds, Reads
  <2> QED BY <2>1, <2>2, <2>3 DEF AllFound, ItemsFound, TotalFound, RemarksFound, HeartsFound
<1> QED BY <1>3, <1>4, <1>5, <1>6 DEF PagesIInv

(***************************************************************************)
(* One query more is done, and what the others found is kept with what     *)
(* they found it in.                                                       *)
(***************************************************************************)
LEMMA QueryFacts ==
  ASSUME PagesIInv, NEW name, name \notin {"one", "failed"}, NEW found, Query(name, found)
  PROVE  /\ Kinds /\ PagesTypes /\ Spans /\ Spans' /\ InOrder'
         /\ UNCHANGED <<list, pageTables, steady, ever>> /\ got' = found
         /\ ToCome(name) /\ Reads(name) /\ ~ToCome(name)'
         /\ \A other : ToCome(other)' <=> ToCome(other) /\ other # name
         /\ \A other : Done(other)' <=> Done(other) \/ other = name
         /\ name = "items" => ~ToCome("walls")
         /\ name = "things" => Done("items")
         /\ ~(Reads("one") /\ queries' = <<>>) /\ queries' # <<"failed">>
<1>1. Kinds /\ PagesTypes /\ Spans /\ InOrder
  BY ListKinds DEF PagesIInv, PagesTypes
<1>2. /\ queries # <<>> /\ Head(queries) = name /\ queries' = Tail(queries) /\ got' = found
      /\ UNCHANGED <<list, pageTables, steady, ever>>
  BY DEF Query
<1>3. Spans'
  BY <1>1, <1>2 DEF Spans, Standing, Within, pageTables
<1>4. /\ queries' \in Rests /\ ToCome(name) /\ queries' # <<"failed">>
      /\ \A other : ToCome(other)' <=> ToCome(other) /\ other # name
      /\ name = "items" => ~ToCome("walls")
      /\ name \in {"things", "one"} => ~ToCome("items") /\ ~ToCome("walls")
  BY <1>1, <1>2, NextQuery
<1>5. Reads(name) /\ \A other : Reads(other)' <=> Reads(other)
  BY <1>1, <1>2, <1>4 DEF InOrder, Reads
<1>6. InOrder'
  BY <1>1, <1>4, <1>5 DEF InOrder
<1>7. \A other : Done(other)' <=> Done(other) \/ other = name
  BY <1>4, <1>5 DEF Done
<1>8. Reads("one") => queries' # <<>>
  <2> SUFFICES ASSUME Reads("one"), queries' = <<>> PROVE FALSE
    OBVIOUS
  <2>1. \A other : ~ToCome(other)'
    BY DEF ToCome
  <2>2. \A other : ToCome(other) => other = name
    BY <1>4, <2>1
  <2>3. name = "items"
    BY <1>1, <1>5 DEF Kinds
  <2> QED BY <1>1, <1>4, <2>2, <2>3 DEF InOrder
<1>9. name = "things" => Done("items")
  BY <1>1, <1>4 DEF Done, Kinds
<1> QED BY <1>1, <1>2, <1>3, <1>4, <1>5, <1>6, <1>7, <1>8, <1>9

LEMMA FoundKept ==
  ASSUME PagesIInv, NEW name, name \notin {"one", "failed"}, NEW found, Query(name, found)
  PROVE  /\ name # "walls" /\ found.walls = got.walls => WallsFound'
         /\ name # "items" /\ found.items = got.items => ItemsFound'
         /\ name \notin {"items", "things"} /\ found.items = got.items /\ found.things = got.things =>
              ThingsFound'
         /\ name # "total" /\ found.total = got.total => TotalFound'
         /\ name # "remarks" /\ found.remarks = got.remarks => RemarksFound'
         /\ name # "hearts" /\ found.hearts = got.hearts => HeartsFound'
<1>1. /\ UNCHANGED <<list, steady, ever>> /\ got' = found
      /\ \A other : ToCome(other)' <=> ToCome(other) /\ other # name
      /\ \A other : Done(other)' <=> Done(other) \/ other = name
      /\ ~(Reads("one") /\ queries' = <<>>) /\ queries' # <<"failed">>
  BY QueryFacts
<1>2. AllFound
  BY DEF PagesIInv
<1>3. ASSUME name # "walls", found.walls = got.walls PROVE WallsFound'
  BY <1>1, <1>2, <1>3 DEF AllFound, WallsFound
<1>4. ASSUME name # "items", found.items = got.items PROVE ItemsFound'
  <2>1. (\A r : Followed(r)' <=> Followed(r)) /\ (\A r : Crowded(r)' <=> Crowded(r))
    BY <1>1 DEF Followed, Crowded, OfPosts, Precedes
  <2> QED BY <1>1, <1>2, <1>4, <2>1 DEF AllFound, ItemsFound
<1>5. ASSUME name \notin {"items", "things"}, found.items = got.items, found.things = got.things
      PROVE  ThingsFound'
  <2>1. \A r : Refers(r)' = Refers(r)
    BY <1>1 DEF Refers, OfPosts
  <2>2. Reads("one")' <=> Reads("one")
    BY <1>1 DEF Reads
  <2> QED BY <1>1, <1>2, <1>5, <2>1, <2>2 DEF AllFound, ThingsFound
<1>6. ASSUME name # "total", found.total = got.total PROVE TotalFound'
  BY <1>1, <1>2, <1>6 DEF AllFound, TotalFound
<1>7. ASSUME name # "remarks", found.remarks = got.remarks PROVE RemarksFound'
  BY <1>1, <1>2, <1>7 DEF AllFound, RemarksFound
<1>8. ASSUME name # "hearts", found.hearts = got.hearts PROVE HeartsFound'
  BY <1>1, <1>2, <1>8 DEF AllFound, HeartsFound
<1> QED BY <1>3, <1>4, <1>5, <1>6, <1>7, <1>8

(***************************************************************************)
(* A query that adds to what was found answers the types.                  *)
(***************************************************************************)
LEMMA TypesKept ==
  ASSUME PagesTypes, UNCHANGED <<list, pageTables, steady, ever>>,
         got' = [walls |-> got'.walls, items |-> got'.items, things |-> got'.things,
                 total |-> got'.total, remarks |-> got'.remarks, hearts |-> got'.hearts],
         got'.items \subseteq Item
  PROVE  PagesTypes'
  BY DEF PagesTypes, Standing, pageTables, OfPosts

LEMMA WallsStep == PagesIInv /\ ReadFriends => PagesIInv'
<1> SUFFICES ASSUME PagesIInv, ReadFriends PROVE PagesIInv'
  OBVIOUS
<1> DEFINE found == [got EXCEPT !.walls = {Own} \cup (things \ {Club})]
<1>1. Query("walls", found)
  BY DEF ReadFriends
<1>2. /\ found = [got EXCEPT !.walls = found.walls] /\ found.walls = {Own} \cup (things \ {Club})
      /\ found.items = got.items /\ found.things = got.things /\ found.total = got.total
      /\ found.remarks = got.remarks /\ found.hearts = got.hearts
      /\ found = [walls |-> found.walls, items |-> found.items, things |-> found.things,
                  total |-> found.total, remarks |-> found.remarks, hearts |-> found.hearts]
  BY DEF PagesIInv, PagesTypes
<1> HIDE DEF found
<1>3. /\ Kinds /\ PagesTypes /\ Spans /\ Spans' /\ InOrder'
      /\ UNCHANGED <<list, pageTables, steady, ever>> /\ got' = found /\ Reads("walls")
  BY <1>1, QueryFacts
<1>4. PagesTypes'
  BY <1>2, <1>3, TypesKept DEF PagesTypes
<1>5. WallsFound'
  <2>1. steady'.things \subseteq things /\ list'.of = "news" /\ got'.walls = {Own} \cup (things \ {Club})
    BY <1>2, <1>3 DEF Kinds, Spans, Within, Standing
  <2> QED BY <2>1 DEF WallsFound
<1>6. AllFound'
  BY <1>1, <1>2, <1>5, FoundKept DEF AllFound
<1> QED BY <1>3, <1>4, <1>6 DEF PagesIInv

LEMMA DraftTypes == \A r \in Item : Drafts[r] \in [on : Thing, by : Thing]
<1> DEFINE Draft == [on : Thing, by : Thing]
<1>1. Drafts \in Seq(Draft)
  BY PagesAssumption
<1> HIDE DEF Draft
<1>2. \A r \in Item : Drafts[r] \in Draft
  BY <1>1 DEF Item
<1> QED BY <1>2 DEF Draft

LEMMA ItemFinite == IsFiniteSet(Item) /\ Item \subseteq Nat
<1>1. PICK n \in Nat : Item = 1 .. n
  BY PagesAssumption DEF Item
<1> QED BY <1>1, FS_Interval

LEMMA ItemsStep == PagesIInv /\ ReadItems => PagesIInv'
<1> SUFFICES ASSUME PagesIInv, ReadItems PROVE PagesIInv'
  OBVIOUS
<1> DEFINE found == [got EXCEPT !.items = Cut(Listable)]
<1>1. Query("items", found)
  BY DEF ReadItems
<1>2. /\ found.items = Cut(Listable)
      /\ found.walls = got.walls /\ found.things = got.things /\ found.total = got.total
      /\ found.remarks = got.remarks /\ found.hearts = got.hearts
      /\ found = [walls |-> found.walls, items |-> found.items, things |-> found.things,
                  total |-> found.total, remarks |-> found.remarks, hearts |-> found.hearts]
  BY DEF PagesIInv, PagesTypes
<1> HIDE DEF found
<1>3. /\ Kinds /\ PagesTypes /\ Spans /\ Spans' /\ InOrder' /\ AllFound
      /\ UNCHANGED <<list, pageTables, steady, ever>> /\ got' = found /\ ~ToCome("walls")
      /\ \A other : Done(other)' <=> Done(other) \/ other = "items"
      /\ ~(Reads("one") /\ queries' = <<>>) /\ queries' # <<"failed">>
  BY <1>1, QueryFacts DEF PagesIInv
<1>4. Cut(Listable) \subseteq Listable /\ Listable \subseteq Standing.items
  BY DEF Cut, Listable, Standing
<1>5. Standing.items \subseteq ever.items /\ steady.items \subseteq Standing.items /\ ever.items \subseteq Item
  BY <1>3 DEF Spans, Within, PagesTypes, Rows
<1>6. PagesTypes'
  BY <1>2, <1>3, <1>4, <1>5, TypesKept DEF PagesTypes
<1>7. ASSUME NEW r \in steady.items, Followed(r), r \notin Cut(Listable) PROVE Crowded(r)
  <2>1. r \in Listable
    <3>1. r \in items \ hidden
      BY <1>5 DEF Standing
    <3>2. OfPosts => Drafts[r].on \in got.walls
      BY <1>3, <1>7 DEF Followed, AllFound, WallsFound
    <3> QED BY <3>1, <3>2 DEF Listable
  <2> DEFINE before == {q \in Listable : Precedes(q, r)}
             all == {q \in ever.items : Precedes(q, r)}
  <2>2. before \subseteq all /\ all \subseteq Item
    BY <1>4, <1>5
  <2>3. list.cut # "none" /\ ~(Cardinality(before) < PageSize)
    BY <1>7, <2>1 DEF Cut
  <2> HIDE DEF before, all
  <2>4. IsFiniteSet(all)
    BY <2>2, ItemFinite, FS_Subset
  <2>5. IsFiniteSet(before) /\ Cardinality(before) <= Cardinality(all)
    BY <2>2, <2>4, FS_Subset
  <2>6. Cardinality(before) \in Nat /\ Cardinality(all) \in Nat
    BY <2>4, <2>5, FS_CardinalityType
  <2>7. Cardinality(all) >= PageSize
    BY <2>3, <2>5, <2>6, PagesAssumption
  <2> QED BY <2>3, <2>7 DEF Crowded, all
<1>8. ItemsFound'
  <2>1. (\A r : Followed(r)' <=> Followed(r)) /\ (\A r : Crowded(r)' <=> Crowded(r))
    BY <1>3 DEF Followed, Crowded, OfPosts, Precedes
  <2> QED BY <1>2, <1>3, <1>4, <1>5, <1>7, <2>1 DEF ItemsFound
<1>9. ThingsFound'
  <2>1. ~Done("things")
    BY <1>1, QueryFacts DEF Done, Kinds, InOrder, PagesIInv
  <2>2. Reads("one")' <=> Reads("one")
    BY <1>3 DEF Reads
  <2> QED BY <1>3, <2>1, <2>2 DEF ThingsFound
<1>10. AllFound'
  BY <1>1, <1>2, <1>8, <1>9, FoundKept DEF AllFound
<1> QED BY <1>3, <1>6, <1>10 DEF PagesIInv

LEMMA ThingsStep == PagesIInv /\ ReadThings => PagesIInv'
<1> SUFFICES ASSUME PagesIInv, ReadThings PROVE PagesIInv'
  OBVIOUS
<1> DEFINE all == (UNION {Refers(r) : r \in got.items}) \cap things
           found == [got EXCEPT !.things = all]
<1>1. Query("things", found)
  BY DEF ReadThings
<1>2. \A r \in got.items : Refers(r) \cap things \subseteq all
  OBVIOUS
<1> HIDE DEF all
<1>3. /\ found.items = got.items /\ found.things = all
      /\ found.walls = got.walls /\ found.total = got.total
      /\ found.remarks = got.remarks /\ found.hearts = got.hearts
      /\ found = [walls |-> found.walls, items |-> found.items, things |-> found.things,
                  total |-> found.total, remarks |-> found.remarks, hearts |-> found.hearts]
  BY DEF PagesIInv, PagesTypes
<1> HIDE DEF found
<1>4. /\ PagesTypes /\ Spans /\ Spans' /\ InOrder'
      /\ UNCHANGED <<list, pageTables, steady, ever>> /\ got' = found
      /\ ~(Reads("one") /\ queries' = <<>>) /\ queries' # <<"failed">>
  BY <1>1, QueryFacts
<1>5. PagesTypes'
  BY <1>3, <1>4, TypesKept DEF PagesTypes
<1>6. ThingsFound'
  <2>1. steady'.things \subseteq things /\ got'.items = got.items /\ got'.things = all
    BY <1>3, <1>4 DEF Spans, Within, Standing
  <2>2. \A r : Refers(r)' = Refers(r)
    BY <1>4 DEF Refers, OfPosts
  <2>3. \A r \in got'.items : Refers(r)' \cap steady'.things \subseteq got'.things
    BY <1>2, <2>1, <2>2
  <2>4. Reads("one")' <=> Reads("one")
    BY <1>4 DEF Reads
  <2> QED BY <1>4, <2>3, <2>4 DEF ThingsFound
<1>7. AllFound'
  BY <1>1, <1>3, <1>6, FoundKept DEF AllFound
<1> QED BY <1>4, <1>5, <1>7 DEF PagesIInv

(***************************************************************************)
(* The reports: an author that is missing makes the request fail, so that  *)
(* the others are all there when it does not.                              *)
(***************************************************************************)
LEMMA OneStep == PagesIInv /\ ReadOne => PagesIInv'
<1> SUFFICES ASSUME PagesIInv, ReadOne PROVE PagesIInv'
  OBVIOUS
<1> DEFINE owed == {Drafts[r].by : r \in got.items} \ got.things
<1>1. /\ queries = <<"one">> /\ UNCHANGED <<list, pageTables, steady, ever>>
      /\ Kinds /\ PagesTypes /\ Spans /\ AllFound /\ InOrder
  BY ListKinds DEF ReadOne, PagesIInv, PagesTypes
<1>2. \/ owed = {} /\ queries' = <<>> /\ UNCHANGED got
      \/ \E u \in owed : got' = [got EXCEPT !.things = @ \cup {u}] /\ UNCHANGED queries
      \/ ~(owed \subseteq things) /\ queries' = <<"failed">> /\ UNCHANGED got
  BY DEF ReadOne
<1>3. \A name : ToCome(name) <=> name = "one"
  BY <1>1 DEF ToCome
<1>4. Reads("one") /\ ~OfPosts /\ \A name : Reads(name) => name \in {"items", "one"}
  BY <1>1, <1>3 DEF InOrder, Kinds
<1>5. queries' \in {<<>>, <<"one">>, <<"failed">>} /\ \A name : ToCome(name)' => name \in {"one", "failed"}
  BY <1>1, <1>2 DEF ToCome
<1>6. /\ \A name : Reads(name)' <=> Reads(name)
      /\ Done("items") /\ Done("items")'
      /\ \A name \in {"walls", "things", "total", "remarks", "hearts"} : ~Done(name)'
      /\ Spans' /\ list.of # "news"
  BY <1>1, <1>3, <1>4, <1>5 DEF Done, Reads, Kinds, Spans, Within, Standing, pageTables
<1>7. InOrder'
  <2>1. ToCome("failed")' => queries' = <<"failed">>
    BY <1>5 DEF ToCome
  <2>2. \A name : ToCome(name)' => Reads(name) \/ name = "failed"
    BY <1>4, <1>5
  <2> QED BY <1>5, <1>6, <2>2 DEF InOrder, Rests
<1>8. /\ got'.walls = got.walls /\ got'.items = got.items /\ got.things \subseteq got'.things
      /\ got' = [walls |-> got'.walls, items |-> got'.items, things |-> got'.things,
                 total |-> got'.total, remarks |-> got'.remarks, hearts |-> got'.hearts]
  <2> HIDE DEF owed
  <2> QED BY <1>1, <1>2 DEF PagesTypes
<1>9. PagesTypes'
  BY <1>1, <1>8, TypesKept DEF PagesTypes
<1>10. ItemsFound'
  <2>1. (\A r : Followed(r)' <=> Followed(r)) /\ (\A r : Crowded(r)' <=> Crowded(r))
    BY <1>1 DEF Followed, Crowded, OfPosts, Precedes
  <2> QED BY <1>1, <1>6, <1>8, <2>1 DEF AllFound, ItemsFound
<1>11. ThingsFound'
  <2>1. \A r : Refers(r)' = Refers(r) /\ Refers(r) = {Drafts[r].by}
    BY <1>1, <1>4 DEF Refers, OfPosts
  <2>2. CASE queries' = <<>>
    <3>1. owed = {} /\ got' = got
      BY <1>1, <1>2, <2>2
    <3>2. \A r \in got'.items : Refers(r)' \subseteq got'.things
      BY <2>1, <3>1
    <3> QED BY <1>6, <2>2, <3>2 DEF ThingsFound
  <2>3. CASE queries' = <<"one">>
    BY <1>6, <2>3 DEF ThingsFound
  <2>4. CASE queries' = <<"failed">>
    <3>1. ~(owed \subseteq things)
      <4> HIDE DEF owed
      <4> QED BY <1>1, <1>2, <2>4
    <3>2. owed \subseteq Thing
      <4>1. \A r \in Item : Drafts[r].by \in Thing
        BY DraftTypes
      <4> QED BY <1>1, <4>1 DEF PagesTypes
    <3>3. steady'.things \subseteq things
      BY <1>1 DEF Spans, Within, Standing
    <3> QED BY <1>6, <2>4, <3>1, <3>2, <3>3 DEF ThingsFound
  <2> QED BY <1>5, <2>2, <2>3, <2>4
<1>12. WallsFound'
  BY <1>1, <1>3, <1>6, <1>8 DEF AllFound, WallsFound
<1>13. AllFound'
  BY <1>6, <1>10, <1>11, <1>12 DEF AllFound, TotalFound, RemarksFound, HeartsFound
<1> QED BY <1>6, <1>7, <1>9, <1>13 DEF PagesIInv

(***************************************************************************)
(* A part of what is told of a list's rows is not more than the whole.     *)
(***************************************************************************)
LEMMA MarksFinite ==
  ASSUME NEW high \in SUBSET Mark, NEW low \in SUBSET high, NEW r
  PROVE  /\ IsFiniteSet(On(high, r)) /\ IsFiniteSet(On(low, r))
         /\ Cardinality(On(high, r)) \in Nat /\ Cardinality(On(low, r)) \in Nat
         /\ Cardinality(On(low, r)) <= Cardinality(On(high, r))
<1>1. IsFiniteSet(Mark)
  BY ItemFinite, PagesAssumption, FS_Product DEF Mark
<1>2. On(high, r) \subseteq Mark /\ On(low, r) \subseteq On(high, r)
  BY DEF On
<1>3. IsFiniteSet(On(high, r))
  BY <1>1, <1>2, FS_Subset
<1> QED BY <1>2, <1>3, FS_Subset, FS_CardinalityType

LEMMA ItemsFinite ==
  ASSUME NEW high \in SUBSET Item, NEW low \in SUBSET high
  PROVE  /\ IsFiniteSet(high) /\ IsFiniteSet(low)
         /\ Cardinality(high) \in Nat /\ Cardinality(low) \in Nat
         /\ Cardinality(low) <= Cardinality(high)
<1>1. IsFiniteSet(high)
  BY ItemFinite, FS_Subset
<1> QED BY <1>1, FS_Subset, FS_CardinalityType

LEMMA TotalStep == PagesIInv /\ ReadTotal => PagesIInv'
<1> SUFFICES ASSUME PagesIInv, ReadTotal PROVE PagesIInv'
  OBVIOUS
<1> DEFINE found == [got EXCEPT !.total = Cardinality(items)]
<1>1. Query("total", found)
  BY DEF ReadTotal
<1>2. /\ found.total = Cardinality(items)
      /\ found.walls = got.walls /\ found.items = got.items /\ found.things = got.things
      /\ found.remarks = got.remarks /\ found.hearts = got.hearts
      /\ found = [walls |-> found.walls, items |-> found.items, things |-> found.things,
                  total |-> found.total, remarks |-> found.remarks, hearts |-> found.hearts]
  BY DEF PagesIInv, PagesTypes
<1> HIDE DEF found
<1>3. /\ Kinds /\ PagesTypes /\ Spans /\ Spans' /\ InOrder'
      /\ UNCHANGED <<list, pageTables, steady, ever>> /\ got' = found /\ Reads("total")
  BY <1>1, QueryFacts
<1>4. PagesTypes'
  BY <1>2, <1>3, TypesKept DEF PagesTypes
<1>5. TotalFound'
  <2>1. hidden = {} /\ steady.items \subseteq items /\ items \subseteq ever.items /\ ever.items \subseteq Item
    BY <1>3 DEF Kinds, PagesTypes, Spans, Within, Standing, Rows
  <2>2. Meanwhile(Cardinality(items), steady.items, ever.items)
    BY <2>1, ItemsFinite DEF Meanwhile, Between
  <2> QED BY <1>2, <1>3, <2>2 DEF TotalFound
<1>6. AllFound'
  BY <1>1, <1>2, <1>5, FoundKept DEF AllFound
<1> QED BY <1>3, <1>4, <1>6 DEF PagesIInv

(***************************************************************************)
(* A post has its address for itself: of two on a wall, the later one has  *)
(* the greater number.                                                     *)
(***************************************************************************)
LEMMA NumbersGrow ==
  ASSUME NEW q \in Item, NEW r \in Item, q < r, Drafts[q].on = Drafts[r].on
  PROVE  Number(q) # Number(r)
<1> DEFINE low == {p \in Item : p <= q /\ Drafts[p].on = Drafts[q].on}
           high == {p \in Item : p <= r /\ Drafts[p].on = Drafts[r].on}
<1>1. q \in Nat /\ r \in Nat /\ \A p \in Item : p \in Nat
  BY ItemFinite
<1>2. low \subseteq high /\ high \subseteq Item /\ r \in high /\ r \notin low
  <2>1. \A p \in Item : p <= q => p <= r
    BY <1>1
  <2>2. r <= r /\ ~(r <= q)
    BY <1>1
  <2> QED BY <2>1, <2>2
<1>3. Number(q) = Cardinality(low) /\ Number(r) = Cardinality(high)
  BY DEF Number
<1> HIDE DEF low, high
<1>4. IsFiniteSet(high)
  BY <1>2, ItemsFinite
<1> QED BY <1>2, <1>3, <1>4, FS_Subset

LEMMA AddressesApart == \A q, r \in Item : Address(q) = Address(r) => q = r
<1> SUFFICES ASSUME NEW q \in Item, NEW r \in Item, Address(q) = Address(r), q # r PROVE FALSE
  OBVIOUS
<1>1. Drafts[q].on = Drafts[r].on /\ Number(q) = Number(r)
  BY DEF Address
<1>2. q < r \/ r < q
  BY ItemFinite
<1> QED BY <1>1, <1>2, NumbersGrow

LEMMA RemarksStep == PagesIInv /\ ReadRemarks => PagesIInv'
<1> SUFFICES ASSUME PagesIInv, ReadRemarks PROVE PagesIInv'
  OBVIOUS
<1> DEFINE found == [got EXCEPT !.remarks = [r \in Item |-> Cardinality(RemarksOn(r))]]
<1>1. Query("remarks", found)
  BY DEF ReadRemarks
<1>2. /\ found.remarks = [r \in Item |-> Cardinality(RemarksOn(r))]
      /\ found.walls = got.walls /\ found.items = got.items /\ found.things = got.things
      /\ found.total = got.total /\ found.hearts = got.hearts
      /\ found = [walls |-> found.walls, items |-> found.items, things |-> found.things,
                  total |-> found.total, remarks |-> found.remarks, hearts |-> found.hearts]
  BY DEF PagesIInv, PagesTypes
<1> HIDE DEF found
<1>3. /\ PagesTypes /\ Spans /\ Spans' /\ InOrder'
      /\ UNCHANGED <<list, pageTables, steady, ever>> /\ got' = found
  BY <1>1, QueryFacts
<1>4. PagesTypes'
  BY <1>2, <1>3, TypesKept DEF PagesTypes
<1>5. steady.remarks \subseteq remarks /\ remarks \subseteq ever.remarks /\ ever.remarks \subseteq Mark
  BY <1>3 DEF PagesTypes, Spans, Within, Standing, Rows
<1>6. \A r \in Item : RemarksOn(r) = On(remarks, r)
  <2>1. \A m \in remarks : m[1] \in Item
    BY <1>5 DEF Mark
  <2> QED BY <2>1, AddressesApart DEF RemarksOn, On
<1>7. RemarksFound'
  <2>1. ASSUME NEW r \in Item
        PROVE  Meanwhile(found.remarks[r], On(steady.remarks, r), On(ever.remarks, r))
    <3>1. found.remarks[r] = Cardinality(On(remarks, r))
      BY <1>2, <1>6
    <3> QED BY <1>5, <3>1, MarksFinite DEF Meanwhile, Between
  <2> QED BY <1>3, <2>1 DEF RemarksFound
<1>8. AllFound'
  BY <1>1, <1>2, <1>7, FoundKept DEF AllFound
<1> QED BY <1>3, <1>4, <1>8 DEF PagesIInv

LEMMA HeartsStep == PagesIInv /\ ReadHearts => PagesIInv'
<1> SUFFICES ASSUME PagesIInv, ReadHearts PROVE PagesIInv'
  OBVIOUS
<1> DEFINE Who(r) == {m[2] : m \in {h \in hearts : h[1] = r}}
           found == [got EXCEPT !.hearts = [r \in Item |-> Who(r)]]
<1>1. Query("hearts", found)
  BY DEF ReadHearts
<1>2. /\ found.hearts = [r \in Item |-> Who(r)]
      /\ found.walls = got.walls /\ found.items = got.items /\ found.things = got.things
      /\ found.total = got.total /\ found.remarks = got.remarks
      /\ found = [walls |-> found.walls, items |-> found.items, things |-> found.things,
                  total |-> found.total, remarks |-> found.remarks, hearts |-> found.hearts]
  <2> HIDE DEF Who
  <2> QED BY DEF PagesIInv, PagesTypes
<1> HIDE DEF found
<1>3. /\ PagesTypes /\ Spans /\ Spans' /\ InOrder'
      /\ UNCHANGED <<list, pageTables, steady, ever>> /\ got' = found
  BY <1>1, QueryFacts
<1>4. PagesTypes'
  BY <1>2, <1>3, TypesKept DEF PagesTypes
<1>5. steady.hearts \subseteq hearts /\ hearts \subseteq ever.hearts /\ ever.hearts \subseteq Mark
  BY <1>3 DEF PagesTypes, Spans, Within, Standing, Rows
<1>6. ASSUME NEW r \in Item PROVE Cardinality(Who(r)) = Cardinality(On(hearts, r))
  <2> DEFINE f == [m \in On(hearts, r) |-> m[2]]
  <2>1. \A m \in On(hearts, r) : m = <<r, m[2]>>
    BY <1>5 DEF On, Mark
  <2>2. Who(r) = {m[2] : m \in On(hearts, r)}
    BY DEF On
  <2>3. f \in Bijection(On(hearts, r), Who(r))
    <3>1. f \in [On(hearts, r) -> Who(r)]
      BY <2>2
    <3>2. \A a, b \in On(hearts, r) : f[a] = f[b] => a = b
      BY <2>1
    <3>3. \A w \in Who(r) : \E m \in On(hearts, r) : f[m] = w
      BY <2>2
    <3> HIDE DEF f, Who
    <3> QED BY <3>1, <3>2, <3>3 DEF Bijection, Injection, IsInjective, Surjection
  <2>4. IsFiniteSet(On(hearts, r))
    BY <1>5, MarksFinite
  <2> HIDE DEF f, Who
  <2> QED BY <2>3, <2>4, FS_Bijection DEF ExistsBijection
<1>7. HeartsFound'
  <2>1. ASSUME NEW r \in Item
        PROVE  /\ Meanwhile(Cardinality(Who(r)), On(steady.hearts, r), On(ever.hearts, r))
               /\ Viewer \in Who(r) => <<r, Viewer>> \in ever.hearts
               /\ <<r, Viewer>> \in steady.hearts => Viewer \in Who(r)
    <3>1. Meanwhile(Cardinality(Who(r)), On(steady.hearts, r), On(ever.hearts, r))
      <4> HIDE DEF Who
      <4> QED BY <1>5, <1>6, MarksFinite DEF Meanwhile, Between
    <3>2. Viewer \in Who(r) => <<r, Viewer>> \in hearts
      BY <1>5 DEF Mark
    <3>3. <<r, Viewer>> \in hearts => Viewer \in Who(r)
      OBVIOUS
    <3> QED BY <1>5, <3>1, <3>2, <3>3
  <2> HIDE DEF Who
  <2> QED BY <1>2, <1>3, <2>1 DEF HeartsFound
<1>8. AllFound'
  BY <1>1, <1>2, <1>7, FoundKept DEF AllFound
<1> QED BY <1>3, <1>4, <1>8 DEF PagesIInv

(***************************************************************************)
(* What happens while a list is read makes what stood all the time less    *)
(* and what stood at some moment more, and leaves what was found.          *)
(***************************************************************************)
LEMMA ChangeTypes ==
  ASSUME PagesIInv, Change
  PROVE  /\ hidden' \subseteq Item /\ items' \subseteq Item /\ Standing' \in Rows
         /\ OfPosts \/ hidden' = {}
<1>1. /\ hidden \subseteq Item /\ items \subseteq Item /\ things \subseteq Thing
      /\ remarks \subseteq Mark /\ hearts \subseteq Mark /\ (OfPosts \/ hidden = {})
  BY DEF PagesIInv, PagesTypes, Standing, Rows
<1> DEFINE Kept ==
             /\ hidden' \subseteq Item /\ items' \subseteq Item /\ things' \subseteq Thing
             /\ remarks' \subseteq Mark /\ hearts' \subseteq Mark /\ (OfPosts \/ hidden' = {})
<1>2. Kept
  <2>1. ASSUME NEW r \in Item, Come(r) \/ Hide(r) \/ Remove(r) PROVE Kept
    BY <1>1, <2>1 DEF Come, Hide, Remove
  <2>2. ASSUME NEW r \in Item, NEW f \in Fan, Comment(r, f) \/ Like(r, f) PROVE Kept
    BY <1>1, <2>2 DEF Comment, Like, Mark
  <2>3. ASSUME NEW x \in Thing, Go(x) PROVE Kept
    BY <1>1, <2>3 DEF Go
  <2>4. ASSUME NEW f \in Fan, FanGoes(f) PROVE Kept
    BY <1>1, <2>4 DEF FanGoes
  <2> QED BY <2>1, <2>2, <2>3, <2>4 DEF Change
<1> QED BY <1>2 DEF Standing, Rows

LEMMA Widened ==
  ASSUME PagesIInv, Change, Happens
  PROVE  /\ PagesTypes' /\ Spans' /\ Within(steady', steady) /\ Within(ever, ever')
         /\ UNCHANGED <<list, queries, got>> /\ queries # <<>> /\ queries # <<"failed">>
<1>1. /\ PagesTypes /\ Spans /\ UNCHANGED <<list, queries, got>>
      /\ queries # <<>> /\ queries # <<"failed">>
      /\ steady' = [part \in DOMAIN steady |-> steady[part] \cap Standing'[part]]
      /\ ever' = [part \in DOMAIN ever |-> ever[part] \cup Standing'[part]]
  BY DEF PagesIInv, Happens
<1>2. /\ hidden' \subseteq Item /\ items' \subseteq Item /\ Standing' \in Rows
      /\ OfPosts \/ hidden' = {}
  BY ChangeTypes
<1>3. PICK present : present = Standing' /\ present \in Rows
  BY <1>2
<1>4. /\ steady' = [items |-> steady.items \cap present.items, things |-> steady.things \cap present.things,
                    remarks |-> steady.remarks \cap present.remarks, hearts |-> steady.hearts \cap present.hearts]
      /\ ever' = [items |-> ever.items \cup present.items, things |-> ever.things \cup present.things,
                  remarks |-> ever.remarks \cup present.remarks, hearts |-> ever.hearts \cup present.hearts]
  BY <1>1, <1>3 DEF PagesTypes, Rows
<1>5. PagesTypes'
  <2>1. steady' \in Rows /\ ever' \in Rows
    BY <1>1, <1>3, <1>4 DEF PagesTypes, Rows
  <2> QED BY <1>1, <1>2, <2>1 DEF PagesTypes, OfPosts
<1>6. Within(steady', present) /\ Within(present, ever') /\ Within(steady', steady) /\ Within(ever, ever')
  BY <1>4 DEF Within
<1>7. Spans'
  BY <1>3, <1>6 DEF Spans
<1> QED BY <1>1, <1>5, <1>6, <1>7

LEMMA StillMeanwhile ==
  ASSUME NEW n, NEW low, NEW low2, NEW high, NEW high2, Meanwhile(n, low, high),
         Cardinality(low2) \in Nat, Cardinality(low) \in Nat,
         Cardinality(high2) \in Nat, Cardinality(high) \in Nat,
         Cardinality(low2) <= Cardinality(low), Cardinality(high) <= Cardinality(high2)
  PROVE  Meanwhile(n, low2, high2)
  BY DEF Meanwhile, Between

LEMMA HappensStep == PagesIInv /\ Change /\ Happens => PagesIInv'
<1> SUFFICES ASSUME PagesIInv, Change, Happens PROVE PagesIInv'
  OBVIOUS
<1>1. /\ PagesTypes /\ PagesTypes' /\ Spans' /\ AllFound /\ InOrder
      /\ UNCHANGED <<list, queries, got>> /\ queries # <<>> /\ queries # <<"failed">>
  BY Widened DEF PagesIInv
<1>2. PICK low, high : low = steady' /\ high = ever'
  OBVIOUS
<1>3. /\ Within(low, steady) /\ Within(ever, high)
      /\ steady \in Rows /\ ever \in Rows /\ low \in Rows /\ high \in Rows
  BY <1>1, <1>2, Widened DEF PagesTypes
<1>4. /\ low.items \subseteq steady.items /\ low.things \subseteq steady.things
      /\ low.remarks \subseteq steady.remarks /\ low.hearts \subseteq steady.hearts
      /\ ever.items \subseteq high.items /\ ever.remarks \subseteq high.remarks
      /\ ever.hearts \subseteq high.hearts
      /\ steady.items \subseteq Item /\ high.items \subseteq Item
      /\ steady.remarks \subseteq Mark /\ high.remarks \subseteq Mark
      /\ steady.hearts \subseteq Mark /\ high.hearts \subseteq Mark
  BY <1>3 DEF Within, Rows
<1>5. /\ \A name : ToCome(name)' <=> ToCome(name)
      /\ \A name : Reads(name)' <=> Reads(name)
      /\ \A name : Done(name)' <=> Done(name)
      /\ \A r : Refers(r)' = Refers(r)
      /\ OfPosts' <=> OfPosts
  BY <1>1 DEF ToCome, Reads, Done, Refers, OfPosts
<1>6. InOrder'
  BY <1>1, <1>5 DEF InOrder
<1>7. WallsFound'
  BY <1>1, <1>2, <1>4, <1>5 DEF AllFound, WallsFound
<1>8. ItemsFound'
  <2>1. \A r : Followed(r)' => Followed(r)
    BY <1>1, <1>2, <1>4, <1>5 DEF Followed
  <2>2. ASSUME NEW r, Crowded(r) PROVE Crowded(r)'
    <3> DEFINE some == {q \in ever.items : Precedes(q, r)}
               all == {q \in high.items : Precedes(q, r)}
    <3>1. some \subseteq all /\ all \subseteq Item
      BY <1>4
    <3>2. list.cut # "none" /\ Cardinality(some) >= PageSize
      BY <2>2 DEF Crowded
    <3>3. all = {q \in high.items : Precedes(q, r)'}
      BY <1>1 DEF Precedes
    <3> HIDE DEF some, all
    <3>4. Cardinality(all) \in Nat /\ Cardinality(some) \in Nat /\ Cardinality(some) <= Cardinality(all)
      BY <3>1, ItemsFinite
    <3>5. Cardinality(all) >= PageSize
      BY <3>2, <3>4, PagesAssumption
    <3> QED BY <1>1, <1>2, <3>2, <3>3, <3>5 DEF Crowded
  <2> QED BY <1>1, <1>2, <1>4, <1>5, <2>1, <2>2 DEF AllFound, ItemsFound
<1>9. ThingsFound'
  BY <1>1, <1>2, <1>4, <1>5 DEF AllFound, ThingsFound
<1>10. TotalFound'
  <2>1. ASSUME Meanwhile(got.total, steady.items, ever.items)
        PROVE  Meanwhile(got.total, low.items, high.items)
    <3>1. /\ Cardinality(low.items) \in Nat /\ Cardinality(steady.items) \in Nat
          /\ Cardinality(low.items) <= Cardinality(steady.items)
      BY <1>4, ItemsFinite
    <3>2. /\ Cardinality(ever.items) \in Nat /\ Cardinality(high.items) \in Nat
          /\ Cardinality(ever.items) <= Cardinality(high.items)
      BY <1>4, ItemsFinite
    <3> QED BY <2>1, <3>1, <3>2, StillMeanwhile
  <2> QED BY <1>1, <1>2, <1>5, <2>1 DEF AllFound, TotalFound
<1>11. RemarksFound'
  <2>1. ASSUME NEW r \in Item, NEW n, Meanwhile(n, On(steady.remarks, r), On(ever.remarks, r))
        PROVE  Meanwhile(n, On(low.remarks, r), On(high.remarks, r))
    <3>1. /\ Cardinality(On(low.remarks, r)) \in Nat /\ Cardinality(On(steady.remarks, r)) \in Nat
          /\ Cardinality(On(low.remarks, r)) <= Cardinality(On(steady.remarks, r))
      BY <1>4, MarksFinite
    <3>2. /\ Cardinality(On(ever.remarks, r)) \in Nat /\ Cardinality(On(high.remarks, r)) \in Nat
          /\ Cardinality(On(ever.remarks, r)) <= Cardinality(On(high.remarks, r))
      BY <1>4, MarksFinite
    <3> QED BY <2>1, <3>1, <3>2, StillMeanwhile
  <2> QED BY <1>1, <1>2, <1>5, <2>1 DEF AllFound, RemarksFound
<1>12. HeartsFound'
  <2>1. ASSUME NEW r \in Item, NEW n, Meanwhile(n, On(steady.hearts, r), On(ever.hearts, r))
        PROVE  Meanwhile(n, On(low.hearts, r), On(high.hearts, r))
    <3>1. /\ Cardinality(On(low.hearts, r)) \in Nat /\ Cardinality(On(steady.hearts, r)) \in Nat
          /\ Cardinality(On(low.hearts, r)) <= Cardinality(On(steady.hearts, r))
      BY <1>4, MarksFinite
    <3>2. /\ Cardinality(On(ever.hearts, r)) \in Nat /\ Cardinality(On(high.hearts, r)) \in Nat
          /\ Cardinality(On(ever.hearts, r)) <= Cardinality(On(high.hearts, r))
      BY <1>4, MarksFinite
    <3> QED BY <2>1, <3>1, <3>2, StillMeanwhile
  <2> QED BY <1>1, <1>2, <1>4, <1>5, <2>1 DEF AllFound, HeartsFound
<1> QED BY <1>1, <1>6, <1>7, <1>8, <1>9, <1>10, <1>11, <1>12 DEF PagesIInv, AllFound

LEMMA PagesStep == PagesIInv /\ [PagesNext]_pagesVars => PagesIInv'
<1> SUFFICES ASSUME PagesIInv, [PagesNext]_pagesVars PROVE PagesIInv'
  OBVIOUS
<1>1. CASE Read
  BY <1>1, WallsStep, ItemsStep, TotalStep, ThingsStep, OneStep, RemarksStep, HeartsStep DEF Read
<1>2. CASE Change /\ Happens
  BY <1>2, HappensStep
<1>3. CASE UNCHANGED pagesVars
  <2>1. /\ UNCHANGED <<list, queries, got, steady, ever, hidden, items>> /\ Standing' = Standing
    BY <1>3 DEF pagesVars, Standing
  <2>2. /\ \A name : ToCome(name)' <=> ToCome(name)
        /\ \A name : Reads(name)' <=> Reads(name)
        /\ \A name : Done(name)' <=> Done(name)
        /\ \A r : Refers(r)' = Refers(r)
        /\ \A r : Followed(r)' <=> Followed(r)
        /\ \A r : Crowded(r)' <=> Crowded(r)
        /\ OfPosts' <=> OfPosts
    BY <2>1 DEF ToCome, Reads, Done, Refers, OfPosts, Followed, Crowded, Precedes
  <2>3. PagesTypes' /\ InOrder' /\ Spans'
    BY <2>1, <2>2 DEF PagesIInv, PagesTypes, InOrder, Spans
  <2>4. WallsFound' /\ ItemsFound' /\ ThingsFound'
    BY <2>1, <2>2 DEF PagesIInv, AllFound, WallsFound, ItemsFound, ThingsFound
  <2>5. TotalFound' /\ RemarksFound' /\ HeartsFound'
    BY <2>1, <2>2 DEF PagesIInv, AllFound, TotalFound, RemarksFound, HeartsFound
  <2> QED BY <2>3, <2>4, <2>5 DEF PagesIInv, AllFound
<1> QED BY <1>1, <1>2, <1>3 DEF PagesNext

LEMMA PagesInductive == PagesSpec => []PagesIInv
  BY PagesStart, PagesStep, PTL DEF PagesSpec

(***************************************************************************)
(* A list answers with what stood at some moment of its request, and with  *)
(* all that stood from its beginning to its end and had room; what its     *)
(* rows refer to is found; a list of reports fails for one who left.       *)
(***************************************************************************)
THEOREM ListsAnswerWhatStood == PagesSpec => []ListsWhatStood
<1>1. PagesIInv => ListsWhatStood
  <2> SUFFICES ASSUME PagesIInv PROVE ListsWhatStood
    OBVIOUS
  <2>1. PagesTypes /\ AllFound /\ Kinds
    BY ListKinds DEF PagesIInv, PagesTypes
  <2>2. queries = <<"failed">> => ~(Thing \subseteq steady.things)
    BY <2>1 DEF AllFound, ThingsFound
  <2>3. ASSUME Answered
        PROVE  /\ Listed \subseteq ever.items
               /\ \A r \in steady.items :
                    Followed(r) /\ Refers(r) \subseteq steady.things => r \in Listed \/ Crowded(r)
               /\ \A r \in Listed : Refers(r) \cap steady.things \subseteq got.things
    <3>1. \A name : ~ToCome(name)
      BY <2>3 DEF Answered, ToCome
    <3>2. Done("items") /\ (Done("things") \/ Reads("one"))
      BY <2>1, <3>1 DEF Kinds, Done
    <3>3. /\ got.items \subseteq ever.items
          /\ \A r \in steady.items : Followed(r) => r \in got.items \/ Crowded(r)
      BY <2>1, <3>2 DEF AllFound, ItemsFound
    <3>4. \A r \in got.items : Refers(r) \cap steady.things \subseteq got.things
      BY <2>1, <2>3, <3>2 DEF AllFound, ThingsFound, Answered
    <3>5. Listed \subseteq got.items
      BY DEF Listed
    <3>6. \A r \in got.items : Refers(r) \subseteq steady.things => r \in Listed
      BY <3>4 DEF Listed
    <3> QED BY <3>3, <3>4, <3>5, <3>6
  <2> QED BY <2>2, <2>3 DEF ListsWhatStood
<1> QED BY <1>1, PagesInductive, PTL

(***************************************************************************)
(* The numbers of comments and likes told with a row, and the viewer's own *)
(* like, are those of that row at some moment of the request.              *)
(***************************************************************************)
THEOREM NumbersToldStood == PagesSpec => []NumbersStood
<1>1. PagesIInv => NumbersStood
  <2> SUFFICES ASSUME PagesIInv, Answered PROVE NumbersStood
    BY DEF NumbersStood
  <2>1. PagesTypes /\ AllFound /\ Kinds
    BY ListKinds DEF PagesIInv, PagesTypes
  <2>2. \A name : Done(name) <=> Reads(name)
    BY DEF Answered, ToCome, Done
  <2>3. Listed \subseteq Item
    BY <2>1 DEF Listed, PagesTypes
  <2>4. list = Album => Between(got.total, steady.items, ever.items)
    BY <2>1, <2>2 DEF Kinds, AllFound, TotalFound, Meanwhile
  <2>5. OfPosts => \A r \in Item : Between(got.remarks[r], On(steady.remarks, r), On(ever.remarks, r))
    BY <2>1, <2>2 DEF Kinds, AllFound, RemarksFound, Meanwhile
  <2>6. Reads("hearts") =>
          \A r \in Item :
            /\ Between(Cardinality(got.hearts[r]), On(steady.hearts, r), On(ever.hearts, r))
            /\ Viewer \in got.hearts[r] => <<r, Viewer>> \in ever.hearts
            /\ <<r, Viewer>> \in steady.hearts => Viewer \in got.hearts[r]
    BY <2>1, <2>2 DEF AllFound, HeartsFound, Meanwhile
  <2>7. "hearts" \in {list.reads[n] : n \in DOMAIN list.reads} <=> Reads("hearts")
    BY DEF Reads
  <2> QED BY <2>3, <2>4, <2>5, <2>6, <2>7 DEF NumbersStood
<1> QED BY <1>1, PagesInductive, PTL

(***************************************************************************)
(* Uploads: of the files the model sends, the shape of each format, as     *)
(* far as what is written of it depends on it.                             *)
(***************************************************************************)
PartIds == {"fmt", "data", "LIST", "stream", "tags", "other"}
Part == [id : PartIds, size : Nat]
BodyOK(t, b) ==
  /\ t = "wav" => b.chunks \in Seq(Part)
  /\ t = "flac" => b.blocks \in Seq(Part) /\ b.audio \in Nat /\ b = [blocks |-> b.blocks, audio |-> b.audio]
  /\ t = "gif" => b = [header |-> b.header, blocks |-> b.blocks, end |-> b.end]
  /\ t = "webp" => b = [declared |-> b.declared, length |-> b.length, chunks |-> b.chunks,
                        header |-> b.header, pixels |-> b.pixels,
                        fits |-> b.fits, fitsAnew |-> b.fitsAnew]
  /\ t = "mp3" => b = [tag |-> b.tag, begins |-> b.begins, frames |-> b.frames, tail |-> b.tail]
  /\ t = "png" => b = [header |-> b.header, pixels |-> b.pixels,
                       fits |-> b.fits, fitsAnew |-> b.fitsAnew]

(***************************************************************************)
(* A walk that met a part of some sort met a last one: the least bound of  *)
(* the places where it did is one of them.                                 *)
(***************************************************************************)
LEMMA LastExists ==
  ASSUME NEW k \in Nat, NEW S \in SUBSET (1 .. k), S # {}
  PROVE  \E n \in S : \A m \in S : m <= n
<1> DEFINE Bounds == {b \in Nat : \A m \in S : m <= b}
<1>1. PICK b \in Bounds : \A c \in Bounds : ~(c < b)
  <2>1. k \in Bounds /\ Bounds \subseteq Nat
    OBVIOUS
  <2>2. \E x \in Bounds : \A y \in Bounds : ~(<<y, x>> \in OpToRel(<, Nat))
    BY <2>1, NatLessThanWellFounded, WFMin
  <2> QED
    BY <2>1, <2>2 DEF OpToRel
<1>2. b \in S
  <2> SUFFICES ASSUME b \notin S PROVE FALSE
    OBVIOUS
  <2>1. PICK n \in S : TRUE
    OBVIOUS
  <2>2. b - 1 \in Nat /\ \A m \in S : m <= b - 1
    BY <1>1, <2>1
  <2> QED
    BY <1>1, <2>2
<1> QED
  BY <1>1, <1>2

(***************************************************************************)
(* Where the first and the second part of a file begin: the equation of    *)
(* the recursive function has a solution there, so the CHOOSE behind it    *)
(* satisfies it.                                                           *)
(***************************************************************************)
LEMMA FirstOffset ==
  ASSUME NEW header, NEW lengths
  PROVE  Offset(header, lengths, 1) = header
<1> DEFINE F(at) == [k \in 1 .. 1 |-> IF k = 1 THEN header ELSE at[k - 1] + lengths[k - 1]]
<1> DEFINE at == CHOOSE at : at = F(at)
<1>1. at = F(at)
  <2> DEFINE g == [k \in 1 .. 1 |-> header]
  <2>1. g = F(g)
    OBVIOUS
  <2> QED BY <2>1, Zenon
<1>2. at[1] = header
  <2> HIDE DEF at
  <2> QED BY <1>1
<1>3. Offset(header, lengths, 1) = at[1]
  BY DEF Offset
<1> QED BY <1>2, <1>3

LEMMA SecondOffset ==
  ASSUME NEW header, NEW lengths
  PROVE  Offset(header, lengths, 2) = header + lengths[1]
<1> DEFINE F(at) == [k \in 1 .. 2 |-> IF k = 1 THEN header ELSE at[k - 1] + lengths[k - 1]]
<1> DEFINE at == CHOOSE at : at = F(at)
<1>1. at = F(at)
  <2> DEFINE g == [k \in 1 .. 2 |-> IF k = 1 THEN header ELSE header + lengths[1]]
  <2>1. g = F(g)
    OBVIOUS
  <2> QED BY <2>1, Zenon
<1>2. at[2] = header + lengths[1]
  <2> HIDE DEF at
  <2>1. at[1] = header
    BY <1>1
  <2>2. at[2] = at[1] + lengths[1]
    BY <1>1
  <2> QED BY <2>1, <2>2
<1>3. Offset(header, lengths, 2) = at[2]
  BY DEF Offset
<1> QED BY <1>2, <1>3

(***************************************************************************)
(* Where the chunks of a file of two begin, of a file of one, and where    *)
(* the one block of a file ends.                                           *)
(***************************************************************************)
LEMMA TwoStarts ==
  ASSUME NEW c \in Part, NEW d \in Part
  PROVE  /\ Start(<<c, d>>, 1) = 12
         /\ Start(<<c, d>>, 2) = 12 + Padded(c)
<1> DEFINE lengths == [k \in DOMAIN <<c, d>> |-> Padded(<<c, d>>[k])]
<1>1. lengths[1] = Padded(c)
  OBVIOUS
<1> HIDE DEF lengths
<1>2. Offset(12, lengths, 1) = 12 /\ Offset(12, lengths, 2) = 12 + lengths[1]
  BY FirstOffset, SecondOffset
<1> QED BY <1>1, <1>2 DEF Start, lengths

LEMMA OneStart ==
  ASSUME NEW c
  PROVE  Start(<<c>>, 1) = 12
BY FirstOffset DEF Start

LEMMA OneBlock ==
  ASSUME NEW x \in Part
  PROVE  Offset(4, [k \in DOMAIN <<x>> |-> Block(<<x>>[k])], Len(<<x>>) + 1) = 8 + x.size
<1> DEFINE lengths == [k \in DOMAIN <<x>> |-> Block(<<x>>[k])]
<1>1. lengths[1] = Block(x) /\ Len(<<x>>) + 1 = 2
  OBVIOUS
<1>2. Block(x) = 4 + x.size /\ x.size \in Nat
  BY DEF Block, Part
<1> HIDE DEF lengths
<1>3. Offset(4, lengths, 2) = 4 + lengths[1]
  BY SecondOffset
<1>4. Offset(4, lengths, Len(<<x>>) + 1) = 8 + x.size
  BY <1>1, <1>2, <1>3
<1> QED BY <1>4 DEF lengths

(***************************************************************************)
(* A WAV file of a format of even size and data passes when its declared   *)
(* size counts both of them and the form: the walk meets both chunks, and  *)
(* what is written of them is as long.                                     *)
(***************************************************************************)
LEMMA TwoChunks ==
  ASSUME NEW fmt \in Part, NEW data \in Part, fmt.id = "fmt", data.id = "data",
         fmt.size >= 16, Odd(fmt.size) # 1,
         NEW w, w.declared = 8 + fmt.size + 8 + data.size + 4,
         w.length = 12 + Padded(fmt) + 8 + data.size, w.chunks = <<fmt, data>>
  PROVE  WavHolds(w) /\ WriteWav(w).length = w.length
<1>1. \A p \in Part : p.size \in Nat
  BY DEF Part
<1>2. PICK f \in Nat : f = fmt.size
  BY <1>1, Zenon
<1>3. PICK d \in Nat : d = data.size
  BY <1>1, Zenon
<1>4. Padded(fmt) = 8 + f
  <2>1. Odd(f) # 1
    BY <1>2, Zenon
  <2>2. Odd(f) = 0
    BY <2>1 DEF Odd
  <2>3. Padded(fmt) = 8 + f + Odd(f)
    BY <1>2, Zenon DEF Padded
  <2> QED BY <2>2, <2>3
<1>5. RiffEnd(w) = 28 + f + d /\ w.length = 28 + f + d
  <2>1. RiffEnd(w) = 8 + f + 8 + d + 4 + 8
    BY <1>2, <1>3, Zenon DEF RiffEnd
  <2>2. w.length = 12 + (8 + f) + 8 + d
    BY <1>3, <1>4, Zenon
  <2> QED BY <2>1, <2>2
<1>6. DOMAIN w.chunks = {1, 2} /\ w.chunks[1] = fmt /\ w.chunks[2] = data
  OBVIOUS
<1>7. Start(w.chunks, 1) = 12 /\ Start(w.chunks, 2) = 20 + f
  <2>1. Start(<<fmt, data>>, 1) = 12 /\ Start(<<fmt, data>>, 2) = 12 + Padded(fmt)
    BY TwoStarts
  <2>2. Start(w.chunks, 1) = 12 /\ Start(w.chunks, 2) = 12 + (8 + f)
    BY <2>1, <1>4, Zenon
  <2> QED BY <2>2
<1>8. ReadChunks(w) = {1, 2}
  <2>1. Start(w.chunks, 1) + 8 <= RiffEnd(w) /\ Start(w.chunks, 2) + 8 <= RiffEnd(w)
    BY <1>5, <1>7
  <2> QED BY <2>1, <1>6 DEF ReadChunks
<1>9. Found(w, "fmt") = {1} /\ Found(w, "data") = {2}
  BY <1>6, <1>8 DEF Found
<1>10. RiffHolds(w, {"fmt", "data", "LIST"})
  <2>1. RiffEnd(w) <= w.length
    <3>1. 28 + f + d <= 28 + f + d
      OBVIOUS
    <3> QED BY <3>1, <1>5, Zenon
  <2>2. Start(w.chunks, 1) + 8 + w.chunks[1].size <= RiffEnd(w)
    <3>1. 12 + 8 + f <= 28 + f + d
      OBVIOUS
    <3> QED BY <3>1, <1>2, <1>5, <1>6, <1>7, Zenon
  <2>3. Start(w.chunks, 2) + 8 + w.chunks[2].size <= RiffEnd(w)
    <3>1. (20 + f) + 8 + d <= 28 + f + d
      OBVIOUS
    <3> QED BY <3>1, <1>3, <1>5, <1>6, <1>7, Zenon
  <2>4. w.chunks[1].id \in {"fmt", "data", "LIST"} /\ w.chunks[2].id \in {"fmt", "data", "LIST"}
    BY <1>6
  <2> QED BY <2>1, <2>2, <2>3, <2>4, <1>8 DEF RiffHolds
<1>11. WavHolds(w)
  BY <1>6, <1>9, <1>10 DEF WavHolds
<1>12. LastOf(w, "fmt") = fmt /\ LastOf(w, "data") = data
  BY <1>6, <1>9 DEF LastOf
<1>13. WriteWav(w).length = 12 + Padded(fmt) + 8 + data.size
  BY <1>12 DEF WriteWav
<1> QED BY <1>11, <1>13

(***************************************************************************)
(* What is written of a WAV file, a WebP file, a FLAC file that passed     *)
(* passes again and is written as long as it is.  Of the sizes of the      *)
(* original nothing is used but that a format has 16 bytes and that the    *)
(* parts kept were among those read.                                       *)
(***************************************************************************)
LEMMA WavTwice ==
  ASSUME NEW b, b.chunks \in Seq(Part), WavHolds(b), Odd(WriteWav(b).chunks[1].size) # 1
  PROVE  WavHolds(WriteWav(b)) /\ WriteWav(WriteWav(b)).length = WriteWav(b).length
<1>1. ASSUME NEW id, Found(b, id) # {}
      PROVE  \E n \in Found(b, id) : LastOf(b, id) = b.chunks[n]
  <2>1. Found(b, id) \in SUBSET (1 .. Len(b.chunks)) /\ Len(b.chunks) \in Nat
    BY DEF Found, ReadChunks
  <2>2. \E n \in Found(b, id) : \A m \in Found(b, id) : m <= n
    BY <1>1, <2>1, LastExists
  <2> QED BY <2>2 DEF LastOf
<1>2. PICK n \in Found(b, "fmt") : LastOf(b, "fmt") = b.chunks[n]
  BY <1>1 DEF WavHolds
<1>3. PICK m \in Found(b, "data") : LastOf(b, "data") = b.chunks[m]
  BY <1>1 DEF WavHolds
<1>4. n \in DOMAIN b.chunks /\ m \in DOMAIN b.chunks /\ b.chunks[n].id = "fmt" /\ b.chunks[m].id = "data"
  BY DEF Found, ReadChunks
<1>5. PICK fmt \in Part : fmt = b.chunks[n]
  <2>1. b.chunks[n] \in Part
    BY <1>4
  <2> QED BY <2>1, Zenon
<1>6. PICK data \in Part : data = b.chunks[m]
  <2>1. b.chunks[m] \in Part
    BY <1>4
  <2> QED BY <2>1, Zenon
<1>7. PICK w : w = WriteWav(b)
  OBVIOUS
<1>8. /\ w.declared = 8 + fmt.size + 8 + data.size + 4
      /\ w.length = 12 + Padded(fmt) + 8 + data.size
      /\ w.chunks = <<fmt, data>>
  BY <1>2, <1>3, <1>5, <1>6, <1>7 DEF WriteWav
<1>9. fmt.id = "fmt" /\ data.id = "data" /\ fmt.size >= 16
  BY <1>4, <1>5, <1>6 DEF WavHolds
<1>10. Odd(fmt.size) # 1
  <2>1. w.chunks[1] = fmt
    BY <1>8
  <2> QED BY <2>1, <1>7, Zenon
<1>11. WavHolds(w) /\ WriteWav(w).length = w.length
  BY <1>8, <1>9, <1>10, TwoChunks
<1> QED BY <1>7, <1>11

LEMMA FlacTwice ==
  ASSUME NEW b, b.blocks \in Seq(Part), b.audio \in Nat,
         b = [blocks |-> b.blocks, audio |-> b.audio], FlacHolds(b),
         ~ (WriteFlac(b).blocks[1].size < 34)
  PROVE  /\ FlacHolds(WriteFlac(b))
         /\ FlacLength(WriteFlac(WriteFlac(b))) = FlacLength(WriteFlac(b))
<1> DEFINE w == WriteFlac(b)
<1>1. PICK n \in Streams(b) : w = [blocks |-> <<b.blocks[n]>>, audio |-> b.audio]
  <2>1. Streams(b) \in SUBSET (1 .. Len(b.blocks)) /\ Streams(b) # {} /\ Len(b.blocks) \in Nat
    BY DEF Streams, FlacHolds
  <2>2. \E n \in Streams(b) : \A m \in Streams(b) : m <= n
    BY <2>1, LastExists
  <2> DEFINE last == CHOOSE n \in Streams(b) : \A m \in Streams(b) : m <= n
  <2>3. last \in Streams(b)
    BY <2>2
  <2>4. WriteFlac(b) = [b EXCEPT !.blocks = <<b.blocks[last]>>]
    BY DEF WriteFlac
  <2> HIDE DEF last
  <2>5. WriteFlac(b) = [blocks |-> <<b.blocks[last]>>, audio |-> b.audio]
    BY <2>4
  <2> QED BY <2>3, <2>5
<1> DEFINE x == b.blocks[n]
<1>2. x \in Part /\ x.id = "stream" /\ x.size \in Nat
  <2>1. n \in DOMAIN b.blocks /\ b.blocks[n].id = "stream"
    BY DEF Streams
  <2>2. b.blocks[n] \in Part
    BY <2>1
  <2> QED BY <2>1, <2>2 DEF Part
<1> HIDE DEF w, x
<1>3. w.blocks = <<x>> /\ w.audio = b.audio /\ b.audio > 0
  BY <1>1 DEF x, FlacHolds
<1>4. x.size >= 34
  <2>1. w.blocks[1] = x
    BY <1>3
  <2>2. ~ (x.size < 34)
    BY <2>1 DEF w
  <2> QED BY <2>2, <1>2
<1>5. FlacLength(w) = 8 + x.size + b.audio
  BY <1>2, <1>3, OneBlock DEF FlacLength
<1>6. DOMAIN w.blocks = {1} /\ w.blocks[1] = x
  BY <1>3
<1>7. Streams(w) = {1}
  BY <1>2, <1>6 DEF Streams
<1>8. FlacHolds(w)
  BY <1>2, <1>3, <1>4, <1>5, <1>6, <1>7 DEF FlacHolds
<1>9. WriteFlac(w) = w
  <2>1. w = [blocks |-> <<x>>, audio |-> b.audio]
    BY <1>1 DEF x
  <2>2. (CHOOSE k \in Streams(w) : \A m \in Streams(w) : m <= k) = 1
    BY <1>7
  <2>3. WriteFlac(w) = [w EXCEPT !.blocks = <<w.blocks[1]>>]
    BY <2>2 DEF WriteFlac
  <2> QED BY <2>1, <2>3, <1>6
<1> QED BY <1>8, <1>9 DEF w

LEMMA WebpTwice ==
  ASSUME NEW b, BodyOK("webp", b), WebpHolds(b), NEW w, w = ReencodeWebp(b), w.fits
  PROVE  WebpHolds(w) /\ ReencodeWebp(w).fits
<1> DEFINE c == [id |-> "VP8L", size |-> 6]
<1>1. /\ w.chunks = <<c>> /\ w.declared = 18 /\ w.length = 26
      /\ w.header = Absent /\ w.pixels = b.pixels /\ w.fits = b.fitsAnew /\ w.fitsAnew = b.fitsAnew
  BY DEF BodyOK, ReencodeWebp
<1>2. Start(<<c>>, 1) = 12
  BY OneStart
<1>3. RiffEnd(w) = 26 /\ DOMAIN w.chunks = {1} /\ w.chunks[1] = c /\ c.id = "VP8L" /\ c.size = 6
  BY <1>1 DEF RiffEnd
<1>4. ReadChunks(w) = {1} /\ Start(w.chunks, 1) = 12
  BY <1>1, <1>2, <1>3 DEF ReadChunks
<1> HIDE DEF c
<1>5. RiffHolds(w, Picture \cup {"EXIF"})
  <2>1. \A n \in ReadChunks(w) : n = 1
    BY <1>4
  <2>2. Start(w.chunks, 1) + 8 + w.chunks[1].size = 26
    BY <1>3, <1>4
  <2>3. w.chunks[1].id \in Picture
    BY <1>3 DEF Picture
  <2> QED BY <1>1, <1>3, <2>1, <2>2, <2>3 DEF RiffHolds
<1>6. WebpHolds(w)
  <2>1. Decodes(w)
    BY <1>1 DEF Decodes, WebpHolds
  <2> QED BY <1>1, <1>3, <1>4, <1>5, <2>1 DEF WebpHolds, Picture
<1>7. ReencodeWebp(w).fits
  <2>1. w = [declared |-> w.declared, length |-> w.length, chunks |-> w.chunks,
             header |-> w.header, pixels |-> w.pixels, fits |-> w.fits, fitsAnew |-> w.fitsAnew]
    BY DEF BodyOK, ReencodeWebp
  <2>2. ReencodeWebp(w).fits = w.fitsAnew
    BY <2>1 DEF ReencodeWebp
  <2> QED BY <2>2, <1>1
<1> QED BY <1>6, <1>7

(***************************************************************************)
(* A PNG file and a JPEG file encoded anew decode to what they were made   *)
(* of and pass; the second is within the limit when encoded once more      *)
(* unless that is what it is excepted for.                                 *)
(***************************************************************************)
LEMMA PngTwice ==
  ASSUME NEW b, BodyOK("png", b), PngHolds(b), NEW w, w = ReencodePng(b), w.fits
  PROVE  PngHolds(w) /\ ReencodePng(w).fits
<1>1. /\ w = [header |-> b.header, pixels |-> b.pixels, fits |-> b.fitsAnew, fitsAnew |-> b.fitsAnew]
  BY DEF BodyOK, ReencodePng
<1>2. ReencodePng(w).fits = b.fitsAnew
  BY <1>1 DEF ReencodePng
<1>3. PngHolds(w)
  BY <1>1 DEF PngHolds, Decodes
<1> QED BY <1>1, <1>2, <1>3

LEMMA JpegTwice ==
  ASSUME NEW b, JpegHolds(b), NEW w \in ReencodeJpeg(b), w.fitsAnew
  PROVE  JpegHolds(w) /\ \A v \in ReencodeJpeg(w) : v.fits
<1>1. w.header = b.pixels /\ w.pixels = b.pixels
  BY DEF ReencodeJpeg
<1>2. JpegHolds(w)
  BY <1>1 DEF JpegHolds, Decodes
<1>3. ASSUME NEW v \in ReencodeJpeg(w) PROVE v.fits
  <2>1. PICK next \in BOOLEAN :
          v = [header |-> w.pixels, pixels |-> w.pixels, fits |-> w.fitsAnew, fitsAnew |-> next]
    BY DEF ReencodeJpeg
  <2>2. v.fits = w.fitsAnew
    BY <2>1, Zenon
  <2> QED BY <2>2, Zenon
<1> QED BY <1>2, <1>3

(***************************************************************************)
(* The four shapes of which what is written may be refused, and what makes *)
(* the second upload pass.                                                 *)
(***************************************************************************)
Excepted(t, b) ==
  \/ t = "wav" /\ Odd(b.chunks[1].size) = 1
  \/ t = "flac" /\ b.blocks[1].size < 34
  \/ t = "mp3" /\ b.begins # "mp3"
  \/ t = "jpeg" /\ ~ b.fitsAnew

Passes(t, b) == Holds(t, b) /\ ValidSize(t, b) /\ \A w \in Written(t, b) : ValidSize(t, w)

(***************************************************************************)
(* Whatever the format: what is written of contents that pass and is small *)
(* enough, passes, but for the four shapes named.                          *)
(***************************************************************************)
LEMMA WrittenPasses ==
  ASSUME NEW t \in Type, NEW b, BodyOK(t, b), Holds(t, b), NEW w \in Written(t, b), ValidSize(t, w)
  PROVE  Passes(t, w) \/ Excepted(t, w)
<1>1. CASE t = "wav"
  <2>1. WavHolds(b) /\ b.chunks \in Seq(Part) /\ w = WriteWav(b)
    BY <1>1 DEF Holds, BodyOK, Written
  <2>2. Holds(t, w) <=> WavHolds(w)
    BY <1>1 DEF Holds, Sniff
  <2>3. Written(t, w) = {WriteWav(w)}
    BY <1>1 DEF Written
  <2>4. w.length <= MaxBytes /\ \A v : v.length = w.length => ValidSize(t, v)
    BY <1>1 DEF ValidSize
  <2>5. ASSUME Odd(w.chunks[1].size) # 1 PROVE WavHolds(w) /\ WriteWav(w).length = w.length
    BY <2>1, <2>5, WavTwice, Zenon
  <2> QED BY <1>1, <2>2, <2>3, <2>4, <2>5, Zenon DEF Passes, Excepted
<1>2. CASE t = "webp"
  <2>1. WebpHolds(b) /\ w = ReencodeWebp(b) /\ w.fits
    BY <1>2 DEF Holds, Written, ValidSize
  <2>2. WebpHolds(w) /\ ReencodeWebp(w).fits
    BY <1>2, <2>1, WebpTwice
  <2>3. Holds(t, w)
    BY <1>2, <2>2 DEF Holds, Sniff
  <2>4. \A v \in Written(t, w) : ValidSize(t, v)
    BY <1>2, <2>2 DEF Written, ValidSize
  <2> QED BY <2>3, <2>4 DEF Passes
<1>3. CASE t = "gif"
  <2>2. GifHolds(b) /\ w = WriteGif(b) /\ b = [header |-> b.header, blocks |-> b.blocks, end |-> b.end]
    BY <1>3 DEF Holds, BodyOK, Written
  <2>3. w.header = b.header /\ w.blocks = b.blocks \ {"comment"} /\ w.end = b.end
    BY <2>2 DEF WriteGif
  <2>4. GifHolds(w)
    BY <2>2, <2>3 DEF GifHolds
  <2>5. Holds(t, w) /\ \A v : ValidSize(t, v)
    BY <1>3, <2>4 DEF Holds, Sniff, ValidSize
  <2> QED BY <2>5 DEF Passes
<1>4. CASE t = "flac"
  <2>1. /\ FlacHolds(b) /\ b.blocks \in Seq(Part) /\ b.audio \in Nat
        /\ b = [blocks |-> b.blocks, audio |-> b.audio] /\ w = WriteFlac(b)
    BY <1>4 DEF Holds, BodyOK, Written
  <2>2. Holds(t, w) <=> FlacHolds(w)
    BY <1>4 DEF Holds, Sniff
  <2>3. Written(t, w) = {WriteFlac(w)}
    BY <1>4 DEF Written
  <2>4. \A v : FlacLength(v) = FlacLength(w) => ValidSize(t, v)
    BY <1>4 DEF ValidSize
  <2>5. ASSUME ~ (w.blocks[1].size < 34)
        PROVE  FlacHolds(w) /\ FlacLength(WriteFlac(w)) = FlacLength(w)
    BY <2>1, <2>5, FlacTwice, Zenon
  <2> QED BY <1>4, <2>2, <2>3, <2>4, <2>5, Zenon DEF Passes, Excepted
<1>5. CASE t = "mp3"
  <2>2. /\ Mp3Holds(b) /\ w = WriteMp3(b)
        /\ b = [tag |-> b.tag, begins |-> b.begins, frames |-> b.frames, tail |-> b.tail]
    BY <1>5 DEF Holds, BodyOK, Written
  <2>3. w.frames = b.frames /\ w.tail = "none" /\ w.begins = b.begins
    BY <2>2 DEF WriteMp3
  <2>4. Mp3Holds(w)
    BY <2>2, <2>3 DEF Mp3Holds
  <2>5. \A v : ValidSize(t, v)
    BY <1>5 DEF ValidSize
  <2>6. w.begins = "mp3" => Holds(t, w)
    BY <1>5, <2>4 DEF Holds, Sniff
  <2> QED BY <1>5, <2>5, <2>6 DEF Passes, Excepted
<1>6. CASE t = "png"
  <2>1. PngHolds(b) /\ w = ReencodePng(b) /\ w.fits
    BY <1>6 DEF Holds, Written, ValidSize
  <2>2. PngHolds(w) /\ ReencodePng(w).fits
    BY <1>6, <2>1, PngTwice
  <2>3. Holds(t, w)
    BY <1>6, <2>2 DEF Holds, Sniff
  <2>4. \A v \in Written(t, w) : ValidSize(t, v)
    BY <1>6, <2>2 DEF Written, ValidSize
  <2> QED BY <2>3, <2>4 DEF Passes
<1>7. CASE t = "jpeg"
  <2>1. JpegHolds(b) /\ w \in ReencodeJpeg(b)
    BY <1>7 DEF Holds, Written
  <2>2. ASSUME w.fitsAnew PROVE Holds(t, w) /\ \A v \in Written(t, w) : ValidSize(t, v)
    <3>1. JpegHolds(w) /\ \A v \in ReencodeJpeg(w) : v.fits
      BY <2>1, <2>2, JpegTwice
    <3> QED BY <1>7, <3>1 DEF Holds, Sniff, Written, ValidSize
  <2> QED BY <1>7, <2>2 DEF Passes, Excepted
<1>8. CASE t \notin {"wav", "webp", "gif", "flac", "mp3", "png", "jpeg"}
  <2>1. w = b /\ \A v : ValidSize(t, v)
    BY <1>8 DEF Written, ValidSize
  <2> QED BY <2>1 DEF Passes
<1> QED BY <1>1, <1>2, <1>3, <1>4, <1>5, <1>6, <1>7, <1>8

(***************************************************************************)
(* The name and the type an object is stored under agree with its          *)
(* contents, whether the bucket sends the type along or not.               *)
(***************************************************************************)
LEMMA StoredNameFits ==
  ASSUME NEW t \in Type, NEW k \in Kind,
         NEW mime \in {StoredMime(t, k), "application/octet-stream"}
  PROVE  /\ StoredName(t, k) \in AllowedNames[t]
         /\ InferMime(StoredName(t, k), mime) \in AllowedMimes[t]
<1>1. StoredName(t, k) \in AllowedNames[t] /\ StoredName(t, k) \in DOMAIN NameMime
  BY DEF StoredName, AllowedNames, Type, AllowedMimes, NameMime
<1>2. NameMime[StoredName(t, k)] \in AllowedMimes[t]
  BY DEF StoredName, NameMime, Type, AllowedMimes
<1>3. StoredMime(t, k) \in AllowedMimes[t] /\ StoredMime(t, k) # "application/octet-stream"
  BY DEF StoredMime, TypeMime, Type, AllowedMimes
<1> QED BY <1>1, <1>2, <1>3 DEF InferMime

(***************************************************************************)
(* An upload without a fault is taken for what it was made as; a file that *)
(* passes, under a name and a type of its own, has none.                   *)
(***************************************************************************)
LEMMA NoFault ==
  ASSUME NEW u, Fault(u) = "none"
  PROVE  u.type \in AllowedTypes(u.kind) /\ Holds(u.type, u.body)
<1>1. Sniff(u.type, u.body) \in AllowedTypes(u.kind) /\ Holds(u.type, u.body)
  BY DEF Fault
<1> QED BY <1>1 DEF Holds

LEMMA SoundIsNoFault ==
  ASSUME NEW u, ValidSize(u.type, u.body), Holds(u.type, u.body), u.type \in AllowedTypes(u.kind),
         u.name \in AllowedNames[u.type], InferMime(u.name, u.mime) \in AllowedMimes[u.type]
  PROVE  Fault(u) = "none"
<1>1. Sniff(u.type, u.body) = u.type
  BY DEF Holds
<1> QED BY <1>1 DEF Fault

(***************************************************************************)
(* What the inspection of an upload comes to: it is refused before or      *)
(* after it was written, or stored.                                        *)
(***************************************************************************)
LEMMA PersistCases ==
  ASSUME PersistObject
  PROVE  /\ verdict = "none" /\ again' = again
         /\ \/ Fault(upload) # "none" /\ verdict' \notin {"none", "stored"} /\ upload' = upload
            \/ \E written \in Written(upload.type, upload.body) :
                 /\ Fault(upload) = "none"
                 /\ ValidSize(upload.type, written)
                 /\ Store(written)
            \/ \E written \in Written(upload.type, upload.body) :
                 /\ ~ ValidSize(upload.type, written)
                 /\ verdict' \notin {"none", "stored"} /\ upload' = upload
<1>1. Fault(upload) # "stored"
  BY DEF Fault
<1>2. ASSUME NEW about, about \notin {"none", "stored"}, Refuse(about)
      PROVE  verdict' \notin {"none", "stored"} /\ upload' = upload
  BY <1>2 DEF Refuse
<1>3. verdict = "none" /\ again' = again
  BY DEF PersistObject
<1>4. \/ Fault(upload) # "none" /\ Refuse(Fault(upload))
      \/ /\ Fault(upload) = "none"
         /\ \E written \in Written(upload.type, upload.body) :
              \/ ValidSize(upload.type, written) /\ Store(written)
              \/ ~ ValidSize(upload.type, written) /\ Refuse("size")
  BY Zenon DEF PersistObject
<1> QED BY <1>1, <1>2, <1>3, <1>4

(***************************************************************************)
(* The invariant: while an upload waits for the first time its contents    *)
(* have the shape of their type; from when it is stored on, name, kind and *)
(* type agree with contents that pass or have one of the four shapes.      *)
(* StoredIsAccepted alone does not say why the second upload passes.       *)
(***************************************************************************)
IsUpload ==
  /\ upload = [kind |-> upload.kind, name |-> upload.name, mime |-> upload.mime,
               type |-> upload.type, body |-> upload.body]
  /\ upload.kind \in Kind /\ upload.type \in Type
  /\ again \in BOOLEAN

Kept ==
  /\ upload.type \in AllowedTypes(upload.kind)
  /\ upload.name = StoredName(upload.type, upload.kind)
  /\ Passes(upload.type, upload.body) \/ Excepted(upload.type, upload.body)

InspectIInv ==
  /\ IsUpload
  /\ ~ again /\ verdict = "none" => BodyOK(upload.type, upload.body)
  /\ ~ again /\ verdict = "stored" => Kept /\ upload.mime = StoredMime(upload.type, upload.kind)
  /\ again /\ verdict = "none" =>
       Kept /\ upload.mime \in {StoredMime(upload.type, upload.kind), "application/octet-stream"}
  /\ StoredIsAccepted

(***************************************************************************)
(* The files people may send have the shape of their type.                 *)
(***************************************************************************)
LEMMA PartsAre ==
  ASSUME NEW ids \in SUBSET PartIds
  PROVE  Parts(ids) \subseteq Seq(Part)
<1> SUFFICES ASSUME NEW n \in 0 .. MaxParts, NEW s \in [1 .. n -> [id : ids, size : Size]]
    PROVE s \in Seq(Part)
  BY DEF Parts
<1>1. n \in Nat
  BY InspectAssumption
<1>2. [id : ids, size : Size] \subseteq Part
  BY InspectAssumption DEF Part
<1>3. s \in [1 .. n -> Part]
  BY <1>2
<1> QED BY <1>1, <1>3

LEMMA InspectStarts == InspectInit => InspectIInv
<1> SUFFICES ASSUME InspectInit PROVE InspectIInv
  OBVIOUS
<1>1. CASE upload \in Named
  <2>1. IsUpload
    BY <1>1 DEF InspectInit, IsUpload, Named, Type, AllowedMimes
  <2>2. BodyOK(upload.type, upload.body)
    BY <1>1 DEF Named, BodyOK
  <2> QED BY <2>1, <2>2 DEF InspectInit, InspectIInv, StoredIsAccepted
<1>2. CASE upload \in Shaped
  <2>0. PICK k \in Kind \ {"avatar"} : \E t \in AllowedTypes(k) :
          upload \in [kind : {k}, name : {StoredName(t, k)}, mime : {StoredMime(t, k)},
                      type : {t}, body : Bodies(t)]
    BY <1>2 DEF Shaped
  <2>1. PICK t \in AllowedTypes(k) :
          upload \in [kind : {k}, name : {StoredName(t, k)}, mime : {StoredMime(t, k)},
                      type : {t}, body : Bodies(t)]
    BY <2>0
  <2>2. t \in Type
    BY DEF AllowedTypes, Image, Sound, Type, AllowedMimes, Kind
  <2>3. IsUpload /\ upload.type = t /\ upload.body \in Bodies(t)
    BY <2>1, <2>2 DEF InspectInit, IsUpload
  <2>4. ASSUME NEW ids \in SUBSET PartIds, NEW b \in RiffBodies(ids)
        PROVE  b.chunks \in Seq(Part)
    <3>1. \E cs \in Parts(ids) : b.chunks = cs
      BY DEF RiffBodies
    <3> QED BY <3>1, PartsAre
  <2>5. ASSUME NEW b \in Bodies(t) PROVE BodyOK(t, b)
    <3>1. CASE t = "wav"
      <4>1. {"fmt", "data", "LIST", "other"} \in SUBSET PartIds
        BY DEF PartIds
      <4>2. b \in RiffBodies({"fmt", "data", "LIST", "other"})
        BY <3>1 DEF Bodies
      <4> QED BY <2>4, <3>1, <4>1, <4>2 DEF BodyOK
    <3>2. CASE t = "webp"
      <4>1. \E b1 \in RiffBodies({"VP8X", "EXIF", "ANIM"}) :
              b \in [declared : {b1.declared}, length : {b1.length}, chunks : {b1.chunks},
                     header : Canvases(b1), pixels : Squares \cup {Absent},
                     fits : {TRUE}, fitsAnew : BOOLEAN]
        BY <3>2 DEF Bodies
      <4> QED BY <3>2, <4>1 DEF BodyOK
    <3>3. CASE t = "flac"
      <4>1. Parts({"stream", "tags", "other"}) \subseteq Seq(Part)
        <5>1. {"stream", "tags", "other"} \in SUBSET PartIds
          BY DEF PartIds
        <5> QED BY <5>1, PartsAre
      <4> QED BY <3>3, <4>1, InspectAssumption DEF Bodies, BodyOK
    <3>4. CASE t = "gif"
      BY <3>4 DEF Bodies, BodyOK
    <3>5. CASE t = "mp3"
      BY <3>5 DEF Bodies, BodyOK
    <3>6. CASE t = "png"
      BY <3>6 DEF Bodies, BodyOK
    <3>7. CASE t \notin {"wav", "webp", "flac", "gif", "mp3", "png"}
      BY <3>7 DEF BodyOK
    <3> QED BY <3>1, <3>2, <3>3, <3>4, <3>5, <3>6, <3>7
  <2> QED BY <2>3, <2>5 DEF InspectInit, InspectIInv, StoredIsAccepted
<1> QED BY <1>1, <1>2 DEF InspectInit

(***************************************************************************)
(* What is written is a file of the same kind: whoever takes it from the   *)
(* bucket and uploads it again is not refused, for any sizes of the parts, *)
(* any number of them, any dimensions and any limits on these and on the   *)
(* bytes, unless it is one of the four files named.                        *)
(***************************************************************************)
THEOREM StoredComesBack == InspectSpec => []StoredIsAccepted
<1>1. InspectIInv /\ [InspectNext]_inspectVars => InspectIInv'
  <2> SUFFICES ASSUME InspectIInv, [InspectNext]_inspectVars PROVE InspectIInv'
    OBVIOUS
  <2>1. CASE UploadAgain
    <3>1. /\ verdict = "stored" /\ ~ again /\ again' = TRUE /\ verdict' = "none"
      BY <2>1 DEF UploadAgain
    <3>2. PICK mime \in {upload.mime, "application/octet-stream"} :
            upload' = [upload EXCEPT !.mime = mime]
      BY <2>1 DEF UploadAgain
    <3>3. /\ upload'.kind = upload.kind /\ upload'.name = upload.name /\ upload'.mime = mime
          /\ upload'.type = upload.type /\ upload'.body = upload.body
          /\ IsUpload'
      BY <3>1, <3>2 DEF InspectIInv, IsUpload
    <3>4. Kept /\ upload.mime = StoredMime(upload.type, upload.kind)
      BY <3>1 DEF InspectIInv
    <3>5. Kept'
      BY <3>3, <3>4 DEF Kept
    <3> QED BY <3>1, <3>3, <3>4, <3>5 DEF InspectIInv, StoredIsAccepted
  <2>2. CASE PersistObject /\ ~ again
    <3>1. verdict = "none" /\ again' = again
      BY <2>2, PersistCases
    <3>2. BodyOK(upload.type, upload.body) /\ IsUpload
      BY <2>2, <3>1 DEF InspectIInv
    <3>3. ASSUME NEW written \in Written(upload.type, upload.body), Fault(upload) = "none",
                 ValidSize(upload.type, written), Store(written)
          PROVE  InspectIInv'
      <4>1. /\ verdict' = "stored"
            /\ upload' = [upload EXCEPT !.name = StoredName(upload.type, upload.kind),
                                        !.mime = StoredMime(upload.type, upload.kind),
                                        !.body = written]
        BY <3>3 DEF Store
      <4>2. upload.type \in AllowedTypes(upload.kind) /\ Holds(upload.type, upload.body)
        BY <3>3, NoFault
      <4>3. /\ upload'.kind = upload.kind /\ upload'.name = StoredName(upload.type, upload.kind)
            /\ upload'.mime = StoredMime(upload.type, upload.kind)
            /\ upload'.type = upload.type /\ upload'.body = written
            /\ IsUpload'
        BY <4>1, <3>1, <3>2 DEF IsUpload
      <4>4. Passes(upload.type, written) \/ Excepted(upload.type, written)
        BY <3>2, <3>3, <4>2, WrittenPasses DEF IsUpload
      <4>5. Kept'
        BY <4>2, <4>3, <4>4 DEF Kept
      <4> QED BY <2>2, <3>1, <4>1, <4>3, <4>5 DEF InspectIInv, StoredIsAccepted
    <3>4. ASSUME verdict' \notin {"none", "stored"}, upload' = upload
          PROVE  InspectIInv'
      BY <2>2, <3>1, <3>2, <3>4 DEF InspectIInv, StoredIsAccepted, IsUpload
    <3> QED BY <2>2, <3>3, <3>4, PersistCases
  <2>3. CASE PersistObject /\ again
    <3>1. verdict = "none" /\ again' = again
      BY <2>3, PersistCases
    <3>2. /\ IsUpload /\ Kept
          /\ upload.mime \in {StoredMime(upload.type, upload.kind), "application/octet-stream"}
      BY <2>3, <3>1 DEF InspectIInv
    <3>3. ASSUME NEW written, Store(written)
          PROVE  InspectIInv'
      <4>1. verdict' = "stored" /\ IsUpload'
        BY <3>1, <3>2, <3>3 DEF Store, IsUpload
      <4> QED BY <2>3, <3>1, <4>1 DEF InspectIInv, StoredIsAccepted
    <3>4. ASSUME verdict' \notin {"none", "stored"}, upload' = upload, ~ Passes(upload.type, upload.body)
          PROVE  InspectIInv'
      <4>1. Excepted(upload.type, upload.body)
        BY <3>2, <3>4 DEF Kept
      <4>2. (OddFormat \/ ShortStream \/ MisleadingFrame \/ GrowingPicture)'
        BY <4>1, <3>4 DEF Excepted, OddFormat, ShortStream, MisleadingFrame, GrowingPicture
      <4> QED BY <2>3, <3>1, <3>2, <3>4, <4>2 DEF InspectIInv, StoredIsAccepted, IsUpload
    <3>5. ASSUME Passes(upload.type, upload.body)
          PROVE  /\ Fault(upload) = "none"
                 /\ \A w \in Written(upload.type, upload.body) : ValidSize(upload.type, w)
      <4>1. /\ upload.name \in AllowedNames[upload.type]
            /\ InferMime(upload.name, upload.mime) \in AllowedMimes[upload.type]
        BY <3>2, StoredNameFits DEF IsUpload, Kept
      <4> QED BY <3>2, <3>5, <4>1, SoundIsNoFault DEF Kept, Passes
    <3> QED BY <2>3, <3>3, <3>4, <3>5, PersistCases
  <2>4. CASE UNCHANGED inspectVars
    BY <2>4 DEF inspectVars, InspectIInv, StoredIsAccepted, IsUpload, Kept, OddFormat, ShortStream, MisleadingFrame, GrowingPicture
  <2> QED BY <2>1, <2>2, <2>3, <2>4 DEF InspectNext
<1> QED BY <1>1, InspectStarts, PTL DEF InspectSpec, InspectIInv
=============================================================================
