------------------------------ MODULE Accounts ------------------------------
(***************************************************************************)
(* The rows of accounts (src/modules/users, src/modules/auth): signing up, *)
(* logging in, which gives an old password hash its new form, changing the *)
(* password and the settings, leaving, and what every start of a replica   *)
(* does to rows of older releases: src/db/protect.rs seals the addresses   *)
(* that are in plain text and computes their blind index.                  *)
(*                                                                         *)
(* A request reads a row in one statement and writes it in a later one; no *)
(* statement has a condition on what was read.  Only signing up and        *)
(* leaving use a transaction.  One address stands for the e-mail and the   *)
(* phone number, one privacy level for the six of them.                    *)
(***************************************************************************)
EXTENDS Naturals, FiniteSets

CONSTANTS
  Account,   \* public ids
  Login, Password,
  Contact,   \* addresses as a user may type them
  Normal,    \* Normal[c]: c as normalize_email and normalize_phone leave it
  Level,     \* privacy levels
  Everyone,  \* the one an account starts with
  OldRows,   \* bound: rows an older release may have left
  Replica,
  Task,      \* requests, each of which is sent once
  MaxStops,  \* bound: how often replicas are stopped
  None

Plain(c) == [for |-> None, text |-> c]
Sealed(u, c) == [for |-> u, text |-> c]
Opens(u, field) == field.for \in {None, u}
BlindIndex(c) == IF c = None THEN None ELSE Normal[c]

Field == {Plain(c) : c \in Contact} \cup {Sealed(u, c) : u \in Account, c \in Contact}
Row == [login : Login, algo : {"sha256", "argon2id"}, password : Password,
        contact : Field \cup {None}, index : Contact \cup {None}, level : Level]

ASSUME AccountsAssumption ==
  /\ Normal \in [Contact -> Contact]
  /\ Everyone \in Level
  /\ None \notin Account \cup Contact \cup Level \cup Row \cup Field
  /\ OldRows \subseteq {row \in Row : row.index = None /\
                          (row.contact # None => row.contact.for = None)}
  /\ MaxStops \in Nat

VARIABLES
  users,      \* users[u]: the row of u, or None
  settings,   \* settings[u]: the level in privacy_settings
  boot,       \* boot[r]: down, sealing or serving
  read,       \* read[r]: the rows a start has read
  left,       \* left[r]: those it has yet to look at
  stops,
  pc, job,    \* the next statement of a request, and what it was given
  gone,       \* history: the accounts that were deleted
  crossed,    \* history: requests whose row got another password since they read it
  rewritten,  \* history: rewritten[r]: accounts whose address changed since r read it
  torn        \* history: accounts two updates of which met, or one was cut off

tables == <<users, settings>>
starts == <<boot, read, left, stops>>
tasks == <<pc, job>>
history == <<gone, crossed, rewritten, torn>>
vars == <<users, settings, boot, read, left, stops, pc, job,
          gone, crossed, rewritten, torn>>

Present == {u \in Account : users[u] # None}
Idle == [id |-> None, gives |-> None, takes |-> None, contact |-> None, level |-> None]

Init ==
  /\ users \in [Account -> OldRows \cup {None}]
  /\ \A u, w \in Present : u # w => users[u].login # users[w].login
  /\ settings = [u \in Account |-> IF u \in Present THEN users[u].level ELSE None]
  /\ boot = [r \in Replica |-> "down"]
  /\ read = [r \in Replica |-> [u \in Account |-> None]]
  /\ left = [r \in Replica |-> {}]
  /\ stops = 0
  /\ pc = [t \in Task |-> "new"] /\ job = [t \in Task |-> Idle]
  /\ gone = {} /\ crossed = {} /\ torn = {}
  /\ rewritten = [r \in Replica |-> {}]

Served == \E r \in Replica : boot[r] = "serving"
Goto(t, label) == pc' = [pc EXCEPT ![t] = label]
End(t) == Goto(t, "ended") /\ job' = [job EXCEPT ![t] = Idle]
Accept(t, label, fields) ==
  /\ Served /\ pc[t] = "new"
  /\ Goto(t, label) /\ job' = [job EXCEPT ![t] = fields]
Updating(u) == {t \in Task : pc[t] \in {"update", "settings"} /\ job[t].id = u}

-----------------------------------------------------------------------------
(***************************************************************************)
(* A start seals what it finds in plain text, row by row, from what it has *)
(* read at once.  It fails, to be tried again, when a row has gone or the  *)
(* index is taken.                                                         *)
(***************************************************************************)
ReadAll(r) ==
  /\ boot[r] = "down"
  /\ boot' = [boot EXCEPT ![r] = "sealing"]
  /\ read' = [read EXCEPT ![r] = users]
  /\ left' = [left EXCEPT ![r] = Present]
  /\ rewritten' = [rewritten EXCEPT ![r] = {}]
  /\ UNCHANGED <<tables, stops, tasks, gone, crossed, torn>>

Dirty(row) ==
  row.contact # None /\ (row.contact.for = None \/ row.index = None)
IndexFree(u, index) == \A w \in Present \ {u} : index = None \/ users[w].index # index

Forget(r) ==
  /\ read' = [read EXCEPT ![r] = [u \in Account |-> None]]
  /\ left' = [left EXCEPT ![r] = {}]

(* Mistake: the address is sealed as its index has it. *)
SealNormalized(r, u) ==
  LET row == read[r][u] IN
  /\ boot[r] = "sealing" /\ u \in left[r]
  /\ Dirty(row) => u \in Present /\ IndexFree(u, BlindIndex(row.contact.text))
  /\ users' = IF Dirty(row)
              THEN [users EXCEPT ![u].contact = Sealed(u, BlindIndex(row.contact.text)),
                                 ![u].index = BlindIndex(row.contact.text)]
              ELSE users
  /\ left' = [left EXCEPT ![r] = @ \ {u}]
  /\ UNCHANGED <<settings, boot, read, stops, tasks, history>>

SealUser(r, u) ==
  LET row == read[r][u] IN
  /\ boot[r] = "sealing" /\ u \in left[r]
  /\ Dirty(row) => u \in Present /\ IndexFree(u, BlindIndex(row.contact.text))
  /\ users' = IF Dirty(row)
              THEN [users EXCEPT ![u].contact = Sealed(u, row.contact.text),
                                 ![u].index = BlindIndex(row.contact.text)]
              ELSE users
  /\ left' = [left EXCEPT ![r] = @ \ {u}]
  /\ UNCHANGED <<settings, boot, read, stops, tasks, history>>

(* Mistake: the statement is sent again, instead of the start. *)
FailToSealAgain(r, u) ==
  LET row == read[r][u] IN
  /\ boot[r] = "sealing" /\ u \in left[r] /\ Dirty(row)
  /\ u \notin Present \/ ~IndexFree(u, BlindIndex(row.contact.text))
  /\ UNCHANGED vars

FailToSeal(r, u) ==
  LET row == read[r][u] IN
  /\ boot[r] = "sealing" /\ u \in left[r] /\ Dirty(row)
  /\ u \notin Present \/ ~IndexFree(u, BlindIndex(row.contact.text))
  /\ boot' = [boot EXCEPT ![r] = "down"] /\ Forget(r)
  /\ UNCHANGED <<tables, stops, tasks, history>>

Serve(r) ==
  /\ boot[r] = "sealing" /\ left[r] = {}
  /\ boot' = [boot EXCEPT ![r] = "serving"] /\ Forget(r)
  /\ UNCHANGED <<tables, stops, tasks, history>>

(* The requests of a replica that stops are dropped first. *)
Stop(r) ==
  /\ boot[r] # "down" /\ stops < MaxStops
  /\ boot[r] = "serving" => \A t \in Task : pc[t] \in {"new", "ended"}
  /\ stops' = stops + 1
  /\ boot' = [boot EXCEPT ![r] = "down"] /\ Forget(r)
  /\ UNCHANGED <<tables, tasks, history>>

-----------------------------------------------------------------------------
(***************************************************************************)
(* Signing up: the name must not be a login or, as an address, the index   *)
(* of anybody; then the rows of the account are inserted at once, under a  *)
(* random id that was never used.  The unique login catches who was faster.*)
(***************************************************************************)
LoginTaken(l) == \E u \in Present : users[u].login = l

Register(t, l, p) ==
  /\ ~LoginTaken(l)
  /\ Accept(t, "insert", [Idle EXCEPT !.gives = l, !.takes = p])
  /\ UNCHANGED <<tables, starts, history>>

Insert(t, u) ==
  /\ pc[t] = "insert"
  /\ users[u] = None /\ u \notin gone
  /\ ~LoginTaken(job[t].gives)
  /\ users' = [users EXCEPT ![u] =
       [login |-> job[t].gives, algo |-> "argon2id", password |-> job[t].takes,
        contact |-> None, index |-> None, level |-> Everyone]]
  /\ settings' = [settings EXCEPT ![u] = Everyone]
  /\ End(t)
  /\ UNCHANGED <<starts, history>>

-----------------------------------------------------------------------------
(***************************************************************************)
(* Passwords.  A login whose hash is of an older release, and a change,    *)
(* verify the password they were given against the row they read; both     *)
(* then write a new hash by id.  A login with a hash of today writes       *)
(* nothing, and one that fails neither.                                    *)
(***************************************************************************)
Verify(p, row) == row.password = p

LogIn(t, u, p) ==
  /\ u \in Present /\ Verify(p, users[u]) /\ users[u].algo = "sha256"
  /\ Accept(t, "write", [Idle EXCEPT !.id = u, !.gives = p, !.takes = p])
  /\ UNCHANGED <<tables, starts, history>>

(* Mistake: the current password is not verified. *)
ChangeUnverified(t, u, p, q) ==
  /\ u \in Present
  /\ Accept(t, "write", [Idle EXCEPT !.id = u, !.gives = p, !.takes = q])
  /\ UNCHANGED <<tables, starts, history>>

ChangePassword(t, u, p, q) ==
  /\ u \in Present /\ Verify(p, users[u])
  /\ Accept(t, "write", [Idle EXCEPT !.id = u, !.gives = p, !.takes = q])
  /\ UNCHANGED <<tables, starts, history>>

WritePassword(t) ==
  LET u == job[t].id IN
  /\ pc[t] = "write" /\ u \in Present
  /\ users' = [users EXCEPT ![u].password = job[t].takes, ![u].algo = "argon2id"]
  /\ crossed' = (crossed \ {t}) \cup
       {s \in Task \ {t} : pc[s] = "write" /\ job[s].id = u /\ users[u].password # job[t].takes}
  /\ End(t)
  /\ UNCHANGED <<settings, starts, gone, rewritten, torn>>

-----------------------------------------------------------------------------
(***************************************************************************)
(* Settings: is the address somebody else's, the row, then privacy_settings*)
(* in a statement of its own.                                              *)
(***************************************************************************)
UpdateAccount(t, u, c, level) ==
  /\ u \in Present
  /\ IndexFree(u, BlindIndex(c))
  /\ Accept(t, "update", [Idle EXCEPT !.id = u, !.contact = c, !.level = level])
  /\ torn' = IF Updating(u) = {} THEN torn ELSE torn \cup {u}
  /\ UNCHANGED <<tables, starts, gone, crossed, rewritten>>

(* Mistake: the address is sealed, and its index stays as it was. *)
UpdateRowOnly(t) ==
  LET u == job[t].id  c == job[t].contact IN
  /\ pc[t] = "update" /\ u \in Present /\ IndexFree(u, BlindIndex(c))
  /\ users' = [users EXCEPT ![u].contact = IF c = None THEN None ELSE Sealed(u, c),
                            ![u].level = job[t].level]
  /\ rewritten' = [r \in Replica |-> rewritten[r] \cup {u}]
  /\ Goto(t, "settings")
  /\ UNCHANGED <<settings, starts, job, gone, crossed, torn>>

UpdateRow(t) ==
  LET u == job[t].id  c == job[t].contact IN
  /\ pc[t] = "update" /\ u \in Present /\ IndexFree(u, BlindIndex(c))
  /\ users' = [users EXCEPT ![u].contact = IF c = None THEN None ELSE Sealed(u, c),
                            ![u].index = BlindIndex(c), ![u].level = job[t].level]
  /\ rewritten' = [r \in Replica |-> rewritten[r] \cup {u}]
  /\ Goto(t, "settings")
  /\ UNCHANGED <<settings, starts, job, gone, crossed, torn>>

(* Mistake: the level of the old row is written again. *)
UpdateSettingsFromRow(t) ==
  LET u == job[t].id IN
  /\ pc[t] = "settings"
  /\ settings' = IF settings[u] = None THEN settings ELSE [settings EXCEPT ![u] = Everyone]
  /\ End(t)
  /\ UNCHANGED <<users, starts, history>>

UpdateSettings(t) ==
  LET u == job[t].id IN
  /\ pc[t] = "settings"
  /\ settings' = IF settings[u] = None THEN settings
                 ELSE [settings EXCEPT ![u] = job[t].level]
  /\ End(t)
  /\ UNCHANGED <<users, starts, history>>

-----------------------------------------------------------------------------
(***************************************************************************)
(* Leaving: the password is verified, the files go, then the rows at once. *)
(***************************************************************************)
Leave(t, u, p) ==
  /\ u \in Present /\ Verify(p, users[u])
  /\ Accept(t, "delete", [Idle EXCEPT !.id = u, !.gives = p])
  /\ UNCHANGED <<tables, starts, history>>

DeleteAccount(t) ==
  LET u == job[t].id IN
  /\ pc[t] = "delete" /\ u \in Present
  /\ users' = [users EXCEPT ![u] = None]
  /\ settings' = [settings EXCEPT ![u] = None]
  /\ gone' = gone \cup {u}
  /\ End(t)
  /\ UNCHANGED <<starts, crossed, rewritten, torn>>

(* A statement that finds no row or a taken name fails, and any request    *)
(* may be cut off.                                                         *)
Drop(t) ==
  /\ pc[t] \notin {"new", "ended"}
  /\ torn' = IF pc[t] = "settings" THEN torn \cup {job[t].id} ELSE torn
  /\ crossed' = crossed \ {t}
  /\ End(t)
  /\ UNCHANGED <<tables, starts, gone, rewritten>>

Replicas(r) ==
  ReadAll(r) \/ Serve(r) \/ \E u \in Account : SealUser(r, u) \/ FailToSeal(r, u)

Next ==
  \/ \E r \in Replica : Replicas(r) \/ Stop(r)
  \/ \E t \in Task :
       \/ \E l \in Login, p \in Password : Register(t, l, p)
       \/ \E u \in Account :
            \/ Insert(t, u)
            \/ \E p \in Password : LogIn(t, u, p) \/ Leave(t, u, p)
            \/ \E p, q \in Password : ChangePassword(t, u, p, q)
            \/ \E c \in Contact \cup {None}, level \in Level : UpdateAccount(t, u, c, level)
       \/ WritePassword(t) \/ UpdateRow(t) \/ UpdateSettings(t)
       \/ DeleteAccount(t) \/ Drop(t)

(* The runtime goes on with a start, and the restart policy begins another.*)
Fairness == \A r \in Replica : WF_vars(Replicas(r))

Spec == Init /\ [][Next]_vars /\ Fairness

-----------------------------------------------------------------------------
TypeOK ==
  /\ users \in [Account -> Row \cup {None}]
  /\ settings \in [Account -> Level \cup {None}]
  /\ \A u \in Account : settings[u] = None <=> users[u] = None
  /\ boot \in [Replica -> {"down", "sealing", "serving"}]
  /\ read \in [Replica -> [Account -> Row \cup {None}]]
  /\ left \in [Replica -> SUBSET Account]
  /\ stops \in 0 .. MaxStops
  /\ pc \in [Task -> {"new", "insert", "write", "update", "settings", "delete", "ended"}]
  /\ \A t \in Task : pc[t] \notin {"new", "insert", "ended"} => job[t].id \in Account
  /\ gone \subseteq {u \in Account : users[u] = None}
  /\ crossed \subseteq Task /\ torn \subseteq Account
  /\ rewritten \in [Replica -> SUBSET Account]

(***************************************************************************)
(* Who replaces a password gave the one that is replaced: the user who     *)
(* changes it, and the login that renews an old hash, which must not bring *)
(* a password back; unless the password was changed by another request     *)
(* between the reading of the row and the writing of it.                   *)
(***************************************************************************)
ReplacesWhatItKnew ==
  [][ \A u \in Account, t \in Task :
        /\ pc[t] = "write" /\ pc'[t] = "ended" /\ job[t].id = u /\ t \notin crossed
        /\ u \in Present /\ users'[u] # users[u]
        => users[u].password = job[t].gives ]_vars

(***************************************************************************)
(* An address can be opened and found: what is stored opens under the id   *)
(* of its row, its index is that of what it opens to, whoever wrote which  *)
(* of them last, and once a replica serves nothing is in plain text.       *)
(***************************************************************************)
AddressesOpen ==
  \A u \in Present : LET field == users[u].contact IN
    IF field = None THEN users[u].index = None
    ELSE /\ Opens(u, field)
         /\ users[u].index = (IF field.for = None THEN None ELSE BlindIndex(field.text))
         /\ Served => field.for = u

(***************************************************************************)
(* A start never changes what an address says; only one that read the row  *)
(* before the user changed the address brings the old one back.            *)
(***************************************************************************)
Text(row) == IF row.contact = None THEN None ELSE row.contact.text

SealingKeepsText ==
  [][ \A r \in Replica : boot[r] = "sealing" /\ left'[r] # left[r] =>
        \A u \in Present : u \in rewritten[r] \/ Text(users'[u]) = Text(users[u]) ]_vars

(***************************************************************************)
(* The privacy level is in two tables, which agree for every account that  *)
(* no update is working on, unless two updates of it met or one was cut off*)
(* between the two.                                                        *)
(***************************************************************************)
SettingsAgree ==
  \A u \in Present : \/ settings[u] = users[u].level
                     \/ u \in torn \/ \E t \in Updating(u) : pc[t] = "settings"

(***************************************************************************)
(* Two accounts of an older release have one address, written in two ways  *)
(* perhaps.                                                                *)
(***************************************************************************)
Clash ==
  \E u, w \in Present : /\ u # w /\ Text(users[u]) # None /\ Text(users[w]) # None
                        /\ Normal[Text(users[u])] = Normal[Text(users[w])]

(***************************************************************************)
(* A start that is not cut off fails for one of three reasons: the row it  *)
(* has come to went, its user changed the address since the start read it, *)
(* or two accounts clash.  So every failure but that of a clash uses up a  *)
(* deletion or an update, and the next start is nearer to serving.         *)
(***************************************************************************)
SealingFailsForCause ==
  [][ \A r \in Replica : boot[r] = "sealing" /\ boot'[r] = "down" /\ stops' = stops =>
        Clash \/ \E u \in left[r] : u \in gone \cup rewritten[r] ]_vars

(***************************************************************************)
(* Every start comes to serve, however often one is cut off or runs into a *)
(* row that goes; only accounts that clash keep all of them from it.       *)
(***************************************************************************)
StartsSeal == <>[](Clash \/ \A r \in Replica : boot[r] = "serving")
=============================================================================
