------------------------------ MODULE Support ------------------------------
(***************************************************************************)
(* The support desk and the limits of an account (src/modules/desk):       *)
(* tickets, replies, closing and deleting them; support bans, which a new  *)
(* ticket looks for in a profile that may come from a cache; and the two   *)
(* limits that administrators set, on posting and on messages, which       *)
(* src/modules/wall and src/modules/messenger look for in the row.  No     *)
(* statement that writes has a condition on what was read before.          *)
(***************************************************************************)
EXTENDS Naturals, FiniteSets

CONSTANTS
  Person,
  Agent,     \* those whose role is agent or admin
  Subject,   \* bound: those whose rights are set
  Ticket,    \* bound: ids of tickets, each given once
  Client,    \* requests, each of which is sent once
  Nobody

ASSUME SupportAssumption ==
  /\ Agent \subseteq Person /\ Subject \subseteq Person
  /\ Nobody \notin Person \cup Ticket \cup [author : Person, open : BOOLEAN]

(* What a person may be kept from: opening tickets (users.support_banned), *)
(* posting (posting_allowed), sending messages (messaging_allowed).        *)
Deed == {"ticket", "post", "message"}

VARIABLES
  allowed,   \* allowed[u]: the deeds the row of u allows
  copies,    \* copies[u]: whether tickets are allowed, as caches have it
  tickets,   \* tickets[k]: author and status, or Nobody
  used,      \* ids of tickets that were given
  replies,   \* stored replies: the ticket, the request, and whether it was closed by then
  step, work,  \* the next statement of a request, and what it was given
  overtaken  \* history: requests that read what was changed since

supportVars == <<allowed, copies, tickets, used, replies, step, work, overtaken>>
rights == <<allowed, copies>>
desk == <<tickets, used, replies>>

NoWork == [by |-> Nobody, deed |-> "none", ticket |-> Nobody]

SupportInit ==
  /\ allowed \in [Person -> {Deed, {}}]
  /\ copies = [u \in Person |-> {}]
  /\ tickets \in [Ticket -> [author : Person, open : BOOLEAN] \cup {Nobody}]
  /\ used = {k \in Ticket : tickets[k] # Nobody}
  /\ replies = {}
  /\ step = [q \in Client |-> "new"] /\ work = [q \in Client |-> NoWork]
  /\ overtaken = {}

Proceed(q, label, what) ==
  step' = [step EXCEPT ![q] = label] /\ work' = [work EXCEPT ![q] = what]
Finish(q, label) == Proceed(q, label, work[q])

-----------------------------------------------------------------------------
(* Mistake: whether posts are allowed is looked for before a message.      *)
MayLookAtPosting(u, deed) ==
  IF deed = "ticket" THEN {("ticket" \in allowed[u])} \cup copies[u]
  ELSE {(u \in Agent) \/ ("post" \in allowed[u])}

(* What a request may find of u.  Agents have no limits, but can be banned *)
(* from support.                                                           *)
May(u, deed) ==
  IF deed = "ticket" THEN {("ticket" \in allowed[u])} \cup copies[u]
  ELSE {(u \in Agent) \/ (deed \in allowed[u])}

Ask(q, u, deed) ==
  /\ step[q] = "new"
  /\ \E found \in May(u, deed) :
       /\ Proceed(q, IF found THEN "insert" ELSE "refused",
                  [NoWork EXCEPT !.by = u, !.deed = deed])
       /\ copies' = IF deed = "ticket" THEN [copies EXCEPT ![u] = @ \cup {found}] ELSE copies
       /\ overtaken' = IF deed = "ticket" /\ found # ("ticket" \in allowed[u])
                       THEN overtaken \cup {q} ELSE overtaken
  /\ UNCHANGED <<allowed, desk>>

InsertTicket(q, k) ==
  /\ step[q] = "insert" /\ work[q].deed = "ticket"
  /\ k \notin used
  /\ used' = used \cup {k}
  /\ tickets' = [tickets EXCEPT ![k] = [author |-> work[q].by, open |-> TRUE]]
  /\ Finish(q, "done")
  /\ UNCHANGED <<rights, replies, overtaken>>

InsertOther(q) ==
  /\ step[q] = "insert" /\ work[q].deed # "ticket"
  /\ Finish(q, "done")
  /\ UNCHANGED <<rights, desk, overtaken>>

-----------------------------------------------------------------------------
Answerable(u, k) == tickets[k] # Nobody /\ (tickets[k].author = u \/ u \in Agent)

(* Mistake: a reply does not look whether the ticket is open.              *)
ReadTicketOfAnyStatus(q, u, k, deed) ==
  /\ step[q] = "new"
  /\ Answerable(u, k)
  /\ Proceed(q, deed, [NoWork EXCEPT !.by = u, !.ticket = k])
  /\ UNCHANGED <<rights, desk, overtaken>>

(* The author or an agent replies to an open ticket, or closes a ticket.   *)
ReadTicket(q, u, k, deed) ==
  /\ step[q] = "new"
  /\ Answerable(u, k) /\ (deed = "reply" => tickets[k].open)
  /\ Proceed(q, deed, [NoWork EXCEPT !.by = u, !.ticket = k])
  /\ UNCHANGED <<rights, desk, overtaken>>

AddReply(q) ==
  LET k == work[q].ticket IN
  /\ step[q] = "reply" /\ tickets[k] # Nobody
  /\ replies' = replies \cup {[ticket |-> k, by |-> q, late |-> ~tickets[k].open]}
  /\ Finish(q, "done")
  /\ UNCHANGED <<rights, tickets, used, overtaken>>

Answering(k) == {q \in Client : step[q] = "reply" /\ work[q].ticket = k}

CloseTicket(q) ==
  LET k == work[q].ticket IN
  /\ step[q] = "close" /\ tickets[k] # Nobody
  /\ tickets' = [tickets EXCEPT ![k].open = FALSE]
  /\ overtaken' = overtaken \cup Answering(k)
  /\ Finish(q, "done")
  /\ UNCHANGED <<rights, used, replies>>

(* The replies go with it. *)
DeleteTicket(k) ==
  /\ tickets[k] # Nobody
  /\ tickets' = [tickets EXCEPT ![k] = Nobody]
  /\ replies' = {p \in replies : p.ticket # k}
  /\ UNCHANGED <<rights, used, step, work, overtaken>>

(* A reply to a ticket that went fails on its foreign key; any request may *)
(* be cut off.                                                             *)
CutOff(q) ==
  /\ step[q] \in {"insert", "reply", "close"}
  /\ Finish(q, "cut")
  /\ UNCHANGED <<rights, desk, overtaken>>

-----------------------------------------------------------------------------
Asking(u, deeds) ==
  {q \in Client : step[q] = "insert" /\ work[q].by = u /\ work[q].deed \in deeds}

(* support_ban, support_unban and set_limits write their columns; then the *)
(* profile is reloaded, which clears the caches of one replica and Redis.  *)
SetRights(u, deeds) ==
  /\ allowed' = [allowed EXCEPT ![u] = deeds]
  /\ overtaken' = overtaken \cup Asking(u, allowed[u] \ deeds)
  /\ \E some \in SUBSET copies[u] : copies' = [copies EXCEPT ![u] = some]
  /\ UNCHANGED <<desk, step, work>>

SupportBan(u) == SetRights(u, allowed[u] \ {"ticket"})
SupportUnban(u) == SetRights(u, allowed[u] \cup {"ticket"})
SetLimits(u, deeds) == SetRights(u, (allowed[u] \cap {"ticket"}) \cup deeds)

(* Any request that looks u up may put what it reads into the caches.      *)
LookUp(u) ==
  /\ copies' = [copies EXCEPT ![u] = @ \cup {("ticket" \in allowed[u])}]
  /\ UNCHANGED <<allowed, desk, step, work, overtaken>>

Expire(u) ==
  /\ copies' = [copies EXCEPT ![u] = {}]
  /\ UNCHANGED <<allowed, desk, step, work, overtaken>>

SupportNext ==
  \/ \E q \in Client :
       \/ \E u \in Person :
            \/ \E deed \in Deed : Ask(q, u, deed)
            \/ \E k \in Ticket, deed \in {"reply", "close"} : ReadTicket(q, u, k, deed)
       \/ \E k \in Ticket : InsertTicket(q, k)
       \/ InsertOther(q) \/ AddReply(q) \/ CloseTicket(q) \/ CutOff(q)
  \/ \E k \in Ticket : DeleteTicket(k)
  \/ \E u \in Subject :
       \/ SupportBan(u) \/ SupportUnban(u) \/ LookUp(u) \/ Expire(u)
       \/ \E deeds \in SUBSET {"post", "message"} : SetLimits(u, deeds)

SupportSpec == SupportInit /\ [][SupportNext]_supportVars

-----------------------------------------------------------------------------
SupportTypeOK ==
  /\ allowed \in [Person -> SUBSET Deed]
  /\ copies \in [Person -> SUBSET BOOLEAN]
  /\ tickets \in [Ticket -> [author : Person, open : BOOLEAN] \cup {Nobody}]
  /\ used \subseteq Ticket /\ \A k \in Ticket \ used : tickets[k] = Nobody
  /\ replies \subseteq [ticket : Ticket, by : Client, late : BOOLEAN]
  /\ step \in [Client -> {"new", "insert", "refused", "reply", "close", "done", "cut"}]
  /\ overtaken \subseteq Client

(***************************************************************************)
(* A reply is added to a closed ticket only by a request that read it      *)
(* before it was closed: once those have ended, a closed ticket is as it   *)
(* was read, and no reply is left of a ticket that was deleted.            *)
(***************************************************************************)
LateRepliesReadItOpen ==
  \A p \in replies : tickets[p.ticket] # Nobody /\ (p.late => p.by \in overtaken)

(***************************************************************************)
(* What an administrator has taken from a person is done by that person no *)
(* more: a ticket, a post or a message is only stored if the right to it   *)
(* is there, or was when the request looked, or (a ticket) was in a copy   *)
(* some cache still held; agents are above the limits.                     *)
(***************************************************************************)
RefusalsHold ==
  [][ \A q \in Client :
        step[q] = "insert" /\ step'[q] = "done" =>
          \/ work[q].deed \in allowed[work[q].by] \/ q \in overtaken
          \/ work[q].deed # "ticket" /\ work[q].by \in Agent ]_supportVars
=============================================================================
