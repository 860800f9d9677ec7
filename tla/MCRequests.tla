----------------------------- MODULE MCRequests -----------------------------
(***************************************************************************)
(* Five small modules that share no variable, checked in one run of TLC:  *)
(* the initial state says which of them takes steps.                       *)
(***************************************************************************)
EXTENDS Session, Gate, Support, Inspect, Pages, TLC

CONSTANTS t1, t2, c1, c2, own, author, other, club

VARIABLE part

(* The parts that stand still do so in one of their initial states.        *)
NoUpload == [kind |-> "audio", name |-> "ogg", mime |-> "audio/ogg",
             type |-> "ogg", body |-> [sound |-> TRUE]]

(* Two posts on the viewer's wall, one on a group's, and one of the        *)
(* viewer's on another wall: three of them are the first of their wall.    *)
MCDrafts == <<[on |-> own, by |-> author], [on |-> club, by |-> other],
              [on |-> author, by |-> own], [on |-> own, by |-> other]>>

PartsInit ==
  /\ part \in {"session", "gate", "support", "upload", "pages"}
  /\ part = "support" \/ (used = {} /\ allowed = [u \in Person |-> {}])
  /\ part = "upload" \/ upload = NoUpload
  /\ part = "pages" \/ (list = Likers /\ items = {} /\ hearts = {})
  /\ SessionInit /\ GateInit /\ SupportInit /\ InspectInit /\ PagesInit

PartsNext ==
  /\ UNCHANGED part
  /\ \/ part = "session" /\ SessionNext /\ UNCHANGED <<gateVars, supportVars, inspectVars, pagesVars>>
     \/ part = "gate" /\ GateNext /\ UNCHANGED <<sessionVars, supportVars, inspectVars, pagesVars>>
     \/ part = "support" /\ SupportNext /\ UNCHANGED <<sessionVars, gateVars, inspectVars, pagesVars>>
     \/ part = "upload" /\ InspectNext /\ UNCHANGED <<sessionVars, gateVars, supportVars, pagesVars>>
     \/ part = "pages" /\ PagesNext /\ UNCHANGED <<sessionVars, gateVars, supportVars, inspectVars>>

PartsSpec == PartsInit /\ [][PartsNext]_<<sessionVars, gateVars, supportVars, inspectVars, pagesVars, part>>

Alike == Permutations({t1, t2}) \cup Permutations({c1, c2})
=============================================================================
