----------------------------- MODULE ClientProofs -----------------------------
(***************************************************************************)
(* Proofs about what a client of the API holds: its session, AccessSession, *)
(* for any users, tokens and requests; and the answer it reads,             *)
(* ResponseStream, for any replies, cut into deltas anywhere.               *)
(***************************************************************************)
EXTENDS ClientInvariants, FiniteSetTheorems, WellFoundedInduction, TLAPS

-----------------------------------------------------------------------------
(* Type correctness *)

LEMMA TypedInit == Init => Typed
BY DEF Init, Typed, TypeOK, Prepared, Identified, NoSession, SessionRow, NoConversation, ConversationRow, Idle,
       Replacing

LEMMA IdleType == Idle \in RequestRow /\ Idle.pc = "idle" /\ Idle.parent = None
BY DEF Idle, RequestRow

(* A request that ends leaves nothing behind.                              *)
LEMMA DoneType ==
    ASSUME Typed, NEW q \in Requests, Done(q)
    PROVE  request' \in [Requests -> RequestRow] /\ Prepared'
BY IdleType DEF Typed, TypeOK, Prepared, Done, RequestRow, Replacing

(* A step of a request that leaves it prepared.                            *)
LEMMA RequestType ==
    ASSUME Typed, NEW q \in Requests, NEW r \in RequestRow,
           request' = [request EXCEPT ![q] = r],
           r.pc \in Replacing => r.user \in Users,
           r.pc = "switching" => r.tenant \in Tenants,
           r.pc \in {"resolved", "answering"} => r.session \in Sessions,
           r.pc = "answering" => r.conversation \in Conversations
    PROVE  request' \in [Requests -> RequestRow] /\ Prepared'
BY DEF Typed, TypeOK, Prepared, RequestRow

LEMMA RightsType ==
    ASSUME NEW m, NEW u, NEW t PROVE Rights(m, u, t) \in {"none", "member", "public"}
BY DEF Rights

(* What replaces a session: a new row, and the end of the old one.         *)
LEMMA SupersedeType ==
    ASSUME Typed, NEW parent \in Sessions \cup {None}, NEW u \in Users,
           NEW t \in Tenants \cup {None}, NEW rights \in {"none", "member", "public"},
           Supersede(parent, Issue([NoSession EXCEPT !.user = u, !.tenant = t], rights))
    PROVE  session' \in [Sessions -> SessionRow] /\ Identified'
<1> DEFINE row == Issue([NoSession EXCEPT !.user = u, !.tenant = t], rights)
           new == [row EXCEPT !.status = "active", !.kind = "user", !.parent = parent]
           old(x) == [session[x] EXCEPT !.status = "superseded"]
<1>1. new \in SessionRow /\ new.kind = "user" /\ new.user = u
  BY DEF Issue, NoSession, SessionRow
<1>2. ASSUME NEW x \in Sessions
      PROVE  old(x) \in SessionRow /\ old(x).kind = session[x].kind /\ old(x).user = session[x].user
  <2>1. session[x] \in SessionRow
    BY DEF Typed, TypeOK
  <2> QED BY <2>1 DEF SessionRow
<1>3. PICK s \in Sessions :
        session' = [x \in Sessions |->
           CASE x = s      -> new
             [] x = parent -> old(x)
             [] OTHER      -> session[x]]
  BY DEF Supersede
<1> HIDE DEF new, old
<1> QED BY <1>1, <1>2, <1>3 DEF Typed, TypeOK, Identified

LEMMA TypedNext == Typed /\ [Next]_vars => Typed'
<1> SUFFICES ASSUME Typed, [Next]_vars PROVE Typed'
  OBVIOUS
<1>0. /\ user \in [Users -> Account] /\ member \in [Users -> [Tenants -> Membership]]
      /\ session \in [Sessions -> SessionRow] /\ conversation \in [Conversations -> ConversationRow]
      /\ request \in [Requests -> RequestRow] /\ Prepared /\ Identified
  BY DEF Typed, TypeOK, Account, Membership, RequestRow
<1> DEFINE Goal == /\ user' \in [Users -> Account] /\ member' \in [Users -> [Tenants -> Membership]]
                   /\ session' \in [Sessions -> SessionRow]
                   /\ conversation' \in [Conversations -> ConversationRow]
                   /\ request' \in [Requests -> RequestRow] /\ Prepared' /\ Identified'
<1> SUFFICES Goal
  BY DEF Typed, TypeOK, Account, Membership, RequestRow
<1>1. ASSUME NEW q \in Requests, CreateGuest(q) PROVE Goal
  <2> DEFINE row == Issue(GuestRow(Public), "public")
  <2>1. row \in SessionRow /\ row.kind = "guest" /\ row.user = None
    BY AccessSessionAssumption DEF Issue, GuestRow, NoSession, SessionRow
  <2>2. PICK s \in Sessions : session' = [session EXCEPT ![s] = row]
    BY <1>1 DEF CreateGuest
  <2> HIDE DEF row
  <2>3. session' \in [Sessions -> SessionRow] /\ Identified'
    BY <1>0, <2>1, <2>2 DEF Identified
  <2> QED BY <1>0, <1>1, <2>3 DEF CreateGuest, Prepared
<1>2. ASSUME NEW q \in Requests, NEW pc \in {"registering", "signing", "verified"}, NEW u \in Users,
             SignInBegins(q, pc, u)
      PROVE  Goal
  <2>1. PICK parent \in Sessions \cup {None} :
          request' = [request EXCEPT ![q] = [Idle EXCEPT !.pc = pc, !.user = u, !.parent = parent]]
    BY <1>2 DEF SignInBegins
  <2> DEFINE r == [Idle EXCEPT !.pc = pc, !.user = u, !.parent = parent]
  <2>2. r \in RequestRow /\ r.pc \in {"registering", "signing", "verified"} /\ r.user \in Users
    BY DEF Idle, RequestRow
  <2>3. request' = [request EXCEPT ![q] = r]
    BY <2>1
  <2> HIDE DEF r
  <2>4. request' \in [Requests -> RequestRow] /\ Prepared'
    BY <2>2, <2>3, RequestType
  <2> QED BY <1>0, <1>2, <2>4 DEF SignInBegins, Identified
<1>3. ASSUME NEW q \in Requests, CreateAccount(q) \/ CreateSession(q) \/ CompleteVerified(q)
      PROVE  Goal
  BY <1>2, <1>3 DEF CreateAccount, CreateSession, CompleteVerified
<1>4. ASSUME NEW q \in Requests, IssueUserSession(q) PROVE Goal
  <2> DEFINE r == request[q]
  <2>1. r.user \in Users /\ r.parent \in Sessions \cup {None}
    BY <1>0, <1>4 DEF IssueUserSession, Prepared, Replacing, RequestRow
  <2>2. user' \in [Users -> Account]
    <3>1. user' = CreateUser(r.user)
      BY <1>4 DEF IssueUserSession
    <3> QED BY <1>0, <3>1 DEF CreateUser, Account
  <2>3. member' \in [Users -> [Tenants -> Membership]]
    <3>1. member' = WithHome(r.user)
      BY <1>4 DEF IssueUserSession
    <3> QED BY <1>0, <2>1, <3>1, AccessSessionAssumption DEF WithHome, Membership
  <2>4. session' \in [Sessions -> SessionRow] /\ Identified'
    <3>1. PICK t \in IF r.parent # None THEN {session[r.parent].tenant}
                     ELSE DefaultTenants(WithHome(r.user), r.user) :
            Supersede(r.parent, Issue([NoSession EXCEPT !.user = r.user, !.tenant = t],
                                      Rights(WithHome(r.user), r.user, t)))
      BY <1>4 DEF IssueUserSession
    <3>2. t \in Tenants \cup {None}
      <4>1. CASE r.parent # None
        BY <1>0, <2>1, <3>1, <4>1 DEF SessionRow
      <4>2. CASE r.parent = None
        BY <2>1, <3>1, <4>2, AccessSessionAssumption DEF DefaultTenants
      <4> QED BY <4>1, <4>2
    <3> HIDE DEF r
    <3> QED BY <2>1, <3>1, <3>2, RightsType, SupersedeType
  <2>5. conversation' \in [Conversations -> ConversationRow]
    <3>1. \A c \in Conversations : [conversation[c] EXCEPT !.owner = r.user] \in ConversationRow
      BY <1>0, <2>1 DEF ConversationRow
    <3>2. conversation' = Adopt(r.parent, r.user)
      BY <1>4 DEF IssueUserSession
    <3> HIDE DEF r
    <3> QED BY <1>0, <3>1, <3>2 DEF Adopt
  <2>6. request' \in [Requests -> RequestRow] /\ Prepared'
    BY <1>4, DoneType DEF IssueUserSession
  <2> QED BY <2>2, <2>3, <2>4, <2>5, <2>6
<1>5. ASSUME NEW q \in Requests, SwitchBegins(q) PROVE Goal
  <2>1. PICK parent \in Sessions, t \in Tenants :
          /\ session[parent].kind = "user"
          /\ request' = [request EXCEPT ![q] = [Idle EXCEPT
               !.pc = "switching", !.parent = parent, !.user = session[parent].user, !.tenant = t]]
    BY <1>5 DEF SwitchBegins
  <2> DEFINE r == [Idle EXCEPT
               !.pc = "switching", !.parent = parent, !.user = session[parent].user, !.tenant = t]
  <2>2. session[parent].user \in Users
    BY <1>0, <2>1 DEF Identified
  <2>3. r \in RequestRow /\ r.pc = "switching" /\ r.user \in Users /\ r.tenant \in Tenants
    BY <2>2 DEF Idle, RequestRow
  <2>4. request' = [request EXCEPT ![q] = r]
    BY <2>1
  <2> HIDE DEF r
  <2>5. request' \in [Requests -> RequestRow] /\ Prepared'
    BY <2>3, <2>4, RequestType
  <2> QED BY <1>0, <1>5, <2>5 DEF SwitchBegins, Identified
<1>6. ASSUME NEW q \in Requests, SwitchEnds(q) PROVE Goal
  <2> DEFINE r == request[q]
  <2>1. r.user \in Users /\ r.tenant \in Tenants /\ r.parent \in Sessions \cup {None}
    BY <1>0, <1>6 DEF SwitchEnds, Prepared, Replacing, RequestRow
  <2>2. Supersede(r.parent, Issue([NoSession EXCEPT !.user = r.user, !.tenant = r.tenant],
                                  Rights(member, r.user, r.tenant)))
    BY <1>6 DEF SwitchEnds
  <2>3. session' \in [Sessions -> SessionRow] /\ Identified'
    <3> HIDE DEF r
    <3> QED BY <2>1, <2>2, RightsType, SupersedeType
  <2>4. request' \in [Requests -> RequestRow] /\ Prepared'
    BY <1>6, DoneType DEF SwitchEnds
  <2> QED BY <1>0, <1>6, <2>3, <2>4 DEF SwitchEnds
<1>7. ASSUME NEW q \in Requests, Logout(q) PROVE Goal
  <2>1. PICK s \in Sessions : session' = [session EXCEPT ![s].status = "revoked"]
    BY <1>7 DEF Logout
  <2>2. [session[s] EXCEPT !.status = "revoked"] \in SessionRow
    BY <1>0 DEF SessionRow
  <2>3. session' \in [Sessions -> SessionRow] /\ Identified'
    BY <1>0, <2>1, <2>2 DEF Identified, SessionRow
  <2> QED BY <1>0, <1>7, <2>3 DEF Logout, Prepared
<1>8. ASSUME NEW q \in Requests, Authenticate(q) PROVE Goal
  <2>1. PICK s \in Sessions :
          request' = [request EXCEPT ![q].pc = "resolved", ![q].session = s]
    BY <1>8 DEF Authenticate
  <2> DEFINE r == [request[q] EXCEPT !.pc = "resolved", !.session = s]
  <2>2. r \in RequestRow /\ r.pc = "resolved" /\ r.session = s
    BY <1>0 DEF RequestRow
  <2>3. request' = [request EXCEPT ![q] = r]
    BY <1>0, <2>1
  <2> HIDE DEF r
  <2>4. request' \in [Requests -> RequestRow] /\ Prepared'
    BY <2>2, <2>3, RequestType DEF Replacing
  <2> QED BY <1>0, <1>8, <2>4 DEF Authenticate, Identified
<1>9. ASSUME NEW q \in Requests, StartTurn(q) PROVE Goal
  <2> DEFINE s == request[q].session
  <2>1. s \in Sessions
    BY <1>0, <1>9 DEF StartTurn, Prepared
  <2>2. PICK c \in Conversations :
          LET row == IF conversation[c] # NoConversation THEN conversation[c]
                     ELSE [tenant |-> session[s].tenant, owner |-> session[s].user,
                           creator |-> s, wrote |-> {}]
          IN  /\ conversation' = [conversation EXCEPT ![c] = [row EXCEPT !.wrote = @ \cup {s}]]
              /\ request' = [request EXCEPT ![q].pc = "answering", ![q].conversation = c]
    BY <1>9 DEF StartTurn
  <2> DEFINE row == IF conversation[c] # NoConversation THEN conversation[c]
                    ELSE [tenant |-> session[s].tenant, owner |-> session[s].user,
                          creator |-> s, wrote |-> {}]
             r == [request[q] EXCEPT !.pc = "answering", !.conversation = c]
  <2>3. row \in ConversationRow
    BY <1>0, <2>1 DEF ConversationRow, SessionRow
  <2>4. [row EXCEPT !.wrote = @ \cup {s}] \in ConversationRow
    <3> HIDE DEF row, s
    <3> QED BY <2>1, <2>3 DEF ConversationRow
  <2>5. conversation' \in [Conversations -> ConversationRow]
    BY <1>0, <2>2, <2>4
  <2>6. r \in RequestRow /\ r.pc = "answering" /\ r.conversation = c /\ r.session = s
    BY <1>0 DEF RequestRow
  <2>7. request' = [request EXCEPT ![q] = r]
    BY <1>0, <2>2
  <2>8. request' \in [Requests -> RequestRow] /\ Prepared'
    <3> HIDE DEF r, s
    <3> QED BY <2>1, <2>6, <2>7, RequestType DEF Replacing
  <2> QED BY <1>0, <1>9, <2>5, <2>8 DEF StartTurn, Identified
<1>10. ASSUME NEW q \in Requests, FinishTurn(q) PROVE Goal
  <2> DEFINE r == request[q]
  <2>1. r.session \in Sessions /\ r.conversation \in Conversations
    BY <1>0, <1>10 DEF FinishTurn, Prepared
  <2>2. conversation' = [conversation EXCEPT ![r.conversation].wrote = @ \cup {r.session}]
    BY <1>10 DEF FinishTurn
  <2>3. conversation' \in [Conversations -> ConversationRow]
    <3> HIDE DEF r
    <3>1. conversation[r.conversation] \in ConversationRow
      BY <1>0, <2>1
    <3>2. [conversation[r.conversation] EXCEPT !.wrote = @ \cup {r.session}] \in ConversationRow
      BY <2>1, <3>1 DEF ConversationRow
    <3> QED BY <1>0, <2>1, <2>2, <3>2
  <2>4. request' \in [Requests -> RequestRow] /\ Prepared'
    BY <1>10, DoneType DEF FinishTurn
  <2> QED BY <1>0, <1>10, <2>3, <2>4 DEF FinishTurn, Identified
<1>11. ASSUME NEW q \in Requests, Refuse(q) PROVE Goal
  <2>1. request' \in [Requests -> RequestRow] /\ Prepared'
    BY <1>11, DoneType DEF Refuse
  <2> QED BY <1>0, <1>11, <2>1 DEF Refuse, Identified
<1>12. ASSUME NEW s \in Sessions, Expire(s) PROVE Goal
  <2>1. [session[s] EXCEPT !.late = TRUE] \in SessionRow
    BY <1>0 DEF SessionRow
  <2>2. session' \in [Sessions -> SessionRow] /\ Identified'
    BY <1>0, <1>12, <2>1 DEF Expire, Identified, SessionRow
  <2> QED BY <1>0, <1>12, <2>2 DEF Expire, Prepared
<1>13. ASSUME NEW u \in Users, SetUserStatus(u) PROVE Goal
  BY <1>0, <1>13 DEF SetUserStatus, Account, Identified, Prepared
<1>14. ASSUME NEW u \in Users, SetMembership(u) PROVE Goal
  BY <1>0, <1>14, AccessSessionAssumption DEF SetMembership, Membership, Identified, Prepared
<1>15. CASE UNCHANGED vars
  BY <1>0, <1>15 DEF vars, Identified, Prepared
<1> QED
  BY <1>1, <1>3, <1>4, <1>5, <1>6, <1>7, <1>8, <1>9, <1>10, <1>11, <1>12, <1>13, <1>14, <1>15
  DEF Next

(* The records of users, members, sessions, conversations and requests     *)
(* keep their shape.                                                       *)
THEOREM TypeCorrect == Spec => []TypeOK
<1>1. Typed => TypeOK
  BY DEF Typed
<1> QED BY <1>1, TypedInit, TypedNext, PTL DEF Spec

-----------------------------------------------------------------------------
(* One successor *)

LEMMA SupersedeEffect ==
    ASSUME Typed, NEW parent \in Sessions \cup {None}, NEW u, NEW t, NEW rights,
           Supersede(parent, Issue([NoSession EXCEPT !.user = u, !.tenant = t], rights)),
           parent # None => session[parent].status = "active"
    PROVE  Successor(parent, u, t)
<1> DEFINE row == Issue([NoSession EXCEPT !.user = u, !.tenant = t], rights)
           new == [row EXCEPT !.status = "active", !.kind = "user", !.parent = parent]
           old(x) == [session[x] EXCEPT !.status = "superseded"]
<1>1. PICK s \in Sessions :
        /\ session[s] = NoSession
        /\ parent # None /\ session[parent].kind = "guest" => row.tenant = session[parent].tenant
        /\ session' = [x \in Sessions |->
             CASE x = s      -> new
               [] x = parent -> old(x)
               [] OTHER      -> session[x]]
  BY DEF Supersede, SessionAccepted
<1>2. new.status = "active" /\ new.kind = "user" /\ new.parent = parent
      /\ new.user = u /\ new.tenant = t /\ row.tenant = t
  BY DEF Issue, NoSession
<1>3. ASSUME NEW x \in Sessions
      PROVE  /\ old(x).status = "superseded" /\ old(x).parent = session[x].parent
             /\ old(x).kind = session[x].kind /\ old(x).user = session[x].user
             /\ old(x).tenant = session[x].tenant
  <2>1. session[x] \in SessionRow
    BY DEF Typed, TypeOK
  <2> QED BY <2>1 DEF SessionRow
<1>4. s # parent
  BY <1>1, AccessSessionAssumption DEF NoSession
<1> HIDE DEF new, old, row
<1>5. session'[s] = new
  BY <1>1, <1>4
<1>6. \A x \in Sessions \ {s} : session'[x] = IF x = parent THEN old(x) ELSE session[x]
  BY <1>1
<1> QED BY <1>1, <1>2, <1>3, <1>5, <1>6 DEF Successor

(* Replacing a locked row gives it its one successor.                      *)
LEMMA SupersedeKeeps ==
    ASSUME SuccessorInv, NEW q \in Requests, Done(q),
           NEW u, NEW t, NEW rights,
           Supersede(request[q].parent, Issue([NoSession EXCEPT !.user = u, !.tenant = t], rights))
    PROVE  Locked' /\ Succeeded'
<1> DEFINE parent == request[q].parent
<1>1. parent \in Sessions \cup {None} /\ (parent # None => session[parent].status = "active")
  BY DEF SuccessorInv, Typed, TypeOK, Locked
<1>2. /\ \A p \in Requests : request'[p].parent \in Sessions \cup {None}
      /\ request'[q].parent = None
      /\ \A p \in Requests \ {q} : request'[p] = request[p]
  BY IdleType DEF SuccessorInv, Typed, TypeOK, Done
<1>3. PICK s \in Sessions :
        /\ session[s] = NoSession
        /\ session'[s].status = "active" /\ session'[s].parent = parent
        /\ \A x \in Sessions \ {s} :
             /\ session'[x].status = IF x = parent THEN "superseded" ELSE session[x].status
             /\ session'[x].parent = session[x].parent
  <2>1. Typed
    BY DEF SuccessorInv
  <2> HIDE DEF parent
  <2>2. Supersede(parent, Issue([NoSession EXCEPT !.user = u, !.tenant = t], rights))
    BY DEF parent
  <2>3. Successor(parent, u, t)
    BY <1>1, <2>1, <2>2, SupersedeEffect
  <2> QED BY <2>3 DEF Successor
<1>4. session[s].status = "none" /\ session[s].parent = None
  BY <1>3 DEF NoSession
<1>5. \A x \in Sessions : session[x].parent \in Sessions \cup {None}
  BY DEF SuccessorInv, Typed, TypeOK, SessionRow
<1>6. None \notin Sessions
  BY AccessSessionAssumption
<1>7. Locked'
  <2> SUFFICES ASSUME NEW p \in Requests, request'[p].parent # None
               PROVE  /\ session'[request'[p].parent].status = "active"
                      /\ \A o \in Requests \ {p} : request'[o].parent # request'[p].parent
    BY DEF Locked
  <2>1. p # q /\ request'[p].parent = request[p].parent
    BY <1>2
  <2>2. session[request[p].parent].status = "active" /\ request[p].parent # parent
        /\ \A o \in Requests \ {p} : request[o].parent # request[p].parent
    BY <2>1 DEF SuccessorInv, Locked
  <2>3. request[p].parent \in Sessions \ {s}
    BY <1>2, <1>4, <2>1, <2>2
  <2> QED BY <1>2, <1>3, <2>1, <2>2, <2>3
<1>8. Succeeded'
  <2>1. \A x \in Sessions : session[x].parent # None =>
           /\ session[x].parent \in Sessions \ {s}
           /\ session[x].parent # parent
           /\ session'[session[x].parent].status = "superseded"
    BY <1>1, <1>3, <1>4, <1>5 DEF SuccessorInv, Succeeded
  <2>2. ASSUME NEW x \in Sessions, session'[x].parent # None
        PROVE  /\ session'[session'[x].parent].status = "superseded"
               /\ \A y \in Sessions : session'[y].parent = session'[x].parent => y = x
    <3>1. CASE x = s
      BY <1>1, <1>3, <1>4, <2>1, <2>2, <3>1
    <3>2. CASE x # s
      <4>1. session'[x].parent = session[x].parent
        BY <1>3, <3>2
      <4>2. session'[session'[x].parent].status = "superseded" /\ session'[x].parent # parent
        BY <2>1, <2>2, <4>1
      <4>3. ASSUME NEW y \in Sessions, session'[y].parent = session'[x].parent PROVE y = x
        <5>1. y # s
          BY <1>3, <4>2, <4>3
        <5>2. session[y].parent = session[x].parent
          BY <1>3, <4>1, <4>3, <5>1
        <5> QED BY <2>2, <4>1, <5>2 DEF SuccessorInv, Succeeded
      <4> QED BY <4>2, <4>3
    <3> QED BY <3>1, <3>2
  <2>3. ASSUME NEW x \in Sessions, session'[x].status = "superseded"
        PROVE  \E y \in Sessions : session'[y].parent = x
    <3>1. CASE x = parent
      BY <1>3, <3>1
    <3>2. CASE x # parent
      <4>1. x # s /\ session[x].status = "superseded"
        BY <1>3, <2>3, <3>2
      <4>2. PICK y \in Sessions : session[y].parent = x
        BY <4>1 DEF SuccessorInv, Succeeded
      <4>3. y # s
        BY <1>4, <1>6, <4>2
      <4> QED BY <1>3, <4>2, <4>3
    <3> QED BY <3>1, <3>2
  <2> QED BY <2>2, <2>3 DEF Succeeded
<1> QED BY <1>7, <1>8

(* A step that changes no row and takes no lock.                           *)
LEMMA NoLockTaken ==
    ASSUME SuccessorInv, session' = session,
           \A q \in Requests : request'[q].parent \in {request[q].parent, None}
    PROVE  Locked' /\ Succeeded'
BY DEF SuccessorInv, Locked, Succeeded

(* A step that locks an active row nobody has locked.                      *)
LEMMA LockTaken ==
    ASSUME SuccessorInv, session' = session, NEW q \in Requests, NEW r \in RequestRow,
           request' = [request EXCEPT ![q] = r],
           r.parent # None => Lock(q, r.parent)
    PROVE  Locked' /\ Succeeded'
<1>1. \A p \in Requests : request'[p] = IF p = q THEN r ELSE request[p]
  BY DEF SuccessorInv, Typed, TypeOK
<1>2. r.parent # None => /\ session[r.parent].status = "active"
                         /\ \A p \in Requests \ {q} : request[p].parent # r.parent
  BY DEF Lock, Active, Unlocked
<1>3. Locked'
  <2> SUFFICES ASSUME NEW p \in Requests, request'[p].parent # None
               PROVE  /\ session[request'[p].parent].status = "active"
                      /\ \A o \in Requests \ {p} : request'[o].parent # request'[p].parent
    BY DEF Locked
  <2>1. CASE p = q
    BY <1>1, <1>2, <2>1
  <2>2. CASE p # q
    BY <1>1, <1>2, <2>2 DEF SuccessorInv, Locked
  <2> QED BY <2>1, <2>2
<1> QED BY <1>3 DEF SuccessorInv, Succeeded

LEMMA SuccessorNext == SuccessorInv /\ [Next]_vars => SuccessorInv'
<1> SUFFICES ASSUME SuccessorInv, [Next]_vars PROVE Locked' /\ Succeeded'
  BY TypedNext DEF SuccessorInv
<1>0. /\ session \in [Sessions -> SessionRow] /\ request \in [Requests -> RequestRow]
      /\ None \notin Sessions /\ Locked /\ Succeeded
  BY AccessSessionAssumption DEF SuccessorInv, Typed, TypeOK, RequestRow
<1>1. ASSUME NEW q \in Requests, CreateGuest(q) PROVE Locked' /\ Succeeded'
  <2> DEFINE row == Issue(GuestRow(Public), "public")
  <2>1. row.status = "active" /\ row.parent = None
    BY DEF Issue, GuestRow, NoSession
  <2>2. PICK s \in Sessions : session[s] = NoSession /\ session' = [session EXCEPT ![s] = row]
    BY <1>1 DEF CreateGuest
  <2>3. session[s].status = "none" /\ session[s].parent = None
    BY <2>2 DEF NoSession
  <2> HIDE DEF row
  <2>4. \A x \in Sessions : session'[x] = IF x = s THEN row ELSE session[x]
    BY <1>0, <2>2
  <2>5. request' = request
    BY <1>1 DEF CreateGuest
  <2>6. \A x \in Sessions : session[x].parent # s
    BY <1>0, <2>3 DEF Succeeded
  <2>7. \A x \in Sessions : session'[x].parent = session[x].parent
    BY <2>1, <2>3, <2>4
  <2>8. \A x \in Sessions : session[x].parent \in Sessions \cup {None}
    BY <1>0 DEF SessionRow
  <2>9. Locked'
    BY <1>0, <2>3, <2>4, <2>5 DEF Locked, RequestRow
  <2>10. Succeeded'
    BY <1>0, <2>1, <2>4, <2>6, <2>7, <2>8 DEF Succeeded
  <2> QED BY <2>9, <2>10
<1>2. ASSUME NEW q \in Requests, NEW pc \in {"registering", "signing", "verified"}, NEW u \in Users,
             SignInBegins(q, pc, u)
      PROVE  Locked' /\ Succeeded'
  <2>1. PICK parent \in Sessions \cup {None} :
          /\ parent # None => Lock(q, parent)
          /\ request' = [request EXCEPT ![q] = [Idle EXCEPT !.pc = pc, !.user = u, !.parent = parent]]
    BY <1>2 DEF SignInBegins
  <2> DEFINE r == [Idle EXCEPT !.pc = pc, !.user = u, !.parent = parent]
  <2>2. r \in RequestRow /\ r.parent = parent
    BY DEF Idle, RequestRow
  <2>3. request' = [request EXCEPT ![q] = r] /\ session' = session
    BY <1>2, <2>1 DEF SignInBegins
  <2> HIDE DEF r
  <2> QED BY <2>1, <2>2, <2>3, LockTaken
<1>3. ASSUME NEW q \in Requests, CreateAccount(q) \/ CreateSession(q) \/ CompleteVerified(q)
      PROVE  Locked' /\ Succeeded'
  BY <1>2, <1>3 DEF CreateAccount, CreateSession, CompleteVerified
<1>4. ASSUME NEW q \in Requests, IssueUserSession(q) PROVE Locked' /\ Succeeded'
  <2>1. PICK t : Supersede(request[q].parent,
                           Issue([NoSession EXCEPT !.user = request[q].user, !.tenant = t],
                                 Rights(WithHome(request[q].user), request[q].user, t)))
    BY <1>4 DEF IssueUserSession
  <2>2. Done(q)
    BY <1>4 DEF IssueUserSession
  <2> QED BY <2>1, <2>2, SupersedeKeeps
<1>5. ASSUME NEW q \in Requests, SwitchBegins(q) PROVE Locked' /\ Succeeded'
  <2>1. PICK parent \in Sessions, t \in Tenants :
          /\ Lock(q, parent) /\ session[parent].kind = "user"
          /\ request' = [request EXCEPT ![q] = [Idle EXCEPT
               !.pc = "switching", !.parent = parent, !.user = session[parent].user, !.tenant = t]]
    BY <1>5 DEF SwitchBegins
  <2> DEFINE r == [Idle EXCEPT
               !.pc = "switching", !.parent = parent, !.user = session[parent].user, !.tenant = t]
  <2>2. session[parent].user \in Users
    BY <2>1 DEF SuccessorInv, Typed, Identified
  <2>3. r \in RequestRow /\ r.parent = parent
    BY <2>2 DEF Idle, RequestRow
  <2>4. request' = [request EXCEPT ![q] = r] /\ session' = session
    BY <1>5, <2>1 DEF SwitchBegins
  <2> HIDE DEF r
  <2> QED BY <2>1, <2>3, <2>4, LockTaken
<1>6. ASSUME NEW q \in Requests, SwitchEnds(q) PROVE Locked' /\ Succeeded'
  <2>1. Supersede(request[q].parent,
                  Issue([NoSession EXCEPT !.user = request[q].user, !.tenant = request[q].tenant],
                        Rights(member, request[q].user, request[q].tenant)))
    BY <1>6 DEF SwitchEnds
  <2>2. Done(q)
    BY <1>6 DEF SwitchEnds
  <2> QED BY <2>1, <2>2, SupersedeKeeps
<1>7. ASSUME NEW q \in Requests, Logout(q) PROVE Locked' /\ Succeeded'
  <2>1. PICK s \in Sessions : Lock(q, s) /\ session' = [session EXCEPT ![s].status = "revoked"]
    BY <1>7 DEF Logout
  <2>2. session[s].status = "active" /\ \A p \in Requests \ {q} : request[p].parent # s
    BY <2>1 DEF Lock, Active, Unlocked
  <2>3. request' = request /\ request[q].parent = None
    BY <1>7, IdleType DEF Logout
  <2>4. \A x \in Sessions : /\ session'[x].parent = session[x].parent
                            /\ x # s => session'[x].status = session[x].status
                            /\ x = s => session'[x].status = "revoked"
    BY <1>0, <2>1 DEF SessionRow
  <2>5. \A p \in Requests : request[p].parent # s
    BY <1>0, <2>2, <2>3
  <2>6. \A x \in Sessions : session[x].parent \in Sessions \cup {None} /\ session[x].parent # s
    BY <1>0, <2>2 DEF SessionRow, Succeeded
  <2>7. Locked'
    BY <1>0, <2>3, <2>4, <2>5 DEF Locked, RequestRow
  <2>8. Succeeded'
    BY <1>0, <2>4, <2>6 DEF Succeeded
  <2> QED BY <2>7, <2>8
<1>8. ASSUME NEW q \in Requests, Authenticate(q) \/ StartTurn(q) PROVE Locked' /\ Succeeded'
  <2>1. session' = session
    BY <1>8 DEF Authenticate, StartTurn
  <2>2. \A p \in Requests : request'[p].parent = request[p].parent
    BY <1>0, <1>8 DEF Authenticate, StartTurn, RequestRow
  <2> QED BY <2>1, <2>2, NoLockTaken
<1>9. ASSUME NEW q \in Requests, FinishTurn(q) \/ Refuse(q) PROVE Locked' /\ Succeeded'
  <2>1. session' = session /\ Done(q)
    BY <1>9 DEF FinishTurn, Refuse
  <2>2. \A p \in Requests : request'[p].parent \in {request[p].parent, None}
    BY <1>0, <2>1, IdleType DEF Done
  <2> QED BY <2>1, <2>2, NoLockTaken
<1>10. ASSUME NEW s \in Sessions, Expire(s) PROVE Locked' /\ Succeeded'
  <2>1. \A x \in Sessions : /\ session'[x].parent = session[x].parent
                            /\ session'[x].status = session[x].status
    BY <1>0, <1>10 DEF Expire, SessionRow
  <2>2. request' = request
    BY <1>10 DEF Expire
  <2>3. \A x \in Sessions : session[x].parent \in Sessions \cup {None}
    BY <1>0 DEF SessionRow
  <2> QED BY <1>0, <2>1, <2>2, <2>3 DEF Locked, Succeeded, RequestRow
<1>11. CASE UNCHANGED vars \/ \E u \in Users : SetUserStatus(u) \/ SetMembership(u)
  BY <1>11, NoLockTaken DEF SetUserStatus, SetMembership, vars
<1> QED
  BY <1>1, <1>3, <1>4, <1>5, <1>6, <1>7, <1>8, <1>9, <1>10, <1>11 DEF Next

LEMMA SuccessorInit == Init => SuccessorInv
BY TypedInit, IdleType DEF Init, SuccessorInv, Locked, Succeeded, NoSession

(* A session is replaced once, however many requests try, and the one that *)
(* was replaced has its successor: the lock on the old row is enough.      *)
THEOREM ReplacedOnce == Spec => []OneSuccessor
<1>1. ASSUME SuccessorInv PROVE OneSuccessor
  <2> SUFFICES ASSUME NEW s \in Sessions
               PROVE  LET heirs == {x \in Sessions : session[x].parent = s} IN
                      /\ Cardinality(heirs) <= 1
                      /\ session[s].status = "superseded" <=> heirs # {}
    BY DEF OneSuccessor
  <2> DEFINE heirs == {x \in Sessions : session[x].parent = s}
  <2>1. s # None
    BY AccessSessionAssumption
  <2>2. session[s].status = "superseded" <=> heirs # {}
    BY <1>1, <2>1 DEF SuccessorInv, Succeeded
  <2>3. CASE heirs = {}
    BY <2>2, <2>3, FS_EmptySet
  <2>4. CASE heirs # {}
    <3>1. PICK x \in heirs : TRUE
      BY <2>4
    <3>2. heirs = {x}
      BY <1>1, <2>1, <3>1 DEF SuccessorInv, Succeeded
    <3>3. Cardinality(heirs) = 1
      <4> HIDE DEF heirs
      <4> QED BY <3>2, FS_Singleton
    <3> QED BY <2>2, <3>3
  <2> QED BY <2>3, <2>4
<1> QED BY <1>1, SuccessorInit, SuccessorNext, PTL DEF Spec

-----------------------------------------------------------------------------
(* Conversations *)

LEMMA SuccessorKeeps ==
    ASSUME ConversationInv, NEW parent \in Sessions \cup {None}, NEW u, NEW t,
           Successor(parent, u, t),
           parent # None => session[parent].status = "active"
    PROVE  Kept
<1>1. PICK s \in Sessions :
        /\ session[s] = NoSession
        /\ session'[s].status = "active" /\ session'[s].kind = "user"
        /\ \A x \in Sessions \ {s} :
             /\ session'[x].status = IF x = parent THEN "superseded" ELSE session[x].status
             /\ session'[x].parent = session[x].parent
             /\ session'[x].kind = session[x].kind
             /\ session'[x].user = session[x].user
             /\ session'[x].tenant = session[x].tenant
  BY DEF Successor
<1>2. NoSession.kind = "none"
  BY DEF NoSession
<1>3. \A x \in Sessions : session[x].status # "none" \/ session[x].parent # None =>
         session[x].kind # "none"
  BY DEF ConversationInv, Known
<1> QED BY <1>1, <1>2, <1>3, AccessSessionAssumption DEF Kept

LEMMA SupersedeKept ==
    ASSUME ConversationInv, NEW q \in Requests, NEW u, NEW t, NEW rights,
           Supersede(request[q].parent, Issue([NoSession EXCEPT !.user = u, !.tenant = t], rights))
    PROVE  Kept /\ Successor(request[q].parent, u, t)
<1> DEFINE parent == request[q].parent
<1>1. parent \in Sessions \cup {None} /\ (parent # None => session[parent].status = "active")
  BY DEF ConversationInv, SuccessorInv, Typed, TypeOK, Locked
<1>2. Supersede(parent, Issue([NoSession EXCEPT !.user = u, !.tenant = t], rights)) /\ Typed
  BY DEF ConversationInv, SuccessorInv
<1> HIDE DEF parent
<1>3. Successor(parent, u, t)
  BY <1>1, <1>2, SupersedeEffect
<1> QED BY <1>1, <1>3, SuccessorKeeps DEF parent

LEMMA SessionsKept == ConversationInv /\ [Next]_vars => Kept
<1> SUFFICES ASSUME ConversationInv, [Next]_vars PROVE Kept
  OBVIOUS
<1>0. /\ session \in [Sessions -> SessionRow] /\ None \notin Sessions
      /\ \A s \in Sessions : session[s].status # "none" \/ session[s].parent # None =>
           session[s].kind # "none"
  BY AccessSessionAssumption DEF ConversationInv, SuccessorInv, Typed, TypeOK, Known
<1>1. ASSUME session' = session PROVE Kept
  BY <1>0, <1>1 DEF Kept
<1>2. ASSUME NEW q \in Requests, CreateGuest(q) PROVE Kept
  <2> DEFINE row == Issue(GuestRow(Public), "public")
  <2>1. row.kind = "guest"
    BY DEF Issue, GuestRow, NoSession
  <2>2. PICK s \in Sessions : session[s] = NoSession /\ session' = [session EXCEPT ![s] = row]
    BY <1>2 DEF CreateGuest
  <2>3. session[s].kind = "none"
    BY <2>2 DEF NoSession
  <2> HIDE DEF row
  <2> QED BY <1>0, <2>1, <2>2, <2>3 DEF Kept
<1>3. ASSUME NEW q \in Requests, IssueUserSession(q) PROVE Kept
  <2>1. PICK t : Supersede(request[q].parent,
                           Issue([NoSession EXCEPT !.user = request[q].user, !.tenant = t],
                                 Rights(WithHome(request[q].user), request[q].user, t)))
    BY <1>3 DEF IssueUserSession
  <2> QED BY <2>1, SupersedeKept
<1>4. ASSUME NEW q \in Requests, SwitchEnds(q) PROVE Kept
  <2>1. Supersede(request[q].parent,
                  Issue([NoSession EXCEPT !.user = request[q].user, !.tenant = request[q].tenant],
                        Rights(member, request[q].user, request[q].tenant)))
    BY <1>4 DEF SwitchEnds
  <2> QED BY <2>1, SupersedeKept
<1>5. ASSUME NEW q \in Requests, Logout(q) PROVE Kept
  <2>1. PICK s \in Sessions : session[s].status = "active"
                              /\ session' = [session EXCEPT ![s].status = "revoked"]
    BY <1>5 DEF Logout, Lock, Active
  <2> QED BY <1>0, <2>1 DEF Kept, SessionRow
<1>6. ASSUME NEW s \in Sessions, Expire(s) PROVE Kept
  BY <1>0, <1>6 DEF Expire, Kept, SessionRow
<1>7. ASSUME NEW q \in Requests,
             \/ CreateAccount(q) \/ CreateSession(q) \/ CompleteVerified(q) \/ SwitchBegins(q)
             \/ Authenticate(q) \/ StartTurn(q) \/ FinishTurn(q) \/ Refuse(q)
      PROVE  Kept
  BY <1>1, <1>7 DEF CreateAccount, CreateSession, CompleteVerified, SignInBegins, SwitchBegins,
                    Authenticate, StartTurn, FinishTurn, Refuse
<1>8. CASE UNCHANGED vars \/ \E u \in Users : SetUserStatus(u) \/ SetMembership(u)
  BY <1>1, <1>8 DEF SetUserStatus, SetMembership, vars
<1> QED BY <1>2, <1>3, <1>4, <1>5, <1>6, <1>7, <1>8 DEF Next

(* A step that leaves the conversations alone, and lets a request run in   *)
(* a session that exists if any.                                           *)
LEMMA ConversationsAlone ==
    ASSUME ConversationInv, Kept, conversation' = conversation,
           \A q \in Requests : request'[q].session # None =>
              /\ request'[q].session \in Sessions
              /\ session[request'[q].session].kind # "none"
    PROVE  Known' /\ Private' /\ AdoptedByHeir'
<1>0. /\ conversation \in [Conversations -> ConversationRow]
      /\ Known /\ Private /\ AdoptedByHeir
  BY DEF ConversationInv, SuccessorInv, Typed, TypeOK
<1>1. \A c \in Conversations : conversation[c].wrote \subseteq Sessions
                               /\ conversation[c].creator \in Sessions \cup {None}
  BY <1>0 DEF ConversationRow
<1>2. Known'
  BY <1>0, <1>1 DEF Known, Kept
<1>3. Private'
  BY <1>0, <1>1 DEF Known, Private, Kept
<1>4. AdoptedByHeir'
  BY <1>0, <1>1, AccessSessionAssumption DEF Known, AdoptedByHeir, Kept
<1> QED BY <1>2, <1>3, <1>4

(* A message in a conversation that the session may reach, and that is its *)
(* own or was there before.                                                *)
LEMMA MessageKeeps ==
    ASSUME ConversationInv, session' = session,
           NEW c \in Conversations, NEW s \in Sessions, session[s].kind # "none",
           NEW row \in ConversationRow,
           row = conversation[c]
             \/ row = [tenant |-> session[s].tenant, owner |-> session[s].user,
                       creator |-> s, wrote |-> {}],
           CanAccess(row, s),
           conversation' = [conversation EXCEPT ![c] = [row EXCEPT !.wrote = @ \cup {s}]],
           \A q \in Requests : request'[q].session # None =>
              /\ request'[q].session \in Sessions
              /\ session[request'[q].session].kind # "none"
    PROVE  Known' /\ Private' /\ AdoptedByHeir'
<1> DEFINE after == [row EXCEPT !.wrote = @ \cup {s}]
<1>0. /\ conversation \in [Conversations -> ConversationRow] /\ session \in [Sessions -> SessionRow]
      /\ Known /\ Private /\ AdoptedByHeir /\ Identified
      /\ None \notin Users
  BY AccessSessionAssumption DEF ConversationInv, SuccessorInv, Typed, TypeOK
<1>1. /\ after.tenant = row.tenant /\ after.owner = row.owner /\ after.creator = row.creator
      /\ after.wrote = row.wrote \cup {s}
  BY DEF ConversationRow
<1> HIDE DEF after
<1>2. \A d \in Conversations : conversation'[d] = IF d = c THEN after ELSE conversation[d]
  BY <1>0 DEF after
<1>3. /\ row.tenant = session[s].tenant
      /\ s = row.creator \/ (row.owner # None /\ session[s].user = row.owner)
  <2>1. CASE session[s].kind = "guest"
    BY <2>1 DEF CanAccess
  <2>2. CASE session[s].kind # "guest"
    <3>1. session[s].kind = "user"
      BY <1>0, <2>2 DEF SessionRow
    <3> QED BY <1>0, <3>1 DEF CanAccess, Identified
  <2> QED BY <2>1, <2>2
<1>4. Known'
  <2>1. row.creator # None => session[row.creator].kind # "none"
    BY <1>0 DEF Known
  <2>2. \A w \in row.wrote : session[w].kind # "none"
    BY <1>0 DEF Known
  <2> QED BY <1>0, <1>1, <1>2, <2>1, <2>2 DEF Known
<1>5. Private'
  <2>1. \A w \in row.wrote : /\ session[w].tenant = row.tenant
                             /\ w = row.creator \/ (row.owner # None /\ session[w].user = row.owner)
    BY <1>0 DEF Private
  <2> QED BY <1>0, <1>1, <1>2, <1>3, <2>1 DEF Private
<1>6. AdoptedByHeir'
  <2>1. (row.creator # None /\ session[row.creator].kind = "guest" /\ row.owner # None) =>
           \E x \in Sessions : session[x].parent = row.creator /\ session[x].user = row.owner
    <3>1. CASE row = conversation[c]
      BY <1>0, <3>1 DEF AdoptedByHeir
    <3>2. CASE row = [tenant |-> session[s].tenant, owner |-> session[s].user,
                      creator |-> s, wrote |-> {}]
      BY <1>0, <3>2 DEF Identified
    <3> QED BY <3>1, <3>2
  <2> QED BY <1>0, <1>1, <1>2, <2>1 DEF AdoptedByHeir
<1> QED BY <1>4, <1>5, <1>6

(* A guest signs in: the conversations it began go to the user its session *)
(* turned into.                                                            *)
LEMMA AdoptionKeeps ==
    ASSUME ConversationInv, Kept, NEW parent \in Sessions \cup {None}, NEW u \in Users, NEW t,
           Successor(parent, u, t), conversation' = Adopt(parent, u),
           \A q \in Requests : request'[q].session # None =>
              /\ request'[q].session \in Sessions
              /\ session[request'[q].session].kind # "none"
    PROVE  Known' /\ Private' /\ AdoptedByHeir'
<1>0. /\ conversation \in [Conversations -> ConversationRow] /\ session \in [Sessions -> SessionRow]
      /\ Known /\ Private /\ AdoptedByHeir
      /\ None \notin Sessions /\ None \notin Users
  BY AccessSessionAssumption DEF ConversationInv, SuccessorInv, Typed, TypeOK
<1>1. ASSUME NEW c \in Conversations
      PROVE  /\ conversation'[c].tenant = conversation[c].tenant
             /\ conversation'[c].creator = conversation[c].creator
             /\ conversation'[c].wrote = conversation[c].wrote
             /\ \/ conversation'[c].owner = conversation[c].owner
                \/ /\ conversation[c].owner = None /\ conversation'[c].owner = u
                   /\ parent # None /\ conversation[c].creator = parent
             /\ conversation[c].wrote \subseteq Sessions
             /\ conversation[c].creator \in Sessions \cup {None}
  <2>1. conversation[c] \in ConversationRow
    BY <1>0
  <2> DEFINE adopted == [conversation[c] EXCEPT !.owner = u]
  <2>2. /\ adopted.tenant = conversation[c].tenant /\ adopted.creator = conversation[c].creator
        /\ adopted.wrote = conversation[c].wrote /\ adopted.owner = u
    BY <2>1 DEF ConversationRow
  <2>3. \/ conversation'[c] = conversation[c]
        \/ /\ conversation'[c] = adopted /\ parent # None
           /\ conversation[c].creator = parent /\ conversation[c].owner = None
    BY DEF Adopt
  <2> HIDE DEF adopted
  <2> QED BY <2>1, <2>2, <2>3 DEF ConversationRow
<1>2. parent # None => \E x \in Sessions : session'[x].parent = parent /\ session'[x].user = u
  BY DEF Successor
<1>3. Known'
  BY <1>0, <1>1 DEF Known, Kept
<1>4. Private'
  BY <1>0, <1>1 DEF Private, Known, Kept
<1>5. AdoptedByHeir'
  <2> SUFFICES ASSUME NEW c \in Conversations, conversation'[c].creator # None,
                      session'[conversation'[c].creator].kind = "guest", conversation'[c].owner # None
               PROVE  \E x \in Sessions : /\ session'[x].parent = conversation'[c].creator
                                          /\ session'[x].user = conversation'[c].owner
    BY DEF AdoptedByHeir
  <2> DEFINE s == conversation[c].creator
  <2>1. s \in Sessions /\ conversation'[c].creator = s /\ session[s].kind = "guest"
    BY <1>0, <1>1 DEF Known, Kept
  <2>2. CASE conversation'[c].owner = conversation[c].owner
    <3>1. PICK x \in Sessions : session[x].parent = s /\ session[x].user = conversation[c].owner
      BY <1>0, <2>1, <2>2 DEF AdoptedByHeir
    <3>2. session[x].kind # "none"
      BY <1>0, <2>1, <3>1 DEF Known
    <3> QED BY <2>1, <2>2, <3>1, <3>2 DEF Kept
  <2>3. CASE conversation'[c].owner = u /\ parent # None /\ s = parent
    BY <1>2, <2>1, <2>3
  <2> QED BY <1>1, <2>2, <2>3
<1> QED BY <1>3, <1>4, <1>5

LEMMA ConversationNext == ConversationInv /\ [Next]_vars => ConversationInv'
<1> SUFFICES ASSUME ConversationInv, [Next]_vars PROVE Known' /\ Private' /\ AdoptedByHeir'
  BY SuccessorNext DEF ConversationInv
<1> DEFINE Runs == \A q \in Requests : request'[q].session # None =>
                      /\ request'[q].session \in Sessions
                      /\ session[request'[q].session].kind # "none"
<1>0. /\ request \in [Requests -> RequestRow] /\ conversation \in [Conversations -> ConversationRow]
      /\ session \in [Sessions -> SessionRow] /\ Prepared
      /\ None \notin Sessions /\ Known
  BY AccessSessionAssumption DEF ConversationInv, SuccessorInv, Typed, TypeOK, RequestRow
<1>1. \A q \in Requests : request[q].session # None =>
         request[q].session \in Sessions /\ session[request[q].session].kind # "none"
  BY <1>0 DEF RequestRow, Known
<1>2. ASSUME \A q \in Requests : request'[q].session \in {request[q].session, None} PROVE Runs
  BY <1>1, <1>2
<1>3. ASSUME NEW q \in Requests, Done(q) PROVE Runs
  <2>1. \A p \in Requests : request'[p].session \in {request[p].session, None}
    BY <1>0, <1>3 DEF Done, Idle
  <2> QED BY <1>2, <2>1
<1>4. Kept
  BY SessionsKept
<1>5. ASSUME NEW q \in Requests, StartTurn(q) PROVE Known' /\ Private' /\ AdoptedByHeir'
  <2> DEFINE s == request[q].session
             new == [tenant |-> session[s].tenant, owner |-> session[s].user,
                     creator |-> s, wrote |-> {}]
             row(c) == IF conversation[c] # NoConversation THEN conversation[c] ELSE new
  <2>1. s \in Sessions /\ session[s].kind # "none"
    BY <1>0, <1>1, <1>5 DEF StartTurn, Prepared
  <2>2. PICK c \in Conversations :
          /\ CanAccess(row(c), s)
          /\ conversation' = [conversation EXCEPT ![c] = [row(c) EXCEPT !.wrote = @ \cup {s}]]
          /\ request' = [request EXCEPT ![q].pc = "answering", ![q].conversation = c]
    BY <1>5 DEF StartTurn
  <2>3. Runs
    <3>1. \A p \in Requests : request'[p].session = request[p].session
      BY <1>0, <2>2 DEF RequestRow
    <3> QED BY <1>2, <3>1
  <2>4. session' = session
    BY <1>5 DEF StartTurn
  <2>5. new \in ConversationRow
    BY <1>0, <2>1 DEF ConversationRow, SessionRow
  <2>6. row(c) \in ConversationRow /\ (row(c) = conversation[c] \/ row(c) = new)
    BY <1>0, <2>5
  <2> HIDE DEF s, row
  <2> QED BY <2>1, <2>2, <2>3, <2>4, <2>6, MessageKeeps
<1>6. ASSUME NEW q \in Requests, FinishTurn(q) PROVE Known' /\ Private' /\ AdoptedByHeir'
  <2> DEFINE s == request[q].session
             c == request[q].conversation
  <2>1. s \in Sessions /\ session[s].kind # "none" /\ c \in Conversations
    BY <1>0, <1>1, <1>6 DEF FinishTurn, Prepared
  <2>2. CanAccess(conversation[c], s) /\ session' = session
    BY <1>6 DEF FinishTurn
  <2>3. conversation' = [conversation EXCEPT ![c] = [conversation[c] EXCEPT !.wrote = @ \cup {s}]]
    BY <1>0, <1>6, <2>1 DEF FinishTurn
  <2>4. Runs
    BY <1>3, <1>6 DEF FinishTurn
  <2>5. conversation[c] \in ConversationRow
    BY <1>0, <2>1
  <2> HIDE DEF s, c
  <2> QED BY <2>1, <2>2, <2>3, <2>4, <2>5, MessageKeeps
<1>7. ASSUME NEW q \in Requests, IssueUserSession(q) PROVE Known' /\ Private' /\ AdoptedByHeir'
  <2> DEFINE r == request[q]
  <2>1. r.user \in Users /\ r.parent \in Sessions \cup {None}
    BY <1>0, <1>7 DEF IssueUserSession, Prepared, Replacing, RequestRow
  <2>2. PICK t : Supersede(r.parent, Issue([NoSession EXCEPT !.user = r.user, !.tenant = t],
                                           Rights(WithHome(r.user), r.user, t)))
    BY <1>7 DEF IssueUserSession
  <2>3. Successor(r.parent, r.user, t)
    BY <2>2, SupersedeKept
  <2>4. conversation' = Adopt(r.parent, r.user) /\ Runs
    BY <1>3, <1>7 DEF IssueUserSession
  <2> HIDE DEF r
  <2> QED BY <1>4, <2>1, <2>3, <2>4, AdoptionKeeps
<1>8. ASSUME conversation' = conversation, Runs PROVE Known' /\ Private' /\ AdoptedByHeir'
  BY <1>4, <1>8, ConversationsAlone
<1>9. ASSUME NEW q \in Requests, CreateGuest(q) \/ Logout(q) PROVE Known' /\ Private' /\ AdoptedByHeir'
  BY <1>2, <1>8, <1>9 DEF CreateGuest, Logout
<1>10. ASSUME NEW q \in Requests, NEW pc \in {"registering", "signing", "verified"}, NEW u \in Users,
              SignInBegins(q, pc, u)
       PROVE  Known' /\ Private' /\ AdoptedByHeir'
  <2>1. \A p \in Requests : request'[p].session \in {request[p].session, None}
    BY <1>0, <1>10 DEF SignInBegins, Idle
  <2> QED BY <1>2, <1>8, <1>10, <2>1 DEF SignInBegins
<1>11. ASSUME NEW q \in Requests, CreateAccount(q) \/ CreateSession(q) \/ CompleteVerified(q)
       PROVE  Known' /\ Private' /\ AdoptedByHeir'
  BY <1>10, <1>11 DEF CreateAccount, CreateSession, CompleteVerified
<1>12. ASSUME NEW q \in Requests, SwitchBegins(q) PROVE Known' /\ Private' /\ AdoptedByHeir'
  <2>1. \A p \in Requests : request'[p].session \in {request[p].session, None}
    BY <1>0, <1>12 DEF SwitchBegins, Idle
  <2> QED BY <1>2, <1>8, <1>12, <2>1 DEF SwitchBegins
<1>13. ASSUME NEW q \in Requests, SwitchEnds(q) \/ Refuse(q) PROVE Known' /\ Private' /\ AdoptedByHeir'
  BY <1>3, <1>8, <1>13 DEF SwitchEnds, Refuse
<1>14. ASSUME NEW q \in Requests, Authenticate(q) PROVE Known' /\ Private' /\ AdoptedByHeir'
  <2>1. PICK s \in Sessions :
          /\ session[s].status = "active"
          /\ request' = [request EXCEPT ![q].pc = "resolved", ![q].session = s]
    BY <1>14 DEF Authenticate, Resolve, Active
  <2>2. session[s].kind # "none"
    BY <1>0, <2>1 DEF Known
  <2>3. \A p \in Requests : request'[p].session = IF p = q THEN s ELSE request[p].session
    BY <1>0, <2>1 DEF RequestRow
  <2>4. Runs
    BY <1>1, <2>2, <2>3
  <2> QED BY <1>8, <1>14, <2>4 DEF Authenticate
<1>15. ASSUME NEW s \in Sessions, Expire(s) PROVE Known' /\ Private' /\ AdoptedByHeir'
  BY <1>2, <1>8, <1>15 DEF Expire
<1>16. CASE UNCHANGED vars \/ \E u \in Users : SetUserStatus(u) \/ SetMembership(u)
  BY <1>2, <1>8, <1>16 DEF SetUserStatus, SetMembership, vars
<1> QED
  BY <1>5, <1>6, <1>7, <1>9, <1>11, <1>12, <1>13, <1>14, <1>15, <1>16 DEF Next

LEMMA ConversationInit == Init => ConversationInv
BY SuccessorInit DEF Init, ConversationInv, Known, Private, AdoptedByHeir, NoSession,
                     NoConversation, Idle

(* Signing in takes over the conversations of one's own guest session and  *)
(* never those of another guest.                                           *)
THEOREM AdoptionIsByHeir == Spec => []AdoptedByHeir
<1>1. ConversationInv => AdoptedByHeir
  BY DEF ConversationInv
<1> QED BY <1>1, ConversationInit, ConversationNext, PTL DEF Spec

(* No message enters a conversation from a session that neither created it *)
(* nor belongs to its owner, whichever request was under way while the     *)
(* session was replaced.                                                   *)
THEOREM OnlyItsOwnMessages == Spec => []ConversationStaysPrivate
<1>1. ConversationInv => ConversationStaysPrivate
  BY DEF ConversationInv, Private, ConversationStaysPrivate
<1> QED BY <1>1, ConversationInit, ConversationNext, PTL DEF Spec

-----------------------------------------------------------------------------
(* The stream of a response: its loops *)

LEMMA SmallestNumber ==
    ASSUME NEW T \in SUBSET Nat, T # {}
    PROVE  \E n \in T : \A m \in T : n <= m
<1> DEFINE Less == OpToRel(<, Nat)
<1>1. \E n \in T : \A m \in T : ~(<<m, n>> \in Less)
  <2>1. IsWellFoundedOn(Less, Nat)
    BY NatLessThanWellFounded
  <2> HIDE DEF Less
  <2> QED BY <2>1, WFMin, Zenon
<1>2. PICK n \in T : \A m \in T : ~(m < n)
  BY <1>1 DEF OpToRel
<1> QED BY <1>2

(* Induction, on the set of the numbers for which something holds.         *)
LEMMA AllNumbers ==
    ASSUME NEW T \in SUBSET Nat, 0 \in T, \A n \in T : n + 1 \in T
    PROVE  T = Nat
<1> SUFFICES ASSUME Nat \ T # {} PROVE FALSE
  OBVIOUS
<1>1. PICK n \in Nat \ T : \A m \in Nat \ T : n <= m
  BY SmallestNumber
<1>2. n # 0 /\ n - 1 \in Nat /\ n - 1 < n
  BY <1>1
<1>3. n - 1 \in T
  BY <1>1, <1>2
<1> QED BY <1>1, <1>2, <1>3

(* What holds before a loop and after each of its steps holds at its end.  *)
LEMMA LoopStays ==
    ASSUME NEW k \in Nat, NEW D, NEW f, f[0] \in D[0],
           \A n \in 1..k : f[n - 1] \in D[n - 1] => f[n] \in D[n]
    PROVE  f[k] \in D[k]
<1> DEFINE T == {n \in Nat : n <= k => f[n] \in D[n]}
<1>1. 0 \in T
  OBVIOUS
<1>2. ASSUME NEW n \in T PROVE n + 1 \in T
  <2> SUFFICES ASSUME n + 1 <= k PROVE f[n + 1] \in D[n + 1]
    OBVIOUS
  <2>1. f[n] \in D[n] /\ n + 1 \in 1..k /\ (n + 1) - 1 = n
    OBVIOUS
  <2> HIDE DEF T
  <2> QED BY <2>1
<1>3. T = Nat
  <2>1. T \in SUBSET Nat
    OBVIOUS
  <2> HIDE DEF T
  <2> QED BY <1>1, <1>2, <2>1, AllNumbers
<1> QED BY <1>3

(* A loop whose steps lead from one set to the next: it comes to its end.  *)
LEMMA LoopExists ==
    ASSUME NEW k \in Nat, NEW D, NEW base, base \in D[0], NEW G,
           \A n \in 1..k : \A x \in D[n - 1] : G[n][x] \in D[n]
    PROVE  \E f : IsLoop(f, k, base, G, D)
<1> DEFINE Upto(f, j) == IsLoop(f, j, base, G, D)
           T == {j \in Nat : j <= k => \E f : Upto(f, j)}
<1> USE DEF IsLoop
<1>1. 0 \in T
  <2> DEFINE f == [n \in 0..0 |-> base]
  <2>1. Upto(f, 0)
    OBVIOUS
  <2> HIDE DEF f, Upto
  <2> QED BY <2>1
<1>2. ASSUME NEW j \in T PROVE j + 1 \in T
  <2> SUFFICES ASSUME j + 1 <= k PROVE \E g : Upto(g, j + 1)
    <3> HIDE DEF Upto
    <3> QED OBVIOUS
  <2>1. PICK f : Upto(f, j)
    OBVIOUS
  <2> DEFINE g == [n \in 0..(j + 1) |-> IF n = j + 1 THEN G[j + 1][f[j]] ELSE f[n]]
  <2>2. j \in Nat /\ j + 1 \in 1..k /\ (j + 1) - 1 = j
    OBVIOUS
  <2>3. \A n \in 0..j : g[n] = f[n]
    BY <2>2
  <2>4. g[j + 1] = G[j + 1][f[j]] /\ g[j] = f[j] /\ g[0] = f[0]
    BY <2>2
  <2>5. f[0] = base /\ \A n \in 1..j : f[n] = G[n][f[n - 1]]
    <3> HIDE DEF T
    <3> QED BY <2>1, <2>2
  <2>6. \A n \in 0..(j + 1) : g[n] \in D[n]
    <3>1. \A n \in 0..j : g[n] \in D[n]
      BY <2>1, <2>3
    <3>2. f[j] \in D[j]
      BY <2>1, <2>2
    <3>3. g[j + 1] \in D[j + 1]
      <4> HIDE DEF T, Upto, g
      <4> QED BY <2>2, <2>4, <3>2
    <3> HIDE DEF T, Upto, g
    <3> QED BY <2>2, <3>1, <3>3
  <2>7. \A n \in 1..(j + 1) : g[n] = G[n][g[n - 1]]
    <3> SUFFICES ASSUME NEW n \in 1..(j + 1) PROVE g[n] = G[n][g[n - 1]]
      OBVIOUS
    <3>1. n - 1 \in 0..j
      BY <2>2
    <3>2. g[n - 1] = f[n - 1]
      BY <2>3, <3>1
    <3> HIDE DEF T, Upto, g
    <3>3. CASE n = j + 1
      BY <2>2, <2>4, <3>3
    <3>4. CASE n # j + 1
      <4>1. n \in 1..j
        BY <2>2, <3>4
      <4> QED BY <2>2, <2>3, <2>5, <3>2, <4>1
    <3> QED BY <3>3, <3>4
  <2>8. g = [n \in 0..(j + 1) |-> g[n]]
    OBVIOUS
  <2>9. Upto(g, j + 1)
    <3> HIDE DEF g
    <3> QED BY <2>2, <2>4, <2>5, <2>6, <2>7, <2>8
  <2> HIDE DEF T, Upto, g
  <2> QED BY <2>9
<1>3. T = Nat
  <2>1. T \in SUBSET Nat
    OBVIOUS
  <2> HIDE DEF T
  <2> QED BY <1>1, <1>2, <2>1, AllNumbers
<1>4. k \in T
  BY <1>3
<1> QED BY <1>4

LEMMA FunctionSequence ==
    ASSUME NEW S, NEW n \in Nat, NEW f \in [1..n -> S]
    PROVE  f \in Seq(S)
OBVIOUS

LEMMA SequenceWithin ==
    ASSUME NEW S, NEW T, S \subseteq T, NEW s \in Seq(S)
    PROVE  s \in Seq(T)
OBVIOUS

LEMMA LoopWithin ==
    ASSUME NEW k \in Nat, NEW D, NEW f, f[0] \in D[0],
           \A n \in 1..k : f[n - 1] \in D[n - 1] => f[n] \in D[n]
    PROVE  \A n \in 0..k : f[n] \in D[n]
<1> SUFFICES ASSUME NEW n \in 0..k PROVE f[n] \in D[n]
  OBVIOUS
<1>1. n \in Nat /\ \A m \in 1..n : m \in 1..k
  OBVIOUS
<1> QED BY <1>1, LoopStays

LEMMA LoopUnique ==
    ASSUME NEW k \in Nat, NEW f, NEW g, f[0] = g[0],
           \A n \in 1..k : f[n - 1] = g[n - 1] => f[n] = g[n]
    PROVE  f[k] = g[k]
<1> DEFINE D == [n \in Nat |-> {g[n]}]
<1>1. f[0] \in D[0] /\ \A n \in 1..k : f[n - 1] \in D[n - 1] => f[n] \in D[n]
  OBVIOUS
<1>2. f[k] \in D[k]
  <2> HIDE DEF D
  <2> QED BY <1>1, LoopStays
<1> QED BY <1>2

LEMMA AddChunkLoop ==
    ASSUME NEW s, Len(s) \in Nat, NEW base, NEW D, base \in D[0],
           \A n \in 1..Len(s) : \A x \in D[n - 1] : AddChunk(x, s[n]) \in D[n]
    PROVE  \E f : AddChunkFold(f, s, base, D)
<1> DEFINE k == Len(s)
           By(f) == f = [n \in 0..Len(s) |-> IF n = 0 THEN base ELSE AddChunk(f[n - 1], s[n])]
           after == CHOOSE f : By(f)
           G == [n \in 1..k |-> [x \in D[n - 1] |-> AddChunk(x, s[n])]]
<1>1. PICK f : IsLoop(f, k, base, G, D)
  <2>1. \A n \in 1..k : \A x \in D[n - 1] : G[n][x] \in D[n]
    OBVIOUS
  <2> HIDE DEF G, k
  <2> QED BY <2>1, LoopExists DEF k
<1>2. By(f)
  <2>1. \A n \in 1..k : f[n - 1] \in D[n - 1]
    <3> HIDE DEF G
    <3> QED BY <1>1 DEF IsLoop
  <2>2. \A n \in 1..k : G[n][f[n - 1]] = AddChunk(f[n - 1], s[n])
    BY <2>1
  <2> HIDE DEF G
  <2>3. f = [n \in 0..k |-> f[n]] /\ f[0] = base /\ \A n \in 1..k : f[n] = G[n][f[n - 1]]
    BY <1>1 DEF IsLoop
  <2> HIDE DEF k
  <2>4. \A n \in 1..k : f[n] = AddChunk(f[n - 1], s[n])
    BY <2>2, <2>3
  <2>5. \A n \in 0..k : n # 0 => n \in 1..k
    BY DEF k
  <2>6. f = [n \in 0..k |-> IF n = 0 THEN base ELSE AddChunk(f[n - 1], s[n])]
    BY <2>3, <2>4, <2>5
  <2> QED BY <2>6 DEF k
<1>3. By(after)
  <2> HIDE DEF By
  <2> QED BY <1>2
<1>4. after[0] = base /\ \A n \in 1..k : after[n] = AddChunk(after[n - 1], s[n])
  <2> HIDE DEF after
  <2>1. \A n \in 0..k : after[n] = IF n = 0 THEN base ELSE AddChunk(after[n - 1], s[n])
    BY <1>3
  <2>2. 0 \in 0..k /\ \A n \in 1..k : n \in 0..k /\ n # 0
    OBVIOUS
  <2> HIDE DEF k
  <2> QED BY <2>1, <2>2
<1>5. \A n \in 0..k : after[n] \in D[n]
  <2> HIDE DEF after, By
  <2> QED BY <1>4, LoopWithin
<1>6. Folded(AddChunk, base, s) = after[k]
  BY DEF Folded
<1> HIDE DEF after, By
<1>7. AddChunkFold(after, s, base, D)
  BY <1>4, <1>5, <1>6 DEF AddChunkFold
<1> QED BY <1>7

LEMMA ScanLoop ==
    ASSUME NEW s, Len(s) \in Nat, NEW base, NEW D, base \in D[0],
           \A n \in 1..Len(s) : \A x \in D[n - 1] : Scan(x, s[n]) \in D[n]
    PROVE  \E f : ScanFold(f, s, base, D)
<1> DEFINE k == Len(s)
           By(f) == f = [n \in 0..Len(s) |-> IF n = 0 THEN base ELSE Scan(f[n - 1], s[n])]
           after == CHOOSE f : By(f)
           G == [n \in 1..k |-> [x \in D[n - 1] |-> Scan(x, s[n])]]
<1>1. PICK f : IsLoop(f, k, base, G, D)
  <2>1. \A n \in 1..k : \A x \in D[n - 1] : G[n][x] \in D[n]
    OBVIOUS
  <2> HIDE DEF G, k
  <2> QED BY <2>1, LoopExists DEF k
<1>2. By(f)
  <2>1. \A n \in 1..k : f[n - 1] \in D[n - 1]
    <3> HIDE DEF G
    <3> QED BY <1>1 DEF IsLoop
  <2>2. \A n \in 1..k : G[n][f[n - 1]] = Scan(f[n - 1], s[n])
    BY <2>1
  <2> HIDE DEF G
  <2>3. f = [n \in 0..k |-> f[n]] /\ f[0] = base /\ \A n \in 1..k : f[n] = G[n][f[n - 1]]
    BY <1>1 DEF IsLoop
  <2> HIDE DEF k
  <2>4. \A n \in 1..k : f[n] = Scan(f[n - 1], s[n])
    BY <2>2, <2>3
  <2>5. \A n \in 0..k : n # 0 => n \in 1..k
    BY DEF k
  <2>6. f = [n \in 0..k |-> IF n = 0 THEN base ELSE Scan(f[n - 1], s[n])]
    BY <2>3, <2>4, <2>5
  <2> QED BY <2>6 DEF k
<1>3. By(after)
  <2> HIDE DEF By
  <2> QED BY <1>2
<1>4. after[0] = base /\ \A n \in 1..k : after[n] = Scan(after[n - 1], s[n])
  <2> HIDE DEF after
  <2>1. \A n \in 0..k : after[n] = IF n = 0 THEN base ELSE Scan(after[n - 1], s[n])
    BY <1>3
  <2>2. 0 \in 0..k /\ \A n \in 1..k : n \in 0..k /\ n # 0
    OBVIOUS
  <2> HIDE DEF k
  <2> QED BY <2>1, <2>2
<1>5. \A n \in 0..k : after[n] \in D[n]
  <2> HIDE DEF after, By
  <2> QED BY <1>4, LoopWithin
<1>6. Folded(Scan, base, s) = after[k]
  BY DEF Folded
<1> HIDE DEF after, By
<1>7. ScanFold(after, s, base, D)
  BY <1>4, <1>5, <1>6 DEF ScanFold
<1> QED BY <1>7

LEMMA ForwardLoop ==
    ASSUME NEW s, Len(s) \in Nat, NEW base, NEW D, base \in D[0],
           \A n \in 1..Len(s) : \A x \in D[n - 1] : Forward(x, s[n]) \in D[n]
    PROVE  \E f : ForwardFold(f, s, base, D)
<1> DEFINE k == Len(s)
           By(f) == f = [n \in 0..Len(s) |-> IF n = 0 THEN base ELSE Forward(f[n - 1], s[n])]
           after == CHOOSE f : By(f)
           G == [n \in 1..k |-> [x \in D[n - 1] |-> Forward(x, s[n])]]
<1>1. PICK f : IsLoop(f, k, base, G, D)
  <2>1. \A n \in 1..k : \A x \in D[n - 1] : G[n][x] \in D[n]
    OBVIOUS
  <2> HIDE DEF G, k
  <2> QED BY <2>1, LoopExists DEF k
<1>2. By(f)
  <2>1. \A n \in 1..k : f[n - 1] \in D[n - 1]
    <3> HIDE DEF G
    <3> QED BY <1>1 DEF IsLoop
  <2>2. \A n \in 1..k : G[n][f[n - 1]] = Forward(f[n - 1], s[n])
    BY <2>1
  <2> HIDE DEF G
  <2>3. f = [n \in 0..k |-> f[n]] /\ f[0] = base /\ \A n \in 1..k : f[n] = G[n][f[n - 1]]
    BY <1>1 DEF IsLoop
  <2> HIDE DEF k
  <2>4. \A n \in 1..k : f[n] = Forward(f[n - 1], s[n])
    BY <2>2, <2>3
  <2>5. \A n \in 0..k : n # 0 => n \in 1..k
    BY DEF k
  <2>6. f = [n \in 0..k |-> IF n = 0 THEN base ELSE Forward(f[n - 1], s[n])]
    BY <2>3, <2>4, <2>5
  <2> QED BY <2>6 DEF k
<1>3. By(after)
  <2> HIDE DEF By
  <2> QED BY <1>2
<1>4. after[0] = base /\ \A n \in 1..k : after[n] = Forward(after[n - 1], s[n])
  <2> HIDE DEF after
  <2>1. \A n \in 0..k : after[n] = IF n = 0 THEN base ELSE Forward(after[n - 1], s[n])
    BY <1>3
  <2>2. 0 \in 0..k /\ \A n \in 1..k : n \in 0..k /\ n # 0
    OBVIOUS
  <2> HIDE DEF k
  <2> QED BY <2>1, <2>2
<1>5. \A n \in 0..k : after[n] \in D[n]
  <2> HIDE DEF after, By
  <2> QED BY <1>4, LoopWithin
<1>6. Folded(Forward, base, s) = after[k]
  BY DEF Folded
<1> HIDE DEF after, By
<1>7. ForwardFold(after, s, base, D)
  BY <1>4, <1>5, <1>6 DEF ForwardFold
<1> QED BY <1>7

LEMMA AppendNewLoop ==
    ASSUME NEW s, Len(s) \in Nat, NEW base, NEW D, base \in D[0],
           \A n \in 1..Len(s) : \A x \in D[n - 1] : AppendNew(x, s[n]) \in D[n]
    PROVE  \E f : AppendNewFold(f, s, base, D)
<1> DEFINE k == Len(s)
           By(f) == f = [n \in 0..Len(s) |-> IF n = 0 THEN base ELSE AppendNew(f[n - 1], s[n])]
           after == CHOOSE f : By(f)
           G == [n \in 1..k |-> [x \in D[n - 1] |-> AppendNew(x, s[n])]]
<1>1. PICK f : IsLoop(f, k, base, G, D)
  <2>1. \A n \in 1..k : \A x \in D[n - 1] : G[n][x] \in D[n]
    OBVIOUS
  <2> HIDE DEF G, k
  <2> QED BY <2>1, LoopExists DEF k
<1>2. By(f)
  <2>1. \A n \in 1..k : f[n - 1] \in D[n - 1]
    <3> HIDE DEF G
    <3> QED BY <1>1 DEF IsLoop
  <2>2. \A n \in 1..k : G[n][f[n - 1]] = AppendNew(f[n - 1], s[n])
    BY <2>1
  <2> HIDE DEF G
  <2>3. f = [n \in 0..k |-> f[n]] /\ f[0] = base /\ \A n \in 1..k : f[n] = G[n][f[n - 1]]
    BY <1>1 DEF IsLoop
  <2> HIDE DEF k
  <2>4. \A n \in 1..k : f[n] = AppendNew(f[n - 1], s[n])
    BY <2>2, <2>3
  <2>5. \A n \in 0..k : n # 0 => n \in 1..k
    BY DEF k
  <2>6. f = [n \in 0..k |-> IF n = 0 THEN base ELSE AppendNew(f[n - 1], s[n])]
    BY <2>3, <2>4, <2>5
  <2> QED BY <2>6 DEF k
<1>3. By(after)
  <2> HIDE DEF By
  <2> QED BY <1>2
<1>4. after[0] = base /\ \A n \in 1..k : after[n] = AppendNew(after[n - 1], s[n])
  <2> HIDE DEF after
  <2>1. \A n \in 0..k : after[n] = IF n = 0 THEN base ELSE AppendNew(after[n - 1], s[n])
    BY <1>3
  <2>2. 0 \in 0..k /\ \A n \in 1..k : n \in 0..k /\ n # 0
    OBVIOUS
  <2> HIDE DEF k
  <2> QED BY <2>1, <2>2
<1>5. \A n \in 0..k : after[n] \in D[n]
  <2> HIDE DEF after, By
  <2> QED BY <1>4, LoopWithin
<1>6. Folded(AppendNew, base, s) = after[k]
  BY DEF Folded
<1> HIDE DEF after, By
<1>7. AppendNewFold(after, s, base, D)
  BY <1>4, <1>5, <1>6 DEF AppendNewFold
<1> QED BY <1>7

LEMMA ReadChunkLoop ==
    ASSUME NEW s, Len(s) \in Nat, NEW base, NEW D, base \in D[0],
           \A n \in 1..Len(s) : \A x \in D[n - 1] : ReadChunk(x, s[n]) \in D[n]
    PROVE  \E f : ReadChunkFold(f, s, base, D)
<1> DEFINE k == Len(s)
           By(f) == f = [n \in 0..Len(s) |-> IF n = 0 THEN base ELSE ReadChunk(f[n - 1], s[n])]
           after == CHOOSE f : By(f)
           G == [n \in 1..k |-> [x \in D[n - 1] |-> ReadChunk(x, s[n])]]
<1>1. PICK f : IsLoop(f, k, base, G, D)
  <2>1. \A n \in 1..k : \A x \in D[n - 1] : G[n][x] \in D[n]
    OBVIOUS
  <2> HIDE DEF G, k
  <2> QED BY <2>1, LoopExists DEF k
<1>2. By(f)
  <2>1. \A n \in 1..k : f[n - 1] \in D[n - 1]
    <3> HIDE DEF G
    <3> QED BY <1>1 DEF IsLoop
  <2>2. \A n \in 1..k : G[n][f[n - 1]] = ReadChunk(f[n - 1], s[n])
    BY <2>1
  <2> HIDE DEF G
  <2>3. f = [n \in 0..k |-> f[n]] /\ f[0] = base /\ \A n \in 1..k : f[n] = G[n][f[n - 1]]
    BY <1>1 DEF IsLoop
  <2> HIDE DEF k
  <2>4. \A n \in 1..k : f[n] = ReadChunk(f[n - 1], s[n])
    BY <2>2, <2>3
  <2>5. \A n \in 0..k : n # 0 => n \in 1..k
    BY DEF k
  <2>6. f = [n \in 0..k |-> IF n = 0 THEN base ELSE ReadChunk(f[n - 1], s[n])]
    BY <2>3, <2>4, <2>5
  <2> QED BY <2>6 DEF k
<1>3. By(after)
  <2> HIDE DEF By
  <2> QED BY <1>2
<1>4. after[0] = base /\ \A n \in 1..k : after[n] = ReadChunk(after[n - 1], s[n])
  <2> HIDE DEF after
  <2>1. \A n \in 0..k : after[n] = IF n = 0 THEN base ELSE ReadChunk(after[n - 1], s[n])
    BY <1>3
  <2>2. 0 \in 0..k /\ \A n \in 1..k : n \in 0..k /\ n # 0
    OBVIOUS
  <2> HIDE DEF k
  <2> QED BY <2>1, <2>2
<1>5. \A n \in 0..k : after[n] \in D[n]
  <2> HIDE DEF after, By
  <2> QED BY <1>4, LoopWithin
<1>6. Folded(ReadChunk, base, s) = after[k]
  BY DEF Folded
<1> HIDE DEF after, By
<1>7. ReadChunkFold(after, s, base, D)
  BY <1>4, <1>5, <1>6 DEF ReadChunkFold
<1> QED BY <1>7

LEMMA TakeLoop ==
    ASSUME NEW s, Len(s) \in Nat, NEW base, NEW D, base \in D[0],
           \A n \in 1..Len(s) : \A x \in D[n - 1] : TakeEntry(x, s[n]) \in D[n]
    PROVE  \E f : TakeFold(f, s, base, D)
<1> DEFINE k == Len(s)
           By(f) == f = [n \in 0..Len(s) |-> IF n = 0 THEN base ELSE TakeEntry(f[n - 1], s[n])]
           after == CHOOSE f : By(f)
           G == [n \in 1..k |-> [x \in D[n - 1] |-> TakeEntry(x, s[n])]]
<1>1. PICK f : IsLoop(f, k, base, G, D)
  <2>1. \A n \in 1..k : \A x \in D[n - 1] : G[n][x] \in D[n]
    OBVIOUS
  <2> HIDE DEF G, k
  <2> QED BY <2>1, LoopExists DEF k
<1>2. By(f)
  <2>1. \A n \in 1..k : f[n - 1] \in D[n - 1]
    <3> HIDE DEF G
    <3> QED BY <1>1 DEF IsLoop
  <2>2. \A n \in 1..k : G[n][f[n - 1]] = TakeEntry(f[n - 1], s[n])
    BY <2>1
  <2> HIDE DEF G
  <2>3. f = [n \in 0..k |-> f[n]] /\ f[0] = base /\ \A n \in 1..k : f[n] = G[n][f[n - 1]]
    BY <1>1 DEF IsLoop
  <2> HIDE DEF k
  <2>4. \A n \in 1..k : f[n] = TakeEntry(f[n - 1], s[n])
    BY <2>2, <2>3
  <2>5. \A n \in 0..k : n # 0 => n \in 1..k
    BY DEF k
  <2>6. f = [n \in 0..k |-> IF n = 0 THEN base ELSE TakeEntry(f[n - 1], s[n])]
    BY <2>3, <2>4, <2>5
  <2> QED BY <2>6 DEF k
<1>3. By(after)
  <2> HIDE DEF By
  <2> QED BY <1>2
<1>4. after[0] = base /\ \A n \in 1..k : after[n] = TakeEntry(after[n - 1], s[n])
  <2> HIDE DEF after
  <2>1. \A n \in 0..k : after[n] = IF n = 0 THEN base ELSE TakeEntry(after[n - 1], s[n])
    BY <1>3
  <2>2. 0 \in 0..k /\ \A n \in 1..k : n \in 0..k /\ n # 0
    OBVIOUS
  <2> HIDE DEF k
  <2> QED BY <2>1, <2>2
<1>5. \A n \in 0..k : after[n] \in D[n]
  <2> HIDE DEF after, By
  <2> QED BY <1>4, LoopWithin
<1>6. Folded(TakeEntry, base, s) = after[k]
  BY DEF Folded
<1> HIDE DEF after, By
<1>7. TakeFold(after, s, base, D)
  BY <1>4, <1>5, <1>6 DEF TakeFold
<1> QED BY <1>7

-----------------------------------------------------------------------------
(* What the provider sends *)

LEMMA MessageIsAnItem ==
    ASSUME provider.kinds \in Shapes
    PROVE  /\ Message \in Items /\ Items = 1 .. Len(provider.kinds)
           /\ Len(provider.kinds) \in Nat
           /\ \A i \in Items : /\ provider.kinds[i] \in {"message", "reasoning", "call"}
                               /\ provider.kinds[i] = "message" <=> i = Message
<1> DEFINE kinds == provider.kinds
           M == {i \in DOMAIN kinds : kinds[i] = "message"}
<1>1. kinds \in Seq({"message", "reasoning", "call"}) /\ Cardinality(M) = 1
  BY ShapesAssumption
<1>2. DOMAIN kinds = 1 .. Len(kinds) /\ Len(kinds) \in Nat
      /\ \A i \in DOMAIN kinds : kinds[i] \in {"message", "reasoning", "call"}
  BY <1>1
<1>3. IsFiniteSet(M)
  <2>1. IsFiniteSet(1 .. Len(kinds)) /\ M \subseteq 1 .. Len(kinds)
    BY <1>2, FS_Interval
  <2> HIDE DEF M
  <2> QED BY <2>1, FS_Subset
<1>4. PICK m : M = {m}
  <2> HIDE DEF M
  <2> QED BY <1>1, <1>3, FS_Singleton
<1>5. m \in DOMAIN kinds /\ \A i \in DOMAIN kinds : kinds[i] = "message" <=> i = m
  BY <1>4
<1>6. Message = m
  <2> HIDE DEF kinds, M
  <2> QED BY <1>5 DEF Message, Items, kinds
<1> QED BY <1>2, <1>5, <1>6 DEF Items

LEMMA CharactersTyped ==
    ASSUME NEW chunk \in ReplyChunks
    PROVE  Characters(chunk) \in MessageTexts /\ Len(Characters(chunk)) > 0
<1>1. /\ {"a", "[", "]", "cite:"} \subseteq Characterset
      /\ References \cup {Invented} \subseteq Characterset
  BY DEF Characterset, Letters
<1>2. Prefix \in MessageTexts /\ Len(Prefix) = 3
  BY <1>1 DEF Prefix, MessageTexts
<1>3. CASE chunk \in References \cup {Invented}
  <2>1. Characters(chunk) = Prefix \o <<chunk, "]", "]">>
    BY <1>3, ReferencesAssumption DEF Prose, Characters, Marker
  <2>2. <<chunk, "]", "]">> \in MessageTexts
    BY <1>1, <1>3 DEF MessageTexts
  <2> QED BY <1>2, <2>1, <2>2 DEF MessageTexts
<1>4. CASE chunk \in Prose
  <2>1. CASE chunk = "torn"
    <3>1. Characters(chunk) = Prefix \o <<"a", "a", "a", "a">>
      BY <2>1 DEF Characters
    <3>2. <<"a", "a", "a", "a">> \in MessageTexts
      BY <1>1 DEF MessageTexts
    <3> QED BY <1>2, <3>1, <3>2 DEF MessageTexts
  <2>2. CASE chunk \in {"word", "open", "close", "cell", "edge", "stray"}
    BY <1>1, <2>2 DEF MessageTexts, Characters
  <2> QED BY <1>4, <2>1, <2>2 DEF Prose
<1> QED BY <1>3, <1>4 DEF ReplyChunks

LEMMA WrittenTyped ==
    ASSUME NEW reply \in Replies
    PROVE  Written(reply) \in MessageTexts
<1> DEFINE D == [n \in Nat |-> MessageTexts]
<1>1. reply \in Seq(ReplyChunks)
  BY RepliesAssumption DEF ReplyChunks
<1>2. Len(reply) \in Nat /\ \A n \in 1..Len(reply) : reply[n] \in ReplyChunks
  BY <1>1
<1>3. \A x \in MessageTexts, c \in ReplyChunks : AddChunk(x, c) \in MessageTexts
  <2> SUFFICES ASSUME NEW x \in MessageTexts, NEW c \in ReplyChunks PROVE AddChunk(x, c) \in MessageTexts
    OBVIOUS
  <2>1. Characters(c) \in MessageTexts
    BY CharactersTyped
  <2> QED BY <2>1 DEF AddChunk, MessageTexts
<1>4. <<>> \in MessageTexts
  BY DEF MessageTexts
<1>5. PICK f : AddChunkFold(f, reply, <<>>, D)
  <2>1. <<>> \in D[0] /\ \A n \in 1..Len(reply) : \A x \in D[n - 1] : AddChunk(x, reply[n]) \in D[n]
    BY <1>2, <1>3, <1>4
  <2> HIDE DEF D
  <2> QED BY <1>2, <2>1, AddChunkLoop
<1> QED BY <1>2, <1>5 DEF AddChunkFold, Written

LEMMA TextTyped ==
    ASSUME Provided
    PROVE  /\ Text \in MessageTexts /\ Len(Text) \in Nat
           /\ \A i \in Items : /\ FullText(i) \in Words /\ Len(FullText(i)) \in Nat
                               /\ SentText(i) \in Words /\ Len(SentText(i)) = provider.sent[i]
                               /\ provider.sent[i] = 0 => SentText(i) = <<>>
           /\ SentText(Message) \in MessageTexts
<1>1. Text \in MessageTexts
  BY WrittenTyped DEF Provided, Text
<1>2. Text \in Words
  BY <1>1, SequenceWithin DEF MessageTexts, Words
<1>3. \A i \in Items : FullText(i) \in Words
  <2>1. <<"v", "w">> \in Words
    BY DEF Words
  <2> QED BY <1>2, <2>1 DEF FullText
<1>4. FullText(Message) = Text
  BY DEF FullText
<1>5. ASSUME NEW i \in Items PROVE
        /\ Len(FullText(i)) \in Nat
        /\ SentText(i) \in Words /\ Len(SentText(i)) = provider.sent[i]
        /\ provider.sent[i] = 0 => SentText(i) = <<>>
  <2>1. FullText(i) \in Words /\ provider.sent[i] \in Nat /\ provider.sent[i] <= Len(FullText(i))
    BY <1>3 DEF Provided
  <2> QED BY <2>1 DEF SentText, Words
<1>6. SentText(Message) \in MessageTexts
  <2>1. Message \in Items
    BY MessageIsAnItem DEF Provided
  <2>2. provider.sent[Message] \in Nat /\ provider.sent[Message] <= Len(Text)
    BY <1>4, <2>1 DEF Provided
  <2> QED BY <1>1, <1>4, <2>2 DEF SentText, MessageTexts
<1>7. Len(Text) \in Nat
  BY <1>1 DEF MessageTexts
<1> QED BY <1>1, <1>3, <1>5, <1>6, <1>7

-----------------------------------------------------------------------------
(* What the readers make of an event *)

LEMMA Joined ==
    ASSUME NEW S, NEW s \in Seq(S), NEW t \in Seq(S)
    PROVE  /\ s \o t \in Seq(S) /\ Len(s \o t) = Len(s) + Len(t)
           /\ \A n \in 1 .. Len(s) + Len(t) :
                 (s \o t)[n] = IF n <= Len(s) THEN s[n] ELSE t[n - Len(s)]
OBVIOUS

LEMMA Inserted ==
    ASSUME NEW S, NEW s \in Seq(S), NEW e \in S, NEW p \in 1 .. Len(s) + 1
    PROVE  WithInserted(InsertAt(s, p, e), S, s, p, e)
<1> DEFINE before == SubSeq(s, 1, p - 1)
           after == SubSeq(s, p, Len(s))
           new == before \o <<e>> \o after
<1>1. before \in Seq(S) /\ Len(before) = p - 1 /\ \A n \in 1 .. p - 1 : before[n] = s[n]
  OBVIOUS
<1>2. after \in Seq(S) /\ Len(after) = Len(s) - p + 1
      /\ \A n \in 1 .. Len(s) - p + 1 : after[n] = s[n + p - 1]
  OBVIOUS
<1> HIDE DEF before, after
<1>3. /\ new \in Seq(S) /\ Len(new) = Len(s) + 1
      /\ \A n \in 1 .. Len(s) + 1 :
            new[n] = IF n < p THEN before[n] ELSE IF n = p THEN e ELSE after[n - p]
  <2> DEFINE upto == before \o <<e>>
  <2>1. <<e>> \in Seq(S) /\ Len(<<e>>) = 1 /\ <<e>>[1] = e
    OBVIOUS
  <2>2. /\ upto \in Seq(S) /\ Len(upto) = Len(before) + 1
        /\ \A n \in 1 .. Len(before) + 1 :
              upto[n] = IF n <= Len(before) THEN before[n] ELSE <<e>>[n - Len(before)]
    BY <1>1, <2>1, Joined
  <2>3. upto[p] = e /\ \A n \in 1 .. p - 1 : upto[n] = before[n]
    BY <1>1, <2>1, <2>2
  <2> HIDE DEF upto
  <2>4. /\ upto \o after \in Seq(S) /\ Len(upto \o after) = Len(upto) + Len(after)
        /\ \A n \in 1 .. Len(upto) + Len(after) :
              (upto \o after)[n] = IF n <= Len(upto) THEN upto[n] ELSE after[n - Len(upto)]
    BY <1>2, <2>2, Joined
  <2>5. Len(upto) = p
    BY <1>1, <2>2
  <2>6. new = upto \o after
    BY DEF upto
  <2> HIDE DEF new
  <2>7. new \in Seq(S) /\ Len(new) = Len(s) + 1
    BY <1>2, <2>4, <2>5, <2>6
  <2>8. ASSUME NEW n \in 1 .. Len(s) + 1
        PROVE  new[n] = IF n < p THEN before[n] ELSE IF n = p THEN e ELSE after[n - p]
    <3>1. new[n] = IF n <= p THEN upto[n] ELSE after[n - p]
      <4>1. n \in 1 .. Len(upto) + Len(after)
        BY <1>2, <2>5
      <4> QED BY <2>4, <2>5, <2>6, <4>1
    <3> QED BY <2>3, <3>1
  <2> QED BY <2>7, <2>8
<1>4. ASSUME NEW n \in 1 .. Len(s) + 1
      PROVE  new[n] = IF n < p THEN s[n] ELSE IF n = p THEN e ELSE s[n - 1]
  <2> HIDE DEF new
  <2>1. n < p => n \in 1 .. p - 1
    OBVIOUS
  <2>2. n > p => n - p \in 1 .. Len(s) - p + 1 /\ (n - p) + p - 1 = n - 1
    OBVIOUS
  <2>3. CASE n < p
    <3>1. before[n] = s[n]
      BY <1>1, <2>1, <2>3
    <3> QED BY <1>3, <2>3, <3>1
  <2>4. CASE n = p
    BY <1>3, <2>4
  <2>5. CASE n > p
    <3>1. after[n - p] = s[(n - p) + p - 1]
      BY <1>2, <2>2, <2>5
    <3> QED BY <1>3, <2>2, <2>5, <3>1
  <2> QED BY <2>3, <2>4, <2>5
<1>5. InsertAt(s, p, e) = new
  BY DEF InsertAt, before, after
<1> HIDE DEF new
<1>6. WithInserted(new, S, s, p, e)
  BY <1>3, <1>4 DEF WithInserted
<1> QED BY <1>5, <1>6

LEMMA Removed ==
    ASSUME NEW S, NEW s \in Seq(S), NEW p \in 1 .. Len(s)
    PROVE  WithRemoved(RemoveAt(s, p), S, s, p)
<1> DEFINE before == SubSeq(s, 1, p - 1)
           after == SubSeq(s, p + 1, Len(s))
           new == before \o after
<1>1. before \in Seq(S) /\ Len(before) = p - 1 /\ \A n \in 1 .. p - 1 : before[n] = s[n]
  OBVIOUS
<1>2. after \in Seq(S) /\ Len(after) = Len(s) - p
      /\ \A n \in 1 .. Len(s) - p : after[n] = s[n + p]
  OBVIOUS
<1> HIDE DEF before, after
<1>3. /\ new \in Seq(S) /\ Len(new) = Len(s) - 1
      /\ \A n \in 1 .. Len(s) - 1 : new[n] = IF n < p THEN before[n] ELSE after[n - (p - 1)]
  <2>1. /\ new \in Seq(S) /\ Len(new) = Len(before) + Len(after)
        /\ \A n \in 1 .. Len(before) + Len(after) :
              new[n] = IF n <= Len(before) THEN before[n] ELSE after[n - Len(before)]
    BY <1>1, <1>2, Joined
  <2> HIDE DEF new
  <2>2. Len(before) = p - 1 /\ Len(before) + Len(after) = Len(s) - 1
    BY <1>1, <1>2
  <2> QED BY <2>1, <2>2
<1>4. ASSUME NEW n \in 1 .. Len(s) - 1
      PROVE  new[n] = IF n < p THEN s[n] ELSE s[n + 1]
  <2> HIDE DEF new
  <2>1. n < p => n \in 1 .. p - 1
    OBVIOUS
  <2>2. n >= p => n - (p - 1) \in 1 .. Len(s) - p /\ (n - (p - 1)) + p = n + 1
    OBVIOUS
  <2> QED BY <1>1, <1>2, <1>3, <2>1, <2>2
<1>5. RemoveAt(s, p) = new
  BY DEF RemoveAt, before, after
<1> HIDE DEF new
<1>6. WithRemoved(new, S, s, p)
  BY <1>3, <1>4 DEF WithRemoved
<1> QED BY <1>5, <1>6

LEMMA RangeOfSequence ==
    ASSUME NEW S, NEW s \in Seq(S)
    PROVE  Range(s) = {s[n] : n \in 1 .. Len(s)}
BY DEF Range

LEMMA ReplacedItem ==
    ASSUME NEW S, NEW order, Lists(order, S), NEW id, NEW place \in Nat \ {0}
    PROVE  /\ Lists(ReplaceItem(order, id, place), S \cup {id})
           /\ PutAt(ReplaceItem(order, id, place), order, id, place)
<1> DEFINE T == S \cup {id}
           new == ReplaceItem(order, id, place)
<1>1. order \in Seq(T) /\ Len(order) \in Nat
      /\ id \in T /\ Range(order) = {order[n] : n \in 1 .. Len(order)}
      /\ \A n \in 1 .. Len(order) : order[n] \in S
  <2>1. order \in Seq(S)
    BY DEF Lists
  <2> QED BY <2>1, RangeOfSequence, SequenceWithin
<1>2. CASE id \notin Range(order)
  <2> DEFINE p == IF place <= Len(order) THEN place ELSE Len(order) + 1
  <2>1. p \in 1 .. Len(order) + 1 /\ new = InsertAt(order, p, id)
    BY <1>1, <1>2 DEF ReplaceItem
  <2>2. /\ new \in Seq(T) /\ Len(new) = Len(order) + 1
        /\ \A n \in 1 .. Len(order) + 1 :
              new[n] = IF n < p THEN order[n] ELSE IF n = p THEN id ELSE order[n - 1]
    <3> HIDE DEF p, new, T
    <3>1. order \in Seq(T) /\ id \in T /\ p \in 1 .. Len(order) + 1
      BY <1>1, <2>1
    <3>2. WithInserted(InsertAt(order, p, id), T, order, p, id)
      BY <3>1, Inserted
    <3>3. WithInserted(new, T, order, p, id)
      BY <2>1, <3>2
    <3> QED BY <3>3 DEF WithInserted
  <2>3. id \notin S /\ \A n \in 1 .. Len(order) : order[n] # id
    BY <1>1, <1>2 DEF Lists
  <2>4. ASSUME NEW e \in T PROVE \E n \in 1 .. Len(new) : new[n] = e
    <3> HIDE DEF p, new
    <3>1. CASE e = id
      BY <1>1, <2>1, <2>2, <3>1
    <3>2. CASE e \in S
      <4>1. PICK n \in 1 .. Len(order) : order[n] = e
        BY <3>2 DEF Lists
      <4>2. CASE n < p
        BY <1>1, <2>1, <2>2, <4>1, <4>2
      <4>3. CASE n >= p
        <5>1. n + 1 \in 1 .. Len(new) /\ new[n + 1] = e
          BY <1>1, <2>1, <2>2, <4>1, <4>3
        <5> QED BY <5>1
      <4> QED BY <1>1, <2>1, <4>1, <4>2, <4>3
    <3> QED BY <3>1, <3>2
  <2>5. ASSUME NEW m \in 1 .. Len(new), NEW n \in 1 .. Len(new), new[m] = new[n], m < n
        PROVE  FALSE
    <3> HIDE DEF p, new, T
    <3>1. \A i, j \in 1 .. Len(order) : order[i] = order[j] => i = j
      BY DEF Lists
    <3>2. CASE n < p
      <4>1. m \in 1 .. Len(order) /\ n \in 1 .. Len(order) /\ m # n
        BY <1>1, <2>1, <2>2, <2>5, <3>2
      <4>2. new[m] = order[m] /\ new[n] = order[n]
        BY <1>1, <2>1, <2>2, <2>5, <3>2
      <4> QED BY <2>5, <3>1, <4>1, <4>2
    <3>3. CASE n = p
      <4>1. new[n] = id
        BY <2>2, <3>3
      <4>2. m \in 1 .. Len(order) /\ new[m] = order[m]
        BY <1>1, <2>1, <2>2, <2>5, <3>3
      <4> QED BY <2>3, <2>5, <4>1, <4>2
    <3>4. CASE n > p
      <4>1. n - 1 \in 1 .. Len(order) /\ new[n] = order[n - 1]
        BY <1>1, <2>1, <2>2, <3>4
      <4>2. CASE m < p
        <5>1. m \in 1 .. Len(order) /\ m # n - 1
          BY <1>1, <2>1, <2>2, <3>4, <4>2
        <5>2. new[m] = order[m]
          BY <2>2, <4>2, <5>1
        <5> QED BY <2>5, <3>1, <4>1, <5>1, <5>2
      <4>3. CASE m = p
        <5>1. new[m] = id
          <6>1. new[p] = id
            BY <1>1, <2>1, <2>2
          <6> QED BY <4>3, <6>1
        <5> QED BY <2>3, <2>5, <4>1, <5>1
      <4>4. CASE m > p
        <5>1. m - 1 \in 1 .. Len(order) /\ m - 1 # n - 1
          BY <1>1, <2>1, <2>2, <2>5, <4>4
        <5>2. new[m] = order[m - 1]
          BY <1>1, <2>1, <2>2, <4>4
        <5> QED BY <2>5, <3>1, <4>1, <5>1, <5>2
      <4> QED BY <1>1, <2>1, <2>2, <4>2, <4>3, <4>4
    <3> QED BY <2>1, <2>2, <3>2, <3>3, <3>4
  <2>6. \A m, n \in 1 .. Len(new) : new[m] = new[n] => m = n
    <3> HIDE DEF p, new, T
    <3> QED BY <1>1, <2>2, <2>5
  <2>7. place <= Len(order) + 1 => p = place
    BY <1>1
  <2> HIDE DEF p, new
  <2>8. Lists(new, T)
    <3> HIDE DEF T
    <3> QED BY <2>2, <2>4, <2>6 DEF Lists
  <2>9. ASSUME place <= Len(order) + 1
        PROVE  place <= Len(new) /\ new[place] = id /\ \A n \in 1 .. place - 1 : new[n] = order[n]
    <3> HIDE DEF T
    <3> QED BY <1>1, <2>1, <2>2, <2>7, <2>9
  <2> QED BY <2>8, <2>9 DEF new, PutAt
<1>3. CASE id \in Range(order)
  <2> DEFINE at == CHOOSE n \in DOMAIN order : order[n] = id
  <2>1. at \in 1 .. Len(order) /\ order[at] = id
    <3>1. \E n \in DOMAIN order : order[n] = id
      BY <1>3 DEF Range
    <3>2. DOMAIN order = 1 .. Len(order)
      BY <1>1
    <3> QED BY <3>1, <3>2
  <2>2. T = S /\ id \in S
    BY <1>1, <2>1
  <2>3. new = IF at # place /\ place <= Len(order)
              THEN InsertAt(RemoveAt(order, at), place, id) ELSE order
    BY <1>3 DEF ReplaceItem
  <2>4. CASE at # place /\ place <= Len(order)
    <3> DEFINE rest == RemoveAt(order, at)
    <3>1. /\ rest \in Seq(S) /\ Len(rest) = Len(order) - 1
          /\ \A n \in 1 .. Len(order) - 1 :
                rest[n] = IF n < at THEN order[n] ELSE order[n + 1]
      <4>1. WithRemoved(rest, S, order, at)
        <5> HIDE DEF new, at
        <5> QED BY <1>1, <2>1, <2>2, Removed
      <4> HIDE DEF new, at, rest
      <4> QED BY <4>1 DEF WithRemoved
    <3>2. /\ new \in Seq(S) /\ Len(new) = Len(order)
          /\ \A n \in 1 .. Len(order) :
                new[n] = IF n < place THEN rest[n] ELSE IF n = place THEN id ELSE rest[n - 1]
      <4>1. new = InsertAt(rest, place, id) /\ place \in 1 .. Len(rest) + 1
        <5> HIDE DEF rest, at, new
        <5>1. Len(rest) + 1 = Len(order)
          BY <1>1, <3>1
        <5> QED BY <2>3, <2>4, <5>1 DEF rest
      <4>2. Len(rest) + 1 = Len(order)
        <5> HIDE DEF rest, at, new
        <5> QED BY <1>1, <3>1
      <4> HIDE DEF new, rest, at
      <4>3. WithInserted(new, S, rest, place, id)
        BY <2>2, <3>1, <4>1, Inserted
      <4> QED BY <4>2, <4>3 DEF WithInserted
    <3> HIDE DEF new, rest, at
    <3>3. \A i, j \in 1 .. Len(order) : order[i] = order[j] => i = j
      BY DEF Lists
    <3>4. ASSUME NEW n \in 1 .. Len(order) - 1
          PROVE  rest[n] \in S \ {id}
      <4>1. \A m \in 1 .. Len(order) : m # at => order[m] \in S \ {id}
        BY <1>1, <2>1, <3>3
      <4>2. CASE n < at
        <5>1. n \in 1 .. Len(order) /\ n # at
          BY <1>1, <2>1, <4>2
        <5> QED BY <3>1, <4>1, <4>2, <5>1
      <4>3. CASE n >= at
        <5>1. n + 1 \in 1 .. Len(order) /\ n + 1 # at
          BY <1>1, <2>1, <4>3
        <5>2. rest[n] = order[n + 1]
          BY <1>1, <2>1, <3>1, <4>3
        <5> QED BY <4>1, <5>1, <5>2
      <4> QED BY <1>1, <2>1, <4>2, <4>3
    <3>5. ASSUME NEW m \in 1 .. Len(order) - 1, NEW n \in 1 .. Len(order) - 1, rest[m] = rest[n]
          PROVE  m = n
      <4>1. CASE m < at /\ n < at
        BY <1>1, <2>1, <3>1, <3>3, <3>5, <4>1
      <4>2. CASE m < at /\ n >= at
        BY <1>1, <2>1, <3>1, <3>3, <3>5, <4>2
      <4>3. CASE m >= at /\ n < at
        BY <1>1, <2>1, <3>1, <3>3, <3>5, <4>3, SMTT(30)
      <4>4. CASE m >= at /\ n >= at
        BY <1>1, <2>1, <3>1, <3>3, <3>5, <4>4
      <4> QED BY <1>1, <2>1, <4>1, <4>2, <4>3, <4>4
    <3>6. ASSUME NEW e \in S, e # id PROVE \E n \in 1 .. Len(order) - 1 : rest[n] = e
      <4>1. PICK n \in 1 .. Len(order) : order[n] = e
        BY DEF Lists
      <4>2. CASE n < at
        BY <1>1, <2>1, <3>1, <4>1, <4>2
      <4>3. CASE n > at
        <5>1. n - 1 \in 1 .. Len(order) - 1 /\ rest[n - 1] = e
          BY <1>1, <2>1, <3>1, <4>1, <4>3
        <5> QED BY <5>1
      <4> QED BY <1>1, <2>1, <3>6, <4>1, <4>2, <4>3
    <3>7. ASSUME NEW e \in S PROVE \E n \in 1 .. Len(order) : new[n] = e
      <4>1. CASE e = id
        BY <1>1, <2>4, <3>2, <4>1
      <4>2. CASE e # id
        <5>1. PICK n \in 1 .. Len(order) - 1 : rest[n] = e
          BY <3>6, <4>2
        <5>2. CASE n < place
          BY <1>1, <3>2, <5>1, <5>2
        <5>3. CASE n >= place
          <6>1. n + 1 \in 1 .. Len(order) /\ new[n + 1] = e
            BY <1>1, <3>2, <5>1, <5>3
          <6> QED BY <6>1
        <5> QED BY <1>1, <5>1, <5>2, <5>3
      <4> QED BY <4>1, <4>2
    <3>8. ASSUME NEW m \in 1 .. Len(order), NEW n \in 1 .. Len(order), new[m] = new[n], m < n
          PROVE  FALSE
      <4>1. CASE n < place
        BY <1>1, <2>4, <3>2, <3>5, <3>8, <4>1
      <4>2. CASE n = place
        <5>1. m \in 1 .. Len(order) - 1 /\ new[m] = rest[m] /\ new[n] = id
          BY <1>1, <2>4, <3>2, <3>8, <4>2
        <5> QED BY <3>4, <3>8, <5>1
      <4>3. CASE n > place
        <5>1. n - 1 \in 1 .. Len(order) - 1 /\ new[n] = rest[n - 1]
          BY <1>1, <2>4, <3>2, <4>3
        <5>2. CASE m < place
          <6>1. m \in 1 .. Len(order) - 1 /\ new[m] = rest[m] /\ m # n - 1
            BY <1>1, <2>4, <3>2, <4>3, <5>2
          <6> QED BY <3>5, <3>8, <5>1, <6>1
        <5>3. CASE m = place
          BY <1>1, <2>4, <3>2, <3>4, <3>8, <5>1, <5>3
        <5>4. CASE m > place
          <6>1. m - 1 \in 1 .. Len(order) - 1 /\ new[m] = rest[m - 1] /\ m - 1 # n - 1
            BY <1>1, <2>4, <3>2, <3>8, <5>4
          <6> QED BY <3>5, <3>8, <5>1, <6>1
        <5> QED BY <1>1, <2>4, <5>2, <5>3, <5>4
      <4> QED BY <1>1, <2>4, <4>1, <4>2, <4>3
    <3>9. \A m, n \in 1 .. Len(new) : new[m] = new[n] => m = n
      BY <1>1, <3>2, <3>8
    <3>10. ASSUME \A n \in 1 .. place - 1 : order[n] # id
           PROVE  \A n \in 1 .. place - 1 : new[n] = order[n]
      <4>1. at > place
        BY <1>1, <2>1, <2>4, <3>10
      <4> SUFFICES ASSUME NEW n \in 1 .. place - 1 PROVE new[n] = order[n]
        OBVIOUS
      <4>2. n \in 1 .. Len(order) - 1 /\ n < place /\ n < at /\ n \in 1 .. Len(order)
        BY <1>1, <2>1, <2>4, <4>1
      <4> QED BY <3>1, <3>2, <4>2
    <3>11. Lists(new, S)
      BY <3>2, <3>7, <3>9 DEF Lists
    <3>12. place <= Len(new) /\ new[place] = id
      BY <1>1, <2>4, <3>2
    <3> QED BY <2>2, <3>10, <3>11, <3>12 DEF new, PutAt
  <2>5. CASE ~(at # place /\ place <= Len(order))
    <3>1. new = order
      BY <2>3, <2>5
    <3>2. ASSUME place <= Len(order) + 1, \A n \in 1 .. place - 1 : order[n] # id
          PROVE  at = place
      <4> HIDE DEF at
      <4> QED BY <1>1, <2>1, <2>5, <3>2
    <3> HIDE DEF at, new
    <3>3. Lists(new, T)
      BY <2>2, <3>1
    <3>4. ASSUME place <= Len(order) + 1, \A n \in 1 .. place - 1 : order[n] # id
          PROVE  place <= Len(new) /\ new[place] = id /\ \A n \in 1 .. place - 1 : new[n] = order[n]
      BY <1>1, <2>1, <3>1, <3>2, <3>4
    <3> QED BY <3>3, <3>4 DEF new, PutAt
  <2> QED BY <2>4, <2>5
<1> QED BY <1>2, <1>3

(* Annotations that are all there already add nothing.                     *)
LEMMA MergedSame ==
    ASSUME NEW S, NEW known \in Seq(S), NEW more \in Seq(S), Range(more) \subseteq Range(known)
    PROVE  MergedAnnotations(known, more) = known
<1> DEFINE D == [n \in Nat |-> {known}]
<1>1. Len(more) \in Nat /\ \A n \in 1 .. Len(more) : more[n] \in Range(known)
  <2>1. Range(more) = {more[n] : n \in 1 .. Len(more)}
    BY RangeOfSequence
  <2> QED BY <2>1
<1>2. PICK f : AppendNewFold(f, more, known, D)
  <2>1. known \in D[0] /\ \A n \in 1..Len(more) : \A x \in D[n - 1] : AppendNew(x, more[n]) \in D[n]
    BY <1>1 DEF AppendNew
  <2> HIDE DEF D
  <2> QED BY <1>1, <2>1, AppendNewLoop
<1> QED BY <1>1, <1>2 DEF AppendNewFold, MergedAnnotations

(* Annotations that differ from each other are all added to none.          *)
LEMMA MergedNew ==
    ASSUME NEW S, NEW more \in Seq(S), \A m, n \in 1 .. Len(more) : more[m] = more[n] => m = n
    PROVE  MergedAnnotations(<<>>, more) = more
<1> DEFINE D == [n \in Nat |-> {SubSeq(more, 1, n)}]
<1>1. Len(more) \in Nat
  OBVIOUS
<1>2. <<>> \in D[0]
  OBVIOUS
<1>3. ASSUME NEW n \in 1 .. Len(more)
      PROVE  \A x \in D[n - 1] : AppendNew(x, more[n]) \in D[n]
  <2> DEFINE x == SubSeq(more, 1, n - 1)
  <2>1. x \in Seq(S) /\ Len(x) = n - 1 /\ \A m \in 1 .. n - 1 : x[m] = more[m]
    OBVIOUS
  <2>2. more[n] \notin Range(x)
    <3>1. Range(x) = {x[m] : m \in 1 .. n - 1}
      <4> HIDE DEF x
      <4> QED BY <2>1, RangeOfSequence
    <3> HIDE DEF x
    <3> QED BY <2>1, <3>1
  <2>3. Append(x, more[n]) = SubSeq(more, 1, n)
    OBVIOUS
  <2>4. AppendNew(x, more[n]) = SubSeq(more, 1, n)
    <3> HIDE DEF x
    <3> QED BY <2>2, <2>3 DEF AppendNew
  <2>5. n - 1 \in Nat /\ n \in Nat
    OBVIOUS
  <2>6. D[n - 1] = {x} /\ D[n] = {SubSeq(more, 1, n)}
    BY <2>5
  <2> HIDE DEF x, D
  <2> QED BY <2>4, <2>6
<1>4. PICK f : AppendNewFold(f, more, <<>>, D)
  <2> HIDE DEF D
  <2> QED BY <1>1, <1>2, <1>3, AppendNewLoop
<1>5. D[Len(more)] = {more}
  BY <1>1
<1> QED BY <1>1, <1>4, <1>5 DEF AppendNewFold, MergedAnnotations

LEMMA ListedMember ==
    ASSUME NEW S, NEW order, Lists(order, S)
    PROVE  Range(order) = S
<1>1. order \in Seq(S) /\ \A n \in 1 .. Len(order) : order[n] \in S
  BY DEF Lists
<1>2. Range(order) = {order[n] : n \in 1 .. Len(order)}
  BY <1>1, RangeOfSequence
<1> QED BY <1>1, <1>2, SMTT(30) DEF Lists

LEMMA SyncedParts ==
    ASSUME NEW r, NEW F, NEW S, NEW st, Synced(r, F, S, st)
    PROVE  /\ r.reducer = [shells |-> S, items |-> F, status |-> st]
           /\ r.web = [order |-> r.web.order, items |-> F, status |-> "streaming"]
           /\ r.terminal = Quiet /\ Lists(r.web.order, S)
BY DEF Synced

LEMMA QuietStays ==
    ASSUME NEW e, e.type \in ItemEvents \cup ContentEvents \cup {"created", "error"},
           "response_id" \notin DOMAIN e
    PROVE  TerminalFold(Quiet, e) = Quiet
<1>1. ResponseId(e) = ""
  BY DEF ResponseId
<1> QED BY <1>1 DEF TerminalFold, ItemEvents, ContentEvents

LEMMA Delivered ==
    ASSUME NEW r, NEW F, NEW S, NEW st, Synced(r, F, S, st), NEW e, e.type # "terminal",
           NEW G, NEW T, NEW new, NEW order,
           Reduce([shells |-> S, items |-> F, status |-> st], e)
                = [shells |-> T, items |-> G, status |-> new],
           WebFold([order |-> r.web.order, items |-> F, status |-> "streaming"], e)
                = [order |-> order, items |-> G, status |-> "streaming"],
           TerminalFold(Quiet, e) = Quiet, Lists(order, T)
    PROVE  Synced(Deliver(r, e), G, T, new)
<1>1. Forwarded(e, Reduce(r.reducer, e)) = e
  BY DEF Forwarded
<1>2. Deliver(r, e) = [reducer |-> Reduce(r.reducer, e), web |-> WebFold(r.web, e),
                       terminal |-> TerminalFold(r.terminal, e)]
  BY <1>1 DEF Deliver
<1>3. Deliver(r, e) = [reducer |-> [shells |-> T, items |-> G, status |-> new],
                       web |-> [order |-> order, items |-> G, status |-> "streaming"],
                       terminal |-> Quiet]
  BY <1>2, SyncedParts
<1> QED BY <1>3 DEF Synced

LEMMA DeltaArrives ==
    ASSUME provider.kinds \in Shapes, NEW r, NEW F \in ItemsSeen, NEW S \in SUBSET Items,
           NEW st, Synced(r, F, S, st), NEW i \in S, NEW text
    PROVE  Synced(Deliver(r, DeltaOf(i, text)), [F EXCEPT ![i].text = @ \o text], S, st)
<1> DEFINE e == DeltaOf(i, text)
           G == [F EXCEPT ![i].text = @ \o text]
           order == ReplaceItem(r.web.order, i, i)
<1>1. i \in Items /\ i \in Nat \ {0} /\ S \cup {i} = S
  BY MessageIsAnItem
<1>2. /\ e.type = "delta" /\ e.index = i /\ e.text = text /\ "response_id" \notin DOMAIN e
      /\ e.type \in ContentEvents /\ e.type \notin ItemEvents
  BY DEF DeltaOf, ItemEvents, ContentEvents
<1> HIDE DEF e
<1>3. Reduce([shells |-> S, items |-> F, status |-> st], e) = [shells |-> S, items |-> G, status |-> st]
  BY <1>2 DEF Reduce
<1>4. WebFold([order |-> r.web.order, items |-> F, status |-> "streaming"], e)
        = [order |-> order, items |-> G, status |-> "streaming"]
  BY <1>2 DEF WebFold, UpdateItem
<1>5. TerminalFold(Quiet, e) = Quiet
  BY <1>2, QuietStays
<1>6. Lists(order, S)
  <2>1. Lists(r.web.order, S)
    BY SyncedParts
  <2>2. Lists(order, S \cup {i})
    BY <1>1, <2>1, ReplacedItem
  <2> QED BY <1>1, <2>2
<1> HIDE DEF order, G
<1>7. Synced(Deliver(r, e), G, S, st)
  BY <1>2, <1>3, <1>4, <1>5, <1>6, Delivered
<1> QED BY <1>7 DEF e, G

LEMMA TextDoneArrives ==
    ASSUME provider.kinds \in Shapes, NEW r, NEW F \in ItemsSeen, NEW S \in SUBSET Items,
           NEW st, Synced(r, F, S, st), NEW i \in S, NEW text
    PROVE  Synced(Deliver(r, TextDoneOf(i, text)), [F EXCEPT ![i].text = text], S, st)
<1> DEFINE e == TextDoneOf(i, text)
           G == [F EXCEPT ![i].text = text]
           order == ReplaceItem(r.web.order, i, i)
<1>1. i \in Items /\ i \in Nat \ {0} /\ S \cup {i} = S
  BY MessageIsAnItem
<1>2. /\ e.type = "text done" /\ e.index = i /\ e.text = text /\ "response_id" \notin DOMAIN e
      /\ e.type \in ContentEvents /\ e.type \notin ItemEvents
  BY DEF TextDoneOf, ItemEvents, ContentEvents
<1> HIDE DEF e
<1>3. Reduce([shells |-> S, items |-> F, status |-> st], e) = [shells |-> S, items |-> G, status |-> st]
  BY <1>2 DEF Reduce
<1>4. WebFold([order |-> r.web.order, items |-> F, status |-> "streaming"], e)
        = [order |-> order, items |-> G, status |-> "streaming"]
  BY <1>2 DEF WebFold, UpdateItem
<1>5. TerminalFold(Quiet, e) = Quiet
  BY <1>2, QuietStays
<1>6. Lists(order, S)
  <2>1. Lists(r.web.order, S)
    BY SyncedParts
  <2>2. Lists(order, S \cup {i})
    BY <1>1, <2>1, ReplacedItem
  <2> QED BY <1>1, <2>2
<1> HIDE DEF order, G
<1>7. Synced(Deliver(r, e), G, S, st)
  BY <1>2, <1>3, <1>4, <1>5, <1>6, Delivered
<1> QED BY <1>7 DEF e, G

LEMMA InsertedLast ==
    ASSUME NEW S, NEW s \in Seq(S), NEW e \in S
    PROVE  InsertAnnotation(s, Len(s) + 1, e) = Append(s, e)
<1>1. Len(s) \in Nat
  OBVIOUS
<1>2. InsertAnnotation(s, Len(s) + 1, e) = InsertAt(s, Len(s) + 1, e)
  BY <1>1 DEF InsertAnnotation
<1> DEFINE new == InsertAt(s, Len(s) + 1, e)
<1>3. /\ new \in Seq(S) /\ Len(new) = Len(s) + 1
      /\ \A n \in 1 .. Len(s) + 1 :
            new[n] = IF n < Len(s) + 1 THEN s[n] ELSE IF n = Len(s) + 1 THEN e ELSE s[n - 1]
  <2> DEFINE p == Len(s) + 1
  <2>1. p \in 1 .. Len(s) + 1
    BY <1>1
  <2> HIDE DEF p
  <2>2. WithInserted(InsertAt(s, p, e), S, s, p, e)
    BY <2>1, Inserted
  <2>3. WithInserted(new, S, s, Len(s) + 1, e)
    BY <2>2 DEF p
  <2> HIDE DEF new
  <2> QED BY <2>3 DEF WithInserted
<1> HIDE DEF new
<1>4. new = Append(s, e)
  BY <1>1, <1>3
<1> QED BY <1>2, <1>4 DEF new

LEMMA AnnotationArrives ==
    ASSUME provider.kinds \in Shapes, NEW r, NEW F \in ItemsSeen, NEW S \in SUBSET Items,
           NEW st, Synced(r, F, S, st), NEW i \in S, NEW a \in Annotations
    PROVE  Synced(Deliver(r, AnnotationOf(i, Len(F[i].annotations) + 1, a)),
                  [F EXCEPT ![i].annotations = Append(@, a)], S, st)
<1> DEFINE at == Len(F[i].annotations) + 1
           e == AnnotationOf(i, at, a)
           G == [F EXCEPT ![i].annotations = Append(@, a)]
           order == ReplaceItem(r.web.order, i, i)
<1>1. i \in Items /\ i \in Nat \ {0} /\ S \cup {i} = S
  BY MessageIsAnItem
<1>2. /\ e.type = "annotation" /\ e.index = i /\ e.at = at /\ e.annotation = a
      /\ "response_id" \notin DOMAIN e
      /\ e.type \in ContentEvents /\ e.type \notin ItemEvents
  BY DEF AnnotationOf, ItemEvents, ContentEvents
<1>3. InsertAnnotation(F[i].annotations, at, a) = Append(F[i].annotations, a)
  <2>1. F[i].annotations \in Seq(Annotations)
    BY <1>1 DEF ItemsSeen, ItemType, Annotations, MessageTexts
  <2> QED BY <2>1, InsertedLast
<1> HIDE DEF e, at
<1>4. Reduce([shells |-> S, items |-> F, status |-> st], e) = [shells |-> S, items |-> G, status |-> st]
  BY <1>2, <1>3 DEF Reduce
<1>5. WebFold([order |-> r.web.order, items |-> F, status |-> "streaming"], e)
        = [order |-> order, items |-> G, status |-> "streaming"]
  BY <1>2, <1>3 DEF WebFold, UpdateItem
<1>6. TerminalFold(Quiet, e) = Quiet
  BY <1>2, QuietStays
<1>7. Lists(order, S)
  <2>1. Lists(r.web.order, S)
    BY SyncedParts
  <2>2. Lists(order, S \cup {i})
    BY <1>1, <2>1, ReplacedItem
  <2> QED BY <1>1, <2>2
<1> HIDE DEF order, G
<1>8. Synced(Deliver(r, e), G, S, st)
  BY <1>2, <1>4, <1>5, <1>6, <1>7, Delivered
<1> QED BY <1>8 DEF e, G, at

LEMMA SeededSame ==
    ASSUME NEW t, NEW a, NEW p, NEW item, item.text = t \/ item.text = <<>>,
           item.annotations = a, MergedAnnotations(a, a) = a
    PROVE  LET old == [text |-> t, annotations |-> a, phase |-> p]
           IN  /\ Seeded(old, item) = old
               /\ item.phase = p => Placed(old, item) = old
<1> DEFINE old == [text |-> t, annotations |-> a, phase |-> p]
<1>1. (IF item.text # <<>> THEN item.text ELSE old.text) = t
  OBVIOUS
<1>2. MergedAnnotations(old.annotations, item.annotations) = a
  OBVIOUS
<1>3. Seeded(old, item) = [old EXCEPT !.text = t, !.annotations = a]
  BY <1>1, <1>2 DEF Seeded
<1>4. Seeded(old, item) = old
  BY <1>3
<1>5. item.phase = p => [old EXCEPT !.phase = item.phase] = old
  OBVIOUS
<1> HIDE DEF old
<1>6. item.phase = p => Placed(old, item) = old
  BY <1>4, <1>5 DEF Placed
<1> QED BY <1>4, <1>6 DEF old

LEMMA SameItems ==
    ASSUME NEW F \in ItemsSeen, NEW i \in Items, NEW x, x = F[i]
    PROVE  [F EXCEPT ![i] = x] = F
BY DEF ItemsSeen

LEMMA ItemFields ==
    ASSUME NEW F \in ItemsSeen, NEW i \in Items
    PROVE  /\ F[i] \in ItemType /\ F[i].annotations \in Seq(Annotations)
           /\ \E t, a, p : F[i] = [text |-> t, annotations |-> a, phase |-> p]
           /\ MergedAnnotations(F[i].annotations, F[i].annotations) = F[i].annotations
<1>1. F[i] \in ItemType
  BY DEF ItemsSeen
<1>2. F[i].annotations \in Seq(Annotations)
  BY <1>1 DEF ItemType, Annotations, MessageTexts
<1>3. F[i] = [text |-> F[i].text, annotations |-> F[i].annotations, phase |-> F[i].phase]
  BY <1>1 DEF ItemType
<1>4. MergedAnnotations(F[i].annotations, F[i].annotations) = F[i].annotations
  BY <1>2, MergedSame
<1> DEFINE t == F[i].text
           a == F[i].annotations
           p == F[i].phase
<1>5. F[i] = [text |-> t, annotations |-> a, phase |-> p] /\ MergedAnnotations(a, a) = a
  BY <1>3, <1>4
<1> HIDE DEF t, a, p
<1>6. \E x, y, z : F[i] = [text |-> x, annotations |-> y, phase |-> z]
  BY <1>5, Zenon
<1> QED BY <1>1, <1>2, <1>4, <1>6

LEMMA PartDoneArrives ==
    ASSUME provider.kinds \in Shapes, NEW r, NEW F \in ItemsSeen, NEW S \in SUBSET Items,
           NEW st, Synced(r, F, S, st), NEW i \in S, NEW item,
           item.text = F[i].text, item.annotations = F[i].annotations
    PROVE  Synced(Deliver(r, PartDoneOf(i, item)), F, S, st)
<1> DEFINE e == PartDoneOf(i, item)
           order == ReplaceItem(r.web.order, i, i)
<1>1. i \in Items /\ i \in Nat \ {0} /\ S \cup {i} = S
  BY MessageIsAnItem
<1>2. /\ e.type = "part done" /\ e.index = i /\ e.item = item /\ "response_id" \notin DOMAIN e
      /\ e.type \in ContentEvents /\ e.type \notin ItemEvents
  BY DEF PartDoneOf, ItemEvents, ContentEvents
<1> HIDE DEF e
<1>3. Reduce([shells |-> S, items |-> F, status |-> st], e) = [shells |-> S, items |-> F, status |-> st]
  <2>1. Seeded(F[i], item) = F[i]
    <3>1. PICK t, a, p : F[i] = [text |-> t, annotations |-> a, phase |-> p]
      BY <1>1, ItemFields
    <3>2. MergedAnnotations(a, a) = a
      BY <1>1, <3>1, ItemFields
    <3>3. item.text = t /\ item.annotations = a
      BY <3>1
    <3> QED BY <3>1, <3>2, <3>3, SeededSame
  <2>2. [F EXCEPT ![i] = Seeded(F[i], item)] = F
    BY <1>1, <2>1, SameItems
  <2> QED BY <1>2, <2>2 DEF Reduce
<1>4. WebFold([order |-> r.web.order, items |-> F, status |-> "streaming"], e)
        = [order |-> order, items |-> F, status |-> "streaming"]
  <2> DEFINE x == [F[i] EXCEPT !.text = item.text, !.annotations = item.annotations]
  <2>1. x = F[i]
    <3>1. PICK t, a, p : F[i] = [text |-> t, annotations |-> a, phase |-> p]
      BY <1>1, ItemFields
    <3>2. item.text = t /\ item.annotations = a
      BY <3>1
    <3> QED BY <3>1, <3>2
  <2>2. [F EXCEPT ![i] = x] = F
    BY <1>1, <2>1, SameItems
  <2> QED BY <1>2, <2>2 DEF WebFold, UpdateItem
<1>5. TerminalFold(Quiet, e) = Quiet
  BY <1>2, QuietStays
<1>6. Lists(order, S)
  <2>1. Lists(r.web.order, S)
    BY SyncedParts
  <2>2. Lists(order, S \cup {i})
    BY <1>1, <2>1, ReplacedItem
  <2> QED BY <1>1, <2>2
<1> HIDE DEF order
<1>7. Synced(Deliver(r, e), F, S, st)
  BY <1>2, <1>3, <1>4, <1>5, <1>6, Delivered
<1> QED BY <1>7 DEF e

LEMMA Upserted ==
    ASSUME NEW order, NEW F, NEW st, NEW i, NEW place, NEW item, NEW G,
           [F EXCEPT ![i] = MergeItem([order |-> order, items |-> F, status |-> st], i, item)] = G
    PROVE  UpsertItem([order |-> order, items |-> F, status |-> st], i, place, item)
           = [order |-> ReplaceItem(order, i, place), items |-> G, status |-> st]
<1> DEFINE w == [order |-> order, items |-> F, status |-> st]
           x == MergeItem(w, i, item)
<1>1. [F EXCEPT ![i] = x] = G
  OBVIOUS
<1>2. w.items = F /\ w.order = order
  OBVIOUS
<1> HIDE DEF x
<1>3. UpsertItem(w, i, place, item) = [w EXCEPT !.items[i] = x, !.order = ReplaceItem(@, i, place)]
  BY DEF UpsertItem, x
<1> QED BY <1>1, <1>2, <1>3

LEMMA ItemAddedArrives ==
    ASSUME provider.kinds \in Shapes, NEW r, NEW F \in ItemsSeen, NEW S \in SUBSET Items,
           NEW st, Synced(r, F, S, st), NEW i \in Items, i \notin S, F[i] = NoItem
    PROVE  Synced(Deliver(r, ItemAddedOf(i, NoItem)), F, S \cup {i}, st)
<1> DEFINE e == ItemAddedOf(i, NoItem)
           order == ReplaceItem(r.web.order, i, i)
<1>1. i \in Nat \ {0}
  BY MessageIsAnItem
<1>2. /\ e.type = "item added" /\ e.index = i /\ e.item = NoItem /\ "response_id" \notin DOMAIN e
      /\ e.type \in ItemEvents
  BY DEF ItemAddedOf, ItemEvents
<1> HIDE DEF e
<1>3. NoItem = [text |-> <<>>, annotations |-> <<>>, phase |-> "none"]
      /\ MergedAnnotations(<<>>, <<>>) = <<>>
  <2>1. <<>> \in Seq(Annotations) /\ Range(<<>>) \subseteq Range(<<>>)
    OBVIOUS
  <2> QED BY <2>1, MergedSame DEF NoItem
<1>4. Reduce([shells |-> S, items |-> F, status |-> st], e)
        = [shells |-> S \cup {i}, items |-> F, status |-> st]
  <2>1. Placed(F[i], NoItem) = F[i]
    <3>1. NoItem.text = <<>> /\ NoItem.annotations = <<>> /\ NoItem.phase = "none"
      BY <1>3
    <3> QED BY <1>3, <3>1, SeededSame
  <2>2. [F EXCEPT ![i] = Placed(F[i], NoItem)] = F
    BY <2>1, SameItems
  <2> QED BY <1>2, <2>2 DEF Reduce, ItemEvents
<1>5. WebFold([order |-> r.web.order, items |-> F, status |-> "streaming"], e)
        = [order |-> order, items |-> F, status |-> "streaming"]
  <2> DEFINE w == [order |-> r.web.order, items |-> F, status |-> "streaming"]
  <2>1. i \notin Range(r.web.order)
    <3>1. Lists(r.web.order, S)
      BY SyncedParts
    <3> QED BY <3>1, ListedMember
  <2>2. MergeItem(w, i, NoItem) = F[i]
    <3>1. w.order = r.web.order
      OBVIOUS
    <3> HIDE DEF w
    <3>2. i \notin Range(w.order)
      BY <2>1, <3>1
    <3>3. MergeItem(w, i, NoItem) = NoItem
      BY <3>2 DEF MergeItem
    <3> QED BY <3>3
  <2>3. [F EXCEPT ![i] = MergeItem(w, i, NoItem)] = F
    BY <2>2, SameItems
  <2>4. w.items = F /\ w.order = r.web.order
    OBVIOUS
  <2>5. UpsertItem(w, i, i, NoItem) = [order |-> order, items |-> F, status |-> "streaming"]
    BY <2>3, <2>4, Upserted
  <2>6. WebFold(w, e) = UpsertItem(w, i, i, NoItem)
    BY <1>2 DEF WebFold, ItemEvents
  <2> QED BY <2>5, <2>6
<1>6. TerminalFold(Quiet, e) = Quiet
  BY <1>2, QuietStays
<1>7. Lists(order, S \cup {i})
  <2>1. Lists(r.web.order, S)
    BY SyncedParts
  <2> QED BY <1>1, <2>1, ReplacedItem
<1> HIDE DEF order
<1>8. Synced(Deliver(r, e), F, S \cup {i}, st)
  BY <1>2, <1>4, <1>5, <1>6, <1>7, Delivered DEF ItemEvents
<1> QED BY <1>8 DEF e

LEMMA ItemDoneArrives ==
    ASSUME provider.kinds \in Shapes, NEW r, NEW F \in ItemsSeen, NEW S \in SUBSET Items,
           NEW st, Synced(r, F, S, st), NEW i \in S, NEW text,
           text = F[i].text \/ (text = <<>> /\ provider.kinds[i] # "call")
    PROVE  Synced(Deliver(r, ItemDoneOf(i, [F[i] EXCEPT !.text = text])), F, S, st)
<1> DEFINE item == [F[i] EXCEPT !.text = text]
           e == ItemDoneOf(i, item)
           order == ReplaceItem(r.web.order, i, i)
<1>1. i \in Items /\ i \in Nat \ {0} /\ S \cup {i} = S
  BY MessageIsAnItem
<1>2. /\ e.type = "item done" /\ e.index = i /\ e.item = item /\ "response_id" \notin DOMAIN e
      /\ e.type \in ItemEvents
  BY DEF ItemDoneOf, ItemEvents
<1>3. PICK t, a, p : F[i] = [text |-> t, annotations |-> a, phase |-> p]
  BY <1>1, ItemFields
<1>4. item = [text |-> text, annotations |-> a, phase |-> p]
  BY <1>3
<1> HIDE DEF e, item
<1>10. MergedAnnotations(a, a) = a
  BY <1>1, <1>3, ItemFields
<1>11. item.text = text /\ item.annotations = a /\ item.phase = p
       /\ (text = t \/ (text = <<>> /\ provider.kinds[i] # "call"))
  <2>1. F[i].text = t
    BY <1>3
  <2> QED BY <1>4, <2>1
<1>5. Reduce([shells |-> S, items |-> F, status |-> st], e) = [shells |-> S, items |-> F, status |-> st]
  <2>1. Placed(F[i], item) = F[i]
    BY <1>3, <1>10, <1>11, SeededSame
  <2>2. [F EXCEPT ![i] = Placed(F[i], item)] = F
    BY <1>1, <2>1, SameItems
  <2> QED BY <1>1, <1>2, <2>2 DEF Reduce
<1>6. WebFold([order |-> r.web.order, items |-> F, status |-> "streaming"], e)
        = [order |-> order, items |-> F, status |-> "streaming"]
  <2> DEFINE w == [order |-> r.web.order, items |-> F, status |-> "streaming"]
  <2>1. i \in Range(r.web.order)
    <3>1. Lists(r.web.order, S)
      BY SyncedParts
    <3> QED BY <3>1, ListedMember
  <2>2. MergeItem(w, i, item) = F[i]
    <3>1. provider.kinds[i] \in {"message", "reasoning", "call"}
      BY <1>1, MessageIsAnItem
    <3>2. w.order = r.web.order /\ w.items[i] = [text |-> t, annotations |-> a, phase |-> p]
      BY <1>3
    <3>3. w.items[i].text = t /\ w.items[i].annotations = a
      BY <3>2
    <3> HIDE DEF w
    <3>4. CASE provider.kinds[i] = "message"
      BY <1>3, <1>4, <1>10, <1>11, <2>1, <3>2, <3>3, <3>4 DEF MergeItem
    <3>5. CASE provider.kinds[i] = "reasoning"
      BY <1>3, <1>4, <1>11, <2>1, <3>2, <3>3, <3>5 DEF MergeItem
    <3>6. CASE provider.kinds[i] = "call"
      BY <1>3, <1>4, <1>11, <2>1, <3>2, <3>3, <3>6 DEF MergeItem
    <3> QED BY <3>1, <3>4, <3>5, <3>6
  <2>3. [F EXCEPT ![i] = MergeItem(w, i, item)] = F
    BY <1>1, <2>2, SameItems
  <2>4. UpsertItem(w, i, i, item) = [order |-> order, items |-> F, status |-> "streaming"]
    <3>1. PICK old, live : old = r.web.order /\ live = "streaming"
      OBVIOUS
    <3>2. w = [order |-> old, items |-> F, status |-> live]
      BY <3>1
    <3> HIDE DEF w, item
    <3>3. [F EXCEPT ![i] = MergeItem([order |-> old, items |-> F, status |-> live], i, item)] = F
      BY <2>3, <3>2
    <3>4. UpsertItem([order |-> old, items |-> F, status |-> live], i, i, item)
          = [order |-> ReplaceItem(old, i, i), items |-> F, status |-> live]
      BY <3>3, Upserted
    <3>5. order = ReplaceItem(old, i, i)
      BY <3>1
    <3> QED BY <3>1, <3>2, <3>4, <3>5
  <2>5. WebFold(w, e) = UpsertItem(w, i, i, item)
    BY <1>2 DEF WebFold, ItemEvents
  <2> QED BY <2>4, <2>5
<1>7. TerminalFold(Quiet, e) = Quiet
  BY <1>2, QuietStays
<1>8. Lists(order, S)
  <2>1. Lists(r.web.order, S)
    BY SyncedParts
  <2>2. Lists(order, S \cup {i})
    BY <1>1, <2>1, ReplacedItem
  <2> QED BY <1>1, <2>2
<1> HIDE DEF order
<1>9. Synced(Deliver(r, e), F, S, st)
  BY <1>2, <1>5, <1>6, <1>7, <1>8, Delivered
<1> QED BY <1>9 DEF e, item

LEMMA CreatedArrives ==
    ASSUME NEW r, NEW F, NEW S, Synced(r, F, S, "none")
    PROVE  Synced(Deliver(r, [type |-> "created"]), F, S, "in_progress")
<1> DEFINE e == [type |-> "created"]
<1>1. e.type = "created" /\ "response_id" \notin DOMAIN e /\ e.type \notin ItemEvents
  BY DEF ItemEvents
<1> HIDE DEF e
<1>2. Reduce([shells |-> S, items |-> F, status |-> "none"], e)
        = [shells |-> S, items |-> F, status |-> "in_progress"]
  BY <1>1 DEF Reduce
<1>3. WebFold([order |-> r.web.order, items |-> F, status |-> "streaming"], e)
        = [order |-> r.web.order, items |-> F, status |-> "streaming"]
  BY <1>1 DEF WebFold
<1>4. TerminalFold(Quiet, e) = Quiet
  BY <1>1, QuietStays
<1>5. Lists(r.web.order, S)
  BY SyncedParts
<1>6. Synced(Deliver(r, e), F, S, "in_progress")
  BY <1>1, <1>2, <1>3, <1>4, <1>5, Delivered
<1> QED BY <1>6 DEF e

(* A finite set of numbers can be listed in rising order.                  *)
LEMMA RisingListExists ==
    ASSUME NEW k \in Nat, NEW S \in SUBSET (1 .. k)
    PROVE  \E s \in Seq(S) : Rising(s) /\ Lists(s, S)
<1> DEFINE L(s, j) == /\ s \in Seq(1 .. j) /\ Lists(s, S \cap (1 .. j)) /\ Rising(s)
           T == {j \in Nat : \E s : L(s, j)}
<1>1. 0 \in T
  <2>1. L(<<>>, 0)
    BY DEF Lists, Rising
  <2> HIDE DEF L
  <2> QED BY <2>1
<1>2. ASSUME NEW j \in T PROVE j + 1 \in T
  <2>1. PICK s : L(s, j)
    OBVIOUS
  <2>2. /\ j \in Nat /\ s \in Seq(1 .. j) /\ DOMAIN s = 1 .. Len(s) /\ Len(s) \in Nat
        /\ \A n \in 1 .. Len(s) : s[n] \in 1 .. j /\ s[n] \in S
        /\ \A e \in S \cap (1 .. j) : \E n \in 1 .. Len(s) : s[n] = e
        /\ \A m, n \in 1 .. Len(s) : m < n => s[m] < s[n]
        /\ \A m, n \in 1 .. Len(s) : s[m] = s[n] => m = n
    <3>1. /\ j \in Nat /\ s \in Seq(1 .. j) /\ DOMAIN s = 1 .. Len(s) /\ Len(s) \in Nat
          /\ \A n \in 1 .. Len(s) : s[n] \in 1 .. j
      BY <2>1
    <3>2. s \in Seq(S \cap (1 .. j)) /\ Rising(s)
      BY <2>1 DEF Lists
    <3>3. \A n \in 1 .. Len(s) : s[n] \in S
      BY <3>1, <3>2
    <3>4. /\ \A e \in S \cap (1 .. j) : \E n \in 1 .. Len(s) : s[n] = e
          /\ \A m, n \in 1 .. Len(s) : s[m] = s[n] => m = n
      BY <2>1 DEF Lists
    <3>5. \A m, n \in 1 .. Len(s) : m < n => s[m] < s[n]
      BY <3>1, <3>2 DEF Rising
    <3> HIDE DEF T, L
    <3> QED BY <3>1, <3>3, <3>4, <3>5
  <2>3. CASE j + 1 \notin S
    <3>1. S \cap (1 .. j + 1) = S \cap (1 .. j)
      BY <2>2, <2>3
    <3>2. s \in Seq(1 .. j + 1)
      BY <2>2, SequenceWithin
    <3>3. L(s, j + 1)
      BY <2>1, <3>1, <3>2
    <3> HIDE DEF L
    <3> QED BY <2>2, <3>3
  <2>4. CASE j + 1 \in S
    <3> DEFINE t == Append(s, j + 1)
               U == S \cap (1 .. j + 1)
    <3>1. /\ t \in Seq(U) /\ Len(t) = Len(s) + 1 /\ t[Len(s) + 1] = j + 1
          /\ \A n \in 1 .. Len(s) : t[n] = s[n]
          /\ DOMAIN t = 1 .. Len(s) + 1
      <4>1. s \in Seq(U)
        <5>1. \A n \in 1 .. Len(s) : s[n] \in U
          BY <2>2
        <5>2. s \in [1 .. Len(s) -> U]
          BY <2>2, <5>1
        <5> HIDE DEF U
        <5> QED BY <2>2, <5>2, FunctionSequence
      <4>2. j + 1 \in U
        BY <2>2, <2>4
      <4> HIDE DEF U
      <4> QED BY <4>1, <4>2
    <3> HIDE DEF t
    <3>2. ASSUME NEW e \in U PROVE \E n \in 1 .. Len(t) : t[n] = e
      <4>1. CASE e = j + 1
        <5>1. Len(s) + 1 \in 1 .. Len(t)
          BY <2>2, <3>1
        <5> QED BY <3>1, <4>1, <5>1
      <4>2. CASE e # j + 1
        <5>1. e \in S \cap (1 .. j)
          BY <2>2, <4>2
        <5>2. PICK n \in 1 .. Len(s) : s[n] = e
          BY <2>2, <5>1
        <5>3. n \in 1 .. Len(t) /\ t[n] = e
          BY <2>2, <3>1, <5>2
        <5> QED BY <5>3
      <4> QED BY <4>1, <4>2
    <3>3. ASSUME NEW m \in 1 .. Len(t), NEW n \in 1 .. Len(t), m < n PROVE t[m] < t[n]
      <4>1. m \in 1 .. Len(s) /\ t[m] = s[m] /\ s[m] \in 1 .. j
        BY <2>2, <3>1, <3>3
      <4>2. CASE n = Len(s) + 1
        BY <2>2, <3>1, <4>1, <4>2
      <4>3. CASE n # Len(s) + 1
        <5>1. n \in 1 .. Len(s) /\ t[n] = s[n]
          BY <2>2, <3>1, <4>3
        <5> QED BY <2>2, <3>3, <4>1, <5>1
      <4> QED BY <4>2, <4>3
    <3>4. \A m, n \in 1 .. Len(t) : t[m] = t[n] => m = n
      <4> SUFFICES ASSUME NEW m \in 1 .. Len(t), NEW n \in 1 .. Len(t), m # n, t[m] = t[n]
                   PROVE  FALSE
        OBVIOUS
      <4>1. t[m] \in Nat /\ t[n] \in Nat
        BY <2>2, <3>1
      <4> QED BY <2>2, <3>1, <3>3, <4>1
    <3>5. t \in Seq(1 .. j + 1)
      BY <3>1, SequenceWithin
    <3>6. L(t, j + 1)
      BY <3>1, <3>2, <3>3, <3>4, <3>5 DEF Lists, Rising
    <3> HIDE DEF L
    <3> QED BY <2>2, <3>6
  <2> QED BY <2>3, <2>4
<1>3. T = Nat
  <2>1. T \in SUBSET Nat
    OBVIOUS
  <2> HIDE DEF T
  <2> QED BY <1>1, <1>2, <2>1, AllNumbers
<1>4. PICK s : L(s, k)
  BY <1>3
<1>5. S \cap (1 .. k) = S
  OBVIOUS
<1> QED BY <1>4, <1>5 DEF Lists

LEMMA OrderOfOutput ==
    ASSUME NEW k \in Nat, NEW S \in SUBSET (1 .. k)
    PROVE  /\ InOrder(S) \in Seq(S) /\ Lists(InOrder(S), S) /\ Rising(InOrder(S))
           /\ Len(InOrder(S)) \in Nat /\ DOMAIN InOrder(S) = 1 .. Len(InOrder(S))
<1>1. PICK s \in Seq(S) : Rising(s) /\ Lists(s, S)
  BY RisingListExists
<1>2. DOMAIN s = 1 .. Len(s) /\ Len(s) \in Nat /\ s \in [1 .. Len(s) -> S]
  BY <1>1
<1>3. Cardinality(S) = Len(s)
  <2>1. s \in Bijection(1 .. Len(s), S)
    BY <1>1, <1>2 DEF Lists, Bijection, Injection, Surjection, IsInjective
  <2> QED BY <1>2, <2>1, FS_CountingElements DEF ExistsBijection
<1> DEFINE n == Cardinality(S)
           P(t) == t \in [1 .. n -> S] /\ Rising(t)
           o == CHOOSE t \in [1 .. n -> S] : Rising(t)
<1>4. InOrder(S) = o
  BY DEF InOrder, Rising
<1>5. o \in [1 .. n -> S] /\ Rising(o)
  <2>1. s \in [1 .. n -> S] /\ Rising(s)
    BY <1>1, <1>2, <1>3
  <2> HIDE DEF n
  <2> QED BY <2>1, Zenon
<1> HIDE DEF o
<1>6. n \in Nat /\ DOMAIN o = 1 .. n
  BY <1>2, <1>3, <1>5
<1>7. IsFiniteSet(S)
  <2>1. IsFiniteSet(1 .. k)
    BY FS_Interval
  <2> QED BY <2>1, FS_Subset
<1>8. \A i, j \in 1 .. n : o[i] = o[j] => i = j
  <2> SUFFICES ASSUME NEW i \in 1 .. n, NEW j \in 1 .. n, o[i] = o[j], i < j PROVE FALSE
    BY <1>6
  <2>1. o[i] < o[j]
    BY <1>5, <1>6 DEF Rising
  <2>2. o[i] \in Nat
    <3>1. o[i] \in S
      BY <1>5
    <3>2. \A e \in S : e \in Nat
      OBVIOUS
    <3> QED BY <3>1, <3>2
  <2> QED BY <2>1, <2>2
<1>9. {o[i] : i \in 1 .. n} = S
  <2> DEFINE T == {o[i] : i \in 1 .. n}
  <2>1. T \in SUBSET S
    BY <1>5
  <2>2. o \in Bijection(1 .. n, T)
    <3>1. o \in [1 .. n -> T]
      BY <1>5
    <3> QED BY <1>6, <1>8, <3>1 DEF Bijection, Injection, Surjection, IsInjective
  <2> HIDE DEF T
  <2>3. Cardinality(T) = n
    <3> HIDE DEF n
    <3> QED BY <1>6, <2>2, FS_CountingElements DEF ExistsBijection
  <2> QED BY <1>7, <2>1, <2>3, FS_Subset DEF T
<1> HIDE DEF n
<1>10. o \in Seq(S) /\ Len(o) = n
  BY <1>5, <1>6, FunctionSequence
<1>11. Lists(o, S)
  BY <1>6, <1>8, <1>9, <1>10 DEF Lists
<1> QED BY <1>4, <1>5, <1>6, <1>10, <1>11

LEMMA ReplacedPlace ==
    ASSUME NEW S, NEW order, Lists(order, S), NEW id, NEW place \in Nat \ {0},
           place <= Len(order) + 1, \A n \in 1 .. place - 1 : order[n] # id, NEW new,
           new = ReplaceItem(order, id, place)
    PROVE  place <= Len(new) /\ new[place] = id /\ \A n \in 1 .. place - 1 : new[n] = order[n]
<1>1. PutAt(new, order, id, place)
  BY ReplacedItem
<1> QED BY <1>1 DEF PutAt

LEMMA MergedWhole ==
    ASSUME provider.kinds \in Shapes, NEW F \in ItemsSeen, NEW G \in ItemsSeen, NEW i \in Items,
           G[i].text = F[i].text, G[i].annotations = F[i].annotations, NEW order, NEW st
    PROVE  MergeItem([order |-> order, items |-> F, status |-> st], i, G[i]) = G[i]
<1> DEFINE w == [order |-> order, items |-> F, status |-> st]
<1>1. PICK t, a, p : G[i] = [text |-> t, annotations |-> a, phase |-> p]
  BY ItemFields
<1>2. w.items[i].text = t /\ w.items[i].annotations = a /\ MergedAnnotations(a, a) = a
  BY <1>1, ItemFields
<1>3. provider.kinds[i] \in {"message", "reasoning", "call"}
  BY MessageIsAnItem
<1>4. G[i].text = t /\ G[i].annotations = a
  BY <1>1
<1> HIDE DEF w
<1>5. ASSUME i \notin Range(w.order)
      PROVE  MergeItem(w, i, G[i]) = G[i]
  BY <1>5 DEF MergeItem
<1>6. ASSUME i \in Range(w.order) /\ provider.kinds[i] = "message"
      PROVE  MergeItem(w, i, G[i]) = G[i]
  <2>1. PICK g : g = G[i]
    OBVIOUS
  <2>2. g = [text |-> t, annotations |-> a, phase |-> p]
    BY <1>1, <2>1
  <2>3. (IF g.text # <<>> THEN g.text ELSE w.items[i].text) = t
    BY <1>2, <2>2
  <2>4. MergedAnnotations(w.items[i].annotations, g.annotations) = a
    BY <1>2, <2>2
  <2>5. MergeItem(w, i, g) = [g EXCEPT !.text = t, !.annotations = a]
    BY <1>6, <2>3, <2>4 DEF MergeItem
  <2>6. [g EXCEPT !.text = t] = g /\ [g EXCEPT !.annotations = a] = g
    BY <2>2
  <2> QED BY <2>1, <2>5, <2>6
<1>7. ASSUME i \in Range(w.order) /\ provider.kinds[i] = "reasoning"
      PROVE  MergeItem(w, i, G[i]) = G[i]
  BY <1>1, <1>2, <1>4, <1>7 DEF MergeItem
<1>8. ASSUME i \in Range(w.order) /\ provider.kinds[i] = "call"
      PROVE  MergeItem(w, i, G[i]) = G[i]
  BY <1>4, <1>8 DEF MergeItem
<1>9. MergeItem(w, i, G[i]) = G[i]
  BY <1>3, <1>5, <1>6, <1>7, <1>8
<1> QED BY <1>9 DEF w

LEMMA FreshWhole ==
    ASSUME NEW w, NEW i, i \notin Range(w.order), NEW item
    PROVE  MergeItem(w, i, item) = item
BY DEF MergeItem

LEMMA Reconciled ==
    ASSUME provider.kinds \in Shapes, NEW F \in ItemsSeen, NEW G \in ItemsSeen,
           NEW T \in SUBSET Items, NEW S \in SUBSET T, NEW o, Lists(o, S), NEW st,
           \A i \in S : G[i].text = F[i].text /\ G[i].annotations = F[i].annotations, NEW new
    PROVE  TakenOver(Reconcile([order |-> o, items |-> F, status |-> st],
                               OutputItems([shells |-> T, items |-> G, status |-> new])), T, G, st)
<1> DEFINE order == InOrder(T)
           out == OutputItems([shells |-> T, items |-> G, status |-> new])
           upto(n) == {order[m] : m \in 1 .. n}
           Mixed(n) == [i \in Items |-> IF i \in upto(n) THEN G[i] ELSE F[i]]
           P(w, n) == /\ w = [order |-> w.order, items |-> Mixed(n), status |-> st]
                      /\ Lists(w.order, S \cup upto(n)) /\ n <= Len(w.order)
                      /\ \A m \in 1 .. n : w.order[m] = order[m]
           D == [n \in Nat |-> {w \in [order : Seq(T), items : ItemsSeen, status : {st}] : P(w, n)}]
           base == [order |-> o, items |-> F, status |-> st]
<1>1. /\ order \in Seq(T) /\ Lists(order, T) /\ Len(order) \in Nat /\ DOMAIN order = 1 .. Len(order)
      /\ \A n \in 1 .. Len(order) : order[n] \in T
  <2>1. \E k \in Nat : Items = 1 .. k
    BY MessageIsAnItem
  <2> HIDE DEF order
  <2>2. /\ order \in Seq(T) /\ Lists(order, T) /\ Len(order) \in Nat
        /\ DOMAIN order = 1 .. Len(order)
    BY <2>1, OrderOfOutput DEF order
  <2> QED BY <2>2
<1> HIDE DEF order
<1>2. /\ out \in Seq([id : T, at : Nat, item : ItemType]) /\ Len(out) = Len(order)
      /\ \A n \in 1 .. Len(order) : out[n].id = order[n] /\ out[n].at = n
                                    /\ out[n].item = G[order[n]]
  <2>1. out = [n \in 1 .. Len(order) |-> [id |-> order[n], at |-> n, item |-> G[order[n]]]]
    BY <1>1 DEF OutputItems, order
  <2>2. \A n \in 1 .. Len(order) : [id |-> order[n], at |-> n, item |-> G[order[n]]]
                                   \in [id : T, at : Nat, item : ItemType]
    <3> SUFFICES ASSUME NEW n \in 1 .. Len(order)
                 PROVE  [id |-> order[n], at |-> n, item |-> G[order[n]]]
                        \in [id : T, at : Nat, item : ItemType]
      OBVIOUS
    <3>1. order[n] \in T /\ G[order[n]] \in ItemType /\ n \in Nat
      BY <1>1 DEF ItemsSeen
    <3> QED BY <3>1
  <2>3. out \in [1 .. Len(order) -> [id : T, at : Nat, item : ItemType]]
    BY <2>1, <2>2
  <2> HIDE DEF out
  <2>4. out \in Seq([id : T, at : Nat, item : ItemType]) /\ Len(out) = Len(order)
    <3> DEFINE E == [id : T, at : Nat, item : ItemType]
               k == Len(order)
    <3>1. out \in [1 .. k -> E] /\ k \in Nat
      BY <1>1, <2>3
    <3> HIDE DEF E, k
    <3>2. out \in Seq(E)
      BY <3>1, FunctionSequence
    <3>3. Len(out) = k
      BY <3>1
    <3> QED BY <3>2, <3>3 DEF E, k
  <2> QED BY <2>1, <2>4
<1> HIDE DEF out
<1>3. ASSUME NEW n \in Nat PROVE Mixed(n) \in ItemsSeen
  BY DEF ItemsSeen
<1>4. base \in D[0]
  <2>1. upto(0) = {} /\ S \cup upto(0) = S
    OBVIOUS
  <2>2. Mixed(0) = F
    BY <2>1 DEF ItemsSeen
  <2>3. o \in Seq(T) /\ Len(o) \in Nat
    <3>1. o \in Seq(S)
      BY DEF Lists
    <3> QED BY <3>1, SequenceWithin
  <2>4. P(base, 0)
    <3>1. base.order = o /\ base = [order |-> base.order, items |-> F, status |-> st]
      OBVIOUS
    <3> HIDE DEF base, Mixed, upto
    <3>2. Lists(base.order, S \cup upto(0)) /\ 0 <= Len(base.order)
      <4>1. Lists(o, S \cup upto(0))
        <5> HIDE DEF upto
        <5>1. PICK U : U = S \cup upto(0)
          OBVIOUS
        <5> QED BY <2>1, <5>1
      <4>2. 0 <= Len(o)
        BY <2>3
      <4> QED BY <3>1, <4>1, <4>2
    <3>3. base = [order |-> base.order, items |-> Mixed(0), status |-> st]
      BY <2>2, <3>1
    <3> QED BY <3>2, <3>3
  <2>5. base \in [order : Seq(T), items : ItemsSeen, status : {st}]
    BY <2>3
  <2> HIDE DEF P, base
  <2> QED BY <2>4, <2>5
<1>5. ASSUME NEW n \in 1 .. Len(out), NEW w \in D[n - 1] PROVE TakeEntry(w, out[n]) \in D[n]
  <2> DEFINE id == order[n]
             x == [order |-> ReplaceItem(w.order, id, n), items |-> Mixed(n), status |-> st]
  <2>1. n - 1 \in Nat /\ n \in Nat /\ n \in Nat \ {0} /\ n \in 1 .. Len(order) /\ id \in T
    BY <1>1, <1>2
  <2>2. w \in [order : Seq(T), items : ItemsSeen, status : {st}] /\ P(w, n - 1)
    <3> HIDE DEF P
    <3> QED BY <2>1
  <2>3. upto(n) = upto(n - 1) \cup {id} /\ id \notin upto(n - 1)
    <3>1. \A m \in 1 .. n : m \in 1 .. n - 1 \/ m = n
      BY <2>1
    <3>2. \A m \in 1 .. n - 1 : m \in 1 .. n /\ m # n /\ m \in 1 .. Len(order)
      BY <2>1
    <3>3. n \in 1 .. n
      BY <2>1
    <3>4. \A i, j \in 1 .. Len(order) : order[i] = order[j] => i = j
      BY <1>1 DEF Lists
    <3> QED BY <2>1, <3>1, <3>2, <3>3, <3>4
  <2>4. MergeItem(w, id, G[id]) = G[id]
    <3>1. w = [order |-> w.order, items |-> Mixed(n - 1), status |-> st]
          /\ Lists(w.order, S \cup upto(n - 1))
      BY <2>2
    <3>2. CASE id \in S
      <4>1. Mixed(n - 1)[id] = F[id] /\ id \in Items
        BY <2>1, <2>3
      <4>2. G[id].text = Mixed(n - 1)[id].text /\ G[id].annotations = Mixed(n - 1)[id].annotations
        BY <3>2, <4>1
      <4>3. Mixed(n - 1) \in ItemsSeen
        BY <1>3, <2>1
      <4> HIDE DEF Mixed, id, upto
      <4>4. PICK X : X = Mixed(n - 1)
        OBVIOUS
      <4>5. MergeItem([order |-> w.order, items |-> X, status |-> st], id, G[id]) = G[id]
        BY <4>1, <4>2, <4>3, <4>4, MergedWhole
      <4> QED BY <3>1, <4>4, <4>5
    <3>3. CASE id \notin S
      <4>1. id \notin Range(w.order)
        <5>1. Range(w.order) = S \cup upto(n - 1)
          <6> HIDE DEF upto
          <6> QED BY <3>1, ListedMember
        <5> QED BY <2>3, <3>3, <5>1
      <4> QED BY <4>1, FreshWhole
    <3> QED BY <3>2, <3>3
  <2>5. TakeEntry(w, out[n]) = x
    <3>1. [Mixed(n - 1) EXCEPT ![id] = G[id]] = Mixed(n)
      BY <2>1, <2>3
    <3>2. w = [order |-> w.order, items |-> Mixed(n - 1), status |-> st]
      BY <2>2
    <3>3. TakeEntry(w, out[n]) = UpsertItem(w, id, n, G[id])
      <4>1. out[n].id = id /\ out[n].at = n /\ out[n].item = G[id]
        BY <1>2, <2>1
      <4> QED BY <4>1 DEF TakeEntry
    <3> HIDE DEF Mixed, id
    <3>4. PICK X, Y, q, j, z : X = Mixed(n - 1) /\ Y = Mixed(n) /\ q = w.order /\ j = id /\ z = G[id]
      OBVIOUS
    <3>5. w = [order |-> q, items |-> X, status |-> st]
      BY <3>2, <3>4
    <3>6. [X EXCEPT ![j] = MergeItem([order |-> q, items |-> X, status |-> st], j, z)] = Y
      BY <2>4, <3>1, <3>4, <3>5
    <3>7. UpsertItem([order |-> q, items |-> X, status |-> st], j, n, z)
          = [order |-> ReplaceItem(q, j, n), items |-> Y, status |-> st]
      <4> DEFINE u == [order |-> q, items |-> X, status |-> st]
      <4>1. PICK m : m = MergeItem(u, j, z)
        OBVIOUS
      <4>2. [X EXCEPT ![j] = m] = Y
        BY <3>6, <4>1
      <4>3. UpsertItem(u, j, n, z) = [u EXCEPT !.items[j] = m, !.order = ReplaceItem(@, j, n)]
        <5> HIDE DEF u
        <5> QED BY <4>1 DEF UpsertItem
      <4> QED BY <4>2, <4>3
    <3> QED BY <3>3, <3>4, <3>5, <3>7
  <2>6. /\ Lists(ReplaceItem(w.order, id, n), S \cup upto(n))
        /\ n <= Len(ReplaceItem(w.order, id, n))
        /\ \A m \in 1 .. n : ReplaceItem(w.order, id, n)[m] = order[m]
    <3> DEFINE R == S \cup upto(n - 1)
    <3>1. Lists(w.order, R) /\ n - 1 <= Len(w.order) /\ \A m \in 1 .. n - 1 : w.order[m] = order[m]
      BY <2>2
    <3>2. R \cup {id} = S \cup upto(n)
      BY <2>3
    <3>3. \A m \in 1 .. n - 1 : w.order[m] # id
      BY <2>3, <3>1
    <3>4. n <= Len(w.order) + 1
      <4>1. Len(w.order) \in Nat
        BY <2>2
      <4> QED BY <2>1, <3>1, <4>1
    <3> HIDE DEF R, upto
    <3>5. PICK q, a, j : q = ReplaceItem(w.order, id, n) /\ a = w.order /\ j = id
      OBVIOUS
    <3>6. /\ Lists(q, R \cup {id}) /\ n <= Len(q) /\ q[n] = id
          /\ \A m \in 1 .. n - 1 : q[m] = w.order[m]
      <4>1. Lists(a, R) /\ n <= Len(a) + 1 /\ \A m \in 1 .. n - 1 : a[m] # j
        BY <3>1, <3>3, <3>4, <3>5
      <4>2. Lists(ReplaceItem(a, j, n), R \cup {j})
        BY <2>1, <4>1, ReplacedItem
      <4>3. n <= Len(q) /\ q[n] = j /\ \A m \in 1 .. n - 1 : q[m] = a[m]
        BY <2>1, <3>5, <4>1, ReplacedPlace, SMTT(30)
      <4> QED BY <3>5, <4>2, <4>3
    <3>7. \A m \in 1 .. n : m = n \/ m \in 1 .. n - 1
      BY <2>1
    <3> QED BY <3>1, <3>2, <3>5, <3>6, <3>7
  <2>7. x \in [order : Seq(T), items : ItemsSeen, status : {st}]
    <3>1. ReplaceItem(w.order, id, n) \in Seq(S \cup upto(n))
      BY <2>6 DEF Lists
    <3>2. S \cup upto(n) \subseteq T
      BY <1>1, <2>1
    <3>3. ReplaceItem(w.order, id, n) \in Seq(T)
      <4> HIDE DEF upto, id
      <4> QED BY <3>1, <3>2, SequenceWithin
    <3>4. Mixed(n) \in ItemsSeen
      BY <1>3, <2>1
    <3> HIDE DEF Mixed, id
    <3> QED BY <3>3, <3>4
  <2>8. P(x, n)
    <3>1. x.order = ReplaceItem(w.order, id, n)
      OBVIOUS
    <3>2. x = [order |-> x.order, items |-> Mixed(n), status |-> st]
      OBVIOUS
    <3> HIDE DEF x, Mixed, upto, id
    <3> QED BY <2>6, <3>1, <3>2
  <2> HIDE DEF P, x
  <2> QED BY <2>1, <2>5, <2>7, <2>8
<1>6. PICK f : TakeFold(f, out, base, D)
  <2>1. \A n \in 1..Len(out) : \A w \in D[n - 1] : TakeEntry(w, out[n]) \in D[n]
    <3> HIDE DEF D
    <3> QED BY <1>5
  <2>2. Len(out) \in Nat
    BY <1>1, <1>2
  <2> HIDE DEF D, base
  <2> QED BY <1>4, <2>1, <2>2, TakeLoop
<1> DEFINE k == Len(order)
<1>7. PICK w : w = Reconcile(base, out) /\ w \in D[k]
  <2>1. f[k] \in D[k] /\ Folded(TakeEntry, base, out) = f[k]
    <3> HIDE DEF D, base
    <3> QED BY <1>1, <1>2, <1>6 DEF TakeFold
  <2> HIDE DEF D, base
  <2> QED BY <2>1 DEF Reconcile
<1>8. P(w, k) /\ w.order \in Seq(T)
  <2> HIDE DEF P
  <2> QED BY <1>1, <1>7
<1>9. upto(k) = T
  BY <1>1 DEF Lists
<1>10. w.order = order
  <2>1. Lists(w.order, T) /\ k <= Len(w.order) /\ \A m \in 1 .. k : w.order[m] = order[m]
    <3>1. S \cup upto(k) = T
      BY <1>9
    <3> HIDE DEF upto
    <3> QED BY <1>8, <3>1
  <2>2. Len(w.order) = k
    <3> SUFFICES ASSUME k + 1 <= Len(w.order) PROVE FALSE
      BY <1>1, <1>8, <2>1
    <3>1. k + 1 \in 1 .. Len(w.order) /\ k \in Nat /\ Len(w.order) \in Nat
      BY <1>1, <1>8
    <3>2. w.order[k + 1] \in T
      BY <1>8, <3>1
    <3>3. PICK m \in 1 .. k : order[m] = w.order[k + 1]
      BY <1>1, <3>2 DEF Lists
    <3>4. w.order[m] = w.order[k + 1] /\ m \in 1 .. Len(w.order)
      BY <2>1, <3>1, <3>3
    <3>5. m = k + 1
      BY <2>1, <3>1, <3>4 DEF Lists
    <3> QED BY <3>1, <3>5
  <2> QED BY <1>1, <1>8, <2>1, <2>2
<1>11. Mixed(k) \in ItemsSeen /\ \A i \in T : Mixed(k)[i] = G[i]
  BY <1>1, <1>3, <1>9
<1>12. w = [order |-> order, items |-> Mixed(k), status |-> st]
  BY <1>8, <1>10
<1> HIDE DEF Mixed, base
<1>13. \E H \in ItemsSeen : Reconcile(base, out) = [order |-> order, items |-> H, status |-> st]
                            /\ \A i \in T : H[i] = G[i]
  BY <1>7, <1>11, <1>12
<1> QED BY <1>13 DEF order, out, base, TakenOver

LEMMA Settled ==
    ASSUME Provided, NEW F \in ItemsSeen, NEW S \in SUBSET Items, NEW st,
           NEW status, NEW output, Snapshot(output, F, S)
    PROVE  SettledAs(Reduce([shells |-> S, items |-> F, status |-> st], TerminalOf(status, output)),
                     S \cup DOMAIN output, F, S, status)
<1> DEFINE state == [shells |-> S, items |-> F, status |-> st]
           e == TerminalOf(status, output)
           missing == DOMAIN e.output \ state.shells
           shells == state.shells \cup missing
           placed == [i \in Items |-> IF i \in missing THEN Placed(state.items[i], e.output[i].item)
                                      ELSE state.items[i]]
           asks == \E i \in shells : provider.kinds[i] = "call"
           implied == IF asks THEN "commentary" ELSE "final_answer"
           G == [i \in Items |->
                    IF i \in shells \cap {Message} /\ placed[i].phase = "none"
                    THEN [placed[i] EXCEPT !.phase = implied] ELSE placed[i]]
<1>1. e.type = "terminal" /\ e.status = status /\ e.output = output /\ state.shells = S /\ state.items = F
  BY DEF TerminalOf
<1>2. Reduce(state, e) = [shells |-> shells, items |-> G, status |-> e.status]
  <2>1. Reduce(state, e) = SettleResponse(state, e)
    <3> HIDE DEF state, e
    <3> QED BY <1>1 DEF Reduce, ItemEvents
  <2>2. SettleResponse(state, e) = [shells |-> shells, items |-> G, status |-> e.status]
    BY DEF SettleResponse
  <2> QED BY <2>1, <2>2
<1>3. shells = S \cup DOMAIN output /\ missing = DOMAIN output \ S
  <2> HIDE DEF e, state
  <2> QED BY <1>1
<1>4. \A i \in Items : placed[i] \in ItemType
  <2> SUFFICES ASSUME NEW i \in Items PROVE placed[i] \in ItemType
    OBVIOUS
  <2> HIDE DEF state, e, missing
  <2>1. CASE i \notin missing
    BY <1>1, <2>1 DEF ItemsSeen
  <2>2. CASE i \in missing
    <3>1. F[i] = NoItem /\ output[i].item = [NoItem EXCEPT !.text = FullText(i)]
      BY <1>3, <2>2 DEF Snapshot
    <3>2. NoItem = [text |-> <<>>, annotations |-> <<>>, phase |-> "none"]
      BY DEF NoItem
    <3>3. PICK t : t = FullText(i)
      OBVIOUS
    <3>4. PICK item : item = output[i].item
      OBVIOUS
    <3>5. item.text = t /\ item.annotations = <<>> /\ item.phase = "none"
      BY <3>1, <3>2, <3>3, <3>4
    <3>6. MergedAnnotations(<<>>, <<>>) = <<>>
      <4>1. <<>> \in Seq(Annotations) /\ Range(<<>>) \subseteq Range(<<>>)
        OBVIOUS
      <4> QED BY <4>1, MergedSame
    <3>7. Placed(NoItem, item) = [text |-> t, annotations |-> <<>>, phase |-> "none"]
      <4>1. (IF item.text # <<>> THEN item.text ELSE NoItem.text) = t
        BY <3>2, <3>5
      <4>2. MergedAnnotations(NoItem.annotations, item.annotations) = <<>>
        BY <3>2, <3>5, <3>6
      <4>3. Seeded(NoItem, item) = [NoItem EXCEPT !.text = t, !.annotations = <<>>]
        BY <4>1, <4>2 DEF Seeded
      <4>4. Seeded(NoItem, item) = [text |-> t, annotations |-> <<>>, phase |-> "none"]
        BY <3>2, <4>3
      <4> QED BY <3>5, <4>4 DEF Placed
    <3>8. t \in Words
      BY <3>3, TextTyped
    <3>9. [text |-> t, annotations |-> <<>>, phase |-> "none"] \in ItemType
      BY <3>8 DEF ItemType, Words
    <3>10. placed[i] = Placed(NoItem, item)
      BY <1>1, <2>2, <3>1, <3>4
    <3> QED BY <3>7, <3>9, <3>10
  <2> QED BY <2>1, <2>2
<1>5. implied \in {"none", "commentary", "final_answer"}
  OBVIOUS
<1> HIDE DEF placed, shells, implied
<1>6. \A i \in Items : G[i] \in ItemType /\ G[i].text = placed[i].text
                        /\ G[i].annotations = placed[i].annotations
  <2> SUFFICES ASSUME NEW i \in Items
               PROVE  G[i] \in ItemType /\ G[i].text = placed[i].text
                        /\ G[i].annotations = placed[i].annotations
    OBVIOUS
  <2>1. placed[i] \in ItemType
    BY <1>4
  <2>2. PICK x : x = placed[i]
    OBVIOUS
  <2>3. [x EXCEPT !.phase = implied] \in ItemType /\ [x EXCEPT !.phase = implied].text = x.text
        /\ [x EXCEPT !.phase = implied].annotations = x.annotations
    BY <1>5, <2>1, <2>2 DEF ItemType
  <2>4. G[i] = [x EXCEPT !.phase = implied] \/ G[i] = x
    BY <2>2
  <2> HIDE DEF G
  <2> QED BY <2>1, <2>2, <2>3, <2>4
<1>7. \A i \in S : placed[i] = F[i]
  <2> HIDE DEF state, e, missing
  <2> QED BY <1>1, <1>3 DEF placed
<1>8. G \in ItemsSeen
  <2>1. G = [i \in Items |-> G[i]]
    OBVIOUS
  <2> HIDE DEF G
  <2> QED BY <1>6, <2>1 DEF ItemsSeen
<1> HIDE DEF G
<1>9. \A i \in S : G[i].text = F[i].text /\ G[i].annotations = F[i].annotations
  BY <1>6, <1>7
<1>10. Reduce(state, e) = [shells |-> S \cup DOMAIN output, items |-> G, status |-> status]
  BY <1>1, <1>2, <1>3
<1> QED BY <1>8, <1>9, <1>10 DEF SettledAs

LEMMA TerminalArrives ==
    ASSUME Provided, NEW r, NEW F \in ItemsSeen, NEW S \in SUBSET Items,
           Synced(r, F, S, "in_progress"), NEW status \in {"completed", "incomplete", "failed"},
           NEW output, Snapshot(output, F, S)
    PROVE  Finished(Deliver(r, TerminalOf(status, output)), F, S, status)
<1> DEFINE e == TerminalOf(status, output)
           T == S \cup DOMAIN output
<1>1. T \in SUBSET Items /\ S \in SUBSET T
  BY DEF Snapshot
<1> HIDE DEF T
<1>2. PICK G \in ItemsSeen :
        /\ Reduce([shells |-> S, items |-> F, status |-> "in_progress"], e)
           = [shells |-> T, items |-> G, status |-> status]
        /\ \A i \in S : G[i].text = F[i].text /\ G[i].annotations = F[i].annotations
  <2>1. SettledAs(Reduce([shells |-> S, items |-> F, status |-> "in_progress"], e), T, F, S, status)
    BY Settled DEF T
  <2> HIDE DEF e
  <2> QED BY <2>1 DEF SettledAs
<1> DEFINE reduced == [shells |-> T, items |-> G, status |-> status]
           w == [order |-> r.web.order, items |-> F, status |-> "streaming"]
           forwarded == [e EXCEPT !.output = OutputItems(reduced)]
<1>3. provider.kinds \in Shapes
  BY DEF Provided
<1>4. PICK H \in ItemsSeen : /\ Reconcile(w, OutputItems(reduced))
                                = [order |-> InOrder(T), items |-> H, status |-> "streaming"]
                             /\ \A i \in T : H[i] = G[i]
  <2>1. Lists(r.web.order, S)
    BY SyncedParts
  <2>2. TakenOver(Reconcile(w, OutputItems(reduced)), T, G, "streaming")
    BY <1>1, <1>2, <1>3, <2>1, Reconciled
  <2> HIDE DEF w, reduced
  <2> QED BY <2>2 DEF TakenOver
<1>5. /\ r.reducer = [shells |-> S, items |-> F, status |-> "in_progress"] /\ r.web = w
      /\ r.terminal = Quiet
  BY SyncedParts
<1>6. /\ e.type = "terminal" /\ e.status = status
      /\ forwarded.type = "terminal" /\ forwarded.status = status
      /\ forwarded.output = OutputItems(reduced)
  BY DEF TerminalOf
<1> HIDE DEF e, w, forwarded
<1>7. Deliver(r, e) = [reducer |-> reduced, web |-> WebFold(w, forwarded),
                       terminal |-> TerminalFold(Quiet, forwarded)]
  BY <1>2, <1>5, <1>6 DEF Deliver, Forwarded, forwarded
<1>8. /\ WebFold(w, forwarded).items = H /\ WebFold(w, forwarded).order = InOrder(T)
      /\ WebFold(w, forwarded).status \in {"streaming", "completed", "failed"}
  <2> DEFINE next == Reconcile(w, forwarded.output)
             asks == \E i \in Range(next.order) : provider.kinds[i] = "call"
             st == IF forwarded.status # "completed" THEN "failed"
                   ELSE IF asks THEN "streaming" ELSE "completed"
  <2>1. next = [order |-> InOrder(T), items |-> H, status |-> "streaming"]
    BY <1>4, <1>6
  <2>2. WebFold(w, forwarded) = [next EXCEPT !.status = st]
    BY <1>6 DEF WebFold, ItemEvents
  <2>3. st \in {"streaming", "completed", "failed"}
    OBVIOUS
  <2> HIDE DEF st, next
  <2> QED BY <2>1, <2>2, <2>3
<1>9. /\ TerminalFold(Quiet, forwarded).text = <<>>
      /\ TerminalFold(Quiet, forwarded).status
            \in {"in_progress", "completed", "incomplete", "failed"}
  BY <1>6 DEF TerminalFold, Quiet, ItemEvents, ContentEvents
<1>10. Lists(InOrder(T), T) /\ Rising(InOrder(T))
  <2>1. \E k \in Nat : Items = 1 .. k
    BY <1>3, MessageIsAnItem
  <2> QED BY <1>1, <2>1, OrderOfOutput
<1>11. PICK d : d = Deliver(r, e)
  OBVIOUS
<1>12. /\ d.reducer = reduced /\ d.web.items = H /\ d.web.order = InOrder(T)
       /\ d.web.status \in {"streaming", "completed", "failed"} /\ d.terminal.text = <<>>
       /\ d.terminal.status \in {"in_progress", "completed", "incomplete", "failed"}
  BY <1>7, <1>8, <1>9, <1>11
<1>13. Finished(d, F, S, status)
  <2>1. Lists(d.web.order, T) /\ Rising(d.web.order)
    BY <1>10, <1>12
  <2> QED BY <1>1, <1>2, <1>4, <1>12, <2>1 DEF FinishedIn, Finished
<1> QED BY <1>11, <1>13 DEF e

LEMMA ErrorArrives ==
    ASSUME provider.kinds \in Shapes, NEW r, NEW F \in ItemsSeen, NEW S \in SUBSET Items, NEW st,
           Synced(r, F, S, st)
    PROVE  /\ Finished(Deliver(r, [type |-> "error"]), F, S, "failed")
           /\ st # "completed" =>
                Finished([reducer |-> r.reducer, web |-> WebFold(r.web, [type |-> "failure"]),
                          terminal |-> TerminalFold(r.terminal, [type |-> "failure"])], F, S, st)
<1> DEFINE e == [type |-> "error"]
           f == [type |-> "failure"]
           w == [order |-> r.web.order, items |-> F, status |-> "streaming"]
<1>1. /\ r.reducer = [shells |-> S, items |-> F, status |-> st] /\ r.web = w
      /\ r.terminal = Quiet /\ Lists(r.web.order, S)
  BY SyncedParts
<1>2. e.type = "error" /\ f.type = "failure"
  OBVIOUS
<1> HIDE DEF e, f
<1>3. Reduce(r.reducer, e) = [shells |-> S, items |-> F, status |-> "failed"]
  BY <1>1, <1>2 DEF Reduce, ItemEvents
<1>4. /\ WebFold(r.web, e) = [order |-> r.web.order, items |-> F, status |-> "failed"]
      /\ WebFold(r.web, f) = [order |-> r.web.order, items |-> F, status |-> "failed"]
  BY <1>1, <1>2 DEF WebFold, ItemEvents
<1>5. /\ TerminalFold(r.terminal, e) = Quiet
      /\ TerminalFold(r.terminal, f) = [text |-> <<>>, calls |-> FALSE, status |-> "failed"]
  <2>1. TerminalFold(Quiet, e) = Quiet
    BY <1>2 DEF TerminalFold, ItemEvents, ContentEvents
  <2>2. TerminalFold(Quiet, f) = [Quiet EXCEPT !.status = "failed"]
    BY <1>2 DEF TerminalFold, ItemEvents, ContentEvents
  <2> QED BY <1>1, <2>1, <2>2 DEF Quiet
<1>6. Forwarded(e, Reduce(r.reducer, e)) = e
  BY <1>2 DEF Forwarded
<1>7. Deliver(r, e) = [reducer |-> Reduce(r.reducer, e), web |-> WebFold(r.web, e),
                       terminal |-> TerminalFold(r.terminal, e)]
  BY <1>6 DEF Deliver
<1>8. PICK d : d = Deliver(r, e)
  OBVIOUS
<1>9. Finished(d, F, S, "failed")
  BY <1>1, <1>3, <1>4, <1>5, <1>7, <1>8 DEF FinishedIn, Finished, Quiet
<1>10. PICK c : c = [reducer |-> r.reducer, web |-> WebFold(r.web, f),
                     terminal |-> TerminalFold(r.terminal, f)]
  OBVIOUS
<1>11. st # "completed" => Finished(c, F, S, st)
  BY <1>1, <1>4, <1>5, <1>10 DEF FinishedIn, Finished
<1> QED BY <1>8, <1>9, <1>10, <1>11 DEF e, f

LEMMA DeliverRuns ==
    ASSUME NEW s, Len(s) \in Nat, NEW base
    PROVE  \E f : DeliverRun(f, s, base) /\ Folded(Deliver, base, s) = f[Len(s)]
<1> DEFINE Upto(f, j) == f = [n \in 0 .. j |-> IF n = 0 THEN base ELSE Deliver(f[n - 1], s[n])]
           T == {j \in Nat : \E f : Upto(f, j)}
           after == CHOOSE f : Upto(f, Len(s))
<1>1. 0 \in T
  <2> DEFINE f == [n \in 0 .. 0 |-> base]
  <2>1. Upto(f, 0)
    OBVIOUS
  <2> HIDE DEF f, Upto
  <2> QED BY <2>1
<1>2. ASSUME NEW j \in T PROVE j + 1 \in T
  <2>1. PICK f : Upto(f, j)
    OBVIOUS
  <2>2. j \in Nat /\ 0 \in 0 .. j /\ \A n \in 0 .. j : n \in 0 .. j + 1 /\ n # j + 1
    OBVIOUS
  <2> DEFINE V(n) == IF n = 0 THEN base ELSE Deliver(f[n - 1], s[n])
             g == [n \in 0 .. j + 1 |-> V(n)]
  <2>3. \A n \in 0 .. j : f[n] = V(n)
    BY <2>1
  <2>4. \A n \in 0 .. j + 1 : g[n] = V(n)
    OBVIOUS
  <2>5. \A n \in 0 .. j : g[n] = f[n]
    <3> HIDE DEF V, g, Upto, T
    <3> QED BY <2>2, <2>3, <2>4
  <2>6. ASSUME NEW n \in 0 .. j + 1
        PROVE  V(n) = IF n = 0 THEN base ELSE Deliver(g[n - 1], s[n])
    <3>1. CASE n = 0
      BY <3>1
    <3>2. CASE n # 0
      <4>1. n - 1 \in 0 .. j
        BY <2>2, <3>2
      <4>2. g[n - 1] = f[n - 1]
        <5> HIDE DEF g
        <5> QED BY <2>5, <4>1
      <4> HIDE DEF g
      <4> QED BY <3>2, <4>2
    <3> QED BY <3>1, <3>2
  <2>7. Upto(g, j + 1)
    <3>1. g = [n \in 0 .. j + 1 |-> V(n)]
      OBVIOUS
    <3> HIDE DEF V, g
    <3>2. g = [n \in 0 .. j + 1 |-> IF n = 0 THEN base ELSE Deliver(g[n - 1], s[n])]
      BY <2>6, <3>1
    <3> QED BY <3>2
  <2> HIDE DEF Upto, g
  <2> QED BY <2>2, <2>7
<1>3. T = Nat
  <2>1. T \in SUBSET Nat
    OBVIOUS
  <2> HIDE DEF T
  <2> QED BY <1>1, <1>2, <2>1, AllNumbers
<1>4. PICK f : Upto(f, Len(s))
  BY <1>3
<1>5. Upto(after, Len(s))
  <2> HIDE DEF Upto
  <2> QED BY <1>4
<1>6. Folded(Deliver, base, s) = after[Len(s)]
  BY DEF Folded
<1> HIDE DEF after
<1> QED BY <1>5, <1>6 DEF DeliverRun

LEMMA DeliverOne ==
    ASSUME NEW E, NEW s \in Seq(E), NEW e \in E, NEW base
    PROVE  /\ Folded(Deliver, base, <<>>) = base
           /\ Folded(Deliver, base, Append(s, e)) = Deliver(Folded(Deliver, base, s), e)
<1> DEFINE more == Append(s, e)
<1>1. /\ Len(s) \in Nat /\ Len(more) = Len(s) + 1 /\ more[Len(s) + 1] = e
      /\ \A n \in 1..Len(s) : more[n] = s[n]
  OBVIOUS
<1> HIDE DEF more
<1>2. PICK f : DeliverRun(f, s, base) /\ Folded(Deliver, base, s) = f[Len(s)]
  BY <1>1, DeliverRuns
<1>3. PICK g : DeliverRun(g, more, base) /\ Folded(Deliver, base, more) = g[Len(more)]
  BY <1>1, DeliverRuns
<1>4. /\ f[0] = base /\ \A n \in 1 .. Len(s) : f[n] = Deliver(f[n - 1], s[n])
  <2>1. \A n \in 0 .. Len(s) : f[n] = IF n = 0 THEN base ELSE Deliver(f[n - 1], s[n])
    BY <1>2 DEF DeliverRun
  <2> QED BY <1>1, <2>1
<1>5. /\ g[0] = base /\ \A n \in 1 .. Len(s) + 1 : g[n] = Deliver(g[n - 1], more[n])
  <2>1. \A n \in 0 .. Len(s) + 1 : g[n] = IF n = 0 THEN base ELSE Deliver(g[n - 1], more[n])
    BY <1>1, <1>3 DEF DeliverRun
  <2> QED BY <1>1, <2>1
<1>6. f[Len(s)] = g[Len(s)]
  <2>1. f[0] = g[0]
    BY <1>4, <1>5
  <2>2. ASSUME NEW n \in 1 .. Len(s), f[n - 1] = g[n - 1] PROVE f[n] = g[n]
    BY <1>1, <1>4, <1>5, <2>2
  <2> QED BY <1>1, <2>1, <2>2, LoopUnique
<1>7. g[Len(s) + 1] = Deliver(g[Len(s)], e)
  <2>1. Len(s) + 1 \in 1 .. Len(s) + 1 /\ (Len(s) + 1) - 1 = Len(s)
    BY <1>1
  <2> QED BY <1>1, <1>5, <2>1
<1>8. Folded(Deliver, base, <<>>) = base
  <2>1. Len(<<>>) = 0
    OBVIOUS
  <2>2. PICK h : DeliverRun(h, <<>>, base) /\ Folded(Deliver, base, <<>>) = h[Len(<<>>)]
    BY <2>1, DeliverRuns
  <2> QED BY <2>1, <2>2 DEF DeliverRun
<1> QED BY <1>1, <1>2, <1>3, <1>6, <1>7, <1>8 DEF more

-----------------------------------------------------------------------------
(* The projection of the citations *)

LEMMA IsProjection ==
    ASSUME NEW a \in MessageTexts, NEW b \in MessageTexts, NEW c \in Seq(Annotations), NEW d \in KnownLists,
           NEW e \in BOOLEAN, NEW f \in Seq(MessageEvents), Apart(c, a)
    PROVE  [text |-> a, kept |-> b, annotations |-> c, known |-> d, started |-> e, out |-> f]
           \in Projections
<1> DEFINE x == [text |-> a, kept |-> b, annotations |-> c, known |-> d, started |-> e, out |-> f]
<1>1. x.annotations = c /\ x.text = a
  OBVIOUS
<1>2. x \in [text : MessageTexts, kept : MessageTexts, annotations : Seq(Annotations), known : KnownLists,
             started : BOOLEAN, out : Seq(MessageEvents)]
  OBVIOUS
<1> HIDE DEF x
<1>3. x \in Projections
  BY <1>1, <1>2 DEF Projections
<1> QED BY <1>3 DEF x

LEMMA ProjectionFields ==
    ASSUME NEW x \in Projections
    PROVE  /\ x.text \in MessageTexts /\ x.kept \in MessageTexts /\ x.annotations \in Seq(Annotations)
           /\ x.known \in KnownLists /\ x.started \in BOOLEAN /\ x.out \in Seq(MessageEvents)
           /\ Apart(x.annotations, x.text)
           /\ x = [text |-> x.text, kept |-> x.kept, annotations |-> x.annotations,
                   known |-> x.known, started |-> x.started, out |-> x.out]
BY DEF Projections

LEMMA NumberKnown ==
    ASSUME NEW known \in KnownLists, NEW id \in References
    PROVE  /\ AppendNew(known, id) \in KnownLists
           /\ NumberOf(AppendNew(known, id), id) \in 1 .. Len(AppendNew(known, id))
           /\ Numeral(NumberOf(AppendNew(known, id), id)) \in MessageTexts
           /\ Len(Numeral(NumberOf(AppendNew(known, id), id))) = 1
<1> DEFINE new == AppendNew(known, id)
           number == NumberOf(new, id)
<1>1. known \in Seq(References) /\ Len(known) \in Nat
      /\ \A m, n \in 1 .. Len(known) : known[m] = known[n] => m = n
  BY DEF KnownLists
<1>2. new \in KnownLists /\ \E n \in 1 .. Len(new) : new[n] = id
  <2>1. Range(known) = {known[n] : n \in 1 .. Len(known)}
    BY <1>1, RangeOfSequence
  <2>2. CASE id \in Range(known)
    BY <2>1, <2>2 DEF AppendNew
  <2>3. CASE id \notin Range(known)
    <3>1. new = Append(known, id)
      BY <2>3 DEF AppendNew
    <3>2. /\ new \in Seq(References) /\ Len(new) = Len(known) + 1 /\ new[Len(known) + 1] = id
          /\ \A n \in 1 .. Len(known) : new[n] = known[n]
      BY <1>1, <3>1
    <3>3. \A n \in 1 .. Len(known) : known[n] # id
      BY <2>1, <2>3
    <3> HIDE DEF new
    <3>4. \A m, n \in 1 .. Len(new) : new[m] = new[n] => m = n
      BY <1>1, <3>2, <3>3
    <3>5. Len(known) + 1 \in 1 .. Len(new)
      BY <1>1, <3>2
    <3> QED BY <3>2, <3>4, <3>5 DEF KnownLists
  <2> QED BY <2>2, <2>3
<1> HIDE DEF new
<1>3. new \in Seq(References) /\ Len(new) \in Nat /\ DOMAIN new = 1 .. Len(new)
      /\ \A m, n \in 1 .. Len(new) : new[m] = new[n] => m = n
  BY <1>2 DEF KnownLists
<1>4. number \in 1 .. Len(new)
  BY <1>2, <1>3 DEF NumberOf
<1>5. Len(new) <= Len(Numerals) /\ Len(Numerals) \in Nat
  <2>1. new \in [1 .. Len(new) -> References]
    BY <1>3
  <2>2. new \in Injection(1 .. Len(new), References)
    BY <1>3, <2>1 DEF Injection, IsInjective
  <2>3. Cardinality(1 .. Len(new)) <= Cardinality(References)
    BY <2>2, ReferencesAssumption, FS_Injection
  <2>4. Cardinality(1 .. Len(new)) = Len(new)
    BY <1>3, FS_Interval
  <2>5. Cardinality(References) \in Nat
    BY ReferencesAssumption, FS_CardinalityType
  <2> QED BY <1>3, <2>3, <2>4, <2>5, ReferencesAssumption
<1>6. Numerals[number] \in Characterset
  <2>1. number \in 1 .. Len(Numerals)
    BY <1>3, <1>4, <1>5
  <2>2. Numerals[number] \in Range(Numerals)
    BY <2>1, ReferencesAssumption
  <2> QED BY <2>2 DEF Characterset
<1>7. Numeral(number) \in MessageTexts /\ Len(Numeral(number)) = 1
  BY <1>6 DEF Numeral, MessageTexts
<1> QED BY <1>2, <1>4, <1>7 DEF new

LEMMA ApartAppend ==
    ASSUME NEW a \in Seq(Annotations), NEW t \in MessageTexts, NEW more \in MessageTexts, Apart(a, t)
    PROVE  /\ Apart(a, t \o more)
           /\ \A e \in Annotations : e.start = Len(t) /\ Len(more) > 0
                                      => Apart(Append(a, e), t \o more)
<1>1. Len(t) \in Nat /\ Len(more) \in Nat /\ Len(t \o more) = Len(t) + Len(more) /\ Len(a) \in Nat
  BY DEF MessageTexts
<1>2. \A n \in 1 .. Len(a) : a[n].start \in Nat
  <2>1. \A n \in 1 .. Len(a) : a[n] \in Annotations
    OBVIOUS
  <2>2. \A e \in Annotations : e.start \in Nat
    BY DEF Annotations
  <2> QED BY <2>1, <2>2
<1>3. Apart(a, t \o more)
  BY <1>1, <1>2 DEF Apart
<1>4. ASSUME NEW e \in Annotations, e.start = Len(t), Len(more) > 0
      PROVE  Apart(Append(a, e), t \o more)
  <2> DEFINE b == Append(a, e)
  <2>1. Len(b) = Len(a) + 1 /\ b[Len(a) + 1] = e /\ \A n \in 1 .. Len(a) : b[n] = a[n]
    OBVIOUS
  <2> HIDE DEF b
  <2> SUFFICES ASSUME NEW n \in 1 .. Len(b)
               PROVE  b[n].start < Len(t \o more) /\ \A m \in 1 .. n - 1 : b[m].start < b[n].start
    BY DEF Apart, b
  <2>2. CASE n = Len(a) + 1
    <3>1. \A m \in 1 .. n - 1 : m \in 1 .. Len(a) /\ b[m] = a[m] /\ a[m].start < Len(t)
      BY <1>1, <2>1, <2>2 DEF Apart
    <3> QED BY <1>1, <1>4, <2>1, <2>2, <3>1
  <2>3. CASE n # Len(a) + 1
    <3>1. n \in 1 .. Len(a) /\ \A m \in 1 .. n - 1 : m \in 1 .. Len(a)
      BY <1>1, <2>1, <2>3
    <3> QED BY <1>1, <1>3, <2>1, <3>1 DEF Apart
  <2> QED BY <2>2, <2>3
<1> QED BY <1>3, <1>4

LEMMA ApartDiffer ==
    ASSUME NEW a \in Seq(Annotations), NEW t, Apart(a, t)
    PROVE  \A m, n \in 1 .. Len(a) : a[m] = a[n] => m = n
<1>1. Len(a) \in Nat /\ \A n \in 1 .. Len(a) : a[n].start \in Nat
  <2>1. \A n \in 1 .. Len(a) : a[n] \in Annotations
    OBVIOUS
  <2>2. \A e \in Annotations : e.start \in Nat
    BY DEF Annotations
  <2> QED BY <2>1, <2>2
<1> SUFFICES ASSUME NEW m \in 1 .. Len(a), NEW n \in 1 .. Len(a), m < n PROVE a[m] # a[n]
  BY <1>1
<1>2. m \in 1 .. n - 1
  BY <1>1
<1>3. a[m].start < a[n].start
  BY <1>2 DEF Apart
<1> QED BY <1>1, <1>3

(* What forwarding a fragment does.                                        *)
LEMMA ForwardText ==
    ASSUME NEW x \in Projections, NEW t \in MessageTexts
    PROVE  /\ t = <<>> => Forward(x, Fragment(t)) = x
           /\ t # <<>> => Forward(x, Fragment(t)) =
                [text |-> x.text \o t, kept |-> x.kept, annotations |-> x.annotations,
                 known |-> x.known, started |-> x.started,
                 out |-> Append(x.out, DeltaOf(Message, t))]
           /\ Forward(x, Fragment(t)) \in Projections
<1>1. Fragment(t).cites = "none" /\ Fragment(t).text = t
  BY DEF Fragment
<1>2. PICK a, b, c, d, e, f : x = [text |-> a, kept |-> b, annotations |-> c, known |-> d,
                                   started |-> e, out |-> f]
                              /\ a \in MessageTexts /\ b \in MessageTexts /\ c \in Seq(Annotations)
                              /\ d \in KnownLists /\ e \in BOOLEAN /\ f \in Seq(MessageEvents)
  <2>1. x \in [text : MessageTexts, kept : MessageTexts, annotations : Seq(Annotations), known : KnownLists,
               started : BOOLEAN, out : Seq(MessageEvents)]
    BY DEF Projections
  <2> QED BY <2>1
<1>3. CASE t = <<>>
  BY <1>1, <1>3 DEF Forward
<1>4. CASE t # <<>>
  <2>1. Forward(x, Fragment(t)) =
            [text |-> a \o t, kept |-> b, annotations |-> c, known |-> d, started |-> e,
             out |-> Append(f, DeltaOf(Message, t))]
    BY <1>1, <1>2, <1>4 DEF Forward, DeltaOf
  <2>2. a \o t \in MessageTexts
    BY <1>2 DEF MessageTexts
  <2>3. Append(f, DeltaOf(Message, t)) \in Seq(MessageEvents)
    <3>1. DeltaOf(Message, t) \in MessageEvents
      BY DEF MessageEvents
    <3> QED BY <1>2, <3>1
  <2>4. Apart(c, a \o t)
    <3>1. Apart(c, a)
      BY <1>2 DEF Projections
    <3> QED BY <1>2, <3>1, ApartAppend
  <2>5. Forward(x, Fragment(t)) \in Projections
    <3>1. PICK g, h : g = a \o t /\ h = Append(f, DeltaOf(Message, t))
      OBVIOUS
    <3>2. g \in MessageTexts /\ h \in Seq(MessageEvents) /\ Apart(c, g)
      BY <2>2, <2>3, <2>4, <3>1
    <3>3. [text |-> g, kept |-> b, annotations |-> c, known |-> d, started |-> e, out |-> h]
          \in Projections
      BY <1>2, <3>2, IsProjection
    <3> QED BY <2>1, <3>1, <3>3
  <2> QED BY <1>2, <1>4, <2>1, <2>5
<1> QED BY <1>3, <1>4

LEMMA ForwardCited ==
    ASSUME NEW x \in Projections, NEW id \in References
    PROVE  LET number == Numeral(NumberOf(AppendNew(x.known, id), id))
               a == CitedAnnotation(x, id)
           IN  /\ Forward(x, Cited(id)) =
                    [text |-> x.text \o number, kept |-> x.kept,
                     annotations |-> Append(x.annotations, a),
                     known |-> AppendNew(x.known, id), started |-> x.started,
                     out |-> Append(Append(x.out, DeltaOf(Message, number)),
                                    AnnotationOf(Message, Len(x.annotations) + 1, a))]
               /\ Forward(x, Cited(id)) \in Projections
               /\ number \in MessageTexts /\ a \in Annotations
<1> DEFINE known == AppendNew(x.known, id)
           number == Numeral(NumberOf(known, id))
           ann == CitedAnnotation(x, id)
<1>1. Cited(id).cites = id /\ id # "none"
  BY ReferencesAssumption DEF Cited
<1>2. PICK a, b, c, d, e, f : x = [text |-> a, kept |-> b, annotations |-> c, known |-> d,
                                   started |-> e, out |-> f]
                              /\ a \in MessageTexts /\ b \in MessageTexts /\ c \in Seq(Annotations)
                              /\ d \in KnownLists /\ e \in BOOLEAN /\ f \in Seq(MessageEvents)
  <2>1. x \in [text : MessageTexts, kept : MessageTexts, annotations : Seq(Annotations), known : KnownLists,
               started : BOOLEAN, out : Seq(MessageEvents)]
    BY DEF Projections
  <2> QED BY <2>1
<1>3. known \in KnownLists /\ number \in MessageTexts /\ Len(number) = 1
  <2>1. x.known \in KnownLists
    BY <1>2
  <2> QED BY <2>1, NumberKnown
<1>4. ann = [cites |-> id, number |-> number, start |-> Len(x.text), end |-> Len(x.text) + Len(number)]
  BY DEF CitedAnnotation
<1>5. ann \in Annotations /\ ann.start = Len(a)
  <2>1. Len(x.text) \in Nat /\ x.text = a
    BY <1>2 DEF MessageTexts
  <2> HIDE DEF known, number
  <2> QED BY <1>3, <1>4, <2>1 DEF Annotations
<1> DEFINE more == <<DeltaOf(Message, number), AnnotationOf(Message, Len(x.annotations) + 1, ann)>>
<1>6. Forward(x, Cited(id)) =
        [x EXCEPT !.text = @ \o number, !.known = known, !.annotations = Append(@, ann),
                  !.out = @ \o more]
  BY <1>1 DEF Forward, DeltaOf, AnnotationOf, CitedAnnotation
<1> HIDE DEF ann, number, known
<1>7. f \o more = Append(Append(f, DeltaOf(Message, number)),
                         AnnotationOf(Message, Len(x.annotations) + 1, ann))
      /\ f \o more \in Seq(MessageEvents)
  <2>1. DeltaOf(Message, number) \in MessageEvents
    BY <1>3 DEF MessageEvents
  <2>2. AnnotationOf(Message, Len(x.annotations) + 1, ann) \in MessageEvents
    <3>1. Len(x.annotations) + 1 \in Nat
      BY <1>2
    <3> QED BY <1>5, <3>1 DEF MessageEvents
  <2>3. PICK u, v : u = DeltaOf(Message, number) /\ v = AnnotationOf(Message, Len(x.annotations) + 1, ann)
    OBVIOUS
  <2>4. f \o <<u, v>> = Append(Append(f, u), v) /\ f \o <<u, v>> \in Seq(MessageEvents)
    BY <1>2, <2>1, <2>2, <2>3
  <2> QED BY <2>3, <2>4
<1> HIDE DEF more
<1>8. Forward(x, Cited(id)) =
        [text |-> a \o number, kept |-> b, annotations |-> Append(c, ann), known |-> known,
         started |-> e, out |-> f \o more]
  BY <1>2, <1>6
<1>9. a \o number \in MessageTexts /\ Append(c, ann) \in Seq(Annotations)
  BY <1>2, <1>3, <1>5 DEF MessageTexts
<1>10. Apart(Append(c, ann), a \o number)
  <2>1. Apart(c, a)
    BY <1>2 DEF Projections
  <2>2. \A z \in Annotations : z.start = Len(a) /\ Len(number) > 0
                              => Apart(Append(c, z), a \o number)
    BY <1>2, <1>3, <2>1, ApartAppend
  <2> QED BY <1>3, <1>5, <2>2
<1>11. Forward(x, Cited(id)) \in Projections
  <2>1. PICK g, h, j : g = a \o number /\ h = f \o more /\ j = Append(c, ann)
    OBVIOUS
  <2>2. g \in MessageTexts /\ h \in Seq(MessageEvents) /\ j \in Seq(Annotations) /\ Apart(j, g)
    BY <1>7, <1>9, <1>10, <2>1
  <2>3. [text |-> g, kept |-> b, annotations |-> j, known |-> known, started |-> e, out |-> h]
        \in Projections
    BY <1>2, <1>3, <2>2, IsProjection
  <2> QED BY <1>8, <2>1, <2>3
<1>12. Forward(x, Cited(id)) =
        [text |-> x.text \o number, kept |-> x.kept, annotations |-> Append(x.annotations, ann),
         known |-> known, started |-> x.started,
         out |-> Append(Append(x.out, DeltaOf(Message, number)),
                        AnnotationOf(Message, Len(x.annotations) + 1, ann))]
  BY <1>2, <1>7, <1>8
<1> QED BY <1>3, <1>5, <1>11, <1>12 DEF known, number, ann

LEMMA DeliverMore ==
    ASSUME NEW s \in Seq(MessageEvents), NEW e \in MessageEvents, NEW base
    PROVE  Folded(Deliver, base, Append(s, e)) = Deliver(Folded(Deliver, base, s), e)
BY DeliverOne, ZenonT(30)

LEMMA DisplayTyped ==
    ASSUME provider.kinds \in Shapes, NEW F \in ItemsSeen, NEW x \in Projections
    PROVE  /\ Display(F, x) \in ItemsSeen
           /\ Display(F, x)[Message] = [text |-> x.text, annotations |-> x.annotations, phase |-> "none"]
<1>1. Message \in Items
  BY MessageIsAnItem
<1>2. x.text \in Words /\ x.annotations \in Seq(Annotations)
  <2>1. x.text \in MessageTexts /\ x.annotations \in Seq(Annotations)
    BY ProjectionFields
  <2> QED BY <2>1, SequenceWithin DEF MessageTexts, Words
<1>3. [text |-> x.text, annotations |-> x.annotations, phase |-> "none"] \in ItemType
  BY <1>2 DEF ItemType, Words, Annotations, MessageTexts
<1> QED BY <1>1, <1>3 DEF Display, ItemsSeen

LEMMA ForwardInSync ==
    ASSUME provider.kinds \in Shapes, NEW F \in ItemsSeen, NEW S \in SUBSET Items, Message \in S,
           NEW r, NEW st, NEW x \in Projections, InSync(x, r, F, S, st), NEW fragment \in Fragments
    PROVE  /\ Forward(x, fragment) \in Projections /\ InSync(Forward(x, fragment), r, F, S, st)
           /\ Forward(x, fragment).kept = x.kept /\ Forward(x, fragment).started = x.started
<1> DEFINE y == Forward(x, fragment)
           base == Folded(Deliver, r, x.out)
<1>1. x.out \in Seq(MessageEvents) /\ x.text \in MessageTexts /\ x.annotations \in Seq(Annotations)
  BY ProjectionFields
<1>2. Synced(base, Display(F, x), S, st) /\ Display(F, x) \in ItemsSeen
      /\ Display(F, x)[Message] = [text |-> x.text, annotations |-> x.annotations, phase |-> "none"]
  BY DisplayTyped DEF InSync
<1>3. Message \in Items
  BY MessageIsAnItem
<1>4. ASSUME NEW t \in MessageTexts, fragment = Fragment(t)
      PROVE  y \in Projections /\ InSync(y, r, F, S, st) /\ y.kept = x.kept /\ y.started = x.started
  <2>1. CASE t = <<>>
    BY <1>4, <2>1, ForwardText
  <2>2. CASE t # <<>>
    <3>1. y = [text |-> x.text \o t, kept |-> x.kept, annotations |-> x.annotations,
               known |-> x.known, started |-> x.started,
               out |-> Append(x.out, DeltaOf(Message, t))]
          /\ y \in Projections
      BY <1>4, <2>2, ForwardText
    <3>2. Folded(Deliver, r, y.out) = Deliver(base, DeltaOf(Message, t))
      <4>1. DeltaOf(Message, t) \in MessageEvents
        BY DEF MessageEvents
      <4>2. PICK d : d = DeltaOf(Message, t)
        OBVIOUS
      <4>3. PICK o : o = Append(x.out, d)
        OBVIOUS
      <4>4. y.out = o
        <5>1. y = [text |-> x.text \o t, kept |-> x.kept, annotations |-> x.annotations,
                   known |-> x.known, started |-> x.started, out |-> o]
          BY <3>1, <4>2, <4>3
        <5> HIDE DEF y
        <5> QED BY <5>1
      <4>5. Folded(Deliver, r, Append(x.out, d)) = Deliver(base, d)
        BY <1>1, <4>1, <4>2, DeliverOne
      <4> HIDE DEF y, base
      <4> QED BY <4>2, <4>3, <4>4, <4>5
    <3> DEFINE G == Display(F, x)
    <3>3. Synced(Deliver(base, DeltaOf(Message, t)), [G EXCEPT ![Message].text = @ \o t], S, st)
      <4> HIDE DEF G, base
      <4> QED BY <1>2, DeltaArrives DEF G
    <3>4. [G EXCEPT ![Message].text = @ \o t] = Display(F, y)
      <4>1. y.text = x.text \o t /\ y.annotations = x.annotations
        BY <3>1
      <4>2. PICK u, a : u = x.text /\ a = x.annotations
        OBVIOUS
      <4>3. G = [F EXCEPT ![Message] = [text |-> u, annotations |-> a, phase |-> "none"]]
        BY <4>2 DEF Display
      <4>4. Display(F, y) = [F EXCEPT ![Message] = [text |-> u \o t, annotations |-> a, phase |-> "none"]]
        <5> HIDE DEF y
        <5> QED BY <4>1, <4>2 DEF Display
      <4> HIDE DEF G
      <4>5. G[Message] = [text |-> u, annotations |-> a, phase |-> "none"]
        BY <1>3, <4>3 DEF ItemsSeen
      <4>6. [G[Message] EXCEPT !.text = G[Message].text \o t] = [text |-> u \o t, annotations |-> a, phase |-> "none"]
        BY <4>5, SMTT(30)
      <4> QED BY <1>3, <4>3, <4>4, <4>6 DEF ItemsSeen
    <3> HIDE DEF y, G, base
    <3>5. InSync(y, r, F, S, st)
      BY <3>2, <3>3, <3>4 DEF InSync
    <3> QED BY <3>1, <3>5
  <2> QED BY <2>1, <2>2
<1>5. ASSUME NEW id \in References, fragment = Cited(id)
      PROVE  y \in Projections /\ InSync(y, r, F, S, st) /\ y.kept = x.kept /\ y.started = x.started
  <2> DEFINE number == Numeral(NumberOf(AppendNew(x.known, id), id))
             ann == CitedAnnotation(x, id)
  <2>1. y = [text |-> x.text \o number, kept |-> x.kept,
             annotations |-> Append(x.annotations, ann),
             known |-> AppendNew(x.known, id), started |-> x.started,
             out |-> Append(Append(x.out, DeltaOf(Message, number)),
                            AnnotationOf(Message, Len(x.annotations) + 1, ann))]
        /\ y \in Projections /\ number \in MessageTexts /\ ann \in Annotations
    BY <1>5, ForwardCited
  <2> HIDE DEF number, ann
  <2>2. PICK d, n : d = DeltaOf(Message, number) /\ n = AnnotationOf(Message, Len(x.annotations) + 1, ann)
    OBVIOUS
  <2>3. d \in MessageEvents /\ n \in MessageEvents
    <3>1. Len(x.annotations) + 1 \in Nat
      BY <1>1
    <3>2. DeltaOf(Message, number) \in MessageEvents
      BY <2>1 DEF MessageEvents
    <3>3. AnnotationOf(Message, Len(x.annotations) + 1, ann) \in MessageEvents
      <4>1. PICK k : k = Len(x.annotations) + 1 /\ k \in Nat
        BY <3>1
      <4>2. ann \in Annotations
        BY <2>1
      <4>3. AnnotationOf(Message, k, ann) \in MessageEvents
        BY <4>1, <4>2 DEF MessageEvents
      <4> HIDE DEF y, base
      <4> QED BY <4>1, <4>3
    <3> QED BY <2>2, <3>2, <3>3
  <2>4. y.text = x.text \o number /\ y.annotations = Append(x.annotations, ann)
        /\ y.kept = x.kept /\ y.started = x.started /\ y.out = Append(Append(x.out, d), n)
    <3>1. y = [text |-> x.text \o number, kept |-> x.kept,
               annotations |-> Append(x.annotations, ann),
               known |-> AppendNew(x.known, id), started |-> x.started,
               out |-> Append(Append(x.out, d), n)]
      BY <2>1, <2>2
    <3> HIDE DEF y
    <3> QED BY <3>1
  <2>5. Folded(Deliver, r, y.out) = Deliver(Deliver(base, d), n)
    <3>1. PICK o : o = Append(x.out, d)
      OBVIOUS
    <3>2. o \in Seq(MessageEvents)
      BY <1>1, <2>3, <3>1
    <3>3. Folded(Deliver, r, o) = Deliver(base, d)
      BY <1>1, <2>3, <3>1, DeliverOne, ZenonT(30)
    <3>4. Folded(Deliver, r, Append(o, n)) = Deliver(Folded(Deliver, r, o), n)
      <4> HIDE DEF y, base
      <4> QED BY <2>3, <3>2, DeliverMore
    <3> HIDE DEF y, base
    <3> QED BY <2>4, <3>1, <3>3, <3>4
  <2> HIDE DEF y, base
  <2> DEFINE G == Display(F, x)
  <2>6. PICK H : H = [G EXCEPT ![Message].text = @ \o number]
    OBVIOUS
  <2>7. PICK u, a : u = x.text /\ a = x.annotations /\ u \in MessageTexts /\ a \in Seq(Annotations)
    BY <1>1
  <2>8. G = [F EXCEPT ![Message] = [text |-> u, annotations |-> a, phase |-> "none"]]
        /\ G[Message] = [text |-> u, annotations |-> a, phase |-> "none"]
        /\ G \in ItemsSeen
    BY <1>2, <2>7 DEF Display
  <2> HIDE DEF G
  <2>9. [G[Message] EXCEPT !.text = G[Message].text \o number]
        = [text |-> u \o number, annotations |-> a, phase |-> "none"]
    <3>1. PICK g : g = G[Message]
      OBVIOUS
    <3>2. g = [text |-> u, annotations |-> a, phase |-> "none"]
      BY <2>8, <3>1
    <3>3. [g EXCEPT !.text = g.text \o number] = [text |-> u \o number, annotations |-> a, phase |-> "none"]
      BY <3>2
    <3> QED BY <3>1, <3>3
  <2>10. H = [F EXCEPT ![Message] = [text |-> u \o number, annotations |-> a, phase |-> "none"]]
         /\ H[Message] = [text |-> u \o number, annotations |-> a, phase |-> "none"]
    <3>1. PICK g : g = G[Message]
      OBVIOUS
    <3>2. [g EXCEPT !.text = g.text \o number] = [text |-> u \o number, annotations |-> a, phase |-> "none"]
      BY <2>9, <3>1
    <3>3. H = [G EXCEPT ![Message] = [g EXCEPT !.text = g.text \o number]]
      BY <2>6, <3>1
    <3>4. PICK h : h = [text |-> u \o number, annotations |-> a, phase |-> "none"]
      OBVIOUS
    <3>5. H = [G EXCEPT ![Message] = h]
      BY <3>2, <3>3, <3>4
    <3>6. H = [F EXCEPT ![Message] = h] /\ H[Message] = h
      BY <1>3, <2>8, <3>5 DEF ItemsSeen
    <3> QED BY <3>4, <3>6
  <2>11. H \in ItemsSeen
    <3>1. u \o number \in Words
      <4>1. u \o number \in MessageTexts
        BY <2>1, <2>7 DEF MessageTexts
      <4> QED BY <4>1, SequenceWithin DEF MessageTexts, Words
    <3>2. [text |-> u \o number, annotations |-> a, phase |-> "none"] \in ItemType
      BY <2>7, <3>1 DEF ItemType, Words, Annotations, MessageTexts
    <3> QED BY <1>3, <2>10, <3>2 DEF ItemsSeen
  <2>12. Synced(Deliver(base, d), H, S, st)
    <3>1. Synced(base, G, S, st)
      BY <1>2 DEF G
    <3>2. Synced(Deliver(base, DeltaOf(Message, number)), [G EXCEPT ![Message].text = @ \o number], S, st)
      BY <2>8, <3>1, DeltaArrives
    <3> QED BY <2>2, <2>6, <3>2
  <2>13. PICK K : K = [H EXCEPT ![Message].annotations = Append(@, ann)]
    OBVIOUS
  <2>14. Synced(Deliver(Deliver(base, d), n), K, S, st)
    <3>1. H[Message].annotations = x.annotations
      BY <2>7, <2>10
    <3>2. PICK b : b = Deliver(base, d)
      OBVIOUS
    <3>3. Synced(Deliver(b, AnnotationOf(Message, Len(H[Message].annotations) + 1, ann)),
                 [H EXCEPT ![Message].annotations = Append(@, ann)], S, st)
      BY <2>1, <2>11, <2>12, <3>2, AnnotationArrives
    <3> QED BY <2>2, <2>13, <3>1, <3>2, <3>3
  <2>15. K = Display(F, y)
    <3>1. Display(F, y) = [F EXCEPT ![Message] =
                [text |-> u \o number, annotations |-> Append(a, ann), phase |-> "none"]]
      BY <2>4, <2>7 DEF Display
    <3>2. [H[Message] EXCEPT !.annotations = Append(H[Message].annotations, ann)]
          = [text |-> u \o number, annotations |-> Append(a, ann), phase |-> "none"]
      <4>1. PICK g : g = H[Message]
        OBVIOUS
      <4>2. g = [text |-> u \o number, annotations |-> a, phase |-> "none"]
        BY <2>10, <4>1
      <4>3. [g EXCEPT !.annotations = Append(g.annotations, ann)]
            = [text |-> u \o number, annotations |-> Append(a, ann), phase |-> "none"]
        <5>1. PICK b, c : b = u \o number /\ c = Append(a, ann)
          OBVIOUS
        <5>2. g.annotations = a
          BY <4>2
        <5>3. g = [text |-> b, annotations |-> a, phase |-> "none"]
          BY <4>2, <5>1
        <5>4. [g EXCEPT !.annotations = c] = [text |-> b, annotations |-> c, phase |-> "none"]
          BY <5>3
        <5> QED BY <5>1, <5>2, <5>4
      <4> QED BY <4>1, <4>3
    <3>3. PICK g, h : g = H[Message]
                      /\ h = [text |-> u \o number, annotations |-> Append(a, ann), phase |-> "none"]
      OBVIOUS
    <3>4. K = [H EXCEPT ![Message] = [g EXCEPT !.annotations = Append(g.annotations, ann)]]
      BY <2>13, <3>3
    <3>5. K = [H EXCEPT ![Message] = h]
      BY <3>2, <3>3, <3>4
    <3>6. K = [F EXCEPT ![Message] = h]
      BY <1>3, <2>10, <3>5 DEF ItemsSeen
    <3> QED BY <3>1, <3>3, <3>6
  <2> QED BY <2>1, <2>4, <2>5, <2>14, <2>15 DEF InSync
<1> QED BY <1>4, <1>5 DEF Fragments

LEMMA ForwardedInSync ==
    ASSUME provider.kinds \in Shapes, NEW F \in ItemsSeen, NEW S \in SUBSET Items, Message \in S,
           NEW r, NEW st, NEW x \in Projections, InSync(x, r, F, S, st), NEW fragments \in Seq(Fragments)
    PROVE  LET y == Folded(Forward, x, fragments)
           IN  y \in Projections /\ InSync(y, r, F, S, st) /\ y.kept = x.kept /\ y.started = x.started
<1> DEFINE D == [n \in Nat |-> {y \in Projections :
                    InSync(y, r, F, S, st) /\ y.kept = x.kept /\ y.started = x.started}]
<1>1. x \in D[0] /\ Len(fragments) \in Nat /\ \A n \in 1 .. Len(fragments) : fragments[n] \in Fragments
  OBVIOUS
<1>2. ASSUME NEW n \in 1 .. Len(fragments), NEW y \in D[n - 1] PROVE Forward(y, fragments[n]) \in D[n]
  <2>1. n - 1 \in Nat /\ n \in Nat /\ fragments[n] \in Fragments
    BY <1>1
  <2>2. y \in Projections /\ InSync(y, r, F, S, st) /\ y.kept = x.kept /\ y.started = x.started
    BY <2>1
  <2>3. /\ Forward(y, fragments[n]) \in Projections /\ InSync(Forward(y, fragments[n]), r, F, S, st)
        /\ Forward(y, fragments[n]).kept = y.kept /\ Forward(y, fragments[n]).started = y.started
    BY <2>1, <2>2, ForwardInSync
  <2> QED BY <2>1, <2>2, <2>3
<1>3. PICK f : ForwardFold(f, fragments, x, D)
  <2> HIDE DEF D
  <2> QED BY <1>1, <1>2, ForwardLoop
<1>4. Folded(Forward, x, fragments) \in D[Len(fragments)]
  <2> HIDE DEF D
  <2> QED BY <1>1, <1>3 DEF ForwardFold
<1> QED BY <1>1, <1>4

LEMMA FindFirst ==
    ASSUME NEW s, Len(s) \in Nat, NEW a, NEW b, NEW from \in Nat \ {0}
    PROVE  FoundAt(Find(s, <<a, b>>, from), s, a, b, from)
<1> DEFINE at == {i \in from .. Len(s) - 1 : <<s[i], s[i + 1]>> = <<a, b>>}
           f == Find(s, <<a, b>>, from)
<1>1. f = IF at = {} THEN 0 ELSE CHOOSE i \in at : \A j \in at : i <= j
  BY DEF Find
<1>2. \A i : i \in at <=> i \in from .. Len(s) - 1 /\ s[i] = a /\ s[i + 1] = b
  OBVIOUS
<1>3. at \subseteq Nat
  OBVIOUS
<1> HIDE DEF at, f
<1>4. CASE at = {}
  BY <1>1, <1>2, <1>4 DEF FoundAt, f
<1>5. CASE at # {}
  <2>1. \E i \in at : \A j \in at : i <= j
    BY <1>3, <1>5, SmallestNumber
  <2>2. f \in at /\ \A j \in at : f <= j
    BY <1>1, <1>5, <2>1
  <2>3. f \in from .. Len(s) - 1 /\ s[f] = a /\ s[f + 1] = b /\ f # 0
    BY <1>2, <2>2
  <2>4. \A i \in from .. f - 1 : ~(s[i] = a /\ s[i + 1] = b)
    <3> SUFFICES ASSUME NEW i \in from .. f - 1, s[i] = a, s[i + 1] = b PROVE FALSE
      OBVIOUS
    <3>1. i \in at
      BY <1>2, <2>3
    <3> QED BY <2>2, <2>3, <3>1
  <2> QED BY <2>3, <2>4 DEF FoundAt, f
<1> QED BY <1>4, <1>5

LEMMA PartOfText ==
    ASSUME NEW S, NEW s \in Seq(S), NEW a \in 1 .. Len(s) + 1, NEW b \in a - 1 .. Len(s)
    PROVE  /\ SubSeq(s, a, b) \in Seq(S) /\ Len(SubSeq(s, a, b)) = b - a + 1
           /\ \A n \in 1 .. b - a + 1 : SubSeq(s, a, b)[n] = s[a + n - 1]
OBVIOUS

LEMMA TextFragment ==
    ASSUME NEW t \in MessageTexts
    PROVE  Fragment(t) \in Fragments
BY DEF Fragments

LEMMA OneFragment ==
    ASSUME NEW c \in Fragments
    PROVE  <<c>> \in Seq(Fragments) /\ Len(<<c>>) = 1
OBVIOUS

LEMMA MarkerFragmentsTyped ==
    ASSUME Provided, NEW m \in MessageTexts
    PROVE  MarkerFragments(m) \in Seq(Fragments) /\ Len(MarkerFragments(m)) \in {0, 1}
<1>1. CASE ~IsPrefix(Prefix, m)
  <2>1. MarkerFragments(m) = <<Fragment(m)>>
    BY <1>1 DEF MarkerFragments
  <2>2. Fragment(m) \in Fragments
    BY TextFragment
  <2>3. PICK c : c = Fragment(m)
    OBVIOUS
  <2>4. c \in Fragments
    BY <2>2, <2>3
  <2>5. <<c>> \in Seq(Fragments) /\ Len(<<c>>) = 1
    BY <2>4, OneFragment
  <2> QED BY <2>1, <2>3, <2>5
<1>2. CASE IsPrefix(Prefix, m)
  <2> DEFINE id == SubSeq(m, 4, Len(m) - 2)
  <2>1. CASE \E r \in provider.evidence : id = <<r>>
    <3>1. MarkerFragments(m) = <<Cited(id[1])>>
      BY <1>2, <2>1 DEF MarkerFragments
    <3>2. PICK r \in provider.evidence : id = <<r>>
      BY <2>1
    <3>3. id[1] \in References
      <4>1. r \in References
        BY DEF Provided
      <4>2. id[1] = r
        <5> HIDE DEF id
        <5> QED BY <3>2
      <4> QED BY <4>1, <4>2
    <3>4. Cited(id[1]) \in Fragments
      BY <3>3 DEF Fragments
    <3>5. PICK c : c = Cited(id[1])
      OBVIOUS
    <3>6. c \in Fragments
      BY <3>4, <3>5
    <3>7. <<c>> \in Seq(Fragments) /\ Len(<<c>>) = 1
      BY <3>6, OneFragment
    <3> QED BY <3>1, <3>5, <3>7
  <2>2. CASE ~\E r \in provider.evidence : id = <<r>>
    <3>1. MarkerFragments(m) = <<>>
      BY <1>2, <2>2 DEF MarkerFragments
    <3> QED BY <3>1
  <2> QED BY <2>1, <2>2
<1> QED BY <1>1, <1>2

LEMMA IsScan ==
    ASSUME NEW a \in Seq(Fragments), NEW b \in MessageTexts, Len(b) <= MaxMarkerLength, NEW c \in MessageTexts
    PROVE  [shown |-> a, kept |-> b, rest |-> c] \in Scans
<1> DEFINE x == [shown |-> a, kept |-> b, rest |-> c]
<1>1. x \in [shown : Seq(Fragments), kept : MessageTexts, rest : MessageTexts] /\ x.kept = b
  OBVIOUS
<1> HIDE DEF x
<1>2. x \in Scans
  BY <1>1 DEF Scans
<1> QED BY <1>2 DEF x

LEMMA ScanFields ==
    ASSUME NEW x \in Scans
    PROVE  /\ x.shown \in Seq(Fragments) /\ x.kept \in MessageTexts /\ x.rest \in MessageTexts
           /\ Len(x.kept) <= MaxMarkerLength
           /\ x = [shown |-> x.shown, kept |-> x.kept, rest |-> x.rest]
BY DEF Scans

LEMMA ReturnedTyped ==
    ASSUME NEW x \in Scans, NEW t \in MessageTexts, NEW k \in MessageTexts, Len(k) <= MaxMarkerLength
    PROVE  Returned(x, t, k) \in Scans /\ Returned(x, t, k).rest = <<>>
<1>1. x.shown \in Seq(Fragments) /\ Fragment(t) \in Fragments
  BY ScanFields, TextFragment
<1>2. PICK a : a = Append(x.shown, Fragment(t)) /\ a \in Seq(Fragments)
  <2>1. PICK c, d : c = Fragment(t) /\ d = x.shown
    OBVIOUS
  <2>2. Append(d, c) \in Seq(Fragments)
    BY <1>1, <2>1
  <2> QED BY <2>1, <2>2
<1>3. <<>> \in MessageTexts
  BY DEF MessageTexts
<1>4. [shown |-> a, kept |-> k, rest |-> <<>>] \in Scans
  BY <1>2, <1>3, IsScan
<1> QED BY <1>2, <1>4 DEF Returned

LEMMA ScanTyped ==
    ASSUME Provided, NEW x \in Scans, NEW step
    PROVE  /\ Scan(x, step) \in Scans
           /\ x.rest = <<>> => Scan(x, step) = x
           /\ x.rest # <<>> => Len(Scan(x, step).rest) < Len(x.rest)
<1> DEFINE start == Find(x.rest, <<"[", "[">>, 1)
           y == Scan(x, step)
<1>1. /\ x.shown \in Seq(Fragments) /\ x.kept \in MessageTexts /\ x.rest \in MessageTexts
      /\ Len(x.rest) \in Nat /\ MaxMarkerLength \in Nat /\ MaxMarkerLength >= 6
  <2>1. Len(Marker(Invented)) = 6
    BY DEF Marker, Prefix
  <2> QED BY <2>1, ScanFields, ReferencesAssumption DEF MessageTexts
<1>2. <<>> \in MessageTexts /\ <<"[">> \in MessageTexts /\ Len(<<>>) = 0 /\ Len(<<"[">>) = 1
  BY DEF MessageTexts, Characterset, Letters
<1>3. CASE x.rest = <<>>
  <2>1. y = x
    BY <1>3 DEF Scan
  <2> QED BY <1>3, <2>1
<1>4. ASSUME x.rest # <<>>, NEW t \in MessageTexts, NEW k \in MessageTexts, Len(k) <= MaxMarkerLength,
             y = Returned(x, t, k)
      PROVE  y \in Scans /\ Len(y.rest) < Len(x.rest)
  <2>1. y \in Scans /\ y.rest = <<>>
    BY <1>4, ReturnedTyped
  <2>2. Len(x.rest) > 0
    BY <1>1, <1>4 DEF MessageTexts
  <2> HIDE DEF y
  <2> QED BY <2>1, <2>2, <1>2
<1>5. CASE x.rest # <<>> /\ start = 0
  <2>1. y = Unbracketed(x)
    BY <1>5 DEF Scan
  <2>2. CASE EndsInBracket(x.rest)
    <3>1. y = Returned(x, Front(x.rest), <<"[">>)
      BY <2>1, <2>2 DEF Unbracketed
    <3>2. Front(x.rest) \in MessageTexts
      BY <1>1, <1>5 DEF MessageTexts, Front
    <3> HIDE DEF y
    <3>3. y \in Scans /\ Len(y.rest) < Len(x.rest)
      <4>1. PICK t, k : t = Front(x.rest) /\ k = <<"[">>
        OBVIOUS
      <4>2. t \in MessageTexts /\ k \in MessageTexts /\ Len(k) <= MaxMarkerLength /\ y = Returned(x, t, k)
        BY <1>1, <1>2, <3>1, <3>2, <4>1
      <4> QED BY <1>4, <1>5, <4>2
    <3> QED BY <1>5, <3>3 DEF y
  <2>3. CASE ~EndsInBracket(x.rest)
    <3>1. y = Returned(x, x.rest, <<>>)
      BY <2>1, <2>3 DEF Unbracketed
    <3> QED BY <1>1, <1>2, <1>4, <1>5, <3>1
  <2> QED BY <1>5, <2>2, <2>3
<1>6. CASE x.rest # <<>> /\ start # 0
  <2> DEFINE before == SubSeq(x.rest, 1, start - 1)
             candidate == SubSeq(x.rest, start, Len(x.rest))
             end == Find(candidate, <<"]", "]">>, 3)
             tail == SubSeq(candidate, end + 2, Len(candidate))
             marker == SubSeq(candidate, 1, end + 1)
  <2>1. y = Bracketed(x, start)
    BY <1>6 DEF Scan
  <2>2. start \in 1 .. Len(x.rest) - 1
    BY <1>1, <1>6, FindFirst DEF FoundAt
  <2> HIDE DEF start
  <2>3. before \in MessageTexts /\ candidate \in MessageTexts /\ Len(candidate) \in Nat
        /\ Len(candidate) = Len(x.rest) - start + 1
    BY <1>1, <2>2 DEF MessageTexts
  <2> HIDE DEF before, candidate
  <2>4. end # 0 => end \in 3 .. Len(candidate) - 1
    BY <2>3, FindFirst DEF FoundAt
  <2> HIDE DEF end
  <2>5. CASE end # 0
    <3>1. y = [shown |-> Append(x.shown, Fragment(before)) \o MarkerFragments(marker),
               kept |-> <<>>, rest |-> tail]
      BY <2>1, <2>5 DEF Bracketed, before, candidate, end
    <3>2. marker \in MessageTexts /\ tail \in MessageTexts /\ Len(tail) = Len(candidate) - end - 1
      BY <2>3, <2>4, <2>5, SMTT(30) DEF MessageTexts
    <3> HIDE DEF marker, tail, y
    <3>3. Fragment(before) \in Fragments /\ MarkerFragments(marker) \in Seq(Fragments)
      BY <2>3, <3>2, TextFragment, MarkerFragmentsTyped
    <3>4. PICK a : a = Append(x.shown, Fragment(before)) \o MarkerFragments(marker)
                   /\ a \in Seq(Fragments)
      <4>1. PICK c, d, e : c = Fragment(before) /\ d = x.shown /\ e = MarkerFragments(marker)
        OBVIOUS
      <4>2. Append(d, c) \o e \in Seq(Fragments)
        BY <1>1, <3>3, <4>1
      <4> QED BY <4>1, <4>2
    <3>5. y = [shown |-> a, kept |-> <<>>, rest |-> tail]
      BY <3>1, <3>4
    <3>6. y \in Scans
      <4>1. PICK k, z : k = <<>> /\ z = tail /\ k \in MessageTexts /\ z \in MessageTexts /\ Len(k) <= MaxMarkerLength
        BY <1>1, <1>2, <3>2
      <4>2. a \in Seq(Fragments)
        BY <3>4
      <4>3. [shown |-> a, kept |-> k, rest |-> z] \in Scans
        BY <4>1, <4>2, IsScan
      <4>4. [shown |-> a, kept |-> <<>>, rest |-> tail] \in Scans
        BY <4>1, <4>3
      <4> QED BY <3>5, <4>4
    <3>7. Len(y.rest) < Len(x.rest)
      BY <1>1, <2>2, <2>3, <2>4, <2>5, <3>2, <3>5
    <3> QED BY <1>6, <3>6, <3>7 DEF y
  <2>6. CASE end = 0 /\ Waits(candidate)
    <3>1. y = Returned(x, before, candidate)
      BY <2>1, <2>6 DEF Bracketed, before, candidate, end
    <3>2. Len(candidate) <= MaxMarkerLength
      BY <2>6 DEF Waits
    <3> HIDE DEF y
    <3>3. y \in Scans /\ Len(y.rest) < Len(x.rest)
      BY <1>4, <1>6, <2>3, <3>1, <3>2
    <3> QED BY <1>6, <3>3 DEF y
  <2>7. CASE end = 0 /\ ~Waits(candidate)
    <3>1. y = Returned(x, x.rest, <<>>)
      BY <2>1, <2>7 DEF Bracketed, before, candidate, end
    <3> QED BY <1>1, <1>2, <1>4, <1>6, <3>1
  <2> QED BY <2>5, <2>6, <2>7
<1> QED BY <1>3, <1>5, <1>6

LEMMA ProcessTyped ==
    ASSUME Provided, NEW buffer \in MessageTexts
    PROVE  Process(buffer) \in Scans /\ Process(buffer).rest = <<>>
<1> DEFINE k == Len(buffer)
           base == [shown |-> <<>>, kept |-> <<>>, rest |-> buffer]
           D == [n \in Nat |-> {x \in Scans : Len(x.rest) <= k - n \/ x.rest = <<>>}]
<1>1. k \in Nat /\ <<>> \in MessageTexts /\ MaxMarkerLength \in Nat /\ Len(<<>>) = 0
  BY ReferencesAssumption DEF MessageTexts
<1>2. base \in Scans /\ base.rest = buffer
  <2>0. PICK a, b : a = <<>> /\ b = <<>>
    OBVIOUS
  <2>1. a = <<>> /\ b = <<>> /\ a \in Seq(Fragments) /\ b \in MessageTexts /\ Len(b) <= MaxMarkerLength
    BY <1>1, <2>0, ReferencesAssumption
  <2>2. [shown |-> a, kept |-> b, rest |-> buffer] \in Scans
    BY <2>1, IsScan
  <2> QED BY <2>1, <2>2
<1> HIDE DEF k, base
<1>3. base \in D[0]
  BY <1>1, <1>2 DEF k
<1>4. ASSUME NEW n \in 1 .. k, NEW x \in D[n - 1]
      PROVE  Scan(x, buffer[n]) \in D[n]
  <2>1. n - 1 \in Nat /\ n \in Nat
    BY <1>1
  <2>2. x \in Scans /\ (Len(x.rest) <= k - (n - 1) \/ x.rest = <<>>)
    BY <2>1
  <2>3. PICK y : y = Scan(x, buffer[n])
    OBVIOUS
  <2>4. y \in Scans /\ (x.rest = <<>> => y = x) /\ (x.rest # <<>> => Len(y.rest) < Len(x.rest))
    BY <2>2, <2>3, ScanTyped
  <2>5. Len(x.rest) \in Nat /\ Len(y.rest) \in Nat
    <3>1. x.rest \in MessageTexts /\ y.rest \in MessageTexts
      BY <2>2, <2>4, ScanFields
    <3> QED BY <3>1 DEF MessageTexts
  <2>6. Len(y.rest) <= k - n \/ y.rest = <<>>
    BY <1>1, <2>1, <2>2, <2>4, <2>5
  <2> QED BY <2>1, <2>3, <2>4, <2>6
<1>5. PICK f : ScanFold(f, buffer, base, D)
  <2> HIDE DEF D
  <2> QED BY <1>1, <1>3, <1>4, ScanLoop DEF k
<1>6. Process(buffer) \in D[k]
  <2>1. Process(buffer) = Folded(Scan, base, buffer)
    BY DEF Process, base
  <2> HIDE DEF D
  <2> QED BY <1>1, <1>5, <2>1 DEF ScanFold, k
<1>7. PICK z : z = Process(buffer)
  OBVIOUS
<1>8. z \in Scans /\ (Len(z.rest) <= 0 \/ z.rest = <<>>)
  BY <1>1, <1>6, <1>7
<1>9. z.rest = <<>>
  <2>1. z.rest \in MessageTexts
    BY <1>8, ScanFields
  <2> QED BY <1>8, <2>1 DEF MessageTexts
<1> QED BY <1>7, <1>8, <1>9

LEMMA ShownTyped ==
    ASSUME Provided, ProjectionRight
    PROVE  /\ Shown \in ItemsSeen
           /\ \A i \in Items : \/ i # Message
                               \/ provider.evidence = {}
                => Shown[i] = [text |-> SentText(i), annotations |-> <<>>, phase |-> "none"]
           /\ provider.evidence # {} =>
                /\ Display(Shown, projection) = Shown
                /\ Shown[Message] = [text |-> projection.text,
                                     annotations |-> projection.annotations, phase |-> "none"]
<1>1. Message \in Items /\ projection \in Projections
  BY MessageIsAnItem DEF Provided, ProjectionRight
<1>2. projection.text \in Words /\ projection.annotations \in Seq(Annotations)
  <2>1. projection.text \in MessageTexts /\ projection.annotations \in Seq(Annotations)
    BY <1>1, ProjectionFields
  <2> QED BY <2>1, SequenceWithin DEF MessageTexts, Words
<1>3. \A i \in Items : SentText(i) \in Words
  BY TextTyped
<1>4. /\ [text |-> projection.text, annotations |-> projection.annotations, phase |-> "none"] \in ItemType
      /\ \A i \in Items : [text |-> SentText(i), annotations |-> <<>>, phase |-> "none"] \in ItemType
  <2>1. <<>> \in Seq(Annotations)
    OBVIOUS
  <2> QED BY <1>2, <1>3, <2>1 DEF ItemType, Words, Annotations, MessageTexts
<1>5. Shown \in ItemsSeen
  BY <1>4 DEF Shown, ItemsSeen
<1>6. \A i \in Items : (i # Message \/ provider.evidence = {})
        => Shown[i] = [text |-> SentText(i), annotations |-> <<>>, phase |-> "none"]
  BY DEF Shown
<1>7. provider.evidence # {} =>
        Shown[Message] = [text |-> projection.text,
                          annotations |-> projection.annotations, phase |-> "none"]
  BY <1>1 DEF Shown
<1>8. provider.evidence # {} => Display(Shown, projection) = Shown
  BY <1>1, <1>5, <1>7, SameItems DEF Display
<1> QED BY <1>5, <1>6, <1>7, <1>8

LEMMA DeliverFirst ==
    ASSUME NEW e, NEW base
    PROVE  Folded(Deliver, base, <<e>>) = Deliver(base, e)
<1>1. PICK s : s = <<>>
  OBVIOUS
<1>2. s \in Seq({e}) /\ e \in {e} /\ Append(s, e) = <<e>>
  BY <1>1
<1>3. Folded(Deliver, base, s) = base
  BY <1>1, <1>2, DeliverOne
<1>4. Folded(Deliver, base, Append(s, e)) = Deliver(Folded(Deliver, base, s), e)
  BY <1>2, DeliverOne
<1> QED BY <1>2, <1>3, <1>4

LEMMA DeliverNone ==
    ASSUME NEW base
    PROVE  Folded(Deliver, base, <<>>) = base
<1>1. PICK s : s = <<>>
  OBVIOUS
<1>2. s \in Seq({1}) /\ 1 \in {1}
  BY <1>1
<1>3. Folded(Deliver, base, <<>>) = base
  BY <1>2, DeliverOne
<1> QED BY <1>3

LEMMA DeliverLast ==
    ASSUME NEW s \in Seq(MessageEvents), NEW e, NEW base
    PROVE  Folded(Deliver, base, Append(s, e)) = Deliver(Folded(Deliver, base, s), e)
<1>1. PICK E : E = MessageEvents \cup {e}
  OBVIOUS
<1>2. s \in Seq(E) /\ e \in E
  BY <1>1, SequenceWithin
<1> QED BY <1>2, DeliverOne, ZenonT(30)

LEMMA Untouched ==
    ASSUME NEW event,
           provider.evidence = {} \/ event.type \notin {"delta", "text done", "part done", "item done"}
                \/ event.index # Message
    PROVE  Project(event) = [projection EXCEPT !.out = <<event>>]
BY DEF Project

LEMMA DisplaySame ==
    ASSUME NEW F, NEW x, NEW y, x.text = y.text, x.annotations = y.annotations
    PROVE  Display(F, x) = Display(F, y)
BY DEF Display

LEMMA CutOut ==
    ASSUME NEW a \in MessageTexts, NEW b \in MessageTexts, NEW c \in Seq(Annotations), NEW d \in KnownLists,
           NEW e \in BOOLEAN, NEW f, NEW p, Apart(c, a),
           p = [text |-> a, kept |-> b, annotations |-> c, known |-> d, started |-> e, out |-> f]
    PROVE  /\ [p EXCEPT !.out = <<>>] =
                [text |-> a, kept |-> b, annotations |-> c, known |-> d, started |-> e, out |-> <<>>]
           /\ [p EXCEPT !.out = <<>>] \in Projections
           /\ p.text = a /\ p.kept = b /\ p.annotations = c /\ p.known = d /\ p.started = e /\ p.out = f
<1>1. [p EXCEPT !.out = <<>>] =
        [text |-> a, kept |-> b, annotations |-> c, known |-> d, started |-> e, out |-> <<>>]
  OBVIOUS
<1>2. PICK o : o = <<>> /\ o \in Seq(MessageEvents)
  <2>1. PICK o : o = <<>>
    OBVIOUS
  <2>2. o \in Seq(MessageEvents)
    BY <2>1
  <2> QED BY <2>1, <2>2
<1>3. [text |-> a, kept |-> b, annotations |-> c, known |-> d, started |-> e, out |-> o] \in Projections
  BY <1>2, IsProjection
<1> QED BY <1>1, <1>2, <1>3

LEMMA StartInSync ==
    ASSUME Provided, ProjectionRight, provider.evidence # {}, NEW S, NEW st,
           Synced(Readers, Shown, S, st)
    PROVE  InSync(projection, Readers, Shown, S, st)
<1>1. Folded(Deliver, Readers, projection.out) = Readers
  <2>1. projection.out = <<>>
    BY DEF ProjectionRight
  <2> QED BY <2>1, DeliverNone
<1>2. Display(Shown, projection) = Shown
  BY ShownTyped
<1> QED BY <1>1, <1>2 DEF InSync

LEMMA DeltaProjected ==
    ASSUME Provided, ProjectionRight, provider.evidence # {}, NEW S \in SUBSET Items, Message \in S,
           NEW st, Synced(Readers, Shown, S, st), NEW text \in MessageTexts
    PROVE  Projected(Project(DeltaOf(Message, text)), S, st, TRUE)
<1> DEFINE event == DeltaOf(Message, text)
           scan == Process(projection.kept \o text)
           y == Folded(Forward, projection, scan.shown)
           p == Project(event)
<1>1. event.type = "delta" /\ event.index = Message /\ event.text = text
  BY DEF DeltaOf
<1>2. p = [y EXCEPT !.kept = scan.kept, !.started = TRUE]
  <2>1. p = ProjectDelta(event)
    <3> HIDE DEF event
    <3> QED BY <1>1 DEF Project, event
  <2>2. ProjectDelta(event) = [y EXCEPT !.kept = scan.kept, !.started = TRUE]
    <3> HIDE DEF event
    <3> QED BY <1>1 DEF ProjectDelta
  <2> QED BY <2>1, <2>2
<1>3. projection \in Projections /\ projection.kept \in MessageTexts
  BY ProjectionFields DEF ProjectionRight
<1>4. scan \in Scans
  <2>1. projection.kept \o text \in MessageTexts
    BY <1>3 DEF MessageTexts
  <2> QED BY <2>1, ProcessTyped
<1>5. scan.shown \in Seq(Fragments) /\ scan.kept \in MessageTexts /\ Len(scan.kept) <= MaxMarkerLength
  <2> HIDE DEF scan
  <2> QED BY <1>4, ScanFields
<1>6. y \in Projections /\ InSync(y, Readers, Shown, S, st)
  <2>1. InSync(projection, Readers, Shown, S, st) /\ Shown \in ItemsSeen /\ provider.kinds \in Shapes
    BY StartInSync, ShownTyped DEF Provided
  <2> HIDE DEF scan
  <2> QED BY <1>3, <1>5, <2>1, ForwardedInSync
<1> HIDE DEF y, scan, p
<1>7. PICK a, b, c, d, e, f :
        /\ y = [text |-> a, kept |-> b, annotations |-> c, known |-> d, started |-> e, out |-> f]
        /\ a \in MessageTexts /\ c \in Seq(Annotations) /\ d \in KnownLists /\ Apart(c, a)
  BY <1>6, ProjectionFields
<1>8. p = [text |-> a, kept |-> scan.kept, annotations |-> c, known |-> d, started |-> TRUE, out |-> f]
  BY <1>2, <1>7
<1>9. [p EXCEPT !.out = <<>>] \in Projections /\ p.kept = scan.kept /\ p.started = TRUE
      /\ p.text = a /\ p.annotations = c /\ p.out = f
  <2>0. PICK k, t : k = scan.kept /\ t = TRUE
    OBVIOUS
  <2>1. k = scan.kept /\ t = TRUE
    BY <2>0
  <2>4. k \in MessageTexts /\ t \in BOOLEAN
    BY <1>5, <2>0
  <2>2. p = [text |-> a, kept |-> k, annotations |-> c, known |-> d, started |-> t, out |-> f]
    BY <1>8, <2>1
  <2>3. [p EXCEPT !.out = <<>>] \in Projections /\ p.kept = k /\ p.started = t
        /\ p.text = a /\ p.annotations = c /\ p.out = f
    BY <1>7, <2>4, <2>2, CutOut
  <2> QED BY <2>1, <2>3
<1>10. Synced(Folded(Deliver, Readers, p.out), Display(Shown, p), S, st)
  <2>1. p.out = y.out /\ p.text = y.text /\ p.annotations = y.annotations
    BY <1>7, <1>9
  <2>2. Display(Shown, p) = Display(Shown, y)
    BY <2>1, DisplaySame
  <2> QED BY <1>6, <2>1, <2>2 DEF InSync
<1>11. Projected(p, S, st, TRUE)
  BY <1>5, <1>9, <1>10 DEF Projected
<1> QED BY <1>11 DEF p

LEMMA TextReplaced ==
    ASSUME NEW i, NEW t, NEW new
    PROVE  [TextDoneOf(i, t) EXCEPT !.text = new] = TextDoneOf(i, new)
<1>1. PICK y : y = "text done"
  OBVIOUS
<1>2. PICK x : x = [type |-> y, index |-> i, text |-> t]
  OBVIOUS
<1>3. [x EXCEPT !.text = new] = [type |-> y, index |-> i, text |-> new]
  BY <1>2
<1> QED BY <1>1, <1>2, <1>3 DEF TextDoneOf

LEMMA TextDoneProjected ==
    ASSUME Provided, ProjectionRight, provider.evidence # {}, NEW S \in SUBSET Items, Message \in S,
           NEW st, Synced(Readers, Shown, S, st), NEW text
    PROVE  LET p == Project(TextDoneOf(Message, text))
           IN  \E started \in BOOLEAN :
                 Projected(p, S, st, started) /\ (projection.started => started)
                 /\ (~started => p.text = projection.text /\ p.kept = projection.kept)
<1> DEFINE event == TextDoneOf(Message, text)
           p == Project(event)
           flushed == IF projection.kept = <<>> THEN projection
                      ELSE [Forward(projection, Fragment(projection.kept))
                                EXCEPT !.kept = <<>>, !.started = TRUE]
<1>1. event.type = "text done" /\ event.index = Message /\ event.text = text
  BY DEF TextDoneOf
<1>2. p = [flushed EXCEPT !.out = Append(@, [event EXCEPT !.text = flushed.text])]
  <2>1. p = ProjectTextDone(event)
    <3> HIDE DEF event
    <3> QED BY <1>1 DEF Project, event
  <2>2. ProjectTextDone(event) = [flushed EXCEPT !.out = Append(@, [event EXCEPT !.text = flushed.text])]
    <3> HIDE DEF event
    <3> QED BY DEF ProjectTextDone
  <2> QED BY <2>1, <2>2
<1>3. projection \in Projections /\ projection.kept \in MessageTexts /\ projection.started \in BOOLEAN
      /\ Len(projection.kept) <= MaxMarkerLength /\ Len(<<>>) <= MaxMarkerLength
  BY ProjectionFields, ReferencesAssumption DEF ProjectionRight
<1>4. InSync(projection, Readers, Shown, S, st) /\ Shown \in ItemsSeen /\ provider.kinds \in Shapes
  BY StartInSync, ShownTyped DEF Provided
<1>5. PICK a, b, c, d, e, f :
        /\ flushed = [text |-> a, kept |-> b, annotations |-> c, known |-> d, started |-> e, out |-> f]
        /\ a \in MessageTexts /\ b \in MessageTexts /\ c \in Seq(Annotations) /\ d \in KnownLists /\ e \in BOOLEAN
        /\ f \in Seq(MessageEvents) /\ Apart(c, a) /\ Len(b) <= MaxMarkerLength
        /\ InSync(flushed, Readers, Shown, S, st)
        /\ (projection.started => e) /\ (~e => a = projection.text /\ b = projection.kept)
  <2>1. CASE projection.kept = <<>>
    <3>1. flushed = projection
      BY <2>1
    <3> HIDE DEF flushed
    <3> QED BY <1>3, <1>4, <3>1, ProjectionFields
  <2>2. CASE projection.kept # <<>>
    <3> DEFINE y == Forward(projection, Fragment(projection.kept))
    <3>1. flushed = [y EXCEPT !.kept = <<>>, !.started = TRUE]
      BY <2>2
    <3>2. Fragment(projection.kept) \in Fragments
      BY <1>3, TextFragment
    <3>3. y \in Projections /\ InSync(y, Readers, Shown, S, st)
      BY <1>3, <1>4, <3>2, ForwardInSync
    <3> HIDE DEF y, flushed
    <3>4. PICK a, b, c, d, e, f :
            /\ y = [text |-> a, kept |-> b, annotations |-> c, known |-> d, started |-> e, out |-> f]
            /\ a \in MessageTexts /\ c \in Seq(Annotations) /\ d \in KnownLists /\ Apart(c, a)
            /\ f \in Seq(MessageEvents)
      BY <3>3, ProjectionFields
    <3>5. flushed = [text |-> a, kept |-> <<>>, annotations |-> c, known |-> d, started |-> TRUE, out |-> f]
      BY <3>1, <3>4
    <3>6. InSync(flushed, Readers, Shown, S, st)
      <4>1. flushed.out = y.out /\ flushed.text = y.text /\ flushed.annotations = y.annotations
        BY <3>4, <3>5
      <4>2. Display(Shown, flushed) = Display(Shown, y)
        BY <4>1, DisplaySame
      <4> QED BY <3>3, <4>1, <4>2 DEF InSync
    <3>7. <<>> \in MessageTexts /\ TRUE \in BOOLEAN
      BY DEF MessageTexts
    <3>8. PICK k, t : k = <<>> /\ t = TRUE
      OBVIOUS
    <3>9. flushed = [text |-> a, kept |-> k, annotations |-> c, known |-> d, started |-> t, out |-> f]
          /\ k \in MessageTexts /\ t \in BOOLEAN /\ Len(k) <= MaxMarkerLength /\ t
      BY <1>3, <3>5, <3>7, <3>8
    <3> QED BY <3>4, <3>6, <3>9
  <2> QED BY <2>1, <2>2
<1> HIDE DEF flushed
<1>6. PICK o : o = TextDoneOf(Message, a)
  OBVIOUS
<1>7. [event EXCEPT !.text = flushed.text] = o
  <2>1. flushed.text = a
    BY <1>5
  <2>2. [TextDoneOf(Message, text) EXCEPT !.text = a] = TextDoneOf(Message, a)
    BY TextReplaced
  <2> QED BY <1>6, <2>1, <2>2
<1> HIDE DEF event, p
<1>8. p = [text |-> a, kept |-> b, annotations |-> c, known |-> d, started |-> e, out |-> Append(f, o)]
  BY <1>2, <1>5, <1>7
<1>9. PICK g : g = Append(f, o)
  OBVIOUS
<1>10. [p EXCEPT !.out = <<>>] \in Projections /\ p.text = a /\ p.kept = b /\ p.annotations = c
       /\ p.started = e /\ p.out = g
  <2>1. p = [text |-> a, kept |-> b, annotations |-> c, known |-> d, started |-> e, out |-> g]
    BY <1>8, <1>9
  <2> QED BY <1>5, <2>1, CutOut
<1>11. PICK base : base = Folded(Deliver, Readers, f)
  OBVIOUS
<1>12. Folded(Deliver, Readers, g) = Deliver(base, o)
  BY <1>5, <1>9, <1>11, DeliverLast
<1>13. PICK F : F = Display(Shown, flushed)
  OBVIOUS
<1>14. Synced(base, F, S, st)
  <2>1. flushed.out = f
    BY <1>5
  <2> QED BY <1>5, <1>11, <1>13, <2>1 DEF InSync
<1>15. F \in ItemsSeen /\ F[Message] = [text |-> a, annotations |-> c, phase |-> "none"]
       /\ F = Display(Shown, p)
  <2>1. flushed.text = a /\ flushed.annotations = c
    BY <1>5
  <2>2. F = Display(Shown, p)
    BY <1>10, <1>13, <2>1, DisplaySame
  <2>3. [p EXCEPT !.out = <<>>].text = a /\ [p EXCEPT !.out = <<>>].annotations = c
    <3>1. p = [text |-> a, kept |-> b, annotations |-> c, known |-> d, started |-> e, out |-> g]
      BY <1>8, <1>9
    <3> QED BY <3>1
  <2>4. PICK q : q = [p EXCEPT !.out = <<>>]
    OBVIOUS
  <2>5. Display(Shown, q) = F
    BY <1>10, <2>2, <2>3, <2>4, DisplaySame
  <2>6. Display(Shown, q) \in ItemsSeen
        /\ Display(Shown, q)[Message] = [text |-> q.text, annotations |-> q.annotations, phase |-> "none"]
    BY <1>4, <1>10, <2>4, DisplayTyped
  <2> QED BY <2>2, <2>3, <2>4, <2>5, <2>6
<1>16. Synced(Deliver(base, o), F, S, st)
  <2>1. Synced(Deliver(base, TextDoneOf(Message, a)), [F EXCEPT ![Message].text = a], S, st)
    BY <1>4, <1>14, <1>15, TextDoneArrives
  <2>2. [F EXCEPT ![Message].text = a] = F
    <3>1. PICK x : x = F[Message]
      OBVIOUS
    <3>2. [x EXCEPT !.text = a] = x
      BY <1>15, <3>1
    <3>3. [F EXCEPT ![Message].text = a] = [F EXCEPT ![Message] = [x EXCEPT !.text = a]]
      BY <3>1
    <3>4. Message \in Items
      BY MessageIsAnItem DEF Provided
    <3>5. [F EXCEPT ![Message] = x] = F
      BY <1>15, <3>1, <3>4, SameItems
    <3> QED BY <3>2, <3>3, <3>5
  <2> QED BY <1>6, <2>1, <2>2
<1>17. Projected(p, S, st, e)
  BY <1>5, <1>10, <1>12, <1>15, <1>16 DEF Projected
<1>18. Projected(p, S, st, e) /\ (projection.started => e)
       /\ (~e => p.text = projection.text /\ p.kept = projection.kept) /\ e \in BOOLEAN
  BY <1>5, <1>10, <1>17
<1> QED BY <1>18 DEF p, event

LEMMA PlainItems ==
    ASSUME NEW i
    PROVE  Full(i) = PlainItem(SentText(i)) /\ NoItem = PlainItem(<<>>)
BY DEF Full, NoItem, PlainItem

LEMMA OutReplaced ==
    ASSUME ProjectionRight, NEW o, NEW p, p = [projection EXCEPT !.out = o]
    PROVE  [p EXCEPT !.out = <<>>] = projection /\ p.out = o
<1>1. projection \in Projections /\ projection.out = <<>>
  BY DEF ProjectionRight
<1>2. PICK a, b, c, d, e, z :
        projection = [text |-> a, kept |-> b, annotations |-> c, known |-> d, started |-> e, out |-> z]
  BY <1>1, ProjectionFields
<1>3. p = [text |-> a, kept |-> b, annotations |-> c, known |-> d, started |-> e, out |-> o]
  BY <1>2
<1>4. z = <<>>
  BY <1>1, <1>2
<1>5. [p EXCEPT !.out = z] = [text |-> a, kept |-> b, annotations |-> c, known |-> d, started |-> e, out |-> z]
  <2>1. PICK y : y = [p EXCEPT !.out = z]
    OBVIOUS
  <2>2. y = [f \in {"text", "kept", "annotations", "known", "started", "out"} |-> y[f]]
    BY <1>3, <2>1
  <2>3. y.text = a /\ y.kept = b /\ y.annotations = c /\ y.known = d /\ y.started = e /\ y.out = z
    BY <1>3, <2>1
  <2> QED BY <2>1, <2>2, <2>3
<1>6. p.out = o
  BY <1>3
<1> QED BY <1>2, <1>4, <1>5, <1>6

(* The item of an event is replaced by what was projected.                 *)
LEMMA WholeProjected ==
    ASSUME Provided, ProjectionRight, provider.evidence # {}, projection.started,
           NEW type \in {"part done", "item done"}, NEW text
    PROVE  Project(ItemEventOf(type, Message, PlainItem(text)))
           = [projection EXCEPT !.out = <<ItemEventOf(type, Message, Shown[Message])>>]
<1> DEFINE event == ItemEventOf(type, Message, PlainItem(text))
           item == [event.item EXCEPT !.text = projection.text,
                        !.annotations = MergedAnnotations(@, projection.annotations)]
<1>1. event.type = type /\ event.index = Message /\ event.item = PlainItem(text)
  BY DEF ItemEventOf
<1>2. Project(event) = ProjectWhole(event)
  <2> HIDE DEF event
  <2> QED BY <1>1 DEF Project
<1>3. ProjectWhole(event) = [projection EXCEPT !.out = <<[event EXCEPT !.item = item]>>]
  <2> HIDE DEF event
  <2> QED BY DEF ProjectWhole
<1>4. projection.annotations \in Seq(Annotations)
      /\ \A m, n \in 1 .. Len(projection.annotations) :
            projection.annotations[m] = projection.annotations[n] => m = n
  <2>1. projection.annotations \in Seq(Annotations) /\ Apart(projection.annotations, projection.text)
    BY ProjectionFields DEF ProjectionRight
  <2> QED BY <2>1, ApartDiffer
<1>5. MergedAnnotations(<<>>, projection.annotations) = projection.annotations
  BY <1>4, MergedNew
<1>6. item = [text |-> projection.text, annotations |-> projection.annotations, phase |-> "none"]
  <2>1. PICK old : old = PlainItem(text)
    OBVIOUS
  <2>2. old.annotations = <<>>
    BY <2>1 DEF PlainItem
  <2>3. item = [old EXCEPT !.text = projection.text, !.annotations = projection.annotations]
    <3> HIDE DEF event
    <3> QED BY <1>1, <1>5, <2>1, <2>2
  <2> HIDE DEF item
  <2>4. PICK u, a, n : u = projection.text /\ a = projection.annotations /\ n = "none"
    OBVIOUS
  <2>5. PICK w, b : w = text /\ b = <<>>
    OBVIOUS
  <2>6. old = [text |-> w, annotations |-> b, phase |-> n]
    BY <2>1, <2>4, <2>5 DEF PlainItem
  <2>7. [old EXCEPT !.text = u, !.annotations = a] = [text |-> u, annotations |-> a, phase |-> n]
    <3>1. PICK z : z = [old EXCEPT !.text = u, !.annotations = a]
      OBVIOUS
    <3>2. z = [f \in {"text", "annotations", "phase"} |-> z[f]]
      BY <2>6, <3>1
    <3>3. z.text = u /\ z.annotations = a /\ z.phase = n
      BY <2>6, <3>1
    <3>4. z = [text |-> u, annotations |-> a, phase |-> n]
      BY <3>2, <3>3
    <3> QED BY <3>1, <3>4
  <2> QED BY <2>3, <2>4, <2>7
<1>7. Shown[Message] = item
  <2> HIDE DEF item
  <2> QED BY <1>6, ShownTyped
<1>8. [event EXCEPT !.item = item] = ItemEventOf(type, Message, item)
  <2> HIDE DEF item
  <2>1. PICK x, y, m, old : /\ x = event /\ m = Message /\ old = PlainItem(text) /\ y = item
    OBVIOUS
  <2>2. x = [type |-> type, index |-> m, item |-> old]
    BY <2>1 DEF ItemEventOf
  <2>3. [x EXCEPT !.item = y] = [type |-> type, index |-> m, item |-> y]
    <3>1. PICK z : z = [x EXCEPT !.item = y]
      OBVIOUS
    <3>2. z = [f \in {"type", "index", "item"} |-> z[f]]
      BY <2>2, <3>1
    <3>3. z.type = type /\ z.index = m /\ z.item = y
      BY <2>2, <3>1
    <3>4. z = [type |-> type, index |-> m, item |-> y]
      BY <3>2, <3>3
    <3> QED BY <3>1, <3>4
  <2> HIDE DEF event
  <2> QED BY <2>1, <2>3 DEF ItemEventOf
<1> HIDE DEF item, event
<1>9. Project(event) = [projection EXCEPT !.out = <<ItemEventOf(type, Message, Shown[Message])>>]
  BY <1>2, <1>3, <1>7, <1>8
<1> QED BY <1>9 DEF event

LEMMA UntouchedWhole ==
    ASSUME Provided, ProjectionRight, NEW type \in {"part done", "item done"}, NEW i \in Items, NEW item,
           provider.evidence = {} \/ i # Message \/ ~projection.started
    PROVE  Project(ItemEventOf(type, i, item)) = [projection EXCEPT !.out = <<ItemEventOf(type, i, item)>>]
<1> DEFINE event == ItemEventOf(type, i, item)
<1>1. event.type = type /\ event.index = i /\ event.item = item
  BY DEF ItemEventOf
<1> HIDE DEF event
<1>2. CASE provider.evidence = {} \/ i # Message
  BY <1>1, <1>2, Untouched DEF event
<1>3. CASE provider.evidence # {} /\ i = Message
  <2>1. Project(event) = ProjectWhole(event)
    BY <1>1, <1>3 DEF Project
  <2>2. ~projection.started
    BY <1>3
  <2>3. ProjectWhole(event) = [projection EXCEPT !.out = <<event>>]
    BY <2>2 DEF ProjectWhole
  <2> QED BY <2>1, <2>3 DEF event
<1> QED BY <1>2, <1>3

LEMMA PartDoneKept ==
    ASSUME Provided, ProjectionRight, NEW S \in SUBSET Items, Message \in S, NEW st,
           Synced(Readers, Shown, S, st), provider.sent[Message] > 0
    PROVE  LeftAlone(Project(PartDoneOf(Message, Full(Message))), S, st)
<1> DEFINE p == Project(PartDoneOf(Message, Full(Message)))
<1>1. PartDoneOf(Message, Full(Message)) = ItemEventOf("part done", Message, PlainItem(SentText(Message)))
  BY PlainItems DEF PartDoneOf, ItemEventOf
<1>2. PICK item : /\ p = [projection EXCEPT !.out = <<PartDoneOf(Message, item)>>]
                  /\ item = Shown[Message]
  <2>1. CASE provider.evidence = {}
    <3>1. p = [projection EXCEPT !.out = <<PartDoneOf(Message, Full(Message))>>]
      BY <2>1, Untouched
    <3>2. Full(Message) = Shown[Message]
      <4>1. Message \in Items
        BY MessageIsAnItem DEF Provided
      <4> QED BY <2>1, <4>1, PlainItems, ShownTyped DEF PlainItem
    <3> QED BY <3>1, <3>2
  <2>2. CASE provider.evidence # {}
    <3>1. projection.started
      <4>1. provider.sent[Message] # 0
        OBVIOUS
      <4> QED BY <2>2, <4>1 DEF ProjectionRight
    <3>2. Project(ItemEventOf("part done", Message, PlainItem(SentText(Message))))
           = [projection EXCEPT !.out = <<ItemEventOf("part done", Message, Shown[Message])>>]
      BY <2>2, <3>1, WholeProjected
    <3> QED BY <1>1, <3>2 DEF ItemEventOf, PartDoneOf
  <2> QED BY <2>1, <2>2
<1> HIDE DEF p
<1>3. PICK o : o = <<PartDoneOf(Message, item)>>
  OBVIOUS
<1>4. [p EXCEPT !.out = <<>>] = projection /\ p.out = o
  BY <1>2, <1>3, OutReplaced
<1>5. Folded(Deliver, Readers, o) = Deliver(Readers, PartDoneOf(Message, item))
  BY <1>3, DeliverFirst
<1>6. Synced(Deliver(Readers, PartDoneOf(Message, item)), Shown, S, st)
  <2>1. item.text = Shown[Message].text /\ item.annotations = Shown[Message].annotations
    BY <1>2
  <2>2. Shown \in ItemsSeen /\ provider.kinds \in Shapes
    BY ShownTyped DEF Provided
  <2> QED BY <2>1, <2>2, PartDoneArrives
<1>7. LeftAlone(p, S, st)
  BY <1>4, <1>5, <1>6 DEF LeftAlone
<1> QED BY <1>7 DEF p

LEMMA ItemDoneKept ==
    ASSUME Provided, ProjectionRight, NEW S \in SUBSET Items, NEW i \in S, NEW st,
           Synced(Readers, Shown, S, st), NEW item,
           item = Full(i) \/ (item = NoItem /\ provider.kinds[i] # "call")
    PROVE  LeftAlone(Project(ItemDoneOf(i, item)), S, st)
<1> DEFINE p == Project(ItemDoneOf(i, item))
<1>1. i \in Items /\ Shown \in ItemsSeen /\ provider.kinds \in Shapes /\ Message \in Items
  BY ShownTyped, MessageIsAnItem DEF Provided
<1>2. ItemDoneOf(i, item) = ItemEventOf("item done", i, item)
  BY DEF ItemDoneOf, ItemEventOf
<1>3. PICK text : /\ p = [projection EXCEPT !.out = <<ItemDoneOf(i, [Shown[i] EXCEPT !.text = text])>>]
                  /\ (text = Shown[i].text \/ (text = <<>> /\ provider.kinds[i] # "call"))
  <2>1. CASE provider.evidence # {} /\ i = Message /\ projection.started
    <3>1. PICK t : item = PlainItem(t)
      BY PlainItems
    <3>2. Project(ItemEventOf("item done", Message, PlainItem(t)))
           = [projection EXCEPT !.out = <<ItemEventOf("item done", Message, Shown[Message])>>]
      BY <2>1, WholeProjected
    <3>3. p = [projection EXCEPT !.out = <<ItemDoneOf(i, Shown[i])>>]
      BY <1>2, <2>1, <3>1, <3>2 DEF ItemEventOf, ItemDoneOf
    <3>4. [Shown[i] EXCEPT !.text = Shown[i].text] = Shown[i]
      <4>1. PICK x : x = Shown[i]
        OBVIOUS
      <4>2. PICK t1, a, ph : x = [text |-> t1, annotations |-> a, phase |-> ph]
        <5>1. \E t1, a, ph : Shown[i] = [text |-> t1, annotations |-> a, phase |-> ph]
          BY <1>1, ItemFields
        <5> QED BY <4>1, <5>1
      <4>3. [x EXCEPT !.text = x.text] = x
        BY <4>2
      <4> QED BY <4>1, <4>3
    <3> QED BY <3>3, <3>4
  <2>2. CASE provider.evidence = {} \/ i # Message \/ ~projection.started
    <3>1. p = [projection EXCEPT !.out = <<ItemDoneOf(i, item)>>]
      <4>1. Project(ItemEventOf("item done", i, item))
            = [projection EXCEPT !.out = <<ItemEventOf("item done", i, item)>>]
        BY <1>1, <2>2, UntouchedWhole
      <4> QED BY <1>2, <4>1
    <3>2. Shown[i] = PlainItem(SentText(i))
      <4>1. CASE provider.evidence = {} \/ i # Message
        BY <1>1, <4>1, ShownTyped DEF PlainItem
      <4>2. CASE provider.evidence # {} /\ i = Message
        <5>1. projection = Blank /\ provider.sent[i] = 0
          BY <2>2, <4>2 DEF ProjectionRight
        <5>2. SentText(i) = <<>>
          BY <1>1, <5>1, TextTyped
        <5>3. Shown[i] = [text |-> projection.text, annotations |-> projection.annotations, phase |-> "none"]
          BY <4>2, ShownTyped
        <5>4. projection.text = <<>> /\ projection.annotations = <<>>
          BY <5>1 DEF Blank
        <5> QED BY <5>2, <5>3, <5>4 DEF PlainItem
      <4> QED BY <4>1, <4>2
    <3>3. PICK t : item = PlainItem(t) /\ (t = SentText(i) \/ (t = <<>> /\ provider.kinds[i] # "call"))
      BY PlainItems
    <3>4. [Shown[i] EXCEPT !.text = t] = item
      <4>1. PICK x, u : x = Shown[i] /\ u = SentText(i)
        OBVIOUS
      <4>2. x = [text |-> u, annotations |-> <<>>, phase |-> "none"]
        BY <3>2, <4>1 DEF PlainItem
      <4>3. [x EXCEPT !.text = t] = [text |-> t, annotations |-> <<>>, phase |-> "none"]
        BY <4>2
      <4> QED BY <3>3, <4>1, <4>3 DEF PlainItem
    <3>5. Shown[i].text = SentText(i)
      BY <3>2 DEF PlainItem
    <3> QED BY <3>1, <3>3, <3>4, <3>5
  <2> QED BY <2>1, <2>2
<1> HIDE DEF p
<1>4. PICK e : e = ItemDoneOf(i, [Shown[i] EXCEPT !.text = text])
  OBVIOUS
<1>5. PICK o : o = <<e>>
  OBVIOUS
<1>6. [p EXCEPT !.out = <<>>] = projection /\ p.out = o
  <2>1. p = [projection EXCEPT !.out = o]
    BY <1>3, <1>4, <1>5
  <2> QED BY <2>1, OutReplaced
<1>7. Folded(Deliver, Readers, o) = Deliver(Readers, e)
  BY <1>5, DeliverFirst
<1>8. Synced(Deliver(Readers, e), Shown, S, st)
  <2>1. Synced(Deliver(Readers, ItemDoneOf(i, [Shown[i] EXCEPT !.text = text])), Shown, S, st)
    BY <1>1, <1>3, ItemDoneArrives
  <2> QED BY <1>4, <2>1
<1>9. LeftAlone(p, S, st)
  BY <1>6, <1>7, <1>8 DEF LeftAlone
<1> QED BY <1>9 DEF p

-----------------------------------------------------------------------------
(* The steps of the stream *)

LEMMA ResponseStays ==
    ASSUME SameResponse
    PROVE  /\ Items' = Items /\ Message' = Message /\ Text' = Text
           /\ \A i \in Items : (FullText(i))' = FullText(i)
           /\ ItemsSeen' = ItemsSeen
<1>1. Items' = Items
  BY DEF Items, SameResponse
<1>2. Message' = Message
  BY <1>1 DEF Message, SameResponse
<1>3. Text' = Text
  BY DEF Text, SameResponse
<1>4. \A i \in Items : (FullText(i))' = FullText(i)
  BY <1>2, <1>3 DEF FullText
<1>5. ItemsSeen' = ItemsSeen
  BY <1>1 DEF ItemsSeen
<1> QED BY <1>1, <1>2, <1>3, <1>4, <1>5

LEMMA ProvidedNext ==
    ASSUME Provided, NEW sent \in [Items -> Nat], NEW stage \in [Items -> ItemStages], NEW ended \in Ends,
           \A i \in Items : /\ sent[i] <= Len(FullText(i)) /\ (stage[i] = "new" => sent[i] = 0)
                            /\ stage[i] = "written" => sent[i] > 0,
           provider' = [reply |-> provider.reply, kinds |-> provider.kinds,
                        evidence |-> provider.evidence, sent |-> sent, stage |-> stage,
                        ended |-> ended]
    PROVE  /\ Provided' /\ SameResponse
           /\ provider'.sent = sent /\ provider'.stage = stage /\ provider'.ended = ended
<1>1. SameResponse
  BY DEF SameResponse
<1>2. provider'.sent = sent /\ provider'.stage = stage /\ provider'.ended = ended
  OBVIOUS
<1>3. Items' = Items /\ \A i \in Items : (FullText(i))' = FullText(i)
  BY <1>1, ResponseStays
<1>4. provider' = [reply |-> provider'.reply, kinds |-> provider'.kinds,
                   evidence |-> provider'.evidence, sent |-> provider'.sent,
                   stage |-> provider'.stage, ended |-> provider'.ended]
  OBVIOUS
<1>5. /\ provider'.reply \in Replies /\ provider'.kinds \in Shapes
      /\ provider'.evidence \in {{}, References}
  BY <1>1 DEF Provided, SameResponse
<1>6. \A i \in Items' : /\ provider'.sent[i] <= Len((FullText(i))')
                        /\ provider'.stage[i] = "new" => provider'.sent[i] = 0
                        /\ provider'.stage[i] = "written" => provider'.sent[i] > 0
  BY <1>2, <1>3
<1>7. Provided'
  BY <1>2, <1>3, <1>4, <1>5, <1>6 DEF Provided, Ends
<1> QED BY <1>1, <1>2, <1>7

LEMMA ShownStays ==
    ASSUME SameResponse, provider'.sent = provider.sent, projection' = projection
    PROVE  Shown' = Shown /\ \A i \in Items : (SentText(i))' = SentText(i)
<1>1. Items' = Items /\ Message' = Message /\ \A i \in Items : (FullText(i))' = FullText(i)
  BY ResponseStays
<1>2. \A i \in Items : (SentText(i))' = SentText(i)
  BY <1>1 DEF SentText
<1>3. Shown' = Shown
  BY <1>1, <1>2 DEF Shown, SameResponse
<1> QED BY <1>2, <1>3

LEMMA Emitted ==
    ASSUME NEW event, Emit(event), NEW p, p = Project(event),
           NEW d, d = Folded(Deliver, Readers, p.out)
    PROVE  /\ projection' = [p EXCEPT !.out = <<>>]
           /\ Readers' = [reducer |-> d.reducer, web |-> d.web, terminal |-> d.terminal]
           /\ reducer' = d.reducer /\ web' = d.web /\ terminal' = d.terminal
BY DEF Emit, Readers

LEMMA SyncedWhole ==
    ASSUME NEW d, NEW F, NEW S, NEW st, Synced(d, F, S, st)
    PROVE  /\ d = [reducer |-> d.reducer, web |-> d.web, terminal |-> d.terminal]
           /\ d.reducer.status = st
BY DEF Synced

LEMMA SyncedAfter ==
    ASSUME NEW d, NEW F, NEW S, NEW st \in {"none", "in_progress"}, Synced(d, F, S, st),
           Readers' = d, Shown' = F, Begun' = S, provider'.ended = "no"
    PROVE  ReadersRight'
<1>1. reducer'.status = st
  <2>1. Readers'.reducer = reducer'
    BY DEF Readers
  <2> QED BY <2>1, SyncedWhole
<1>2. Synced(Readers', Shown', Begun', reducer'.status)
  BY <1>1
<1> QED BY <1>1, <1>2 DEF ReadersRight

LEMMA FinishedAfter ==
    ASSUME NEW d, NEW F, NEW S, SameResponse,
           NEW st \in {"none", "in_progress", "completed", "incomplete", "failed"},
           Finished(d, F, S, st),
           Readers' = [reducer |-> d.reducer, web |-> d.web, terminal |-> d.terminal],
           Shown' = F, Begun' = S, provider'.ended # "no"
    PROVE  ReadersRight'
<1>1. reducer'.status = st
  <2>1. Readers'.reducer = reducer'
    BY DEF Readers
  <2>2. d.reducer.status = st
    BY DEF Finished, FinishedIn
  <2> QED BY <2>1, <2>2
<1>2. Items' = Items /\ ItemsSeen' = ItemsSeen
  BY ResponseStays
<1>3. PICK c : c = Readers'
  OBVIOUS
<1>4. c.reducer = d.reducer /\ c.web = d.web /\ c.terminal = d.terminal
  BY <1>3
<1>5. Finished(c, F, S, st)
  BY <1>4, SMTT(30) DEF Finished, FinishedIn
<1>6. FinishedIn(Items', ItemsSeen', Readers', Shown', Begun', reducer'.status)
  BY <1>1, <1>2, <1>3, <1>5 DEF Finished
<1> QED BY <1>1, <1>6 DEF ReadersRight, Finished

LEMMA ProjectionsStay ==
    ASSUME SameResponse
    PROVE  Projections' = Projections /\ Message' = Message
<1>1. Message' = Message
  BY ResponseStays
<1>2. MessageEvents' = MessageEvents
  BY <1>1 DEF MessageEvents
<1>3. Projections' = Projections
  BY <1>2 DEF Projections
<1> QED BY <1>1, <1>3

LEMMA ProjectionStays ==
    ASSUME ProjectionRight, SameResponse, projection' = projection,
           provider.evidence # {} => provider'.sent[Message] = provider.sent[Message],
           provider.stage[Message] # "new" => provider'.stage[Message] # "new"
    PROVE  ProjectionRight'
<1>1. Projections' = Projections /\ Message' = Message
  BY ProjectionsStay
<1> QED BY <1>1 DEF ProjectionRight, SameResponse, Blank

LEMMA ProviderFields ==
    ASSUME Provided
    PROVE  /\ provider.sent \in [Items -> Nat] /\ provider.stage \in [Items -> ItemStages]
           /\ provider.ended \in Ends
           /\ \A i \in Items : /\ provider.sent[i] \in Nat /\ provider.sent[i] <= Len(FullText(i))
                               /\ Len(FullText(i)) \in Nat
                               /\ provider.stage[i] = "new" => provider.sent[i] = 0
                               /\ provider.stage[i] = "written" => provider.sent[i] > 0
           /\ Message \in Items
<1>1. \A i \in Items : Len(FullText(i)) \in Nat
  BY TextTyped
<1>2. Message \in Items
  BY MessageIsAnItem DEF Provided
<1> QED BY <1>1, <1>2 DEF Provided, Ends

LEMMA StageMoves ==
    ASSUME Provided, NEW i \in Items, NEW new \in ItemStages \ {"new"}, NEW stage,
           new = "written" => provider.sent[i] > 0,
           stage = [provider.stage EXCEPT ![i] = new], Moved(provider.sent, stage, provider.ended)
    PROVE  /\ Provided' /\ SameResponse /\ provider'.sent = provider.sent
           /\ provider'.ended = provider.ended /\ provider'.stage = stage
           /\ Begun' = Begun \cup {i}
           /\ provider.stage[Message] # "new" => provider'.stage[Message] # "new"
<1>1. stage \in [Items -> ItemStages] /\ \A j \in Items : stage[j] = IF j = i THEN new ELSE provider.stage[j]
  BY ProviderFields
<1>2. provider.sent \in [Items -> Nat] /\ provider.ended \in Ends /\ Message \in Items
      /\ \A j \in Items : /\ provider.sent[j] <= Len(FullText(j))
                          /\ (stage[j] = "new" => provider.sent[j] = 0)
                          /\ (stage[j] = "written" => provider.sent[j] > 0)
  BY <1>1, ProviderFields
<1>3. /\ Provided' /\ SameResponse /\ provider'.sent = provider.sent
      /\ provider'.ended = provider.ended /\ provider'.stage = stage
  BY <1>1, <1>2, ProvidedNext DEF Moved
<1>4. Begun' = Begun \cup {i}
  <2>1. Items' = Items
    BY <1>3, ResponseStays
  <2> QED BY <1>1, <1>3, <2>1 DEF Begun
<1> QED BY <1>1, <1>2, <1>3, <1>4

LEMMA EndMoves ==
    ASSUME Provided, NEW ended \in Ends, Moved(provider.sent, provider.stage, ended)
    PROVE  /\ Provided' /\ SameResponse /\ provider'.sent = provider.sent
           /\ provider'.ended = ended /\ provider'.stage = provider.stage /\ Begun' = Begun
<1>1. /\ provider.sent \in [Items -> Nat] /\ provider.stage \in [Items -> ItemStages]
      /\ \A j \in Items : /\ provider.sent[j] <= Len(FullText(j))
                          /\ provider.stage[j] = "new" => provider.sent[j] = 0
                          /\ provider.stage[j] = "written" => provider.sent[j] > 0
  BY ProviderFields
<1>2. /\ Provided' /\ SameResponse /\ provider'.sent = provider.sent
      /\ provider'.ended = ended /\ provider'.stage = provider.stage
  BY <1>1, ProvidedNext DEF Moved
<1>3. Begun' = Begun
  <2>1. Items' = Items
    BY <1>2, ResponseStays
  <2> QED BY <1>2, <2>1 DEF Begun
<1> QED BY <1>2, <1>3

LEMMA ProviderMoves ==
    ASSUME Provided
    PROVE  /\ UNCHANGED provider => Moved(provider.sent, provider.stage, provider.ended)
           /\ \A i, new : provider' = [provider EXCEPT !.stage[i] = new]
                => Moved(provider.sent, [provider.stage EXCEPT ![i] = new], provider.ended)
           /\ \A i, new : provider' = [provider EXCEPT !.sent[i] = new]
                => Moved([provider.sent EXCEPT ![i] = new], provider.stage, provider.ended)
           /\ \A new : provider' = [provider EXCEPT !.ended = new]
                => Moved(provider.sent, provider.stage, new)
<1>1. PICK a, b, c, d, e, f :
        provider = [reply |-> a, kinds |-> b, evidence |-> c, sent |-> d, stage |-> e, ended |-> f]
  BY DEF Provided
<1>2. /\ provider.reply = a /\ provider.kinds = b /\ provider.evidence = c /\ provider.sent = d
      /\ provider.stage = e /\ provider.ended = f
  BY <1>1
<1>3. ASSUME UNCHANGED provider PROVE Moved(provider.sent, provider.stage, provider.ended)
  BY <1>1, <1>2, <1>3 DEF Moved
<1>4. ASSUME NEW i, NEW new, provider' = [provider EXCEPT !.stage[i] = new]
      PROVE  Moved(provider.sent, [provider.stage EXCEPT ![i] = new], provider.ended)
  <2>1. provider' = [reply |-> a, kinds |-> b, evidence |-> c, sent |-> d,
                     stage |-> [e EXCEPT ![i] = new], ended |-> f]
    BY <1>1, <1>4
  <2> QED BY <1>2, <2>1 DEF Moved
<1>5. ASSUME NEW i, NEW new, provider' = [provider EXCEPT !.sent[i] = new]
      PROVE  Moved([provider.sent EXCEPT ![i] = new], provider.stage, provider.ended)
  <2>1. provider' = [reply |-> a, kinds |-> b, evidence |-> c, sent |-> [d EXCEPT ![i] = new],
                     stage |-> e, ended |-> f]
    BY <1>1, <1>5
  <2> QED BY <1>2, <2>1 DEF Moved
<1>6. ASSUME NEW new, provider' = [provider EXCEPT !.ended = new]
      PROVE  Moved(provider.sent, provider.stage, new)
  <2>1. provider' = [reply |-> a, kinds |-> b, evidence |-> c, sent |-> d, stage |-> e, ended |-> new]
    BY <1>1, <1>6
  <2> QED BY <1>2, <2>1 DEF Moved
<1> QED BY <1>3, <1>4, <1>5, <1>6

LEMMA UntouchedEmitted ==
    ASSUME ProjectionRight, NEW event, Emit(event),
           provider.evidence = {} \/ event.type \notin {"delta", "text done", "part done", "item done"}
                \/ event.index # Message,
           NEW d, d = Deliver(Readers, event)
    PROVE  /\ projection' = projection
           /\ Readers' = [reducer |-> d.reducer, web |-> d.web, terminal |-> d.terminal]
<1>1. PICK p, o : p = Project(event) /\ o = <<event>>
  OBVIOUS
<1>2. p = [projection EXCEPT !.out = o]
  BY <1>1, Untouched
<1>3. [p EXCEPT !.out = <<>>] = projection /\ p.out = o
  BY <1>2, OutReplaced
<1>4. Folded(Deliver, Readers, p.out) = d
  BY <1>1, <1>3, DeliverFirst
<1> QED BY <1>1, <1>3, <1>4, Emitted

LEMMA KeptEmitted ==
    ASSUME NEW event, Emit(event), NEW S, NEW st, LeftAlone(Project(event), S, st)
    PROVE  projection' = projection /\ Synced(Readers', Shown, S, st)
<1>1. PICK p : p = Project(event)
  OBVIOUS
<1>2. PICK d : d = Folded(Deliver, Readers, p.out)
  OBVIOUS
<1>3. [p EXCEPT !.out = <<>>] = projection /\ Synced(d, Shown, S, st)
  BY <1>1, <1>2 DEF LeftAlone
<1>4. projection' = [p EXCEPT !.out = <<>>]
      /\ Readers' = [reducer |-> d.reducer, web |-> d.web, terminal |-> d.terminal]
  BY <1>1, <1>2, Emitted
<1>5. Readers' = d
  BY <1>3, <1>4, SyncedWhole
<1> QED BY <1>3, <1>4, <1>5

LEMMA LiveReaders ==
    ASSUME StreamRight, provider.ended = "no"
    PROVE  /\ Provided /\ ProjectionRight /\ Synced(Readers, Shown, Begun, reducer.status)
           /\ reducer.status \in {"none", "in_progress"}
           /\ Shown \in ItemsSeen /\ provider.kinds \in Shapes /\ Begun \in SUBSET Items
BY ShownTyped DEF StreamRight, ReadersRight, Begun, Provided

LEMMA CreateKeeps ==
    ASSUME StreamRight, Create
    PROVE  StreamRight'
<1> DEFINE event == [type |-> "created"]
<1>1. /\ Provided /\ ProjectionRight /\ Synced(Readers, Shown, Begun, "none")
      /\ provider.ended = "no" /\ UNCHANGED provider /\ Emit(event)
  BY LiveReaders DEF Create
<1>2. Moved(provider.sent, provider.stage, provider.ended)
  BY <1>1, ProviderMoves
<1>3. /\ Provided' /\ SameResponse /\ provider'.sent = provider.sent
      /\ provider'.ended = provider.ended /\ provider'.stage = provider.stage /\ Begun' = Begun
  BY <1>1, <1>2, ProviderFields, EndMoves
<1>4. PICK d : d = Deliver(Readers, event)
  OBVIOUS
<1>5. projection' = projection
      /\ Readers' = [reducer |-> d.reducer, web |-> d.web, terminal |-> d.terminal]
  BY <1>1, <1>4, UntouchedEmitted
<1>6. Synced(d, Shown, Begun, "in_progress")
  BY <1>1, <1>4, CreatedArrives
<1>7. Readers' = d
  BY <1>5, <1>6, SyncedWhole
<1>8. Shown' = Shown
  BY <1>3, <1>5, ShownStays
<1>9. ReadersRight'
  BY <1>1, <1>3, <1>6, <1>7, <1>8, SyncedAfter
<1>10. ProjectionRight'
  BY <1>1, <1>3, <1>5, ProjectionStays
<1> QED BY <1>3, <1>9, <1>10 DEF StreamRight

LEMMA AddItemKeeps ==
    ASSUME StreamRight, NEW i \in Items, AddItem(i)
    PROVE  StreamRight'
<1> DEFINE stage == [provider.stage EXCEPT ![i] = "added"]
<1>1. /\ Provided /\ ProjectionRight /\ Synced(Readers, Shown, Begun, "in_progress")
      /\ provider.ended = "no" /\ provider.stage[i] = "new"
      /\ provider' = [provider EXCEPT !.stage[i] = "added"] /\ Emit(ItemAddedOf(i, NoItem))
      /\ provider.kinds \in Shapes /\ Shown \in ItemsSeen /\ Begun \in SUBSET Items
  BY LiveReaders DEF AddItem, At, Open, ItemAddedOf
<1>2. Moved(provider.sent, stage, provider.ended)
  BY <1>1, ProviderMoves
<1>3. /\ Provided' /\ SameResponse /\ provider'.sent = provider.sent
      /\ provider'.ended = provider.ended /\ provider'.stage = stage /\ Begun' = Begun \cup {i}
      /\ provider.stage[Message] # "new" => provider'.stage[Message] # "new"
  <2>1. "added" \in ItemStages \ {"new"}
    BY DEF ItemStages
  <2> HIDE DEF stage
  <2> QED BY <1>1, <1>2, <2>1, StageMoves DEF stage
<1>4. PICK d : d = Deliver(Readers, ItemAddedOf(i, NoItem))
  OBVIOUS
<1>5. projection' = projection
      /\ Readers' = [reducer |-> d.reducer, web |-> d.web, terminal |-> d.terminal]
  <2>1. PICK e : e = ItemAddedOf(i, NoItem)
    OBVIOUS
  <2>2. e.type = "item added"
    BY <2>1 DEF ItemAddedOf
  <2> QED BY <1>1, <1>4, <2>1, <2>2, UntouchedEmitted
<1>6. Shown[i] = NoItem
  <2>1. provider.sent[i] = 0
    BY <1>1, ProviderFields
  <2>2. SentText(i) = <<>>
    BY <1>1, <2>1, TextTyped
  <2>3. CASE i # Message \/ provider.evidence = {}
    BY <1>1, <2>2, <2>3, ShownTyped DEF NoItem
  <2>4. CASE i = Message /\ provider.evidence # {}
    <3>1. projection = Blank
      BY <1>1, <2>4 DEF ProjectionRight
    <3>2. Shown[i] = [text |-> projection.text, annotations |-> projection.annotations, phase |-> "none"]
      BY <1>1, <2>4, ShownTyped
    <3>3. projection.text = <<>> /\ projection.annotations = <<>>
      BY <3>1 DEF Blank
    <3> QED BY <3>2, <3>3 DEF NoItem
  <2> QED BY <2>3, <2>4
<1>7. Synced(d, Shown, Begun \cup {i}, "in_progress")
  <2>1. i \notin Begun
    BY <1>1 DEF Begun
  <2> QED BY <1>1, <1>4, <1>6, <2>1, ItemAddedArrives
<1>8. Readers' = d
  BY <1>5, <1>7, SyncedWhole
<1>9. Shown' = Shown
  BY <1>3, <1>5, ShownStays
<1>10. ReadersRight'
  BY <1>1, <1>3, <1>7, <1>8, <1>9, SyncedAfter
<1>11. ProjectionRight'
  BY <1>1, <1>3, <1>5, ProjectionStays
<1> QED BY <1>3, <1>10, <1>11 DEF StreamRight

LEMMA EndPartKeeps ==
    ASSUME StreamRight, NEW i \in Items, EndPart(i)
    PROVE  StreamRight'
<1> DEFINE stage == [provider.stage EXCEPT ![i] = "closed"]
<1>1. /\ Provided /\ ProjectionRight /\ Synced(Readers, Shown, Begun, "in_progress")
      /\ provider.ended = "no" /\ provider.stage[i] = "written" /\ i = Message
      /\ provider' = [provider EXCEPT !.stage[i] = "closed"] /\ Emit(PartDoneOf(i, Full(i)))
      /\ Begun \in SUBSET Items
  BY LiveReaders DEF EndPart, At, Open, PartDoneOf
<1>2. Moved(provider.sent, stage, provider.ended)
  BY <1>1, ProviderMoves
<1>3. /\ Provided' /\ SameResponse /\ provider'.sent = provider.sent
      /\ provider'.ended = provider.ended /\ provider'.stage = stage /\ Begun' = Begun \cup {i}
      /\ provider.stage[Message] # "new" => provider'.stage[Message] # "new"
  <2>1. "closed" \in ItemStages \ {"new"}
    BY DEF ItemStages
  <2> HIDE DEF stage
  <2> QED BY <1>1, <1>2, <2>1, StageMoves DEF stage
<1>4. i \in Begun /\ Begun \cup {i} = Begun
  BY <1>1 DEF Begun
<1>5. projection' = projection /\ Synced(Readers', Shown, Begun, "in_progress")
  <2>1. PICK event : event = PartDoneOf(Message, Full(Message))
    OBVIOUS
  <2>2. LeftAlone(Project(event), Begun, "in_progress")
    <3>1. provider.sent[Message] > 0
      BY <1>1, ProviderFields
    <3> QED BY <1>1, <1>4, <2>1, <3>1, PartDoneKept
  <2> QED BY <1>1, <2>1, <2>2, KeptEmitted
<1>6. Shown' = Shown
  BY <1>3, <1>5, ShownStays
<1>7. ReadersRight'
  BY <1>1, <1>3, <1>4, <1>5, <1>6, SyncedAfter
<1>8. ProjectionRight'
  BY <1>1, <1>3, <1>5, ProjectionStays
<1> QED BY <1>3, <1>7, <1>8 DEF StreamRight

LEMMA EndItemKeeps ==
    ASSUME StreamRight, NEW i \in Items, EndItem(i)
    PROVE  StreamRight'
<1> DEFINE stage == [provider.stage EXCEPT ![i] = "done"]
<1>1. /\ Provided /\ ProjectionRight /\ Synced(Readers, Shown, Begun, "in_progress")
      /\ provider.ended = "no" /\ provider.stage[i] # "new"
      /\ provider' = [provider EXCEPT !.stage[i] = "done"] /\ Begun \in SUBSET Items
  BY LiveReaders DEF EndItem, At, Open
<1>2. PICK item \in {Full(i)} \cup (IF provider.kinds[i] = "call" THEN {} ELSE {NoItem}) :
        Emit(ItemDoneOf(i, item))
  BY DEF EndItem, ItemDoneOf
<1>3. Moved(provider.sent, stage, provider.ended)
  BY <1>1, ProviderMoves
<1>4. /\ Provided' /\ SameResponse /\ provider'.sent = provider.sent
      /\ provider'.ended = provider.ended /\ provider'.stage = stage /\ Begun' = Begun \cup {i}
      /\ provider.stage[Message] # "new" => provider'.stage[Message] # "new"
  <2>1. "done" \in ItemStages \ {"new"}
    BY DEF ItemStages
  <2> HIDE DEF stage
  <2> QED BY <1>1, <1>3, <2>1, StageMoves DEF stage
<1>5. i \in Begun /\ Begun \cup {i} = Begun
  BY <1>1 DEF Begun
<1>6. projection' = projection /\ Synced(Readers', Shown, Begun, "in_progress")
  <2>1. PICK event : event = ItemDoneOf(i, item)
    OBVIOUS
  <2>2. item = Full(i) \/ (item = NoItem /\ provider.kinds[i] # "call")
    BY <1>2
  <2>3. LeftAlone(Project(event), Begun, "in_progress")
    BY <1>1, <1>5, <2>1, <2>2, ItemDoneKept
  <2> QED BY <1>2, <2>1, <2>3, KeptEmitted
<1>7. Shown' = Shown
  BY <1>4, <1>6, ShownStays
<1>8. ReadersRight'
  BY <1>1, <1>4, <1>5, <1>6, <1>7, SyncedAfter
<1>9. ProjectionRight'
  BY <1>1, <1>4, <1>6, ProjectionStays
<1> QED BY <1>4, <1>8, <1>9 DEF StreamRight

(* The provider's last event ends the stream for the readers.              *)
LEMMA EndKeeps ==
    ASSUME Provided, ProjectionRight, NEW ended \in Ends \ {"no"},
           provider' = [provider EXCEPT !.ended = ended], NEW event, Emit(event),
           event.type \in {"terminal", "error"},
           NEW st \in {"completed", "incomplete", "failed"},
           Finished(Deliver(Readers, event), Shown, Begun, st)
    PROVE  StreamRight'
<1>1. Moved(provider.sent, provider.stage, ended)
  BY ProviderMoves
<1>2. /\ Provided' /\ SameResponse /\ provider'.sent = provider.sent
      /\ provider'.ended = ended /\ provider'.stage = provider.stage /\ Begun' = Begun
  BY <1>1, EndMoves
<1>3. PICK d : d = Deliver(Readers, event)
  OBVIOUS
<1>4. projection' = projection
      /\ Readers' = [reducer |-> d.reducer, web |-> d.web, terminal |-> d.terminal]
  BY <1>3, UntouchedEmitted
<1>5. Shown' = Shown
  BY <1>2, <1>4, ShownStays
<1>6. ReadersRight'
  BY <1>2, <1>3, <1>4, <1>5, FinishedAfter
<1>7. ProjectionRight'
  BY <1>2, <1>4, ProjectionStays
<1> QED BY <1>2, <1>6, <1>7 DEF StreamRight

LEMMA CompleteResponseKeeps ==
    ASSUME StreamRight, CompleteResponse
    PROVE  StreamRight'
<1> DEFINE whole == [i \in Items |-> [id |-> i, at |-> i, item |-> [NoItem EXCEPT !.text = FullText(i)]]]
<1>1. /\ Provided /\ ProjectionRight /\ Synced(Readers, Shown, Begun, "in_progress")
      /\ provider.ended = "no" /\ provider' = [provider EXCEPT !.ended = "completed"]
      /\ Begun \in SUBSET Items /\ Shown \in ItemsSeen
  BY LiveReaders DEF CompleteResponse, Open
<1>2. PICK output \in {whole} \cup (IF \A i \in Items : provider.stage[i] = "done" THEN {<<>>} ELSE {}) :
        Emit(TerminalOf("completed", output))
  BY DEF CompleteResponse, TerminalOf
<1>3. Snapshot(output, Shown, Begun)
  <2>1. CASE output = whole
    <3>1. DOMAIN whole = Items
          /\ \A i \in Items : whole[i].item = [NoItem EXCEPT !.text = FullText(i)]
      OBVIOUS
    <3>2. ASSUME NEW i \in Items \ Begun PROVE Shown[i] = NoItem
      <4>1. provider.stage[i] = "new" /\ provider.sent[i] = 0
        BY <1>1, ProviderFields DEF Begun
      <4>2. SentText(i) = <<>>
        BY <1>1, <4>1, TextTyped
      <4>3. CASE i # Message \/ provider.evidence = {}
        BY <1>1, <4>2, <4>3, ShownTyped DEF NoItem
      <4>4. CASE i = Message /\ provider.evidence # {}
        <5>1. projection = Blank
          BY <1>1, <4>1, <4>4 DEF ProjectionRight
        <5>2. Shown[i] = [text |-> projection.text, annotations |-> projection.annotations, phase |-> "none"]
          BY <1>1, <4>4, ShownTyped
        <5>3. projection.text = <<>> /\ projection.annotations = <<>>
          BY <5>1 DEF Blank
        <5> QED BY <5>2, <5>3 DEF NoItem
      <4> QED BY <4>3, <4>4
    <3> HIDE DEF whole
    <3> QED BY <2>1, <3>1, <3>2 DEF Snapshot
  <2>2. CASE output = <<>>
    <3>1. DOMAIN output = {}
      BY <2>2
    <3> QED BY <3>1 DEF Snapshot
  <2> HIDE DEF whole
  <2> QED BY <1>2, <2>1, <2>2
<1>4. PICK event : event = TerminalOf("completed", output)
  OBVIOUS
<1>5. Finished(Deliver(Readers, event), Shown, Begun, "completed")
  <2>1. Finished(Deliver(Readers, TerminalOf("completed", output)), Shown, Begun, "completed")
    BY <1>1, <1>3, TerminalArrives
  <2> QED BY <1>4, <2>1
<1>6. event.type = "terminal" /\ "completed" \in Ends \ {"no"}
  BY <1>4 DEF TerminalOf, Ends
<1> QED BY <1>1, <1>2, <1>4, <1>5, <1>6, EndKeeps

LEMMA StopKeeps ==
    ASSUME StreamRight, Stop
    PROVE  StreamRight'
<1>1. /\ Provided /\ ProjectionRight /\ Synced(Readers, Shown, Begun, "in_progress")
      /\ provider.ended = "no" /\ Begun \in SUBSET Items /\ Shown \in ItemsSeen
  BY LiveReaders DEF Stop, Open
<1>2. PICK status \in {"incomplete", "failed"} :
        provider' = [provider EXCEPT !.ended = status] /\ Emit(TerminalOf(status, <<>>))
  BY DEF Stop, TerminalOf
<1>3. PICK output : output = <<>>
  OBVIOUS
<1>4. Snapshot(output, Shown, Begun)
  <2>1. DOMAIN output = {}
    BY <1>3
  <2> QED BY <2>1 DEF Snapshot
<1>5. PICK event : event = TerminalOf(status, output)
  OBVIOUS
<1>6. Finished(Deliver(Readers, event), Shown, Begun, status)
  <2>1. Finished(Deliver(Readers, TerminalOf(status, output)), Shown, Begun, status)
    BY <1>1, <1>2, <1>4, TerminalArrives
  <2> QED BY <1>5, <2>1
<1>7. event.type = "terminal" /\ status \in Ends \ {"no"} /\ Emit(event)
  BY <1>2, <1>3, <1>5 DEF TerminalOf, Ends
<1> QED BY <1>1, <1>2, <1>6, <1>7, EndKeeps

LEMMA ErrorKeeps ==
    ASSUME StreamRight, Error
    PROVE  StreamRight'
<1>1. /\ Provided /\ ProjectionRight /\ Synced(Readers, Shown, Begun, "in_progress")
      /\ provider.ended = "no" /\ Begun \in SUBSET Items /\ Shown \in ItemsSeen
      /\ provider.kinds \in Shapes
      /\ provider' = [provider EXCEPT !.ended = "failed"] /\ Emit([type |-> "error"])
  BY LiveReaders DEF Error, Open
<1>2. PICK event : event = [type |-> "error"]
  OBVIOUS
<1>3. Finished(Deliver(Readers, event), Shown, Begun, "failed")
  BY <1>1, <1>2, ErrorArrives
<1>4. event.type = "error" /\ "failed" \in Ends \ {"no"} /\ Emit(event)
  BY <1>1, <1>2 DEF Ends
<1> QED BY <1>1, <1>3, <1>4, EndKeeps

LEMMA DisconnectKeeps ==
    ASSUME StreamRight, BreakConnection
    PROVE  StreamRight'
<1>1. /\ Provided /\ ProjectionRight /\ Synced(Readers, Shown, Begun, reducer.status)
      /\ provider.ended = "no" /\ Begun \in SUBSET Items /\ Shown \in ItemsSeen
      /\ reducer.status \in {"none", "in_progress"} /\ provider.kinds \in Shapes
      /\ provider' = [provider EXCEPT !.ended = "failed"]
      /\ web' = WebFold(web, [type |-> "failure"])
      /\ terminal' = TerminalFold(terminal, [type |-> "failure"])
      /\ UNCHANGED <<projection, reducer>>
  BY LiveReaders DEF BreakConnection
<1>2. Moved(provider.sent, provider.stage, "failed")
  BY <1>1, ProviderMoves
<1>3. /\ Provided' /\ SameResponse /\ provider'.sent = provider.sent
      /\ provider'.ended = "failed" /\ provider'.stage = provider.stage /\ Begun' = Begun
  <2>1. "failed" \in Ends
    BY DEF Ends
  <2> QED BY <1>1, <1>2, <2>1, EndMoves
<1>4. PICK d : d = [reducer |-> Readers.reducer, web |-> WebFold(Readers.web, [type |-> "failure"]),
                    terminal |-> TerminalFold(Readers.terminal, [type |-> "failure"])]
  OBVIOUS
<1>5. Finished(d, Shown, Begun, reducer.status)
  BY <1>1, <1>4, ErrorArrives
<1>6. Readers' = [reducer |-> d.reducer, web |-> d.web, terminal |-> d.terminal]
  <2>1. Readers.reducer = reducer /\ Readers.web = web /\ Readers.terminal = terminal
    BY DEF Readers
  <2>2. d.reducer = reducer' /\ d.web = web' /\ d.terminal = terminal'
    BY <1>1, <1>4, <2>1
  <2> QED BY <2>2 DEF Readers
<1>7. Shown' = Shown
  BY <1>1, <1>3, ShownStays
<1>8. ReadersRight'
  BY <1>1, <1>3, <1>5, <1>6, <1>7, FinishedAfter
<1>9. ProjectionRight'
  BY <1>1, <1>3, ProjectionStays
<1> QED BY <1>3, <1>8, <1>9 DEF StreamRight

(* A piece of a text and the one that follows it.                          *)
LEMMA PiecesJoin ==
    ASSUME NEW S, NEW t \in Seq(S), NEW m \in 1 .. Len(t) + 1, NEW n \in m - 1 .. Len(t),
           NEW u \in n .. Len(t)
    PROVE  /\ SubSeq(t, m, u) = SubSeq(t, m, n) \o SubSeq(t, n + 1, u)
           /\ SubSeq(t, m, n) \in Seq(S) /\ SubSeq(t, n + 1, u) \in Seq(S)
<1>1. Len(t) \in Nat /\ \A q \in 1 .. Len(t) : t[q] \in S
  OBVIOUS
<1>2. m \in Nat /\ m >= 1 /\ n \in Nat /\ u \in Nat /\ n <= u /\ u <= Len(t) /\ m - 1 <= n
  BY <1>1
<1>3. PICK a, b, c : a = SubSeq(t, m, n) /\ b = SubSeq(t, n + 1, u) /\ c = SubSeq(t, m, u)
  OBVIOUS
<1>4. a \in Seq(S) /\ Len(a) = n - m + 1 /\ \A q \in 1 .. n - m + 1 : a[q] = t[q + m - 1]
  BY <1>1, <1>2, <1>3
<1>5. b \in Seq(S) /\ Len(b) = u - n /\ \A q \in 1 .. u - n : b[q] = t[q + n]
  BY <1>1, <1>2, <1>3
<1>6. c \in Seq(S) /\ Len(c) = u - m + 1 /\ \A q \in 1 .. u - m + 1 : c[q] = t[q + m - 1]
  BY <1>1, <1>2, <1>3, SMTT(30)
<1>7. PICK k, l : k = n - m + 1 /\ l = u - n
  OBVIOUS
<1>8. k \in Nat /\ l \in Nat /\ k + l = u - m + 1
  BY <1>2, <1>7
<1>9. a \in Seq(S) /\ b \in Seq(S) /\ Len(a) = k /\ Len(b) = l /\ c \in Seq(S) /\ Len(c) = k + l
  BY <1>4, <1>5, <1>6, <1>7, <1>8
<1>10. PICK x : /\ x = a \o b /\ x \in Seq(S) /\ Len(x) = k + l
                 /\ \A q \in 1 .. k + l : x[q] = IF q <= k THEN a[q] ELSE b[q - k]
  <2>1. PICK x : x = a \o b
    OBVIOUS
  <2>2. /\ a \o b \in Seq(S) /\ Len(a \o b) = Len(a) + Len(b)
        /\ \A q \in 1 .. Len(a) + Len(b) :
             (a \o b)[q] = IF q <= Len(a) THEN a[q] ELSE b[q - Len(a)]
    BY <1>9, Joined
  <2>3. /\ x \in Seq(S) /\ Len(x) = k + l
        /\ \A q \in 1 .. k + l : x[q] = IF q <= k THEN a[q] ELSE b[q - k]
    BY <1>9, <2>1, <2>2
  <2> QED BY <2>1, <2>3
<1>11. \A q \in 1 .. k + l : x[q] = c[q]
  <2> SUFFICES ASSUME NEW q \in 1 .. k + l PROVE x[q] = c[q]
    OBVIOUS
  <2>1. c[q] = t[q + m - 1]
    BY <1>6, <1>8
  <2>2. CASE q <= k
    <3>1. q \in 1 .. n - m + 1
      BY <1>7, <1>8, <2>2
    <3>2. x[q] = a[q]
      BY <1>10, <2>2
    <3> QED BY <1>4, <2>1, <3>1, <3>2
  <2>3. CASE q > k
    <3>1. q - k \in 1 .. u - n /\ (q - k) + n = q + m - 1
      BY <1>2, <1>7, <1>8, <2>3
    <3>2. x[q] = b[q - k]
      <4>1. x[q] = IF q <= k THEN a[q] ELSE b[q - k]
        BY <1>10
      <4>2. ~(q <= k)
        BY <1>8, <2>3
      <4> QED BY <4>1, <4>2
    <3>3. b[q - k] = t[(q - k) + n]
      BY <1>5, <3>1
    <3> QED BY <2>1, <3>1, <3>2, <3>3
  <2> QED BY <1>8, <2>2, <2>3
<1>12. x = c
  <2>1. PICK w : w = k + l /\ w \in Nat
    BY <1>8
  <2>2. Len(x) = w /\ Len(c) = w /\ x \in Seq(S) /\ c \in Seq(S) /\ \A q \in 1 .. w : x[q] = c[q]
    BY <1>9, <1>10, <1>11, <2>1
  <2> QED BY <2>1, <2>2
<1> QED BY <1>3, <1>4, <1>5, <1>10, <1>12

LEMMA SentMoves ==
    ASSUME Provided, NEW i \in Items, provider.stage[i] # "new",
           NEW upto \in provider.sent[i] + 1 .. Len(FullText(i)), NEW sent,
           sent = [provider.sent EXCEPT ![i] = upto], Moved(sent, provider.stage, provider.ended)
    PROVE  /\ Provided' /\ SameResponse /\ provider'.sent = sent
           /\ provider'.ended = provider.ended /\ provider'.stage = provider.stage
           /\ Begun' = Begun
           /\ \A j \in Items \ {i} : (SentText(j))' = SentText(j)
           /\ (SentText(i))' = SentText(i) \o SubSeq(FullText(i), provider.sent[i] + 1, upto)
           /\ SubSeq(FullText(i), provider.sent[i] + 1, upto) \in Words
           /\ i = Message => SubSeq(FullText(i), provider.sent[i] + 1, upto) \in MessageTexts
<1>1. provider.sent[i] \in Nat /\ Len(FullText(i)) \in Nat /\ upto \in Nat
      /\ upto > provider.sent[i] /\ upto <= Len(FullText(i)) /\ FullText(i) \in Words
  BY ProviderFields, TextTyped
<1>2. sent \in [Items -> Nat] /\ sent[i] = upto /\ \A j \in Items \ {i} : sent[j] = provider.sent[j]
  BY <1>1, ProviderFields
<1>3. /\ provider.stage \in [Items -> ItemStages] /\ provider.ended \in Ends
      /\ \A j \in Items : /\ sent[j] <= Len(FullText(j))
                          /\ (provider.stage[j] = "new" => sent[j] = 0)
                          /\ (provider.stage[j] = "written" => sent[j] > 0)
  BY <1>1, <1>2, ProviderFields
<1>4. /\ Provided' /\ SameResponse /\ provider'.sent = sent
      /\ provider'.ended = provider.ended /\ provider'.stage = provider.stage
  BY <1>2, <1>3, ProvidedNext DEF Moved
<1>5. Items' = Items /\ Message' = Message /\ \A j \in Items : (FullText(j))' = FullText(j)
  BY <1>4, ResponseStays
<1>6. Begun' = Begun
  BY <1>4, <1>5 DEF Begun
<1>7. \A j \in Items \ {i} : (SentText(j))' = SentText(j)
  BY <1>2, <1>4, <1>5 DEF SentText
<1>8. PICK t, n : t = FullText(i) /\ n = provider.sent[i]
  OBVIOUS
<1>9. (SentText(i))' = SubSeq(t, 1, upto) /\ SentText(i) = SubSeq(t, 1, n)
  BY <1>2, <1>4, <1>5, <1>8 DEF SentText
<1>10. SubSeq(t, 1, upto) = SubSeq(t, 1, n) \o SubSeq(t, n + 1, upto) /\ SubSeq(t, n + 1, upto) \in Words
  <2>1. n \in 0 .. Len(t) /\ upto \in n .. Len(t) /\ 1 \in 1 .. Len(t) + 1 /\ 1 - 1 = 0
        /\ t \in Seq(Characterset \cup {"v", "w"})
    BY <1>1, <1>8 DEF Words
  <2>2. PICK m : m = 1
    OBVIOUS
  <2>3. m \in 1 .. Len(t) + 1 /\ n \in m - 1 .. Len(t)
    BY <2>1, <2>2
  <2>4. /\ SubSeq(t, m, upto) = SubSeq(t, m, n) \o SubSeq(t, n + 1, upto)
        /\ SubSeq(t, n + 1, upto) \in Seq(Characterset \cup {"v", "w"})
    <3>1. PICK S : S = Characterset \cup {"v", "w"}
      OBVIOUS
    <3>2. t \in Seq(S)
      BY <2>1, <3>1
    <3>3. SubSeq(t, m, upto) = SubSeq(t, m, n) \o SubSeq(t, n + 1, upto)
          /\ SubSeq(t, n + 1, upto) \in Seq(S)
      BY <2>1, <2>3, <3>2, PiecesJoin
    <3> QED BY <3>1, <3>3
  <2> QED BY <2>2, <2>4 DEF Words
<1>11. i = Message => SubSeq(t, n + 1, upto) \in MessageTexts
  <2>1. i = Message => t \in MessageTexts
    BY <1>8, TextTyped DEF FullText
  <2> QED BY <1>1, <1>8, <2>1 DEF MessageTexts
<1> QED BY <1>4, <1>6, <1>7, <1>8, <1>9, <1>10, <1>11

LEMMA OtherDelta ==
    ASSUME StreamRight, NEW i \in Items, At(i, "added"), i # Message \/ provider.evidence = {},
           NEW upto \in provider.sent[i] + 1 .. Len(FullText(i)), SendsDelta(i, upto)
    PROVE  StreamRight'
<1>1. /\ Provided /\ ProjectionRight /\ Synced(Readers, Shown, Begun, "in_progress")
      /\ provider.ended = "no" /\ provider.stage[i] = "added" /\ provider.stage[i] # "new"
      /\ provider' = [provider EXCEPT !.sent[i] = upto]
      /\ Begun \in SUBSET Items /\ Shown \in ItemsSeen /\ provider.kinds \in Shapes
  BY LiveReaders DEF SendsDelta, At, Open
<1>2. PICK sent, text : /\ sent = [provider.sent EXCEPT ![i] = upto]
                        /\ text = SubSeq(FullText(i), provider.sent[i] + 1, upto)
  OBVIOUS
<1>3. Moved(sent, provider.stage, provider.ended)
  BY <1>1, <1>2, ProviderMoves
<1>4. /\ Provided' /\ SameResponse /\ provider'.sent = sent
      /\ provider'.ended = provider.ended /\ provider'.stage = provider.stage /\ Begun' = Begun
      /\ \A j \in Items \ {i} : (SentText(j))' = SentText(j)
      /\ (SentText(i))' = SentText(i) \o text /\ text \in Words
  BY <1>1, <1>2, <1>3, SentMoves
<1>5. PICK event : event = DeltaOf(i, text)
  OBVIOUS
<1>6. event.type = "delta" /\ event.index = i /\ Emit(event)
  BY <1>2, <1>5 DEF DeltaOf, SendsDelta
<1>7. PICK d : d = Deliver(Readers, event)
  OBVIOUS
<1>8. projection' = projection
      /\ Readers' = [reducer |-> d.reducer, web |-> d.web, terminal |-> d.terminal]
  BY <1>1, <1>6, <1>7, UntouchedEmitted
<1>9. i \in Begun
  BY <1>1 DEF Begun
<1>10. PICK G : G = [Shown EXCEPT ![i].text = @ \o text]
  OBVIOUS
<1>11. Synced(d, G, Begun, "in_progress")
  BY <1>1, <1>5, <1>7, <1>9, <1>10, DeltaArrives
<1>12. Readers' = d
  BY <1>8, <1>11, SyncedWhole
<1>13. Shown' = G
  <2>1. Items' = Items /\ Message' = Message
    BY <1>4, ResponseStays
  <2>2. \A j \in Items \ {i} : Shown'[j] = Shown[j]
    BY <1>4, <1>8, <2>1 DEF Shown, SameResponse
  <2>3. PICK old : old = SentText(i)
    OBVIOUS
  <2>4. Shown[i] = [text |-> old, annotations |-> <<>>, phase |-> "none"]
    BY <1>1, <2>3, ShownTyped
  <2>5. Shown'[i] = [text |-> old \o text, annotations |-> <<>>, phase |-> "none"]
    BY <1>4, <2>1, <2>3 DEF Shown, SameResponse
  <2>6. PICK a, x, y : a = <<>> /\ x = Shown[i] /\ y = "none"
    OBVIOUS
  <2>7. x = [text |-> old, annotations |-> a, phase |-> y]
    BY <2>4, <2>6
  <2>8. [x EXCEPT !.text = old \o text] = [text |-> old \o text, annotations |-> a, phase |-> y]
    <3>1. PICK new : new = old \o text
      OBVIOUS
    <3>2. [x EXCEPT !.text = new] = [text |-> new, annotations |-> a, phase |-> y]
      BY <2>7
    <3> QED BY <3>1, <3>2
  <2>9. [Shown EXCEPT ![i].text = @ \o text] = [Shown EXCEPT ![i] = [x EXCEPT !.text = x.text \o text]]
    BY <2>6
  <2>10. x.text = old
    BY <2>7
  <2>11. G = [Shown EXCEPT ![i] = [text |-> old \o text, annotations |-> a, phase |-> y]]
    BY <1>10, <2>8, <2>9, <2>10
  <2>12. Shown' = [j \in Items |-> Shown'[j]] /\ Shown = [j \in Items |-> Shown[j]]
    BY <2>1 DEF Shown
  <2>13. PICK z : z = Shown' /\ z = [j \in Items |-> z[j]] /\ \A j \in Items \ {i} : z[j] = Shown[j]
    BY <2>2, <2>12
  <2>14. z[i] = [text |-> old \o text, annotations |-> a, phase |-> y]
    BY <2>5, <2>6, <2>13
  <2>15. z = G
    BY <2>11, <2>12, <2>13, <2>14
  <2> QED BY <2>13, <2>15
<1>14. ReadersRight'
  BY <1>1, <1>4, <1>11, <1>12, <1>13, SyncedAfter
<1>15. ProjectionRight'
  <2>1. provider.evidence # {} => provider'.sent[Message] = provider.sent[Message]
    <3>1. Message \in Items
      BY <1>1, ProviderFields
    <3> QED BY <1>1, <1>2, <1>4, <3>1, ProviderFields
  <2> QED BY <1>1, <1>4, <1>8, <2>1, ProjectionStays
<1> QED BY <1>4, <1>14, <1>15 DEF StreamRight

(* The projection takes an event of the message.                           *)
LEMMA ProjectionTakes ==
    ASSUME StreamRight, provider.ended = "no", NEW event, Emit(event), NEW started \in BOOLEAN,
           provider.evidence # {},
           NEW st \in {"none", "in_progress"},
           Projected(Project(event), Begun, st, started), started \/ projection' = Blank,
           Provided', SameResponse, Begun' = Begun, provider'.ended = "no",
           \A j \in Items \ {Message} : (SentText(j))' = SentText(j),
           started => provider'.stage[Message] # "new",
           ~started => provider'.sent[Message] = 0
    PROVE  StreamRight'
<1>1. PICK p : p = Project(event)
  OBVIOUS
<1>2. PICK d : d = Folded(Deliver, Readers, p.out)
  OBVIOUS
<1>3. /\ [p EXCEPT !.out = <<>>] \in Projections /\ p.started = started
      /\ Len(p.kept) <= MaxMarkerLength /\ Synced(d, Display(Shown, p), Begun, st)
  BY <1>1, <1>2 DEF Projected
<1>4. projection' = [p EXCEPT !.out = <<>>]
      /\ Readers' = [reducer |-> d.reducer, web |-> d.web, terminal |-> d.terminal]
  BY <1>1, <1>2, Emitted
<1>5. Readers' = d
  BY <1>3, <1>4, SyncedWhole
<1>6. PICK q : q = projection' /\ q = [p EXCEPT !.out = <<>>] /\ q \in Projections
  BY <1>3, <1>4
<1>7. q.text = p.text /\ q.annotations = p.annotations /\ q.kept = p.kept
      /\ q.started = p.started
  BY <1>6
<1>8. q.out = <<>>
  <2>1. "out" \in DOMAIN q
    <3>1. q = [text |-> q.text, kept |-> q.kept, annotations |-> q.annotations,
               known |-> q.known, started |-> q.started, out |-> q.out]
      BY <1>6, ProjectionFields
    <3> QED BY <3>1
  <2>2. DOMAIN q = DOMAIN p
    BY <1>6
  <2> QED BY <1>6, <2>1, <2>2
<1>9. Items' = Items /\ Message' = Message /\ Message \in Items
  BY ResponseStays, ProviderFields DEF StreamRight
<1>10. Shown' = Display(Shown, p)
  <2>1. \A j \in Items \ {Message} : Shown'[j] = Shown[j]
    BY <1>9 DEF Shown, SameResponse
  <2>2. Shown'[Message] = [text |-> q.text, annotations |-> q.annotations, phase |-> "none"]
    BY <1>6, <1>9 DEF Shown, SameResponse
  <2>3. Shown' = [j \in Items |-> Shown'[j]] /\ Shown = [j \in Items |-> Shown[j]]
    BY <1>9 DEF Shown
  <2>4. PICK z, x : /\ z = Shown' /\ z = [j \in Items |-> z[j]]
                    /\ \A j \in Items \ {Message} : z[j] = Shown[j]
                    /\ x = [text |-> p.text, annotations |-> p.annotations, phase |-> "none"]
                    /\ z[Message] = x
    BY <1>7, <2>1, <2>2, <2>3
  <2>5. z = [Shown EXCEPT ![Message] = x]
    BY <1>9, <2>3, <2>4
  <2> QED BY <2>4, <2>5 DEF Display
<1>11. ReadersRight'
  BY <1>3, <1>5, <1>10, SyncedAfter
<1>12. ProjectionRight'
  <2>1. Projections' = Projections
    BY ProjectionsStay
  <2> QED BY <1>3, <1>6, <1>7, <1>8, <1>9, <2>1 DEF ProjectionRight, SameResponse, Blank
<1> QED BY <1>11, <1>12 DEF StreamRight

LEMMA MessageDelta ==
    ASSUME StreamRight, At(Message, "added"), provider.evidence # {},
           NEW upto \in provider.sent[Message] + 1 .. Len(FullText(Message)),
           SendsDelta(Message, upto)
    PROVE  StreamRight'
<1>1. /\ Provided /\ ProjectionRight /\ Synced(Readers, Shown, Begun, "in_progress")
      /\ provider.ended = "no" /\ provider.stage[Message] = "added"
      /\ provider' = [provider EXCEPT !.sent[Message] = upto] /\ Begun \in SUBSET Items
      /\ Message \in Items
  BY LiveReaders, ProviderFields DEF SendsDelta, At, Open
<1>2. PICK sent, text : /\ sent = [provider.sent EXCEPT ![Message] = upto]
                        /\ text = SubSeq(FullText(Message), provider.sent[Message] + 1, upto)
  OBVIOUS
<1>3. Moved(sent, provider.stage, provider.ended)
  BY <1>1, <1>2, ProviderMoves
<1>4. /\ Provided' /\ SameResponse
      /\ provider'.ended = "no" /\ provider'.stage = provider.stage /\ Begun' = Begun
      /\ \A j \in Items \ {Message} : (SentText(j))' = SentText(j)
      /\ text \in MessageTexts
  BY <1>1, <1>2, <1>3, SentMoves
<1>5. PICK event : event = DeltaOf(Message, text)
  OBVIOUS
<1>6. Emit(event)
  BY <1>2, <1>5 DEF SendsDelta
<1>7. Message \in Begun /\ provider'.stage[Message] # "new"
  BY <1>1, <1>4 DEF Begun
<1>8. Projected(Project(event), Begun, "in_progress", TRUE)
  <2>1. Projected(Project(DeltaOf(Message, text)), Begun, "in_progress", TRUE)
    BY <1>1, <1>4, <1>7, DeltaProjected
  <2> QED BY <1>5, <2>1
<1>9. PICK started : started = TRUE
  OBVIOUS
<1>10. started \in BOOLEAN /\ started /\ Projected(Project(event), Begun, "in_progress", started)
  BY <1>8, <1>9
<1> QED BY <1>1, <1>4, <1>6, <1>7, <1>10, ProjectionTakes

LEMMA SendDeltaKeeps ==
    ASSUME StreamRight, NEW i \in Items, SendDelta(i)
    PROVE  StreamRight'
<1>1. At(i, "added")
  BY DEF SendDelta
<1>2. PICK upto \in provider.sent[i] + 1 .. Len(FullText(i)) : SendsDelta(i, upto)
  BY DEF SendDelta, SendsDelta, DeltaOf
<1>3. CASE i # Message \/ provider.evidence = {}
  BY <1>1, <1>2, <1>3, OtherDelta
<1>4. CASE i = Message /\ provider.evidence # {}
  BY <1>1, <1>2, <1>4, MessageDelta
<1> QED BY <1>3, <1>4

LEMMA EndTextKeeps ==
    ASSUME StreamRight, NEW i \in Items, EndText(i)
    PROVE  StreamRight'
<1> DEFINE stage == [provider.stage EXCEPT ![i] = "written"]
<1>1. /\ Provided /\ ProjectionRight /\ Synced(Readers, Shown, Begun, "in_progress")
      /\ provider.ended = "no" /\ provider.stage[i] = "added" /\ provider.sent[i] > 0
      /\ provider' = [provider EXCEPT !.stage[i] = "written"]
      /\ Emit(TextDoneOf(i, SentText(i)))
      /\ Begun \in SUBSET Items /\ Shown \in ItemsSeen /\ provider.kinds \in Shapes
  BY LiveReaders DEF EndText, At, Open, TextDoneOf
<1>2. Moved(provider.sent, stage, provider.ended)
  BY <1>1, ProviderMoves
<1>3. /\ Provided' /\ SameResponse /\ provider'.sent = provider.sent
      /\ provider'.ended = provider.ended /\ provider'.stage = stage /\ Begun' = Begun \cup {i}
      /\ provider.stage[Message] # "new" => provider'.stage[Message] # "new"
  <2>1. "written" \in ItemStages \ {"new"}
    BY DEF ItemStages
  <2> HIDE DEF stage
  <2> QED BY <1>1, <1>2, <2>1, StageMoves DEF stage
<1>4. i \in Begun /\ Begun \cup {i} = Begun
  BY <1>1 DEF Begun
<1>5. PICK event : event = TextDoneOf(i, SentText(i))
  OBVIOUS
<1>6. event.type = "text done" /\ event.index = i /\ Emit(event)
  BY <1>1, <1>5 DEF TextDoneOf
<1>7. CASE i # Message \/ provider.evidence = {}
  <2>1. PICK d : d = Deliver(Readers, event)
    OBVIOUS
  <2>2. projection' = projection
        /\ Readers' = [reducer |-> d.reducer, web |-> d.web, terminal |-> d.terminal]
    BY <1>1, <1>6, <1>7, <2>1, UntouchedEmitted
  <2>3. [Shown EXCEPT ![i].text = SentText(i)] = Shown
    <3>1. PICK old, a, y, x : old = SentText(i) /\ a = <<>> /\ y = "none" /\ x = Shown[i]
      OBVIOUS
    <3>2. Shown[i] = [text |-> SentText(i), annotations |-> <<>>, phase |-> "none"]
      BY <1>1, <1>7, ShownTyped
    <3>3. x = [text |-> old, annotations |-> a, phase |-> y]
      BY <3>1, <3>2
    <3>4. [x EXCEPT !.text = old] = x
      BY <3>3
    <3>5. [Shown EXCEPT ![i].text = old] = [Shown EXCEPT ![i] = [x EXCEPT !.text = old]]
      BY <3>1
    <3>6. [Shown EXCEPT ![i] = x] = Shown
      BY <1>1, <3>1, SameItems
    <3> QED BY <3>1, <3>4, <3>5, <3>6
  <2>4. Synced(d, Shown, Begun, "in_progress")
    <3>1. PICK new : new = SentText(i)
      OBVIOUS
    <3>2. Synced(Deliver(Readers, TextDoneOf(i, new)), [Shown EXCEPT ![i].text = new], Begun, "in_progress")
      BY <1>1, <1>4, TextDoneArrives
    <3> QED BY <1>5, <2>1, <2>3, <3>1, <3>2
  <2>5. Readers' = d
    BY <2>2, <2>4, SyncedWhole
  <2>6. Shown' = Shown
    BY <1>3, <2>2, ShownStays
  <2>7. ReadersRight'
    BY <1>1, <1>3, <1>4, <2>4, <2>5, <2>6, SyncedAfter
  <2>8. ProjectionRight'
    BY <1>1, <1>3, <2>2, ProjectionStays
  <2> QED BY <1>3, <2>7, <2>8 DEF StreamRight
<1>8. CASE i = Message /\ provider.evidence # {}
  <2>1. projection.started
    BY <1>1, <1>8 DEF ProjectionRight
  <2>2. PICK text : text = SentText(Message)
    OBVIOUS
  <2>3. PICK p : p = Project(TextDoneOf(Message, text))
    OBVIOUS
  <2>4. PICK started \in BOOLEAN : Projected(p, Begun, "in_progress", started) /\ (projection.started => started)
    BY <1>1, <1>4, <1>8, <2>3, TextDoneProjected
  <2>5. Projected(Project(event), Begun, "in_progress", started) /\ started
    BY <1>5, <1>8, <2>1, <2>2, <2>3, <2>4
  <2>6. \A j \in Items \ {Message} : (SentText(j))' = SentText(j)
    <3>1. \A j \in Items : (FullText(j))' = FullText(j)
      BY <1>3, ResponseStays
    <3> QED BY <1>3, <3>1 DEF SentText
  <2>7. provider'.stage[Message] # "new"
    BY <1>1, <1>3, <1>8
  <2> HIDE DEF stage
  <2> QED BY <1>1, <1>3, <1>4, <1>6, <1>8, <2>5, <2>6, <2>7, ProjectionTakes
<1> QED BY <1>7, <1>8

LEMMA StreamBegins ==
    ASSUME StreamInit
    PROVE  StreamRight
<1>1. PICK reply \in Replies, kinds \in Shapes, issued \in {{}, References} :
        provider = [reply |-> reply, kinds |-> kinds, evidence |-> issued,
                    sent |-> [i \in DOMAIN kinds |-> 0],
                    stage |-> [i \in DOMAIN kinds |-> "new"], ended |-> "no"]
  BY DEF StreamInit, InitProvider
<1>2. /\ provider.reply = reply /\ provider.kinds = kinds /\ provider.evidence = issued
      /\ provider.sent = [i \in DOMAIN kinds |-> 0]
      /\ provider.stage = [i \in DOMAIN kinds |-> "new"] /\ provider.ended = "no"
  BY <1>1
<1>3. Items = DOMAIN kinds /\ Message \in Items
  BY <1>2, MessageIsAnItem DEF Items
<1>4. \A i \in Items : Len(FullText(i)) \in Nat
  <2>1. Text \in MessageTexts
    BY <1>2, WrittenTyped DEF Text
  <2> QED BY <2>1 DEF FullText, MessageTexts
<1>5. Provided
  <2>1. provider = [reply |-> provider.reply, kinds |-> provider.kinds,
                    evidence |-> provider.evidence, sent |-> provider.sent,
                    stage |-> provider.stage, ended |-> provider.ended]
    BY <1>1
  <2>2. provider.sent \in [Items -> Nat] /\ provider.stage \in [Items -> ItemStages]
    BY <1>2, <1>3 DEF ItemStages
  <2>3. \A i \in Items : /\ provider.sent[i] <= Len(FullText(i))
                         /\ provider.stage[i] = "new" => provider.sent[i] = 0
                         /\ provider.stage[i] = "written" => provider.sent[i] > 0
    BY <1>2, <1>3, <1>4
  <2> QED BY <1>2, <2>1, <2>2, <2>3 DEF Provided
<1>6. projection = Blank
  BY DEF StreamInit, InitProjection, Blank
<1>7. ProjectionRight
  <2>1. PICK a, c, d, e, f : a = <<>> /\ c = <<>> /\ d = <<>> /\ e = FALSE /\ f = <<>>
    OBVIOUS
  <2>2. a \in MessageTexts /\ c \in Seq(Annotations) /\ e \in BOOLEAN /\ f \in Seq(MessageEvents)
    <3>1. <<>> \in MessageTexts /\ <<>> \in Seq(Annotations) /\ <<>> \in Seq(MessageEvents) /\ FALSE \in BOOLEAN
      BY DEF MessageTexts
    <3> QED BY <2>1, <3>1
  <2>3. Apart(c, a)
    BY <2>1 DEF Apart
  <2>4. d \in KnownLists
    BY <2>1, ReferencesAssumption DEF KnownLists
  <2>5. [text |-> a, kept |-> a, annotations |-> c, known |-> d, started |-> e, out |-> f] \in Projections
    BY <2>2, <2>3, <2>4, IsProjection
  <2>6. projection = [text |-> a, kept |-> a, annotations |-> c, known |-> d, started |-> e, out |-> f]
    BY <1>6, <2>1 DEF Blank
  <2>7. projection.out = <<>> /\ projection.started = FALSE /\ Len(projection.kept) <= MaxMarkerLength
    BY <1>6, ReferencesAssumption DEF Blank
  <2>8. projection \in Projections
    BY <2>5, <2>6
  <2>9. provider.sent[Message] = 0
    BY <1>2, <1>3
  <2> QED BY <1>6, <2>7, <2>8, <2>9 DEF ProjectionRight
<1>8. PICK F : F = [i \in Items |-> NoItem]
  OBVIOUS
<1>9. Shown = F
  <2>1. \A i \in Items : SentText(i) = <<>>
    BY <1>2, <1>3, <1>5, TextTyped
  <2>2. projection.text = <<>> /\ projection.annotations = <<>>
    BY <1>6 DEF Blank
  <2> QED BY <1>8, <2>1, <2>2 DEF Shown, NoItem
<1>10. Begun = {}
  BY <1>2, <1>3 DEF Begun
<1>11. Synced(Readers, F, {}, "none")
  <2>1. Readers = [reducer |-> [shells |-> {}, items |-> F, status |-> "none"],
                   web |-> [order |-> <<>>, items |-> F, status |-> "streaming"],
                   terminal |-> Quiet]
    BY <1>8 DEF Readers, StreamInit, InitReducer, InitWeb, InitTerminal, Quiet
  <2>2. Readers.web.order = <<>>
    BY <2>1
  <2>3. Lists(<<>>, {})
    BY DEF Lists
  <2> QED BY <2>1, <2>2, <2>3 DEF Synced
<1>12. reducer.status = "none"
  BY DEF StreamInit, InitReducer
<1>13. ReadersRight
  BY <1>2, <1>9, <1>10, <1>11, <1>12 DEF ReadersRight
<1> QED BY <1>5, <1>7, <1>13 DEF StreamRight

LEMMA StreamKeeps ==
    ASSUME StreamRight, [StreamNext]_streamVars
    PROVE  StreamRight'
<1>1. CASE UNCHANGED streamVars
  <2>1. UNCHANGED <<provider, projection, reducer, web, terminal>>
    BY <1>1 DEF streamVars
  <2>2. Items' = Items /\ Message' = Message /\ ItemsSeen' = ItemsSeen
        /\ \A i \in Items : (FullText(i))' = FullText(i)
    <3>1. SameResponse
      BY <2>1 DEF SameResponse
    <3> QED BY <3>1, ResponseStays
  <2>3. SameResponse
    BY <2>1 DEF SameResponse
  <2>4. Projections' = Projections
    BY <2>3, ProjectionsStay
  <2>5. Shown' = Shown
    BY <2>1, <2>3, ShownStays
  <2>6. Begun' = Begun /\ Readers' = Readers
    BY <2>1, <2>2 DEF Begun, Readers
  <2>7. Provided'
    BY <2>1, <2>2 DEF StreamRight, Provided
  <2>8. ProjectionRight'
    BY <2>1, <2>2, <2>4 DEF StreamRight, ProjectionRight, Blank
  <2>9. ReadersRight'
    BY <2>1, <2>2, <2>5, <2>6 DEF StreamRight, ReadersRight, Finished
  <2> QED BY <2>7, <2>8, <2>9 DEF StreamRight
<1>2. CASE Create
  BY <1>2, CreateKeeps
<1>3. ASSUME NEW i \in Items, AddItem(i) PROVE StreamRight'
  BY <1>3, AddItemKeeps
<1>4. ASSUME NEW i \in Items, SendDelta(i) PROVE StreamRight'
  BY <1>4, SendDeltaKeeps
<1>5. ASSUME NEW i \in Items, EndText(i) PROVE StreamRight'
  BY <1>5, EndTextKeeps
<1>6. ASSUME NEW i \in Items, EndPart(i) PROVE StreamRight'
  BY <1>6, EndPartKeeps
<1>7. ASSUME NEW i \in Items, EndItem(i) PROVE StreamRight'
  BY <1>7, EndItemKeeps
<1>8. CASE CompleteResponse
  BY <1>8, CompleteResponseKeeps
<1>9. CASE Stop
  BY <1>9, StopKeeps
<1>10. CASE Error
  BY <1>10, ErrorKeeps
<1>11. CASE BreakConnection
  BY <1>11, DisconnectKeeps
<1> QED BY <1>1, <1>2, <1>3, <1>4, <1>5, <1>6, <1>7, <1>8, <1>9, <1>10, <1>11 DEF StreamNext

LEMMA ReadersHold ==
    ASSUME StreamRight
    PROVE  Held
<1>1. Readers.reducer = reducer /\ Readers.web = web /\ Readers.terminal = terminal
  BY DEF Readers
<1>2. Shown \in ItemsSeen /\ Begun \in SUBSET Items
  BY ShownTyped DEF StreamRight, Begun
<1>3. CASE provider.ended = "no"
  <2>1. Synced(Readers, Shown, Begun, reducer.status) /\ reducer.status \in {"none", "in_progress"}
    BY <1>3 DEF StreamRight, ReadersRight
  <2>2. /\ reducer = [shells |-> Begun, items |-> Shown, status |-> reducer.status]
        /\ web = [order |-> web.order, items |-> Shown, status |-> "streaming"]
        /\ terminal = Quiet /\ Lists(web.order, Begun)
    <3>1. PICK r : r = Readers
      OBVIOUS
    <3>2. /\ r.reducer = [shells |-> Begun, items |-> Shown, status |-> reducer.status]
          /\ r.web = [order |-> r.web.order, items |-> Shown, status |-> "streaming"]
          /\ r.terminal = Quiet /\ Lists(r.web.order, Begun)
      BY <2>1, <3>1, SyncedParts, SMTT(30)
    <3>3. r.reducer = reducer /\ r.web = web /\ r.terminal = terminal
      BY <1>1, <3>1
    <3> QED BY <3>2, <3>3
  <2>3. reducer.shells = Begun /\ reducer.items = Shown
    BY <2>2
  <2>4. web.items = Shown /\ web.status = "streaming"
    BY <2>2
  <2>5. terminal.text = <<>> /\ terminal.status = "in_progress"
    BY <2>2 DEF Quiet
  <2> QED BY <1>2, <2>1, <2>2, <2>3, <2>4, <2>5 DEF Held
<1>4. CASE provider.ended # "no"
  <2>1. /\ FinishedIn(Items, ItemsSeen, Readers, Shown, Begun, reducer.status)
        /\ reducer.status \in {"none", "in_progress", "completed", "incomplete", "failed"}
    BY <1>4 DEF StreamRight, ReadersRight, Finished
  <2>2. PICK T \in SUBSET Items, G \in ItemsSeen, H \in ItemsSeen :
        /\ reducer = [shells |-> T, items |-> G, status |-> reducer.status]
        /\ web.items = H /\ Lists(web.order, T)
        /\ web.status \in {"streaming", "completed", "failed"}
        /\ \A i \in T : H[i] = G[i]
        /\ Begun \subseteq T
        /\ \A i \in Begun : G[i].text = Shown[i].text /\ G[i].annotations = Shown[i].annotations
        /\ reducer.status = "completed" => Rising(web.order)
        /\ terminal.text = <<>>
        /\ terminal.status \in {"in_progress", "completed", "incomplete", "failed"}
    BY <1>1, <2>1, SMTT(30) DEF FinishedIn
  <2>3. reducer.shells = T /\ reducer.items = G
    BY <2>2
  <2> QED BY <2>1, <2>2, <2>3 DEF Held
<1> QED BY <1>3, <1>4

LEMMA StreamTypesHold ==
    ASSUME StreamRight
    PROVE  StreamTypeOK
<1>1. PICK T \in SUBSET Items, G \in ItemsSeen, H \in ItemsSeen :
        /\ reducer.shells = T /\ reducer.items = G /\ web.items = H /\ Lists(web.order, T)
        /\ web.status \in {"streaming", "completed", "failed"}
        /\ reducer.status \in {"none", "in_progress", "completed", "incomplete", "failed"}
        /\ terminal.text = <<>>
        /\ terminal.status \in {"in_progress", "completed", "incomplete", "failed"}
  BY ReadersHold DEF Held
<1>2. \A i \in Items : reducer.items[i] \in ItemType /\ web.items[i] \in ItemType
  BY <1>1 DEF ItemsSeen
<1>3. projection.text \in MessageTexts /\ projection.kept \in MessageTexts
      /\ Len(projection.kept) <= MaxMarkerLength /\ projection.out = <<>>
  BY ProjectionFields DEF StreamRight, ProjectionRight
<1>4. \A i \in Items : /\ provider.sent[i] \in 0 .. Len(FullText(i))
                       /\ provider.stage[i] \in ItemStages
  BY ProviderFields DEF StreamRight
<1>5. provider.ended \in {"no", "completed", "incomplete", "failed"}
  BY DEF StreamRight, Provided
<1>6. Range(web.order) \subseteq Items
  BY <1>1, ListedMember
<1>7. <<>> \in Seq(Characterset)
  OBVIOUS
<1> QED BY <1>1, <1>2, <1>3, <1>4, <1>5, <1>6, <1>7 DEF StreamTypeOK, MessageTexts, ItemStages

LEMMA BrowserShowsTheResponse ==
    ASSUME StreamRight
    PROVE  BrowserConverges
<1>1. PICK T \in SUBSET Items, G \in ItemsSeen, H \in ItemsSeen :
        /\ reducer.shells = T /\ reducer.items = G /\ web.items = H /\ Lists(web.order, T)
        /\ \A i \in T : H[i] = G[i]
        /\ reducer.status = "completed" => Rising(web.order)
  BY ReadersHold DEF Held
<1>2. Range(web.order) = T
  BY <1>1, ListedMember
<1> QED BY <1>1, <1>2 DEF BrowserConverges, Rising

\* Whatever the provider sends and wherever it stops, every reader of the stream
\* holds items of their form, and no more than one marker's length is ever held back.

THEOREM StreamTypeCorrect == StreamSpec => []StreamTypeOK
<1>1. StreamInit => StreamRight
  BY StreamBegins
<1>2. StreamRight /\ [StreamNext]_streamVars => StreamRight'
  BY StreamKeeps
<1>3. StreamRight => StreamTypeOK
  BY StreamTypesHold
<1> QED BY <1>1, <1>2, <1>3, PTL DEF StreamSpec

\* The browser's second fold of the forwarded events ends where the server's
\* first one did: the same items, with the same content, in the order of their indexes.

THEOREM BrowserAgrees == StreamSpec => []BrowserConverges
<1>1. StreamInit => StreamRight
  BY StreamBegins
<1>2. StreamRight /\ [StreamNext]_streamVars => StreamRight'
  BY StreamKeeps
<1>3. StreamRight => BrowserConverges
  BY BrowserShowsTheResponse
<1> QED BY <1>1, <1>2, <1>3, PTL DEF StreamSpec

-----------------------------------------------------------------------------
(* What a reply reads like *)

LEMMA IsReading ==
    ASSUME NEW a \in MessageTexts, NEW b \in KnownLists, NEW c \in Seq(Annotations)
    PROVE  [text |-> a, known |-> b, annotations |-> c] \in Readings
BY DEF Readings

LEMMA ReadingFields ==
    ASSUME NEW r \in Readings
    PROVE  /\ r.text \in MessageTexts /\ r.known \in KnownLists /\ r.annotations \in Seq(Annotations)
           /\ Len(r.text) \in Nat /\ Len(r.annotations) \in Nat
           /\ r = [text |-> r.text, known |-> r.known, annotations |-> r.annotations]
<1>1. /\ r.text \in MessageTexts /\ r.known \in KnownLists /\ r.annotations \in Seq(Annotations)
      /\ r = [text |-> r.text, known |-> r.known, annotations |-> r.annotations]
  BY DEF Readings
<1>2. r.text \in Seq(Characterset)
  BY <1>1 DEF MessageTexts
<1> QED BY <1>1, <1>2

LEMMA JoinedTwice ==
    ASSUME NEW S, NEW a \in Seq(S), NEW b \in Seq(S), NEW c \in Seq(S)
    PROVE  (a \o b) \o c = a \o (b \o c)
<1>1. PICK x, y : x = a \o b /\ y = b \o c
  OBVIOUS
<1>2. PICK k, l, m : k = Len(a) /\ l = Len(b) /\ m = Len(c)
  OBVIOUS
<1>3. k \in Nat /\ l \in Nat /\ m \in Nat
  BY <1>2
<1>4. x \in Seq(S) /\ Len(x) = k + l
      /\ \A n \in 1 .. k + l : x[n] = IF n <= k THEN a[n] ELSE b[n - k]
  BY <1>1, <1>2, Joined
<1>5. y \in Seq(S) /\ Len(y) = l + m
      /\ \A n \in 1 .. l + m : y[n] = IF n <= l THEN b[n] ELSE c[n - l]
  BY <1>1, <1>2, Joined
<1>6. PICK v : v = x \o c
  OBVIOUS
<1>7. v \in Seq(S) /\ Len(v) = (k + l) + m
      /\ \A n \in 1 .. (k + l) + m : v[n] = IF n <= k + l THEN x[n] ELSE c[n - (k + l)]
  BY <1>2, <1>4, <1>6, Joined
<1>8. PICK w : w = a \o y
  OBVIOUS
<1>9. w \in Seq(S) /\ Len(w) = k + (l + m)
      /\ \A n \in 1 .. k + (l + m) : w[n] = IF n <= k THEN a[n] ELSE y[n - k]
  BY <1>2, <1>5, <1>8, Joined
<1>10. ASSUME NEW n \in 1 .. k + l + m PROVE v[n] = w[n]
  <2>1. n \in Nat /\ n >= 1
    BY <1>3
  <2>2. CASE n <= k
    BY <1>3, <1>4, <1>7, <1>9, <2>1, <2>2, SMTT(30)
  <2>3. CASE n > k /\ n <= k + l
    <3>1. n - k \in 1 .. l + m /\ n - k <= l /\ n \in 1 .. k + l /\ ~(n <= k)
      BY <1>3, <2>1, <2>3
    <3>2. v[n] = b[n - k]
      BY <1>3, <1>4, <1>7, <3>1, SMTT(30)
    <3>3. w[n] = b[n - k]
      BY <1>3, <1>5, <1>9, <3>1
    <3> QED BY <3>2, <3>3
  <2>4. CASE n > k + l
    <3>1. n - k \in 1 .. l + m /\ ~(n - k <= l) /\ ~(n <= k + l) /\ ~(n <= k) /\ (n - k) - l = n - (k + l)
      BY <1>3, <2>1, <2>4
    <3>2. v[n] = c[n - (k + l)]
      BY <1>3, <1>7, <3>1
    <3>3. w[n] = c[(n - k) - l]
      BY <1>3, <1>5, <1>9, <3>1
    <3> QED BY <3>1, <3>2, <3>3
  <2> QED BY <1>3, <2>1, <2>2, <2>3, <2>4
<1>11. v = w
  <2>1. PICK z : z = k + l + m /\ z \in Nat
    BY <1>3
  <2>2. Len(v) = z /\ Len(w) = z /\ \A n \in 1 .. z : v[n] = w[n]
    BY <1>3, <1>7, <1>9, <1>10, <2>1
  <2> QED BY <1>7, <1>9, <2>1, <2>2, SMTT(30)
<1> QED BY <1>1, <1>6, <1>8, <1>11

LEMMA BeginsWith ==
    ASSUME NEW S, NEW a \in Seq(S), NEW b \in Seq(S)
    PROVE  Begins(a, a \o b) /\ Begins(a, a)
<1>1. PICK x : x = a \o b
  OBVIOUS
<1>2. Len(x) = Len(a) + Len(b) /\ \A n \in 1 .. Len(a) + Len(b) : x[n] = IF n <= Len(a) THEN a[n] ELSE b[n - Len(a)]
  BY <1>1, Joined
<1>3. Len(a) \in Nat /\ Len(b) \in Nat
  OBVIOUS
<1> QED BY <1>1, <1>2, <1>3 DEF Begins

LEMMA BeginsFurther ==
    ASSUME NEW S, NEW a \in Seq(S), NEW b \in Seq(S), NEW c \in Seq(S), Begins(a, b), Begins(b, c)
    PROVE  Begins(a, c)
<1>1. Len(a) \in Nat /\ Len(b) \in Nat /\ Len(c) \in Nat
  OBVIOUS
<1> QED BY <1>1 DEF Begins

LEMMA PrefixOf ==
    ASSUME NEW S, NEW a \in Seq(S), NEW b \in Seq(S), Begins(a, b)
    PROVE  IsPrefix(a, b)
<1>1. Len(a) \in Nat /\ Len(b) \in Nat /\ Len(a) <= Len(b)
  BY DEF Begins
<1>2. PICK x, y, k : x = SubSeq(a, 1, k) /\ y = SubSeq(b, 1, k) /\ k = Len(a)
  OBVIOUS
<1>3. x \in Seq(S) /\ Len(x) = k /\ \A n \in 1 .. k : x[n] = a[n]
  BY <1>1, <1>2
<1>4. y \in Seq(S) /\ Len(y) = k /\ \A n \in 1 .. k : y[n] = b[n]
  BY <1>1, <1>2
<1>5. \A n \in 1 .. k : a[n] = b[n]
  BY <1>2 DEF Begins
<1>6. x = y
  BY <1>3, <1>4, <1>5, SMTT(30)
<1> QED BY <1>1, <1>2, <1>6 DEF IsPrefix

LEMMA GrownFurther ==
    ASSUME NEW a \in Readings, NEW b \in Readings, NEW c \in Readings
    PROVE  Grown(a, a) /\ (Grown(a, b) /\ Grown(b, c) => Grown(a, c))
<1>1. /\ a.text \in Seq(Characterset) /\ b.text \in Seq(Characterset) /\ c.text \in Seq(Characterset)
      /\ a.annotations \in Seq(Annotations) /\ b.annotations \in Seq(Annotations)
      /\ c.annotations \in Seq(Annotations)
  BY ReadingFields DEF MessageTexts
<1>2. Grown(a, a)
  BY <1>1, BeginsWith DEF Grown
<1>3. ASSUME Grown(a, b), Grown(b, c) PROVE Grown(a, c)
  <2>1. Begins(a.text, c.text)
    BY <1>1, <1>3, BeginsFurther DEF Grown
  <2>2. Begins(a.annotations, c.annotations)
    BY <1>1, <1>3, BeginsFurther DEF Grown
  <2> QED BY <2>1, <2>2 DEF Grown
<1> QED BY <1>2, <1>3

LEMMA LongerGrows ==
    ASSUME NEW old \in Readings, NEW piece \in MessageTexts, NEW r, Longer(r, old, piece)
    PROVE  Grown(old, r)
<1>1. old.text \in Seq(Characterset) /\ piece \in Seq(Characterset) /\ old.annotations \in Seq(Annotations)
  BY ReadingFields DEF MessageTexts
<1>2. Begins(old.text, old.text \o piece) /\ Begins(old.annotations, old.annotations)
  BY <1>1, BeginsWith
<1> QED BY <1>2 DEF Longer, Grown

(* What reading one chunk does.                                            *)
LEMMA ReadPlain ==
    ASSUME NEW r \in Readings, NEW chunk \in Prose
    PROVE  /\ Longer(ReadChunk(r, chunk), r, Characters(chunk))
           /\ ReadChunk(r, chunk) \in Readings
<1>1. chunk \notin References /\ chunk # Invented /\ chunk \in ReplyChunks
  BY ReferencesAssumption DEF ReplyChunks
<1>2. PICK a, b, c, t : a = r.text /\ b = r.known /\ c = r.annotations /\ t = Characters(chunk)
  OBVIOUS
<1>3. r = [text |-> a, known |-> b, annotations |-> c]
      /\ a \in MessageTexts /\ b \in KnownLists /\ c \in Seq(Annotations)
  BY <1>2, ReadingFields
<1>4. t \in MessageTexts
  BY <1>1, <1>2, CharactersTyped
<1>5. PICK x : x = a \o t
  OBVIOUS
<1>6. x \in MessageTexts
  BY <1>3, <1>4, <1>5 DEF MessageTexts
<1>7. ReadChunk(r, chunk) = [r EXCEPT !.text = @ \o t]
  BY <1>1, <1>2 DEF ReadChunk
<1>8. [r EXCEPT !.text = @ \o t] = [text |-> x, known |-> b, annotations |-> c]
  <2>1. [r EXCEPT !.text = @ \o t] = [r EXCEPT !.text = x]
    BY <1>2, <1>5
  <2>2. [r EXCEPT !.text = x] = [text |-> x, known |-> b, annotations |-> c]
    BY <1>3
  <2> QED BY <2>1, <2>2
<1>9. PICK z : z = [text |-> x, known |-> b, annotations |-> c]
  OBVIOUS
<1>10. z \in Readings /\ Longer(z, r, t)
  BY <1>2, <1>3, <1>5, <1>6, <1>9, IsReading DEF Longer
<1> QED BY <1>2, <1>7, <1>8, <1>9, <1>10

LEMMA ReadCited ==
    ASSUME NEW r \in Readings, NEW id \in References
    PROVE  /\ ReadChunk(r, id) =
                [text |-> r.text \o Numeral(NumberOf(AppendNew(r.known, id), id)),
                 known |-> AppendNew(r.known, id),
                 annotations |-> Append(r.annotations, CitedAnnotation(r, id))]
           /\ ReadChunk(r, id) \in Readings /\ Grown(r, ReadChunk(r, id))
<1>1. PICK known, number, a :
        known = AppendNew(r.known, id) /\ number = Numeral(NumberOf(known, id))
        /\ a = CitedAnnotation(r, id)
  OBVIOUS
<1>2. ReadChunk(r, id) = [text |-> r.text \o number, known |-> known,
                          annotations |-> Append(r.annotations, a)]
  <2>1. id \in References /\ id # Invented
    BY ReferencesAssumption
  <2>2. a = [cites |-> id, number |-> number, start |-> Len(r.text), end |-> Len(r.text) + Len(number)]
    BY <1>1 DEF CitedAnnotation
  <2>3. ReadChunk(r, id) =
          [text |-> r.text \o number, known |-> known,
           annotations |-> Append(r.annotations,
              [cites |-> id, number |-> number,
               start |-> Len(r.text), end |-> Len(r.text) + Len(number)])]
    BY <1>1, <2>1, Zenon DEF ReadChunk
  <2> QED BY <2>2, <2>3
<1>3. r.text \in MessageTexts /\ r.known \in KnownLists /\ r.annotations \in Seq(Annotations)
      /\ Len(r.text) \in Nat
  BY ReadingFields
<1>4. known \in KnownLists /\ number \in MessageTexts /\ Len(number) = 1
  BY <1>1, <1>3, NumberKnown
<1>5. a \in Annotations
  <2>1. a = [cites |-> id, number |-> number, start |-> Len(r.text), end |-> Len(r.text) + Len(number)]
    BY <1>1 DEF CitedAnnotation
  <2> QED BY <1>3, <1>4, <2>1 DEF Annotations
<1>6. PICK x, y : x = r.text \o number /\ y = Append(r.annotations, a)
  OBVIOUS
<1>7. x \in MessageTexts /\ Begins(r.text, x)
  BY <1>3, <1>4, <1>6, BeginsWith, Joined DEF MessageTexts
<1>8. y \in Seq(Annotations) /\ Begins(r.annotations, y)
  BY <1>3, <1>5, <1>6 DEF Begins
<1>9. PICK z : z = [text |-> x, known |-> known, annotations |-> y]
  OBVIOUS
<1>10. z \in Readings
  BY <1>4, <1>7, <1>8, <1>9, IsReading
<1>11. Grown(r, z)
  BY <1>7, <1>8, <1>9 DEF Grown
<1> QED BY <1>1, <1>2, <1>6, <1>9, <1>10, <1>11

LEMMA ReadMarker ==
    ASSUME NEW r \in Readings, NEW id \in References \cup {Invented}
    PROVE  ReadChunk(r, id) \in Readings /\ Grown(r, ReadChunk(r, id))
<1>1. CASE id \in References
  BY <1>1, ReadCited
<1>2. CASE id = Invented
  <2>1. id \notin References
    BY <1>2, ReferencesAssumption
  <2>2. ReadChunk(r, id) = r
    BY <1>2, <2>1 DEF ReadChunk
  <2> QED BY <2>2, GrownFurther
<1> QED BY <1>1, <1>2

LEMMA DifferentLetters ==
    /\ \A id \in References \cup {Invented} : id \notin {"a", "[", "]", "cite:"}
    /\ \A id \in References \cup {Invented} : id \in Characterset
    /\ {"a", "[", "]", "cite:"} \subseteq Characterset
BY ReferencesAssumption DEF Letters, Characterset

LEMMA ParsedFields ==
    ASSUME NEW t, NEW M, NEW read, Parsed(t, M, read)
    PROVE  /\ t \in Seq(Characterset) /\ Len(t) \in Nat /\ M \in SUBSET (1 .. Len(t))
           /\ \A q \in 0 .. Len(t) : read[q] \in Readings
           /\ \A q \in 1 .. Len(t) : <<t[q]>> \in MessageTexts
<1>1. t \in Seq(Characterset) /\ Len(t) \in Nat
  BY DEF Parsed, MessageTexts
<1>2. \A q \in 1 .. Len(t) : t[q] \in Characterset
  BY <1>1
<1>3. \A c \in Characterset : <<c>> \in MessageTexts
  BY DEF MessageTexts
<1> QED BY <1>1, <1>2, <1>3 DEF Parsed

(* Citations and cells do not overlap.                                     *)
LEMMA MarkersApart ==
    ASSUME NEW t, NEW M, NEW read, Parsed(t, M, read), NEW s \in M, NEW i \in Nat
    PROVE  /\ i \in M => ~(i < s /\ s <= i + 5)
           /\ CellAt(t, i) => ~(i <= s /\ s <= i + 4)
<1>1. M \in SUBSET Nat /\ s \in Nat /\ s >= 1
  BY ParsedFields
<1>2. MarkerAt(t, s)
  BY DEF Parsed
<1>3. ASSUME i \in M, i < s, s <= i + 5 PROVE FALSE
  <2>1. MarkerAt(t, i)
    BY <1>3 DEF Parsed
  <2>2. s = i + 1 \/ s = i + 2 \/ s = i + 3 \/ s = i + 4 \/ s = i + 5
    BY <1>1, <1>3
  <2>3. s # i + 1
    <3>1. (i + 1) + 1 = i + 2
      OBVIOUS
    <3> QED BY <1>2, <2>1, <3>1 DEF MarkerAt
  <2>4. t[s] = "["
    BY <1>2 DEF MarkerAt
  <2>5. t[i + 2] # "[" /\ t[i + 3] # "[" /\ t[i + 4] # "[" /\ t[i + 5] # "["
    BY <2>1, DifferentLetters DEF MarkerAt
  <2> QED BY <2>2, <2>3, <2>4, <2>5
<1>4. ASSUME CellAt(t, i), i <= s, s <= i + 4 PROVE FALSE
  <2>1. s = i \/ s = i + 1 \/ s = i + 2 \/ s = i + 3 \/ s = i + 4
    BY <1>1, <1>4
  <2>2. s # i
    BY <1>2, <1>4 DEF MarkerAt, CellAt
  <2>3. s # i + 1
    <3>1. (i + 1) + 1 = i + 2
      OBVIOUS
    <3> QED BY <1>2, <1>4, <3>1 DEF MarkerAt, CellAt
  <2>4. t[s] = "["
    BY <1>2 DEF MarkerAt
  <2> QED BY <1>4, <2>1, <2>2, <2>3, <2>4 DEF CellAt
<1> QED BY <1>3, <1>4

LEMMA OneLetter ==
    ASSUME NEW S, NEW t \in Seq(S), NEW v \in 1 .. Len(t)
    PROVE  SubSeq(t, v, v) = <<t[v]>>
<1>1. PICK x, y, c : x = SubSeq(t, v, v) /\ c = t[v] /\ y = <<c>>
  OBVIOUS
<1>2. x \in Seq(S) /\ Len(x) = 1 /\ x[1] = c
  BY <1>1
<1>3. c \in S
  BY <1>1
<1>4. y \in Seq(S) /\ Len(y) = 1 /\ y[1] = c
  BY <1>1, <1>3
<1>5. \A n \in 1 .. 1 : x[n] = y[n]
  BY <1>2, <1>4
<1>6. x = y
  BY <1>2, <1>4, <1>5
<1> QED BY <1>1, <1>6

(* Where no citation begins, the text itself is read.                      *)
LEMMA PassageRead ==
    ASSUME NEW t, NEW M, NEW read, Parsed(t, M, read), NEW p \in 0 .. Len(t), NEW e \in p .. Len(t),
           \A q \in p + 1 .. e : ~Inside(M, q)
    PROVE  Longer(read[e], read[p], SubSeq(t, p + 1, e))
<1> DEFINE T == {n \in Nat : p + n <= e => Longer(read[p + n], read[p], SubSeq(t, p + 1, p + n))}
<1>1. /\ t \in Seq(Characterset) /\ Len(t) \in Nat /\ p \in Nat /\ e \in Nat /\ e <= Len(t) /\ p <= e
      /\ \A q \in 0 .. Len(t) : read[q] \in Readings
  BY ParsedFields
<1>2. 0 \in T
  <2>1. p + 0 = p /\ read[p] \in Readings
    BY <1>1
  <2>2. PICK b : b = SubSeq(t, p + 1, p)
    OBVIOUS
  <2>3. b \in Seq(Characterset) /\ Len(b) = 0
    BY <1>1, <2>2
  <2>4. PICK a : a = read[p].text
    OBVIOUS
  <2>5. a \in Seq(Characterset)
    BY <2>1, <2>4, ReadingFields DEF MessageTexts
  <2>6. PICK x : x = a \o b
    OBVIOUS
  <2>7. x \in Seq(Characterset) /\ Len(x) = Len(a) /\ \A n \in 1 .. Len(a) : x[n] = a[n]
    <3>1. Len(a) \in Nat
      BY <2>5
    <3>2. /\ a \o b \in Seq(Characterset) /\ Len(a \o b) = Len(a) + Len(b)
          /\ \A n \in 1 .. Len(a) + Len(b) : (a \o b)[n] = IF n <= Len(a) THEN a[n] ELSE b[n - Len(a)]
      BY <2>3, <2>5, Joined
    <3> QED BY <2>3, <2>6, <3>1, <3>2
  <2>8. x = a
    BY <2>5, <2>7
  <2>9. Longer(read[p], read[p], b)
    BY <2>4, <2>6, <2>8 DEF Longer
  <2> QED BY <2>1, <2>2, <2>9
<1>3. ASSUME NEW n \in T PROVE n + 1 \in T
  <2> SUFFICES ASSUME p + (n + 1) <= e PROVE Longer(read[p + (n + 1)], read[p], SubSeq(t, p + 1, p + (n + 1)))
    OBVIOUS
  <2>1. n \in Nat /\ Longer(read[p + n], read[p], SubSeq(t, p + 1, p + n))
    BY <1>1
  <2> HIDE DEF T
  <2>2. PICK u, v, m : u = p + n /\ v = u + 1 /\ m = p + 1
    OBVIOUS
  <2>3. u \in Nat /\ v = p + (n + 1) /\ v - 1 = u /\ v \in p + 1 .. e /\ v \in 1 .. Len(t)
        /\ m \in 1 .. Len(t) + 1 /\ u \in m - 1 .. Len(t) /\ v \in u .. Len(t) /\ u + 1 = v
    BY <1>1, <2>1, <2>2
  <2>4. Longer(read[v], read[v - 1], <<t[v]>>)
    BY <2>3 DEF Parsed
  <2>5. /\ SubSeq(t, m, v) = SubSeq(t, m, u) \o SubSeq(t, u + 1, v)
        /\ SubSeq(t, m, u) \in Seq(Characterset) /\ SubSeq(t, u + 1, v) \in Seq(Characterset)
    BY <1>1, <2>3, PiecesJoin, ZenonT(30)
  <2>6. SubSeq(t, u + 1, v) = <<t[v]>>
    <3>1. SubSeq(t, v, v) = <<t[v]>>
      BY <1>1, <2>3, OneLetter
    <3> QED BY <2>3, <3>1
  <2>7. PICK a, b, c : a = read[p].text /\ b = SubSeq(t, m, u) /\ c = <<t[v]>>
    OBVIOUS
  <2>8. a \in Seq(Characterset) /\ b \in Seq(Characterset) /\ c \in Seq(Characterset)
    <3>1. read[p] \in Readings
      BY <1>1
    <3> QED BY <2>5, <2>6, <2>7, <3>1, ReadingFields DEF MessageTexts
  <2>9. (a \o b) \o c = a \o (b \o c)
    <3>1. PICK S : S = Characterset
      OBVIOUS
    <3>2. a \in Seq(S) /\ b \in Seq(S) /\ c \in Seq(S)
      BY <2>8, <3>1
    <3>3. \A x, y, z \in Seq(S) : (x \o y) \o z = x \o (y \o z)
      BY JoinedTwice, SMTT(30)
    <3> QED BY <3>2, <3>3, Zenon
  <2>10. read[u].text = a \o b /\ read[v].text = read[u].text \o c
    BY <2>1, <2>2, <2>3, <2>4, <2>7 DEF Longer
  <2>11. SubSeq(t, m, v) = b \o c
    BY <2>5, <2>6, <2>7
  <2>12. read[v].text = a \o SubSeq(t, m, v)
    BY <2>9, <2>10, <2>11
  <2>13. read[v].known = read[p].known /\ read[v].annotations = read[p].annotations
    BY <2>1, <2>2, <2>3, <2>4 DEF Longer
  <2>14. Longer(read[v], read[p], SubSeq(t, m, v))
    BY <2>7, <2>12, <2>13 DEF Longer
  <2> QED BY <2>2, <2>3, <2>14
<1>4. T = Nat
  <2>1. T \in SUBSET Nat
    OBVIOUS
  <2> HIDE DEF T
  <2> QED BY <1>2, <1>3, <2>1, AllNumbers
<1>5. e - p \in T /\ p + (e - p) = e
  <2> HIDE DEF T
  <2> QED BY <1>1, <1>4
<1> QED BY <1>5

(* The more is read, the longer the reading.                               *)
LEMMA ReadingGrows ==
    ASSUME NEW t, NEW M, NEW read, Parsed(t, M, read), NEW p \in 0 .. Len(t), NEW e \in p .. Len(t)
    PROVE  Grown(read[p], read[e])
<1> DEFINE T == {n \in Nat : p + n <= e => Grown(read[p], read[p + n])}
<1>1. /\ Len(t) \in Nat /\ p \in Nat /\ e \in Nat /\ e <= Len(t) /\ p <= e /\ M \in SUBSET (1 .. Len(t))
      /\ \A q \in 0 .. Len(t) : read[q] \in Readings
  BY ParsedFields
<1>2. 0 \in T
  <2>1. p + 0 = p /\ read[p] \in Readings
    BY <1>1
  <2>2. Grown(read[p], read[p])
    BY <2>1, GrownFurther
  <2> QED BY <2>1, <2>2
<1>3. ASSUME NEW v \in 1 .. Len(t) PROVE Grown(read[v - 1], read[v])
  <2>1. read[v - 1] \in Readings /\ read[v] \in Readings
    BY <1>1
  <2>2. CASE ~Inside(M, v)
    <3>1. Longer(read[v], read[v - 1], <<t[v]>>) /\ <<t[v]>> \in MessageTexts
      BY <2>2, ParsedFields DEF Parsed
    <3> QED BY <2>1, <3>1, LongerGrows
  <2>3. CASE Inside(M, v)
    <3>1. PICK s \in M : s <= v /\ v <= s + 5
      BY <2>3 DEF Inside
    <3>2. s \in Nat /\ s >= 1
      BY <1>1
    <3>3. /\ MarkerAt(t, s) /\ (\A q \in s .. s + 4 : read[q] = read[s - 1])
          /\ read[s + 5] = ReadChunk(read[s - 1], t[s + 3])
      BY DEF Parsed
    <3>4. read[v - 1] = read[s - 1]
      <4>1. v - 1 = s - 1 \/ v - 1 \in s .. s + 4
        BY <1>1, <3>1, <3>2
      <4> QED BY <3>3, <4>1
    <3>5. CASE v = s + 5
      <4>1. t[s + 3] \in References \cup {Invented}
        BY <3>3 DEF MarkerAt
      <4> QED BY <2>1, <3>3, <3>4, <3>5, <4>1, ReadMarker
    <3>6. CASE v # s + 5
      <4>1. v \in s .. s + 4
        BY <1>1, <3>1, <3>2, <3>6
      <4>2. read[v] = read[v - 1]
        BY <3>3, <3>4, <4>1
      <4> QED BY <2>1, <4>2, GrownFurther
    <3> QED BY <3>5, <3>6
  <2> QED BY <2>2, <2>3
<1>4. ASSUME NEW n \in T PROVE n + 1 \in T
  <2> SUFFICES ASSUME p + (n + 1) <= e PROVE Grown(read[p], read[p + (n + 1)])
    OBVIOUS
  <2>1. n \in Nat /\ Grown(read[p], read[p + n])
    BY <1>1
  <2> HIDE DEF T
  <2>2. PICK v : v = p + (n + 1)
    OBVIOUS
  <2>3. v \in 1 .. Len(t) /\ v - 1 = p + n /\ p \in 0 .. Len(t) /\ v - 1 \in 0 .. Len(t) /\ v \in 0 .. Len(t)
    BY <1>1, <2>1, <2>2
  <2>4. Grown(read[v - 1], read[v])
    BY <1>3, <2>3
  <2>5. read[p] \in Readings /\ read[v - 1] \in Readings /\ read[v] \in Readings
    BY <1>1, <2>3
  <2>6. Grown(read[p], read[v])
    BY <2>1, <2>3, <2>4, <2>5, GrownFurther
  <2> QED BY <2>2, <2>6
<1>5. T = Nat
  <2>1. T \in SUBSET Nat
    OBVIOUS
  <2> HIDE DEF T
  <2> QED BY <1>2, <1>4, <2>1, AllNumbers
<1>6. e - p \in T /\ p + (e - p) = e
  <2> HIDE DEF T
  <2> QED BY <1>1, <1>5
<1> QED BY <1>6

LEMMA Extended ==
    ASSUME NEW t \in MessageTexts, NEW piece \in MessageTexts, NEW more, more = t \o piece
    PROVE  Extends(more, t, piece)
<1>1. t \in Seq(Characterset) /\ piece \in Seq(Characterset) /\ Len(t) \in Nat /\ Len(piece) \in Nat
  BY DEF MessageTexts
<1>2. /\ t \o piece \in Seq(Characterset) /\ Len(t \o piece) = Len(t) + Len(piece)
      /\ \A n \in 1 .. Len(t) + Len(piece) :
           (t \o piece)[n] = IF n <= Len(t) THEN t[n] ELSE piece[n - Len(t)]
  BY <1>1, Joined
<1>3. \A n \in 1 .. Len(t) + Len(piece) : more[n] = IF n <= Len(t) THEN t[n] ELSE piece[n - Len(t)]
  BY <1>2
<1>4. \A q \in 1 .. Len(t) : more[q] = t[q]
  BY <1>1, <1>3
<1>5. ASSUME NEW n \in 1 .. Len(piece) PROVE more[Len(t) + n] = piece[n]
  <2>1. PICK m : m = Len(t) + n
    OBVIOUS
  <2>2. m \in 1 .. Len(t) + Len(piece) /\ ~(m <= Len(t)) /\ m - Len(t) = n
    BY <1>1, <2>1
  <2> QED BY <1>3, <2>1, <2>2
<1> QED BY <1>1, <1>2, <1>4, <1>5 DEF MessageTexts, Extends

(* What stays true of the beginning of a text that is extended.            *)
LEMMA StillThere ==
    ASSUME NEW t \in MessageTexts, NEW piece \in MessageTexts, NEW more, more = t \o piece,
           NEW i \in 1 .. Len(t)
    PROVE  /\ MarkerAt(t, i) => MarkerAt(more, i)
           /\ CellAt(t, i) => CellAt(more, i)
<1>1. /\ Len(more) = Len(t) + Len(piece) /\ Len(t) \in Nat /\ Len(piece) \in Nat
      /\ \A q \in 1 .. Len(t) : more[q] = t[q]
  BY Extended DEF Extends
<1>2. i + 4 <= Len(t) => /\ more[i] = t[i] /\ more[i + 1] = t[i + 1] /\ more[i + 2] = t[i + 2]
                         /\ more[i + 3] = t[i + 3] /\ more[i + 4] = t[i + 4] /\ i + 4 <= Len(more)
  BY <1>1
<1>3. i + 5 <= Len(t) => more[i + 5] = t[i + 5] /\ i + 5 <= Len(more) /\ i + 4 <= Len(t)
  BY <1>1
<1> QED BY <1>2, <1>3 DEF MarkerAt, CellAt

(* A piece of prose: what it adds is text.                                 *)
LEMMA ProseParsed ==
    ASSUME NEW t, NEW M, NEW read, Parsed(t, M, read), NEW piece \in MessageTexts,
           NEW more, more = t \o piece, NEW r \in Readings, Longer(r, read[Len(t)], piece),
           \A i \in 1 .. Len(more) - 1 : i >= Len(t) /\ Opening(more, i) => CellAt(more, i)
    PROVE  ParsedUpTo(more, r, M)
<1>1. /\ t \in MessageTexts /\ Len(t) \in Nat /\ M \in SUBSET (1 .. Len(t))
      /\ read \in [0 .. Len(t) -> Readings] /\ \A q \in 0 .. Len(t) : read[q] \in Readings
  BY ParsedFields DEF Parsed
<1>2. /\ more \in MessageTexts /\ Len(more) = Len(t) + Len(piece) /\ Len(piece) \in Nat
      /\ \A q \in 1 .. Len(t) : more[q] = t[q]
      /\ \A n \in 1 .. Len(piece) : more[Len(t) + n] = piece[n]
  <2>1. t \in MessageTexts
    BY <1>1
  <2>2. more = t \o piece /\ piece \in MessageTexts
    OBVIOUS
  <2>3. Extends(more, t, piece)
    BY <2>1, <2>2, Extended
  <2> QED BY <2>3 DEF Extends
<1>3. PICK k, l, old : k = Len(t) /\ l = Len(piece) /\ old = read[Len(t)]
  OBVIOUS
<1>4. k \in Nat /\ l \in Nat /\ Len(more) = k + l /\ old \in Readings /\ old = read[k]
  BY <1>1, <1>2, <1>3
<1> DEFINE Part(n) == [text |-> old.text \o SubSeq(piece, 1, n), known |-> old.known,
                       annotations |-> old.annotations]
           next == [q \in 0 .. k + l |-> IF q <= k THEN read[q] ELSE Part(q - k)]
<1>5. ASSUME NEW n \in 0 .. l PROVE Part(n) \in Readings /\ Longer(Part(n), old, SubSeq(piece, 1, n))
  <2>1. PICK b, x : b = SubSeq(piece, 1, n) /\ x = old.text \o b
    OBVIOUS
  <2>2. b \in Seq(Characterset)
    BY <1>3, <1>4, <2>1 DEF MessageTexts
  <2>3. /\ old.text \in Seq(Characterset) /\ old.known \in KnownLists /\ old.annotations \in Seq(Annotations)
    BY <1>4, ReadingFields DEF MessageTexts
  <2>4. x \in MessageTexts
    BY <2>1, <2>2, <2>3 DEF MessageTexts
  <2>5. PICK z : z = [text |-> x, known |-> old.known, annotations |-> old.annotations]
    OBVIOUS
  <2>6. z \in Readings /\ Longer(z, old, b)
    BY <2>1, <2>3, <2>4, <2>5, IsReading DEF Longer
  <2> QED BY <2>1, <2>5, <2>6
<1>6. Part(0) = old /\ Part(l) = r
  <2>1. r = [text |-> r.text, known |-> r.known, annotations |-> r.annotations]
    BY ReadingFields
  <2>2. SubSeq(piece, 1, l) = piece
    <3>1. PICK x : x = SubSeq(piece, 1, l)
      OBVIOUS
    <3>2. piece \in Seq(Characterset) /\ x \in Seq(Characterset) /\ Len(x) = l /\ Len(piece) = l
          /\ \A n \in 1 .. l : x[n] = piece[n]
      BY <1>3, <1>4, <3>1 DEF MessageTexts
    <3>3. x = piece
      BY <1>4, <3>2
    <3> QED BY <3>1, <3>3
  <2>3. Part(l) = r
    BY <1>3, <2>1, <2>2 DEF Longer
  <2>4. old.text \o SubSeq(piece, 1, 0) = old.text
    <3>1. PICK a, b, x : a = old.text /\ b = SubSeq(piece, 1, 0) /\ x = a \o b
      OBVIOUS
    <3>2. a \in Seq(Characterset) /\ Len(a) \in Nat
      BY <1>4, <3>1, ReadingFields DEF MessageTexts
    <3>3. b \in Seq(Characterset) /\ Len(b) = 0
      BY <3>1 DEF MessageTexts
    <3>4. /\ a \o b \in Seq(Characterset) /\ Len(a \o b) = Len(a) + Len(b)
          /\ \A n \in 1 .. Len(a) + Len(b) : (a \o b)[n] = IF n <= Len(a) THEN a[n] ELSE b[n - Len(a)]
      BY <3>2, <3>3, Joined
    <3>5. x \in Seq(Characterset) /\ Len(x) = Len(a) /\ \A n \in 1 .. Len(a) : x[n] = a[n]
      BY <3>1, <3>2, <3>3, <3>4
    <3>6. x = a
      BY <3>2, <3>5
    <3> QED BY <3>1, <3>6
  <2>5. old = [text |-> old.text, known |-> old.known, annotations |-> old.annotations]
    BY <1>4, ReadingFields
  <2> QED BY <2>3, <2>4, <2>5
<1>7. ASSUME NEW n \in 1 .. l PROVE Longer(Part(n), Part(n - 1), <<piece[n]>>)
  <2>1. PICK a, b, c : a = old.text /\ b = SubSeq(piece, 1, n - 1) /\ c = <<piece[n]>>
    OBVIOUS
  <2>2. PICK m, u : m = 1 /\ u = n - 1
    OBVIOUS
  <2>3. m \in 1 .. Len(piece) + 1 /\ u \in m - 1 .. Len(piece) /\ n \in u .. Len(piece) /\ u + 1 = n
        /\ piece \in Seq(Characterset) /\ n \in 1 .. Len(piece)
    BY <1>3, <1>4, <2>2 DEF MessageTexts
  <2>4. /\ SubSeq(piece, m, n) = SubSeq(piece, m, u) \o SubSeq(piece, u + 1, n)
        /\ SubSeq(piece, m, u) \in Seq(Characterset) /\ SubSeq(piece, u + 1, n) \in Seq(Characterset)
    BY <2>3, PiecesJoin
  <2>5. SubSeq(piece, n, n) = <<piece[n]>>
    BY <2>3, OneLetter
  <2>6. SubSeq(piece, 1, n) = b \o c /\ b \in Seq(Characterset) /\ c \in Seq(Characterset)
    BY <2>1, <2>2, <2>3, <2>4, <2>5
  <2>7. a \in Seq(Characterset)
    BY <1>4, <2>1, ReadingFields DEF MessageTexts
  <2>8. (a \o b) \o c = a \o (b \o c)
    <3>1. PICK S : S = Characterset
      OBVIOUS
    <3>2. a \in Seq(S) /\ b \in Seq(S) /\ c \in Seq(S)
      BY <2>6, <2>7, <3>1
    <3> QED BY <3>2, JoinedTwice, SMTT(30)
  <2> QED BY <2>1, <2>6, <2>8 DEF Longer
<1> HIDE DEF Part
<1>8. /\ next = [q \in 0 .. k + l |-> next[q]] /\ \A q \in 0 .. k : next[q] = read[q]
      /\ \A n \in 0 .. l : next[k + n] = Part(n)
  <2>1. next = [q \in 0 .. k + l |-> next[q]] /\ \A q \in 0 .. k : next[q] = read[q]
    BY <1>4
  <2>2. ASSUME NEW n \in 0 .. l PROVE next[k + n] = Part(n)
    <3>1. n \in Nat /\ n <= l /\ k + n \in 0 .. k + l
      BY <1>4
    <3>2. CASE n = 0
      <4>1. k + n = k /\ next[k] = read[k]
        BY <1>4, <2>1, <3>2
      <4> HIDE DEF next
      <4> QED BY <1>4, <1>6, <3>2, <4>1
    <3>3. CASE n # 0
      <4>1. ~(k + n <= k) /\ (k + n) - k = n
        BY <1>4, <3>1, <3>3
      <4> QED BY <3>1, <4>1
    <3> QED BY <3>2, <3>3
  <2> QED BY <2>1, <2>2
<1> HIDE DEF next
<1>9. \A q \in 1 .. k + l : q <= k \/ \E n \in 1 .. l : q = k + n /\ q - 1 = k + (n - 1) /\ n - 1 \in 0 .. l
  <2> SUFFICES ASSUME NEW q \in 1 .. k + l, ~(q <= k)
               PROVE \E n \in 1 .. l : q = k + n /\ q - 1 = k + (n - 1) /\ n - 1 \in 0 .. l
    OBVIOUS
  <2>1. q - k \in 1 .. l /\ q = k + (q - k) /\ q - 1 = k + ((q - k) - 1) /\ (q - k) - 1 \in 0 .. l
    BY <1>4
  <2> QED BY <2>1
<1>10. \A q \in 0 .. k + l : next[q] \in Readings
  <2> SUFFICES ASSUME NEW q \in 0 .. k + l PROVE next[q] \in Readings
    OBVIOUS
  <2>1. CASE q <= k
    <3>1. q \in 0 .. k /\ q \in 0 .. Len(t)
      BY <1>3, <1>4, <2>1
    <3> QED BY <1>1, <1>8, <3>1
  <2>2. CASE ~(q <= k)
    <3>1. q \in 1 .. k + l
      BY <1>4, <2>2
    <3>2. PICK n \in 1 .. l : q = k + n
      BY <1>9, <2>2, <3>1
    <3>3. n \in 0 .. l
      OBVIOUS
    <3>4. next[k + n] = Part(n)
      BY <1>8, <3>3
    <3>5. Part(n) \in Readings
      BY <1>5, <3>3
    <3> QED BY <3>2, <3>4, <3>5
  <2> QED BY <2>1, <2>2
<1>11. Parsed(more, M, next)
  <2>1. M \in SUBSET (1 .. Len(more))
    BY <1>1, <1>2, <1>4
  <2>2. next \in [0 .. Len(more) -> Readings] /\ next[0] = Unread
    <3>1. next[0] = read[0]
      BY <1>4, <1>8
    <3>2. read[0] = Unread
      BY DEF Parsed
    <3> QED BY <1>4, <1>8, <1>10, <3>1, <3>2
  <2>3. ASSUME NEW s \in M
        PROVE  /\ MarkerAt(more, s) /\ (\A q \in s .. s + 4 : next[q] = next[s - 1])
               /\ next[s + 5] = ReadChunk(next[s - 1], more[s + 3])
    <3>1. /\ MarkerAt(t, s) /\ (\A q \in s .. s + 4 : read[q] = read[s - 1])
          /\ read[s + 5] = ReadChunk(read[s - 1], t[s + 3])
      BY DEF Parsed
    <3>2. s \in 1 .. Len(t) /\ s + 5 <= k /\ s \in Nat
      BY <1>1, <1>3, <3>1 DEF MarkerAt
    <3>3. MarkerAt(more, s)
      BY <1>1, <3>1, <3>2, StillThere
    <3>4. next[s - 1] = read[s - 1] /\ next[s + 5] = read[s + 5] /\ \A q \in s .. s + 4 : next[q] = read[q]
      <4>1. s - 1 \in 0 .. k /\ s + 5 \in 0 .. k /\ \A q \in s .. s + 4 : q \in 0 .. k
        BY <1>4, <3>2
      <4>2. \A q \in 0 .. k : next[q] = read[q]
        BY <1>8
      <4> QED BY <4>1, <4>2
    <3>5. more[s + 3] = t[s + 3]
      BY <1>2, <1>3, <1>4, <3>2
    <3> QED BY <3>1, <3>3, <3>4, <3>5
  <2>4. ASSUME NEW q \in 1 .. Len(more), ~Inside(M, q) PROVE Longer(next[q], next[q - 1], <<more[q]>>)
    <3>1. q \in 1 .. k + l
      BY <1>4
    <3>2. CASE q <= k
      <4>1. q \in 1 .. Len(t) /\ next[q] = read[q] /\ next[q - 1] = read[q - 1] /\ more[q] = t[q]
        <5>1. q \in 1 .. Len(t) /\ q \in 0 .. k /\ q - 1 \in 0 .. k
          BY <1>3, <1>4, <3>1, <3>2
        <5>2. \A m \in 0 .. k : next[m] = read[m]
          BY <1>8
        <5> QED BY <1>2, <5>1, <5>2
      <4> QED BY <2>4, <4>1 DEF Parsed
    <3>3. CASE ~(q <= k)
      <4>1. PICK n \in 1 .. l : q = k + n /\ q - 1 = k + (n - 1) /\ n - 1 \in 0 .. l
        BY <1>9, <3>1, <3>3
      <4>2. next[q] = Part(n) /\ next[q - 1] = Part(n - 1)
        <5>1. n \in 0 .. l
          OBVIOUS
        <5> QED BY <1>8, <4>1, <5>1
      <4>3. more[q] = piece[n]
        BY <1>2, <1>3, <4>1
      <4> QED BY <1>7, <4>2, <4>3
    <3> QED BY <3>2, <3>3
  <2>5. ASSUME NEW i \in 1 .. Len(more) - 1, Opening(more, i) PROVE i \in M \/ CellAt(more, i)
    <3>1. CASE i >= Len(t)
      BY <2>5, <3>1
    <3>2. CASE ~(i >= Len(t))
      <4>1. i \in 1 .. Len(t) - 1 /\ i \in 1 .. Len(t) /\ i + 1 \in 1 .. Len(t)
        BY <1>3, <1>4, <3>2
      <4>2. Opening(t, i)
        BY <1>2, <2>5, <4>1 DEF Opening
      <4>3. i \in M \/ CellAt(t, i)
        BY <4>1, <4>2 DEF Parsed
      <4> QED BY <1>1, <4>1, <4>3, StillThere
    <3> QED BY <3>1, <3>2
  <2> QED BY <1>2, <2>1, <2>2, <2>3, <2>4, <2>5 DEF Parsed
<1>12. next[Len(more)] = r
  <2>1. k + l = Len(more) /\ l \in 0 .. l
    BY <1>4
  <2> QED BY <1>6, <1>8, <2>1
<1> QED BY <1>11, <1>12 DEF ParsedUpTo

LEMMA MarkerLetters ==
    ASSUME NEW id \in References \cup {Invented}
    PROVE  LET m == Marker(id)
           IN  /\ m \in MessageTexts /\ Len(m) = 6 /\ Characters(id) = m
               /\ m[1] = "[" /\ m[2] = "[" /\ m[3] = "cite:" /\ m[4] = id /\ m[5] = "]" /\ m[6] = "]"
               /\ m = <<"[", "[", "cite:", id, "]", "]">>
<1>1. id \in ReplyChunks /\ id \notin Prose
  BY ReferencesAssumption DEF ReplyChunks
<1>2. Characters(id) = Marker(id)
  BY <1>1 DEF Characters, Prose
<1>3. Marker(id) \in MessageTexts
  BY <1>1, <1>2, CharactersTyped
<1>4. Marker(id) = <<"[", "[", "cite:", id, "]", "]">>
  <2>1. Marker(id) = <<"[", "[", "cite:">> \o <<id, "]", "]">>
    BY DEF Marker, Prefix
  <2>2. PICK c, d : c = "[" /\ d = "]"
    OBVIOUS
  <2>3. PICK e : e = "cite:"
    OBVIOUS
  <2>4. <<c, c, e>> \o <<id, d, d>> = <<c, c, e, id, d, d>>
    <3>1. PICK S : S = {c, d, e, id}
      OBVIOUS
    <3>2. PICK a, b, x, z : a = <<c, c, e>> /\ b = <<id, d, d>> /\ x = a \o b
                            /\ z = <<c, c, e, id, d, d>>
      OBVIOUS
    <3>3. a \in Seq(S) /\ Len(a) = 3 /\ a[1] = c /\ a[2] = c /\ a[3] = e
      BY <3>1, <3>2
    <3>4. b \in Seq(S) /\ Len(b) = 3 /\ b[1] = id /\ b[2] = d /\ b[3] = d
      BY <3>1, <3>2
    <3>5. z \in Seq(S) /\ Len(z) = 6 /\ z[1] = c /\ z[2] = c /\ z[3] = e /\ z[4] = id /\ z[5] = d /\ z[6] = d
      BY <3>1, <3>2
    <3>6. x \in Seq(S) /\ Len(x) = 6 /\ \A n \in 1 .. 6 : x[n] = IF n <= 3 THEN a[n] ELSE b[n - 3]
      BY <3>2, <3>3, <3>4, Joined
    <3>7. ASSUME NEW n \in 1 .. 6 PROVE x[n] = z[n]
      <4>1. n = 1 \/ n = 2 \/ n = 3 \/ n = 4 \/ n = 5 \/ n = 6
        OBVIOUS
      <4> QED BY <3>3, <3>4, <3>5, <3>6, <4>1
    <3>8. x = z
      BY <3>5, <3>6, <3>7
    <3> QED BY <3>2, <3>8
  <2> QED BY <2>1, <2>2, <2>3, <2>4
<1>5. PICK m : m = <<"[", "[", "cite:", id, "]", "]">>
  OBVIOUS
<1>6. Len(m) = 6 /\ m[1] = "[" /\ m[2] = "[" /\ m[3] = "cite:" /\ m[4] = id /\ m[5] = "]" /\ m[6] = "]"
  BY <1>5
<1> QED BY <1>2, <1>3, <1>4, <1>5, <1>6

(* A citation: what it adds is its number, once it is complete.            *)
LEMMA MarkerParsed ==
    ASSUME NEW t, NEW M, NEW read, Parsed(t, M, read), NEW id \in References \cup {Invented},
           ~EndsOpen(t), NEW more, more = t \o Marker(id), NEW r, r = ReadChunk(read[Len(t)], id)
    PROVE  ParsedUpTo(more, r, M \cup {Len(t) + 1}) /\ ~EndsOpen(more)
<1>1. /\ t \in MessageTexts /\ Len(t) \in Nat /\ M \in SUBSET (1 .. Len(t))
      /\ read \in [0 .. Len(t) -> Readings] /\ \A q \in 0 .. Len(t) : read[q] \in Readings
  BY ParsedFields DEF Parsed
<1>2. PICK m : /\ m = Marker(id) /\ m \in MessageTexts /\ Len(m) = 6
               /\ m[1] = "[" /\ m[2] = "[" /\ m[3] = "cite:" /\ m[4] = id /\ m[5] = "]" /\ m[6] = "]"
  BY MarkerLetters
<1>3. PICK k, old : k = Len(t) /\ old = read[Len(t)]
  OBVIOUS
<1>4. k \in Nat /\ old \in Readings /\ old = read[k]
  BY <1>1, <1>3
<1>5. Extends(more, t, m)
  <2>1. t \in MessageTexts /\ m \in MessageTexts /\ more = t \o m
    BY <1>1, <1>2
  <2> QED BY <2>1, Extended
<1>6. /\ more \in MessageTexts /\ Len(more) = k + 6 /\ \A q \in 1 .. k : more[q] = t[q]
  BY <1>2, <1>3, <1>5 DEF Extends
<1>7. /\ more[k + 1] = "[" /\ more[k + 2] = "[" /\ more[k + 3] = "cite:" /\ more[k + 4] = id
      /\ more[k + 5] = "]" /\ more[k + 6] = "]"
  <2>1. \A n \in 1 .. 6 : more[k + n] = m[n]
    BY <1>2, <1>3, <1>5 DEF Extends
  <2>2. /\ more[k + 1] = m[1] /\ more[k + 2] = m[2] /\ more[k + 3] = m[3]
        /\ more[k + 4] = m[4] /\ more[k + 5] = m[5] /\ more[k + 6] = m[6]
    <3>1. 1 \in 1 .. 6 /\ 2 \in 1 .. 6 /\ 3 \in 1 .. 6 /\ 4 \in 1 .. 6 /\ 5 \in 1 .. 6 /\ 6 \in 1 .. 6
      OBVIOUS
    <3> QED BY <2>1, <3>1, Zenon
  <2> QED BY <1>2, <2>2
<1>8. r \in Readings
  BY <1>3, <1>4, ReadMarker
<1> DEFINE next == [q \in 0 .. k + 6 |-> IF q <= k THEN read[q] ELSE IF q <= k + 5 THEN old ELSE r]
           N == M \cup {k + 1}
<1>9. /\ next = [q \in 0 .. k + 6 |-> next[q]] /\ \A q \in 0 .. k : next[q] = read[q]
      /\ \A q \in k .. k + 5 : next[q] = old
      /\ next[k + 6] = r
  BY <1>4
<1> HIDE DEF next
<1>10. \A q \in 0 .. k + 6 : next[q] \in Readings
  <2>1. \A q \in 0 .. k + 6 : q \in 0 .. k \/ q \in k .. k + 5 \/ q = k + 6
    BY <1>4
  <2>2. \A q \in 0 .. k : next[q] \in Readings
    BY <1>1, <1>3, <1>9
  <2>3. \A q \in k .. k + 5 : next[q] \in Readings
    BY <1>4, <1>9
  <2> QED BY <1>8, <1>9, <2>1, <2>2, <2>3
<1>11. Parsed(more, N, next)
  <2>1. N \in SUBSET (1 .. Len(more))
    BY <1>1, <1>3, <1>4, <1>6
  <2>2. next \in [0 .. Len(more) -> Readings] /\ next[0] = Unread
    <3>1. next[0] = read[0]
      <4>1. 0 \in 0 .. k
        BY <1>4
      <4> QED BY <1>9, <4>1
    <3>2. read[0] = Unread
      BY DEF Parsed
    <3> QED BY <1>6, <1>9, <1>10, <3>1, <3>2
  <2>3. ASSUME NEW s \in N
        PROVE  /\ MarkerAt(more, s) /\ (\A q \in s .. s + 4 : next[q] = next[s - 1])
               /\ next[s + 5] = ReadChunk(next[s - 1], more[s + 3])
    <3>1. CASE s \in M
      <4>1. /\ MarkerAt(t, s) /\ (\A q \in s .. s + 4 : read[q] = read[s - 1])
            /\ read[s + 5] = ReadChunk(read[s - 1], t[s + 3])
        BY <3>1 DEF Parsed
      <4>2. s \in 1 .. Len(t) /\ s + 5 <= k /\ s \in Nat
        BY <1>1, <1>3, <3>1, <4>1 DEF MarkerAt
      <4>3. MarkerAt(more, s)
        <5>1. t \in MessageTexts /\ m \in MessageTexts /\ more = t \o m
          BY <1>1, <1>2
        <5> QED BY <4>1, <4>2, <5>1, StillThere
      <4>4. next[s - 1] = read[s - 1] /\ next[s + 5] = read[s + 5] /\ \A q \in s .. s + 4 : next[q] = read[q]
        <5>1. s - 1 \in 0 .. k /\ s + 5 \in 0 .. k /\ \A q \in s .. s + 4 : q \in 0 .. k
          BY <1>4, <4>2
        <5>2. \A q \in 0 .. k : next[q] = read[q]
          BY <1>9
        <5> QED BY <5>1, <5>2
      <4>5. more[s + 3] = t[s + 3]
        BY <1>4, <1>6, <4>2
      <4> QED BY <4>1, <4>3, <4>4, <4>5
    <3>2. CASE s = k + 1
      <4>1. s - 1 = k /\ s + 1 = k + 2 /\ s + 2 = k + 3 /\ s + 3 = k + 4 /\ s + 4 = k + 5 /\ s + 5 = k + 6
        BY <1>4, <3>2
      <4>2. MarkerAt(more, s)
        <5>1. more[s] = more[k + 1] /\ more[s + 1] = more[k + 2] /\ more[s + 2] = more[k + 3]
              /\ more[s + 3] = more[k + 4] /\ more[s + 4] = more[k + 5] /\ more[s + 5] = more[k + 6]
              /\ s + 5 <= Len(more)
          BY <1>4, <1>6, <3>2, <4>1
        <5> QED BY <1>7, <5>1 DEF MarkerAt
      <4>3. \A q \in s .. s + 4 : q \in k .. k + 5
        BY <1>4, <3>2
      <4>4. next[s - 1] = old /\ next[s + 5] = r /\ \A q \in s .. s + 4 : next[q] = old
        <5>1. k \in k .. k + 5
          BY <1>4
        <5> QED BY <1>9, <4>1, <4>3, <5>1
      <4>5. r = ReadChunk(old, more[s + 3])
        BY <1>3, <1>7, <4>1
      <4> QED BY <4>2, <4>4, <4>5
    <3> QED BY <3>1, <3>2
  <2>4. ASSUME NEW q \in 1 .. Len(more), ~Inside(N, q) PROVE Longer(next[q], next[q - 1], <<more[q]>>)
    <3>1. q <= k
      <4> SUFFICES ASSUME ~(q <= k) PROVE FALSE
        OBVIOUS
      <4>1. k + 1 <= q /\ q <= (k + 1) + 5 /\ k + 1 \in N
        BY <1>4, <1>6
      <4> QED BY <2>4, <4>1 DEF Inside
    <3>2. q \in 1 .. Len(t) /\ next[q] = read[q] /\ next[q - 1] = read[q - 1] /\ more[q] = t[q]
      <4>1. q \in 1 .. Len(t) /\ q \in 1 .. k /\ q \in 0 .. k /\ q - 1 \in 0 .. k
        BY <1>3, <1>4, <1>6, <3>1
      <4> QED BY <1>6, <1>9, <4>1
    <3>3. ~Inside(M, q)
      BY <2>4 DEF Inside
    <3> QED BY <3>2, <3>3 DEF Parsed
  <2>5. ASSUME NEW i \in 1 .. Len(more) - 1, Opening(more, i) PROVE i \in N \/ CellAt(more, i)
    <3>1. i \in Nat /\ i >= 1 /\ (i < k \/ i = k \/ i = k + 1 \/ i = k + 2 \/ i = k + 3 \/ i = k + 4 \/ i = k + 5)
      BY <1>4, <1>6
    <3>2. CASE i < k
      <4>1. i \in 1 .. Len(t) - 1 /\ i \in 1 .. Len(t) /\ i \in 1 .. k /\ i + 1 \in 1 .. k
        BY <1>3, <1>4, <3>1, <3>2
      <4>2. Opening(t, i)
        BY <1>6, <2>5, <4>1 DEF Opening
      <4>3. i \in M \/ CellAt(t, i)
        BY <4>1, <4>2 DEF Parsed
      <4>4. t \in MessageTexts /\ m \in MessageTexts /\ more = t \o m
        BY <1>1, <1>2
      <4> QED BY <4>1, <4>3, <4>4, StillThere
    <3>3. CASE i = k
      <4>1. t[k] = "[" /\ k > 0
        BY <1>4, <1>6, <2>5, <3>1, <3>3 DEF Opening
      <4> QED BY <1>3, <4>1 DEF EndsOpen
    <3>4. CASE i = k + 1
      BY <3>4
    <3>5. CASE i = k + 2 \/ i = k + 3 \/ i = k + 4 \/ i = k + 5
      <4>1. more[i + 1] # "["
        <5>1. (k + 2) + 1 = k + 3 /\ (k + 3) + 1 = k + 4 /\ (k + 4) + 1 = k + 5 /\ (k + 5) + 1 = k + 6
          BY <1>4
        <5> QED BY <1>7, <3>5, <5>1, DifferentLetters
      <4> QED BY <2>5, <4>1 DEF Opening
    <3> QED BY <3>1, <3>2, <3>3, <3>4, <3>5
  <2> QED BY <1>6, <2>1, <2>2, <2>3, <2>4, <2>5 DEF Parsed
<1>12. next[Len(more)] = r /\ ~EndsOpen(more)
  BY <1>6, <1>7, <1>9 DEF EndsOpen
<1>13. N = M \cup {Len(t) + 1}
  BY <1>3
<1> HIDE DEF N
<1>14. ParsedUpTo(more, r, N)
  BY <1>11, <1>12 DEF ParsedUpTo
<1> QED BY <1>12, <1>13, <1>14

LEMMA ProseBrackets ==
    ASSUME NEW chunk \in {"word", "open", "close", "cell", "edge"}
    PROVE  Bracketing(Characters(chunk), chunk)
<1>1. chunk \in ReplyChunks
  BY DEF ReplyChunks, Prose
<1>2. Characters(chunk) \in MessageTexts
  BY <1>1, CharactersTyped
<1>3. CASE chunk = "word"
  <2>1. PICK p : p = <<"a">>
    OBVIOUS
  <2>2. Characters(chunk) = p
    BY <1>3, <2>1 DEF Characters
  <2>3. Len(p) = 1 /\ p[1] = "a"
    BY <2>1
  <2> QED BY <1>2, <2>2, <2>3 DEF Bracketing
<1>4. CASE chunk = "open"
  <2>1. PICK p : p = <<"[", "a">>
    OBVIOUS
  <2>2. Characters(chunk) = p
    BY <1>4, <2>1 DEF Characters
  <2>3. Len(p) = 2 /\ p[2] = "a"
    BY <2>1
  <2>4. \A n \in 1 .. Len(p) - 1 : n + 1 = 2
    BY <2>3
  <2> QED BY <1>2, <2>2, <2>3, <2>4 DEF Bracketing
<1>5. CASE chunk = "close"
  <2>1. PICK p : p = <<"]">>
    OBVIOUS
  <2>2. Characters(chunk) = p
    BY <1>5, <2>1 DEF Characters
  <2>3. Len(p) = 1 /\ p[1] = "]"
    BY <2>1
  <2> QED BY <1>2, <2>2, <2>3 DEF Bracketing
<1>6. CASE chunk = "cell"
  <2>1. PICK p : p = <<"[", "[", "a", "]", "]">>
    OBVIOUS
  <2>2. Characters(chunk) = p
    BY <1>6, <2>1 DEF Characters
  <2>3. Len(p) = 5 /\ p[1] = "[" /\ p[2] = "[" /\ p[3] = "a" /\ p[4] = "]" /\ p[5] = "]"
    BY <2>1
  <2>4. \A n \in 1 .. Len(p) - 1 : n = 1 \/ n + 1 = 3 \/ n + 1 = 4 \/ n + 1 = 5
    BY <2>3
  <2>5. ASSUME NEW n \in 1 .. Len(p) - 1, p[n + 1] = "[" PROVE n = 1
    BY <2>3, <2>4, <2>5
  <2> QED BY <1>2, <2>2, <2>3, <2>5 DEF Bracketing
<1>7. CASE chunk = "edge"
  <2>1. PICK p : p = <<"a", "[">>
    OBVIOUS
  <2>2. Characters(chunk) = p
    BY <1>7, <2>1 DEF Characters
  <2>3. Len(p) = 2 /\ p[1] = "a"
    BY <2>1
  <2>4. \A n \in 1 .. Len(p) - 1 : n = 1
    BY <2>3
  <2> QED BY <1>2, <1>7, <2>2, <2>3, <2>4 DEF Bracketing
<1> QED BY <1>3, <1>4, <1>5, <1>6, <1>7

LEMMA ProseAdded ==
    ASSUME NEW t, NEW M, NEW read, Parsed(t, M, read), NEW chunk \in {"word", "open", "close", "cell", "edge"},
           ~(EndsOpen(t) /\ Characters(chunk)[1] = "["), NEW more, more = t \o Characters(chunk),
           NEW r, r = ReadChunk(read[Len(t)], chunk)
    PROVE  ParsedUpTo(more, r, M) /\ (EndsOpen(more) => chunk = "edge")
<1>1. /\ t \in MessageTexts /\ Len(t) \in Nat /\ \A q \in 0 .. Len(t) : read[q] \in Readings
  BY ParsedFields DEF Parsed
<1>2. PICK p : p = Characters(chunk) /\ Bracketing(p, chunk)
  BY ProseBrackets
<1>3. PICK k, l, old : k = Len(t) /\ l = Len(p) /\ old = read[Len(t)]
  OBVIOUS
<1>4. k \in Nat /\ l \in Nat /\ l >= 1 /\ old \in Readings /\ p \in MessageTexts
  BY <1>1, <1>2, <1>3 DEF Bracketing
<1>5. Extends(more, t, p)
  <2>1. t \in MessageTexts /\ p \in MessageTexts /\ more = t \o p
    BY <1>1, <1>2, <1>4
  <2> QED BY <2>1, Extended
<1>6. /\ Len(more) = k + l /\ (\A q \in 1 .. k : more[q] = t[q]) /\ \A n \in 1 .. l : more[k + n] = p[n]
  BY <1>3, <1>5 DEF Extends
<1>7. r \in Readings /\ Longer(r, old, p)
  <2>1. chunk \in Prose
    BY DEF Prose
  <2> QED BY <1>2, <1>3, <1>4, <2>1, ReadPlain
<1>8. ASSUME NEW i \in 1 .. Len(more) - 1, i >= Len(t), Opening(more, i) PROVE CellAt(more, i)
  <2>1. CASE i = k
    <3>1. k > 0 /\ more[k] = t[k] /\ more[k + 1] = p[1]
      BY <1>4, <1>6, <2>1
    <3>2. t[k] = "[" /\ p[1] = "["
      BY <1>8, <2>1, <3>1 DEF Opening
    <3> QED BY <1>2, <1>3, <3>1, <3>2 DEF EndsOpen
  <2>2. CASE i # k
    <3>1. PICK n : n = i - k
      OBVIOUS
    <3>2. n \in 1 .. l - 1 /\ n \in 1 .. l /\ n + 1 \in 1 .. l /\ i = k + n /\ i + 1 = k + (n + 1)
      <4>1. Len(more) = k + l /\ Len(t) = k
        BY <1>3, <1>6
      <4>2. i \in Nat /\ i >= k /\ i # k /\ i <= k + l - 1
        BY <1>4, <1>8, <2>2, <4>1
      <4> QED BY <1>4, <3>1, <4>2
    <3>3. p[n] = "[" /\ p[n + 1] = "["
      BY <1>6, <1>8, <3>2 DEF Opening
    <3>4. n = 1 /\ l = 5 /\ p[3] = "a" /\ p[4] = "]" /\ p[5] = "]"
      BY <1>2, <1>3, <3>2, <3>3 DEF Bracketing
    <3>5. more[k + 3] = p[3] /\ more[k + 4] = p[4] /\ more[k + 5] = p[5]
      <4>1. \A m \in 1 .. 5 : more[k + m] = p[m]
        BY <1>6, <3>4
      <4>2. 3 \in 1 .. 5 /\ 4 \in 1 .. 5 /\ 5 \in 1 .. 5
        OBVIOUS
      <4> QED BY <4>1, <4>2, Zenon
    <3>6. i + 2 = k + 3 /\ i + 3 = k + 4 /\ i + 4 = k + 5
      BY <1>4, <3>2, <3>4
    <3>7. more[i] = "[" /\ more[i + 1] = "["
      BY <1>8 DEF Opening
    <3>8. i + 4 <= Len(more)
      BY <1>4, <1>6, <3>4, <3>6
    <3> QED BY <3>4, <3>5, <3>6, <3>7, <3>8 DEF CellAt
  <2> QED BY <2>1, <2>2
<1>9. ParsedUpTo(more, r, M)
  <2>1. p \in MessageTexts /\ more = t \o p /\ r \in Readings /\ Longer(r, read[Len(t)], p)
    BY <1>2, <1>3, <1>4, <1>7
  <2> QED BY <1>8, <2>1, ProseParsed
<1>10. EndsOpen(more) => chunk = "edge"
  <2>1. more[Len(more)] = p[l]
    BY <1>4, <1>6
  <2> QED BY <1>2, <1>3, <2>1 DEF EndsOpen, Bracketing
<1> QED BY <1>9, <1>10

LEMMA NothingParsed ==
    ParsedUpTo(<<>>, Unread, {}) /\ Unread \in Readings /\ <<>> \in MessageTexts /\ ~EndsOpen(<<>>)
<1>1. PICK a, b, c : a = <<>> /\ b = <<>> /\ c = <<>>
  OBVIOUS
<1>2. <<>> \in MessageTexts /\ <<>> \in Seq(Annotations) /\ <<>> \in Seq(References) /\ Len(<<>>) = 0
  BY DEF MessageTexts
<1>3. a \in MessageTexts /\ b \in KnownLists /\ c \in Seq(Annotations)
  BY <1>1, <1>2 DEF KnownLists
<1>4. Unread \in Readings
  <2>1. [text |-> a, known |-> b, annotations |-> c] \in Readings
    BY <1>3, IsReading
  <2> QED BY <1>1, <2>1 DEF Unread
<1>5. PICK z, M : z = Unread /\ M = {}
  OBVIOUS
<1>6. PICK f : f = [q \in 0 .. 0 |-> z]
  OBVIOUS
<1>7. f \in [0 .. 0 -> Readings] /\ f[0] = z
  BY <1>4, <1>5, <1>6
<1>8. Parsed(<<>>, M, f)
  <2>1. M \in SUBSET (1 .. Len(<<>>)) /\ \A s \in M : FALSE
    BY <1>5
  <2>2. f \in [0 .. Len(<<>>) -> Readings]
    BY <1>2, <1>7
  <2>3. \A q \in 1 .. Len(<<>>) : FALSE
    BY <1>2
  <2>4. \A i \in 1 .. Len(<<>>) - 1 : FALSE
    BY <1>2
  <2> QED BY <1>2, <1>5, <1>7, <2>1, <2>2, <2>3, <2>4 DEF Parsed
<1>9. ParsedUpTo(<<>>, Unread, {})
  BY <1>2, <1>5, <1>7, <1>8 DEF ParsedUpTo
<1> QED BY <1>2, <1>4, <1>9 DEF EndsOpen

LEMMA ReplyParsed ==
    ASSUME Provided, Closed, provider.evidence # {}
    PROVE  Readable /\ Reading \in Readings
<1>1. PICK reply : reply = provider.reply
  OBVIOUS
<1>2. reply \in Seq(ReplyChunks) /\ Len(reply) \in Nat
  BY <1>1, RepliesAssumption DEF Provided, ReplyChunks
<1>3. \A n \in 1 .. Len(reply) : reply[n] \in ReplyChunks
  BY <1>2
<1>4. \A n \in 1 .. Len(reply) : reply[n] \notin {"stray", "torn"}
  <2>1. Range(reply) = {reply[n] : n \in 1 .. Len(reply)}
    BY <1>2, RangeOfSequence
  <2> QED BY <1>1, <2>1 DEF Closed
<1>5. \A n \in 1 .. Len(reply) - 1 : reply[n] = "edge" => Characters(reply[n + 1])[1] # "["
  BY <1>1 DEF Closed
<1> DEFINE D == [n \in Nat |-> MessageTexts]
           E == [n \in Nat |-> Readings]
<1>6. PICK f : AddChunkFold(f, reply, <<>>, D)
  <2>1. <<>> \in D[0]
    BY NothingParsed
  <2>2. ASSUME NEW n \in 1 .. Len(reply), NEW x \in D[n - 1] PROVE AddChunk(x, reply[n]) \in D[n]
    <3>1. n \in Nat /\ n - 1 \in Nat
      OBVIOUS
    <3>2. x \in MessageTexts /\ reply[n] \in ReplyChunks
      BY <1>3, <3>1
    <3>3. PICK c : c = Characters(reply[n]) /\ c \in MessageTexts
      BY <3>2, CharactersTyped
    <3>4. x \o c \in MessageTexts
      BY <3>2, <3>3 DEF MessageTexts
    <3> QED BY <3>1, <3>3, <3>4 DEF AddChunk
  <2> HIDE DEF D
  <2> QED BY <1>2, <2>1, <2>2, AddChunkLoop
<1>7. PICK g : ReadChunkFold(g, reply, Unread, E)
  <2>1. Unread \in E[0]
    BY NothingParsed
  <2>2. ASSUME NEW n \in 1 .. Len(reply), NEW x \in E[n - 1] PROVE ReadChunk(x, reply[n]) \in E[n]
    <3>1. n \in Nat /\ n - 1 \in Nat
      OBVIOUS
    <3>2. x \in Readings /\ reply[n] \in ReplyChunks
      BY <1>3, <3>1
    <3>3. reply[n] \in References \cup {Invented} \/ reply[n] \in Prose
      BY <3>2 DEF ReplyChunks
    <3>4. ReadChunk(x, reply[n]) \in Readings
      BY <3>2, <3>3, ReadMarker, ReadPlain
    <3> QED BY <3>1, <3>4
  <2> HIDE DEF E
  <2> QED BY <1>2, <2>1, <2>2, ReadChunkLoop
<1>8. Text = f[Len(reply)]
  BY <1>1, <1>6 DEF Text, Written, AddChunkFold
<1>9. Reading = g[Len(reply)] /\ Reading \in Readings
  <2>1. Reading = Folded(ReadChunk, Unread, reply)
    BY <1>1 DEF Reading, Unread
  <2>2. g[Len(reply)] \in Readings
    <3>1. Len(reply) \in 0 .. Len(reply)
      BY <1>2
    <3> QED BY <1>2, <1>7, <3>1 DEF ReadChunkFold
  <2> QED BY <1>7, <2>1, <2>2 DEF ReadChunkFold
<1> HIDE DEF D, E
<1> DEFINE Stage(n) == /\ \E M : ParsedUpTo(f[n], g[n], M)
                       /\ EndsOpen(f[n]) => n > 0 /\ reply[n] = "edge"
           T == {n \in Nat : n <= Len(reply) => Stage(n)}
<1>10. 0 \in T
  <2>1. f[0] = <<>> /\ g[0] = Unread
    BY <1>6, <1>7 DEF AddChunkFold, ReadChunkFold
  <2>2. Stage(0)
    BY <2>1, NothingParsed
  <2> QED BY <2>2
<1>11. ASSUME NEW n \in T PROVE n + 1 \in T
  <2> SUFFICES ASSUME n + 1 <= Len(reply) PROVE Stage(n + 1)
    <3> HIDE DEF Stage
    <3> QED OBVIOUS
  <2>1. n \in Nat /\ n <= Len(reply) /\ n + 1 \in 1 .. Len(reply) /\ (n + 1) - 1 = n
    BY <1>2
  <2>2. PICK M : ParsedUpTo(f[n], g[n], M)
    BY <2>1
  <2>3. EndsOpen(f[n]) => n > 0 /\ reply[n] = "edge"
    BY <2>1
  <2> HIDE DEF T
  <2>4. PICK t, old, chunk, more, r :
          t = f[n] /\ old = g[n] /\ chunk = reply[n + 1] /\ more = f[n + 1] /\ r = g[n + 1]
    OBVIOUS
  <2>5. more = t \o Characters(chunk)
    BY <1>6, <2>1, <2>4 DEF AddChunkFold, AddChunk
  <2>6. r = ReadChunk(old, chunk)
    BY <1>7, <2>1, <2>4 DEF ReadChunkFold
  <2>7. PICK read : Parsed(t, M, read) /\ read[Len(t)] = old
    BY <2>2, <2>4 DEF ParsedUpTo
  <2>8. ~(EndsOpen(t) /\ Characters(chunk)[1] = "[")
    <3> SUFFICES ASSUME EndsOpen(t) PROVE Characters(chunk)[1] # "["
      OBVIOUS
    <3>1. n \in 1 .. Len(reply) - 1 /\ reply[n] = "edge"
      BY <1>2, <2>1, <2>3, <2>4
    <3> QED BY <1>5, <2>4, <3>1
  <2>9. chunk \in References \cup {Invented} \/ chunk \in {"word", "open", "close", "cell", "edge"}
    <3>1. chunk \in ReplyChunks /\ chunk \notin {"stray", "torn"}
      BY <1>3, <1>4, <2>1, <2>4
    <3> QED BY <3>1 DEF ReplyChunks, Prose
  <2>10. (\E N : ParsedUpTo(more, r, N)) /\ (EndsOpen(more) => chunk = "edge")
    <3>1. CASE chunk \in References \cup {Invented}
      <4>1. Characters(chunk) = Marker(chunk) /\ Characters(chunk)[1] = "["
        BY <3>1, MarkerLetters
      <4>2. ~EndsOpen(t) /\ more = t \o Marker(chunk) /\ r = ReadChunk(read[Len(t)], chunk)
        BY <2>5, <2>6, <2>7, <2>8, <4>1
      <4>3. ParsedUpTo(more, r, M \cup {Len(t) + 1}) /\ ~EndsOpen(more)
        BY <2>7, <3>1, <4>2, MarkerParsed
      <4> QED BY <4>3
    <3>2. CASE chunk \in {"word", "open", "close", "cell", "edge"}
      <4>1. r = ReadChunk(read[Len(t)], chunk)
        BY <2>6, <2>7
      <4>2. ParsedUpTo(more, r, M) /\ (EndsOpen(more) => chunk = "edge")
        BY <2>5, <2>7, <2>8, <3>2, <4>1, ProseAdded
      <4> QED BY <4>2
    <3> QED BY <2>9, <3>1, <3>2
  <2> QED BY <2>1, <2>4, <2>10
<1>12. T = Nat
  <2>1. T \in SUBSET Nat
    OBVIOUS
  <2> HIDE DEF T
  <2> QED BY <1>10, <1>11, <2>1, AllNumbers
<1>13. Stage(Len(reply))
  <2>1. Len(reply) \in T
    <3> HIDE DEF T
    <3> QED BY <1>2, <1>12
  <2> QED BY <1>2, <2>1
<1>14. \E M : ParsedUpTo(f[Len(reply)], g[Len(reply)], M)
  BY <1>13
<1> QED BY <1>8, <1>9, <1>14 DEF Readable

-----------------------------------------------------------------------------
(* What the projection shows of it *)

LEMMA NothingJoined ==
    ASSUME NEW S, NEW a \in Seq(S)
    PROVE  a \o <<>> = a
<1>1. PICK b, x : b = <<>> /\ x = a \o b
  OBVIOUS
<1>2. a \in Seq(S) /\ Len(a) \in Nat /\ b \in Seq(S) /\ Len(b) = 0
  BY <1>1
<1>3. /\ a \o b \in Seq(S) /\ Len(a \o b) = Len(a) + Len(b)
      /\ \A n \in 1 .. Len(a) + Len(b) : (a \o b)[n] = IF n <= Len(a) THEN a[n] ELSE b[n - Len(a)]
  BY <1>2, Joined
<1>4. x \in Seq(S) /\ Len(x) = Len(a) /\ \A n \in 1 .. Len(a) : x[n] = a[n]
  BY <1>1, <1>2, <1>3
<1>5. x = a
  BY <1>2, <1>4
<1> QED BY <1>1, <1>5

LEMMA PieceOfPiece ==
    ASSUME NEW S, NEW t \in Seq(S), NEW a \in 1 .. Len(t) + 1, NEW b \in a - 1 .. Len(t),
           NEW c \in 1 .. b - a + 2, NEW d \in c - 1 .. b - a + 1
    PROVE  SubSeq(SubSeq(t, a, b), c, d) = SubSeq(t, a + c - 1, a + d - 1)
<1>1. PICK p : p = SubSeq(t, a, b)
  OBVIOUS
<1>2. Len(t) \in Nat /\ a \in Nat /\ b \in Int /\ c \in Nat /\ d \in Int
      /\ 1 <= a /\ a - 1 <= b /\ b <= Len(t) /\ 1 <= c /\ c <= b - a + 2 /\ c - 1 <= d /\ d <= b - a + 1
  OBVIOUS
<1>3. p \in Seq(S) /\ Len(p) = b - a + 1 /\ \A n \in 1 .. b - a + 1 : p[n] = t[a + n - 1]
  BY <1>1, PartOfText
<1>4. PICK x, y, v, w : x = SubSeq(p, c, d) /\ v = a + c - 1 /\ w = a + d - 1 /\ y = SubSeq(t, v, w)
  OBVIOUS
<1>5. c \in 1 .. Len(p) + 1 /\ d \in c - 1 .. Len(p)
  BY <1>2, <1>3
<1>6. x \in Seq(S) /\ Len(x) = d - c + 1 /\ \A n \in 1 .. d - c + 1 : x[n] = p[c + n - 1]
  BY <1>3, <1>4, <1>5, PartOfText
<1>7. v \in 1 .. Len(t) + 1 /\ w \in v - 1 .. Len(t) /\ w - v + 1 = d - c + 1
  BY <1>2, <1>4
<1>8. y \in Seq(S) /\ Len(y) = w - v + 1 /\ \A n \in 1 .. w - v + 1 : y[n] = t[v + n - 1]
  BY <1>4, <1>7, PartOfText, ZenonT(30)
<1>9. ASSUME NEW n \in 1 .. d - c + 1 PROVE x[n] = y[n]
  <2>1. PICK m : m = c + n - 1
    OBVIOUS
  <2>2. m \in 1 .. b - a + 1 /\ a + m - 1 = v + n - 1 /\ n \in 1 .. w - v + 1
    BY <1>2, <1>4, <1>7, <2>1
  <2>3. x[n] = p[m]
    BY <1>6, <2>1
  <2>4. p[m] = t[a + m - 1]
    BY <1>3, <2>2
  <2>5. y[n] = t[v + n - 1]
    BY <1>8, <2>2
  <2> QED BY <2>2, <2>3, <2>4, <2>5
<1>10. x = y
  <2>1. PICK l : l = d - c + 1 /\ l \in Nat
    BY <1>2
  <2>2. x \in Seq(S) /\ Len(x) = l
    BY <1>6, <2>1
  <2>3. y \in Seq(S) /\ Len(y) = l
    BY <1>7, <1>8, <2>1
  <2>4. \A n \in 1 .. l : x[n] = y[n]
    BY <1>9, <2>1
  <2> QED BY <2>1, <2>2, <2>3, <2>4
<1> QED BY <1>1, <1>4, <1>10

LEMMA BeginningIs ==
    ASSUME NEW S, NEW a \in Seq(S), NEW b \in Seq(S)
    PROVE  IsPrefix(a, b) <=> Begins(a, b)
<1>1. ASSUME IsPrefix(a, b) PROVE Begins(a, b)
  <2>1. Len(a) \in Nat /\ Len(b) \in Nat /\ Len(a) <= Len(b)
    BY <1>1 DEF IsPrefix
  <2>2. PICK x, y, k : x = SubSeq(a, 1, k) /\ y = SubSeq(b, 1, k) /\ k = Len(a)
    OBVIOUS
  <2>3. (\A n \in 1 .. k : x[n] = a[n]) /\ \A n \in 1 .. k : y[n] = b[n]
    BY <2>1, <2>2
  <2>4. x = y
    BY <1>1, <2>2 DEF IsPrefix
  <2> QED BY <2>1, <2>2, <2>3, <2>4 DEF Begins
<1> QED BY <1>1, PrefixOf

(* What may be the beginning of a citation.                                *)
LEMMA WaitsFor ==
    ASSUME NEW m \in MessageTexts, Len(m) \in Nat, Len(m) >= 2, m[1] = "[", m[2] = "["
    PROVE  /\ Len(m) <= 5 /\ (Len(m) >= 3 => m[3] = "cite:") => Waits(m)
           /\ Len(m) >= 3 /\ m[3] # "cite:" => ~Waits(m) /\ ~IsPrefix(Prefix, m)
           /\ Len(m) >= 3 /\ m[3] = "cite:" => IsPrefix(Prefix, m)
<1>1. PICK p : p = Prefix
  OBVIOUS
<1>2. p \in Seq(Characterset) /\ Len(p) = 3 /\ p[1] = "[" /\ p[2] = "[" /\ p[3] = "cite:"
  <2>1. Len(p) = 3 /\ p[1] = "[" /\ p[2] = "[" /\ p[3] = "cite:"
    BY <1>1 DEF Prefix
  <2>2. p \in Seq(Characterset)
    BY <1>1, DifferentLetters DEF Prefix
  <2> QED BY <2>1, <2>2
<1>3. m \in Seq(Characterset)
  BY DEF MessageTexts
<1>4. (IsPrefix(p, m) <=> Begins(p, m)) /\ (IsPrefix(m, p) <=> Begins(m, p))
  BY <1>2, <1>3, BeginningIs
<1>5. MaxMarkerLength \in Nat /\ MaxMarkerLength >= 6
  <2>1. Invented \in References \cup {Invented}
    OBVIOUS
  <2>2. Len(Marker(Invented)) = 6
    BY <2>1, MarkerLetters
  <2> QED BY <2>2, ReferencesAssumption
<1>6. \A n \in 1 .. 3 : n = 1 \/ n = 2 \/ n = 3
  OBVIOUS
<1>7. Len(m) >= 3 /\ m[3] = "cite:" => Begins(p, m)
  BY <1>2, <1>6 DEF Begins
<1>8. ASSUME Len(m) <= 5, Len(m) >= 3 => m[3] = "cite:" PROVE Waits(m)
  <2>1. Len(m) <= MaxMarkerLength
    BY <1>5, <1>8
  <2>2. CASE Len(m) = 2
    <3>1. \A n \in 1 .. Len(m) : n = 1 \/ n = 2
      BY <2>2
    <3>2. Begins(m, p)
      BY <1>2, <2>2, <3>1 DEF Begins
    <3> QED BY <1>1, <1>4, <2>1, <3>2 DEF Waits
  <2>3. CASE Len(m) >= 3
    BY <1>1, <1>4, <1>7, <1>8, <2>1, <2>3 DEF Waits
  <2> QED BY <2>2, <2>3
<1>9. ASSUME Len(m) >= 3, m[3] # "cite:" PROVE ~Begins(p, m) /\ ~Begins(m, p)
  <2>1. 3 \in 1 .. Len(p) /\ 3 \in 1 .. Len(m)
    BY <1>2, <1>9
  <2> QED BY <1>2, <1>9, <2>1 DEF Begins
<1> QED BY <1>1, <1>4, <1>7, <1>8, <1>9 DEF Waits

LEMMA AgreesLonger ==
    ASSUME NEW y \in Projections, NEW r, Agrees(y, r), NEW piece \in MessageTexts,
           NEW more, Longer(more, r, piece)
    PROVE  Agrees(Forward(y, Fragment(piece)), more)
<1>1. y.text \in Seq(Characterset)
  BY ProjectionFields DEF MessageTexts
<1>2. CASE piece = <<>>
  <2>1. Forward(y, Fragment(piece)) = y
    BY <1>2, ForwardText
  <2>2. y.text \o <<>> = y.text
    BY <1>1, NothingJoined
  <2> QED BY <1>2, <2>1, <2>2 DEF Agrees, Longer
<1>3. CASE piece # <<>>
  <2>1. PICK z : z = Forward(y, Fragment(piece))
    OBVIOUS
  <2>2. z = [text |-> y.text \o piece, kept |-> y.kept, annotations |-> y.annotations,
             known |-> y.known, started |-> y.started,
             out |-> Append(y.out, DeltaOf(Message, piece))]
    BY <1>3, <2>1, ForwardText
  <2>3. z.text = y.text \o piece /\ z.known = y.known /\ z.annotations = y.annotations
    BY <2>2
  <2> QED BY <2>1, <2>3 DEF Agrees, Longer
<1> QED BY <1>2, <1>3

LEMMA AgreesCited ==
    ASSUME NEW y \in Projections, NEW r \in Readings, Agrees(y, r), NEW id \in References
    PROVE  Agrees(Forward(y, Cited(id)), ReadChunk(r, id))
<1>1. PICK number, a, known :
        /\ known = AppendNew(y.known, id) /\ number = Numeral(NumberOf(known, id))
        /\ a = CitedAnnotation(y, id)
  OBVIOUS
<1>2. known = AppendNew(r.known, id) /\ a = CitedAnnotation(r, id)
  BY <1>1 DEF Agrees, CitedAnnotation
<1>3. PICK z : z = Forward(y, Cited(id))
  OBVIOUS
<1>4. z = [text |-> y.text \o number, kept |-> y.kept,
           annotations |-> Append(y.annotations, a),
           known |-> known, started |-> y.started,
           out |-> Append(Append(y.out, DeltaOf(Message, number)),
                          AnnotationOf(Message, Len(y.annotations) + 1, a))]
  BY <1>1, <1>3, ForwardCited
<1>5. z.text = y.text \o number /\ z.known = known /\ z.annotations = Append(y.annotations, a)
  BY <1>4
<1>6. ReadChunk(r, id) = [text |-> r.text \o number, known |-> known,
                          annotations |-> Append(r.annotations, a)]
  BY <1>1, <1>2, ReadCited
<1>7. PICK w : w = ReadChunk(r, id)
  OBVIOUS
<1>8. w.text = r.text \o number /\ w.known = known /\ w.annotations = Append(r.annotations, a)
  BY <1>6, <1>7
<1> QED BY <1>3, <1>5, <1>7, <1>8 DEF Agrees

LEMMA ForwardStays ==
    \A y \in Projections, e \in Fragments : Forward(y, e) \in Projections
<1> SUFFICES ASSUME NEW y \in Projections, NEW e \in Fragments PROVE Forward(y, e) \in Projections
  OBVIOUS
<1>1. ASSUME NEW p \in MessageTexts, e = Fragment(p) PROVE Forward(y, e) \in Projections
  BY <1>1, ForwardText
<1>2. ASSUME NEW id \in References, e = Cited(id) PROVE Forward(y, e) \in Projections
  BY <1>2, ForwardCited
<1> QED BY <1>1, <1>2 DEF Fragments

LEMMA ForwardRuns ==
    ASSUME NEW s, Len(s) \in Nat, NEW base
    PROVE  \E f : ForwardRun(f, s, base) /\ Folded(Forward, base, s) = f[Len(s)]
<1> DEFINE Upto(f, j) == f = [n \in 0 .. j |-> IF n = 0 THEN base ELSE Forward(f[n - 1], s[n])]
           T == {j \in Nat : \E f : Upto(f, j)}
           after == CHOOSE f : Upto(f, Len(s))
<1>1. 0 \in T
  <2> DEFINE f == [n \in 0 .. 0 |-> base]
  <2>1. Upto(f, 0)
    OBVIOUS
  <2> HIDE DEF f, Upto
  <2> QED BY <2>1
<1>2. ASSUME NEW j \in T PROVE j + 1 \in T
  <2>1. PICK f : Upto(f, j)
    OBVIOUS
  <2>2. j \in Nat /\ 0 \in 0 .. j /\ \A n \in 0 .. j : n \in 0 .. j + 1 /\ n # j + 1
    OBVIOUS
  <2> DEFINE V(n) == IF n = 0 THEN base ELSE Forward(f[n - 1], s[n])
             g == [n \in 0 .. j + 1 |-> V(n)]
  <2>3. \A n \in 0 .. j : f[n] = V(n)
    BY <2>1
  <2>4. \A n \in 0 .. j + 1 : g[n] = V(n)
    OBVIOUS
  <2>5. \A n \in 0 .. j : g[n] = f[n]
    <3> HIDE DEF V, g, Upto, T
    <3> QED BY <2>2, <2>3, <2>4
  <2>6. ASSUME NEW n \in 0 .. j + 1
        PROVE  V(n) = IF n = 0 THEN base ELSE Forward(g[n - 1], s[n])
    <3>1. CASE n = 0
      BY <3>1
    <3>2. CASE n # 0
      <4>1. n - 1 \in 0 .. j
        BY <2>2, <3>2
      <4>2. g[n - 1] = f[n - 1]
        <5> HIDE DEF g
        <5> QED BY <2>5, <4>1
      <4> HIDE DEF g
      <4> QED BY <3>2, <4>2
    <3> QED BY <3>1, <3>2
  <2>7. Upto(g, j + 1)
    <3>1. g = [n \in 0 .. j + 1 |-> V(n)]
      OBVIOUS
    <3> HIDE DEF V, g
    <3>2. g = [n \in 0 .. j + 1 |-> IF n = 0 THEN base ELSE Forward(g[n - 1], s[n])]
      BY <2>6, <3>1
    <3> QED BY <3>2
  <2> HIDE DEF Upto, g
  <2> QED BY <2>2, <2>7
<1>3. T = Nat
  <2>1. T \in SUBSET Nat
    OBVIOUS
  <2> HIDE DEF T
  <2> QED BY <1>1, <1>2, <2>1, AllNumbers
<1>4. PICK f : Upto(f, Len(s))
  BY <1>3
<1>5. Upto(after, Len(s))
  <2> HIDE DEF Upto
  <2> QED BY <1>4
<1>6. Folded(Forward, base, s) = after[Len(s)]
  BY DEF Folded
<1> HIDE DEF after
<1> QED BY <1>5, <1>6 DEF ForwardRun

LEMMA ForwardOne ==
    ASSUME NEW E, NEW s \in Seq(E), NEW e \in E, NEW base
    PROVE  /\ Folded(Forward, base, <<>>) = base
           /\ Folded(Forward, base, Append(s, e)) = Forward(Folded(Forward, base, s), e)
<1> DEFINE more == Append(s, e)
<1>1. /\ Len(s) \in Nat /\ Len(more) = Len(s) + 1 /\ more[Len(s) + 1] = e
      /\ \A n \in 1..Len(s) : more[n] = s[n]
  OBVIOUS
<1> HIDE DEF more
<1>2. PICK f : ForwardRun(f, s, base) /\ Folded(Forward, base, s) = f[Len(s)]
  BY <1>1, ForwardRuns
<1>3. PICK g : ForwardRun(g, more, base) /\ Folded(Forward, base, more) = g[Len(more)]
  BY <1>1, ForwardRuns
<1>4. /\ f[0] = base /\ \A n \in 1 .. Len(s) : f[n] = Forward(f[n - 1], s[n])
  <2>1. \A n \in 0 .. Len(s) : f[n] = IF n = 0 THEN base ELSE Forward(f[n - 1], s[n])
    BY <1>2 DEF ForwardRun
  <2> QED BY <1>1, <2>1
<1>5. /\ g[0] = base /\ \A n \in 1 .. Len(s) + 1 : g[n] = Forward(g[n - 1], more[n])
  <2>1. \A n \in 0 .. Len(s) + 1 : g[n] = IF n = 0 THEN base ELSE Forward(g[n - 1], more[n])
    BY <1>1, <1>3 DEF ForwardRun
  <2> QED BY <1>1, <2>1
<1>6. f[Len(s)] = g[Len(s)]
  <2>1. f[0] = g[0]
    BY <1>4, <1>5
  <2>2. ASSUME NEW n \in 1 .. Len(s), f[n - 1] = g[n - 1] PROVE f[n] = g[n]
    BY <1>1, <1>4, <1>5, <2>2
  <2> QED BY <1>1, <2>1, <2>2, LoopUnique
<1>7. g[Len(s) + 1] = Forward(g[Len(s)], e)
  <2>1. Len(s) + 1 \in 1 .. Len(s) + 1 /\ (Len(s) + 1) - 1 = Len(s)
    BY <1>1
  <2> QED BY <1>1, <1>5, <2>1
<1>8. Folded(Forward, base, <<>>) = base
  <2>1. Len(<<>>) = 0
    OBVIOUS
  <2>2. PICK h : ForwardRun(h, <<>>, base) /\ Folded(Forward, base, <<>>) = h[Len(<<>>)]
    BY <2>1, ForwardRuns
  <2> QED BY <2>1, <2>2 DEF ForwardRun
<1> QED BY <1>1, <1>2, <1>3, <1>6, <1>7, <1>8 DEF more

LEMMA ForwardedIn ==
    ASSUME NEW x \in Projections, NEW shown \in Seq(Fragments)
    PROVE  Folded(Forward, x, shown) \in Projections
<1>1. PICK f : ForwardRun(f, shown, x) /\ Folded(Forward, x, shown) = f[Len(shown)]
  BY ForwardRuns
<1>2. PICK D, k : D = [n \in Nat |-> Projections] /\ k = Len(shown)
  OBVIOUS
<1>3. k \in Nat /\ f[0] = x /\ \A n \in 1 .. k : f[n] = Forward(f[n - 1], shown[n])
  <2>1. Len(shown) \in Nat
    OBVIOUS
  <2>2. \A n \in 0 .. Len(shown) : f[n] = IF n = 0 THEN x ELSE Forward(f[n - 1], shown[n])
    BY <1>1, <2>1 DEF ForwardRun
  <2> QED BY <1>2, <2>1, <2>2
<1>4. f[0] \in D[0]
  BY <1>2, <1>3
<1>5. ASSUME NEW n \in 1 .. k, f[n - 1] \in D[n - 1] PROVE f[n] \in D[n]
  <2>1. n \in Nat /\ n - 1 \in Nat /\ shown[n] \in Fragments
    BY <1>2, <1>3
  <2>2. f[n - 1] \in Projections
    BY <1>2, <1>5, <2>1
  <2>3. f[n] = Forward(f[n - 1], shown[n])
    BY <1>3
  <2>4. f[n] \in Projections
    BY <2>1, <2>2, <2>3, ForwardStays
  <2> QED BY <1>2, <2>1, <2>4
<1>6. f[k] \in D[k]
  BY <1>3, <1>4, <1>5, LoopStays
<1> QED BY <1>1, <1>2, <1>3, <1>6

LEMMA ShownNext ==
    ASSUME NEW x \in Projections, NEW shown \in Seq(Fragments), NEW e \in Fragments
    PROVE  /\ Folded(Forward, x, <<>>) = x /\ Folded(Forward, x, shown) \in Projections
           /\ Folded(Forward, x, Append(shown, e)) = Forward(Folded(Forward, x, shown), e)
           /\ Append(shown, e) \in Seq(Fragments)
<1>1. Folded(Forward, x, <<>>) = x
  BY ForwardOne
<1>2. Folded(Forward, x, Append(shown, e)) = Forward(Folded(Forward, x, shown), e)
  BY ForwardOne, ZenonT(30)
<1>3. Append(shown, e) \in Seq(Fragments)
  OBVIOUS
<1> QED BY <1>1, <1>2, <1>3, ForwardedIn

LEMMA ShownLonger ==
    ASSUME NEW x \in Projections, NEW shown \in Seq(Fragments), NEW r, ShownTo(x, shown, r),
           NEW piece \in MessageTexts, NEW more, Longer(more, r, piece)
    PROVE  /\ ShownTo(x, Append(shown, Fragment(piece)), more)
           /\ Append(shown, Fragment(piece)) \in Seq(Fragments)
<1>1. PICK e : e = Fragment(piece) /\ e \in Fragments
  BY TextFragment
<1>2. PICK y : y = Folded(Forward, x, shown)
  OBVIOUS
<1>3. y \in Projections /\ Folded(Forward, x, Append(shown, e)) = Forward(y, e)
      /\ Append(shown, e) \in Seq(Fragments)
  BY <1>1, <1>2, ShownNext
<1>4. Agrees(y, r)
  BY <1>2 DEF ShownTo
<1>5. Agrees(Forward(y, Fragment(piece)), more)
  BY <1>3, <1>4, AgreesLonger
<1> QED BY <1>1, <1>3, <1>5 DEF ShownTo

LEMMA ShownCited ==
    ASSUME NEW x \in Projections, NEW shown \in Seq(Fragments), NEW r \in Readings, ShownTo(x, shown, r),
           NEW id \in References
    PROVE  /\ ShownTo(x, Append(shown, Cited(id)), ReadChunk(r, id))
           /\ Append(shown, Cited(id)) \in Seq(Fragments)
<1>1. PICK e : e = Cited(id) /\ e \in Fragments
  BY DEF Fragments
<1>2. PICK y : y = Folded(Forward, x, shown)
  OBVIOUS
<1>3. y \in Projections /\ Folded(Forward, x, Append(shown, e)) = Forward(y, e)
      /\ Append(shown, e) \in Seq(Fragments)
  BY <1>1, <1>2, ShownNext
<1>4. Agrees(y, r)
  BY <1>2 DEF ShownTo
<1>5. Agrees(Forward(y, Cited(id)), ReadChunk(r, id))
  BY <1>3, <1>4, AgreesCited
<1> QED BY <1>1, <1>3, <1>5 DEF ShownTo

LEMMA CuttingFields ==
    ASSUME NEW t, NEW M, NEW read, NEW u, NEW x, Cutting(t, M, read, u, x)
    PROVE  /\ Parsed(t, M, read) /\ x \in Projections
           /\ t \in Seq(Characterset) /\ Len(t) \in Nat /\ u \in Nat /\ u <= Len(t)
           /\ M \in SUBSET Nat /\ (\A s \in M : s >= 1 /\ s + 5 <= Len(t))
           /\ \A q \in 0 .. Len(t) : read[q] \in Readings
<1>1. Parsed(t, M, read) /\ u \in 0 .. Len(t) /\ x \in Projections
  BY DEF Cutting
<1>2. t \in Seq(Characterset) /\ Len(t) \in Nat /\ M \in SUBSET (1 .. Len(t))
      /\ \A q \in 0 .. Len(t) : read[q] \in Readings
  BY <1>1, ParsedFields
<1>3. \A s \in M : MarkerAt(t, s)
  BY <1>1 DEF Parsed
<1>4. \A s \in M : s \in Nat /\ s >= 1 /\ s + 5 <= Len(t)
  BY <1>2, <1>3 DEF MarkerAt
<1> QED BY <1>1, <1>2, <1>4

(* Text is shown that no citation begins in, and the rest waits.           *)
LEMMA PassageShown ==
    ASSUME NEW t, NEW M, NEW read, NEW u, NEW x, Cutting(t, M, read, u, x),
           NEW q \in 0 .. u, NEW e \in q .. u, Uncut(M, q), \A s \in M : ~(q < s /\ s <= e),
           NEW shown \in Seq(Fragments), ShownTo(x, shown, read[q]),
           NEW piece, piece = SubSeq(t, q + 1, e)
    PROVE  /\ ShownTo(x, Append(shown, Fragment(piece)), read[e])
           /\ Append(shown, Fragment(piece)) \in Seq(Fragments)
<1>1. /\ Parsed(t, M, read) /\ x \in Projections /\ M \in SUBSET Nat
      /\ t \in Seq(Characterset) /\ Len(t) \in Nat /\ u \in Nat /\ u <= Len(t)
  BY CuttingFields
<1>2. q \in Nat /\ e \in Nat /\ q <= e /\ e <= u /\ q \in 0 .. Len(t) /\ e \in q .. Len(t)
  BY <1>1
<1>3. ASSUME NEW v \in q + 1 .. e, Inside(M, v) PROVE FALSE
  <2>1. PICK s \in M : s <= v /\ v <= s + 5
    BY <1>3 DEF Inside
  <2>2. s + 5 <= q \/ s > q
    BY DEF Uncut
  <2> QED BY <1>1, <1>2, <2>1, <2>2
<1>4. Longer(read[e], read[q], SubSeq(t, q + 1, e))
  BY <1>1, <1>2, <1>3, PassageRead
<1>5. piece \in MessageTexts
  <2>1. PICK m : m = q + 1
    OBVIOUS
  <2>2. m \in 1 .. Len(t) + 1 /\ e \in m - 1 .. Len(t)
    BY <1>1, <1>2, <2>1
  <2>3. SubSeq(t, m, e) \in Seq(Characterset)
    BY <1>1, <2>2, PartOfText
  <2> QED BY <2>1, <2>3 DEF MessageTexts
<1>6. PICK r, more : r = read[q] /\ more = read[e] /\ Longer(more, r, piece) /\ ShownTo(x, shown, r)
  BY <1>4
<1>7. /\ ShownTo(x, Append(shown, Fragment(piece)), more)
      /\ Append(shown, Fragment(piece)) \in Seq(Fragments)
  BY <1>1, <1>5, <1>6, ShownLonger
<1> QED BY <1>6, <1>7

LEMMA ReturnedStops ==
    ASSUME NEW t, NEW M, NEW read, NEW u, NEW x, Cutting(t, M, read, u, x),
           NEW y, NEW q, Going(t, M, read, u, x, y, q), NEW e \in q .. u,
           \A s \in M : ~(q < s /\ s <= e), \A s \in M : s > e => s + 5 > u,
           NEW piece, piece = SubSeq(t, q + 1, e), NEW kept, kept = SubSeq(t, e + 1, u),
           NEW z, z = Returned(y, piece, kept), z \in Scans
    PROVE  StoppedAt(t, M, read, u, x, z, e)
<1>1. q \in 0 .. u /\ Uncut(M, q) /\ ShownTo(x, y.shown, read[q]) /\ y \in Scans
  BY DEF Going
<1>2. y.shown \in Seq(Fragments) /\ M \in SUBSET Nat /\ u \in Nat
  BY <1>1, ScanFields, CuttingFields
<1>3. PICK shown : shown = y.shown /\ shown \in Seq(Fragments) /\ ShownTo(x, shown, read[q])
  BY <1>1, <1>2
<1>4. ShownTo(x, Append(shown, Fragment(piece)), read[e])
  BY <1>1, <1>3, PassageShown
<1>5. z.shown = Append(shown, Fragment(piece)) /\ z.kept = kept /\ z.rest = <<>>
  BY <1>3 DEF Returned
<1>6. Waiting(M, e, u)
  <2> SUFFICES ASSUME NEW s \in M PROVE s + 5 <= e \/ (s > e /\ s + 5 > u)
    BY DEF Waiting
  <2>1. s \in Nat /\ q \in Nat /\ e \in Nat /\ q <= e
    BY <1>1, <1>2
  <2>2. s + 5 <= q \/ s > q
    BY <1>1 DEF Uncut
  <2> QED BY <2>1, <2>2
<1>7. e \in 0 .. u
  BY <1>1, <1>2
<1> QED BY <1>4, <1>5, <1>6, <1>7 DEF StoppedAt

(* No double bracket: all is shown but a bracket at the end.               *)
LEMMA ScanUnbracketed ==
    ASSUME NEW t, NEW M, NEW read, NEW u, NEW x, Cutting(t, M, read, u, x),
           NEW y, NEW q, Going(t, M, read, u, x, y, q), q < u,
           \A i \in q + 1 .. u - 1 : ~Opening(t, i), NEW z, z = Unbracketed(y), z \in Scans
    PROVE  \E e \in 0 .. u : StoppedAt(t, M, read, u, x, z, e)
<1>1. /\ Parsed(t, M, read) /\ x \in Projections /\ M \in SUBSET Nat
      /\ t \in Seq(Characterset) /\ Len(t) \in Nat /\ u \in Nat /\ u <= Len(t)
  BY CuttingFields
<1>2. q \in Nat /\ q \in 0 .. u /\ y.rest = SubSeq(t, q + 1, u)
  BY <1>1 DEF Going
<1>3. PICK r : r = y.rest
  OBVIOUS
<1>4. Len(r) = u - q /\ r \in Seq(Characterset) /\ \A n \in 1 .. u - q : r[n] = t[q + n]
  <2>1. PICK m : m = q + 1
    OBVIOUS
  <2>2. m \in 1 .. Len(t) + 1 /\ u \in m - 1 .. Len(t) /\ u - m + 1 = u - q
        /\ \A n \in 1 .. u - q : m + n - 1 = q + n
    BY <1>1, <1>2, <2>1
  <2>3. r = SubSeq(t, m, u)
    BY <1>2, <1>3, <2>1
  <2>4. r \in Seq(Characterset) /\ Len(r) = u - m + 1 /\ \A n \in 1 .. u - m + 1 : r[n] = t[m + n - 1]
    BY <1>1, <2>2, <2>3, PartOfText
  <2> QED BY <2>2, <2>4
<1>5. Last(r) = t[u]
  <2>1. u - q \in 1 .. u - q /\ q + (u - q) = u
    BY <1>1, <1>2
  <2> QED BY <1>4, <2>1 DEF Last
<1>6. \A s \in M : ~(q < s /\ s < u) /\ (s = u => t[u] = "[")
  <2> SUFFICES ASSUME NEW s \in M PROVE ~(q < s /\ s < u) /\ (s = u => t[u] = "[")
    OBVIOUS
  <2>1. MarkerAt(t, s) /\ s \in Nat
    BY <1>1 DEF Parsed
  <2>2. q < s /\ s < u => s \in q + 1 .. u - 1
    BY <1>1, <1>2, <2>1
  <2>3. t[s] = "[" /\ t[s + 1] = "["
    BY <2>1 DEF MarkerAt
  <2> QED BY <2>2, <2>3 DEF Opening
<1>7. CASE EndsInBracket(r)
  <2>1. t[u] = "["
    BY <1>5, <1>7 DEF EndsInBracket
  <2>2. PICK e, piece, kept : e = u - 1 /\ piece = SubSeq(t, q + 1, e) /\ kept = SubSeq(t, e + 1, u)
    OBVIOUS
  <2>3. e \in q .. u /\ e \in 0 .. u
    BY <1>1, <1>2, <2>2
  <2>4. Front(r) = piece
    <3>1. PICK a, c, d : a = q + 1 /\ c = 1 /\ d = u - q - 1
      OBVIOUS
    <3>2. a \in 1 .. Len(t) + 1 /\ u \in a - 1 .. Len(t) /\ c \in 1 .. u - a + 2
          /\ d \in c - 1 .. u - a + 1 /\ a + c - 1 = q + 1 /\ a + d - 1 = e
      BY <1>1, <1>2, <2>2, <3>1
    <3>3. SubSeq(SubSeq(t, a, u), c, d) = SubSeq(t, a + c - 1, a + d - 1)
      BY <1>1, <3>2, PieceOfPiece
    <3>4. r = SubSeq(t, a, u)
      BY <1>2, <1>3, <3>1
    <3>5. Front(r) = SubSeq(r, c, d)
      BY <1>4, <3>1 DEF Front
    <3> QED BY <2>2, <3>2, <3>3, <3>4, <3>5
  <2>5. kept = <<"[">>
    <3>1. e + 1 = u /\ u \in 1 .. Len(t)
      BY <1>1, <1>2, <2>2
    <3>2. SubSeq(t, u, u) = <<t[u]>>
      BY <1>1, <3>1, OneLetter
    <3> QED BY <2>1, <2>2, <3>1, <3>2
  <2>6. z = Returned(y, piece, kept)
    BY <1>3, <1>7, <2>4, <2>5 DEF Unbracketed
  <2>7. (\A s \in M : ~(q < s /\ s <= e)) /\ \A s \in M : s > e => s + 5 > u
    BY <1>1, <1>2, <1>6, <2>2
  <2>8. StoppedAt(t, M, read, u, x, z, e)
    BY <2>2, <2>3, <2>6, <2>7, ReturnedStops
  <2> QED BY <2>3, <2>8
<1>8. CASE ~EndsInBracket(r)
  <2>1. t[u] # "["
    BY <1>5, <1>8 DEF EndsInBracket
  <2>2. PICK e, piece, kept : e = u /\ piece = SubSeq(t, q + 1, e) /\ kept = SubSeq(t, e + 1, u)
    OBVIOUS
  <2>3. e \in q .. u /\ e \in 0 .. u
    BY <1>1, <1>2, <2>2
  <2>4. kept = <<>>
    BY <1>1, <2>2
  <2>5. z = Returned(y, piece, kept)
    BY <1>2, <1>3, <1>8, <2>2, <2>4 DEF Unbracketed
  <2>6. (\A s \in M : ~(q < s /\ s <= e)) /\ \A s \in M : s > e => s + 5 > u
    BY <1>1, <1>2, <1>6, <2>1, <2>2
  <2>7. StoppedAt(t, M, read, u, x, z, e)
    BY <2>2, <2>3, <2>5, <2>6, ReturnedStops
  <2> QED BY <2>3, <2>7
<1> QED BY <1>7, <1>8

LEMMA IsCandidate ==
    ASSUME NEW t, NEW M, NEW read, NEW u, NEW x, Cutting(t, M, read, u, x),
           NEW y, NEW q, Going(t, M, read, u, x, y, q), q < u,
           NEW start \in 1 .. Len(y.rest) - 1, NEW i, i = q + start, Opening(t, i)
    PROVE  CutAt(y, t, q, i, u, start)
<1>1. /\ t \in Seq(Characterset) /\ Len(t) \in Nat /\ u \in Nat /\ u <= Len(t)
  BY CuttingFields
<1>2. q \in Nat /\ q \in 0 .. u /\ y.rest = SubSeq(t, q + 1, u)
  BY <1>1 DEF Going
<1>3. PICK r, a : r = y.rest /\ a = q + 1
  OBVIOUS
<1>4. a \in 1 .. Len(t) + 1 /\ u \in a - 1 .. Len(t) /\ u - a + 1 = u - q /\ r = SubSeq(t, a, u)
  BY <1>1, <1>2, <1>3
<1>5. Len(r) = u - q
  BY <1>1, <1>4, PartOfText
<1>6. start \in Nat /\ start >= 1 /\ start <= u - q - 1 /\ i \in Nat /\ i >= 1 /\ i < u /\ i > q
      /\ i \in q + 1 .. u - 1
  BY <1>1, <1>2, <1>3, <1>5
<1>7. SubSeq(r, start, Len(r)) = SubSeq(t, i, u)
  <2>1. PICK c, d : c = start /\ d = Len(r)
    OBVIOUS
  <2>2. c \in 1 .. u - a + 2 /\ d \in c - 1 .. u - a + 1 /\ a + c - 1 = i /\ a + d - 1 = u
    BY <1>1, <1>2, <1>3, <1>4, <1>5, <1>6, <2>1
  <2>3. SubSeq(SubSeq(t, a, u), c, d) = SubSeq(t, a + c - 1, a + d - 1)
    BY <1>1, <1>4, <2>2, PieceOfPiece
  <2> QED BY <1>4, <2>1, <2>2, <2>3
<1>8. SubSeq(r, 1, start - 1) = SubSeq(t, q + 1, i - 1)
  <2>1. PICK c, d : c = 1 /\ d = start - 1
    OBVIOUS
  <2>2. c \in 1 .. u - a + 2 /\ d \in c - 1 .. u - a + 1 /\ a + c - 1 = q + 1 /\ a + d - 1 = i - 1
    BY <1>1, <1>2, <1>3, <1>4, <1>5, <1>6, <2>1
  <2>3. SubSeq(SubSeq(t, a, u), c, d) = SubSeq(t, a + c - 1, a + d - 1)
    BY <1>1, <1>4, <2>2, PieceOfPiece
  <2> QED BY <1>4, <2>1, <2>2, <2>3
<1>9. PICK c : c = SubSeq(t, i, u)
  OBVIOUS
<1>10. i \in 1 .. Len(t) + 1 /\ u \in i - 1 .. Len(t)
  BY <1>1, <1>6
<1>11. c \in Seq(Characterset) /\ Len(c) = u - i + 1 /\ \A n \in 1 .. u - i + 1 : c[n] = t[i + n - 1]
  BY <1>1, <1>9, <1>10, PartOfText
<1>12. Candidate(c, t, i, u)
  BY <1>1, <1>6, <1>9, <1>11 DEF Candidate, MessageTexts
<1> QED BY <1>3, <1>6, <1>7, <1>8, <1>9, <1>12 DEF CutAt

LEMMA CandidateLetters ==
    ASSUME NEW c, NEW t, NEW i, NEW u, Candidate(c, t, i, u)
    PROVE  /\ Len(c) \in Nat /\ Len(c) >= 2 /\ c[1] = "[" /\ c[2] = "["
           /\ Len(c) >= 3 => c[3] = t[i + 2]
           /\ Len(c) >= 4 => c[4] = t[i + 3]
           /\ Len(c) >= 5 => c[5] = t[i + 4]
           /\ Len(c) >= 6 => c[6] = t[i + 5]
<1>1. Len(c) \in Nat /\ Len(c) >= 2 /\ i \in Nat /\ \A n \in 1 .. Len(c) : c[n] = t[i + n - 1]
  BY DEF Candidate
<1>2. c[1] = t[i] /\ c[2] = t[i + 1]
  <2>1. 1 \in 1 .. Len(c) /\ 2 \in 1 .. Len(c) /\ i + 1 - 1 = i /\ i + 2 - 1 = i + 1
    BY <1>1
  <2> QED BY <1>1, <2>1
<1>3. t[i] = "[" /\ t[i + 1] = "["
  BY DEF Candidate, Opening
<1>4. Len(c) >= 3 => c[3] = t[i + 2]
  <2>1. Len(c) >= 3 => 3 \in 1 .. Len(c) /\ i + 3 - 1 = i + 2
    BY <1>1
  <2> QED BY <1>1, <2>1
<1>5. Len(c) >= 4 => c[4] = t[i + 3]
  <2>1. Len(c) >= 4 => 4 \in 1 .. Len(c) /\ i + 4 - 1 = i + 3
    BY <1>1
  <2> QED BY <1>1, <2>1
<1>6. Len(c) >= 5 => c[5] = t[i + 4]
  <2>1. Len(c) >= 5 => 5 \in 1 .. Len(c) /\ i + 5 - 1 = i + 4
    BY <1>1
  <2> QED BY <1>1, <2>1
<1>7. Len(c) >= 6 => c[6] = t[i + 5]
  <2>1. Len(c) >= 6 => 6 \in 1 .. Len(c) /\ i + 6 - 1 = i + 5
    BY <1>1
  <2> QED BY <1>1, <2>1
<1> QED BY <1>1, <1>2, <1>3, <1>4, <1>5, <1>6, <1>7

(* Where a candidate that is a citation or a cell ends.                    *)
LEMMA CandidateEnds ==
    ASSUME NEW c, NEW t, NEW i, NEW u, Candidate(c, t, i, u)
    PROVE  LET end == Find(c, <<"]", "]">>, 3)
           IN  /\ MarkerAt(t, i) => end = IF Len(c) >= 6 THEN 5 ELSE 0
               /\ CellAt(t, i) => end = IF Len(c) >= 5 THEN 4 ELSE 0
<1>1. /\ Len(c) \in Nat /\ Len(c) >= 2
      /\ Len(c) >= 3 => c[3] = t[i + 2]
      /\ Len(c) >= 4 => c[4] = t[i + 3]
      /\ Len(c) >= 5 => c[5] = t[i + 4]
      /\ Len(c) >= 6 => c[6] = t[i + 5]
  BY CandidateLetters
<1>2. PICK end : end = Find(c, <<"]", "]">>, 3)
  OBVIOUS
<1>3. FoundAt(end, c, "]", "]", 3)
  BY <1>1, <1>2, FindFirst
<1>4. /\ end = 0 => \A n \in 3 .. Len(c) - 1 : ~(c[n] = "]" /\ c[n + 1] = "]")
      /\ end # 0 => /\ end \in 3 .. Len(c) - 1 /\ c[end] = "]" /\ c[end + 1] = "]"
                    /\ \A n \in 3 .. end - 1 : ~(c[n] = "]" /\ c[n + 1] = "]")
  BY <1>3 DEF FoundAt
<1>5. ASSUME MarkerAt(t, i) PROVE end = IF Len(c) >= 6 THEN 5 ELSE 0
  <2>1. t[i + 2] = "cite:" /\ t[i + 3] \in References \cup {Invented} /\ t[i + 4] = "]" /\ t[i + 5] = "]"
    BY <1>5 DEF MarkerAt
  <2>2. t[i + 2] # "]" /\ t[i + 3] # "]"
    BY <2>1, DifferentLetters
  <2>3. end # 3 /\ end # 4
    BY <1>1, <1>4, <2>2
  <2>4. CASE Len(c) >= 6
    <3>1. 5 \in 3 .. Len(c) - 1 /\ c[5] = "]" /\ c[5 + 1] = "]"
      BY <1>1, <2>1, <2>4
    <3>2. end # 0
      BY <1>4, <3>1
    <3>3. ~(5 \in 3 .. end - 1)
      BY <1>4, <3>1, <3>2
    <3> QED BY <1>1, <1>4, <2>3, <2>4, <3>2, <3>3
  <2>5. CASE ~(Len(c) >= 6)
    BY <1>1, <1>4, <2>3, <2>5
  <2> QED BY <2>4, <2>5
<1>6. ASSUME CellAt(t, i) PROVE end = IF Len(c) >= 5 THEN 4 ELSE 0
  <2>1. t[i + 2] = "a" /\ t[i + 3] = "]" /\ t[i + 4] = "]"
    BY <1>6 DEF CellAt
  <2>2. t[i + 2] # "]"
    BY <2>1
  <2>3. end # 3
    BY <1>1, <1>4, <2>2
  <2>4. CASE Len(c) >= 5
    <3>1. 4 \in 3 .. Len(c) - 1 /\ c[4] = "]" /\ c[4 + 1] = "]"
      BY <1>1, <2>1, <2>4
    <3>2. end # 0
      BY <1>4, <3>1
    <3>3. ~(4 \in 3 .. end - 1)
      BY <1>4, <3>1, <3>2
    <3> QED BY <1>1, <1>4, <2>3, <2>4, <3>2, <3>3
  <2>5. CASE ~(Len(c) >= 5)
    BY <1>1, <1>4, <2>3, <2>5
  <2> QED BY <2>4, <2>5
<1> QED BY <1>2, <1>5, <1>6

(* What a complete candidate is shown as.                                  *)
LEMMA CitationShown ==
    ASSUME provider.evidence = References, NEW c, NEW t, NEW i, NEW u, Candidate(c, t, i, u),
           MarkerAt(t, i), Len(c) >= 6
    PROVE  /\ t[i + 3] \in References => MarkerFragments(SubSeq(c, 1, 6)) = <<Cited(t[i + 3])>>
           /\ t[i + 3] = Invented => MarkerFragments(SubSeq(c, 1, 6)) = <<>>
<1>1. /\ Len(c) \in Nat /\ c[1] = "[" /\ c[2] = "[" /\ c[3] = t[i + 2] /\ c[4] = t[i + 3]
  BY CandidateLetters
<1>2. c \in Seq(Characterset)
  BY DEF Candidate, MessageTexts
<1>3. PICK m, k : m = SubSeq(c, 1, k) /\ k = 6
  OBVIOUS
<1>4. m \in Seq(Characterset) /\ Len(m) = 6 /\ \A n \in 1 .. 6 : m[n] = c[n]
  BY <1>1, <1>2, <1>3
<1>5. m[1] = "[" /\ m[2] = "[" /\ m[3] = "cite:" /\ m[4] = t[i + 3]
  <2>1. 1 \in 1 .. 6 /\ 2 \in 1 .. 6 /\ 3 \in 1 .. 6 /\ 4 \in 1 .. 6
    OBVIOUS
  <2>2. m[1] = c[1] /\ m[2] = c[2] /\ m[3] = c[3] /\ m[4] = c[4]
    BY <1>4, <2>1, Zenon
  <2>3. t[i + 2] = "cite:"
    BY DEF MarkerAt
  <2> QED BY <1>1, <2>2, <2>3
<1>6. IsPrefix(Prefix, m)
  <2>1. m \in MessageTexts /\ Len(m) \in Nat /\ Len(m) >= 2 /\ Len(m) >= 3
    BY <1>4 DEF MessageTexts
  <2> QED BY <1>5, <2>1, WaitsFor
<1>7. SubSeq(m, 4, Len(m) - 2) = <<t[i + 3]>>
  <2>1. 4 \in 1 .. Len(m) /\ Len(m) - 2 = 4
    BY <1>4
  <2>2. SubSeq(m, 4, 4) = <<m[4]>>
    BY <1>4, <2>1, OneLetter
  <2> QED BY <1>5, <2>1, <2>2
<1>8. PICK id, d : id = SubSeq(m, 4, Len(m) - 2) /\ d = t[i + 3] /\ id = <<d>> /\ id[1] = d
  <2>1. PICK d : d = t[i + 3]
    OBVIOUS
  <2>2. PICK id : id = <<d>>
    OBVIOUS
  <2>3. id[1] = d
    BY <2>2
  <2> QED BY <1>7, <2>1, <2>2, <2>3
<1>9. MarkerFragments(m) = IF \E r \in References : id = <<r>> THEN <<Cited(id[1])>> ELSE <<>>
  BY <1>6, <1>8 DEF MarkerFragments
<1>10. (\E r \in References : id = <<r>>) <=> d \in References
  <2>1. ASSUME NEW r \in References, id = <<r>> PROVE d \in References
    <3>1. id[1] = r
      BY <2>1
    <3> QED BY <1>8, <3>1
  <2> QED BY <1>8, <2>1
<1>11. d \in References => MarkerFragments(m) = <<Cited(d)>>
  BY <1>8, <1>9, <1>10
<1>12. d = Invented => MarkerFragments(m) = <<>>
  BY <1>9, <1>10, ReferencesAssumption
<1> QED BY <1>3, <1>8, <1>11, <1>12

LEMMA CellShown ==
    ASSUME NEW c, NEW t, NEW i, NEW u, Candidate(c, t, i, u), CellAt(t, i), Len(c) >= 5
    PROVE  MarkerFragments(SubSeq(c, 1, 5)) = <<Fragment(SubSeq(c, 1, 5))>>
<1>1. /\ Len(c) \in Nat /\ c[1] = "[" /\ c[2] = "[" /\ c[3] = t[i + 2]
  BY CandidateLetters
<1>2. c \in Seq(Characterset)
  BY DEF Candidate, MessageTexts
<1>3. PICK m, k : m = SubSeq(c, 1, k) /\ k = 5
  OBVIOUS
<1>4. m \in Seq(Characterset) /\ Len(m) = 5 /\ \A n \in 1 .. 5 : m[n] = c[n]
  BY <1>1, <1>2, <1>3
<1>5. m[1] = "[" /\ m[2] = "[" /\ m[3] = "a"
  <2>1. 1 \in 1 .. 5 /\ 2 \in 1 .. 5 /\ 3 \in 1 .. 5
    OBVIOUS
  <2>2. m[1] = c[1] /\ m[2] = c[2] /\ m[3] = c[3]
    BY <1>4, <2>1, Zenon
  <2>3. t[i + 2] = "a"
    BY DEF CellAt
  <2> QED BY <1>1, <2>2, <2>3
<1>6. ~IsPrefix(Prefix, m)
  <2>1. m \in MessageTexts /\ Len(m) \in Nat /\ Len(m) >= 2 /\ Len(m) >= 3 /\ m[3] # "cite:"
    BY <1>4, <1>5 DEF MessageTexts
  <2> QED BY <1>5, <2>1, WaitsFor
<1>7. MarkerFragments(m) = <<Fragment(m)>>
  BY <1>6 DEF MarkerFragments
<1> QED BY <1>3, <1>7

LEMMA NoneBefore ==
    ASSUME NEW t, NEW M, NEW read, NEW u, NEW x, Cutting(t, M, read, u, x), NEW q \in Nat, NEW i \in Nat,
           FirstOpening(t, q, i), Uncut(M, q), q < i
    PROVE  /\ \A s \in M : ~(q < s /\ s < i)
           /\ i \in M => \A s \in M : s + 5 <= q \/ s = i \/ s > i + 5
           /\ CellAt(t, i) => \A s \in M : s + 5 <= q \/ s > i + 4
           /\ i + 1 <= Len(t) => i \in M \/ CellAt(t, i)
           /\ i \in M => MarkerAt(t, i)
<1>1. /\ Parsed(t, M, read) /\ M \in SUBSET Nat /\ \A s \in M : s >= 1 /\ s + 5 <= Len(t)
      /\ Len(t) \in Nat
  BY CuttingFields
<1>2. \A s \in M : MarkerAt(t, s)
  BY <1>1 DEF Parsed
<1>3. ASSUME NEW s \in M, q < s, s < i PROVE FALSE
  <2>1. s \in q + 1 .. i - 1
    BY <1>1, <1>3
  <2>2. Opening(t, s)
    BY <1>2 DEF MarkerAt, Opening
  <2> QED BY <2>1, <2>2 DEF FirstOpening
<1>4. ASSUME i \in M, NEW s \in M PROVE s + 5 <= q \/ s = i \/ s > i + 5
  <2>1. s + 5 <= q \/ s > q
    BY DEF Uncut
  <2>2. ~(i < s /\ s <= i + 5)
    BY <1>1, <1>4, MarkersApart
  <2>3. s \in Nat
    BY <1>1
  <2> QED BY <1>3, <2>1, <2>2, <2>3
<1>5. ASSUME CellAt(t, i), NEW s \in M PROVE s + 5 <= q \/ s > i + 4
  <2>1. s + 5 <= q \/ s > q
    BY DEF Uncut
  <2>2. ~(i <= s /\ s <= i + 4)
    BY <1>1, <1>5, MarkersApart
  <2>3. s \in Nat
    BY <1>1
  <2> QED BY <1>3, <2>1, <2>2, <2>3
<1>6. ASSUME i + 1 <= Len(t) PROVE i \in M \/ CellAt(t, i)
  <2>1. i \in 1 .. Len(t) - 1
    BY <1>1, <1>6
  <2>2. Opening(t, i)
    BY DEF FirstOpening
  <2> QED BY <1>1, <2>1, <2>2 DEF Parsed
<1> QED BY <1>2, <1>3, <1>4, <1>5, <1>6

(* A complete citation: its number is shown, or nothing.                   *)
LEMMA ScanCitation ==
    ASSUME provider.evidence = References, NEW t, NEW M, NEW read, NEW u, NEW x, Cutting(t, M, read, u, x),
           NEW y, NEW q, Going(t, M, read, u, x, y, q), q < u, NEW i \in q + 1 .. u - 1,
           FirstOpening(t, q, i), NEW c, Candidate(c, t, i, u), i \in M, Len(c) >= 6,
           NEW piece, piece = SubSeq(t, q + 1, i - 1),
           NEW z \in Scans, z = [shown |-> Append(y.shown, Fragment(piece)) \o MarkerFragments(SubSeq(c, 1, 6)),
                         kept |-> <<>>, rest |-> SubSeq(c, 7, Len(c))]
    PROVE  \E e \in q + 1 .. u : Going(t, M, read, u, x, z, e)
<1>1. /\ Parsed(t, M, read) /\ x \in Projections /\ M \in SUBSET Nat
      /\ t \in Seq(Characterset) /\ Len(t) \in Nat /\ u \in Nat /\ u <= Len(t)
      /\ \A v \in 0 .. Len(t) : read[v] \in Readings
  BY CuttingFields
<1>2. q \in Nat /\ q \in 0 .. u /\ Uncut(M, q) /\ ShownTo(x, y.shown, read[q]) /\ y \in Scans
  BY <1>1 DEF Going
<1>3. i \in Nat /\ q < i /\ Len(c) = u - i + 1 /\ c = SubSeq(t, i, u) /\ i + 5 <= u /\ i >= 1 /\ Len(c) \in Nat
  BY <1>1, <1>2 DEF Candidate
<1>4. /\ \A s \in M : ~(q < s /\ s < i)
      /\ \A s \in M : s + 5 <= q \/ s = i \/ s > i + 5
      /\ MarkerAt(t, i)
  BY <1>2, <1>3, NoneBefore, ZenonT(30)
<1>5. PICK e, j : e = i - 1 /\ j = i + 5
  OBVIOUS
<1>6. e \in q .. u /\ e \in 0 .. Len(t) /\ j \in q + 1 .. u /\ j \in 0 .. u /\ j \in Nat
      /\ \A s \in M : ~(q < s /\ s <= e)
  BY <1>1, <1>2, <1>3, <1>4, <1>5
<1>7. PICK shown : shown = Append(y.shown, Fragment(piece)) /\ shown \in Seq(Fragments) /\ ShownTo(x, shown, read[e])
  <2>1. PICK old : old = y.shown /\ old \in Seq(Fragments) /\ ShownTo(x, old, read[q])
    BY <1>2, ScanFields
  <2>2. piece = SubSeq(t, q + 1, e)
    BY <1>5
  <2>3. /\ ShownTo(x, Append(old, Fragment(piece)), read[e])
        /\ Append(old, Fragment(piece)) \in Seq(Fragments)
    BY <1>2, <1>6, <2>1, <2>2, PassageShown
  <2> QED BY <2>1, <2>3
<1>8. PICK d : d = t[i + 3] /\ d \in References \cup {Invented} /\ read[j] = ReadChunk(read[e], d)
  <2>1. read[i + 5] = ReadChunk(read[i - 1], t[i + 3])
    BY <1>1 DEF Parsed
  <2>2. t[i + 3] \in References \cup {Invented}
    BY <1>4 DEF MarkerAt
  <2> QED BY <1>5, <2>1, <2>2
<1>9. PICK old, more : old = read[e] /\ more = read[j] /\ old \in Readings /\ more = ReadChunk(old, d)
                       /\ ShownTo(x, shown, old)
  BY <1>1, <1>6, <1>7, <1>8
<1>10. ShownTo(x, z.shown, more)
  <2>1. z.shown = shown \o MarkerFragments(SubSeq(c, 1, 6))
    BY <1>7
  <2>2. CASE d \in References
    <3>1. MarkerFragments(SubSeq(c, 1, 6)) = <<Cited(d)>>
      BY <1>3, <1>4, <1>8, <2>2, CitationShown
    <3>2. shown \o <<Cited(d)>> = Append(shown, Cited(d))
      <4>1. PICK f : f = Cited(d)
        OBVIOUS
      <4>2. f \in Fragments
        BY <2>2, <4>1 DEF Fragments
      <4>3. PICK S : S = Fragments
        OBVIOUS
      <4>4. shown \in Seq(S) /\ f \in S
        BY <1>7, <4>2, <4>3
      <4>5. shown \o <<f>> = Append(shown, f)
        BY <4>4
      <4> QED BY <4>1, <4>5
    <3>3. ShownTo(x, Append(shown, Cited(d)), ReadChunk(old, d))
      BY <1>1, <1>7, <1>9, <2>2, ShownCited
    <3> QED BY <1>9, <2>1, <3>1, <3>2, <3>3
  <2>3. CASE d = Invented
    <3>1. MarkerFragments(SubSeq(c, 1, 6)) = <<>>
      BY <1>3, <1>4, <1>8, <2>3, CitationShown
    <3>2. shown \o <<>> = shown
      BY <1>7, NothingJoined
    <3>3. ReadChunk(old, d) = old
      BY <2>3, ReferencesAssumption DEF ReadChunk
    <3> QED BY <1>9, <2>1, <3>1, <3>2, <3>3
  <2> QED BY <1>8, <2>2, <2>3
<1>11. z.kept = <<>> /\ z.rest = SubSeq(t, j + 1, u)
  <2>1. z.kept = <<>> /\ z.rest = SubSeq(c, 7, Len(c))
    OBVIOUS
  <2>2. PICK a, b : a = 7 /\ b = Len(c)
    OBVIOUS
  <2>3. i \in 1 .. Len(t) + 1 /\ u \in i - 1 .. Len(t) /\ a \in 1 .. u - i + 2 /\ b \in a - 1 .. u - i + 1
        /\ i + a - 1 = j + 1 /\ i + b - 1 = u
    BY <1>1, <1>3, <1>5, <2>2
  <2>4. SubSeq(SubSeq(t, i, u), a, b) = SubSeq(t, i + a - 1, i + b - 1)
    BY <1>1, <2>3, PieceOfPiece
  <2> QED BY <1>3, <2>1, <2>2, <2>3, <2>4
<1>12. Uncut(M, j)
  <2> SUFFICES ASSUME NEW s \in M PROVE s + 5 <= j \/ s > j
    BY DEF Uncut
  <2>1. s \in Nat /\ (s + 5 <= q \/ s = i \/ s > i + 5)
    BY <1>1, <1>4
  <2> QED BY <1>2, <1>3, <1>5, <2>1
<1>13. Going(t, M, read, u, x, z, j)
  BY <1>6, <1>9, <1>10, <1>11, <1>12 DEF Going
<1> QED BY <1>6, <1>13

(* A complete cell: it is shown as it is.                                  *)
LEMMA ScanCell ==
    ASSUME NEW t, NEW M, NEW read, NEW u, NEW x, Cutting(t, M, read, u, x),
           NEW y, NEW q, Going(t, M, read, u, x, y, q), q < u, NEW i \in q + 1 .. u - 1,
           FirstOpening(t, q, i), NEW c, Candidate(c, t, i, u), CellAt(t, i), Len(c) >= 5,
           NEW piece, piece = SubSeq(t, q + 1, i - 1),
           NEW z \in Scans, z = [shown |-> Append(y.shown, Fragment(piece)) \o MarkerFragments(SubSeq(c, 1, 5)),
                         kept |-> <<>>, rest |-> SubSeq(c, 6, Len(c))]
    PROVE  \E e \in q + 1 .. u : Going(t, M, read, u, x, z, e)
<1>1. /\ Parsed(t, M, read) /\ x \in Projections /\ M \in SUBSET Nat
      /\ t \in Seq(Characterset) /\ Len(t) \in Nat /\ u \in Nat /\ u <= Len(t)
      /\ \A v \in 0 .. Len(t) : read[v] \in Readings
  BY CuttingFields
<1>2. q \in Nat /\ q \in 0 .. u /\ Uncut(M, q) /\ ShownTo(x, y.shown, read[q]) /\ y \in Scans
  BY <1>1 DEF Going
<1>3. i \in Nat /\ q < i /\ Len(c) = u - i + 1 /\ c = SubSeq(t, i, u) /\ i + 4 <= u /\ i >= 1 /\ Len(c) \in Nat
  BY <1>1, <1>2 DEF Candidate
<1>4. /\ \A s \in M : ~(q < s /\ s < i)
      /\ \A s \in M : s + 5 <= q \/ s > i + 4
  BY <1>2, <1>3, NoneBefore
<1>5. PICK e, j : e = i - 1 /\ j = i + 4
  OBVIOUS
<1>6. e \in q .. u /\ e \in 0 .. u /\ j \in q + 1 .. u /\ j \in 0 .. u /\ j \in Nat /\ j \in e .. u
      /\ \A s \in M : ~(q < s /\ s <= e)
  BY <1>1, <1>2, <1>3, <1>4, <1>5
<1>7. PICK shown : shown = Append(y.shown, Fragment(piece)) /\ shown \in Seq(Fragments) /\ ShownTo(x, shown, read[e])
  <2>1. PICK old : old = y.shown /\ old \in Seq(Fragments) /\ ShownTo(x, old, read[q])
    BY <1>2, ScanFields
  <2>2. piece = SubSeq(t, q + 1, e)
    BY <1>5
  <2>3. /\ ShownTo(x, Append(old, Fragment(piece)), read[e])
        /\ Append(old, Fragment(piece)) \in Seq(Fragments)
    BY <1>2, <1>6, <2>1, <2>2, PassageShown
  <2> QED BY <2>1, <2>3
<1>8. PICK m : m = SubSeq(c, 1, 5) /\ m = SubSeq(t, e + 1, j) /\ MarkerFragments(m) = <<Fragment(m)>>
  <2>1. PICK a, b : a = 1 /\ b = 5
    OBVIOUS
  <2>2. i \in 1 .. Len(t) + 1 /\ u \in i - 1 .. Len(t) /\ a \in 1 .. u - i + 2 /\ b \in a - 1 .. u - i + 1
        /\ i + a - 1 = e + 1 /\ i + b - 1 = j
    BY <1>1, <1>3, <1>5, <2>1
  <2>3. SubSeq(SubSeq(t, i, u), a, b) = SubSeq(t, i + a - 1, i + b - 1)
    BY <1>1, <2>2, PieceOfPiece
  <2>4. SubSeq(c, 1, 5) = SubSeq(t, e + 1, j)
    BY <1>3, <2>1, <2>2, <2>3
  <2> QED BY <2>4, CellShown
<1>9. /\ ShownTo(x, Append(shown, Fragment(m)), read[j])
      /\ Append(shown, Fragment(m)) \in Seq(Fragments)
  <2>1. Uncut(M, e) /\ \A s \in M : ~(e < s /\ s <= j)
    <3>1. ASSUME NEW s \in M PROVE (s + 5 <= e \/ s > e) /\ ~(e < s /\ s <= j)
      <4>1. s \in Nat /\ (s + 5 <= q \/ s > i + 4)
        BY <1>1, <1>4
      <4> QED BY <1>2, <1>3, <1>5, <4>1
    <3> QED BY <3>1 DEF Uncut
  <2> QED BY <1>6, <1>7, <1>8, <2>1, PassageShown
<1>10. ShownTo(x, z.shown, read[j])
  <2>1. z.shown = shown \o <<Fragment(m)>>
    BY <1>7, <1>8
  <2>2. shown \o <<Fragment(m)>> = Append(shown, Fragment(m))
    <3>1. PICK f : f = Fragment(m)
      OBVIOUS
    <3>2. PICK S : S = Fragments \cup {f}
      OBVIOUS
    <3>3. shown \in Seq(S) /\ f \in S
      BY <1>7, <3>2
    <3>4. shown \o <<f>> = Append(shown, f)
      BY <3>3
    <3> QED BY <3>1, <3>4
  <2> QED BY <1>9, <2>1, <2>2
<1>11. z.kept = <<>> /\ z.rest = SubSeq(t, j + 1, u)
  <2>1. z.kept = <<>> /\ z.rest = SubSeq(c, 6, Len(c))
    OBVIOUS
  <2>2. PICK a, b : a = 6 /\ b = Len(c)
    OBVIOUS
  <2>3. i \in 1 .. Len(t) + 1 /\ u \in i - 1 .. Len(t) /\ a \in 1 .. u - i + 2 /\ b \in a - 1 .. u - i + 1
        /\ i + a - 1 = j + 1 /\ i + b - 1 = u
    BY <1>1, <1>3, <1>5, <2>2
  <2>4. SubSeq(SubSeq(t, i, u), a, b) = SubSeq(t, i + a - 1, i + b - 1)
    BY <1>1, <2>3, PieceOfPiece
  <2> QED BY <1>3, <2>1, <2>2, <2>3, <2>4
<1>12. Uncut(M, j)
  <2> SUFFICES ASSUME NEW s \in M PROVE s + 5 <= j \/ s > j
    BY DEF Uncut
  <2>1. s \in Nat /\ (s + 5 <= q \/ s > i + 4)
    BY <1>1, <1>4
  <2> QED BY <1>2, <1>3, <1>5, <2>1
<1>13. Going(t, M, read, u, x, z, j)
  BY <1>6, <1>10, <1>11, <1>12 DEF Going
<1> QED BY <1>6, <1>13

(* What may be the beginning of a citation waits.                          *)
LEMMA ScanWaits ==
    ASSUME NEW t, NEW M, NEW read, NEW u, NEW x, Cutting(t, M, read, u, x),
           NEW y, NEW q, Going(t, M, read, u, x, y, q), q < u, NEW i \in q + 1 .. u - 1,
           FirstOpening(t, q, i), NEW c, Candidate(c, t, i, u),
           (i \in M /\ Len(c) < 6) \/ Len(c) < 3,
           NEW piece, piece = SubSeq(t, q + 1, i - 1), NEW z \in Scans, z = Returned(y, piece, c)
    PROVE  \E e \in 0 .. u : StoppedAt(t, M, read, u, x, z, e)
<1>1. M \in SUBSET Nat /\ u \in Nat
  BY CuttingFields
<1>2. q \in Nat /\ q \in 0 .. u /\ Uncut(M, q)
  BY <1>1 DEF Going
<1>3. i \in Nat /\ q < i /\ Len(c) = u - i + 1 /\ c = SubSeq(t, i, u)
  BY <1>1, <1>2 DEF Candidate
<1>4. /\ \A s \in M : ~(q < s /\ s < i)
      /\ i \in M => \A s \in M : s + 5 <= q \/ s = i \/ s > i + 5
  BY <1>2, <1>3, NoneBefore
<1>5. PICK e : e = i - 1
  OBVIOUS
<1>6. e \in q .. u /\ e \in 0 .. u /\ e + 1 = i /\ \A s \in M : ~(q < s /\ s <= e)
  BY <1>1, <1>2, <1>3, <1>4, <1>5
<1>7. ASSUME NEW s \in M, s > e PROVE s + 5 > u
  <2>1. s \in Nat /\ s >= i
    BY <1>1, <1>3, <1>6, <1>7
  <2>2. u < i + 5
    BY <1>1, <1>3
  <2> QED BY <1>1, <1>3, <2>1, <2>2
<1>8. piece = SubSeq(t, q + 1, e) /\ c = SubSeq(t, e + 1, u)
  BY <1>3, <1>5, <1>6
<1>9. StoppedAt(t, M, read, u, x, z, e)
  BY <1>6, <1>7, <1>8, ReturnedStops
<1> QED BY <1>6, <1>9

(* The beginning of a cell that is no citation any more is shown.          *)
LEMMA ScanNoCitation ==
    ASSUME NEW t, NEW M, NEW read, NEW u, NEW x, Cutting(t, M, read, u, x),
           NEW y, NEW q, Going(t, M, read, u, x, y, q), q < u, NEW i \in q + 1 .. u - 1,
           FirstOpening(t, q, i), NEW c, Candidate(c, t, i, u), CellAt(t, i), Len(c) < 5,
           NEW z \in Scans, z = Returned(y, y.rest, <<>>)
    PROVE  \E e \in 0 .. u : StoppedAt(t, M, read, u, x, z, e)
<1>1. M \in SUBSET Nat /\ u \in Nat
  BY CuttingFields
<1>2. q \in Nat /\ q \in 0 .. u /\ Uncut(M, q) /\ y.rest = SubSeq(t, q + 1, u)
  BY <1>1 DEF Going
<1>3. i \in Nat /\ q < i /\ Len(c) = u - i + 1
  BY <1>1, <1>2 DEF Candidate
<1>4. \A s \in M : s + 5 <= q \/ s > i + 4
  BY <1>2, <1>3, NoneBefore
<1>5. PICK e, piece, kept : e = u /\ piece = SubSeq(t, q + 1, e) /\ kept = SubSeq(t, e + 1, u)
  OBVIOUS
<1>6. e \in q .. u /\ e \in 0 .. u /\ \A s \in M : ~(q < s /\ s <= e)
  BY <1>1, <1>2, <1>3, <1>4, <1>5
<1>7. kept = <<>> /\ piece = y.rest
  <2>1. t \in Seq(Characterset) /\ Len(t) \in Nat /\ u <= Len(t)
    BY CuttingFields
  <2> QED BY <1>1, <1>2, <1>5, <2>1
<1>8. z = Returned(y, piece, kept)
  BY <1>7
<1>9. \A s \in M : s > e => s + 5 > u
  BY <1>1, <1>5
<1>10. StoppedAt(t, M, read, u, x, z, e)
  BY <1>5, <1>6, <1>8, <1>9, ReturnedStops
<1> QED BY <1>6, <1>10

LEMMA ThirdLetter ==
    ASSUME NEW c, NEW t, NEW i, NEW u, Candidate(c, t, i, u)
    PROVE  Third(c, t, i)
BY CandidateLetters DEF Third

LEMMA ScanBracketed ==
    ASSUME provider.evidence = References, NEW t, NEW M, NEW read, NEW u, NEW x, Cutting(t, M, read, u, x),
           NEW y, NEW q, Going(t, M, read, u, x, y, q), q < u,
           NEW start \in 1 .. Len(y.rest) - 1, NEW i, i = q + start, FirstOpening(t, q, i),
           NEW z \in Scans, z = Bracketed(y, start)
    PROVE  MovesOn(t, M, read, u, x, z, q)
<1>0. Opening(t, i)
  BY DEF FirstOpening
<1>1. PICK c, piece : /\ c = SubSeq(y.rest, start, Len(y.rest)) /\ Candidate(c, t, i, u)
                      /\ piece = SubSeq(y.rest, 1, start - 1) /\ piece = SubSeq(t, q + 1, i - 1)
  <2>1. CutAt(y, t, q, i, u, start)
    BY <1>0, IsCandidate
  <2> QED BY <2>1 DEF CutAt
<1>2. i \in q + 1 .. u - 1
  <2>1. CutAt(y, t, q, i, u, start)
    BY <1>0, IsCandidate
  <2> QED BY <2>1 DEF CutAt
<1>3. Len(c) \in Nat /\ Len(c) >= 2 /\ c[1] = "[" /\ c[2] = "[" /\ Third(c, t, i)
      /\ c \in MessageTexts
  <2>1. c \in MessageTexts
    BY <1>1 DEF Candidate
  <2>2. Len(c) \in Nat /\ Len(c) >= 2 /\ c[1] = "[" /\ c[2] = "["
    BY <1>1, CandidateLetters
  <2> QED BY <1>1, <2>1, <2>2, ThirdLetter
<1>4. PICK end : end = Find(c, <<"]", "]">>, 3)
  OBVIOUS
<1>5. /\ end # 0 => z = [shown |-> Append(y.shown, Fragment(piece)) \o MarkerFragments(SubSeq(c, 1, end + 1)),
                         kept |-> <<>>, rest |-> SubSeq(c, end + 2, Len(c))]
      /\ end = 0 /\ Waits(c) => z = Returned(y, piece, c)
      /\ end = 0 /\ ~Waits(c) => z = Returned(y, y.rest, <<>>)
  BY <1>1, <1>4 DEF Bracketed
<1>6. (i \in M /\ MarkerAt(t, i)) \/ CellAt(t, i)
  <2>1. i \in Nat /\ q \in Nat /\ q < i /\ i + 1 <= Len(t) /\ Uncut(M, q)
    <3>1. u \in Nat
      BY CuttingFields
    <3>2. q \in Nat /\ Uncut(M, q)
      BY <3>1 DEF Going
    <3>3. i \in Nat /\ i < u /\ u <= Len(t) /\ Len(t) \in Nat
      BY <1>1 DEF Candidate
    <3> QED BY <1>2, <3>1, <3>2, <3>3
  <2> QED BY <2>1, NoneBefore
<1>7. CASE i \in M /\ MarkerAt(t, i)
  <2>1. end = IF Len(c) >= 6 THEN 5 ELSE 0
    BY <1>1, <1>4, <1>7, CandidateEnds
  <2>2. CASE Len(c) >= 6
    <3>1. end # 0 /\ end + 1 = 6 /\ end + 2 = 7
      BY <2>1, <2>2
    <3>2. z = [shown |-> Append(y.shown, Fragment(piece)) \o MarkerFragments(SubSeq(c, 1, 6)),
               kept |-> <<>>, rest |-> SubSeq(c, 7, Len(c))]
      BY <1>5, <3>1
    <3>3. \E e \in q + 1 .. u : Going(t, M, read, u, x, z, e)
      BY <1>1, <1>2, <1>7, <2>2, <3>2, ScanCitation
    <3> QED BY <3>3 DEF MovesOn
  <2>3. CASE ~(Len(c) >= 6)
    <3>1. t[i + 2] = "cite:"
      BY <1>7 DEF MarkerAt
    <3>2. Len(c) <= 5 /\ Len(c) < 6 /\ (Len(c) >= 3 => c[3] = "cite:")
      BY <1>3, <2>3, <3>1 DEF Third
    <3>3. Waits(c)
      BY <1>3, <3>2, WaitsFor
    <3>4. z = Returned(y, piece, c)
      BY <1>5, <2>1, <2>3, <3>3
    <3>5. \E e \in 0 .. u : StoppedAt(t, M, read, u, x, z, e)
      BY <1>1, <1>2, <1>7, <3>2, <3>4, ScanWaits
    <3> QED BY <3>5 DEF MovesOn
  <2> QED BY <2>2, <2>3
<1>8. CASE CellAt(t, i)
  <2>1. end = IF Len(c) >= 5 THEN 4 ELSE 0
    BY <1>1, <1>4, <1>8, CandidateEnds
  <2>2. CASE Len(c) >= 5
    <3>1. end # 0 /\ end + 1 = 5 /\ end + 2 = 6
      BY <2>1, <2>2
    <3>2. z = [shown |-> Append(y.shown, Fragment(piece)) \o MarkerFragments(SubSeq(c, 1, 5)),
               kept |-> <<>>, rest |-> SubSeq(c, 6, Len(c))]
      BY <1>5, <3>1
    <3>3. \E e \in q + 1 .. u : Going(t, M, read, u, x, z, e)
      BY <1>1, <1>2, <1>8, <2>2, <3>2, ScanCell
    <3> QED BY <3>3 DEF MovesOn
  <2>3. CASE Len(c) < 3
    <3>1. end = 0
      BY <1>3, <2>1, <2>3
    <3>2. Len(c) <= 5 /\ (Len(c) >= 3 => c[3] = "cite:")
      BY <1>3, <2>3
    <3>3. Waits(c)
      BY <1>3, <3>2, WaitsFor
    <3>4. z = Returned(y, piece, c)
      BY <1>5, <3>1, <3>3
    <3>5. \E e \in 0 .. u : StoppedAt(t, M, read, u, x, z, e)
      BY <1>1, <1>2, <2>3, <3>4, ScanWaits
    <3> QED BY <3>5 DEF MovesOn
  <2>4. CASE Len(c) >= 3 /\ Len(c) < 5
    <3>1. end = 0
      BY <1>3, <2>1, <2>4
    <3>2. t[i + 2] = "a"
      BY <1>8 DEF CellAt
    <3>3. c[3] # "cite:"
      BY <1>3, <2>4, <3>2 DEF Third
    <3>4. ~Waits(c)
      BY <1>3, <2>4, <3>3, WaitsFor
    <3>5. z = Returned(y, y.rest, <<>>)
      BY <1>5, <3>1, <3>4
    <3>6. \E e \in 0 .. u : StoppedAt(t, M, read, u, x, z, e)
      BY <1>1, <1>2, <1>8, <2>4, <3>5, ScanNoCitation
    <3> QED BY <3>6 DEF MovesOn
  <2> QED BY <1>3, <2>2, <2>3, <2>4
<1> QED BY <1>6, <1>7, <1>8

(* One turn of the loop.                                                   *)
LEMMA ScanMoves ==
    ASSUME Provided, provider.evidence # {}, NEW t, NEW M, NEW read, NEW u, NEW x, Cutting(t, M, read, u, x),
           NEW y, NEW q, Going(t, M, read, u, x, y, q), q < u, NEW step
    PROVE  MovesOn(t, M, read, u, x, Scan(y, step), q)
<1>1. PICK z : z = Scan(y, step) /\ z \in Scans
  <2>1. y \in Scans
    BY DEF Going
  <2> QED BY <2>1, ScanTyped
<1>2. /\ t \in Seq(Characterset) /\ Len(t) \in Nat /\ u \in Nat /\ u <= Len(t)
  BY CuttingFields
<1>3. q \in Nat /\ y.rest = SubSeq(t, q + 1, u)
  BY <1>2 DEF Going
<1>4. PICK r, a : r = y.rest /\ a = q + 1
  OBVIOUS
<1>5. Len(r) = u - q /\ \A n \in 1 .. u - q : r[n] = t[q + n]
  <2>1. a \in 1 .. Len(t) + 1 /\ u \in a - 1 .. Len(t) /\ u - a + 1 = u - q
        /\ (\A n \in 1 .. u - q : a + n - 1 = q + n) /\ r = SubSeq(t, a, u)
    BY <1>2, <1>3, <1>4
  <2>2. Len(r) = u - a + 1 /\ \A n \in 1 .. u - a + 1 : r[n] = t[a + n - 1]
    BY <1>2, <2>1, PartOfText
  <2> QED BY <2>1, <2>2
<1>6. r # <<>>
  BY <1>2, <1>3, <1>5
<1>7. PICK start : start = Find(r, <<"[", "[">>, 1)
  OBVIOUS
<1>8. FoundAt(start, r, "[", "[", 1)
  <2>1. Len(r) \in Nat
    BY <1>2, <1>3, <1>5
  <2> QED BY <1>7, <2>1, FindFirst
<1>9. ASSUME NEW v \in q + 1 .. u - 1, Opening(t, v)
      PROVE  \E n \in 1 .. Len(r) - 1 : v = q + n /\ r[n] = "[" /\ r[n + 1] = "["
  <2>1. PICK n : n = v - q
    OBVIOUS
  <2>2. n \in 1 .. Len(r) - 1 /\ v = q + n /\ n \in 1 .. u - q /\ n + 1 \in 1 .. u - q /\ v + 1 = q + (n + 1)
    BY <1>2, <1>3, <1>5, <2>1
  <2>3. r[n] = "[" /\ r[n + 1] = "["
    BY <1>5, <1>9, <2>2 DEF Opening
  <2> QED BY <2>2, <2>3
<1>10. CASE start = 0
  <2>1. z = Unbracketed(y)
    BY <1>1, <1>4, <1>6, <1>7, <1>10 DEF Scan
  <2>2. \A n \in 1 .. Len(r) - 1 : ~(r[n] = "[" /\ r[n + 1] = "[")
    BY <1>8, <1>10 DEF FoundAt
  <2>3. \A v \in q + 1 .. u - 1 : ~Opening(t, v)
    BY <1>9, <2>2
  <2>4. \E e \in 0 .. u : StoppedAt(t, M, read, u, x, z, e)
    BY <1>1, <2>1, <2>3, ScanUnbracketed
  <2> QED BY <1>1, <2>4 DEF MovesOn
<1>11. CASE start # 0
  <2>1. z = Bracketed(y, start)
    BY <1>1, <1>4, <1>6, <1>7, <1>11 DEF Scan
  <2>2. /\ start \in 1 .. Len(r) - 1 /\ r[start] = "[" /\ r[start + 1] = "["
        /\ \A n \in 1 .. start - 1 : ~(r[n] = "[" /\ r[n + 1] = "[")
    BY <1>8, <1>11 DEF FoundAt
  <2>3. PICK i : i = q + start
    OBVIOUS
  <2>4. i + 1 = q + (start + 1) /\ start \in 1 .. u - q /\ start + 1 \in 1 .. u - q /\ i - 1 < u
    BY <1>2, <1>3, <1>5, <2>2, <2>3
  <2>5. Opening(t, i)
    BY <1>5, <2>2, <2>3, <2>4 DEF Opening
  <2>6. ASSUME NEW v \in q + 1 .. i - 1, Opening(t, v) PROVE FALSE
    <3>1. v \in q + 1 .. u - 1
      BY <1>2, <1>3, <1>5, <2>2, <2>3
    <3>2. PICK n \in 1 .. Len(r) - 1 : v = q + n /\ r[n] = "[" /\ r[n + 1] = "["
      BY <1>9, <2>6, <3>1
    <3>3. n \in 1 .. start - 1
      BY <1>2, <1>3, <1>5, <2>2, <2>3, <3>2
    <3> QED BY <2>2, <3>2, <3>3
  <2>7. FirstOpening(t, q, i)
    BY <2>5, <2>6 DEF FirstOpening
  <2>8. provider.evidence = References
    BY DEF Provided
  <2>9. start \in 1 .. Len(y.rest) - 1
    BY <1>4, <2>2
  <2>10. MovesOn(t, M, read, u, x, z, q)
    BY <1>1, <2>1, <2>3, <2>7, <2>8, <2>9, ScanBracketed
  <2> QED BY <1>1, <2>10
<1> QED BY <1>10, <1>11

LEMMA AllShown ==
    ASSUME NEW t, NEW M, NEW read, NEW u, NEW x, Cutting(t, M, read, u, x), NEW y,
           Going(t, M, read, u, x, y, u)
    PROVE  StoppedAt(t, M, read, u, x, y, u) /\ y.rest = <<>>
<1>1. t \in Seq(Characterset) /\ Len(t) \in Nat /\ u \in Nat /\ u <= Len(t) /\ M \in SUBSET Nat
  BY CuttingFields
<1>2. SubSeq(t, u + 1, u) = <<>>
  BY <1>1
<1>3. Waiting(M, u, u)
  <2>1. Uncut(M, u)
    BY DEF Going
  <2> QED BY <1>1, <2>1 DEF Uncut, Waiting
<1> QED BY <1>2, <1>3 DEF Going, StoppedAt

(* The loop comes to its end, and cuts no citation.                        *)
LEMMA ProcessStops ==
    ASSUME Provided, provider.evidence # {}, NEW t, NEW M, NEW read, NEW u, NEW x,
           Cutting(t, M, read, u, x), NEW p \in 0 .. u, Uncut(M, p), Agrees(x, read[p]),
           NEW buffer, buffer = SubSeq(t, p + 1, u)
    PROVE  \E e \in 0 .. u : StoppedAt(t, M, read, u, x, Process(buffer), e)
<1>1. /\ t \in Seq(Characterset) /\ Len(t) \in Nat /\ u \in Nat /\ u <= Len(t) /\ x \in Projections
  BY CuttingFields
<1>2. p \in Nat /\ p <= u
  BY <1>1
<1>3. buffer \in MessageTexts /\ Len(buffer) = u - p
  <2>1. PICK m : m = p + 1
    OBVIOUS
  <2>2. m \in 1 .. Len(t) + 1 /\ u \in m - 1 .. Len(t) /\ u - m + 1 = u - p
    BY <1>1, <1>2, <2>1
  <2>3. SubSeq(t, m, u) \in Seq(Characterset) /\ Len(SubSeq(t, m, u)) = u - m + 1
    BY <1>1, <2>2, PartOfText
  <2> QED BY <2>1, <2>2, <2>3 DEF MessageTexts
<1> DEFINE Stops(y) == \E e \in 0 .. u : StoppedAt(t, M, read, u, x, y, e)
           Goes(y, q) == Going(t, M, read, u, x, y, q)
           base == [shown |-> <<>>, kept |-> <<>>, rest |-> buffer]
           D == [n \in Nat |-> {y \in Scans : Stops(y) \/ \E q \in 0 .. u : Goes(y, q) /\ q >= p + n}]
<1>4. Goes(base, p)
  <2>1. PICK a, b : a = <<>> /\ b = <<>> /\ a \in Seq(Fragments) /\ b \in MessageTexts /\ Len(b) <= MaxMarkerLength
    <3>1. PICK a, b : a = <<>> /\ b = <<>>
      OBVIOUS
    <3>2. Len(b) = 0 /\ a \in Seq(Fragments) /\ b \in Seq(Characterset)
      BY <3>1
    <3>3. MaxMarkerLength \in Nat
      BY ReferencesAssumption
    <3>4. Len(b) <= MaxMarkerLength /\ b \in MessageTexts
      BY <3>2, <3>3 DEF MessageTexts
    <3> QED BY <3>1, <3>2, <3>4
  <2>2. base = [shown |-> a, kept |-> b, rest |-> buffer] /\ base.shown = a /\ base.kept = b /\ base.rest = buffer
    BY <2>1
  <2>3. base \in Scans
    BY <1>3, <2>1, <2>2, IsScan
  <2>4. Folded(Forward, x, <<>>) = x
    <3>1. PICK s, E : s = <<>> /\ E = {1} /\ s \in Seq(E) /\ 1 \in E
      <4>1. PICK s, E : s = <<>> /\ E = {1}
        OBVIOUS
      <4>2. s \in Seq(E) /\ 1 \in E
        BY <4>1
      <4> QED BY <4>1, <4>2
    <3> QED BY <3>1, ForwardOne
  <2>5. ShownTo(x, base.shown, read[p])
    BY <2>1, <2>2, <2>4 DEF ShownTo
  <2> HIDE DEF base
  <2> QED BY <2>1, <2>2, <2>3, <2>5 DEF Going
<1> HIDE DEF base
<1>5. base \in D[0]
  <2>1. base \in Scans
    BY <1>4 DEF Going
  <2> HIDE DEF Goes, Stops
  <2> QED BY <1>2, <1>4, <2>1
<1>6. ASSUME NEW y, NEW step, y \in Scans, Stops(y) PROVE Scan(y, step) \in Scans /\ Stops(Scan(y, step))
  <2>1. PICK e \in 0 .. u : StoppedAt(t, M, read, u, x, y, e)
    BY <1>6
  <2>2. y.rest = <<>>
    BY <2>1 DEF StoppedAt
  <2>3. Scan(y, step) = y
    BY <1>6, <2>2, ScanTyped
  <2> HIDE DEF Stops
  <2> QED BY <1>6, <2>3
<1>7. ASSUME NEW n \in 1 .. Len(buffer), NEW y \in D[n - 1]
      PROVE  Scan(y, buffer[n]) \in D[n]
  <2>1. n \in Nat /\ n - 1 \in Nat
    BY <1>1, <1>2, <1>3
  <2>2. y \in Scans /\ (Stops(y) \/ \E q \in 0 .. u : Goes(y, q) /\ q >= p + (n - 1))
    <3> HIDE DEF Stops, Goes
    <3> QED BY <2>1
  <2>3. PICK z, step : z = Scan(y, step) /\ step = buffer[n] /\ z \in Scans
    BY <2>2, ScanTyped
  <2>4. CASE Stops(y)
    <3>1. z \in Scans /\ Stops(z)
      <4> HIDE DEF Stops
      <4> QED BY <1>6, <2>2, <2>3, <2>4
    <3> HIDE DEF Stops, Goes
    <3> QED BY <2>1, <2>3, <3>1
  <2>5. ASSUME NEW q \in 0 .. u, Goes(y, q), q >= p + (n - 1) PROVE z \in D[n]
    <3>1. CASE q = u
      <4>1. StoppedAt(t, M, read, u, x, y, u)
        BY <2>5, <3>1, AllShown
      <4>2. u \in 0 .. u
        BY <1>1
      <4>3. Stops(y)
        BY <4>1, <4>2
      <4>4. Stops(z)
        <5> HIDE DEF Stops
        <5> QED BY <1>6, <2>2, <2>3, <4>3
      <4> HIDE DEF Stops, Goes
      <4> QED BY <2>1, <2>3, <4>4
    <3>2. CASE q # u
      <4>1. q < u
        BY <1>1, <3>2
      <4>2. MovesOn(t, M, read, u, x, Scan(y, step), q)
        BY <2>5, <4>1, ScanMoves
      <4>3. Stops(z) \/ \E e \in q + 1 .. u : Goes(z, e)
        BY <2>3, <4>2 DEF MovesOn
      <4>4. ASSUME NEW e \in q + 1 .. u, Goes(z, e) PROVE \E r \in 0 .. u : Goes(z, r) /\ r >= p + n
        <5>1. e \in 0 .. u /\ e >= p + n
          BY <1>1, <1>2, <2>1, <2>5
        <5> HIDE DEF Goes
        <5> QED BY <4>4, <5>1
      <4>5. Stops(z) \/ \E r \in 0 .. u : Goes(z, r) /\ r >= p + n
        <5> HIDE DEF Stops, Goes
        <5> QED BY <4>3, <4>4
      <4> HIDE DEF Stops, Goes
      <4> QED BY <2>1, <2>3, <4>5
    <3> QED BY <3>1, <3>2
  <2> HIDE DEF Stops, Goes, D
  <2> QED BY <2>2, <2>3, <2>4, <2>5
<1>8. PICK f : ScanFold(f, buffer, base, D)
  <2>1. Len(buffer) \in Nat
    BY <1>1, <1>2, <1>3
  <2> HIDE DEF D
  <2> QED BY <1>5, <1>7, <2>1, ScanLoop
<1>9. Process(buffer) \in D[u - p]
  <2>1. Process(buffer) = Folded(Scan, base, buffer)
    BY DEF Process, base
  <2>2. Len(buffer) \in 0 .. Len(buffer)
    BY <1>1, <1>2, <1>3
  <2> HIDE DEF D
  <2> QED BY <1>3, <1>8, <2>1, <2>2 DEF ScanFold
<1>10. PICK z : z = Process(buffer)
  OBVIOUS
<1>11. Stops(z) \/ \E q \in 0 .. u : Goes(z, q) /\ q >= p + (u - p)
  <2>1. u - p \in Nat
    BY <1>1, <1>2
  <2> HIDE DEF Stops, Goes
  <2> QED BY <1>9, <1>10, <2>1
<1>12. ASSUME NEW q \in 0 .. u, Goes(z, q), q >= p + (u - p) PROVE Stops(z)
  <2>1. q = u
    BY <1>1, <1>2, <1>12
  <2>2. StoppedAt(t, M, read, u, x, z, u)
    BY <1>12, <2>1, AllShown
  <2> QED BY <2>1, <2>2
<1>13. Stops(z)
  <2> HIDE DEF Stops, Goes
  <2> QED BY <1>11, <1>12
<1> QED BY <1>10, <1>13

-----------------------------------------------------------------------------
(* The beginning of an answer, and all of it *)

LEMMA ReadingStays ==
    ASSUME SameResponse
    PROVE  /\ Text' = Text /\ Reading' = Reading /\ Closed' = Closed /\ Message' = Message
           /\ FullText(Message) = Text /\ (FullText(Message))' = Text
<1>1. Text' = Text /\ Message' = Message
  BY ResponseStays
<1>2. provider'.reply = provider.reply /\ provider'.evidence = provider.evidence
  BY DEF SameResponse
<1>3. Reading' = Reading
  BY <1>1, <1>2 DEF Reading
<1>4. Closed' = Closed
  BY <1>2 DEF Closed
<1>5. FullText(Message) = Text /\ (FullText(Message))' = Text
  BY <1>1 DEF FullText
<1> QED BY <1>1, <1>3, <1>4, <1>5

(* The projection is left alone.                                           *)
LEMMA MidwayStays ==
    ASSUME Midway, SameResponse, projection' = projection,
           provider'.sent[Message] = provider.sent[Message],
           provider.stage[Message] \notin {"new", "added"}
                => provider'.stage[Message] \notin {"new", "added"}
    PROVE  Midway'
<1>1. /\ Text' = Text /\ Reading' = Reading /\ Closed' = Closed /\ Message' = Message
      /\ FullText(Message) = Text /\ (FullText(Message))' = Text
  BY ReadingStays
<1>2. provider'.evidence = provider.evidence
  BY DEF SameResponse
<1> SUFFICES ASSUME Closed', ~CutShort', (provider.evidence # {})'
             PROVE  Caught(Text, Reading, projection, provider.sent[Message])'
  BY DEF Midway
<1>3. ~CutShort
  BY <1>1 DEF CutShort, Whole
<1>4. Caught(Text, Reading, projection, provider.sent[Message])
  BY <1>1, <1>2, <1>3 DEF Midway
<1> QED BY <1>1, <1>4

LEMMA MidwayBegins ==
    ASSUME StreamInit
    PROVE  Midway
<1> SUFFICES ASSUME Closed, ~CutShort, provider.evidence # {}
             PROVE  Caught(Text, Reading, projection, provider.sent[Message])
  BY DEF Midway
<1>1. Provided /\ StreamRight
  BY StreamBegins DEF StreamRight
<1>2. provider.sent[Message] = 0
  <2>1. Message \in Items
    BY <1>1, ProviderFields
  <2>2. PICK reply \in Replies, kinds \in Shapes, issued \in {{}, References} :
          provider = [reply |-> reply, kinds |-> kinds, evidence |-> issued,
                      sent |-> [i \in DOMAIN kinds |-> 0],
                      stage |-> [i \in DOMAIN kinds |-> "new"], ended |-> "no"]
    BY DEF StreamInit, InitProvider
  <2>3. provider.kinds = kinds /\ provider.sent = [i \in DOMAIN kinds |-> 0]
    BY <2>2
  <2> QED BY <2>1, <2>3 DEF Items
<1>3. PICK M, read : Parsed(Text, M, read) /\ read[Len(Text)] = Reading
  BY <1>1, ReplyParsed DEF Readable, ParsedUpTo
<1>4. Text \in Seq(Characterset) /\ Len(Text) \in Nat /\ M \in SUBSET (1 .. Len(Text)) /\ read[0] = Unread
  BY <1>3, ParsedFields DEF Parsed
<1>5. projection.text = <<>> /\ projection.known = <<>> /\ projection.annotations = <<>>
      /\ projection.kept = <<>>
  BY DEF StreamInit, InitProjection
<1>6. Agrees(projection, read[0])
  <2>1. PICK r : r = Unread
    OBVIOUS
  <2>2. r.text = <<>> /\ r.known = <<>> /\ r.annotations = <<>>
    BY <2>1 DEF Unread
  <2> QED BY <1>4, <1>5, <2>1, <2>2 DEF Agrees
<1>7. SubSeq(Text, 0 + 1, 0) = <<>>
  BY <1>4
<1>8. Waiting(M, 0, 0)
  BY <1>4 DEF Waiting
<1>9. 0 \in 0 .. Len(Text) /\ 0 \in 0 .. 0
  BY <1>4
<1>10. MidwayAt(Text, M, read, 0, projection, 0)
  BY <1>3, <1>5, <1>6, <1>7, <1>8, <1>9 DEF MidwayAt
<1> QED BY <1>2, <1>3, <1>10 DEF Caught

(* An item moves on to a later stage.                                      *)
LEMMA LaterStage ==
    ASSUME Provided, NEW i \in Items, NEW new \in {"added", "written", "closed", "done"},
           new = "added" => provider.stage[i] = "new", new = "written" => provider.sent[i] > 0,
           provider' = [provider EXCEPT !.stage[i] = new]
    PROVE  /\ SameResponse /\ provider'.sent = provider.sent
           /\ provider.stage[Message] \notin {"new", "added"}
                => provider'.stage[Message] \notin {"new", "added"}
<1>1. PICK stage : stage = [provider.stage EXCEPT ![i] = new]
  OBVIOUS
<1>2. Moved(provider.sent, stage, provider.ended)
  BY <1>1, ProviderMoves
<1>3. new \in ItemStages \ {"new"}
  BY DEF ItemStages
<1>4. SameResponse /\ provider'.sent = provider.sent /\ provider'.stage = stage
  BY <1>1, <1>2, <1>3, StageMoves
<1>5. Message \in Items /\ provider.stage \in [Items -> ItemStages]
  BY ProviderFields
<1>6. provider.stage[Message] \notin {"new", "added"} => stage[Message] \notin {"new", "added"}
  BY <1>1, <1>5
<1> QED BY <1>4, <1>6

LEMMA AddItemMidway ==
    ASSUME StreamRight, Midway, NEW i \in Items, AddItem(i)
    PROVE  Midway'
<1>1. /\ Provided /\ ProjectionRight /\ provider.stage[i] = "new"
      /\ provider' = [provider EXCEPT !.stage[i] = "added"] /\ Emit(ItemAddedOf(i, NoItem))
  BY DEF AddItem, At, Open, ItemAddedOf, StreamRight
<1>2. PICK new : new = "added"
  OBVIOUS
<1>3. /\ SameResponse /\ provider'.sent = provider.sent
      /\ provider.stage[Message] \notin {"new", "added"}
                => provider'.stage[Message] \notin {"new", "added"}
  <2>1. new \in {"added", "written", "closed", "done"} /\ new # "written"
        /\ provider' = [provider EXCEPT !.stage[i] = new]
    BY <1>1, <1>2
  <2> QED BY <1>1, <2>1, LaterStage
<1>4. PICK event, d : event = ItemAddedOf(i, NoItem) /\ d = Deliver(Readers, event)
  OBVIOUS
<1>5. event.type = "item added"
  BY <1>4 DEF ItemAddedOf
<1>6. projection' = projection
  BY <1>1, <1>4, <1>5, UntouchedEmitted
<1> QED BY <1>3, <1>6, MidwayStays

LEMMA OtherDeltaMidway ==
    ASSUME StreamRight, Midway, NEW i \in Items, SendDelta(i), i # Message
    PROVE  Midway'
<1>1. Provided /\ ProjectionRight /\ provider.stage[i] # "new" /\ Message \in Items
  BY ProviderFields DEF StreamRight, SendDelta, At
<1>2. PICK upto \in provider.sent[i] + 1 .. Len(FullText(i)) : SendsDelta(i, upto)
  BY DEF SendDelta, SendsDelta, DeltaOf
<1>3. PICK sent, text, event, d :
        /\ sent = [provider.sent EXCEPT ![i] = upto]
        /\ text = SubSeq(FullText(i), provider.sent[i] + 1, upto)
        /\ event = DeltaOf(i, text) /\ d = Deliver(Readers, event)
  OBVIOUS
<1>4. Moved(sent, provider.stage, provider.ended)
  BY <1>1, <1>2, <1>3, ProviderMoves DEF SendsDelta
<1>5. SameResponse /\ provider'.sent = sent /\ provider'.stage = provider.stage
  BY <1>1, <1>3, <1>4, SentMoves
<1>6. sent[Message] = provider.sent[Message]
  BY <1>1, <1>3, ProviderFields
<1>7. event.index = i /\ Emit(event)
  BY <1>2, <1>3 DEF DeltaOf, SendsDelta
<1>8. projection' = projection
  BY <1>1, <1>3, <1>7, UntouchedEmitted
<1> QED BY <1>5, <1>6, <1>8, MidwayStays

LEMMA OtherTextMidway ==
    ASSUME StreamRight, Midway, NEW i \in Items, EndText(i), i # Message
    PROVE  Midway'
<1>1. /\ Provided /\ ProjectionRight /\ provider.sent[i] > 0
      /\ provider' = [provider EXCEPT !.stage[i] = "written"] /\ Emit(TextDoneOf(i, SentText(i)))
  BY DEF EndText, At, Open, TextDoneOf, StreamRight
<1>2. PICK new, event, d : new = "written" /\ event = TextDoneOf(i, SentText(i)) /\ d = Deliver(Readers, event)
  OBVIOUS
<1>3. /\ SameResponse /\ provider'.sent = provider.sent
      /\ provider.stage[Message] \notin {"new", "added"}
                => provider'.stage[Message] \notin {"new", "added"}
  <2>1. new \in {"added", "written", "closed", "done"} /\ new # "added"
        /\ provider' = [provider EXCEPT !.stage[i] = new]
    BY <1>1, <1>2
  <2> QED BY <1>1, <2>1, LaterStage
<1>4. event.index = i
  BY <1>2 DEF TextDoneOf
<1>5. projection' = projection
  BY <1>1, <1>2, <1>4, UntouchedEmitted
<1> QED BY <1>3, <1>5, MidwayStays

LEMMA EndPartMidway ==
    ASSUME StreamRight, Midway, NEW i \in Items, EndPart(i)
    PROVE  Midway'
<1>1. /\ Provided /\ ProjectionRight /\ Synced(Readers, Shown, Begun, "in_progress")
      /\ provider.ended = "no" /\ provider.stage[i] = "written" /\ i = Message
      /\ provider' = [provider EXCEPT !.stage[i] = "closed"] /\ Emit(PartDoneOf(i, Full(i)))
      /\ Begun \in SUBSET Items
  BY LiveReaders DEF EndPart, At, Open, PartDoneOf
<1>2. PICK new : new = "closed"
  OBVIOUS
<1>3. /\ SameResponse /\ provider'.sent = provider.sent
      /\ provider.stage[Message] \notin {"new", "added"}
                => provider'.stage[Message] \notin {"new", "added"}
  <2>1. new \in {"added", "written", "closed", "done"} /\ new # "added" /\ new # "written"
        /\ provider' = [provider EXCEPT !.stage[i] = new]
    BY <1>1, <1>2
  <2> QED BY <1>1, <2>1, LaterStage
<1>4. i \in Begun
  BY <1>1 DEF Begun
<1>5. projection' = projection
  <2>1. PICK event : event = PartDoneOf(Message, Full(Message))
    OBVIOUS
  <2>2. LeftAlone(Project(event), Begun, "in_progress")
    <3>1. provider.sent[Message] > 0
      BY <1>1, ProviderFields
    <3> QED BY <1>1, <1>4, <2>1, <3>1, PartDoneKept
  <2> QED BY <1>1, <2>1, <2>2, KeptEmitted
<1> QED BY <1>3, <1>5, MidwayStays

LEMMA EndItemMidway ==
    ASSUME StreamRight, Midway, NEW i \in Items, EndItem(i)
    PROVE  Midway'
<1>1. /\ Provided /\ ProjectionRight /\ Synced(Readers, Shown, Begun, "in_progress")
      /\ provider.ended = "no" /\ provider.stage[i] # "new"
      /\ provider' = [provider EXCEPT !.stage[i] = "done"] /\ Begun \in SUBSET Items
  BY LiveReaders DEF EndItem, At, Open
<1>2. PICK item \in {Full(i)} \cup (IF provider.kinds[i] = "call" THEN {} ELSE {NoItem}) :
        Emit(ItemDoneOf(i, item))
  BY DEF EndItem, ItemDoneOf
<1>3. PICK new : new = "done"
  OBVIOUS
<1>4. /\ SameResponse /\ provider'.sent = provider.sent
      /\ provider.stage[Message] \notin {"new", "added"}
                => provider'.stage[Message] \notin {"new", "added"}
  <2>1. new \in {"added", "written", "closed", "done"} /\ new # "added" /\ new # "written"
        /\ provider' = [provider EXCEPT !.stage[i] = new]
    BY <1>1, <1>3
  <2> QED BY <1>1, <2>1, LaterStage
<1>5. i \in Begun
  BY <1>1 DEF Begun
<1>6. projection' = projection
  <2>1. PICK event : event = ItemDoneOf(i, item)
    OBVIOUS
  <2>2. item = Full(i) \/ (item = NoItem /\ provider.kinds[i] # "call")
    BY <1>2
  <2>3. LeftAlone(Project(event), Begun, "in_progress")
    BY <1>1, <1>5, <2>1, <2>2, ItemDoneKept
  <2> QED BY <1>2, <2>1, <2>3, KeptEmitted
<1> QED BY <1>4, <1>6, MidwayStays

(* What begins and what ends the stream.                                   *)
LEMMA OutsideMidway ==
    ASSUME StreamRight, Midway,
           \/ Create \/ CompleteResponse \/ Stop \/ Error \/ BreakConnection \/ UNCHANGED streamVars
    PROVE  Midway'
<1>1. Provided /\ ProjectionRight
  BY DEF StreamRight
<1>2. PICK ended \in Ends : Moved(provider.sent, provider.stage, ended)
  <2>1. Moved(provider.sent, provider.stage, provider.ended) \/ \E new \in Ends : provider' = [provider EXCEPT !.ended = new]
    BY <1>1, ProviderMoves DEF Create, CompleteResponse, Stop, Error, BreakConnection, streamVars, Ends
  <2> QED BY <1>1, <2>1, ProviderMoves, ProviderFields
<1>3. SameResponse /\ provider'.sent = provider.sent /\ provider'.stage = provider.stage
  BY <1>1, <1>2, EndMoves
<1>4. projection' = projection
  <2>1. projection' = projection \/ \E event : Emit(event) /\ event.type \in {"created", "terminal", "error"}
    <3>1. ASSUME Create PROVE \E event : Emit(event) /\ event.type = "created"
      <4>1. PICK event : event = [type |-> "created"]
        OBVIOUS
      <4> QED BY <3>1, <4>1 DEF Create
    <3>2. ASSUME Error PROVE \E event : Emit(event) /\ event.type = "error"
      <4>1. PICK event : event = [type |-> "error"]
        OBVIOUS
      <4> QED BY <3>2, <4>1 DEF Error
    <3>3. ASSUME NEW st, NEW output, Emit(TerminalOf(st, output))
          PROVE \E event : Emit(event) /\ event.type = "terminal"
      <4>1. PICK event : event = TerminalOf(st, output)
        OBVIOUS
      <4>2. event.type = "terminal"
        BY <4>1 DEF TerminalOf
      <4> QED BY <3>3, <4>1, <4>2
    <3>4. CompleteResponse \/ Stop => \E st, output : Emit(TerminalOf(st, output))
      BY DEF CompleteResponse, Stop, TerminalOf
    <3>5. BreakConnection \/ UNCHANGED streamVars => projection' = projection
      BY DEF BreakConnection, streamVars
    <3> QED BY <3>1, <3>2, <3>3, <3>4, <3>5
  <2>2. ASSUME NEW event, Emit(event), event.type \in {"created", "terminal", "error"}
        PROVE  projection' = projection
    <3>1. PICK d : d = Deliver(Readers, event)
      OBVIOUS
    <3> QED BY <1>1, <2>2, <3>1, UntouchedEmitted
  <2> QED BY <2>1, <2>2
<1> QED BY <1>3, <1>4, MidwayStays

LEMMA KeptReplaced ==
    ASSUME NEW y \in Projections, NEW kept
    PROVE  [y EXCEPT !.kept = kept, !.started = TRUE]
           = [text |-> y.text, kept |-> kept, annotations |-> y.annotations, known |-> y.known,
              started |-> TRUE, out |-> y.out]
<1>1. y = [text |-> y.text, kept |-> y.kept, annotations |-> y.annotations, known |-> y.known,
           started |-> y.started, out |-> y.out]
  BY ProjectionFields
<1>2. PICK p : p = [y EXCEPT !.kept = kept, !.started = TRUE]
  OBVIOUS
<1>3. p = [text |-> y.text, kept |-> kept, annotations |-> y.annotations, known |-> y.known,
           started |-> TRUE, out |-> y.out]
  BY <1>1, <1>2
<1> QED BY <1>2, <1>3

(* What the projection holds after a delta of the message.                 *)
LEMMA DeltaLeaves ==
    ASSUME Provided, ProjectionRight, provider.evidence # {}, NEW text \in MessageTexts,
           NEW event, event = DeltaOf(Message, text), Emit(event),
           NEW scan, scan = Process(projection.kept \o text),
           NEW y, y = Folded(Forward, projection, scan.shown)
    PROVE  /\ projection'.text = y.text /\ projection'.known = y.known
           /\ projection'.annotations = y.annotations /\ projection'.kept = scan.kept
<1>1. event.type = "delta" /\ event.index = Message /\ event.text = text
  BY DEF DeltaOf
<1>2. PICK p : p = Project(event)
  OBVIOUS
<1>3. p = [y EXCEPT !.kept = scan.kept, !.started = TRUE]
  <2>1. p = ProjectDelta(event)
    BY <1>1, <1>2 DEF Project
  <2>2. ProjectDelta(event) = [y EXCEPT !.kept = scan.kept, !.started = TRUE]
    BY <1>1 DEF ProjectDelta
  <2> QED BY <2>1, <2>2
<1>4. projection \in Projections /\ projection.kept \in MessageTexts
  BY ProjectionFields DEF ProjectionRight
<1>5. scan \in Scans
  <2>1. projection.kept \o text \in MessageTexts
    BY <1>4 DEF MessageTexts
  <2> QED BY <2>1, ProcessTyped
<1>6. scan.shown \in Seq(Fragments)
  BY <1>5, ScanFields
<1>7. y \in Projections
  BY <1>4, <1>6, ForwardedIn
<1>8. PICK d : d = Folded(Deliver, Readers, p.out)
  OBVIOUS
<1>9. projection' = [p EXCEPT !.out = <<>>]
  BY <1>2, <1>8, Emitted
<1>10. PICK a, c, known, f, kept :
        a = y.text /\ c = y.annotations /\ known = y.known /\ f = y.out /\ kept = scan.kept
  OBVIOUS
<1>11. p = [text |-> a, kept |-> kept, annotations |-> c, known |-> known, started |-> TRUE, out |-> f]
  BY <1>3, <1>7, <1>10, KeptReplaced
<1>12. projection' = [text |-> a, kept |-> kept, annotations |-> c, known |-> known,
                      started |-> TRUE, out |-> <<>>]
  BY <1>9, <1>11
<1>13. projection'.text = a /\ projection'.known = known /\ projection'.annotations = c
       /\ projection'.kept = kept
  BY <1>12
<1> QED BY <1>10, <1>13

(* What is held back and the delta are a piece of the text.                *)
LEMMA BufferIs ==
    ASSUME NEW t, NEW M, NEW read, NEW n, NEW x, NEW p, MidwayAt(t, M, read, n, x, p),
           NEW upto \in n .. Len(t)
    PROVE  /\ x.kept \o SubSeq(t, n + 1, upto) = SubSeq(t, p + 1, upto)
           /\ p \in 0 .. upto /\ upto \in 0 .. Len(t) /\ Uncut(M, p)
<1>1. t \in Seq(Characterset) /\ Len(t) \in Nat /\ M \in SUBSET (1 .. Len(t))
  BY ParsedFields DEF MidwayAt
<1>2. n \in 0 .. Len(t) /\ p \in 0 .. n /\ x.kept = SubSeq(t, p + 1, n) /\ Waiting(M, p, n)
  BY DEF MidwayAt
<1>3. PICK m : m = p + 1
  OBVIOUS
<1>4. m \in 1 .. Len(t) + 1 /\ n \in m - 1 .. Len(t)
  BY <1>1, <1>2, <1>3
<1>5. SubSeq(t, m, upto) = SubSeq(t, m, n) \o SubSeq(t, n + 1, upto)
  BY <1>1, <1>4, PiecesJoin
<1>6. p \in 0 .. upto /\ upto \in 0 .. Len(t)
  BY <1>1, <1>2
<1>7. Uncut(M, p)
  BY <1>2 DEF Waiting, Uncut
<1> QED BY <1>2, <1>3, <1>5, <1>6, <1>7

LEMMA MessageDeltaMidway ==
    ASSUME StreamRight, Midway, SendDelta(Message), provider.evidence # {}
    PROVE  Midway'
<1>1. /\ Provided /\ ProjectionRight /\ provider.stage[Message] = "added" /\ Message \in Items
  BY ProviderFields DEF StreamRight, SendDelta, At
<1>2. PICK upto \in provider.sent[Message] + 1 .. Len(FullText(Message)) : SendsDelta(Message, upto)
  BY DEF SendDelta, SendsDelta, DeltaOf
<1>3. PICK n : n = provider.sent[Message]
  OBVIOUS
<1>4. PICK sent, text, event :
        /\ sent = [provider.sent EXCEPT ![Message] = upto]
        /\ text = SubSeq(FullText(Message), n + 1, upto)
        /\ event = DeltaOf(Message, text)
  OBVIOUS
<1>5. Moved(sent, provider.stage, provider.ended) /\ Emit(event)
  BY <1>1, <1>2, <1>3, <1>4, ProviderMoves DEF SendsDelta
<1>6. SameResponse /\ provider'.sent = sent /\ text \in MessageTexts
  BY <1>1, <1>3, <1>4, <1>5, SentMoves
<1>7. /\ Text' = Text /\ Reading' = Reading /\ Closed' = Closed /\ Message' = Message
      /\ FullText(Message) = Text
  BY <1>6, ReadingStays
<1>8. sent[Message] = upto /\ n \in Nat /\ Len(Text) \in Nat
  BY <1>1, <1>3, <1>4, <1>7, ProviderFields
<1>9. ~CutShort
  BY <1>1 DEF CutShort
<1> SUFFICES ASSUME Closed
             PROVE  Caught(Text, Reading, projection', upto)
  <2>1. (provider.sent[Message])' = upto
    BY <1>6, <1>7, <1>8
  <2> QED BY <1>7, <2>1 DEF Midway
<1>10. PICK t, r : t = Text /\ r = Reading
  OBVIOUS
<1>11. PICK M, read, p : MidwayAt(t, M, read, n, projection, p) /\ read[Len(t)] = r
  BY <1>3, <1>9, <1>10 DEF Midway, Caught
<1>12. PICK buffer : buffer = SubSeq(t, p + 1, upto)
  OBVIOUS
<1>13. projection.kept \o text = buffer /\ p \in 0 .. upto /\ upto \in 0 .. Len(t) /\ Uncut(M, p)
  <2>1. upto \in n .. Len(t) /\ text = SubSeq(t, n + 1, upto)
    BY <1>3, <1>4, <1>7, <1>8, <1>10
  <2>2. /\ projection.kept \o SubSeq(t, n + 1, upto) = SubSeq(t, p + 1, upto)
        /\ p \in 0 .. upto /\ upto \in 0 .. Len(t) /\ Uncut(M, p)
    BY <1>11, <2>1, BufferIs
  <2> QED BY <1>12, <2>1, <2>2
<1>14. PICK scan, y : scan = Process(buffer) /\ y = Folded(Forward, projection, scan.shown)
  OBVIOUS
<1>15. Cutting(t, M, read, upto, projection) /\ Agrees(projection, read[p])
  BY <1>1, <1>11, <1>13 DEF Cutting, MidwayAt, ProjectionRight
<1>16. PICK e \in 0 .. upto : StoppedAt(t, M, read, upto, projection, scan, e)
  BY <1>1, <1>12, <1>13, <1>14, <1>15, ProcessStops
<1>17. /\ projection'.text = y.text /\ projection'.known = y.known
       /\ projection'.annotations = y.annotations /\ projection'.kept = scan.kept
  BY <1>1, <1>4, <1>5, <1>6, <1>13, <1>14, DeltaLeaves
<1>18. Agrees(projection', read[e])
  <2>1. Agrees(y, read[e])
    BY <1>14, <1>16 DEF StoppedAt, ShownTo
  <2> QED BY <1>17, <2>1 DEF Agrees
<1>19. scan.kept = SubSeq(t, e + 1, upto) /\ Waiting(M, e, upto)
  BY <1>16 DEF StoppedAt
<1>20. MidwayAt(t, M, read, upto, projection', e)
  BY <1>13, <1>15, <1>17, <1>18, <1>19 DEF MidwayAt, Cutting
<1> QED BY <1>10, <1>11, <1>20 DEF Caught

(* What the projection holds after the end of the message's text.          *)
LEMMA TextDoneLeaves ==
    ASSUME Provided, ProjectionRight, provider.evidence # {}, NEW text,
           NEW event, event = TextDoneOf(Message, text), Emit(event),
           NEW y, y = Forward(projection, Fragment(projection.kept))
    PROVE  /\ projection'.text = y.text /\ projection'.known = y.known
           /\ projection'.annotations = y.annotations /\ projection'.kept = <<>>
<1>1. event.type = "text done" /\ event.index = Message
  BY DEF TextDoneOf
<1>2. projection \in Projections /\ projection.kept \in MessageTexts
  BY ProjectionFields DEF ProjectionRight
<1>3. y \in Projections /\ (projection.kept = <<>> => y = projection)
  BY <1>2, ForwardText
<1>4. PICK flushed : flushed = IF projection.kept = <<>> THEN projection
                               ELSE [y EXCEPT !.kept = <<>>, !.started = TRUE]
  OBVIOUS
<1>5. PICK started, kept : /\ kept = <<>>
        /\ flushed = [text |-> y.text, kept |-> kept, annotations |-> y.annotations, known |-> y.known,
                      started |-> started, out |-> y.out]
  <2>1. PICK kept : kept = <<>>
    OBVIOUS
  <2>2. CASE projection.kept = kept
    <3>1. flushed = y /\ y.kept = kept
      BY <1>3, <1>4, <2>1, <2>2
    <3>2. y = [text |-> y.text, kept |-> y.kept, annotations |-> y.annotations, known |-> y.known,
               started |-> y.started, out |-> y.out]
      BY <1>3, ProjectionFields
    <3> QED BY <2>1, <3>1, <3>2
  <2>3. CASE projection.kept # kept
    <3>1. PICK started : started = TRUE
      OBVIOUS
    <3>2. flushed = [y EXCEPT !.kept = kept, !.started = TRUE]
      BY <1>4, <2>1, <2>3
    <3>3. flushed = [text |-> y.text, kept |-> kept, annotations |-> y.annotations, known |-> y.known,
                     started |-> TRUE, out |-> y.out]
      BY <1>3, <3>2, KeptReplaced
    <3>4. flushed = [text |-> y.text, kept |-> kept, annotations |-> y.annotations, known |-> y.known,
                     started |-> started, out |-> y.out]
      BY <3>1, <3>3
    <3> QED BY <2>1, <3>4
  <2> QED BY <2>2, <2>3
<1>6. PICK p, o : p = Project(event) /\ o = Append(flushed.out, [event EXCEPT !.text = flushed.text])
  OBVIOUS
<1>7. p = [flushed EXCEPT !.out = o]
  <2>1. p = ProjectTextDone(event)
    BY <1>1, <1>6 DEF Project
  <2>2. ProjectTextDone(event) = [flushed EXCEPT !.out = Append(@, [event EXCEPT !.text = flushed.text])]
    BY <1>4 DEF ProjectTextDone
  <2>3. [flushed EXCEPT !.out = Append(@, [event EXCEPT !.text = flushed.text])] = [flushed EXCEPT !.out = o]
    BY <1>6
  <2> QED BY <2>1, <2>2, <2>3
<1>8. PICK d : d = Folded(Deliver, Readers, p.out)
  OBVIOUS
<1>9. projection' = [p EXCEPT !.out = <<>>]
  BY <1>6, <1>8, Emitted
<1>10. p = [text |-> y.text, kept |-> kept, annotations |-> y.annotations, known |-> y.known,
            started |-> started, out |-> o]
  BY <1>5, <1>7
<1>11. projection' = [text |-> y.text, kept |-> kept, annotations |-> y.annotations, known |-> y.known,
                      started |-> started, out |-> <<>>]
  BY <1>9, <1>10
<1>12. projection'.text = y.text /\ projection'.known = y.known /\ projection'.annotations = y.annotations
       /\ projection'.kept = kept
  BY <1>11
<1> QED BY <1>5, <1>12

(* Once all of the text was sent, what is held back is no citation.        *)
LEMMA HeldIsText ==
    ASSUME NEW t, NEW M, NEW read, NEW x \in Projections, NEW p,
           MidwayAt(t, M, read, Len(t), x, p),
           NEW y, y = Forward(x, Fragment(x.kept)), NEW z,
           z.text = y.text, z.known = y.known, z.annotations = y.annotations, z.kept = <<>>
    PROVE  MidwayAt(t, M, read, Len(t), z, Len(t))
<1>1. /\ Parsed(t, M, read) /\ p \in 0 .. Len(t) /\ Agrees(x, read[p])
      /\ x.kept = SubSeq(t, p + 1, Len(t)) /\ Waiting(M, p, Len(t))
  BY DEF MidwayAt
<1>2. t \in Seq(Characterset) /\ Len(t) \in Nat /\ M \in SUBSET (1 .. Len(t))
  BY <1>1, ParsedFields
<1>3. PICK u : u = Len(t)
  OBVIOUS
<1>4. u \in Nat /\ p \in Nat /\ p <= u /\ u \in p .. Len(t) /\ u \in 0 .. Len(t) /\ u \in 0 .. u
  BY <1>1, <1>2, <1>3
<1>5. ASSUME NEW s \in M PROVE s + 5 <= p
  <2>1. s + 5 <= p \/ (s > p /\ s + 5 > Len(t))
    BY <1>1 DEF Waiting
  <2>2. s + 5 <= Len(t)
    BY <1>1 DEF Parsed, MarkerAt
  <2>3. s \in Nat
    BY <1>2
  <2> QED BY <1>2, <2>1, <2>2, <2>3
<1>6. \A q \in p + 1 .. u : ~Inside(M, q)
  <2> SUFFICES ASSUME NEW q \in p + 1 .. u, NEW s \in M, s <= q, q <= s + 5 PROVE FALSE
    BY DEF Inside
  <2>1. s \in Nat /\ s + 5 <= p
    BY <1>2, <1>5
  <2> QED BY <1>4, <2>1
<1>7. Longer(read[u], read[p], SubSeq(t, p + 1, u))
  BY <1>1, <1>4, <1>6, PassageRead
<1>8. Agrees(y, read[u])
  <2>1. x.kept \in MessageTexts
    BY ProjectionFields
  <2>2. Longer(read[u], read[p], x.kept)
    BY <1>1, <1>3, <1>7
  <2> QED BY <1>1, <2>1, <2>2, AgreesLonger
<1>9. Agrees(z, read[u])
  BY <1>8 DEF Agrees
<1>10. SubSeq(t, u + 1, u) = <<>>
  BY <1>2, <1>4
<1>11. Waiting(M, u, u)
  <2> SUFFICES ASSUME NEW s \in M PROVE s + 5 <= u
    BY DEF Waiting
  <2>1. s \in Nat /\ s + 5 <= p
    BY <1>2, <1>5
  <2> QED BY <1>4, <2>1
<1> QED BY <1>1, <1>3, <1>4, <1>9, <1>10, <1>11 DEF MidwayAt

LEMMA MessageTextMidway ==
    ASSUME StreamRight, Midway, EndText(Message), provider.evidence # {}
    PROVE  Midway'
<1>1. /\ Provided /\ ProjectionRight /\ provider.sent[Message] > 0 /\ provider.stage[Message] = "added"
      /\ provider' = [provider EXCEPT !.stage[Message] = "written"]
      /\ Emit(TextDoneOf(Message, SentText(Message))) /\ Message \in Items
  BY ProviderFields DEF EndText, At, Open, TextDoneOf, StreamRight
<1>2. PICK stage : stage = [provider.stage EXCEPT ![Message] = "written"]
  OBVIOUS
<1>3. Moved(provider.sent, stage, provider.ended)
  BY <1>1, <1>2, ProviderMoves
<1>4. SameResponse /\ provider'.sent = provider.sent /\ provider'.stage = stage
  <2>1. PICK new : new = "written"
    OBVIOUS
  <2>2. new \in ItemStages \ {"new"}
    BY <2>1 DEF ItemStages
  <2> QED BY <1>1, <1>2, <1>3, <2>1, <2>2, StageMoves
<1>5. /\ Text' = Text /\ Reading' = Reading /\ Closed' = Closed /\ Message' = Message
      /\ FullText(Message) = Text /\ (FullText(Message))' = Text
  BY <1>4, ReadingStays
<1>6. stage[Message] = "written"
  BY <1>1, <1>2, ProviderFields
<1>7. ~CutShort
  BY <1>1 DEF CutShort
<1> SUFFICES ASSUME Closed, ~CutShort'
             PROVE  Caught(Text, Reading, projection', provider.sent[Message])
  <2>1. (provider.sent[Message])' = provider.sent[Message]
    BY <1>4, <1>5
  <2> QED BY <1>5, <2>1 DEF Midway
<1>8. provider.sent[Message] = Len(Text)
  BY <1>4, <1>5, <1>6 DEF CutShort, Whole
<1>9. PICK t, r : t = Text /\ r = Reading
  OBVIOUS
<1>10. PICK M, read, p : MidwayAt(t, M, read, Len(t), projection, p) /\ read[Len(t)] = r
  BY <1>1, <1>7, <1>8, <1>9 DEF Midway, Caught
<1>11. PICK event, y, z : event = TextDoneOf(Message, SentText(Message))
        /\ y = Forward(projection, Fragment(projection.kept)) /\ z = projection'
  OBVIOUS
<1>12. z.text = y.text /\ z.known = y.known /\ z.annotations = y.annotations /\ z.kept = <<>>
  BY <1>1, <1>11, TextDoneLeaves
<1>13. projection \in Projections
  BY <1>1 DEF ProjectionRight
<1>14. MidwayAt(t, M, read, Len(t), z, Len(t))
  BY <1>10, <1>11, <1>12, <1>13, HeldIsText
<1> QED BY <1>8, <1>9, <1>10, <1>11, <1>14 DEF Caught

(* Where no citation is tracked, there is nothing to be midway in.         *)
LEMMA UntrackedMidway ==
    ASSUME provider.evidence = {}, SameResponse
    PROVE  Midway'
BY DEF Midway, SameResponse

LEMMA MidwayKeeps ==
    ASSUME StreamRight, Midway, [StreamNext]_streamVars
    PROVE  Midway'
<1>1. Provided /\ Message \in Items
  BY ProviderFields DEF StreamRight
<1>2. CASE Create \/ CompleteResponse \/ Stop \/ Error \/ BreakConnection \/ UNCHANGED streamVars
  BY <1>2, OutsideMidway
<1>3. ASSUME NEW i \in Items, AddItem(i) PROVE Midway'
  BY <1>3, AddItemMidway
<1>4. ASSUME NEW i \in Items, SendDelta(i) PROVE Midway'
  <2>1. CASE i # Message
    BY <1>4, <2>1, OtherDeltaMidway
  <2>2. CASE i = Message /\ provider.evidence # {}
    BY <1>4, <2>2, MessageDeltaMidway
  <2>3. CASE provider.evidence = {}
    <3>1. PICK upto : provider' = [provider EXCEPT !.sent[i] = upto]
      BY <1>4 DEF SendDelta
    <3>2. Moved([provider.sent EXCEPT ![i] = upto], provider.stage, provider.ended)
      BY <1>1, <3>1, ProviderMoves
    <3>3. SameResponse
      BY <3>2 DEF Moved, SameResponse
    <3> QED BY <2>3, <3>3, UntrackedMidway
  <2> QED BY <2>1, <2>2, <2>3
<1>5. ASSUME NEW i \in Items, EndText(i) PROVE Midway'
  <2>1. CASE i # Message
    BY <1>5, <2>1, OtherTextMidway
  <2>2. CASE i = Message /\ provider.evidence # {}
    BY <1>5, <2>2, MessageTextMidway
  <2>3. CASE provider.evidence = {}
    <3>1. provider' = [provider EXCEPT !.stage[i] = "written"]
      BY <1>5 DEF EndText
    <3>2. Moved(provider.sent, [provider.stage EXCEPT ![i] = "written"], provider.ended)
      BY <1>1, <3>1, ProviderMoves
    <3>3. SameResponse
      BY <3>2 DEF Moved, SameResponse
    <3> QED BY <2>3, <3>3, UntrackedMidway
  <2> QED BY <2>1, <2>2, <2>3
<1>6. ASSUME NEW i \in Items, EndPart(i) PROVE Midway'
  BY <1>6, EndPartMidway
<1>7. ASSUME NEW i \in Items, EndItem(i) PROVE Midway'
  BY <1>7, EndItemMidway
<1> QED BY <1>2, <1>3, <1>4, <1>5, <1>6, <1>7 DEF StreamNext

LEMMA TrackedBeginning ==
    ASSUME StreamRight, Midway, Closed, ~CutShort, provider.evidence # {}
    PROVE  BeginningShown(projection.text, projection.annotations)
<1>1. Provided /\ ProjectionRight /\ FullText(Message) = Text
  BY DEF StreamRight, FullText
<1>2. PICK t, r, n : t = Text /\ r = Reading /\ n = provider.sent[Message]
  OBVIOUS
<1>3. PICK M, read, p : MidwayAt(t, M, read, n, projection, p) /\ read[Len(t)] = r
  BY <1>2 DEF Midway, Caught
<1>4. /\ Parsed(t, M, read) /\ n \in 0 .. Len(t) /\ p \in 0 .. n /\ Agrees(projection, read[p])
      /\ projection.kept = SubSeq(t, p + 1, n)
  BY <1>3 DEF MidwayAt
<1>5. t \in Seq(Characterset) /\ Len(t) \in Nat /\ \A q \in 0 .. Len(t) : read[q] \in Readings
  BY <1>4, ParsedFields
<1>6. p \in 0 .. Len(t) /\ Len(t) \in p .. Len(t) /\ Len(t) \in 0 .. Len(t)
  BY <1>4, <1>5
<1>7. Grown(read[p], r) /\ read[p] \in Readings /\ r \in Readings
  <2>1. PICK e : e = Len(t)
    OBVIOUS
  <2>2. Grown(read[p], read[e])
    BY <1>4, <1>6, <2>1, ReadingGrows
  <2> QED BY <1>3, <1>5, <1>6, <2>1, <2>2
<1>8. PICK s : s = read[p]
  OBVIOUS
<1>9. projection.text = s.text /\ projection.annotations = s.annotations /\ projection.known = s.known
  BY <1>4, <1>8 DEF Agrees
<1>10. /\ s.text \in Seq(Characterset) /\ s.annotations \in Seq(Annotations)
       /\ r.text \in Seq(Characterset) /\ r.annotations \in Seq(Annotations)
  BY <1>7, <1>8, ReadingFields DEF MessageTexts
<1>11. Begins(s.text, r.text) /\ Begins(s.annotations, r.annotations)
  BY <1>7, <1>8 DEF Grown
<1>12. ASSUME Whole(Message), projection.kept = <<>> PROVE s = r
  <2>1. n = Len(t)
    BY <1>1, <1>2, <1>12 DEF Whole
  <2>2. Len(SubSeq(t, p + 1, n)) = 0
    BY <1>4, <1>12
  <2>3. Len(SubSeq(t, p + 1, n)) = n - p
    <3>1. p \in Nat /\ n \in Nat /\ p <= n
      BY <1>4, <1>5
    <3> QED BY <1>5, <2>1, <3>1
  <2>4. p = Len(t)
    BY <1>5, <1>6, <2>1, <2>2, <2>3
  <2> QED BY <1>3, <1>8, <2>4
<1> QED BY <1>2, <1>9, <1>10, <1>11, <1>12 DEF BeginningShown

LEMMA PlainBeginning ==
    ASSUME StreamRight, provider.evidence = {}
    PROVE  BeginningShown(SentText(Message), <<>>)
<1>1. Provided /\ ProjectionRight /\ FullText(Message) = Text /\ Message \in Items
  BY ProviderFields DEF StreamRight, FullText
<1>2. PICK t, r, n : t = Text /\ r = Reading /\ n = provider.sent[Message]
  OBVIOUS
<1>3. t \in Seq(Characterset) /\ Len(t) \in Nat /\ n \in 0 .. Len(t)
  <2>1. t \in MessageTexts
    BY <1>1, <1>2, WrittenTyped DEF Provided, Text
  <2> QED BY <1>1, <1>2, <2>1, ProviderFields DEF MessageTexts
<1>4. r.text = t /\ r.known = <<>> /\ r.annotations = <<>>
  <2>1. PICK x, y : x = Text /\ y = <<>>
    OBVIOUS
  <2>2. r = [[text |-> y, known |-> y, annotations |-> y] EXCEPT !.text = x]
    BY <1>2, <2>1 DEF Reading
  <2>3. r = [text |-> x, known |-> y, annotations |-> y]
    BY <2>2
  <2> QED BY <1>2, <2>1, <2>3
<1>5. PICK a : a = SentText(Message)
  OBVIOUS
<1>6. a = SubSeq(t, 1, n)
  BY <1>1, <1>2, <1>5 DEF SentText
<1>7. a \in Seq(Characterset) /\ Len(a) = n /\ \A q \in 1 .. n : a[q] = t[q]
  BY <1>3, <1>6
<1>8. Begins(a, t)
  BY <1>3, <1>7 DEF Begins
<1>9. PICK c : c = <<>> /\ c \in Seq(Annotations)
  <2>1. PICK c : c = <<>>
    OBVIOUS
  <2>2. c \in Seq(Annotations)
    BY <2>1
  <2> QED BY <2>1, <2>2
<1>10. Begins(c, c)
  BY <1>9, BeginsWith
<1>11. projection.known = <<>>
  <2>1. projection = Blank
    BY <1>1 DEF ProjectionRight
  <2> QED BY <2>1 DEF Blank
<1>12. Whole(Message) => a = t
  BY <1>1, <1>2, <1>3, <1>6 DEF Whole
<1>13. BeginningShown(a, c)
  BY <1>2, <1>3, <1>4, <1>7, <1>8, <1>9, <1>10, <1>11, <1>12 DEF BeginningShown
<1> QED BY <1>5, <1>9, <1>13

LEMMA BrowserAndServerShow ==
    ASSUME StreamRight, Midway, Closed, ~CutShort, Streamed(Message)
    PROVE  \E a, c : /\ BeginningShown(a, c)
                     /\ web.items[Message].text = a /\ web.items[Message].annotations = c
                     /\ reducer.items[Message].text = a /\ reducer.items[Message].annotations = c
<1>1. Provided /\ ProjectionRight /\ Message \in Items
  BY ProviderFields DEF StreamRight
<1>2. Message \in Begun
  BY <1>1 DEF Begun, Streamed
<1>3. PICK a, c : BeginningShown(a, c) /\ Shown[Message].text = a /\ Shown[Message].annotations = c
  <2>1. CASE provider.evidence # {}
    <3>1. PICK x : x = Shown[Message]
      OBVIOUS
    <3>2. x = [text |-> projection.text, annotations |-> projection.annotations, phase |-> "none"]
      BY <1>1, <2>1, <3>1, ShownTyped
    <3>3. x.text = projection.text /\ x.annotations = projection.annotations
      BY <3>2
    <3> QED BY <2>1, <3>1, <3>3, TrackedBeginning
  <2>2. CASE provider.evidence = {}
    <3>1. PICK x : x = Shown[Message]
      OBVIOUS
    <3>2. x = [text |-> SentText(Message), annotations |-> <<>>, phase |-> "none"]
      BY <1>1, <2>2, <3>1, ShownTyped
    <3>3. x.text = SentText(Message) /\ x.annotations = <<>>
      BY <3>2
    <3> QED BY <2>2, <3>1, <3>3, PlainBeginning
  <2> QED BY <2>1, <2>2
<1>4. /\ web.items[Message] = reducer.items[Message]
      /\ reducer.items[Message].text = Shown[Message].text
      /\ reducer.items[Message].annotations = Shown[Message].annotations
  <2>1. PICK T \in SUBSET Items, G \in ItemsSeen, H \in ItemsSeen :
        /\ reducer.items = G /\ web.items = H
        /\ \A i \in T : H[i] = G[i]
        /\ \A i \in Begun : i \in T /\ G[i].text = Shown[i].text
                            /\ G[i].annotations = Shown[i].annotations
    BY ReadersHold DEF Held
  <2> QED BY <1>2, <2>1
<1> QED BY <1>3, <1>4

LEMMA BeginningSeen ==
    ASSUME StreamRight, Midway
    PROVE  ReaderSeesABeginning
<1> SUFFICES ASSUME Closed, ~CutShort, Streamed(Message)
             PROVE  /\ IsPrefix(web.items[Message].text, Reading.text)
                    /\ IsPrefix(web.items[Message].annotations, Reading.annotations)
  BY DEF ReaderSeesABeginning
<1>1. PICK a, c : BeginningShown(a, c) /\ web.items[Message].text = a /\ web.items[Message].annotations = c
  BY BrowserAndServerShow
<1>2. /\ a \in Seq(Characterset) /\ c \in Seq(Annotations)
      /\ Reading.text \in Seq(Characterset) /\ Reading.annotations \in Seq(Annotations)
      /\ Begins(a, Reading.text) /\ Begins(c, Reading.annotations)
  BY <1>1 DEF BeginningShown
<1>3. IsPrefix(a, Reading.text)
  BY <1>2, PrefixOf
<1>4. IsPrefix(c, Reading.annotations)
  BY <1>2, PrefixOf
<1> QED BY <1>1, <1>3, <1>4

LEMMA AllSeen ==
    ASSUME StreamRight, Midway
    PROVE  NothingIsLost
<1> SUFFICES ASSUME Closed, ~CutShort, provider.stage[Message] \in {"written", "closed", "done"},
                    projection.kept = <<>>, NEW item \in {web.items[Message], reducer.items[Message]}
             PROVE  /\ item.text = Reading.text /\ item.annotations = Reading.annotations
                    /\ projection.known = Reading.known
  BY DEF NothingIsLost
<1>1. Whole(Message) /\ Streamed(Message)
  BY DEF CutShort, Streamed
<1>2. PICK a, c : /\ BeginningShown(a, c)
                  /\ web.items[Message].text = a /\ web.items[Message].annotations = c
                  /\ reducer.items[Message].text = a /\ reducer.items[Message].annotations = c
  BY <1>1, BrowserAndServerShow
<1>3. a = Reading.text /\ c = Reading.annotations /\ projection.known = Reading.known
  BY <1>1, <1>2 DEF BeginningShown
<1> QED BY <1>2, <1>3

\* However a reply is cut into deltas, and wherever its citations stand, the browser
\* shows a beginning of the finished reading, never a piece of a marker.

THEOREM BeginningIsSeen == StreamSpec => []ReaderSeesABeginning
<1>1. StreamInit => StreamRight /\ Midway
  BY StreamBegins, MidwayBegins
<1>2. StreamRight /\ Midway /\ [StreamNext]_streamVars => (StreamRight /\ Midway)'
  BY StreamKeeps, MidwayKeeps
<1>3. StreamRight /\ Midway => ReaderSeesABeginning
  BY BeginningSeen
<1> QED BY <1>1, <1>2, <1>3, PTL DEF StreamSpec

\* When the text has ended and nothing is held back, the browser and the server's response
\* hold the finished reading, each citation annotated, and the evidence used is the evidence cited.

THEOREM AllIsKept == StreamSpec => []NothingIsLost
<1>1. StreamInit => StreamRight /\ Midway
  BY StreamBegins, MidwayBegins
<1>2. StreamRight /\ Midway /\ [StreamNext]_streamVars => (StreamRight /\ Midway)'
  BY StreamKeeps, MidwayKeeps
<1>3. StreamRight /\ Midway => NothingIsLost
  BY AllSeen
<1> QED BY <1>1, <1>2, <1>3, PTL DEF StreamSpec

================================================================================
