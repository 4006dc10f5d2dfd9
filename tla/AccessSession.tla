--------------------------- MODULE AccessSession ---------------------------
(***************************************************************************)
(* Access sessions and the conversations held in them: guests, accounts    *)
(* and sign-in, the sessions that replace one another (a guest signs in, a *)
(* user switches workspaces), and the conversations a guest leaves to the  *)
(* user it becomes.                                                        *)
(*                                                                         *)
(* services/identity_access/{auth,access_session}.py, the access token of  *)
(* jwt_tokens.py, api/identity.py, and the turns of conversation.py.       *)
(***************************************************************************)
EXTENDS Naturals, FiniteSets

CONSTANTS
    Users,          \* e-mail addresses
    Tenants,        \* workspaces
    Public,         \* the configured public workspace
    Home,           \* Home[u]: the personal workspace of u
    Sessions,
    Conversations,
    Requests,
    None

ASSUME AccessSessionAssumption ==
    /\ Public \in Tenants
    /\ Home \in [Users -> Tenants \ {Public}]
    /\ None \notin Users \cup Tenants \cup Sessions \cup Conversations

VARIABLES
    user,          \* users: the state of the account
    member,        \* tenant_memberships
    session,       \* access_sessions, each with the rights its token carries
    conversation,  \* conversations, and the sessions their messages come from
    request        \* what each HTTP request knows

vars == <<user, member, session, conversation, request>>

NoSession == [status |-> "none", kind |-> "none", user |-> None, tenant |-> None,
              parent |-> None, rights |-> "none", late |-> FALSE]
SessionRow ==
    [status : {"none", "active", "superseded", "revoked"}, kind : {"none", "guest", "user"},
     user : Users \cup {None}, tenant : Tenants \cup {None}, parent : Sessions \cup {None},
     rights : {"none", "member", "public"}, late : BOOLEAN]

NoConversation == [tenant |-> None, owner |-> None, creator |-> None, wrote |-> {}]
ConversationRow ==
    [tenant : Tenants \cup {None}, owner : Users \cup {None}, creator : Sessions \cup {None},
     wrote : SUBSET Sessions]

(* A request: the session it locked to replace it, who signs in,           *)
(* the workspace asked for; or the session it runs in and its conversation.*)
Idle == [pc |-> "idle", parent |-> None, user |-> None, tenant |-> None, session |-> None, conversation |-> None]

TypeOK ==
    /\ user \in [Users -> {"none", "active", "suspended"}]
    /\ member \in [Users -> [Tenants -> {"none", "active", "inactive"}]]
    /\ session \in [Sessions -> SessionRow]
    /\ conversation \in [Conversations -> ConversationRow]
    /\ request \in [Requests ->
         [pc : {"idle", "registering", "signing", "verified", "switching", "resolved", "answering"},
          parent : Sessions \cup {None}, user : Users \cup {None},
          tenant : Tenants \cup {None},
          session : Sessions \cup {None}, conversation : Conversations \cup {None}]]

Init ==
    /\ user = [u \in Users |-> "none"]
    /\ member = [u \in Users |-> [t \in Tenants |-> "none"]]
    /\ session = [s \in Sessions |-> NoSession]
    /\ conversation = [c \in Conversations |-> NoConversation]
    /\ request = [q \in Requests |-> Idle]

-----------------------------------------------------------------------------
(* Reading *)

(* AccessSessionService.active; the status "expired" it sets is rolled     *)
(* back by the error that follows, so a late session stays "active".       *)
Active(s) == session[s].status = "active" /\ ~session[s].late

(* A mistake to be caught: active without lock=True.                       *)
ReadUnlocked(q, s) == Active(s)

(* JwtTokenService.verify: signed here and not expired.  A token lives as  *)
(* long as its session.                                                    *)
Verify(s) == session[s] # NoSession /\ ~session[s].late

(* JwtTokenService.issue: a token says what its session may do when it is  *)
(* issued.                                                                 *)
Issue(row, rights) == [row EXCEPT !.rights = rights]

(* SELECT ... FOR UPDATE: waits for a request that holds the row.          *)
Unlocked(q, s) == \A p \in Requests \ {q} : request[p].parent # s
Lock(q, s) == Unlocked(q, s) /\ Active(s)

(* public_access: what anyone may do in the workspace.                     *)
PublicAccess(t) == t = Public

(* get_context, of a member and of anyone in a public workspace: what a    *)
(* user may do in a tenant, or "none" when it refuses.                     *)
Rights(members, u, t) ==
    CASE members[u][t] = "active"                  -> "member"
      [] members[u][t] = "none" /\ PublicAccess(t) -> "public"
      [] OTHER                                     -> "none"

ListActiveTenantMemberships(u) == {t \in Tenants : member[u][t] = "active"}

DefaultTenants(members, u) ==
    IF members[u][Home[u]] = "active" THEN {Home[u]}
    ELSE {t \in Tenants : members[u][t] = "active"}

Done(q) == request' = [request EXCEPT ![q] = Idle]

-----------------------------------------------------------------------------
(* What the database insists on: its triggers refuse the row otherwise.    *)

(* bothesis_validate_access_session: a guest is in a public workspace; a   *)
(* user session replaces a guest in its workspace, or one of the user.     *)
SessionAccepted(row, parent) ==
    /\ row.kind = "guest" => row.tenant = Public
    /\ parent # None =>
         IF session[parent].kind = "guest" THEN row.tenant = session[parent].tenant
         ELSE row.user = session[parent].user

(* bothesis_validate_conversation_session: nobody's conversation is a      *)
(* guest's, and a user's is that user's.                                   *)
ConversationAccepted(row) ==
    /\ session[row.creator].tenant = row.tenant
    /\ session[row.creator].kind = "user" => row.owner = session[row.creator].user

-----------------------------------------------------------------------------
(* Sessions *)

(* create_guest *)
GuestRow(t) == [NoSession EXCEPT !.status = "active", !.kind = "guest", !.tenant = t]

(* create_session with the method "guest" *)
CreateGuest(q) ==
    /\ request[q] = Idle
    /\ \E s \in Sessions :
         /\ session[s] = NoSession
         /\ PublicAccess(Public) /\ SessionAccepted(GuestRow(Public), None)
         /\ session' = [session EXCEPT ![s] = Issue(GuestRow(Public), "public")]
    /\ UNCHANGED <<user, member, conversation, request>>

(* A sign-in, up to the lock on the guest session that is to be upgraded:  *)
(* the bearer token that came with it, when that is a guest's.             *)
SignInBegins(q, pc, u) ==
    /\ request[q] = Idle
    /\ \E parent \in Sessions \cup {None} :
         /\ parent # None => Verify(parent) /\ Lock(q, parent) /\ session[parent].kind = "guest"
         /\ request' = [request EXCEPT ![q] =
               [Idle EXCEPT !.pc = pc, !.user = u, !.parent = parent]]
    /\ UNCHANGED <<user, member, session, conversation>>

(* create_account: the address must be new.                                *)
CreateAccount(q) ==
    \E u \in Users : user[u] = "none" /\ SignInBegins(q, "registering", u)

(* create_session with a password                                          *)
CreateSession(q) ==
    \E u \in Users : user[u] = "active" /\ SignInBegins(q, "signing", u)

(* complete_verified_external_session: an account Google vouches for is    *)
(* found, or comes into being.                                             *)
CompleteVerified(q) ==
    \E u \in Users : user[u] # "suspended" /\ SignInBegins(q, "verified", u)

(* A mistake to be caught: whatever guests left in the workspace.          *)
AdoptAll(parent, u) ==
    [c \in Conversations |->
       IF /\ parent # None /\ conversation[c].creator # None
          /\ conversation[c].tenant = session[parent].tenant /\ conversation[c].owner = None
       THEN [conversation[c] EXCEPT !.owner = u] ELSE conversation[c]]

(* UPDATE conversations SET owner_user_id                                  *)
Adopt(parent, u) ==
    [c \in Conversations |->
       IF /\ parent # None /\ conversation[c].creator = parent
          /\ conversation[c].tenant = session[parent].tenant /\ conversation[c].owner = None
       THEN [conversation[c] EXCEPT !.owner = u] ELSE conversation[c]]

(* A mistake to be caught: the reason is written where the status belongs. *)
SupersedeWithReason(parent, row) ==
    \E s \in Sessions :
      /\ session[s] = NoSession
      /\ session' = [x \in Sessions |->
           CASE x = s      -> [row EXCEPT !.status = "active", !.kind = "user", !.parent = parent]
             [] x = parent -> [session[x] EXCEPT !.status = "replaced"]
             [] OTHER      -> session[x]]

(* create_user: the new session, and the end of the one it replaces.       *)
Supersede(parent, row) ==
    \E s \in Sessions :
      /\ session[s] = NoSession
      /\ SessionAccepted(row, parent)
      /\ session' = [x \in Sessions |->
           CASE x = s      -> [row EXCEPT !.status = "active", !.kind = "user", !.parent = parent]
             [] x = parent -> [session[x] EXCEPT !.status = "superseded"]
             [] OTHER      -> session[x]]

(* The personal workspace that comes with a new account.                   *)
WithHome(u) ==
    IF user[u] = "none" THEN [member EXCEPT ![u][Home[u]] = "active"] ELSE member

(* _find_or_provision_user: who took the address in the meantime is used   *)
(* here, and refused by create_account (the unique index).                 *)
AccountFor(r) ==
    CASE r.pc = "registering" -> user[r.user] = "none"
      [] r.pc = "signing"     -> user[r.user] = "active"
      [] r.pc = "verified"    -> user[r.user] # "suspended"

(* create_user of the identity store *)
CreateUser(u) == [user EXCEPT ![u] = IF @ = "none" THEN "active" ELSE @]

(* The rest of the transaction: the account, the session in the guest's    *)
(* workspace or the default one, the guest's conversations.                *)
IssueUserSession(q) ==
    LET r == request[q] IN
    /\ r.pc \in {"registering", "signing", "verified"}
    /\ AccountFor(r)
    /\ user' = CreateUser(r.user)
    /\ member' = WithHome(r.user)
    /\ \E t \in IF r.parent # None THEN {session[r.parent].tenant}
                ELSE DefaultTenants(WithHome(r.user), r.user) :
         /\ Rights(WithHome(r.user), r.user, t) # "none"
         /\ Supersede(r.parent, Issue([NoSession EXCEPT !.user = r.user, !.tenant = t],
                                      Rights(WithHome(r.user), r.user, t)))
    /\ conversation' = Adopt(r.parent, r.user)
    /\ Done(q)

(* update_session: another workspace for a signed-in user.                 *)
SwitchBegins(q) ==
    /\ request[q] = Idle
    /\ \E parent \in Sessions, t \in Tenants :
         /\ Verify(parent) /\ Lock(q, parent)
         /\ session[parent].kind = "user"
         /\ user[session[parent].user] = "active"
         /\ t \in ListActiveTenantMemberships(session[parent].user)
                 \cup {x \in Tenants : PublicAccess(x)}
         /\ request' = [request EXCEPT ![q] = [Idle EXCEPT
               !.pc = "switching", !.parent = parent, !.user = session[parent].user, !.tenant = t]]
    /\ UNCHANGED <<user, member, session, conversation>>

SwitchEnds(q) ==
    LET r == request[q] IN
    /\ r.pc = "switching"
    /\ Rights(member, r.user, r.tenant) # "none"
    /\ Supersede(r.parent, Issue([NoSession EXCEPT !.user = r.user, !.tenant = r.tenant],
                                 Rights(member, r.user, r.tenant)))
    /\ Done(q)
    /\ UNCHANGED <<user, member, conversation>>

(* invalidate_session *)
Logout(q) ==
    /\ request[q] = Idle
    /\ \E s \in Sessions : /\ Verify(s) /\ Lock(q, s)
                           /\ session' = [session EXCEPT ![s].status = "revoked"]
    /\ UNCHANGED <<user, member, conversation, request>>

-----------------------------------------------------------------------------
(* Conversations *)

(* What the session of a token may do now, "none" when it may not: its     *)
(* context, of a guest or of an active account.                            *)
Context(s) ==
    IF session[s].kind = "guest" THEN "public"
    ELSE IF user[session[s].user] = "active"
      THEN Rights(member, session[s].user, session[s].tenant)
      ELSE "none"

(* resolve: the session of the token lives, and the token still says what  *)
(* it may do.                                                              *)
Resolve(s) == Active(s) /\ session[s].rights = Context(s) /\ Context(s) # "none"

(* The middleware verifies the token of a request, and what the request    *)
(* depends on resolves it, in a transaction of its own.                    *)
Authenticate(q) ==
    /\ request[q] = Idle
    /\ \E s \in Sessions :
         /\ Verify(s)
         /\ Resolve(s)
         /\ request' = [request EXCEPT ![q].pc = "resolved", ![q].session = s]
    /\ UNCHANGED <<user, member, session, conversation>>

(* A mistake to be caught: anything without an owner is open to guests.    *)
CanAccessLoosely(c, s) ==
    /\ c.tenant = session[s].tenant
    /\ IF session[s].kind = "guest" THEN c.owner = None ELSE c.owner = session[s].user

(* _can_access, conversation_access_filter *)
CanAccess(c, s) ==
    /\ c.tenant = session[s].tenant
    /\ IF session[s].kind = "guest"
       THEN c.creator = s /\ c.owner = None
       ELSE c.owner = session[s].user

(* start_turn: creates the conversation unless it exists (its foreign key  *)
(* waits for a request that has the session locked), then stores the       *)
(* question.                                                               *)
StartTurn(q) ==
    LET s == request[q].session IN
    /\ request[q].pc = "resolved"
    /\ \E c \in Conversations :
         LET row == IF conversation[c] # NoConversation THEN conversation[c]
                    ELSE [tenant |-> session[s].tenant, owner |-> session[s].user,
                          creator |-> s, wrote |-> {}]
         IN  /\ conversation[c] = NoConversation => Unlocked(q, s)
             /\ ConversationAccepted(row)
             /\ CanAccess(row, s)
             /\ conversation' = [conversation EXCEPT ![c] = [row EXCEPT !.wrote = @ \cup {s}]]
             /\ request' = [request EXCEPT ![q].pc = "answering", ![q].conversation = c]
    /\ UNCHANGED <<user, member, session>>

(* finish_turn *)
FinishTurn(q) ==
    LET r == request[q] IN
    /\ r.pc = "answering"
    /\ CanAccess(conversation[r.conversation], r.session)
    /\ conversation' = [conversation EXCEPT ![r.conversation].wrote = @ \cup {r.session}]
    /\ Done(q)
    /\ UNCHANGED <<user, member, session>>

Refuse(q) ==
    /\ request[q] # Idle
    /\ Done(q)
    /\ UNCHANGED <<user, member, session, conversation>>

-----------------------------------------------------------------------------
(* Time, and the administrators of the workspaces *)

Expire(s) ==
    /\ session[s].status = "active"
    /\ session' = [session EXCEPT ![s].late = TRUE]
    /\ UNCHANGED <<user, member, conversation, request>>

SetUserStatus(u) ==
    /\ user[u] # "none"
    /\ \E status \in {"active", "suspended"} : user' = [user EXCEPT ![u] = status]
    /\ UNCHANGED <<member, session, conversation, request>>

SetMembership(u) ==
    /\ user[u] # "none"
    /\ \E status \in {"none", "active", "inactive"} : member' = [member EXCEPT ![u][Public] = status]
    /\ UNCHANGED <<user, session, conversation, request>>

Next ==
    \/ \E q \in Requests :
         \/ CreateGuest(q) \/ CreateAccount(q) \/ CreateSession(q) \/ CompleteVerified(q)
         \/ IssueUserSession(q)
         \/ SwitchBegins(q) \/ SwitchEnds(q) \/ Logout(q)
         \/ Authenticate(q) \/ StartTurn(q) \/ FinishTurn(q) \/ Refuse(q)
    \/ \E s \in Sessions : Expire(s)
    \/ \E u \in Users : SetUserStatus(u) \/ SetMembership(u)

Spec == Init /\ [][Next]_vars

-----------------------------------------------------------------------------
(* A session is replaced once: two sign-ins with the same guest token, or  *)
(* two switches with the same user token, never both make a session out of *)
(* it, and a session that was replaced has the successor to show for it.   *)
OneSuccessor ==
    \A s \in Sessions :
        LET heirs == {x \in Sessions : session[x].parent = s} IN
        /\ Cardinality(heirs) <= 1
        /\ session[s].status = "superseded" <=> heirs # {}

(* A conversation that a guest began belongs to nobody, or to the user the *)
(* guest's own session turned into: signing in takes over one's own        *)
(* conversations and never another guest's.                                *)
AdoptedByHeir ==
    \A c \in Conversations :
        LET s == conversation[c].creator IN
        (s # None /\ session[s].kind = "guest" /\ conversation[c].owner # None) =>
            \E x \in Sessions : session[x].parent = s /\ session[x].user = conversation[c].owner

(* The messages of a conversation come from the session that created it    *)
(* and from sessions of its owner in its workspace, whichever request was  *)
(* under way while the session was replaced.                               *)
ConversationStaysPrivate ==
    \A c \in Conversations : \A s \in conversation[c].wrote :
        /\ session[s].tenant = conversation[c].tenant
        /\ s = conversation[c].creator \/ session[s].user = conversation[c].owner

(* What a guest began goes to the user it signed in as.  data.schema.md    *)
(* says: "Login creates a child User session, supersedes the Guest         *)
(* session, and assigns its guest-created conversations to the durable     *)
(* User".                                                                  *)
GuestConversationsFollow ==
    \A c \in Conversations :
        LET s == conversation[c].creator IN
        (s # None /\ session[s].kind = "guest" /\ session[s].status = "superseded") =>
            conversation[c].owner # None
=============================================================================
