------------------------------ MODULE Accounts ------------------------------
(***************************************************************************)
(* The users of the back office, their invitations, password resets and    *)
(* sessions: auth.service, session.service, password-reset.service and     *)
(* users.service.  A request is a process; each awaited access to          *)
(* PostgreSQL or Redis is one step of it, so any two requests interleave   *)
(* and a request may die between two of its steps.  Hashes and tokens are  *)
(* not spelt out: a link or a session is known by its row, and a request   *)
(* with a rotated token finds no row and changes nothing.  So does every   *)
(* request refused at its first look-up, because of a rule or because the  *)
(* session or link is past its expiry: it is left out, and a row that may  *)
(* be expired may be used or not.                                          *)
(***************************************************************************)
EXTENDS Naturals

CONSTANTS Users, Sessions, Invites, Resets,
          Requests,      \* requests being served at a time
          NoOne,         \* no user, no session, no link
          MaxRequests    \* requests served in all

ASSUME AccountsAssumption == NoOne \notin Users /\ MaxRequests \in Nat

VARIABLES user,      \* table User
          session,   \* table Session
          invite,    \* table Invite
          reset,     \* the password-reset keys in Redis
          request,   \* where each request is and what it has read
          begun,     \* requests begun
          shut,      \* ghost: sessions some completed request had to close
          torn       \* ghost: users a request died on

accountsVars == <<user, session, invite, reset, request, begun, shut, torn>>

Roles == {"ADMIN", "VIEWER"}
UserRow == [exists: BOOLEAN, role: Roles, active: BOOLEAN, password: BOOLEAN,
            mustReset: BOOLEAN, portal: BOOLEAN]
Absent == [exists |-> FALSE, role |-> "VIEWER", active |-> FALSE,
           password |-> FALSE, mustReset |-> FALSE, portal |-> FALSE]
\* UpdateUserDto: the fields a request names.
Patches == [role: Roles \cup {"keep"}, active: {"on", "off", "keep"}]
NoPatch == [role |-> "keep", active |-> "keep"]
Free == [at |-> "free", user |-> NoOne, item |-> NoOne, seen |-> Absent,
         patch |-> NoPatch, views |-> {}, claims |-> Absent, victims |-> {}]

\* PENDING in computeUserStatus: inactive, and no password yet.
Awaited(row) == row.exists /\ ~row.active /\ ~row.password

-----------------------------------------------------------------------------
(* Steps shared by the requests.  `views` collects every version of the    *)
(* user's row that was current while the request ran.                      *)

\* Request r, idle until now, begins with a look-up for user u and waits at
\* `at`.
Enter(r, at, u, item) ==
    /\ request[r].at = "free"
    /\ begun < MaxRequests
    /\ begun' = begun + 1
    /\ request' = [request EXCEPT ![r] =
                     [Free EXCEPT !.at = at, !.user = u, !.item = item,
                                  !.seen = user[u], !.views = {user[u]}]]

Go(r, at) == request' = [request EXCEPT ![r].at = at]

\* Request r ends; what it had to close is closed for good.
FinishRequest(r) ==
    /\ request' = [request EXCEPT ![r] = Free]
    /\ shut' = shut \cup request[r].victims

\* Request r writes `row` as its user and waits at `at`; the sessions of
\* `closing` are those it now has to close.
WriteUser(r, row, at, closing) ==
    LET u == request[r].user
    IN  /\ user' = [user EXCEPT ![u] = row]
        /\ request' = [q \in Requests |->
             LET now == IF q # r THEN request[q]
                        ELSE IF at = "free" THEN Free
                        ELSE [request[q] EXCEPT !.at = at, !.victims = closing]
             IN  IF now.user = u THEN [now EXCEPT !.views = @ \cup {row}] ELSE now]

OpenSessions(u) == {s \in Sessions : session[s].user = u /\ ~session[s].revoked}

Revoked(which) ==
    [s \in Sessions |-> IF s \in which THEN [session[s] EXCEPT !.revoked = TRUE]
                                       ELSE session[s]]

-----------------------------------------------------------------------------
(* Login, refresh, logout and the sessions page.                           *)

LoginRead(r, u) ==
    /\ user[u].exists /\ user[u].active /\ user[u].password
    /\ Enter(r, "openSession", u, NoOne)
    /\ UNCHANGED <<user, session, invite, reset, shut, torn>>

\* sessionService.create, then the access token with the claims of the user
\* as it was read before the password was verified.
OpenSession(r) ==
    /\ request[r].at = "openSession"
    /\ \E s \in Sessions :
         /\ session[s].user = NoOne
         /\ session' = [session EXCEPT ![s].user = request[r].user]
    /\ request' = [request EXCEPT ![r].at = "issued", ![r].claims = request[r].seen]
    /\ UNCHANGED <<user, invite, reset, begun, shut, torn>>

\* findByRefreshTokenHash: a revoked or expired session gives no token.
RefreshFind(r, s) ==
    /\ session[s].user # NoOne /\ ~session[s].revoked
    /\ Enter(r, "refreshUser", session[s].user, s)
    /\ UNCHANGED <<user, session, invite, reset, shut, torn>>

\* The user is loaded again, so that the token has today's role.
RefreshUserUnchecked(r) ==                             \* Seeded fault: isActive not tested.
    /\ request[r].at = "refreshUser"
    /\ request' = [request EXCEPT ![r].seen = user[request[r].user], ![r].at = "rotate"]
    /\ UNCHANGED <<user, session, invite, reset, begun, shut, torn>>
RefreshUser(r) ==
    /\ request[r].at = "refreshUser"
    /\ LET row == user[request[r].user]
       IN  request' = [request EXCEPT
             ![r].seen = row,
             ![r].at = IF row.exists /\ row.active THEN "rotate" ELSE "revokeOne"]
    /\ UNCHANGED <<user, session, invite, reset, begun, shut, torn>>

\* rotateToken updates the hash alone; a session revoked meanwhile stays so.
RotateWholeRow(r) ==                         \* Seeded fault: the row read is written back.
    /\ request[r].at = "rotate"
    /\ session' = [session EXCEPT ![request[r].item].revoked = FALSE]
    /\ request' = [request EXCEPT ![r].at = "issued", ![r].claims = request[r].seen]
    /\ UNCHANGED <<user, invite, reset, begun, shut, torn>>
Rotate(r) ==
    /\ request[r].at = "rotate"
    /\ request' = [request EXCEPT ![r].at = "issued", ![r].claims = request[r].seen]
    /\ UNCHANGED <<user, session, invite, reset, begun, shut, torn>>

\* The answer leaves with its token.
Answer(r) ==
    /\ request[r].at = "issued"
    /\ FinishRequest(r)
    /\ UNCHANGED <<user, session, invite, reset, begun, torn>>

\* logout and revokeSession look the session up, then revoke it.
RevokeFind(r, s) ==
    /\ session[s].user # NoOne /\ ~session[s].revoked
    /\ Enter(r, "revokeOne", session[s].user, s)
    /\ UNCHANGED <<user, session, invite, reset, shut, torn>>

RevokeOne(r) ==
    /\ request[r].at = "revokeOne"
    /\ session' = Revoked({request[r].item})
    /\ FinishRequest(r)
    /\ UNCHANGED <<user, invite, reset, begun, torn>>

\* revokeAllExcept, from the sessions page or after a change of password.
RevokeOthers(r) ==
    /\ request[r].at = "revokeOthers"
    /\ session' = Revoked(OpenSessions(request[r].user) \ {request[r].item})
    /\ FinishRequest(r)
    /\ UNCHANGED <<user, invite, reset, begun, torn>>

RevokeAllSessions(r, s) ==
    /\ session[s].user # NoOne
    /\ Enter(r, "revokeOthers", session[s].user, s)
    /\ UNCHANGED <<user, session, invite, reset, shut, torn>>

\* revokeAll, after a reset, a forced reset or a block.
RevokeAll(r) ==
    /\ request[r].at = "revokeAll"
    /\ session' = Revoked(OpenSessions(request[r].user))
    /\ FinishRequest(r)
    /\ UNCHANGED <<user, invite, reset, begun, torn>>

-----------------------------------------------------------------------------
(* Passwords.  The access token that carries a change of password is not   *)
(* compared with its session, which may be revoked by then.                *)

ChangeRead(r, s) ==
    /\ session[s].user # NoOne /\ user[session[s].user].password
    /\ Enter(r, "changeWrite", session[s].user, s)
    /\ UNCHANGED <<user, session, invite, reset, shut, torn>>

ChangeWrite(r) ==
    /\ request[r].at = "changeWrite"
    /\ LET u == request[r].user
       IN  WriteUser(r, [user[u] EXCEPT !.password = TRUE, !.mustReset = FALSE],
                     "revokeOthers", OpenSessions(u) \ {request[r].item})
    /\ UNCHANGED <<session, invite, reset, begun, shut, torn>>

ForgotRead(r, u) ==
    /\ user[u].exists /\ user[u].active
    /\ Enter(r, "storeReset", u, NoOne)
    /\ UNCHANGED <<user, session, invite, reset, shut, torn>>

StoreReset(r) ==
    /\ request[r].at = "storeReset"
    /\ \E t \in Resets :
         /\ reset[t].status = "fresh"
         /\ reset' = [reset EXCEPT ![t] = [status |-> "valid", user |-> request[r].user]]
    /\ FinishRequest(r)
    /\ UNCHANGED <<user, session, invite, begun, torn>>

ResetGet(r, t) ==
    /\ reset[t].status = "valid"
    /\ Enter(r, "resetWrite", reset[t].user, t)
    /\ UNCHANGED <<user, session, invite, reset, shut, torn>>

ResetWrite(r) ==
    /\ request[r].at = "resetWrite"
    /\ LET u == request[r].user
       IN  WriteUser(r, [user[u] EXCEPT !.password = TRUE, !.mustReset = FALSE],
                     "dropReset", OpenSessions(u))
    /\ UNCHANGED <<session, invite, reset, begun, shut, torn>>

DropReset(r) ==
    /\ request[r].at = "dropReset"
    /\ reset' = [reset EXCEPT ![request[r].item].status = "gone"]
    /\ Go(r, "revokeAll")
    /\ UNCHANGED <<user, session, invite, begun, shut, torn>>

\* forceReset: active users only.
ForceRead(r, u) ==
    /\ user[u].exists /\ user[u].active
    /\ Enter(r, "forceFlag", u, NoOne)
    /\ UNCHANGED <<user, session, invite, reset, shut, torn>>

ForceFlag(r) ==
    /\ request[r].at = "forceFlag"
    /\ LET u == request[r].user
       IN  WriteUser(r, [user[u] EXCEPT !.mustReset = TRUE], "revokeAll", OpenSessions(u))
    /\ UNCHANGED <<session, invite, reset, begun, shut, torn>>

-----------------------------------------------------------------------------
(* Invitations.                                                            *)

\* invite: `item` is the role asked for until the row is written.
InviteRead(r, u, role) ==
    /\ ~user[u].active
    /\ Enter(r, "inviteUser", u, role)
    /\ UNCHANGED <<user, session, invite, reset, shut, torn>>

\* A user read as absent is created, which fails when it exists by now.
InviteUser(r) ==
    /\ request[r].at = "inviteUser"
    /\ LET u == request[r].user
       IN  \/ /\ request[r].seen.exists
              /\ WriteUser(r, [user[u] EXCEPT !.role = request[r].item], "inviteRow", {})
              /\ UNCHANGED shut
           \/ /\ ~request[r].seen.exists /\ ~user[u].exists
              /\ WriteUser(r, [Absent EXCEPT !.exists = TRUE, !.role = request[r].item],
                           "inviteRow", {})
              /\ UNCHANGED shut
           \/ /\ ~request[r].seen.exists /\ user[u].exists
              /\ FinishRequest(r)
              /\ UNCHANGED user
    /\ UNCHANGED <<session, invite, reset, begun, torn>>

\* inviteCreditorUser, whose write makes the user inactive whatever it is by
\* now, and resendInvite, for users that are still PENDING.
PortalInviteRead(r, u) ==
    /\ ~user[u].active
    /\ Enter(r, "portalUser", u, NoOne)
    /\ UNCHANGED <<user, session, invite, reset, shut, torn>>

PortalUser(r) ==
    /\ request[r].at = "portalUser"
    /\ LET u == request[r].user
       IN  IF request[r].seen.exists \/ ~user[u].exists
           THEN /\ WriteUser(r, [user[u] EXCEPT !.exists = TRUE, !.role = "VIEWER",
                                   !.active = FALSE, !.portal = TRUE],
                             "expireInvites", {})
                /\ UNCHANGED shut
           ELSE FinishRequest(r) /\ UNCHANGED user
    /\ UNCHANGED <<session, invite, reset, begun, torn>>

ResendRead(r, u) ==
    /\ Awaited(user[u])
    /\ Enter(r, "expireInvites", u, NoOne)
    /\ UNCHANGED <<user, session, invite, reset, shut, torn>>

ExpireInvites(r) ==
    /\ request[r].at = "expireInvites"
    /\ invite' = [i \in Invites |->
                    IF invite[i].user = request[r].user /\ invite[i].status = "PENDING"
                    THEN [invite[i] EXCEPT !.status = "EXPIRED"] ELSE invite[i]]
    /\ Go(r, "inviteRow")
    /\ UNCHANGED <<user, session, reset, begun, shut, torn>>

InviteRow(r) ==
    /\ request[r].at = "inviteRow"
    /\ \E i \in Invites :
         /\ invite[i].status = "fresh"
         /\ invite' = [invite EXCEPT ![i] = [status |-> "PENDING",
                                             user |-> request[r].user]]
    /\ FinishRequest(r)
    /\ UNCHANGED <<user, session, reset, begun, torn>>

\* activate: a password that is too simple ends the request with 422.
ActivateFindConsuming(r, i) ==         \* Seeded fault: the link is used up when it is opened.
    /\ invite[i].status = "PENDING"
    /\ Enter(r, "activateUser", invite[i].user, i)
    /\ invite' = [invite EXCEPT ![i].status = "ACCEPTED"]
    /\ UNCHANGED <<user, session, reset, shut, torn>>
ActivateFind(r, i) ==
    /\ invite[i].status = "PENDING"
    /\ Enter(r, "activateUser", invite[i].user, i)
    /\ UNCHANGED <<user, session, invite, reset, shut, torn>>

ActivateRefused(r) ==
    /\ request[r].at = "activateUser"
    /\ FinishRequest(r)
    /\ UNCHANGED <<user, session, invite, reset, begun, torn>>

ActivateUser(r) ==
    /\ request[r].at = "activateUser"
    /\ WriteUser(r, [user[request[r].user] EXCEPT !.password = TRUE, !.active = TRUE],
                 "acceptInvite", {})
    /\ UNCHANGED <<session, invite, reset, begun, shut, torn>>

AcceptInvite(r) ==
    /\ request[r].at = "acceptInvite"
    /\ invite' = [invite EXCEPT ![request[r].item].status = "ACCEPTED"]
    /\ FinishRequest(r)
    /\ UNCHANGED <<user, session, reset, begun, torn>>

-----------------------------------------------------------------------------
(* Administration.                                                         *)

\* setCreditorUserBlocked; unblocking asks for a password.
BlockRead(r, u) ==
    /\ user[u].exists /\ user[u].portal /\ user[u].role = "VIEWER"
    /\ \/ Enter(r, "block", u, NoOne)
       \/ user[u].password /\ Enter(r, "unblock", u, NoOne)
    /\ UNCHANGED <<user, session, invite, reset, shut, torn>>

Block(r) ==
    /\ request[r].at = "block"
    /\ LET u == request[r].user
       IN  WriteUser(r, [user[u] EXCEPT !.active = FALSE], "revokeAll", OpenSessions(u))
    /\ UNCHANGED <<session, invite, reset, begun, shut, torn>>

Unblock(r) ==
    /\ request[r].at = "unblock"
    /\ WriteUser(r, [user[request[r].user] EXCEPT !.active = TRUE], "free", {})
    /\ UNCHANGED <<session, invite, reset, begun, shut, torn>>

\* update: would the fields of `patch` take an administrator away?
LosesAdmin(row, patch) ==
    /\ row.role = "ADMIN" /\ row.active
    /\ patch.active = "off" \/ patch.role \notin {"keep", "ADMIN"}

UpdateRead(r, u, patch) ==
    /\ user[u].exists
    /\ request[r].at = "free"
    /\ begun < MaxRequests
    /\ begun' = begun + 1
    /\ request' = [request EXCEPT ![r] =
         [Free EXCEPT !.at = IF LosesAdmin(user[u], patch) THEN "countAdmins"
                                                           ELSE "updateUser",
                      !.user = u, !.patch = patch, !.views = {user[u]}]]
    /\ UNCHANGED <<user, session, invite, reset, shut, torn>>

CountAdmins(r) ==
    /\ request[r].at = "countAdmins"
    /\ IF \E v \in Users \ {request[r].user} : user[v].role = "ADMIN" /\ user[v].active
       THEN Go(r, "updateUser") /\ UNCHANGED shut
       ELSE FinishRequest(r)                                                \* 409
    /\ UNCHANGED <<user, session, invite, reset, begun, torn>>

\* Only the fields the request names are written.
UpdateUser(r) ==
    /\ request[r].at = "updateUser"
    /\ LET patch == request[r].patch
           row == user[request[r].user]
       IN  WriteUser(r, [row EXCEPT
                 !.role = IF patch.role = "keep" THEN row.role ELSE patch.role,
                 !.active = IF patch.active = "keep" THEN row.active
                                                     ELSE patch.active = "on"],
                 "free", {})
    /\ UNCHANGED <<session, invite, reset, begun, shut, torn>>

-----------------------------------------------------------------------------
\* The process dies or a call of the database fails; what is written stays.
RequestDies(r) ==
    /\ request[r].at # "free"
    /\ torn' = torn \cup {request[r].user}
    /\ request' = [request EXCEPT ![r] = Free]
    /\ UNCHANGED <<user, session, invite, reset, begun, shut>>

\* Any users that are absent, administrators or readers of the creditors'
\* portal, with any sessions open; one administrator at least.
AccountsInit ==
    /\ user \in [Users -> {Absent} \cup
                  {[exists |-> TRUE, role |-> role, active |-> TRUE, password |-> TRUE,
                    mustReset |-> FALSE, portal |-> role = "VIEWER"] : role \in Roles}]
    /\ \E u \in Users : user[u].role = "ADMIN"
    /\ session \in [Sessions -> [user: Users \cup {NoOne}, revoked: {FALSE}]]
    /\ \A s \in Sessions : session[s].user # NoOne => user[session[s].user].exists
    /\ invite = [i \in Invites |-> [status |-> "fresh", user |-> NoOne]]
    /\ reset = [t \in Resets |-> [status |-> "fresh", user |-> NoOne]]
    /\ request = [r \in Requests |-> Free]
    /\ begun \in 0 .. MaxRequests
    /\ shut = {}
    /\ torn = {}

AccountsNext ==
    \/ \E r \in Requests, u \in Users :
         \/ LoginRead(r, u) \/ ForgotRead(r, u) \/ ForceRead(r, u)
         \/ PortalInviteRead(r, u) \/ ResendRead(r, u) \/ BlockRead(r, u)
         \/ \E role \in Roles : InviteRead(r, u, role)
         \/ \E patch \in Patches \ {NoPatch} : UpdateRead(r, u, patch)
    \/ \E r \in Requests, s \in Sessions :
         RefreshFind(r, s) \/ RevokeFind(r, s) \/ RevokeAllSessions(r, s) \/ ChangeRead(r, s)
    \/ \E r \in Requests, i \in Invites : ActivateFind(r, i)
    \/ \E r \in Requests, t \in Resets : ResetGet(r, t)
    \/ \E r \in Requests :
         \/ OpenSession(r) \/ RefreshUser(r) \/ Rotate(r) \/ Answer(r)
         \/ RevokeOne(r) \/ RevokeOthers(r) \/ RevokeAll(r)
         \/ ChangeWrite(r) \/ StoreReset(r) \/ ResetWrite(r) \/ DropReset(r) \/ ForceFlag(r)
         \/ InviteUser(r) \/ PortalUser(r) \/ ExpireInvites(r) \/ InviteRow(r)
         \/ ActivateRefused(r) \/ ActivateUser(r) \/ AcceptInvite(r)
         \/ Block(r) \/ Unblock(r) \/ CountAdmins(r) \/ UpdateUser(r) \/ RequestDies(r)

AccountsSpec == AccountsInit /\ [][AccountsNext]_accountsVars

-----------------------------------------------------------------------------
Steps == {"free", "openSession", "refreshUser", "rotate", "issued", "revokeOne",
          "revokeOthers", "revokeAll", "changeWrite", "storeReset", "resetWrite",
          "dropReset", "forceFlag", "inviteUser", "portalUser", "expireInvites",
          "inviteRow", "activateUser", "acceptInvite", "block", "unblock",
          "countAdmins", "updateUser"}

\* Every row and every request has its fields in range.
AccountsTypeOK ==
    /\ user \in [Users -> UserRow]
    /\ session \in [Sessions -> [user: Users \cup {NoOne}, revoked: BOOLEAN]]
    /\ invite \in [Invites -> [status: {"fresh", "PENDING", "EXPIRED", "ACCEPTED"},
                               user: Users \cup {NoOne}]]
    /\ reset \in [Resets -> [status: {"fresh", "valid", "gone"}, user: Users \cup {NoOne}]]
    /\ request \in [Requests ->
         [at: Steps, user: Users \cup {NoOne},
          item: Sessions \cup Invites \cup Resets \cup Roles \cup {NoOne},
          seen: UserRow, patch: Patches, views: SUBSET UserRow, claims: UserRow,
          victims: SUBSET Sessions]]
    /\ begun \in 0..MaxRequests
    /\ shut \in SUBSET Sessions
    /\ torn \in SUBSET Users

\* The claims of an access token that login or refresh issues (role, activity,
\* duty to change the password) were together true of the user at some moment
\* of that request, whatever block, demotion or forced reset ran beside it.
TokensFollowTheUser ==
    \A r \in Requests : request[r].at = "issued" =>
        \E row \in request[r].views :
            row = request[r].claims /\ row.active

\* Once a change of password, a reset, a forced reset or a block has been
\* answered, every session that was open when it wrote the user is revoked for
\* good: no rotation running beside it opens the session again.
ShutStaysShut == \A s \in shut : session[s].revoked

\* An invited user that has no password yet and on whom no request is at work
\* has a link whose status is still PENDING, so that it can be activated, or
\* resent when its 72 hours are over.  Requests that died are excepted.
InviteeHasLink ==
    \A u \in Users :
        Awaited(user[u]) /\ u \notin torn /\ (\A r \in Requests : request[r].user # u)
          => \E i \in Invites : invite[i].user = u /\ invite[i].status = "PENDING"

=============================================================================
