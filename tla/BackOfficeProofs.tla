-------------------------- MODULE BackOfficeProofs --------------------------
(***************************************************************************)
(* Theorems about users, messages and debtors, for any sets of them and    *)
(* any failures, one part per module:                                      *)
(*   - Accounts: tokens, sessions and links follow their user.  Its        *)
(*     invariants say nothing of a request half-way; AccountsInv adds what *)
(*     a request knows, by where it is: that the row it read is one its    *)
(*     user had while it ran, that the sessions it must close are its      *)
(*     user's, that the link it opened is its user's, and that a user      *)
(*     without a password whose links were put out of use is about to get  *)
(*     another one;                                                        *)
(*   - Outreach: a rule runs once, its counts are those of its items, and  *)
(*     a link asked for on a call is sent once.  OutreachInv says what a   *)
(*     process knows of its run while it waits for an answer, and that it  *)
(*     is alone at it; OutreachTyped adds that every request on its way    *)
(*     has a link of its own, without which links could run below none;    *)
(*   - DebtorAccess: a debtor acts for nobody else.  AccessInv says whose  *)
(*     list a conversation and the deliveries of its messages hold;        *)
(*   - MCBackOffice: the rows of the three keep their types, whichever of  *)
(*     them is at work.                                                    *)
(***************************************************************************)
EXTENDS MCBackOffice, CollectionTheorems

(***************************************************************************)
(* Users.                                                                  *)
(***************************************************************************)

Items == Sessions \cup Invites \cup Resets \cup Roles \cup {NoOne}
RequestRow == [at: Steps, user: Users \cup {NoOne}, item: Items, seen: UserRow,
               patch: Patches, views: SUBSET UserRow, claims: UserRow,
               victims: SUBSET Sessions]
SessionTable == [Sessions -> [user: Users \cup {NoOne}, revoked: BOOLEAN]]
\* A link has a user, unless nobody wrote it yet.
InviteTable ==
    {t \in [Invites -> [status: {"fresh", "PENDING", "EXPIRED", "ACCEPTED"},
                        user: Users \cup {NoOne}]] :
        \A i \in Invites : t[i].status # "fresh" => t[i].user \in Users}
ResetTable ==
    {t \in [Resets -> [status: {"fresh", "valid", "gone"}, user: Users \cup {NoOne}]] :
        \A i \in Resets : t[i].status = "valid" => t[i].user \in Users}

Closing == {"revokeOthers", "revokeAll", "dropReset"}
Linking == {"expireInvites", "inviteRow"}
Activating == {"activateUser", "acceptInvite"}

\* Who has a password, a session or a link is a user that exists.
Known(users, sessions, invites, resets) ==
    /\ \A u \in Users : users[u].password => users[u].exists
    /\ \A s \in Sessions : sessions[s].user \in Users => users[sessions[s].user].exists
    /\ \A i \in Invites : invites[i].status # "fresh" => users[invites[i].user].exists
    /\ \A t \in Resets : resets[t].status = "valid" => users[resets[t].user].exists

\* What request q knows of the users, the sessions and the links.
Knows(users, sessions, invites, q) ==
    /\ q.at # "free" => q.user \in Users /\ users[q.user] \in q.views
    /\ q.at \notin {"free", "inviteUser", "portalUser"} => users[q.user].exists
    /\ q.at \in {"inviteUser", "portalUser"} /\ q.seen.exists => users[q.user].exists
    /\ q.at = "inviteUser" => q.item \in Roles
    /\ q.at \in {"openSession", "rotate"} => q.seen \in q.views /\ q.seen.active
    /\ q.at = "issued" => q.claims \in q.views /\ q.claims.active
    /\ q.victims # {} => q.at \in Closing
    /\ \A s \in q.victims : /\ sessions[s].user = q.user
                            /\ q.at = "revokeOthers" => s # q.item
    /\ q.at \in Activating => /\ q.item \in Invites
                              /\ invites[q.item].status # "fresh"
                              /\ invites[q.item].user = q.user
    /\ q.at = "acceptInvite" => users[q.user].password

\* A user without a password has a link, or a request about to write one.
HasLink(u) == \E i \in Invites : invite[i].status = "PENDING" /\ invite[i].user = u
GetsLink(u) == \E r \in Requests : request[r].at \in Linking /\ request[r].user = u
Linked == \A u \in Users \ torn :
              user[u].exists /\ ~user[u].password => HasLink(u) \/ GetsLink(u)

AccountsInv ==
    /\ AccountsTypeOK
    /\ invite \in InviteTable /\ reset \in ResetTable
    /\ Known(user, session, invite, reset)
    /\ \A r \in Requests : Knows(user, session, invite, request[r])
    /\ ShutStaysShut
    /\ Linked

\* A session keeps its user and stays revoked; a link keeps its user.
LaterSessions(old, new) ==
    \A s \in Sessions : /\ old[s].user # NoOne => new[s].user = old[s].user
                        /\ old[s].revoked => new[s].revoked
LaterInvites(old, new) ==
    \A i \in Invites : old[i].status # "fresh" =>
                          new[i].status # "fresh" /\ new[i].user = old[i].user

-----------------------------------------------------------------------------
LEMMA FreeIsRow == Free \in RequestRow
  BY DEF Free, RequestRow, Steps, Items, UserRow, Absent, Patches, NoPatch, Roles

LEMMA FreeKnows ==
    ASSUME NEW users, NEW sessions, NEW invites
    PROVE  Knows(users, sessions, invites, Free)
  BY DEF Knows, Free, Closing, Activating

LEMMA KnowsStays ==
    ASSUME NEW users, NEW sessions, NEW invites, NEW q \in RequestRow,
           Knows(users, sessions, invites, q),
           NEW sessions2, NEW invites2,
           LaterSessions(sessions, sessions2), LaterInvites(invites, invites2)
    PROVE  Knows(users, sessions2, invites2, q)
<1>1. q.victims # {} => q.user # NoOne
  BY AccountsAssumption DEF Knows, Closing
<1>2. \A s \in q.victims : sessions2[s].user = q.user
  BY <1>1 DEF Knows, LaterSessions, RequestRow
<1>3. q.at \in Activating => invites2[q.item].status # "fresh" /\ invites2[q.item].user = q.user
  BY DEF Knows, LaterInvites
<1> QED
  BY <1>2, <1>3 DEF Knows

\* A step of one request that leaves the users alone.
LEMMA OneStep ==
    ASSUME AccountsInv, NEW r \in Requests, UNCHANGED user,
           session' \in SessionTable, invite' \in InviteTable, reset' \in ResetTable,
           begun' \in 0 .. MaxRequests, shut' \in SUBSET Sessions, torn' \in SUBSET Users,
           request' = [request EXCEPT ![r] = request'[r]], request'[r] \in RequestRow,
           Knows(user, session', invite', request'[r]),
           LaterSessions(session, session'), LaterInvites(invite, invite'),
           Known(user, session', invite', reset'),
           \A s \in shut' : session'[s].revoked, Linked'
    PROVE  AccountsInv'
<1>1. request \in [Requests -> RequestRow]
  BY DEF AccountsInv, AccountsTypeOK, RequestRow, Items
<1>2. request' \in [Requests -> RequestRow]
  BY <1>1
<1>3. AccountsTypeOK'
  BY <1>2 DEF AccountsInv, AccountsTypeOK, RequestRow, Items, SessionTable, InviteTable, ResetTable
<1>4. ASSUME NEW q \in Requests PROVE Knows(user', session', invite', request'[q])
  <2>1. CASE q = r
    BY <2>1
  <2>2. CASE q # r
    <3>1. request'[q] = request[q] /\ request[q] \in RequestRow
      BY <2>2, <1>1
    <3> QED
      BY <3>1, KnowsStays DEF AccountsInv
  <2> QED
    BY <2>1, <2>2
<1> QED
  BY <1>3, <1>4 DEF AccountsInv, ShutStaysShut

LEMMA Rows == AccountsInv => request \in [Requests -> RequestRow]
  BY DEF AccountsInv, AccountsTypeOK, RequestRow, Items

\* Users do not lose their links to a request that has none to write.
LEMMA LinkedStays ==
    ASSUME AccountsInv, NEW r \in Requests, UNCHANGED user, torn \subseteq torn',
           request' = [request EXCEPT ![r] = request'[r]],
           request[r].at \notin Linking \/ request[r].user \in torn',
           \A i \in Invites : invite[i].status = "PENDING" => invite'[i] = invite[i]
    PROVE  Linked'
<1> SUFFICES ASSUME NEW u \in Users \ torn', user[u].exists, ~user[u].password
             PROVE  HasLink(u)' \/ GetsLink(u)'
  BY DEF Linked
<1>1. CASE HasLink(u)
  BY <1>1 DEF HasLink
<1>2. CASE GetsLink(u)
  <2>1. PICK q \in Requests : request[q].at \in Linking /\ request[q].user = u
    BY <1>2 DEF GetsLink
  <2>2. request'[q] = request[q]
    BY <2>1, Rows
  <2> QED
    BY <2>1, <2>2 DEF GetsLink
<1> QED
  BY <1>1, <1>2 DEF AccountsInv, Linked

\* A step that changes nothing but the request and the reset keys.
LEMMA QuietStep ==
    ASSUME AccountsInv, NEW r \in Requests, UNCHANGED <<user, session, invite, shut, torn>>,
           reset' \in ResetTable, Known(user, session, invite, reset'), begun' \in 0 .. MaxRequests,
           request' = [request EXCEPT ![r] = request'[r]], request'[r] \in RequestRow,
           Knows(user, session, invite, request'[r]), request[r].at \notin Linking
    PROVE  AccountsInv'
<1>1. Linked'
  BY LinkedStays
<1>2. session \in SessionTable /\ invite \in InviteTable
      /\ shut \in SUBSET Sessions /\ torn \in SUBSET Users
  BY DEF AccountsInv, AccountsTypeOK, SessionTable, InviteTable
<1>3. LaterSessions(session, session) /\ LaterInvites(invite, invite)
  BY DEF LaterSessions, LaterInvites
<1> QED
  BY <1>1, <1>2, <1>3, OneStep DEF AccountsInv, ShutStaysShut

\* A request begins.
LEMMA EnterStep ==
    ASSUME AccountsInv, NEW r \in Requests, UNCHANGED <<user, session, invite, reset, shut, torn>>,
           NEW at \in Steps \ {"free", "rotate", "issued", "acceptInvite"},
           NEW u \in Users, NEW item \in Items, Enter(r, at, u, item),
           user[u].exists \/ at \in {"inviteUser", "portalUser"},
           at = "openSession" => user[u].active,
           at = "inviteUser" => item \in Roles,
           at = "activateUser" => /\ item \in Invites
                                  /\ invite[item].status # "fresh" /\ invite[item].user = u
    PROVE  AccountsInv'
<1>1. /\ user[u] \in UserRow /\ reset \in ResetTable /\ begun \in 0 .. MaxRequests
      /\ Known(user, session, invite, reset')
  BY DEF AccountsInv, AccountsTypeOK, ResetTable
<1> DEFINE q == [Free EXCEPT !.at = at, !.user = u, !.item = item,
                             !.seen = user[u], !.views = {user[u]}]
<1>2. /\ q.at = at /\ q.user = u /\ q.item = item /\ q.seen = user[u] /\ q.views = {user[u]}
      /\ q.victims = {}
  BY DEF Free
<1>3. q \in RequestRow
  BY <1>1, FreeIsRow DEF RequestRow
<1>4. Knows(user, session, invite, q)
  BY <1>2 DEF Knows, Activating
<1>5. request' = [request EXCEPT ![r] = q] /\ request[r].at = "free"
  BY DEF Enter
<1>6. request'[r] = q
  BY <1>5, Rows
<1>7. begun' \in 0 .. MaxRequests
  BY <1>1, AccountsAssumption DEF Enter
<1> QED
  BY <1>1, <1>3, <1>4, <1>5, <1>6, <1>7, QuietStep DEF Linking

\* A request ends, and what it had to close is closed.
LEMMA FinishStep ==
    ASSUME AccountsInv, NEW r \in Requests, FinishRequest(r), UNCHANGED <<user, begun, torn>>,
           request[r].at \notin Linking,
           reset' \in ResetTable, session' \in SessionTable,
           Known(user, session', invite, reset'),
           LaterSessions(session, session'), UNCHANGED invite,
           \A s \in request[r].victims : session'[s].revoked
    PROVE  AccountsInv'
<1>1. request'[r] = Free /\ request' = [request EXCEPT ![r] = Free]
  BY Rows DEF FinishRequest
<1>2. Linked'
  BY <1>1, LinkedStays
<1>3. request[r].victims \in SUBSET Sessions
  BY Rows DEF RequestRow
<1>4. shut' \in SUBSET Sessions /\ \A s \in shut' : session'[s].revoked
  BY <1>3 DEF FinishRequest, AccountsInv, AccountsTypeOK, ShutStaysShut, LaterSessions
<1>5. /\ invite' \in InviteTable /\ begun' \in 0 .. MaxRequests /\ torn' \in SUBSET Users
      /\ LaterInvites(invite, invite')
  BY DEF AccountsInv, AccountsTypeOK, InviteTable, LaterInvites
<1> QED
  BY <1>1, <1>2, <1>4, <1>5, FreeIsRow, FreeKnows, OneStep

\* A request sees one more version of its user.
LEMMA SeesRow ==
    ASSUME NEW x \in RequestRow, NEW row \in UserRow
    PROVE  LET y == [x EXCEPT !.views = @ \cup {row}]
           IN  /\ y \in RequestRow /\ y.views = x.views \cup {row}
               /\ y.at = x.at /\ y.user = x.user /\ y.item = x.item /\ y.seen = x.seen
               /\ y.claims = x.claims /\ y.victims = x.victims
  BY DEF RequestRow

\* A request writes its user's row, which every request beside it sees.
LEMMA WriteStep ==
    ASSUME AccountsInv, NEW r \in Requests, UNCHANGED <<session, invite, reset, begun, shut, torn>>,
           request[r].at \notin Linking \cup {"free"},
           NEW row \in UserRow, NEW at \in Closing \cup Linking \cup {"free", "acceptInvite"},
           NEW closing \in SUBSET OpenSessions(request[r].user),
           WriteUser(r, row, at, closing),
           closing # {} => at \in Closing,
           at = "revokeOthers" => request[r].item \notin closing,
           at = "acceptInvite" => row.password /\ request[r].at = "activateUser",
           user[request[r].user].password => row.password,
           row.exists, user[request[r].user].exists \/ at \in Linking
    PROVE  AccountsInv'
<1> DEFINE w == request[r].user
           now(q) == IF q # r THEN request[q]
                     ELSE IF at = "free" THEN Free
                     ELSE [request[q] EXCEPT !.at = at, !.victims = closing]
<1>1. w \in Users
  BY DEF AccountsInv, Knows
<1>2. user \in [Users -> UserRow] /\ user' = [user EXCEPT ![w] = row]
  BY DEF WriteUser, AccountsInv, AccountsTypeOK
<1>3. closing \in SUBSET Sessions /\ at \in Steps
  BY DEF OpenSessions, Steps, Closing, Linking
<1>4. ASSUME NEW q \in Requests PROVE now(q) \in RequestRow
  BY <1>3, <1>4, Rows, FreeIsRow DEF RequestRow
<1>5. ASSUME NEW q \in Requests
      PROVE  request'[q] = IF now(q).user = w THEN [now(q) EXCEPT !.views = @ \cup {row}] ELSE now(q)
  BY <1>5 DEF WriteUser
<1>6. request' \in [Requests -> RequestRow]
  <2>1. ASSUME NEW q \in Requests PROVE request'[q] \in RequestRow
    <3> DEFINE x == now(q)
    <3>1. x \in RequestRow
      BY <1>4, <2>1
    <3>2. request'[q] = IF x.user = w THEN [x EXCEPT !.views = @ \cup {row}] ELSE x
      BY <1>5, <2>1
    <3> HIDE DEF x
    <3> QED
      BY <3>1, <3>2, SeesRow
  <2> QED
    BY <2>1 DEF WriteUser
<1>7. AccountsTypeOK'
  BY <1>2, <1>6 DEF AccountsInv, AccountsTypeOK, RequestRow, Items
<1>8. ASSUME at # "free"
      PROVE  /\ request'[r].at = at /\ request'[r].user = w /\ row \in request'[r].views
             /\ request'[r].victims = closing /\ request'[r].item = request[r].item
  <2> DEFINE x == [request[r] EXCEPT !.at = at, !.victims = closing]
  <2>1. /\ x \in RequestRow /\ x.at = at /\ x.user = w
        /\ x.victims = closing /\ x.item = request[r].item
    BY <1>3, Rows DEF RequestRow
  <2>2. request'[r] = [x EXCEPT !.views = @ \cup {row}]
    BY <1>8, <2>1, <1>5
  <2> HIDE DEF x
  <2> QED
    BY <2>1, <2>2, SeesRow
<1>9. ASSUME NEW q \in Requests, q # r
       PROVE  request'[q].at = request[q].at /\ request'[q].user = request[q].user
  <2>1. request[q] \in RequestRow
    BY Rows
  <2>2. CASE request'[q] = request[q]
    BY <2>2
  <2>3. CASE request'[q] = [request[q] EXCEPT !.views = @ \cup {row}]
    BY <2>1, <2>3, SeesRow
  <2> QED
    BY <1>5, <1>9, <2>2, <2>3
<1>k. Known(user', session, invite, reset)
  BY <1>1, <1>2 DEF AccountsInv, Known, InviteTable, ResetTable
<1>10. ASSUME NEW q \in Requests PROVE Knows(user', session, invite, request'[q])
  <2>0. Knows(user, session, invite, request[q]) /\ request[q] \in RequestRow
    BY Rows DEF AccountsInv
  <2>1. CASE q = r /\ at = "free"
    <3>1. request'[q] = Free
      BY <2>1, <1>1, <1>5, AccountsAssumption DEF Free
    <3> QED
      BY <3>1, FreeKnows
  <2>2. CASE q = r /\ at # "free"
    <3>2. \A s \in closing : session[s].user = w
      BY DEF OpenSessions
    <3>3. user'[w] = row
      BY <1>1, <1>2
    <3>4. at = "acceptInvite" => /\ request[r].item \in Invites
                                 /\ invite[request[r].item].status # "fresh"
                                 /\ invite[request[r].item].user = w
      BY <2>0, <2>2 DEF Knows, Activating
    <3> QED
      BY <1>1, <2>2, <1>8, <3>2, <3>3, <3>4 DEF Knows, Activating, Closing, Linking
  <2>3. CASE q # r /\ request[q].user = w
    <3>1. /\ request'[q].at = request[q].at /\ request'[q].user = w
          /\ request'[q].views = request[q].views \cup {row}
          /\ request'[q].victims = request[q].victims /\ request'[q].item = request[q].item
          /\ request'[q].seen = request[q].seen /\ request'[q].claims = request[q].claims
      <4>1. request'[q] = [request[q] EXCEPT !.views = @ \cup {row}]
        BY <2>3, <1>5
      <4> QED
        BY <2>0, <2>3, <4>1, SeesRow
    <3>2. user'[w] = row
      BY <1>1, <1>2
    <3> QED
      BY <1>1, <2>0, <2>3, <3>1, <3>2 DEF Knows
  <2>4. CASE q # r /\ request[q].user # w
    <3>1. request'[q] = request[q]
      BY <2>4, <1>5
    <3>2. request[q].at # "free" => user'[request[q].user] = user[request[q].user]
      BY <2>0, <2>4, <1>2 DEF Knows
    <3> QED
      BY <2>0, <3>1, <3>2 DEF Knows
  <2> QED
    BY <2>1, <2>2, <2>3, <2>4
<1>11. Linked'
  <2> SUFFICES ASSUME NEW u \in Users \ torn, user'[u].exists, ~user'[u].password
               PROVE  HasLink(u)' \/ GetsLink(u)'
    BY DEF Linked
  <2>1. CASE u = w /\ at \in Linking
    <3>1. request'[r].at = at /\ request'[r].user = w
      BY <2>1, <1>8 DEF Linking
    <3> QED
      BY <2>1, <3>1 DEF GetsLink
  <2>2. CASE ~(u = w /\ at \in Linking)
    <3>1. user[u].exists /\ ~user[u].password
      BY <2>2, <1>1, <1>2
    <3>2. HasLink(u) => HasLink(u)'
      BY DEF HasLink
    <3>3. ASSUME NEW q \in Requests, request[q].at \in Linking, request[q].user = u PROVE GetsLink(u)'
      <4>1. q # r
        BY <3>3
      <4>2. request'[q].at = request[q].at /\ request'[q].user = request[q].user
        BY <4>1, <1>9
      <4> QED
        BY <3>3, <4>2 DEF GetsLink
    <3> QED
      BY <3>1, <3>2, <3>3 DEF AccountsInv, Linked, GetsLink
  <2> QED
    BY <2>1, <2>2
<1> QED
  BY <1>7, <1>k, <1>10, <1>11 DEF AccountsInv, ShutStaysShut

-----------------------------------------------------------------------------
LEMMA AccountsInvInit == AccountsInit => AccountsInv
<1> SUFFICES ASSUME AccountsInit PROVE AccountsInv
  OBVIOUS
<1>1. user \in [Users -> UserRow] /\ \A u \in Users : user[u].exists <=> user[u].password
  <2> DEFINE Hired(role) == [exists |-> TRUE, role |-> role, active |-> TRUE, password |-> TRUE,
                             mustReset |-> FALSE, portal |-> role = "VIEWER"]
  <2>1. Absent \in UserRow /\ ~Absent.exists /\ ~Absent.password
    BY DEF Absent, UserRow, Roles
  <2>2. \A role \in Roles : Hired(role) \in UserRow /\ Hired(role).password /\ Hired(role).exists
    BY DEF UserRow, Roles
  <2>3. user \in [Users -> {Absent} \cup {Hired(role) : role \in Roles}]
    BY DEF AccountsInit
  <2>4. \A u \in Users : user[u] = Absent \/ \E role \in Roles : user[u] = Hired(role)
    BY <2>3
  <2> HIDE DEF Hired
  <2> QED
    BY <2>1, <2>2, <2>3, <2>4
<1>2. request = [r \in Requests |-> Free] /\ request \in [Requests -> RequestRow]
  BY FreeIsRow DEF AccountsInit
<1>3. invite \in InviteTable /\ reset \in ResetTable
  BY DEF AccountsInit, InviteTable, ResetTable
<1>4. AccountsTypeOK
  <2>1. session \in [Sessions -> [user: Users \cup {NoOne}, revoked: BOOLEAN]]
    BY DEF AccountsInit
  <2>2. request \in [Requests ->
          [at: Steps, user: Users \cup {NoOne},
           item: Sessions \cup Invites \cup Resets \cup Roles \cup {NoOne},
           seen: UserRow, patch: Patches, views: SUBSET UserRow, claims: UserRow,
           victims: SUBSET Sessions]]
    BY <1>2 DEF RequestRow, Items
  <2> QED
    BY <1>1, <1>3, <2>1, <2>2 DEF AccountsInit, AccountsTypeOK, InviteTable, ResetTable
<1>5. \A r \in Requests : Knows(user, session, invite, request[r])
  BY <1>2, FreeKnows
<1>6. Known(user, session, invite, reset)
  <2>1. \A s \in Sessions : session[s].user \in Users => user[session[s].user].exists
    BY AccountsAssumption DEF AccountsInit
  <2> QED
    BY <1>1, <2>1 DEF AccountsInit, Known
<1> QED
  BY <1>1, <1>3, <1>4, <1>5, <1>6 DEF AccountsInit, AccountsInv, ShutStaysShut, Linked

\* The requests that begin.
LEMMA Begins ==
    ASSUME AccountsInv, NEW r \in Requests,
           \/ \E u \in Users :
                \/ LoginRead(r, u) \/ ForgotRead(r, u) \/ ForceRead(r, u)
                \/ PortalInviteRead(r, u) \/ ResendRead(r, u) \/ BlockRead(r, u)
                \/ \E role \in Roles : InviteRead(r, u, role)
           \/ \E s \in Sessions :
                RefreshFind(r, s) \/ RevokeFind(r, s) \/ RevokeAllSessions(r, s) \/ ChangeRead(r, s)
           \/ \E i \in Invites : ActivateFind(r, i)
           \/ \E t \in Resets : ResetGet(r, t)
    PROVE  AccountsInv'
<1>1. ASSUME NEW u \in Users,
             \/ LoginRead(r, u) \/ ForgotRead(r, u) \/ ForceRead(r, u)
             \/ PortalInviteRead(r, u) \/ ResendRead(r, u) \/ BlockRead(r, u)
      PROVE  AccountsInv'
  <2>1. PICK at \in {"openSession", "storeReset", "forceFlag", "portalUser",
                     "expireInvites", "block", "unblock"} :
            /\ Enter(r, at, u, NoOne)
            /\ at = "openSession" => user[u].active
            /\ user[u].exists \/ at = "portalUser"
    BY <1>1 DEF LoginRead, ForgotRead, ForceRead, PortalInviteRead, ResendRead, BlockRead,
       Awaited
  <2>2. UNCHANGED <<user, session, invite, reset, shut, torn>>
    BY <1>1 DEF LoginRead, ForgotRead, ForceRead, PortalInviteRead, ResendRead, BlockRead
  <2> QED
    BY <2>1, <2>2, EnterStep DEF Steps, Items
<1>2. ASSUME NEW u \in Users, NEW role \in Roles, InviteRead(r, u, role) PROVE AccountsInv'
  BY <1>2, EnterStep DEF InviteRead, Steps, Items
<1>3. ASSUME NEW s \in Sessions,
             RefreshFind(r, s) \/ RevokeFind(r, s) \/ RevokeAllSessions(r, s) \/ ChangeRead(r, s)
      PROVE  AccountsInv'
  <2>1. session[s].user \in Users /\ user[session[s].user].exists
    BY <1>3 DEF RefreshFind, RevokeFind, RevokeAllSessions, ChangeRead, AccountsInv,
       AccountsTypeOK, Known
  <2>2. PICK at \in {"refreshUser", "revokeOne", "revokeOthers", "changeWrite"} :
            Enter(r, at, session[s].user, s)
    BY <1>3 DEF RefreshFind, RevokeFind, RevokeAllSessions, ChangeRead
  <2>3. UNCHANGED <<user, session, invite, reset, shut, torn>>
    BY <1>3 DEF RefreshFind, RevokeFind, RevokeAllSessions, ChangeRead
  <2> QED
    BY <2>1, <2>2, <2>3, EnterStep DEF Steps, Items
<1>4. ASSUME NEW i \in Invites, ActivateFind(r, i) PROVE AccountsInv'
  <2>1. /\ invite[i].user \in Users /\ invite[i].status # "fresh"
        /\ user[invite[i].user].exists
    BY <1>4 DEF ActivateFind, AccountsInv, InviteTable, Known
  <2> QED
    BY <1>4, <2>1, EnterStep DEF ActivateFind, Steps, Items
<1>5. ASSUME NEW t \in Resets, ResetGet(r, t) PROVE AccountsInv'
  <2>1. reset[t].user \in Users /\ user[reset[t].user].exists
    BY <1>5 DEF ResetGet, AccountsInv, ResetTable, Known
  <2> QED
    BY <1>5, <2>1, EnterStep DEF ResetGet, Steps, Items
<1> QED
  BY <1>1, <1>2, <1>3, <1>4, <1>5

\* The requests that write their user's row.
LEMMA Writes ==
    ASSUME AccountsInv, NEW r \in Requests,
           \/ ChangeWrite(r) \/ ResetWrite(r) \/ ForceFlag(r)
           \/ ActivateUser(r) \/ Block(r) \/ Unblock(r) \/ UpdateUser(r)
    PROVE  AccountsInv'
<1> DEFINE u == request[r].user
           row == user[u]
<1>1. /\ row \in UserRow /\ row.exists /\ request[r] \in RequestRow
      /\ request[r].at \notin Linking \cup {"free"}
      /\ OpenSessions(u) \in SUBSET OpenSessions(u)
      /\ OpenSessions(u) \ {request[r].item} \in SUBSET OpenSessions(u)
      /\ {} \in SUBSET OpenSessions(u)
  <2>1. u \in Users /\ row.exists
    BY DEF AccountsInv, Knows, ChangeWrite, ResetWrite, ForceFlag, ActivateUser, Block,
           Unblock, UpdateUser
  <2> QED
    BY <2>1, Rows DEF AccountsInv, AccountsTypeOK, ChangeWrite, ResetWrite, ForceFlag,
       ActivateUser, Block, Unblock, UpdateUser, Linking
<1>2. CASE ChangeWrite(r)
  <2> DEFINE new == [row EXCEPT !.password = TRUE, !.mustReset = FALSE]
  <2>1. new \in UserRow /\ new.exists /\ new.password
    BY <1>1 DEF UserRow
  <2>2. /\ WriteUser(r, new, "revokeOthers", OpenSessions(u) \ {request[r].item})
        /\ UNCHANGED <<session, invite, reset, begun, shut, torn>>
    BY <1>2 DEF ChangeWrite
  <2> HIDE DEF new
  <2> QED
    BY <1>1, <1>2, <2>1, <2>2, WriteStep DEF ChangeWrite, Closing, Linking
<1>3. CASE ResetWrite(r)
  <2> DEFINE new == [row EXCEPT !.password = TRUE, !.mustReset = FALSE]
  <2>1. new \in UserRow /\ new.exists /\ new.password
    BY <1>1 DEF UserRow
  <2>2. /\ WriteUser(r, new, "dropReset", OpenSessions(u))
        /\ UNCHANGED <<session, invite, reset, begun, shut, torn>>
    BY <1>3 DEF ResetWrite
  <2> HIDE DEF new
  <2> QED
    BY <1>1, <1>3, <2>1, <2>2, WriteStep DEF ResetWrite, Closing, Linking
<1>4. CASE ForceFlag(r)
  <2> DEFINE new == [row EXCEPT !.mustReset = TRUE]
  <2>1. new \in UserRow /\ new.exists /\ new.password = row.password
    BY <1>1 DEF UserRow
  <2>2. /\ WriteUser(r, new, "revokeAll", OpenSessions(u))
        /\ UNCHANGED <<session, invite, reset, begun, shut, torn>>
    BY <1>4 DEF ForceFlag
  <2> HIDE DEF new
  <2> QED
    BY <1>1, <1>4, <2>1, <2>2, WriteStep DEF ForceFlag, Closing, Linking
<1>5. CASE ActivateUser(r)
  <2> DEFINE new == [row EXCEPT !.password = TRUE, !.active = TRUE]
  <2>1. new \in UserRow /\ new.exists /\ new.password
    BY <1>1 DEF UserRow
  <2>2. /\ WriteUser(r, new, "acceptInvite", {})
        /\ UNCHANGED <<session, invite, reset, begun, shut, torn>>
    BY <1>5 DEF ActivateUser
  <2> HIDE DEF new
  <2> QED
    BY <1>1, <1>5, <2>1, <2>2, WriteStep DEF ActivateUser, Closing, Linking
<1>6. CASE Block(r)
  <2> DEFINE new == [row EXCEPT !.active = FALSE]
  <2>1. new \in UserRow /\ new.exists /\ new.password = row.password
    BY <1>1 DEF UserRow
  <2>2. /\ WriteUser(r, new, "revokeAll", OpenSessions(u))
        /\ UNCHANGED <<session, invite, reset, begun, shut, torn>>
    BY <1>6 DEF Block
  <2> HIDE DEF new
  <2> QED
    BY <1>1, <1>6, <2>1, <2>2, WriteStep DEF Block, Closing, Linking
<1>7. CASE Unblock(r)
  <2> DEFINE new == [row EXCEPT !.active = TRUE]
  <2>1. new \in UserRow /\ new.exists /\ new.password = row.password
    BY <1>1 DEF UserRow
  <2>2. /\ WriteUser(r, new, "free", {})
        /\ UNCHANGED <<session, invite, reset, begun, shut, torn>>
    BY <1>7 DEF Unblock
  <2> HIDE DEF new
  <2> QED
    BY <1>1, <1>7, <2>1, <2>2, WriteStep DEF Unblock, Closing, Linking
<1>8. CASE UpdateUser(r)
  <2> DEFINE patch == request[r].patch
             role == IF patch.role = "keep" THEN row.role ELSE patch.role
             active == IF patch.active = "keep" THEN row.active ELSE patch.active = "on"
             new == [row EXCEPT !.role = role, !.active = active]
  <2>1. role \in Roles /\ active \in BOOLEAN
    BY <1>1 DEF RequestRow, Patches, UserRow
  <2>2. WriteUser(r, new, "free", {}) /\ UNCHANGED <<session, invite, reset, begun, shut, torn>>
    BY <1>8 DEF UpdateUser
  <2> HIDE DEF role, active
  <2>3. new \in UserRow /\ new.exists /\ new.password = row.password
    BY <1>1, <2>1 DEF UserRow
  <2> HIDE DEF new
  <2> QED
    BY <1>1, <1>8, <2>2, <2>3, WriteStep DEF UpdateUser, Closing, Linking
<1> QED
  BY <1>2, <1>3, <1>4, <1>5, <1>6, <1>7, <1>8

\* The requests that write their user's row or find that somebody made it.
LEMMA Invitations ==
    ASSUME AccountsInv, NEW r \in Requests, InviteUser(r) \/ PortalUser(r)
    PROVE  AccountsInv'
<1> DEFINE u == request[r].user
           row == user[u]
<1>1. /\ u \in Users /\ row \in UserRow /\ request[r].at \notin Linking \cup {"free"}
      /\ request[r].victims = {} /\ {} \in SUBSET OpenSessions(u)
      /\ request[r].seen.exists => row.exists
  BY DEF AccountsInv, AccountsTypeOK, Knows, InviteUser, PortalUser, Linking, Closing
<1>2. ASSUME FinishRequest(r), UNCHANGED <<user, session, invite, reset, begun, torn>>
      PROVE  AccountsInv'
  <2>1. /\ session' \in SessionTable /\ reset' \in ResetTable
        /\ LaterSessions(session, session') /\ Known(user, session', invite, reset')
    BY <1>2 DEF AccountsInv, AccountsTypeOK, SessionTable, LaterSessions
  <2> QED
    BY <1>1, <1>2, <2>1, FinishStep
<1>3. CASE InviteUser(r)
  <2> DEFINE role == request[r].item
             kept == [row EXCEPT !.role = role]
             made == [Absent EXCEPT !.exists = TRUE, !.role = role]
  <2>1. role \in Roles
    BY <1>3 DEF InviteUser, AccountsInv, Knows
  <2>2. /\ kept \in UserRow /\ kept.exists = row.exists /\ kept.password = row.password
        /\ made \in UserRow /\ made.exists
    BY <1>1, <2>1 DEF UserRow, Absent, Roles
  <2>3. CASE WriteUser(r, kept, "inviteRow", {}) /\ request[r].seen.exists /\ UNCHANGED shut
    <3> HIDE DEF kept
    <3> QED
      BY <1>1, <1>3, <2>2, <2>3, WriteStep DEF InviteUser, Closing, Linking
  <2>4. CASE WriteUser(r, made, "inviteRow", {}) /\ ~row.exists /\ UNCHANGED shut
    <3>1. ~row.password
      BY <1>1, <2>4 DEF AccountsInv, Known
    <3> HIDE DEF made
    <3> QED
      BY <1>1, <1>3, <2>2, <2>4, <3>1, WriteStep DEF InviteUser, Closing, Linking
  <2> QED
    BY <1>2, <1>3, <2>3, <2>4 DEF InviteUser
<1>4. CASE PortalUser(r)
  <2> DEFINE new == [row EXCEPT !.exists = TRUE, !.role = "VIEWER", !.active = FALSE, !.portal = TRUE]
  <2>1. new \in UserRow /\ new.exists /\ new.password = row.password
    BY <1>1 DEF UserRow, Roles
  <2>2. CASE WriteUser(r, new, "expireInvites", {}) /\ UNCHANGED shut
    <3> HIDE DEF new
    <3> QED
      BY <1>1, <1>4, <2>1, <2>2, WriteStep DEF PortalUser, Closing, Linking
  <2> QED
    BY <1>2, <1>4, <2>2 DEF PortalUser
<1> QED
  BY <1>3, <1>4

\* Revoking sessions leaves their users.
LEMMA RevokedTable ==
    ASSUME AccountsInv, NEW which
    PROVE  /\ Revoked(which) \in SessionTable
           /\ LaterSessions(session, Revoked(which))
           /\ Known(user, Revoked(which), invite, reset)
           /\ \A s \in Sessions : /\ Revoked(which)[s].user = session[s].user
                                  /\ s \in which \/ session[s].revoked => Revoked(which)[s].revoked
<1>1. session \in SessionTable
  BY DEF AccountsInv, AccountsTypeOK, SessionTable
<1>2. ASSUME NEW s \in Sessions
      PROVE  /\ Revoked(which)[s] \in [user: Users \cup {NoOne}, revoked: BOOLEAN]
             /\ Revoked(which)[s].user = session[s].user
             /\ s \in which \/ session[s].revoked => Revoked(which)[s].revoked
  BY <1>1 DEF SessionTable, Revoked
<1>3. Revoked(which) \in SessionTable
  BY <1>2 DEF SessionTable, Revoked
<1>4. Known(user, Revoked(which), invite, reset)
  BY <1>2 DEF Known, AccountsInv
<1> QED
  BY <1>2, <1>3, <1>4 DEF LaterSessions

\* The requests that end.
LEMMA Ends ==
    ASSUME AccountsInv, NEW r \in Requests,
           \/ Answer(r) \/ ActivateRefused(r) \/ StoreReset(r)
           \/ RevokeOne(r) \/ RevokeOthers(r) \/ RevokeAll(r)
    PROVE  AccountsInv'
<1> DEFINE u == request[r].user
<1>1. /\ u \in Users /\ request[r] \in RequestRow /\ request[r].at \notin Linking
      /\ FinishRequest(r) /\ UNCHANGED <<user, begun, torn, invite>>
      /\ Knows(user, session, invite, request[r])
  BY Rows DEF AccountsInv, Knows, Answer, ActivateRefused, StoreReset, RevokeOne, RevokeOthers,
     RevokeAll, Linking
<1>2. \A s \in request[r].victims : s \in Sessions /\ session[s].user = u
  BY <1>1 DEF Knows, RequestRow
<1>3. ASSUME NEW which, session' = Revoked(which), UNCHANGED reset,
             \A s \in request[r].victims : s \in which \/ session[s].revoked
      PROVE  AccountsInv'
  <2>1. \A s \in request[r].victims : session'[s].revoked
    BY <1>2, <1>3, RevokedTable
  <2>2. reset' \in ResetTable
    BY <1>3 DEF AccountsInv
  <2>3. /\ session' \in SessionTable /\ LaterSessions(session, session')
        /\ Known(user, session', invite, reset')
    BY <1>3, RevokedTable
  <2> QED
    BY <1>1, <2>1, <2>2, <2>3, FinishStep
<1>4. CASE Answer(r) \/ ActivateRefused(r)
  <2>1. request[r].victims = {} /\ UNCHANGED <<session, reset>>
    BY <1>1, <1>4 DEF Answer, ActivateRefused, Knows, Closing
  <2>2. /\ session' \in SessionTable /\ reset' \in ResetTable
        /\ LaterSessions(session, session') /\ Known(user, session', invite, reset')
    BY <2>1 DEF AccountsInv, AccountsTypeOK, SessionTable, LaterSessions
  <2> QED
    BY <1>1, <2>1, <2>2, FinishStep
<1>5. CASE StoreReset(r)
  <2>1. request[r].victims = {} /\ UNCHANGED session /\ user[u].exists
    BY <1>1, <1>5 DEF StoreReset, Knows, Closing
  <2>2. PICK t \in Resets : reset' = [reset EXCEPT ![t] = [status |-> "valid", user |-> u]]
    BY <1>5 DEF StoreReset
  <2>3. reset' \in ResetTable
    BY <1>1, <2>2 DEF AccountsInv, ResetTable
  <2>4. Known(user, session, invite, reset')
    BY <1>1, <2>1, <2>2 DEF AccountsInv, Known, ResetTable
  <2>5. session' \in SessionTable /\ LaterSessions(session, session')
    BY <2>1 DEF AccountsInv, AccountsTypeOK, SessionTable, LaterSessions
  <2> QED
    BY <1>1, <2>1, <2>3, <2>4, <2>5, FinishStep
<1>6. CASE RevokeOne(r)
  <2>1. request[r].victims = {}
    BY <1>1, <1>6 DEF RevokeOne, Knows, Closing
  <2> QED
    BY <1>3, <1>6, <2>1 DEF RevokeOne
<1>7. CASE RevokeOthers(r)
  <2>1. \A s \in request[r].victims : s \in OpenSessions(u) \ {request[r].item} \/ session[s].revoked
    BY <1>1, <1>2, <1>7 DEF RevokeOthers, Knows, OpenSessions
  <2> QED
    BY <1>3, <1>7, <2>1 DEF RevokeOthers
<1>8. CASE RevokeAll(r)
  <2>1. \A s \in request[r].victims : s \in OpenSessions(u) \/ session[s].revoked
    BY <1>2 DEF OpenSessions
  <2> QED
    BY <1>3, <1>8, <2>1 DEF RevokeAll
<1> QED
  BY <1>4, <1>5, <1>6, <1>7, <1>8

\* The steps of a request that change at most its session or a reset key.
LEMMA Reads ==
    ASSUME AccountsInv, NEW r \in Requests,
           \/ OpenSession(r) \/ RefreshUser(r) \/ Rotate(r) \/ DropReset(r) \/ CountAdmins(r)
           \/ \E u \in Users, patch \in Patches : UpdateRead(r, u, patch)
    PROVE  AccountsInv'
<1> DEFINE q == request[r]
<1>1. /\ q \in RequestRow /\ Knows(user, session, invite, q)
      /\ q.at # "free" => q.user \in Users /\ user[q.user] \in UserRow
  BY Rows DEF AccountsInv, AccountsTypeOK, Knows
<1>2. /\ reset \in ResetTable /\ begun \in 0 .. MaxRequests /\ torn \in SUBSET Users
      /\ shut \in SUBSET Sessions /\ invite \in InviteTable /\ session \in SessionTable
      /\ Known(user, session, invite, reset)
  BY DEF AccountsInv, AccountsTypeOK, SessionTable
<1>3. CASE OpenSession(r)
  <2> DEFINE x == [q EXCEPT !.at = "issued", !.claims = q.seen]
  <2>1. PICK s \in Sessions : /\ session[s].user = NoOne
                              /\ session' = [session EXCEPT ![s].user = q.user]
    BY <1>3 DEF OpenSession
  <2>2. q.at = "openSession" /\ q.user \in Users /\ user[q.user].exists
    BY <1>1, <1>3 DEF OpenSession, Knows
  <2>3. session' \in SessionTable /\ LaterSessions(session, session')
    BY <1>2, <2>1, <2>2 DEF SessionTable, LaterSessions
  <2>4. Known(user, session', invite, reset)
    BY <1>2, <2>1, <2>2 DEF Known, SessionTable
  <2>5. /\ x \in RequestRow /\ x.at = "issued" /\ x.claims = q.seen /\ x.views = q.views
        /\ x.user = q.user /\ x.victims = q.victims
    BY <1>1 DEF RequestRow, Steps
  <2>6. Knows(user, session', invite, x)
    BY <1>1, <2>2, <2>5 DEF Knows, Closing, Activating
  <2>7. request' = [request EXCEPT ![r] = x] /\ request'[r] = x
    BY <1>3, Rows DEF OpenSession
  <2>8. UNCHANGED <<user, invite, reset, begun, shut, torn>>
    BY <1>3 DEF OpenSession
  <2> HIDE DEF x
  <2>9. Linked'
    BY <2>2, <2>7, <2>8, LinkedStays DEF Linking
  <2>10. LaterInvites(invite, invite') /\ \A s1 \in shut' : session'[s1].revoked
    BY <1>2, <2>3, <2>8 DEF LaterInvites, LaterSessions, AccountsInv, ShutStaysShut
  <2> QED
    BY <1>2, <2>3, <2>4, <2>5, <2>6, <2>7, <2>8, <2>9, <2>10, OneStep
<1>4. CASE RefreshUser(r)
  <2> DEFINE row == user[q.user]
             at == IF row.exists /\ row.active THEN "rotate" ELSE "revokeOne"
             x == [q EXCEPT !.seen = row, !.at = at]
  <2>1. q.at = "refreshUser" /\ row \in UserRow
    BY <1>1, <1>4 DEF RefreshUser
  <2>2. /\ x \in RequestRow /\ x.at = at /\ x.seen = row /\ x.views = q.views
        /\ x.user = q.user /\ x.victims = q.victims
    BY <1>1, <2>1 DEF RequestRow, Steps
  <2>3. Knows(user, session, invite, x)
    BY <1>1, <2>1, <2>2 DEF Knows, Closing, Activating
  <2>4. request' = [request EXCEPT ![r] = x] /\ request'[r] = x
    BY <1>4, Rows DEF RefreshUser
  <2> HIDE DEF x
  <2> QED
    BY <1>2, <1>4, <2>1, <2>2, <2>3, <2>4, QuietStep DEF RefreshUser, Linking
<1>5. CASE Rotate(r)
  <2> DEFINE x == [q EXCEPT !.at = "issued", !.claims = q.seen]
  <2>1. q.at = "rotate"
    BY <1>5 DEF Rotate
  <2>2. /\ x \in RequestRow /\ x.at = "issued" /\ x.claims = q.seen /\ x.views = q.views
        /\ x.user = q.user /\ x.victims = q.victims
    BY <1>1 DEF RequestRow, Steps
  <2>3. Knows(user, session, invite, x)
    BY <1>1, <2>1, <2>2 DEF Knows, Closing, Activating
  <2>4. request' = [request EXCEPT ![r] = x] /\ request'[r] = x
    BY <1>5, Rows DEF Rotate
  <2> HIDE DEF x
  <2> QED
    BY <1>2, <1>5, <2>1, <2>2, <2>3, <2>4, QuietStep DEF Rotate, Linking
<1>6. CASE DropReset(r)
  <2> DEFINE x == [q EXCEPT !.at = "revokeAll"]
  <2>1. q.at = "dropReset" /\ q.user \in Users /\ reset' = [reset EXCEPT ![q.item].status = "gone"]
    BY <1>1, <1>6 DEF DropReset
  <2>2. /\ x \in RequestRow /\ x.at = "revokeAll" /\ x.views = q.views
        /\ x.user = q.user /\ x.victims = q.victims
    BY <1>1 DEF RequestRow, Steps
  <2>3. Knows(user, session, invite, x)
    BY <1>1, <2>1, <2>2 DEF Knows, Closing, Activating
  <2>4. request' = [request EXCEPT ![r] = x] /\ request'[r] = x
    BY <1>6, Rows DEF DropReset, Go
  <2>5. reset' \in ResetTable
    <3>1. ASSUME NEW t \in Resets
          PROVE  /\ reset'[t] \in [status: {"fresh", "valid", "gone"}, user: Users \cup {NoOne}]
                 /\ reset'[t].status = "valid" => reset'[t].user \in Users
      BY <1>2, <2>1 DEF ResetTable
    <3> QED
      BY <1>2, <2>1, <3>1 DEF ResetTable
  <2>6. Known(user, session, invite, reset')
    BY <1>2, <2>1 DEF Known, ResetTable
  <2> HIDE DEF x
  <2> QED
    BY <1>2, <1>6, <2>1, <2>2, <2>3, <2>4, <2>5, <2>6, QuietStep DEF DropReset, Linking
<1>7. CASE CountAdmins(r)
  <2> DEFINE x == [q EXCEPT !.at = "updateUser"]
  <2>1. q.at = "countAdmins" /\ q.victims = {}
    BY <1>1, <1>7 DEF CountAdmins, Knows, Closing
  <2>2. CASE FinishRequest(r)
    <3>1. LaterSessions(session, session)
      BY DEF LaterSessions
    <3> QED
      BY <1>2, <1>7, <2>1, <2>2, <3>1, FinishStep DEF CountAdmins, Linking
  <2>3. CASE Go(r, "updateUser") /\ UNCHANGED shut
    <3>1. /\ x \in RequestRow /\ x.at = "updateUser" /\ x.views = q.views
          /\ x.user = q.user /\ x.victims = q.victims
      BY <1>1 DEF RequestRow, Steps
    <3>2. Knows(user, session, invite, x)
      BY <1>1, <2>1, <3>1 DEF Knows, Closing, Activating
    <3>3. request' = [request EXCEPT ![r] = x] /\ request'[r] = x
      BY <2>3, Rows DEF Go
    <3> HIDE DEF x
    <3> QED
      BY <1>2, <1>7, <2>1, <2>3, <3>1, <3>2, <3>3, QuietStep DEF CountAdmins, Linking
  <2> QED
    BY <1>7, <2>2, <2>3 DEF CountAdmins
<1>8. ASSUME NEW u \in Users, NEW patch \in Patches, UpdateRead(r, u, patch) PROVE AccountsInv'
  <2> DEFINE at == IF LosesAdmin(user[u], patch) THEN "countAdmins" ELSE "updateUser"
             x == [Free EXCEPT !.at = at, !.user = u, !.patch = patch, !.views = {user[u]}]
  <2>1. user[u] \in UserRow /\ user[u].exists /\ q.at = "free"
    BY <1>8 DEF UpdateRead, AccountsInv, AccountsTypeOK
  <2>2. x.at = at /\ x.user = u /\ x.views = {user[u]} /\ x.victims = {}
    BY DEF Free
  <2>3. x \in RequestRow
    BY <2>1, FreeIsRow DEF RequestRow, Steps
  <2>4. Knows(user, session, invite, x)
    BY <2>1, <2>2 DEF Knows, Activating
  <2>5. request' = [request EXCEPT ![r] = x] /\ request'[r] = x
    BY <1>8, Rows DEF UpdateRead
  <2>6. begun < MaxRequests /\ begun' = begun + 1
    BY <1>8 DEF UpdateRead
  <2>7. begun' \in 0 .. MaxRequests
    BY <1>2, <2>6, AccountsAssumption
  <2>8. UNCHANGED <<user, session, invite, reset, shut, torn>>
    BY <1>8 DEF UpdateRead
  <2> HIDE DEF x
  <2> QED
    BY <1>2, <2>1, <2>3, <2>4, <2>5, <2>7, <2>8, QuietStep DEF Linking
<1> QED
  BY <1>3, <1>4, <1>5, <1>6, <1>7, <1>8

\* The steps of a request that change a link, and the death of one.
LEMMA LinkSteps ==
    ASSUME AccountsInv, NEW r \in Requests,
           ExpireInvites(r) \/ InviteRow(r) \/ AcceptInvite(r) \/ RequestDies(r)
    PROVE  AccountsInv'
<1> DEFINE q == request[r]
<1>0. PICK u : u = q.user
  OBVIOUS
<1>1. /\ q \in RequestRow /\ Knows(user, session, invite, q)
      /\ u = q.user /\ u \in Users
  BY <1>0, Rows DEF AccountsInv, Knows, ExpireInvites, InviteRow, AcceptInvite, RequestDies
<1>2. /\ reset \in ResetTable /\ begun \in 0 .. MaxRequests /\ torn \in SUBSET Users
      /\ shut \in SUBSET Sessions /\ invite \in InviteTable /\ session \in SessionTable
      /\ Known(user, session, invite, reset) /\ LaterSessions(session, session)
      /\ \A s \in shut : session[s].revoked
  BY DEF AccountsInv, AccountsTypeOK, SessionTable, ShutStaysShut, LaterSessions
\* Others' links and those who are about to write one are still there.
<1>3. ASSUME NEW v \in Users, GetsLink(v), v # u,
             request' = [request EXCEPT ![r] = request'[r]]
      PROVE  GetsLink(v)'
  <2>1. PICK p \in Requests : request[p].at \in Linking /\ request[p].user = v
    BY <1>3 DEF GetsLink
  <2>2. request'[p] = request[p]
    BY <1>0, <1>3, <2>1, Rows
  <2> QED
    BY <2>1, <2>2 DEF GetsLink
<1>4. CASE ExpireInvites(r)
  <2> DEFINE x == [q EXCEPT !.at = "inviteRow"]
  <2>1. /\ q.at = "expireInvites" /\ UNCHANGED <<user, session, reset, begun, shut, torn>>
        /\ request' = [request EXCEPT ![r] = x] /\ request'[r] = x
    BY <1>4, Rows DEF ExpireInvites, Go
  <2>2. /\ x \in RequestRow /\ x.at = "inviteRow" /\ x.views = q.views
        /\ x.user = u /\ x.victims = q.victims
    BY <1>1 DEF RequestRow, Steps
  <2>3. ASSUME NEW i \in Invites
        PROVE  /\ invite'[i] \in [status: {"fresh", "PENDING", "EXPIRED", "ACCEPTED"},
                                  user: Users \cup {NoOne}]
               /\ invite'[i].user = invite[i].user
               /\ invite[i].status = "fresh" <=> invite'[i].status = "fresh"
               /\ invite[i].user # u => invite'[i] = invite[i]
    BY <1>0, <1>2, <1>4 DEF ExpireInvites, InviteTable
  <2>4. invite' \in InviteTable
    BY <1>2, <1>4, <2>3 DEF ExpireInvites, InviteTable
  <2>5. LaterInvites(invite, invite') /\ Known(user, session, invite', reset)
    BY <1>2, <2>3 DEF LaterInvites, Known
  <2>6. Knows(user, session, invite', x)
    BY <1>1, <2>1, <2>2 DEF Knows, Closing, Activating
  <2> HIDE DEF x
  <2>7. Linked'
    <3>1. GetsLink(u)'
      BY <2>1, <2>2 DEF GetsLink, Linking
    <3>2. ASSUME NEW v \in Users \ torn, v # u, HasLink(v) PROVE HasLink(v)'
      BY <2>3, <3>2 DEF HasLink
    <3> SUFFICES ASSUME NEW v \in Users \ torn, v # u, user[v].exists, ~user[v].password
                 PROVE  HasLink(v)' \/ GetsLink(v)'
      BY <2>1, <3>1 DEF Linked
    <3>3. HasLink(v) \/ GetsLink(v)
      BY DEF AccountsInv, Linked
    <3> QED
      BY <1>3, <2>1, <3>2, <3>3
  <2> QED
    BY <1>2, <2>1, <2>2, <2>4, <2>5, <2>6, <2>7, OneStep
<1>5. CASE InviteRow(r)
  <2>1. PICK i \in Invites : /\ invite[i].status = "fresh"
                             /\ invite' = [invite EXCEPT ![i] = [status |-> "PENDING", user |-> u]]
    BY <1>0, <1>5 DEF InviteRow
  <2>2. /\ q.at = "inviteRow" /\ FinishRequest(r)
        /\ UNCHANGED <<user, session, reset, begun, torn>>
    BY <1>0, <1>5 DEF InviteRow
  <2>3. /\ q.victims = {} /\ user[u].exists
        /\ request' = [request EXCEPT ![r] = Free] /\ request'[r] = Free /\ shut' = shut
    BY <1>1, <2>2, Rows DEF Knows, Closing, FinishRequest
  <2>4. invite' \in InviteTable /\ LaterInvites(invite, invite')
    BY <1>1, <1>2, <2>1 DEF InviteTable, LaterInvites
  <2>5. Known(user, session, invite', reset)
    BY <1>1, <1>2, <2>1, <2>3 DEF Known, InviteTable
  <2>6. Linked'
    <3>1. HasLink(u)'
      <4>1. invite'[i] = [status |-> "PENDING", user |-> u]
        BY <1>2, <2>1 DEF InviteTable
      <4> QED
        BY <4>1 DEF HasLink
    <3>2. ASSUME NEW v \in Users \ torn, HasLink(v) PROVE HasLink(v)'
      BY <1>2, <2>1, <3>2 DEF HasLink, InviteTable
    <3> SUFFICES ASSUME NEW v \in Users \ torn, v # u, user[v].exists, ~user[v].password
                 PROVE  HasLink(v)' \/ GetsLink(v)'
      BY <2>2, <3>1 DEF Linked
    <3>3. HasLink(v) \/ GetsLink(v)
      BY DEF AccountsInv, Linked
    <3> QED
      BY <1>3, <2>3, <3>2, <3>3
  <2> QED
    BY <1>2, <2>2, <2>3, <2>4, <2>5, <2>6, FreeIsRow, FreeKnows, OneStep
<1>6. CASE AcceptInvite(r)
  <2>1. /\ q.at = "acceptInvite" /\ FinishRequest(r)
        /\ UNCHANGED <<user, session, reset, begun, torn>>
        /\ invite' = [invite EXCEPT ![q.item].status = "ACCEPTED"]
    BY <1>6 DEF AcceptInvite
  <2>2. /\ q.victims = {} /\ request' = [request EXCEPT ![r] = Free] /\ request'[r] = Free
        /\ shut' = shut
    BY <1>1, <2>1, Rows DEF Knows, Closing, FinishRequest
  <2>3. q.item \in Invites /\ invite[q.item].user = u /\ user[u].password
        /\ invite[q.item].status # "fresh"
    BY <1>1, <2>1 DEF Knows, Activating
  <2>4. ASSUME NEW i \in Invites
        PROVE  /\ invite'[i] \in [status: {"fresh", "PENDING", "EXPIRED", "ACCEPTED"},
                                  user: Users \cup {NoOne}]
               /\ invite'[i].user = invite[i].user
               /\ invite[i].status = "fresh" <=> invite'[i].status = "fresh"
               /\ invite[i].user # u => invite'[i] = invite[i]
    BY <1>2, <2>1, <2>3 DEF InviteTable
  <2>5. invite' \in InviteTable
    BY <1>2, <2>1, <2>4 DEF InviteTable
  <2>6. LaterInvites(invite, invite') /\ Known(user, session, invite', reset)
    BY <1>2, <2>4 DEF LaterInvites, Known
  <2>7. Linked'
    <3>1. ASSUME NEW v \in Users \ torn, v # u, HasLink(v) PROVE HasLink(v)'
      BY <2>4, <3>1 DEF HasLink
    <3> QED
      BY <1>3, <2>1, <2>2, <2>3, <3>1 DEF AccountsInv, Linked
  <2> QED
    BY <1>2, <2>1, <2>2, <2>5, <2>6, <2>7, FreeIsRow, FreeKnows, OneStep
<1>7. CASE RequestDies(r)
  <2>1. /\ request' = [request EXCEPT ![r] = Free] /\ request'[r] = Free
        /\ torn' = torn \cup {u} /\ UNCHANGED <<user, session, invite, reset, begun, shut>>
    BY <1>0, <1>7, Rows DEF RequestDies
  <2>2. torn' \in SUBSET Users /\ LaterInvites(invite, invite')
    BY <1>1, <1>2, <2>1 DEF LaterInvites
  <2>3. Linked'
    BY <1>0, <2>1, LinkedStays
  <2> QED
    BY <1>2, <2>1, <2>2, <2>3, FreeIsRow, FreeKnows, OneStep
<1> QED
  BY <1>4, <1>5, <1>6, <1>7

LEMMA AccountsInvNext == AccountsInv /\ [AccountsNext]_accountsVars => AccountsInv'
<1> SUFFICES ASSUME AccountsInv, [AccountsNext]_accountsVars PROVE AccountsInv'
  OBVIOUS
<1>1. CASE UNCHANGED accountsVars
  BY <1>1 DEF accountsVars, AccountsInv, AccountsTypeOK, ShutStaysShut, Linked, HasLink, GetsLink
<1>2. CASE AccountsNext
  BY <1>2, Begins, Writes, Invitations, Ends, Reads, LinkSteps DEF AccountsNext
<1> QED
  BY <1>1, <1>2

LEMMA AccountsInvariant == AccountsSpec => []AccountsInv
  BY AccountsInvInit, AccountsInvNext, PTL DEF AccountsSpec

-----------------------------------------------------------------------------
\* Whatever requests interleave or die, every row and key keeps its fields in
\* range: no request inserts what the columns do not take.
THEOREM AccountsAreTyped == AccountsSpec => []AccountsTypeOK
<1>1. AccountsInv => AccountsTypeOK
  BY DEF AccountsInv
<1> QED
  BY <1>1, AccountsInvariant, PTL

\* auth.service issues a token with claims that were true of an active user
\* while the login or the refresh ran, however many users are changed beside it.
THEOREM TokensAreTrue == AccountsSpec => []TokensFollowTheUser
<1>1. AccountsInv => TokensFollowTheUser
  BY DEF AccountsInv, Knows, TokensFollowTheUser
<1> QED
  BY <1>1, AccountsInvariant, PTL

\* The sessions that a change of password, a reset, a forced reset or a block
\* had to close stay revoked: rotateToken writes no revocation back.
THEOREM ShutIsForGood == AccountsSpec => []ShutStaysShut
<1>1. AccountsInv => ShutStaysShut
  BY DEF AccountsInv
<1> QED
  BY <1>1, AccountsInvariant, PTL

\* invite, inviteCreditorUser and resendInvite leave no user without a
\* password and without a link, unless one of their requests died half-way.
THEOREM InviteesHaveLinks == AccountsSpec => []InviteeHasLink
<1>1. ASSUME AccountsInv, NEW u \in Users, Awaited(user[u]), u \notin torn,
             \A r \in Requests : request[r].user # u
      PROVE  \E i \in Invites : invite[i].user = u /\ invite[i].status = "PENDING"
  BY <1>1 DEF AccountsInv, Linked, HasLink, GetsLink, Awaited
<1>2. AccountsInv => InviteeHasLink
  BY <1>1 DEF InviteeHasLink
<1> QED
  BY <1>2, AccountsInvariant, PTL

(***************************************************************************)
(* Messages.  What a run, a page and a link have recorded, handed over and *)
(* counted, by where the one that sends them is.                           *)
(***************************************************************************)

Empty(x) == send[x] = NoSend
\* The contracts that what was recorded under a cause names.
Recorded(k) == {d \in Debtors : items[k][d] > 0}
Untouched(k) == \A d \in Debtors : handed[k][d] = 0 /\ items[k][d] = 0

CallFits(s) == /\ DOMAIN s = {"at", "cause", "batch"}
               /\ s.at \in {"check", "post", "record", "ok", "failed"}
               /\ s.batch \subseteq Debtors

ItemsFit == items \in [Causes -> [Debtors -> Nat]]

SendsFit == /\ DOMAIN send = Senders
            /\ \A x \in Senders : Empty(x) \/ CallFits(send[x])

Working == {"select", "batch", "wait"}
Due(m, left) == left \subseteq {r \in CommRules : m \in DueAt[r]}
PodFits(t) ==
    /\ t.at \in Working \cup {"idle", "rules"}
    /\ t.at = "idle" => t = PodIdle
    /\ t.at = "rules" => DOMAIN t = {"at", "minute", "left"}
    /\ t.at = "select" => DOMAIN t = {"at", "minute", "left", "rule"}
    /\ t.at \in {"batch", "wait"} =>
          /\ DOMAIN t = {"at", "minute", "left", "rule", "matched", "rest", "batch",
                         "sent", "failed"}
          /\ t.sent \in Nat /\ t.failed \in Nat
          /\ t.rest \subseteq Debtors /\ t.batch \subseteq Debtors
          /\ t.rest \cap t.batch = {}
          /\ t.at = "batch" => t.batch = {}
    /\ t.at # "idle" => Due(t.minute, t.left)
    /\ t.at \in Working => <<t.rule, t.minute>> \in RunKeys

\* What a process at work on a run has done of it.
Counted(p) == IF ~Empty(p) /\ send[p].at = "ok" THEN Cardinality(pod[p].batch) ELSE 0
Pending(p) == pod[p].rest \cup IF ~Empty(p) /\ send[p].at # "ok" THEN pod[p].batch ELSE {}
PodKnows(p) ==
    /\ pod[p].at # "wait" <=> Empty(p)
    /\ pod[p].at = "wait" => send[p].cause = Run(p) /\ send[p].batch = pod[p].batch
    /\ pod[p].at \in Working => runRow[Run(p)] = [status |-> "RUNNING"]
    /\ pod[p].at = "select" => Untouched(Run(p))
    /\ pod[p].at \in {"batch", "wait"} =>
          /\ \A d \in pod[p].rest : handed[Run(p)][d] = 0
          /\ \A d \in Pending(p) : items[Run(p)][d] = 0
          /\ pod[p].sent + Counted(p) = Cardinality(Recorded(Run(p)))
          /\ pod[p].sent + pod[p].failed + Cardinality(pod[p].rest)
                + Cardinality(pod[p].batch) = pod[p].matched

Apart == \A p \in Pods, q \in Pods :
    p # q /\ pod[p].at \in Working /\ pod[q].at \in Working => Run(p) # Run(q)

RunKnows(k) ==
    /\ handed[k] \in [Debtors -> {0, 1}]
    /\ runRow[k] = NoRun => Untouched(k)
    /\ "sent" \in DOMAIN runRow[k] =>
          /\ runRow[k].sent = Cardinality(Recorded(k))
          /\ runRow[k].sent + runRow[k].failed = runRow[k].matched

RunsInv == /\ DOMAIN runRow = RunKeys /\ DOMAIN handed = RunKeys /\ DOMAIN pod = Pods
           /\ owing \subseteq Debtors
           /\ \A p \in Pods : PodFits(pod[p]) /\ PodKnows(p)
           /\ Apart
           /\ \A k \in RunKeys : RunKnows(k)

\* A campaign's page, and the link a web-hook asked for.
PagesFit == \A j \in Campaigns : Empty(j) \/ send[j].cause = j

Waits(h, k) == ring[h].at = "wait" /\ ring[h].of = k
RingFits(g) == /\ g.at \in {"idle", "ask", "wait", "item", "talk"}
               /\ g.at # "idle" => g.of \in Calls
               /\ g.at = "idle" => g = NoRing
               /\ g.at \in {"ask", "wait"} => DOMAIN g = {"at", "of"}
               /\ g.at \in {"item", "talk"} =>
                     DOMAIN g = {"at", "of", "report"} /\ g.report \in Reports
RingKnows(h) ==
    /\ ring[h].at # "wait" <=> Empty(h)
    /\ ring[h].at = "wait" =>
          /\ send[h].cause = ring[h].of /\ send[h].batch = {ring[h].of[2]}
          /\ VoiceKey(ring[h].of) \in seenKeys
          /\ items[ring[h].of][ring[h].of[2]] = IF send[h].at = "ok" THEN 1 ELSE 0

OneWaits == \A g \in VoiceHooks, h \in VoiceHooks :
    g # h /\ ring[g].at = "wait" /\ ring[h].at = "wait" => ring[g].of # ring[h].of

LinkKnows(k) ==
    /\ items[k][k[2]] <= 1
    /\ VoiceKey(k) \notin seenKeys => items[k][k[2]] = 0
    /\ VoiceKey(k) \in seenKeys /\ k \notin dropped /\ (\A h \in VoiceHooks : ~Waits(h, k))
          => items[k][k[2]] = 1

LinksInv == /\ DOMAIN ring = VoiceHooks
            /\ \A h \in VoiceHooks : RingFits(ring[h]) /\ RingKnows(h)
            /\ OneWaits
            /\ \A k \in Calls : LinkKnows(k)

OutreachInv == ItemsFit /\ SendsFit /\ RunsInv /\ PagesFit /\ LinksInv

-----------------------------------------------------------------------------
(* Sizes.                                                                  *)

LEMMA SizeSplits ==
  ASSUME NEW S, IsFiniteSet(S), NEW B, B \subseteq S
  PROVE  /\ IsFiniteSet(B) /\ IsFiniteSet(S \ B)
         /\ Cardinality(S) \in Nat /\ Cardinality(B) \in Nat /\ Cardinality(S \ B) \in Nat
         /\ Cardinality(S) = Cardinality(B) + Cardinality(S \ B)
<1>1. IsFiniteSet(B) /\ IsFiniteSet(S \ B)
  BY FS_Subset
<1>2. Cardinality(B \cup (S \ B)) =
         Cardinality(B) + Cardinality(S \ B) - Cardinality(B \cap (S \ B))
  BY <1>1, FS_Union
<1>3. B \cup (S \ B) = S /\ B \cap (S \ B) = {}
  OBVIOUS
<1>4. Cardinality(S) \in Nat /\ Cardinality(B) \in Nat /\ Cardinality(S \ B) \in Nat
  BY <1>1, FS_CardinalityType
<1>5. Cardinality({}) = 0
  BY FS_EmptySet
<1>6. Cardinality(S) = Cardinality(B) + Cardinality(S \ B) - Cardinality({})
  BY <1>2, <1>3, Zenon
<1> QED  BY <1>1, <1>4, <1>5, <1>6

LEMMA SizesAdd ==
  ASSUME NEW A, NEW B, IsFiniteSet(A), IsFiniteSet(B), A \cap B = {}
  PROVE  /\ IsFiniteSet(A \cup B)
         /\ Cardinality(A) \in Nat /\ Cardinality(B) \in Nat
         /\ Cardinality(A \cup B) = Cardinality(A) + Cardinality(B)
<1>1. /\ IsFiniteSet(A \cup B)
      /\ Cardinality(A \cup B) = Cardinality(A) + Cardinality(B) - Cardinality(A \cap B)
  BY FS_Union
<1>2. Cardinality(A) \in Nat /\ Cardinality(B) \in Nat /\ Cardinality({}) = 0
  BY FS_CardinalityType, FS_EmptySet
<1>3. Cardinality(A \cap B) = Cardinality({})
  BY Zenon
<1> QED  BY <1>1, <1>2, <1>3

\* A batch is part of what it is taken from.
LEMMA SlicesArePart ==
  ASSUME NEW S, NEW n, NEW b \in Slices(S, n)
  PROVE  b \subseteq S
BY DEF Slices, kSubset

LEMMA DebtorsAreFinite ==
  ASSUME NEW S, S \subseteq Debtors
  PROVE  IsFiniteSet(S) /\ Cardinality(S) \in Nat
BY OutreachAssumption, FS_Subset, FS_CardinalityType

-----------------------------------------------------------------------------
(* What a step leaves alone.                                               *)

LEMMA PodSame ==
  ASSUME NEW p \in Pods, PodKnows(p), pod'[p] = pod[p], send'[p] = send[p],
         pod[p].at \in Working =>
            /\ runRow'[Run(p)] = runRow[Run(p)]
            /\ handed'[Run(p)] = handed[Run(p)]
            /\ items'[Run(p)] = items[Run(p)]
  PROVE  PodKnows(p)'
BY DEF PodKnows, Counted, Pending, Empty, Run, Untouched, Recorded, Working

LEMMA RunSame ==
  ASSUME NEW k \in RunKeys, RunKnows(k), runRow'[k] = runRow[k],
         handed'[k] = handed[k], items'[k] = items[k]
  PROVE  RunKnows(k)'
BY DEF RunKnows, Untouched, Recorded

LEMMA RingSame ==
  ASSUME NEW h \in VoiceHooks, RingKnows(h), ring'[h] = ring[h], send'[h] = send[h],
         ring[h].at = "wait" =>
            /\ items'[ring[h].of] = items[ring[h].of]
            /\ VoiceKey(ring[h].of) \in seenKeys'
  PROVE  RingKnows(h)'
BY DEF RingKnows, Empty, VoiceKey

LEMMA LinkSame ==
  ASSUME NEW k \in Calls, LinkKnows(k), items'[k] = items[k],
         VoiceKey(k) \in seenKeys' <=> VoiceKey(k) \in seenKeys,
         k \notin dropped' => k \notin dropped /\ \A h \in VoiceHooks : Waits(h, k) => Waits(h, k)'
  PROVE  LinkKnows(k)'
BY DEF LinkKnows, VoiceKey

\* Steps of the others leave the runs of the rules alone.
LEMMA RunsRest ==
  ASSUME RunsInv, UNCHANGED <<pod, runRow, handed>>, owing' \subseteq Debtors,
         \A p \in Pods : send'[p] = send[p], \A k \in RunKeys : items'[k] = items[k]
  PROVE  RunsInv'
<1>1. ASSUME NEW p \in Pods PROVE PodFits(pod'[p]) /\ PodKnows(p)'
  <2>1. PodFits(pod[p]) /\ PodKnows(p)
    BY DEF RunsInv
  <2>2. pod[p].at \in Working => Run(p) \in RunKeys
    BY <2>1 DEF PodFits, Run, Working
  <2> QED  BY <2>1, <2>2, PodSame
<1>2. ASSUME NEW k \in RunKeys PROVE RunKnows(k)'
  BY RunSame DEF RunsInv
<1>3. Apart'
  BY DEF RunsInv, Apart, Run
<1>4. DOMAIN runRow' = RunKeys /\ DOMAIN handed' = RunKeys /\ DOMAIN pod' = Pods
  BY DEF RunsInv
<1> QED  BY <1>1, <1>2, <1>3, <1>4 DEF RunsInv

\* A step of one process leaves the runs of the others alone.
LEMMA PodMoves ==
  ASSUME RunsInv, NEW p \in Pods, NEW S, S \subseteq RunKeys,
         DOMAIN pod' = Pods, DOMAIN runRow' = RunKeys, DOMAIN handed' = RunKeys,
         owing' \subseteq Debtors,
         \A q \in Pods \ {p} : pod'[q] = pod[q] /\ send'[q] = send[q],
         \A q \in Pods \ {p} : pod[q].at \in Working => Run(q) \in S,
         \A k \in S : runRow'[k] = runRow[k] /\ handed'[k] = handed[k] /\ items'[k] = items[k],
         \A k \in RunKeys \ S : RunKnows(k)',
         PodFits(pod'[p]), PodKnows(p)',
         pod'[p].at \in Working => <<pod'[p].rule, pod'[p].minute>> \notin S
  PROVE  RunsInv'
<1>1. ASSUME NEW q \in Pods PROVE PodFits(pod'[q]) /\ PodKnows(q)'
  <2>1. CASE q = p
    BY <2>1
  <2>2. CASE q # p
    <3>1. PodFits(pod[q]) /\ PodKnows(q)
      BY DEF RunsInv
    <3>2. pod'[q] = pod[q] /\ send'[q] = send[q]
      BY <2>2
    <3>3. pod[q].at \in Working =>
            /\ runRow'[Run(q)] = runRow[Run(q)]
            /\ handed'[Run(q)] = handed[Run(q)]
            /\ items'[Run(q)] = items[Run(q)]
      BY <2>2
    <3> QED  BY <3>1, <3>2, <3>3, PodSame
  <2> QED  BY <2>1, <2>2
<1>2. ASSUME NEW k \in RunKeys PROVE RunKnows(k)'
  <2>1. CASE k \in S
    BY <2>1, RunSame DEF RunsInv
  <2> QED  BY <2>1
<1>3. Apart'
  <2>1. ASSUME NEW q \in Pods, NEW u \in Pods, q # u,
               pod'[q].at \in Working, pod'[u].at \in Working
        PROVE  <<pod'[q].rule, pod'[q].minute>> # <<pod'[u].rule, pod'[u].minute>>
    <3>1. CASE q = p
      BY <2>1, <3>1 DEF Run
    <3>2. CASE u = p
      BY <2>1, <3>2 DEF Run
    <3>3. CASE q # p /\ u # p
      BY <2>1, <3>3 DEF RunsInv, Apart, Run
    <3> QED  BY <3>1, <3>2, <3>3
  <2> QED  BY <2>1 DEF Apart, Run
<1> QED  BY <1>1, <1>2, <1>3 DEF RunsInv

\* Steps of the others leave the links asked for on a call alone.
LEMMA LinksRest ==
  ASSUME LinksInv, UNCHANGED <<ring, dropped, seenKeys>>,
         \A h \in VoiceHooks : send'[h] = send[h], \A k \in Calls : items'[k] = items[k]
  PROVE  LinksInv'
<1>1. ASSUME NEW h \in VoiceHooks PROVE RingFits(ring'[h]) /\ RingKnows(h)'
  <2>1. RingFits(ring[h]) /\ RingKnows(h)
    BY DEF LinksInv
  <2>2. ring[h].at = "wait" => /\ items'[ring[h].of] = items[ring[h].of]
                               /\ VoiceKey(ring[h].of) \in seenKeys'
    BY <2>1 DEF RingFits, RingKnows
  <2> QED  BY <2>1, <2>2, RingSame
<1>2. ASSUME NEW k \in Calls PROVE LinkKnows(k)'
  <2>1. LinkKnows(k)
    BY DEF LinksInv
  <2>2. \A h \in VoiceHooks : Waits(h, k) => Waits(h, k)'
    BY DEF Waits
  <2> QED  BY <2>1, <2>2, LinkSame
<1>3. OneWaits'
  BY DEF LinksInv, OneWaits
<1>4. DOMAIN ring' = VoiceHooks
  BY DEF LinksInv
<1> QED  BY <1>1, <1>2, <1>3, <1>4 DEF LinksInv

LEMMA PagesRest ==
  ASSUME PagesFit, \A j \in Campaigns : send'[j] = send[j]
  PROVE  PagesFit'
BY DEF PagesFit, Empty

LEMMA SendsRest ==
  ASSUME SendsFit, NEW x, DOMAIN send' = Senders,
         \A y \in Senders \ {x} : send'[y] = send[y],
         x \in Senders => send'[x] = NoSend \/ CallFits(send'[x])
  PROVE  SendsFit'
BY DEF SendsFit, Empty

\* An assignment to the steps of a call that recorded nothing.
LEMMA CallMoves ==
  ASSUME OutreachInv, NEW x \in Senders, NEW a \in {"post", "record", "failed"},
         send[x].at \in {"check", "post", "record"},
         send' = [send EXCEPT ![x].at = a],
         UNCHANGED <<world, ruleVars, ringVars, items, seenKeys>>
  PROVE  OutreachInv'
<1>1. ItemsFit /\ SendsFit /\ RunsInv /\ PagesFit /\ LinksInv
  BY DEF OutreachInv
<1>2. CallFits(send[x])
  BY <1>1 DEF SendsFit, Empty, NoSend
<1>3. /\ send'[x].at = a /\ send'[x].cause = send[x].cause /\ send'[x].batch = send[x].batch
      /\ DOMAIN send' = Senders /\ CallFits(send'[x])
      /\ ~Empty(x) /\ ~Empty(x)'
  BY <1>1, <1>2 DEF SendsFit, CallFits, Empty, NoSend
<1>4. \A y \in Senders \ {x} : send'[y] = send[y]
  BY <1>1 DEF SendsFit
<1>5. SendsFit'
  BY <1>1, <1>3, <1>4, SendsRest
<1>6. /\ pod' = pod /\ runRow' = runRow /\ handed' = handed /\ items' = items /\ ring' = ring
      /\ seenKeys' = seenKeys /\ dropped' = dropped /\ owing' = owing
  BY DEF world, ruleVars, ringVars
<1>7. ItemsFit'
  BY <1>1, <1>6 DEF ItemsFit
<1>8. PagesFit'
  BY <1>1, <1>3, <1>4 DEF PagesFit, Empty, Senders
<1>9. RunsInv'
  <2>1. CASE x \notin Pods
    <3>1. \A p \in Pods : send'[p] = send[p]
      BY <2>1, <1>4 DEF Senders
    <3> QED  BY <3>1, <1>1, <1>6, RunsRest DEF RunsInv
  <2>2. CASE x \in Pods
    <3>1. PodFits(pod[x]) /\ PodKnows(x)
      BY <2>2, <1>1 DEF RunsInv
    <3>2. PodKnows(x)'
      BY <3>1, <1>2, <1>3, <1>6
      DEF PodKnows, Counted, Pending, Empty, NoSend, Run, Untouched, Recorded, CallFits
    <3>3. \A q \in Pods \ {x} : pod[q].at \in Working => Run(q) \in RunKeys \ {Run(x)}
      <4>1. pod[x].at = "wait"
        BY <3>1, <1>3 DEF PodKnows
      <4> QED  BY <4>1, <2>2, <1>1 DEF RunsInv, PodFits, Apart, Run, Working
    <3>4. \A k \in RunKeys : RunKnows(k)'
      BY <1>1, <1>6, RunSame DEF RunsInv
    <3>5. <<pod'[x].rule, pod'[x].minute>> \notin RunKeys \ {Run(x)}
      BY <1>6 DEF Run
    <3>6. \A q \in Pods \ {x} : pod'[q] = pod[q] /\ send'[q] = send[q]
      BY <1>4, <1>6 DEF Senders
    <3>7. /\ DOMAIN pod' = Pods /\ DOMAIN runRow' = RunKeys /\ DOMAIN handed' = RunKeys
          /\ owing' \subseteq Debtors /\ PodFits(pod'[x])
      BY <1>1, <1>6, <3>1 DEF RunsInv
    <3>8. PICK S : S = RunKeys \ {Run(x)}
      OBVIOUS
    <3> QED  BY <2>2, <1>1, <1>6, <3>2, <3>3, <3>4, <3>5, <3>6, <3>7, <3>8, PodMoves
  <2> QED  BY <2>1, <2>2
<1>10. LinksInv'
  <2>1. ASSUME NEW h \in VoiceHooks PROVE RingFits(ring'[h]) /\ RingKnows(h)'
    <3>1. RingFits(ring[h]) /\ RingKnows(h)
      BY <1>1 DEF LinksInv
    <3>2. CASE h = x
      BY <3>1, <3>2, <1>2, <1>3, <1>6 DEF RingKnows, VoiceKey, Empty, NoSend
    <3>3. CASE h # x
      BY <3>1, <3>3, <1>4, <1>6, RingSame DEF Senders, RingKnows
    <3> QED  BY <3>2, <3>3
  <2>2. ASSUME NEW k \in Calls PROVE LinkKnows(k)'
    BY <1>1, <1>6, LinkSame DEF LinksInv, Waits
  <2>3. OneWaits' /\ DOMAIN ring' = VoiceHooks
    BY <1>1, <1>6 DEF LinksInv, OneWaits
  <2> QED  BY <2>1, <2>2, <2>3 DEF LinksInv
<1> QED  BY <1>5, <1>7, <1>8, <1>9, <1>10 DEF OutreachInv

\* The dispatch is recorded: a run, a page or a link.
LEMMA RecordStep ==
  ASSUME OutreachInv, NEW x \in Senders, SendRecord(x)
  PROVE  OutreachInv'
<1>1. ItemsFit /\ SendsFit /\ RunsInv /\ PagesFit /\ LinksInv
  BY DEF OutreachInv
<1>2. /\ send[x].at = "record" /\ send' = [send EXCEPT ![x].at = "ok"]
      /\ items' = [items EXCEPT ![send[x].cause] =
            [d \in Debtors |-> items[send[x].cause][d] + IF d \in send[x].batch THEN 1 ELSE 0]]
      /\ pod' = pod /\ runRow' = runRow /\ handed' = handed /\ ring' = ring
      /\ seenKeys' = seenKeys /\ dropped' = dropped /\ owing' = owing
  BY DEF SendRecord, world, ruleVars, ringVars
<1>3. CallFits(send[x])
  BY <1>1, <1>2 DEF SendsFit, Empty, NoSend
<1>4. /\ send'[x].at = "ok" /\ send'[x].cause = send[x].cause /\ send'[x].batch = send[x].batch
      /\ DOMAIN send' = Senders /\ CallFits(send'[x])
      /\ ~Empty(x) /\ ~Empty(x)'
  BY <1>1, <1>2, <1>3 DEF SendsFit, CallFits, Empty, NoSend
<1>5. \A y \in Senders \ {x} : send'[y] = send[y]
  BY <1>1, <1>2 DEF SendsFit
<1>6. SendsFit'
  BY <1>1, <1>4, <1>5, SendsRest
<1>7. PagesFit'
  BY <1>1, <1>4, <1>5 DEF PagesFit, Empty, Senders
<1>8. PICK c : c = send[x].cause
  OBVIOUS
<1>9. PICK b : b = send[x].batch
  OBVIOUS
<1>10. /\ c \in Causes => items'[c] = [d \in Debtors |-> items[c][d] + IF d \in b THEN 1 ELSE 0]
       /\ \A k \in Causes : k # c => items'[k] = items[k]
       /\ DOMAIN items' = Causes
  BY <1>1, <1>2, <1>8, <1>9 DEF ItemsFit
<1>11. ItemsFit'
  <2>1. ASSUME NEW k \in Causes PROVE items'[k] \in [Debtors -> Nat]
    <3>1. items[k] \in [Debtors -> Nat]
      BY <1>1 DEF ItemsFit
    <3>2. CASE k = c
      BY <3>1, <3>2, <1>10
    <3>3. CASE k # c
      BY <3>1, <3>3, <1>10
    <3> QED  BY <3>2, <3>3
  <2>2. items' = [k \in Causes |-> items'[k]]
    BY <1>1, <1>2 DEF ItemsFit
  <2> QED  BY <2>1, <2>2 DEF ItemsFit
<1>12. CASE x \in Pods
  <2>1. PodFits(pod[x]) /\ PodKnows(x)
    BY <1>12, <1>1 DEF RunsInv
  <2>2. pod[x].at = "wait"
    BY <2>1, <1>4 DEF PodKnows
  <2>3. /\ c = Run(x) /\ b = pod[x].batch /\ c \in RunKeys /\ b \subseteq Debtors
        /\ pod[x].rest \subseteq Debtors /\ pod[x].rest \cap b = {}
        /\ pod[x].sent \in Nat /\ pod[x].failed \in Nat
    BY <2>1, <2>2, <1>8, <1>9 DEF PodKnows, PodFits, Run, Working
  <2>4. /\ runRow[c] = [status |-> "RUNNING"]
        /\ \A d \in pod[x].rest : handed[c][d] = 0
        /\ \A d \in pod[x].rest \cup b : items[c][d] = 0
        /\ pod[x].sent = Cardinality(Recorded(c))
        /\ pod[x].sent + pod[x].failed + Cardinality(pod[x].rest)
              + Cardinality(pod[x].batch) = pod[x].matched
    BY <2>1, <2>2, <2>3, <1>2, <1>4 DEF PodKnows, Counted, Pending, Working
  <2>5. c \in Causes /\ c \notin Calls
    BY <2>3, OutreachAssumption DEF Causes
  <2>6. items[c] \in [Debtors -> Nat]
    BY <2>5, <1>1 DEF ItemsFit
  <2>7. PICK old : old = Recorded(c)
    OBVIOUS
  <2>8. Recorded(c)' = old \cup b
    <3>1. \A d \in Debtors : items'[c][d] = items[c][d] + IF d \in b THEN 1 ELSE 0
      BY <1>10, <2>5
    <3>2. \A d \in Debtors : items[c][d] \in Nat
      BY <2>6
    <3>3. \A d \in Debtors : items'[c][d] > 0 <=> items[c][d] > 0 \/ d \in b
      BY <3>1, <3>2
    <3> QED  BY <3>3, <2>3, <2>7 DEF Recorded
  <2>9. Cardinality(old \cup b) = Cardinality(old) + Cardinality(b)
    <3>1. old \subseteq Debtors
      BY <2>7 DEF Recorded
    <3>2. old \cap b = {}
      BY <2>4, <2>7 DEF Recorded
    <3> QED  BY <3>1, <3>2, <2>3, DebtorsAreFinite, SizesAdd
  <2>10. PodKnows(x)'
    <3>1. /\ pod'[x].at = "wait" /\ ~Empty(x)' /\ send'[x].at = "ok"
          /\ send'[x].cause = <<pod'[x].rule, pod'[x].minute>>
          /\ send'[x].batch = pod'[x].batch
          /\ pod'[x] = pod[x] /\ c = <<pod'[x].rule, pod'[x].minute>>
      BY <2>2, <2>3, <1>2, <1>4, <1>8, <1>9 DEF Run
    <3>2. Counted(x)' = Cardinality(b) /\ Pending(x)' = pod[x].rest
      BY <3>1, <2>3 DEF Counted, Pending
    <3>3. \A d \in pod[x].rest : items'[c][d] = 0
      BY <2>3, <2>4, <2>5, <1>10
    <3>4. pod[x].sent + Cardinality(b) = Cardinality(Recorded(c)')
      BY <2>4, <2>7, <2>8, <2>9
    <3>5. Recorded(c)' = Recorded(Run(x))'
      BY <3>1 DEF Recorded, Run
    <3> QED  BY <3>1, <3>2, <3>3, <3>4, <3>5, <2>3, <2>4, <1>2 DEF PodKnows, Run, Working
  <2>11. RunKnows(c)'
    BY <2>3, <2>4, <1>1, <1>2 DEF RunsInv, RunKnows, NoRun
  <2>12. \A q \in Pods \ {x} : pod[q].at \in Working => Run(q) \in RunKeys \ {c}
    BY <1>12, <2>2, <2>3, <1>1 DEF RunsInv, PodFits, Apart, Run, Working
  <2>13. \A k \in RunKeys \ {c} : items'[k] = items[k]
    BY <1>10 DEF Causes
  <2>14. \A k \in RunKeys \ (RunKeys \ {c}) : RunKnows(k)'
    BY <2>11
  <2>15. <<pod'[x].rule, pod'[x].minute>> \notin RunKeys \ {c}
    BY <1>2, <2>3 DEF Run
  <2>16. \A q \in Pods \ {x} : pod'[q] = pod[q] /\ send'[q] = send[q]
    BY <1>2, <1>5 DEF Senders
  <2>17. /\ DOMAIN pod' = Pods /\ DOMAIN runRow' = RunKeys /\ DOMAIN handed' = RunKeys
         /\ owing' \subseteq Debtors /\ PodFits(pod'[x])
    BY <1>1, <1>2, <2>1 DEF RunsInv
  <2>18. PICK S : S = RunKeys \ {c}
    OBVIOUS
  <2>19. RunsInv'
    BY <1>12, <1>1, <1>2, <2>10, <2>12, <2>13, <2>14, <2>15, <2>16, <2>17, <2>18, PodMoves
  <2>20. LinksInv'
    <3>1. \A h \in VoiceHooks : send'[h] = send[h]
      BY <1>5, <1>12, OutreachAssumption DEF Senders
    <3>2. \A k \in Calls : items'[k] = items[k]
      BY <1>10, <2>5 DEF Causes
    <3> QED  BY <3>1, <3>2, <1>1, <1>2, LinksRest
  <2> QED  BY <1>6, <1>7, <1>11, <2>19, <2>20 DEF OutreachInv
<1>13. ASSUME x \notin Pods, c \notin RunKeys PROVE RunsInv'
  <2>1. \A p \in Pods : send'[p] = send[p]
    BY <1>13, <1>5 DEF Senders
  <2>2. \A k \in RunKeys : items'[k] = items[k]
    BY <1>13, <1>10 DEF Causes
  <2> QED  BY <2>1, <2>2, <1>1, <1>2, RunsRest DEF RunsInv
<1>14. CASE x \in Campaigns
  <2>1. c = x
    BY <1>14, <1>1, <1>4, <1>8 DEF PagesFit
  <2>2. x \notin Pods /\ c \notin RunKeys /\ c \notin Calls
    BY <1>14, <2>1, OutreachAssumption
  <2>3. \A h \in VoiceHooks : send'[h] = send[h]
    BY <1>5, <1>14, OutreachAssumption DEF Senders
  <2>4. \A k \in Calls : items'[k] = items[k]
    BY <1>10, <2>2 DEF Causes
  <2>5. LinksInv'
    BY <2>3, <2>4, <1>1, <1>2, LinksRest
  <2> QED  BY <1>6, <1>7, <1>11, <1>13, <2>2, <2>5 DEF OutreachInv
<1>15. CASE x \in VoiceHooks
  <2>1. RingFits(ring[x]) /\ RingKnows(x) /\ ring[x].at = "wait"
    BY <1>15, <1>1, <1>4 DEF LinksInv, RingKnows
  <2>2. /\ c = ring[x].of /\ b = {c[2]} /\ c \in Calls /\ VoiceKey(c) \in seenKeys
        /\ items[c][c[2]] = 0
    BY <2>1, <1>2, <1>8, <1>9 DEF RingKnows, RingFits
  <2>3. x \notin Pods /\ c \notin RunKeys /\ c \in Causes /\ c[2] \in Debtors
    BY <1>15, <2>2, OutreachAssumption DEF Causes, Calls
  <2>4. items'[c][c[2]] = 1
    BY <1>10, <2>2, <2>3
  <2>5. ASSUME NEW h \in VoiceHooks PROVE RingFits(ring'[h]) /\ RingKnows(h)'
    <3>1. RingFits(ring[h]) /\ RingKnows(h)
      BY <1>1 DEF LinksInv
    <3>2. CASE h = x
      BY <3>1, <3>2, <2>1, <2>2, <2>4, <1>2, <1>4, <1>8, <1>9 DEF RingKnows, VoiceKey
    <3>3. CASE h # x
      <4>1. send'[h] = send[h]
        BY <3>3, <1>5 DEF Senders
      <4>2. ring[h].at = "wait" => ring[h].of # c /\ ring[h].of \in Causes
        BY <3>1, <3>3, <2>1, <2>2, <1>1, <1>15 DEF LinksInv, OneWaits, RingFits, Causes
      <4>3. ring[h].at = "wait" => /\ items'[ring[h].of] = items[ring[h].of]
                                   /\ VoiceKey(ring[h].of) \in seenKeys'
        BY <4>2, <3>1, <1>2, <1>10 DEF RingKnows
      <4> QED  BY <3>1, <4>1, <4>3, <1>2, RingSame
    <3> QED  BY <3>2, <3>3
  <2>6. ASSUME NEW k \in Calls PROVE LinkKnows(k)'
    <3>1. CASE k = c
      BY <3>1, <2>2, <2>4, <1>2 DEF LinkKnows, VoiceKey
    <3>2. CASE k # c
      <4>1. items'[k] = items[k]
        BY <3>2, <1>10 DEF Causes
      <4> QED  BY <4>1, <1>1, <1>2, LinkSame DEF LinksInv, Waits
    <3> QED  BY <3>1, <3>2
  <2>7. OneWaits' /\ DOMAIN ring' = VoiceHooks
    BY <1>1, <1>2 DEF LinksInv, OneWaits
  <2>8. LinksInv'
    BY <2>5, <2>6, <2>7 DEF LinksInv
  <2> QED  BY <1>6, <1>7, <1>11, <1>13, <2>3, <2>8 DEF OutreachInv
<1> QED  BY <1>12, <1>14, <1>15 DEF Senders

-----------------------------------------------------------------------------
(* The steps of communication-rules.job.                                   *)

\* What a step of a process and its run leaves alone: the other senders, and
\* the items of every other cause.
LEMMA PodFrame ==
  ASSUME OutreachInv, NEW p \in Pods, NEW S, S \subseteq RunKeys,
         UNCHANGED <<world, ringVars, campaign, links, seenKeys>>,
         DOMAIN pod' = Pods, DOMAIN runRow' = RunKeys, DOMAIN handed' = RunKeys,
         DOMAIN send' = Senders, ItemsFit',
         \A q \in Pods \ {p} : pod'[q] = pod[q],
         \A y \in Senders \ {p} : send'[y] = send[y],
         send'[p] = NoSend \/ CallFits(send'[p]),
         \A q \in Pods \ {p} : pod[q].at \in Working => Run(q) \in S,
         \A k \in S : runRow'[k] = runRow[k] /\ handed'[k] = handed[k],
         \A k \in Causes \ (RunKeys \ S) : items'[k] = items[k],
         \A k \in RunKeys \ S : RunKnows(k)',
         PodFits(pod'[p]), PodKnows(p)',
         pod'[p].at \in Working => <<pod'[p].rule, pod'[p].minute>> \notin S
  PROVE  OutreachInv'
<1>1. ItemsFit /\ SendsFit /\ RunsInv /\ PagesFit /\ LinksInv
  BY DEF OutreachInv
<1>2. SendsFit'
  BY <1>1, SendsRest
<1>3. p \notin Campaigns /\ p \notin VoiceHooks /\ RunKeys \cap Calls = {}
  BY OutreachAssumption
<1>4. PagesFit'
  <2>1. \A j \in Campaigns : send'[j] = send[j]
    BY <1>3 DEF Senders
  <2> QED  BY <2>1, <1>1, PagesRest
<1>5. LinksInv'
  <2>1. \A h \in VoiceHooks : send'[h] = send[h]
    BY <1>3 DEF Senders
  <2>2. \A k \in Calls : items'[k] = items[k]
    BY <1>3 DEF Causes
  <2>3. UNCHANGED <<ring, dropped, seenKeys>>
    BY DEF ringVars
  <2> QED  BY <2>1, <2>2, <2>3, <1>1, LinksRest
<1>6. RunsInv'
  <2>1. owing' \subseteq Debtors
    BY <1>1 DEF world, RunsInv
  <2>2. \A q \in Pods \ {p} : pod'[q] = pod[q] /\ send'[q] = send[q]
    BY DEF Senders
  <2>3. \A k \in S : runRow'[k] = runRow[k] /\ handed'[k] = handed[k] /\ items'[k] = items[k]
    BY DEF Causes
  <2> QED  BY <2>1, <2>2, <2>3, <1>1, PodMoves
<1> QED  BY <1>2, <1>4, <1>5, <1>6 DEF OutreachInv

\* What a process knows while it is at its run, in names of the run.
LEMMA PodAtWork ==
  ASSUME OutreachInv, NEW p \in Pods, pod[p].at \in Working, NEW r, r = Run(p)
  PROVE  /\ r \in RunKeys /\ r \in Causes /\ r \notin Calls
         /\ r = <<pod[p].rule, pod[p].minute>>
         /\ runRow[r] = [status |-> "RUNNING"] /\ RunKnows(r)
         /\ items[r] \in [Debtors -> Nat] /\ handed[r] \in [Debtors -> {0, 1}]
         /\ PodFits(pod[p]) /\ PodKnows(p)
         /\ \A q \in Pods \ {p} : pod[q].at \in Working => Run(q) \in RunKeys \ {r}
<1>1. RunsInv /\ ItemsFit
  BY DEF OutreachInv
<1>2. PodFits(pod[p]) /\ PodKnows(p)
  BY <1>1 DEF RunsInv
<1>3. r \in RunKeys /\ r = <<pod[p].rule, pod[p].minute>>
  BY <1>2 DEF PodFits, Run
<1>4. r \in Causes /\ r \notin Calls
  BY <1>3, OutreachAssumption DEF Causes
<1>5. RunKnows(r)
  BY <1>1, <1>3 DEF RunsInv
<1>6. runRow[r] = [status |-> "RUNNING"]
  BY <1>2 DEF PodKnows
<1>7. \A q \in Pods \ {p} : pod[q].at \in Working => Run(q) \in RunKeys \ {r}
  BY <1>1 DEF RunsInv, PodFits, Apart, Run
<1> QED  BY <1>1, <1>2, <1>3, <1>4, <1>5, <1>6, <1>7 DEF RunKnows, ItemsFit

\* A process that is not at a run after its step, while no row changes but
\* perhaps the one it closes.
LEMMA PodLeaves ==
  ASSUME OutreachInv, NEW p \in Pods, NEW r, r = Run(p),
         NEW t, t = PodIdle \/ (t.at = "rules" /\ PodFits(t)),
         pod' = [pod EXCEPT ![p] = t],
         DOMAIN send' = Senders, send'[p] = NoSend, \A y \in Senders \ {p} : send'[y] = send[y],
         UNCHANGED <<world, ringVars, campaign, links, seenKeys, handed, items>>,
         \/ UNCHANGED runRow
         \/ /\ pod[p].at \in Working /\ DOMAIN runRow' = RunKeys
            /\ \A k \in RunKeys \ {r} : runRow'[k] = runRow[k]
            /\ RunKnows(r)'
  PROVE  OutreachInv'
<1>1. ItemsFit /\ SendsFit /\ RunsInv /\ PagesFit /\ LinksInv
  BY DEF OutreachInv
<1>2. /\ pod'[p] = t /\ DOMAIN pod' = Pods /\ \A q \in Pods \ {p} : pod'[q] = pod[q]
      /\ DOMAIN handed' = RunKeys /\ handed' = handed /\ items' = items
  BY <1>1 DEF RunsInv
<1>3. t.at \notin Working /\ t.at # "wait" /\ PodFits(t)
  BY DEF PodIdle, PodFits, Working
<1>4. PodKnows(p)'
  BY <1>2, <1>3 DEF PodKnows, Empty, Working
<1>5. ItemsFit'
  BY <1>1 DEF ItemsFit
<1>6. \A q \in Pods \ {p} : pod[q].at \in Working => Run(q) \in RunKeys
  BY <1>1 DEF RunsInv, PodFits, Run
<1>7. CASE UNCHANGED runRow
  <2>1. DOMAIN runRow' = RunKeys
    BY <1>1, <1>7 DEF RunsInv
  <2>2. PICK S : S = RunKeys
    OBVIOUS
  <2>3. \A k \in S : runRow'[k] = runRow[k] /\ handed'[k] = handed[k]
    BY <1>7
  <2>4. \A k \in Causes \ (RunKeys \ S) : items'[k] = items[k]
    OBVIOUS
  <2>5. \A k \in RunKeys \ S : RunKnows(k)'
    BY <2>2
  <2> QED  BY <1>2, <1>3, <1>4, <1>5, <1>6, <2>1, <2>2, <2>3, <2>4, <2>5, PodFrame
<1>8. CASE /\ pod[p].at \in Working /\ DOMAIN runRow' = RunKeys
           /\ \A k \in RunKeys \ {r} : runRow'[k] = runRow[k]
           /\ RunKnows(r)'
  <2>2. /\ r \in RunKeys
        /\ \A q \in Pods \ {p} : pod[q].at \in Working => Run(q) \in RunKeys \ {r}
    BY <1>8, PodAtWork
  <2>3. RunKnows(r)'
    BY <1>8
  <2>4. PICK S : S = RunKeys \ {r}
    OBVIOUS
  <2>5. \A k \in S : runRow'[k] = runRow[k] /\ handed'[k] = handed[k]
    BY <1>8, <1>2, <2>4
  <2>6. \A k \in RunKeys \ S : RunKnows(k)'
    BY <2>3, <2>4
  <2> QED  BY <1>2, <1>3, <1>4, <1>5, <1>8, <2>2, <2>4, <2>5, <2>6, PodFrame
<1> QED  BY <1>7, <1>8

\* A process that waits for no answer made no call.
LEMMA NoCall ==
  ASSUME OutreachInv, NEW p \in Pods, pod[p].at # "wait"
  PROVE  /\ send[p] = NoSend /\ p \in Senders
         /\ send' = send => /\ DOMAIN send' = Senders /\ send'[p] = NoSend
                            /\ \A y \in Senders \ {p} : send'[y] = send[y]
BY DEF OutreachInv, RunsInv, PodKnows, Empty, SendsFit, Senders

LEMMA TickStep ==
  ASSUME OutreachInv, NEW p \in Pods, PodTick(p)
  PROVE  OutreachInv'
<1>1. PICK t : t = [at |-> "rules", minute |-> minute,
                    left |-> {r \in CommRules : minute \in DueAt[r]}]
  OBVIOUS
<1>2. t.at = "rules" /\ PodFits(t)
  BY <1>1 DEF PodFits, Due, Working
<1>3. pod[p].at # "wait" /\ pod' = [pod EXCEPT ![p] = t]
  BY <1>1 DEF PodTick, PodIdle
<1>4. PICK r : r = Run(p)
  OBVIOUS
<1>5. /\ UNCHANGED <<world, ringVars, campaign, links, seenKeys, handed, items>>
      /\ runRow' = runRow /\ send' = send
  BY DEF PodTick, recordVars
<1> QED  BY <1>2, <1>3, <1>4, <1>5, NoCall, PodLeaves

\* What is left of the rules of a minute.
LEMMA OnwardFits ==
  ASSUME NEW left, NEW m, Due(m, left), NEW t, t = Onward(left, m)
  PROVE  t = PodIdle \/ (t.at = "rules" /\ PodFits(t))
BY DEF Onward, PodFits, Working

LEMMA CreateStep ==
  ASSUME OutreachInv, NEW p \in Pods, RunCreate(p)
  PROVE  OutreachInv'
<1>1. RunsInv /\ ItemsFit
  BY DEF OutreachInv
<1>2. pod[p].at = "rules" /\ PodFits(pod[p]) /\ Due(pod[p].minute, pod[p].left)
  BY <1>1 DEF RunCreate, RunsInv, PodFits
<1>3. /\ UNCHANGED <<world, ringVars, campaign, links, seenKeys, handed, items>>
      /\ send' = send /\ handed' = handed /\ items' = items
  BY DEF RunCreate, recordVars
<1>4. /\ send[p] = NoSend /\ DOMAIN send' = Senders /\ send'[p] = NoSend
      /\ \A y \in Senders \ {p} : send'[y] = send[y]
  BY <1>2, <1>3, NoCall
<1>5. PICK x \in pod[p].left :
         \/ /\ runRow[<<x, pod[p].minute>>] = NoRun
            /\ runRow' = [runRow EXCEPT ![<<x, pod[p].minute>>] = [status |-> "RUNNING"]]
            /\ pod' = [pod EXCEPT ![p] = Taken(p, x)]
         \/ /\ runRow' = runRow
            /\ pod' = [pod EXCEPT ![p] = Onward(pod[p].left \ {x}, pod[p].minute)]
  BY DEF RunCreate
<1>6. PICK m : m = pod[p].minute
  OBVIOUS
<1>7. PICK k : k = <<x, m>>
  OBVIOUS
<1>8. k \in RunKeys
  BY <1>2, <1>5, <1>6, <1>7, OutreachAssumption DEF Due, RunKeys
<1>9. Due(m, pod[p].left \ {x})
  BY <1>2, <1>6 DEF Due
<1>10. CASE /\ runRow' = runRow
            /\ pod' = [pod EXCEPT ![p] = Onward(pod[p].left \ {x}, pod[p].minute)]
  <2>1. PICK t : t = Onward(pod[p].left \ {x}, m)
    OBVIOUS
  <2>2. t = PodIdle \/ (t.at = "rules" /\ PodFits(t))
    BY <2>1, <1>9, OnwardFits
  <2>3. PICK r : r = Run(p)
    OBVIOUS
  <2>4. pod' = [pod EXCEPT ![p] = t]
    BY <1>10, <2>1, <1>6
  <2> QED  BY <2>2, <2>3, <2>4, <1>3, <1>4, <1>10, PodLeaves
<1>11. CASE /\ runRow[k] = NoRun
            /\ runRow' = [runRow EXCEPT ![k] = [status |-> "RUNNING"]]
            /\ pod' = [pod EXCEPT ![p] = Taken(p, x)]
  <2>1. /\ runRow'[k] = [status |-> "RUNNING"] /\ DOMAIN runRow' = RunKeys
        /\ \A j \in RunKeys \ {k} : runRow'[j] = runRow[j]
    BY <1>1, <1>8, <1>11 DEF RunsInv
  <2>2. /\ pod'[p] = [at |-> "select", minute |-> m, left |-> pod[p].left \ {x}, rule |-> x]
        /\ DOMAIN pod' = Pods /\ \A q \in Pods \ {p} : pod'[q] = pod[q]
    BY <1>1, <1>6, <1>11 DEF RunsInv, Taken
  <2>3. RunKnows(k) /\ Untouched(k)
    BY <1>1, <1>8, <1>11 DEF RunsInv, RunKnows
  <2>4. PodFits(pod'[p])
    BY <2>2, <1>7, <1>8, <1>9 DEF PodFits, Working
  <2>5. PodKnows(p)'
    BY <2>1, <2>2, <2>3, <1>3, <1>4, <1>7 DEF PodKnows, Empty, Working, Run, Untouched
  <2>6. RunKnows(k)'
    BY <2>1, <2>3, <1>3 DEF RunKnows, Untouched, NoRun
  <2>7. \A q \in Pods \ {p} : pod[q].at \in Working => Run(q) \in RunKeys \ {k}
    BY <1>1, <1>11 DEF RunsInv, PodFits, PodKnows, Run, NoRun
  <2>8. PICK S : S = RunKeys \ {k}
    OBVIOUS
  <2>9. /\ \A j \in S : runRow'[j] = runRow[j] /\ handed'[j] = handed[j]
        /\ \A j \in Causes \ (RunKeys \ S) : items'[j] = items[j]
        /\ \A j \in RunKeys \ S : RunKnows(j)'
    BY <2>1, <2>6, <2>8, <1>3
  <2>10. pod'[p].at \in Working => <<pod'[p].rule, pod'[p].minute>> \notin S
    BY <2>2, <2>8, <1>7
  <2>11. DOMAIN handed' = RunKeys /\ ItemsFit'
    BY <1>1, <1>3 DEF RunsInv, ItemsFit
  <2> QED  BY <2>1, <2>2, <2>4, <2>5, <2>7, <2>8, <2>9, <2>10, <2>11, <1>3, <1>4, PodFrame
<1> QED  BY <1>5, <1>6, <1>7, <1>10, <1>11

LEMMA SelectStep ==
  ASSUME OutreachInv, NEW p \in Pods, RunSelect(p)
  PROVE  OutreachInv'
<1>1. RunsInv /\ ItemsFit /\ pod[p].at = "select" /\ pod[p].at \in Working
  BY DEF OutreachInv, RunSelect, Working
<1>2. PICK r : r = Run(p)
  OBVIOUS
<1>3. /\ r \in RunKeys /\ r \in Causes /\ r = <<pod[p].rule, pod[p].minute>>
      /\ runRow[r] = [status |-> "RUNNING"] /\ RunKnows(r)
      /\ items[r] \in [Debtors -> Nat] /\ PodFits(pod[p]) /\ PodKnows(p)
      /\ \A q \in Pods \ {p} : pod[q].at \in Working => Run(q) \in RunKeys \ {r}
  BY <1>1, <1>2, PodAtWork
<1>4. Untouched(r)
  BY <1>1, <1>2, <1>3 DEF PodKnows
<1>5. /\ UNCHANGED <<world, ringVars, campaign, links, seenKeys, handed, items>>
      /\ send' = send /\ handed' = handed /\ items' = items /\ runRow' = runRow
  BY DEF RunSelect, recordVars
<1>6. /\ send[p] = NoSend /\ DOMAIN send' = Senders /\ send'[p] = NoSend
      /\ \A y \in Senders \ {p} : send'[y] = send[y]
  BY <1>1, <1>5, NoCall
<1>7. PICK t : t = [at |-> "batch", minute |-> pod[p].minute, left |-> pod[p].left,
                    rule |-> pod[p].rule, matched |-> Cardinality(owing),
                    rest |-> owing \cap WithPhone, batch |-> {}, sent |-> 0,
                    failed |-> Cardinality(owing \ WithPhone)]
  OBVIOUS
<1>8. /\ pod'[p] = t /\ DOMAIN pod' = Pods /\ \A q \in Pods \ {p} : pod'[q] = pod[q]
  BY <1>1, <1>7 DEF RunsInv, RunSelect
<1>9. /\ Cardinality(owing) = Cardinality(owing \cap WithPhone) + Cardinality(owing \ WithPhone)
      /\ Cardinality(owing \cap WithPhone) \in Nat /\ Cardinality(owing \ WithPhone) \in Nat
      /\ owing \subseteq Debtors
  <2>1. owing \subseteq Debtors /\ IsFiniteSet(owing)
    BY <1>1, DebtorsAreFinite DEF RunsInv
  <2>2. PICK B : B = owing \cap WithPhone
    OBVIOUS
  <2>3. B \subseteq owing /\ owing \ B = owing \ WithPhone
    BY <2>2
  <2>4. /\ Cardinality(owing) = Cardinality(B) + Cardinality(owing \ B)
        /\ Cardinality(B) \in Nat /\ Cardinality(owing \ B) \in Nat
    BY <2>1, <2>3, SizeSplits
  <2>5. Cardinality(owing \ B) = Cardinality(owing \ WithPhone)
    BY <2>3, Zenon
  <2> QED  BY <2>1, <2>2, <2>4, <2>5
<1>10. PodFits(t)
  BY <1>1, <1>3, <1>7, <1>9 DEF PodFits, Working
<1>11. Recorded(r) = {} /\ Cardinality({}) = 0
  BY <1>4, FS_EmptySet DEF Recorded, Untouched
<1>12. PodKnows(p)'
  <2>1. /\ t.at = "batch" /\ t.rule = pod[p].rule /\ t.minute = pod[p].minute
        /\ t.rest = owing \cap WithPhone /\ t.batch = {} /\ t.sent = 0
        /\ t.failed = Cardinality(owing \ WithPhone) /\ t.matched = Cardinality(owing)
    BY <1>7
  <2>2. Run(p)' = r /\ Counted(p)' = 0 /\ Pending(p)' = owing \cap WithPhone /\ Empty(p)'
    BY <2>1, <1>3, <1>6, <1>8 DEF Run, Counted, Pending, Empty
  <2>3. Recorded(Run(p))' = {}
    BY <2>2, <1>5, <1>11 DEF Recorded
  <2>4. \A d \in owing \cap WithPhone : handed[r][d] = 0 /\ items[r][d] = 0
    BY <1>4, <1>9 DEF Untouched
  <2>5. t.sent + 0 = Cardinality({})
    BY <2>1, <1>11
  <2>6. t.sent + t.failed + Cardinality(t.rest) + Cardinality(t.batch) = t.matched
    BY <2>1, <1>9, <1>11
  <2>7. pod'[p] = t /\ runRow'[r] = [status |-> "RUNNING"] /\ handed' = handed /\ items' = items
    BY <1>3, <1>5, <1>8
  <2>8. /\ (pod[p].at # "wait")' /\ (pod[p].at # "select")'
        /\ (runRow[Run(p)] = [status |-> "RUNNING"])'
    BY <2>1, <2>2, <2>7
  <2>9. /\ \A d \in pod'[p].rest : handed'[r][d] = 0
        /\ \A d \in Pending(p)' : items'[r][d] = 0
    BY <2>1, <2>2, <2>4, <2>7
  <2>10. /\ (pod[p].sent + Counted(p) = Cardinality(Recorded(Run(p))))'
         /\ (pod[p].sent + pod[p].failed + Cardinality(pod[p].rest)
                + Cardinality(pod[p].batch) = pod[p].matched)'
    BY <2>2, <2>3, <2>5, <2>6, <2>7
  <2> QED  BY <2>2, <2>8, <2>9, <2>10 DEF PodKnows
<1>13. RunKnows(r)'
  BY <1>3, <1>5, RunSame
<1>14. PICK S : S = RunKeys \ {r}
  OBVIOUS
<1>15. /\ \A j \in S : runRow'[j] = runRow[j] /\ handed'[j] = handed[j]
       /\ \A j \in Causes \ (RunKeys \ S) : items'[j] = items[j]
       /\ \A j \in RunKeys \ S : RunKnows(j)'
  BY <1>5, <1>13, <1>14
<1>16. pod'[p].at \in Working => <<pod'[p].rule, pod'[p].minute>> \notin S
  BY <1>3, <1>7, <1>8, <1>14
<1>17. DOMAIN handed' = RunKeys /\ DOMAIN runRow' = RunKeys /\ ItemsFit'
  BY <1>1, <1>5 DEF RunsInv, ItemsFit
<1>18. PodFits(pod'[p])
  BY <1>8, <1>10
<1> QED  BY <1>3, <1>5, <1>6, <1>8, <1>12, <1>14, <1>15, <1>16, <1>17, <1>18, PodFrame

LEMMA BatchStep ==
  ASSUME OutreachInv, NEW p \in Pods, RunBatch(p)
  PROVE  OutreachInv'
<1>1. RunsInv /\ ItemsFit /\ SendsFit /\ pod[p].at = "batch" /\ pod[p].at \in Working
  BY DEF OutreachInv, RunBatch, Working
<1>2. PICK r : r = Run(p)
  OBVIOUS
<1>3. /\ r \in RunKeys /\ r \in Causes /\ r = <<pod[p].rule, pod[p].minute>>
      /\ runRow[r] = [status |-> "RUNNING"] /\ RunKnows(r)
      /\ items[r] \in [Debtors -> Nat] /\ handed[r] \in [Debtors -> {0, 1}]
      /\ PodFits(pod[p]) /\ PodKnows(p)
      /\ \A q \in Pods \ {p} : pod[q].at \in Working => Run(q) \in RunKeys \ {r}
  BY <1>1, <1>2, PodAtWork
<1>4. PICK b \in Slices(pod[p].rest, BatchSize) :
         /\ Call(p, Run(p), b)
         /\ pod' = [pod EXCEPT ![p].at = "wait", ![p].batch = b, ![p].rest = @ \ b]
         /\ handed' = [handed EXCEPT ![Run(p)] =
               [d \in Debtors |-> handed[Run(p)][d] + IF d \in b THEN 1 ELSE 0]]
  BY DEF RunBatch
<1>5. b \subseteq pod[p].rest
  BY SlicesArePart
<1>6. /\ UNCHANGED <<world, ringVars, campaign, links, seenKeys>>
      /\ items' = items /\ runRow' = runRow
  BY DEF RunBatch, recordVars
<1>7. /\ DOMAIN pod[p] = {"at", "minute", "left", "rule", "matched", "rest", "batch",
                          "sent", "failed"}
      /\ pod[p].rest \subseteq Debtors /\ pod[p].batch = {}
      /\ pod[p].sent \in Nat /\ pod[p].failed \in Nat /\ Due(pod[p].minute, pod[p].left)
  BY <1>1, <1>3 DEF PodFits
<1>8. /\ DOMAIN pod' = Pods /\ \A q \in Pods \ {p} : pod'[q] = pod[q]
      /\ pod'[p] = [pod[p] EXCEPT !.at = "wait", !.batch = b, !.rest = pod[p].rest \ b]
  BY <1>1, <1>4 DEF RunsInv
<1>9. PICK t : t = pod'[p]
  OBVIOUS
<1>10. /\ DOMAIN t = DOMAIN pod[p] /\ t.at = "wait" /\ t.batch = b /\ t.rest = pod[p].rest \ b
       /\ t.minute = pod[p].minute /\ t.left = pod[p].left /\ t.rule = pod[p].rule
       /\ t.matched = pod[p].matched /\ t.sent = pod[p].sent /\ t.failed = pod[p].failed
  BY <1>7, <1>8, <1>9
<1>11. /\ p \in Senders /\ send'[p] = [at |-> "check", cause |-> r, batch |-> b]
       /\ DOMAIN send' = Senders /\ \A y \in Senders \ {p} : send'[y] = send[y]
  BY <1>1, <1>2, <1>4 DEF SendsFit, Call, Senders
<1>12. CallFits(send'[p]) /\ send'[p] # NoSend
  BY <1>5, <1>7, <1>11 DEF CallFits, NoSend
<1>13. /\ handed'[r] = [d \in Debtors |-> handed[r][d] + IF d \in b THEN 1 ELSE 0]
       /\ DOMAIN handed' = RunKeys /\ \A k \in RunKeys \ {r} : handed'[k] = handed[k]
  BY <1>1, <1>2, <1>3, <1>4 DEF RunsInv
<1>14. /\ Cardinality(pod[p].rest) = Cardinality(b) + Cardinality(pod[p].rest \ b)
       /\ Cardinality(b) \in Nat /\ Cardinality(pod[p].rest \ b) \in Nat
  BY <1>5, <1>7, DebtorsAreFinite, SizeSplits
<1>15. /\ \A d \in pod[p].rest : handed[r][d] = 0 /\ items[r][d] = 0
       /\ pod[p].sent = Cardinality(Recorded(r))
       /\ pod[p].sent + pod[p].failed + Cardinality(pod[p].rest) = pod[p].matched
  <2>1. Empty(p) /\ Counted(p) = 0 /\ pod[p].rest \subseteq Pending(p)
    BY <1>1, <1>3 DEF PodKnows, Counted, Pending
  <2>2. Cardinality(pod[p].batch) = 0
    BY <1>7, FS_EmptySet
  <2>3. Cardinality(pod[p].rest) \in Nat
    BY <1>7, DebtorsAreFinite
  <2>4. /\ \A d \in pod[p].rest : handed[r][d] = 0
        /\ \A d \in Pending(p) : items[r][d] = 0
        /\ pod[p].sent + 0 = Cardinality(Recorded(r))
        /\ pod[p].sent + pod[p].failed + Cardinality(pod[p].rest) + 0 = pod[p].matched
    BY <1>1, <1>2, <1>3, <2>1, <2>2 DEF PodKnows
  <2> QED  BY <2>1, <2>3, <2>4, <1>7
<1>16. PodFits(t)
  <2>1. t.rest \subseteq Debtors /\ t.batch \subseteq Debtors /\ t.rest \cap t.batch = {}
    BY <1>5, <1>7, <1>10
  <2>2. <<t.rule, t.minute>> \in RunKeys /\ Due(t.minute, t.left)
    BY <1>3, <1>7, <1>10
  <2> QED  BY <2>1, <2>2, <1>7, <1>10 DEF PodFits, Working
<1>17. PodKnows(p)'
  <2>1. Run(p)' = r /\ ~Empty(p)' /\ Counted(p)' = 0 /\ Pending(p)' = pod[p].rest
    BY <1>3, <1>5, <1>9, <1>10, <1>11, <1>12 DEF Run, Counted, Pending, Empty
  <2>2. Recorded(Run(p))' = Recorded(r)
    BY <2>1, <1>6 DEF Recorded
  <2>3. \A d \in t.rest : handed'[r][d] = 0
    BY <1>7, <1>10, <1>13, <1>15
  <2>4. \A d \in pod[p].rest : items'[r][d] = 0
    BY <1>6, <1>15
  <2>5. t.sent + 0 = Cardinality(Recorded(r))
    BY <1>7, <1>10, <1>15
  <2>6. t.sent + t.failed + Cardinality(t.rest) + Cardinality(t.batch) = t.matched
    BY <1>7, <1>10, <1>14, <1>15
  <2>7. runRow'[r] = [status |-> "RUNNING"]
    BY <1>3, <1>6
  <2>8. send'[p].cause = r /\ send'[p].batch = t.batch
    BY <1>10, <1>11
  <2> QED  BY <2>1, <2>2, <2>3, <2>4, <2>5, <2>6, <2>7, <2>8, <1>9, <1>10 DEF PodKnows, Working
<1>18. RunKnows(r)'
  <2>1. handed'[r] \in [Debtors -> {0, 1}]
    BY <1>3, <1>5, <1>13, <1>15
  <2>2. runRow'[r] = [status |-> "RUNNING"]
    BY <1>3, <1>6
  <2> QED  BY <2>1, <2>2 DEF RunKnows, NoRun
<1>19. PICK S : S = RunKeys \ {r}
  OBVIOUS
<1>20. /\ \A j \in S : runRow'[j] = runRow[j] /\ handed'[j] = handed[j]
       /\ \A j \in Causes \ (RunKeys \ S) : items'[j] = items[j]
       /\ \A j \in RunKeys \ S : RunKnows(j)'
  BY <1>6, <1>13, <1>18, <1>19
<1>21. pod'[p].at \in Working => <<pod'[p].rule, pod'[p].minute>> \notin S
  BY <1>3, <1>9, <1>10, <1>19
<1>22. DOMAIN runRow' = RunKeys /\ ItemsFit'
  BY <1>1, <1>6 DEF RunsInv, ItemsFit
<1>23. PodFits(pod'[p])
  BY <1>9, <1>16
<1> QED  BY <1>3, <1>6, <1>8, <1>11, <1>12, <1>13, <1>17, <1>19, <1>20, <1>21, <1>22, <1>23,
            PodFrame

LEMMA AnsweredStep ==
  ASSUME OutreachInv, NEW p \in Pods, BatchAnswered(p)
  PROVE  OutreachInv'
<1>1. /\ RunsInv /\ ItemsFit /\ SendsFit /\ pod[p].at = "wait" /\ pod[p].at \in Working
      /\ send[p].at \in {"ok", "failed"}
  BY DEF OutreachInv, BatchAnswered, Answered, Working
<1>2. PICK r : r = Run(p)
  OBVIOUS
<1>3. /\ r \in RunKeys /\ r \in Causes /\ r = <<pod[p].rule, pod[p].minute>>
      /\ runRow[r] = [status |-> "RUNNING"] /\ RunKnows(r)
      /\ items[r] \in [Debtors -> Nat] /\ PodFits(pod[p]) /\ PodKnows(p)
      /\ \A q \in Pods \ {p} : pod[q].at \in Working => Run(q) \in RunKeys \ {r}
  BY <1>1, <1>2, PodAtWork
<1>4. PICK n : n = Cardinality(pod[p].batch)
  OBVIOUS
<1>5. PICK s : s = IF send[p].at = "ok" THEN n ELSE 0
  OBVIOUS
<1>6. PICK f : f = IF send[p].at = "ok" THEN 0 ELSE n
  OBVIOUS
<1>7. /\ DOMAIN pod[p] = {"at", "minute", "left", "rule", "matched", "rest", "batch",
                          "sent", "failed"}
      /\ pod[p].rest \subseteq Debtors /\ pod[p].batch \subseteq Debtors
      /\ pod[p].sent \in Nat /\ pod[p].failed \in Nat /\ Due(pod[p].minute, pod[p].left)
  BY <1>1, <1>3 DEF PodFits
<1>8. n \in Nat /\ s \in Nat /\ f \in Nat /\ s + f = n
  <2>1. n \in Nat
    BY <1>4, <1>7, DebtorsAreFinite
  <2> QED  BY <2>1, <1>5, <1>6
<1>9. /\ DOMAIN pod' = Pods /\ \A q \in Pods \ {p} : pod'[q] = pod[q]
      /\ pod'[p] = [pod[p] EXCEPT !.at = "batch", !.batch = {}, !.sent = pod[p].sent + s,
                                  !.failed = pod[p].failed + f]
  BY <1>1, <1>4, <1>5, <1>6 DEF RunsInv, BatchAnswered
<1>10. PICK t : t = pod'[p]
  OBVIOUS
<1>11. /\ DOMAIN t = DOMAIN pod[p] /\ t.at = "batch" /\ t.batch = {} /\ t.rest = pod[p].rest
       /\ t.minute = pod[p].minute /\ t.left = pod[p].left /\ t.rule = pod[p].rule
       /\ t.matched = pod[p].matched /\ t.sent = pod[p].sent + s /\ t.failed = pod[p].failed + f
  BY <1>7, <1>9, <1>10
<1>12. /\ send'[p] = NoSend
       /\ DOMAIN send' = Senders /\ \A y \in Senders \ {p} : send'[y] = send[y]
  BY <1>1 DEF SendsFit, BatchAnswered, Senders
<1>13. /\ UNCHANGED <<world, ringVars, campaign, links, seenKeys>>
       /\ items' = items /\ runRow' = runRow /\ handed' = handed
  BY DEF BatchAnswered, recordVars
<1>14. /\ \A d \in pod[p].rest : handed[r][d] = 0 /\ items[r][d] = 0
       /\ pod[p].sent + s = Cardinality(Recorded(r))
       /\ pod[p].sent + pod[p].failed + Cardinality(pod[p].rest) + n = pod[p].matched
       /\ Cardinality(pod[p].rest) \in Nat
  <2>1. ~Empty(p) /\ Counted(p) = s /\ pod[p].rest \subseteq Pending(p)
    BY <1>1, <1>3, <1>4, <1>5 DEF PodKnows, Counted, Pending
  <2>2. Cardinality(pod[p].rest) \in Nat
    BY <1>7, DebtorsAreFinite
  <2> QED  BY <1>1, <1>2, <1>3, <1>4, <2>1, <2>2 DEF PodKnows
<1>15. PodFits(t)
  <2>1. t.sent \in Nat /\ t.failed \in Nat
    BY <1>7, <1>8, <1>11
  <2>2. <<t.rule, t.minute>> \in RunKeys /\ Due(t.minute, t.left)
    BY <1>3, <1>7, <1>11
  <2> QED  BY <2>1, <2>2, <1>7, <1>11 DEF PodFits, Working
<1>16. PodKnows(p)'
  <2>1. Run(p)' = r /\ Empty(p)' /\ Counted(p)' = 0 /\ Pending(p)' = pod[p].rest
    BY <1>3, <1>10, <1>11, <1>12 DEF Run, Counted, Pending, Empty
  <2>2. Recorded(Run(p))' = Recorded(r)
    BY <2>1, <1>13 DEF Recorded
  <2>3. \A d \in t.rest : handed'[r][d] = 0
    BY <1>11, <1>13, <1>14
  <2>4. \A d \in pod[p].rest : items'[r][d] = 0
    BY <1>13, <1>14
  <2>5. t.sent + 0 = Cardinality(Recorded(r))
    BY <1>7, <1>8, <1>11, <1>14
  <2>6. Cardinality(t.batch) = 0
    BY <1>11, FS_EmptySet
  <2>7. t.sent + t.failed + Cardinality(t.rest) + 0 = t.matched
    BY <1>7, <1>8, <1>11, <1>14
  <2>8. runRow'[r] = [status |-> "RUNNING"]
    BY <1>3, <1>13
  <2> QED  BY <2>1, <2>2, <2>3, <2>4, <2>5, <2>6, <2>7, <2>8, <1>10, <1>11 DEF PodKnows, Working
<1>17. RunKnows(r)'
  BY <1>3, <1>13, RunSame
<1>18. PICK S : S = RunKeys \ {r}
  OBVIOUS
<1>19. /\ \A j \in S : runRow'[j] = runRow[j] /\ handed'[j] = handed[j]
       /\ \A j \in Causes \ (RunKeys \ S) : items'[j] = items[j]
       /\ \A j \in RunKeys \ S : RunKnows(j)'
  BY <1>13, <1>17, <1>18
<1>20. pod'[p].at \in Working => <<pod'[p].rule, pod'[p].minute>> \notin S
  BY <1>3, <1>10, <1>11, <1>18
<1>21. DOMAIN runRow' = RunKeys /\ DOMAIN handed' = RunKeys /\ ItemsFit'
  BY <1>1, <1>13 DEF RunsInv, ItemsFit
<1>22. PodFits(pod'[p])
  BY <1>10, <1>15
<1> QED  BY <1>3, <1>9, <1>12, <1>13, <1>16, <1>18, <1>19, <1>20, <1>21, <1>22, PodFrame

LEMMA MailStep ==
  ASSUME OutreachInv, NEW p \in Pods, RunMail(p)
  PROVE  OutreachInv'
<1>1. RunsInv /\ ItemsFit /\ SendsFit /\ pod[p].at = "batch" /\ pod[p].at \in Working
  BY DEF OutreachInv, RunMail, Working
<1>2. PICK r : r = Run(p)
  OBVIOUS
<1>3. /\ r \in RunKeys /\ r \in Causes /\ r = <<pod[p].rule, pod[p].minute>>
      /\ runRow[r] = [status |-> "RUNNING"] /\ RunKnows(r)
      /\ items[r] \in [Debtors -> Nat] /\ handed[r] \in [Debtors -> {0, 1}]
      /\ PodFits(pod[p]) /\ PodKnows(p)
      /\ \A q \in Pods \ {p} : pod[q].at \in Working => Run(q) \in RunKeys \ {r}
  BY <1>1, <1>2, PodAtWork
<1>4. /\ UNCHANGED <<world, ringVars, campaign, links, seenKeys>>
      /\ send' = send /\ runRow' = runRow
  BY DEF RunMail
<1>5. PICK d \in pod[p].rest :
         /\ handed' = [handed EXCEPT ![Run(p)][d] = @ + 1]
         /\ \/ /\ pod' = [pod EXCEPT ![p].rest = @ \ {d}, ![p].sent = @ + 1]
               /\ items' = [items EXCEPT ![Run(p)][d] = @ + 1]
            \/ /\ pod' = [pod EXCEPT ![p].rest = @ \ {d}, ![p].failed = @ + 1]
               /\ items' = items
  BY DEF RunMail
<1>6. PICK s \in {0, 1} :
      \/ /\ pod' = [pod EXCEPT ![p].rest = @ \ {d}, ![p].sent = @ + 1]
         /\ items' = [items EXCEPT ![r][d] = @ + 1] /\ s = 1
      \/ /\ pod' = [pod EXCEPT ![p].rest = @ \ {d}, ![p].failed = @ + 1]
         /\ items' = items /\ s = 0
  <2>1. CASE /\ pod' = [pod EXCEPT ![p].rest = @ \ {d}, ![p].sent = @ + 1]
             /\ items' = [items EXCEPT ![Run(p)][d] = @ + 1]
    <3>1. 1 \in {0, 1}
      OBVIOUS
    <3> QED  BY <2>1, <3>1, <1>2, Zenon
  <2>2. CASE /\ pod' = [pod EXCEPT ![p].rest = @ \ {d}, ![p].failed = @ + 1]
             /\ items' = items
    <3>1. 0 \in {0, 1}
      OBVIOUS
    <3> QED  BY <2>2, <3>1, Zenon
  <2> QED  BY <1>5, <2>1, <2>2
<1>7. /\ DOMAIN pod[p] = {"at", "minute", "left", "rule", "matched", "rest", "batch",
                          "sent", "failed"}
      /\ pod[p].rest \subseteq Debtors /\ pod[p].batch = {} /\ d \in Debtors
      /\ pod[p].sent \in Nat /\ pod[p].failed \in Nat /\ Due(pod[p].minute, pod[p].left)
  BY <1>1, <1>3 DEF PodFits
<1>10. /\ DOMAIN pod' = Pods /\ \A q \in Pods \ {p} : pod'[q] = pod[q]
       /\ pod'[p] = [pod[p] EXCEPT !.rest = pod[p].rest \ {d}, !.sent = pod[p].sent + s,
                                   !.failed = pod[p].failed + (1 - s)]
  <2>1. DOMAIN pod = Pods
    BY <1>1 DEF RunsInv
  <2>2. CASE s = 1 /\ pod' = [pod EXCEPT ![p].rest = @ \ {d}, ![p].sent = @ + 1]
    <3>1. pod'[p] = [pod[p] EXCEPT !.rest = pod[p].rest \ {d}, !.sent = pod[p].sent + 1]
      BY <2>1, <2>2
    <3>2. pod[p].failed + (1 - s) = pod[p].failed
      BY <2>2, <1>7
    <3> QED  BY <2>1, <2>2, <3>1, <3>2, <1>7
  <2>3. CASE s = 0 /\ pod' = [pod EXCEPT ![p].rest = @ \ {d}, ![p].failed = @ + 1]
    <3>1. pod'[p] = [pod[p] EXCEPT !.rest = pod[p].rest \ {d}, !.failed = pod[p].failed + 1]
      BY <2>1, <2>3
    <3>2. pod[p].sent + s = pod[p].sent /\ 1 - s = 1
      BY <2>3, <1>7
    <3> QED  BY <2>1, <2>3, <3>1, <3>2, <1>7
  <2> QED  BY <1>6, <2>2, <2>3
<1>11. PICK t : t = pod'[p]
  OBVIOUS
<1>12. /\ DOMAIN t = DOMAIN pod[p] /\ t.at = "batch" /\ t.batch = {} /\ t.rest = pod[p].rest \ {d}
       /\ t.minute = pod[p].minute /\ t.left = pod[p].left /\ t.rule = pod[p].rule
       /\ t.matched = pod[p].matched /\ t.sent = pod[p].sent + s
       /\ t.failed = pod[p].failed + (1 - s) /\ s \in {0, 1}
  BY <1>1, <1>7, <1>10, <1>11
<1>13. /\ send[p] = NoSend /\ DOMAIN send' = Senders /\ send'[p] = NoSend
       /\ \A y \in Senders \ {p} : send'[y] = send[y]
  BY <1>1, <1>4, NoCall
<1>14. /\ DOMAIN items' = Causes /\ \A k \in Causes \ {r} : items'[k] = items[k]
       /\ DOMAIN items'[r] = Debtors /\ items'[r][d] = items[r][d] + s
       /\ \A e \in Debtors \ {d} : items'[r][e] = items[r][e]
  <2>1. DOMAIN items = Causes /\ DOMAIN items[r] = Debtors /\ items[r][d] \in Nat
    BY <1>1, <1>3, <1>7 DEF ItemsFit
  <2>2. CASE items' = items /\ s = 0
    BY <2>1, <2>2
  <2>3. CASE items' = [items EXCEPT ![r][d] = @ + 1] /\ s = 1
    <3>1. /\ items'[r] = [items[r] EXCEPT ![d] = @ + 1] /\ DOMAIN items' = Causes
          /\ \A k \in Causes \ {r} : items'[k] = items[k]
      BY <2>1, <2>3, <1>3
    <3> QED  BY <3>1, <2>1, <2>3, <1>7
  <2> QED  BY <2>2, <2>3, <1>6
<1>15. /\ DOMAIN handed' = RunKeys /\ \A k \in RunKeys \ {r} : handed'[k] = handed[k]
       /\ DOMAIN handed'[r] = Debtors /\ handed'[r][d] = handed[r][d] + 1
       /\ \A e \in Debtors \ {d} : handed'[r][e] = handed[r][e]
  <2>1. DOMAIN handed = RunKeys /\ DOMAIN handed[r] = Debtors
    BY <1>1, <1>3 DEF RunsInv
  <2> QED  BY <2>1, <1>2, <1>3, <1>5, <1>7
<1>16. /\ \A e \in pod[p].rest : handed[r][e] = 0 /\ items[r][e] = 0
       /\ pod[p].sent = Cardinality(Recorded(r))
       /\ pod[p].sent + pod[p].failed + Cardinality(pod[p].rest) = pod[p].matched
  <2>1. Empty(p) /\ Counted(p) = 0 /\ pod[p].rest \subseteq Pending(p)
    BY <1>1, <1>3 DEF PodKnows, Counted, Pending
  <2>2. Cardinality(pod[p].batch) = 0
    BY <1>7, FS_EmptySet
  <2>3. Cardinality(pod[p].rest) \in Nat
    BY <1>7, DebtorsAreFinite
  <2>4. /\ \A e \in pod[p].rest : handed[r][e] = 0
        /\ \A e \in Pending(p) : items[r][e] = 0
        /\ pod[p].sent + 0 = Cardinality(Recorded(r))
        /\ pod[p].sent + pod[p].failed + Cardinality(pod[p].rest) + 0 = pod[p].matched
    BY <1>1, <1>2, <1>3, <2>1, <2>2 DEF PodKnows
  <2> QED  BY <2>1, <2>3, <2>4, <1>7
<1>17. ItemsFit'
  <2>1. items'[r] \in [Debtors -> Nat]
    <3>1. \A e \in Debtors : items'[r][e] \in Nat
      BY <1>3, <1>7, <1>12, <1>14
    <3>2. items'[r] = [e \in Debtors |-> items'[r][e]]
      <4>1. \/ items' = [items EXCEPT ![r][d] = @ + 1]
            \/ items' = items
        BY <1>6
      <4>2. DOMAIN items = Causes /\ items[r] = [e \in Debtors |-> items[r][e]]
        BY <1>1, <1>3 DEF ItemsFit
      <4>3. CASE items' = items
        BY <4>2, <4>3
      <4>4. CASE items' = [items EXCEPT ![r][d] = @ + 1]
        <5>1. items'[r] = [items[r] EXCEPT ![d] = @ + 1]
          BY <4>2, <4>4, <1>3
        <5> QED  BY <5>1, <4>2
      <4> QED  BY <4>1, <4>3, <4>4
    <3> QED  BY <3>1, <3>2
  <2>2. \A k \in Causes \ {r} : items'[k] \in [Debtors -> Nat]
    BY <1>1, <1>14 DEF ItemsFit
  <2>3. items' = [k \in Causes |-> items'[k]]
    <3>1. items = [k \in Causes |-> items[k]]
      BY <1>1 DEF ItemsFit
    <3> QED  BY <3>1, <1>6
  <2> QED  BY <2>1, <2>2, <2>3 DEF ItemsFit
<1>18. PICK B : B = Recorded(r)
  OBVIOUS
<1>19. Recorded(r)' = B \cup (IF s = 1 THEN {d} ELSE {}) /\ d \notin B /\ B \subseteq Debtors
  <2>1. \A e \in Debtors : items'[r][e] > 0 <=> items[r][e] > 0 \/ (e = d /\ s = 1)
    <3>1. items[r][d] = 0 /\ items'[r][d] = s /\ s \in {0, 1}
      BY <1>7, <1>12, <1>14, <1>16
    <3>2. \A e \in Debtors \ {d} : items'[r][e] = items[r][e]
      BY <1>14
    <3> QED  BY <3>1, <3>2
  <2>2. B = {e \in Debtors : items[r][e] > 0}
    BY <1>18 DEF Recorded
  <2>3. d \in Debtors /\ ~(items[r][d] > 0)
    BY <1>3, <1>7, <1>16
  <2>4. d \notin B /\ B \subseteq Debtors
    BY <2>2, <2>3
  <2>5. Recorded(r)' = {e \in Debtors : items'[r][e] > 0}
    BY DEF Recorded
  <2>6. ASSUME NEW e
        PROVE  e \in Recorded(r)' <=> e \in B \cup (IF s = 1 THEN {d} ELSE {})
    <3>1. e \in Recorded(r)' <=> e \in Debtors /\ (items[r][e] > 0 \/ (e = d /\ s = 1))
      BY <2>1, <2>5
    <3>2. e \in B <=> e \in Debtors /\ items[r][e] > 0
      BY <2>2
    <3> QED  BY <3>1, <3>2, <2>3
  <2> QED  BY <2>4, <2>6
<1>20. Cardinality(Recorded(r)') = Cardinality(B) + s
  <2>1. IsFiniteSet(B) /\ Cardinality(B) \in Nat
    BY <1>19, DebtorsAreFinite
  <2>2. Cardinality(B \cup {d}) = Cardinality(B) + 1
    BY <2>1, <1>19, FS_AddElement
  <2>3. CASE s = 1
    BY <2>2, <2>3, <1>19
  <2>4. CASE s = 0
    <3>1. Recorded(r)' = B
      BY <2>4, <1>19
    <3> QED  BY <3>1, <2>1, <2>4
  <2> QED  BY <2>3, <2>4, <1>12
<1>21. Cardinality(pod[p].rest) = Cardinality(pod[p].rest \ {d}) + 1
       /\ Cardinality(pod[p].rest \ {d}) \in Nat
  <2>1. IsFiniteSet(pod[p].rest) /\ Cardinality(pod[p].rest) \in Nat
    BY <1>7, DebtorsAreFinite
  <2>2. Cardinality(pod[p].rest \ {d}) = Cardinality(pod[p].rest) - 1
    BY <2>1, FS_RemoveElement
  <2>3. Cardinality(pod[p].rest \ {d}) \in Nat
    BY <1>7, DebtorsAreFinite
  <2> QED  BY <2>1, <2>2, <2>3
<1>22. PodFits(t)
  <2>1. t.sent \in Nat /\ t.failed \in Nat /\ t.rest \subseteq Debtors
    BY <1>7, <1>12
  <2>2. <<t.rule, t.minute>> \in RunKeys /\ Due(t.minute, t.left)
    BY <1>3, <1>7, <1>12
  <2> QED  BY <2>1, <2>2, <1>7, <1>12 DEF PodFits, Working
<1>23. PodKnows(p)'
  <2>1. Run(p)' = r /\ Empty(p)' /\ Counted(p)' = 0 /\ Pending(p)' = pod[p].rest \ {d}
    BY <1>3, <1>11, <1>12, <1>13 DEF Run, Counted, Pending, Empty
  <2>2. Recorded(Run(p))' = Recorded(r)'
    BY <2>1 DEF Recorded
  <2>3. \A e \in t.rest : handed'[r][e] = 0
    BY <1>7, <1>12, <1>15, <1>16
  <2>4. \A e \in pod[p].rest \ {d} : items'[r][e] = 0
    BY <1>7, <1>14, <1>16
  <2>5. t.sent + 0 = Cardinality(Recorded(r)')
    BY <1>7, <1>12, <1>16, <1>18, <1>20
  <2>6. Cardinality(t.batch) = 0
    BY <1>12, FS_EmptySet
  <2>7. t.sent + t.failed + Cardinality(t.rest) + 0 = t.matched
    BY <1>7, <1>12, <1>16, <1>21
  <2>8. runRow'[r] = [status |-> "RUNNING"]
    BY <1>3, <1>4
  <2> QED  BY <2>1, <2>2, <2>3, <2>4, <2>5, <2>6, <2>7, <2>8, <1>11, <1>12 DEF PodKnows, Working
<1>24. RunKnows(r)'
  <2>1. handed'[r] \in [Debtors -> {0, 1}]
    <3>1. \A e \in Debtors : handed'[r][e] \in {0, 1}
      BY <1>3, <1>7, <1>15, <1>16
    <3>2. handed'[r] = [handed[r] EXCEPT ![d] = @ + 1]
      BY <1>1, <1>2, <1>3, <1>5 DEF RunsInv
    <3> QED  BY <3>1, <3>2, <1>3
  <2>2. runRow'[r] = [status |-> "RUNNING"]
    BY <1>3, <1>4
  <2> QED  BY <2>1, <2>2 DEF RunKnows, NoRun
<1>25. PICK S : S = RunKeys \ {r}
  OBVIOUS
<1>26. /\ \A j \in S : runRow'[j] = runRow[j] /\ handed'[j] = handed[j]
       /\ \A j \in Causes \ (RunKeys \ S) : items'[j] = items[j]
       /\ \A j \in RunKeys \ S : RunKnows(j)'
  <2>1. \A j \in S : j \in RunKeys /\ j # r
    BY <1>25
  <2>2. \A j \in S : runRow'[j] = runRow[j] /\ handed'[j] = handed[j]
    BY <2>1, <1>4, <1>15
  <2>3. \A j \in Causes \ (RunKeys \ S) : items'[j] = items[j]
    BY <1>3, <1>14, <1>25
  <2>4. \A j \in RunKeys \ S : j = r
    BY <1>25
  <2> QED  BY <2>2, <2>3, <2>4, <1>24
<1>27. pod'[p].at \in Working => <<pod'[p].rule, pod'[p].minute>> \notin S
  BY <1>3, <1>11, <1>12, <1>25
<1>28. DOMAIN runRow' = RunKeys
  BY <1>1, <1>4 DEF RunsInv
<1>29. PodFits(pod'[p])
  BY <1>11, <1>22
<1> QED  BY <1>3, <1>4, <1>10, <1>13, <1>15, <1>17, <1>23, <1>25, <1>26, <1>27, <1>28, <1>29,
            PodFrame

LEMMA CloseStep ==
  ASSUME OutreachInv, NEW p \in Pods, RunClose(p)
  PROVE  OutreachInv'
<1>1. /\ RunsInv /\ ItemsFit /\ pod[p].at = "batch" /\ pod[p].at \in Working
      /\ pod[p].rest = {}
  BY DEF OutreachInv, RunClose, Working
<1>2. PICK r : r = Run(p)
  OBVIOUS
<1>3. /\ r \in RunKeys /\ RunKnows(r) /\ PodFits(pod[p]) /\ PodKnows(p)
  BY <1>1, <1>2, PodAtWork
<1>4. PICK t : t = Onward(pod[p].left, pod[p].minute)
  OBVIOUS
<1>5. t = PodIdle \/ (t.at = "rules" /\ PodFits(t))
  BY <1>1, <1>3, <1>4, OnwardFits DEF PodFits
<1>6. PICK row : row = [status |-> RunStatus(pod[p].sent, pod[p].failed),
                        matched |-> pod[p].matched, sent |-> pod[p].sent,
                        failed |-> pod[p].failed]
  OBVIOUS
<1>7. pod' = [pod EXCEPT ![p] = t] /\ runRow' = [runRow EXCEPT ![r] = row]
  BY <1>2, <1>4, <1>6 DEF RunClose
<1>8. /\ UNCHANGED <<world, ringVars, campaign, links, seenKeys, handed, items>>
      /\ send' = send /\ items' = items /\ handed' = handed
  BY DEF RunClose, recordVars
<1>9. /\ DOMAIN send' = Senders /\ send'[p] = NoSend
      /\ \A y \in Senders \ {p} : send'[y] = send[y]
  BY <1>1, <1>8, NoCall
<1>10. /\ runRow'[r] = row /\ DOMAIN runRow' = RunKeys
       /\ \A k \in RunKeys \ {r} : runRow'[k] = runRow[k]
  BY <1>1, <1>3, <1>7 DEF RunsInv
<1>11. /\ pod[p].sent = Cardinality(Recorded(r)) /\ pod[p].sent \in Nat /\ pod[p].failed \in Nat
       /\ pod[p].sent + pod[p].failed = pod[p].matched
  <2>1. pod[p].batch = {} /\ pod[p].sent \in Nat /\ pod[p].failed \in Nat
    BY <1>1, <1>3 DEF PodFits
  <2>2. Counted(p) = 0
    BY <1>1, <1>3 DEF PodKnows, Counted
  <2>3. Cardinality(pod[p].rest) = 0 /\ Cardinality(pod[p].batch) = 0
    BY <1>1, <2>1, FS_EmptySet
  <2>4. /\ pod[p].sent + 0 = Cardinality(Recorded(r))
        /\ pod[p].sent + pod[p].failed + 0 + 0 = pod[p].matched
    BY <1>1, <1>2, <1>3, <2>2, <2>3 DEF PodKnows
  <2> QED  BY <2>1, <2>4
<1>12. RunKnows(r)'
  <2>1. row.sent = Cardinality(Recorded(r)) /\ row.sent + row.failed = row.matched /\ row # NoRun
    BY <1>6, <1>11 DEF NoRun
  <2>2. Recorded(r)' = Recorded(r)
    BY <1>8 DEF Recorded
  <2> QED  BY <2>1, <2>2, <1>3, <1>8, <1>10 DEF RunKnows
<1> QED  BY <1>1, <1>2, <1>5, <1>7, <1>8, <1>9, <1>10, <1>12, PodLeaves

LEMMA FailStep ==
  ASSUME OutreachInv, NEW p \in Pods, RunFails(p)
  PROVE  OutreachInv'
<1>1. RunsInv /\ pod[p].at # "wait" /\ pod[p].at \in Working
  BY DEF OutreachInv, RunFails, Working
<1>2. PICK r : r = Run(p)
  OBVIOUS
<1>3. /\ r \in RunKeys /\ RunKnows(r) /\ PodFits(pod[p])
  BY <1>1, <1>2, PodAtWork
<1>4. PICK t : t = Onward(pod[p].left, pod[p].minute)
  OBVIOUS
<1>5. t = PodIdle \/ (t.at = "rules" /\ PodFits(t))
  BY <1>1, <1>3, <1>4, OnwardFits DEF PodFits, Working
<1>6. pod' = [pod EXCEPT ![p] = t] /\ runRow' = [runRow EXCEPT ![r] = [status |-> "FAILED"]]
  BY <1>2, <1>4 DEF RunFails
<1>7. /\ UNCHANGED <<world, ringVars, campaign, links, seenKeys, handed, items>>
      /\ send' = send /\ items' = items /\ handed' = handed
  BY DEF RunFails, recordVars
<1>8. /\ DOMAIN send' = Senders /\ send'[p] = NoSend
      /\ \A y \in Senders \ {p} : send'[y] = send[y]
  BY <1>1, <1>7, NoCall
<1>9. /\ runRow'[r] = [status |-> "FAILED"] /\ DOMAIN runRow' = RunKeys
      /\ \A k \in RunKeys \ {r} : runRow'[k] = runRow[k]
  BY <1>1, <1>3, <1>6 DEF RunsInv
<1>10. RunKnows(r)'
  BY <1>3, <1>7, <1>9 DEF RunKnows, NoRun
<1> QED  BY <1>1, <1>2, <1>5, <1>6, <1>7, <1>8, <1>9, <1>10, PodLeaves

LEMMA DieStep ==
  ASSUME OutreachInv, NEW p \in Pods, PodDies(p)
  PROVE  OutreachInv'
<1>1. SendsFit
  BY DEF OutreachInv
<1>2. /\ UNCHANGED <<world, ringVars, campaign, links, seenKeys, handed, items>>
      /\ runRow' = runRow /\ pod' = [pod EXCEPT ![p] = PodIdle]
      /\ send' = [send EXCEPT ![p] = NoSend]
  BY DEF PodDies, recordVars
<1>3. /\ DOMAIN send' = Senders /\ send'[p] = NoSend
      /\ \A y \in Senders \ {p} : send'[y] = send[y]
  BY <1>1, <1>2 DEF SendsFit, Senders
<1>4. PICK r : r = Run(p)
  OBVIOUS
<1>5. PICK t : t = PodIdle
  OBVIOUS
<1> QED  BY <1>2, <1>3, <1>4, <1>5, PodLeaves

LEMMA PodStepHolds ==
  ASSUME OutreachInv, NEW p \in Pods, PodStep(p)
  PROVE  OutreachInv'
BY TickStep, CreateStep, SelectStep, BatchStep, AnsweredStep, MailStep, CloseStep, FailStep,
   DieStep DEF PodStep

-----------------------------------------------------------------------------
(* The steps of the world and of campaigns.                                *)

LEMMA StillStep ==
  ASSUME OutreachInv, owing' \subseteq Debtors,
         UNCHANGED <<ruleVars, ringVars, items, send, seenKeys>>
  PROVE  OutreachInv'
<1>1. ItemsFit /\ SendsFit /\ RunsInv /\ PagesFit /\ LinksInv
  BY DEF OutreachInv
<1>2. /\ pod' = pod /\ runRow' = runRow /\ handed' = handed /\ items' = items /\ ring' = ring
      /\ seenKeys' = seenKeys /\ dropped' = dropped /\ send' = send
  BY DEF ruleVars, ringVars
<1>3. ItemsFit' /\ SendsFit' /\ PagesFit'
  BY <1>1, <1>2 DEF ItemsFit, SendsFit, PagesFit, Empty
<1>4. RunsInv'
  BY <1>1, <1>2, RunsRest
<1>5. LinksInv'
  BY <1>1, <1>2, LinksRest
<1> QED  BY <1>3, <1>4, <1>5 DEF OutreachInv

LEMMA CampaignStepHolds ==
  ASSUME OutreachInv, NEW j \in Campaigns, CampaignStep(j)
  PROVE  OutreachInv'
<1>1. ItemsFit /\ SendsFit /\ RunsInv /\ PagesFit /\ LinksInv
  BY DEF OutreachInv
<1>2. /\ pod' = pod /\ runRow' = runRow /\ handed' = handed /\ items' = items /\ ring' = ring
      /\ seenKeys' = seenKeys /\ dropped' = dropped /\ owing' = owing
  BY DEF CampaignStep, CampaignQueue, CampaignPage, CampaignAnswered, world, ruleVars,
         ringVars, recordVars
<1>3. \/ send' = send
      \/ send' = [send EXCEPT ![j] = NoSend]
      \/ \E b \in SUBSET Debtors :
            send' = [send EXCEPT ![j] = [at |-> "check", cause |-> j, batch |-> b]]
  <2>1. CASE CampaignQueue(j) \/ CampaignAnswered(j)
    BY <2>1 DEF CampaignQueue, CampaignAnswered
  <2>2. CASE CampaignPage(j)
    <3>1. PICK page : \/ send' = send
                      \/ Call(j, j, page \cap owing \cap WithPhone)
      BY <2>2 DEF CampaignPage
    <3>2. page \cap owing \cap WithPhone \subseteq Debtors
      BY OutreachAssumption
    <3> QED  BY <3>1, <3>2 DEF Call
  <2> QED  BY <2>1, <2>2 DEF CampaignStep
<1>4. /\ DOMAIN send' = Senders /\ \A y \in Senders \ {j} : send'[y] = send[y]
      /\ Empty(j)' \/ (CallFits(send'[j]) /\ send'[j].cause = j)
  <2>1. /\ j \in Senders /\ DOMAIN send = Senders
        /\ (Empty(j) \/ (CallFits(send[j]) /\ send[j].cause = j))
    BY <1>1 DEF SendsFit, PagesFit, Senders
  <2>2. ASSUME NEW b \in SUBSET Debtors,
               send' = [send EXCEPT ![j] = [at |-> "check", cause |-> j, batch |-> b]]
        PROVE  CallFits(send'[j]) /\ send'[j].cause = j
    BY <2>1, <2>2 DEF CallFits
  <2> QED  BY <2>1, <2>2, <1>3 DEF Empty
<1>5. SendsFit'
  BY <1>1, <1>4, SendsRest DEF Empty
<1>6. PagesFit' /\ ItemsFit'
  BY <1>1, <1>2, <1>4 DEF PagesFit, Empty, ItemsFit, Senders
<1>7. RunsInv'
  <2>1. \A p \in Pods : send'[p] = send[p]
    BY <1>4, OutreachAssumption DEF Senders
  <2> QED  BY <2>1, <1>1, <1>2, RunsRest DEF RunsInv
<1>8. LinksInv'
  <2>1. \A h \in VoiceHooks : send'[h] = send[h]
    BY <1>4, OutreachAssumption DEF Senders
  <2> QED  BY <2>1, <1>1, <1>2, LinksRest
<1> QED  BY <1>5, <1>6, <1>7, <1>8 DEF OutreachInv

-----------------------------------------------------------------------------
(* The web-hooks about calls.                                              *)

LEMMA RingFrame ==
  ASSUME OutreachInv, NEW h \in VoiceHooks, NEW g, RingFits(g),
         ring' = [ring EXCEPT ![h] = g], RingKnows(h)',
         DOMAIN send' = Senders, \A y \in Senders \ {h} : send'[y] = send[y],
         send'[h] = NoSend \/ CallFits(send'[h]),
         UNCHANGED <<world, ruleVars, items>>,
         \A f \in VoiceHooks \ {h} : ring[f].at = "wait" =>
            VoiceKey(ring[f].of) \in seenKeys' /\ (g.at = "wait" => ring[f].of # g.of),
         \A k \in Calls : LinkKnows(k)'
  PROVE  OutreachInv'
<1>1. ItemsFit /\ SendsFit /\ RunsInv /\ PagesFit /\ LinksInv
  BY DEF OutreachInv
<1>2. /\ pod' = pod /\ runRow' = runRow /\ handed' = handed /\ items' = items /\ owing' = owing
  BY DEF world, ruleVars
<1>3. SendsFit' /\ ItemsFit'
  BY <1>1, <1>2, SendsRest DEF ItemsFit
<1>4. RunsInv'
  <2>1. \A p \in Pods : send'[p] = send[p]
    BY OutreachAssumption DEF Senders
  <2> QED  BY <2>1, <1>1, <1>2, RunsRest DEF RunsInv
<1>5. PagesFit'
  <2>1. \A j \in Campaigns : send'[j] = send[j]
    BY OutreachAssumption DEF Senders
  <2> QED  BY <2>1, <1>1, PagesRest
<1>6. /\ ring'[h] = g /\ DOMAIN ring' = VoiceHooks
      /\ \A f \in VoiceHooks \ {h} : ring'[f] = ring[f] /\ send'[f] = send[f]
  BY <1>1 DEF LinksInv, Senders
<1>7. ASSUME NEW f \in VoiceHooks PROVE RingFits(ring'[f]) /\ RingKnows(f)'
  <2>1. CASE f = h
    BY <2>1, <1>6
  <2>2. CASE f # h
    <3>1. RingFits(ring[f]) /\ RingKnows(f)
      BY <1>1 DEF LinksInv
    <3> QED  BY <3>1, <2>2, <1>2, <1>6, RingSame
  <2> QED  BY <2>1, <2>2
<1>8. OneWaits'
  BY <1>1, <1>6 DEF LinksInv, OneWaits
<1>9. LinksInv'
  BY <1>6, <1>7, <1>8 DEF LinksInv
<1> QED  BY <1>3, <1>4, <1>5, <1>9 DEF OutreachInv

\* A web-hook that waits for nothing before or after its step.
LEMMA RingQuiet ==
  ASSUME OutreachInv, NEW h \in VoiceHooks, NEW g, RingFits(g), g.at # "wait",
         ring[h].at # "wait", ring' = [ring EXCEPT ![h] = g],
         UNCHANGED <<world, ruleVars, items, send, dropped>>,
         \A k \in Calls : VoiceKey(k) \in seenKeys' <=> VoiceKey(k) \in seenKeys
  PROVE  OutreachInv'
<1>1. SendsFit /\ LinksInv
  BY DEF OutreachInv
<1>2. /\ ring'[h] = g /\ \A f \in VoiceHooks \ {h} : ring'[f] = ring[f]
      /\ send' = send /\ items' = items /\ dropped' = dropped
  BY <1>1 DEF LinksInv
<1>3. send[h] = NoSend
  BY <1>1 DEF LinksInv, RingKnows, Empty
<1>4. RingKnows(h)'
  BY <1>2, <1>3 DEF RingKnows, Empty
<1>5. ASSUME NEW k \in Calls PROVE LinkKnows(k)'
  <2>1. LinkKnows(k)
    BY <1>1 DEF LinksInv
  <2>2. \A f \in VoiceHooks : Waits(f, k) => Waits(f, k)'
    BY <1>2 DEF Waits
  <2>3. VoiceKey(k) \in seenKeys' <=> VoiceKey(k) \in seenKeys
    OBVIOUS
  <2> QED  BY <2>1, <2>2, <2>3, <1>2, LinkSame
<1>6. /\ DOMAIN send' = Senders /\ \A y \in Senders \ {h} : send'[y] = send[y]
      /\ send'[h] = NoSend
  BY <1>1, <1>2, <1>3 DEF SendsFit
<1>7. \A f \in VoiceHooks \ {h} : ring[f].at = "wait" =>
         VoiceKey(ring[f].of) \in seenKeys' /\ (g.at = "wait" => ring[f].of # g.of)
  BY <1>1 DEF LinksInv, RingKnows, RingFits
<1> QED  BY <1>4, <1>5, <1>6, <1>7, RingFrame

LEMMA FindStep ==
  ASSUME OutreachInv, NEW h \in VoiceHooks, VoiceFind(h) \/ ReportFind(h)
  PROVE  OutreachInv'
<1>1. ring[h].at # "wait"
  BY DEF VoiceFind, ReportFind, NoRing
<1>2. UNCHANGED <<world, ruleVars, items, send, dropped>>
  BY DEF VoiceFind, ReportFind, recordVars
<1>3. CASE VoiceFind(h)
  <2>1. PICK k \in Calls : ring' = [ring EXCEPT ![h] = [at |-> "ask", of |-> k]]
    BY <1>3 DEF VoiceFind
  <2>2. PICK g : g = [at |-> "ask", of |-> k]
    OBVIOUS
  <2>3. RingFits(g) /\ g.at # "wait"
    BY <2>2 DEF RingFits
  <2>4. seenKeys' = seenKeys
    BY <1>3 DEF VoiceFind
  <2> QED  BY <2>1, <2>2, <2>3, <2>4, <1>1, <1>2, RingQuiet
<1>4. CASE ReportFind(h)
  <2>1. PICK k \in Calls, report \in Reports :
           /\ seenKeys' = seenKeys \cup {<<k, report>>}
           /\ ring' = [ring EXCEPT ![h] = [at |-> "item", of |-> k, report |-> report]]
    BY <1>4 DEF ReportFind
  <2>2. PICK g : g = [at |-> "item", of |-> k, report |-> report]
    OBVIOUS
  <2>3. RingFits(g) /\ g.at # "wait"
    BY <2>2 DEF RingFits
  <2>4. \A c \in Calls : VoiceKey(c) \in seenKeys' <=> VoiceKey(c) \in seenKeys
    BY <2>1 DEF VoiceKey, Reports
  <2> QED  BY <2>1, <2>2, <2>3, <2>4, <1>1, <1>2, RingQuiet
<1> QED  BY <1>3, <1>4

LEMMA ReportStep ==
  ASSUME OutreachInv, NEW h \in VoiceHooks, ReportItem(h) \/ ReportTalk(h)
  PROVE  OutreachInv'
<1>1. ring[h].at # "wait"
  BY DEF ReportItem, ReportTalk
<1>2. UNCHANGED <<world, ruleVars, items, send, dropped>> /\ seenKeys' = seenKeys
  BY DEF ReportItem, ReportTalk, recordVars
<1>3. LinksInv /\ RingFits(ring[h])
  BY DEF OutreachInv, LinksInv
<1>4. PICK g : g = IF ReportItem(h) THEN [ring[h] EXCEPT !.at = "talk"] ELSE NoRing
  OBVIOUS
<1>5. ring' = [ring EXCEPT ![h] = g]
  BY <1>4, <1>3 DEF ReportItem, ReportTalk
<1>6. RingFits(g) /\ g.at # "wait"
  BY <1>3, <1>4 DEF RingFits, ReportItem, NoRing
<1> QED  BY <1>1, <1>2, <1>5, <1>6, RingQuiet

LEMMA EventStep ==
  ASSUME OutreachInv, NEW h \in VoiceHooks, VoiceEvent(h)
  PROVE  OutreachInv'
<1>1. SendsFit /\ LinksInv /\ RingFits(ring[h]) /\ ring[h].at = "ask"
  BY DEF OutreachInv, LinksInv, VoiceEvent
<1>2. UNCHANGED <<world, ruleVars, items, dropped>> /\ items' = items /\ dropped' = dropped
  BY DEF VoiceEvent, recordVars
<1>3. PICK k : k = ring[h].of
  OBVIOUS
<1>4. k \in Calls /\ LinkKnows(k)
  BY <1>1, <1>3 DEF LinksInv, RingFits
<1>5. CASE VoiceKey(k) \in seenKeys
  <2>1. UNCHANGED <<seenKeys, send>> /\ ring' = [ring EXCEPT ![h] = NoRing]
    BY <1>5, <1>3 DEF VoiceEvent
  <2>2. RingFits(NoRing) /\ NoRing.at # "wait"
    BY DEF RingFits, NoRing
  <2> QED  BY <2>1, <2>2, <1>1, <1>2, RingQuiet
<1>6. CASE VoiceKey(k) \notin seenKeys
  <2>1. /\ seenKeys' = seenKeys \cup {VoiceKey(k)}
        /\ ring' = [ring EXCEPT ![h].at = "wait"]
        /\ send' = [send EXCEPT ![h] = [at |-> "check", cause |-> k, batch |-> {k[2]}]]
    BY <1>6, <1>3 DEF VoiceEvent, Call
  <2>2. PICK g : g = [ring[h] EXCEPT !.at = "wait"]
    OBVIOUS
  <2>3. RingFits(g) /\ g.at = "wait" /\ g.of = k
    BY <1>1, <1>3, <1>4, <2>2 DEF RingFits
  <2>4. /\ ring' = [ring EXCEPT ![h] = g] /\ ring'[h] = g
        /\ \A f \in VoiceHooks \ {h} : ring'[f] = ring[f]
    BY <1>1, <2>1, <2>2 DEF LinksInv
  <2>5. /\ send'[h] = [at |-> "check", cause |-> k, batch |-> {k[2]}]
        /\ DOMAIN send' = Senders /\ \A y \in Senders \ {h} : send'[y] = send[y]
    BY <1>1, <2>1 DEF SendsFit, Senders
  <2>6. CallFits(send'[h]) /\ send'[h] # NoSend
    BY <1>4, <2>5 DEF CallFits, Calls, NoSend
  <2>7. items[k][k[2]] = 0
    BY <1>4, <1>6 DEF LinkKnows
  <2>8. RingKnows(h)'
    <3>1. /\ ring'[h].at = "wait" /\ ring'[h].of = k /\ send'[h] # NoSend
          /\ send'[h].at = "check" /\ send'[h].cause = k /\ send'[h].batch = {k[2]}
      BY <2>3, <2>4, <2>5, <2>6
    <3>2. /\ <<k, "link">> \in seenKeys' /\ items'[k][k[2]] = 0
      BY <1>2, <2>1, <2>7 DEF VoiceKey
    <3> QED  BY <3>1, <3>2 DEF RingKnows, Empty, VoiceKey
  <2>9. \A f \in VoiceHooks \ {h} : ring[f].at = "wait" =>
           VoiceKey(ring[f].of) \in seenKeys' /\ (g.at = "wait" => ring[f].of # g.of)
    BY <1>1, <1>6, <2>1, <2>3 DEF LinksInv, RingKnows
  <2>10. ASSUME NEW c \in Calls PROVE LinkKnows(c)'
    <3>1. CASE c = k
      <4>1. <<k, "link">> \in seenKeys' /\ items'[k][k[2]] = 0
        BY <1>2, <2>1, <2>7 DEF VoiceKey
      <4>2. ring'[h].at = "wait" /\ ring'[h].of = k
        BY <2>3, <2>4
      <4> QED  BY <3>1, <4>1, <4>2 DEF LinkKnows, Waits, VoiceKey
    <3>2. CASE c # k
      <4>1. LinkKnows(c)
        BY <1>1 DEF LinksInv
      <4>2. \A f \in VoiceHooks : Waits(f, c) => Waits(f, c)'
        BY <1>1, <2>4 DEF Waits
      <4>3. VoiceKey(c) \in seenKeys' <=> VoiceKey(c) \in seenKeys
        BY <3>2, <2>1 DEF VoiceKey
      <4> QED  BY <4>1, <4>2, <4>3, <1>2, LinkSame
    <3> QED  BY <3>1, <3>2
  <2> QED  BY <2>3, <2>4, <2>5, <2>6, <2>8, <2>9, <2>10, <1>2, RingFrame
<1> QED  BY <1>5, <1>6

\* A web-hook that stops waiting, or dies anywhere.
LEMMA EndStep ==
  ASSUME OutreachInv, NEW h \in VoiceHooks, VoiceAnswered(h) \/ RingDies(h)
  PROVE  OutreachInv'
<1>1. SendsFit /\ LinksInv /\ RingFits(ring[h]) /\ RingKnows(h)
  BY DEF OutreachInv, LinksInv
<1>2. /\ UNCHANGED <<world, ruleVars, items>> /\ items' = items
      /\ ring' = [ring EXCEPT ![h] = NoRing] /\ send' = [send EXCEPT ![h] = NoSend]
  BY DEF VoiceAnswered, RingDies, recordVars
<1>3. PICK k : k = ring[h].of
  OBVIOUS
<1>4. /\ RingFits(NoRing) /\ NoRing.at # "wait"
      /\ ring'[h] = NoRing /\ \A f \in VoiceHooks \ {h} : ring'[f] = ring[f]
      /\ DOMAIN send' = Senders /\ send'[h] = NoSend
      /\ \A y \in Senders \ {h} : send'[y] = send[y]
  BY <1>1, <1>2 DEF RingFits, NoRing, LinksInv, SendsFit, Senders
<1>5. RingKnows(h)'
  BY <1>4 DEF RingKnows, Empty
<1>6. /\ k \in Calls
      /\ VoiceAnswered(h) => ring[h].at = "wait" /\ dropped' = dropped
      /\ RingDies(h) => dropped' = dropped \cup {k} /\ seenKeys' = seenKeys
      /\ \A c \in Calls \ {k} : VoiceKey(c) \in seenKeys' <=> VoiceKey(c) \in seenKeys
      /\ VoiceKey(k) \in seenKeys' => VoiceKey(k) \in seenKeys
  BY <1>1, <1>3 DEF VoiceAnswered, RingDies, RingFits, VoiceKey
<1>7. \A f \in VoiceHooks \ {h} : ring[f].at = "wait" =>
         /\ VoiceKey(ring[f].of) \in seenKeys'
         /\ (NoRing.at = "wait" => ring[f].of # NoRing.of)
  <2>1. ASSUME NEW f \in VoiceHooks, f # h, ring[f].at = "wait"
        PROVE  VoiceKey(ring[f].of) \in seenKeys'
    <3>1. ring[f].of \in Calls /\ VoiceKey(ring[f].of) \in seenKeys
      BY <2>1, <1>1 DEF LinksInv, RingFits, RingKnows
    <3>2. CASE RingDies(h)
      BY <3>1, <3>2, <1>6
    <3>3. CASE VoiceAnswered(h)
      <4>1. ring[f].of # k
        BY <2>1, <3>3, <1>1, <1>3, <1>6 DEF LinksInv, OneWaits
      <4> QED  BY <4>1, <3>1, <1>6
    <3> QED  BY <3>2, <3>3
  <2> QED  BY <2>1, <1>4
<1>8. ASSUME NEW c \in Calls PROVE LinkKnows(c)'
  <2>1. LinkKnows(c)
    BY <1>1 DEF LinksInv
  <2>2. CASE c # k
    <3>1. \A f \in VoiceHooks : Waits(f, c) => Waits(f, c)'
      BY <2>2, <1>3, <1>4 DEF Waits
    <3>2. c \notin dropped' => c \notin dropped
      BY <1>6
    <3> QED  BY <2>1, <2>2, <3>1, <3>2, <1>2, <1>6, LinkSame
  <2>3. CASE c = k /\ RingDies(h)
    BY <2>1, <2>3, <1>2, <1>6 DEF LinkKnows, VoiceKey
  <2>4. CASE c = k /\ VoiceAnswered(h)
    <3>1. items[c][c[2]] = IF send[h].at = "ok" THEN 1 ELSE 0
      BY <2>4, <1>1, <1>3, <1>6 DEF RingKnows
    <3>2. VoiceKey(c) \in seenKeys' <=> send[h].at = "ok"
      BY <2>4, <1>1, <1>3, <1>6 DEF VoiceAnswered, RingKnows
    <3> QED  BY <3>1, <3>2, <1>2 DEF LinkKnows, VoiceKey
  <2> QED  BY <2>2, <2>3, <2>4
<1> QED  BY <1>2, <1>4, <1>5, <1>7, <1>8, RingFrame

LEMMA RingStepHolds ==
  ASSUME OutreachInv, NEW h \in VoiceHooks, RingStep(h)
  PROVE  OutreachInv'
BY FindStep, ReportStep, EventStep, EndStep DEF RingStep

-----------------------------------------------------------------------------
\* What was there at the start may include runs of rules that are completed.
LEMMA OutreachStarts ==
  ASSUME NEW m, NEW ran \in SUBSET RunKeys, OutreachFrom(m, ran)
  PROVE  OutreachInv
<1>1. PICK reached : reached = Debtors \cap WithPhone
  OBVIOUS
<1>2. /\ owing = Debtors /\ pod = [p \in Pods |-> PodIdle]
      /\ runRow = [k \in RunKeys |-> IF k \notin ran THEN NoRun
            ELSE [status |-> RunStatus(Cardinality(reached), Cardinality(Debtors \ reached)),
                  matched |-> Cardinality(Debtors), sent |-> Cardinality(reached),
                  failed |-> Cardinality(Debtors \ reached)]]
      /\ ring = [h \in VoiceHooks |-> NoRing]
      /\ send = [x \in Senders |-> NoSend] /\ seenKeys = {}
      /\ handed = [k \in RunKeys |-> [d \in Debtors |-> IF k \in ran /\ d \in reached THEN 1 ELSE 0]]
      /\ items = [k \in Causes |-> [d \in Debtors |-> IF k \in ran /\ d \in reached THEN 1 ELSE 0]]
  BY <1>1 DEF OutreachFrom
<1>3. ItemsFit /\ SendsFit /\ PagesFit
  BY <1>2 DEF ItemsFit, SendsFit, PagesFit, Empty, Senders
<1>4. RunsInv
  <2>1. \A p \in Pods : PodFits(pod[p]) /\ PodKnows(p)
    BY <1>2 DEF PodFits, PodKnows, PodIdle, Working, Empty, Senders
  <2>2. Apart
    BY <1>2 DEF Apart, PodIdle, Working
  <2>3. ASSUME NEW k \in RunKeys PROVE RunKnows(k)
    <3>1. CASE k \notin ran
      BY <1>2, <3>1 DEF RunKnows, NoRun, Untouched, Causes
    <3>2. CASE k \in ran
      <4>1. /\ runRow[k].sent = Cardinality(reached)
            /\ runRow[k].failed = Cardinality(Debtors \ reached)
            /\ runRow[k].matched = Cardinality(Debtors)
            /\ runRow[k] # NoRun /\ handed[k] \in [Debtors -> {0, 1}]
        BY <1>2, <3>2 DEF NoRun
      <4>2. Recorded(k) = reached
        BY <1>1, <1>2, <3>2 DEF Recorded, Causes
      <4>3. Cardinality(Debtors) = Cardinality(reached) + Cardinality(Debtors \ reached)
        BY <1>1, SizeSplits, OutreachAssumption
      <4> QED  BY <4>1, <4>2, <4>3 DEF RunKnows
    <3> QED  BY <3>1, <3>2
  <2> QED  BY <2>1, <2>2, <2>3, <1>2 DEF RunsInv
<1>5. LinksInv
  <2>1. \A h \in VoiceHooks : RingFits(ring[h]) /\ RingKnows(h)
    BY <1>2 DEF RingFits, RingKnows, NoRing, Empty, Senders
  <2>2. ASSUME NEW k \in Calls PROVE LinkKnows(k)
    <3>1. k \notin ran /\ k \in Causes /\ k[2] \in Debtors
      BY OutreachAssumption DEF Causes, Calls
    <3> QED  BY <1>2, <3>1 DEF LinkKnows
  <2> QED  BY <2>1, <2>2, <1>2 DEF LinksInv, OneWaits, NoRing
<1> QED  BY <1>3, <1>4, <1>5 DEF OutreachInv

LEMMA SendStepHolds ==
  ASSUME OutreachInv, NEW x \in Senders, SendStep(x)
  PROVE  OutreachInv'
<1>1. CASE SendRecord(x)
  BY <1>1, RecordStep
<1>2. CASE SendCheck(x) \/ SendPost(x) \/ SendBreaks(x)
  <2>1. PICK a \in {"post", "record", "failed"} : send' = [send EXCEPT ![x].at = a]
    BY <1>2 DEF SendCheck, SendPost, SendBreaks
  <2>2. send[x].at \in {"check", "post", "record"}
    BY <1>2 DEF SendCheck, SendPost, SendBreaks
  <2>3. UNCHANGED <<world, ruleVars, ringVars, items, seenKeys>>
    BY <1>2 DEF SendCheck, SendPost, SendBreaks, recordVars
  <2> QED  BY <2>1, <2>2, <2>3, CallMoves
<1> QED  BY <1>1, <1>2 DEF SendStep

LEMMA OutreachSteps ==
  ASSUME OutreachInv, [OutreachNext]_outreachVars
  PROVE  OutreachInv'
<1>1. CASE UNCHANGED outreachVars
  BY <1>1, StillStep DEF outreachVars, ruleVars, ringVars, OutreachInv, RunsInv
<1>2. CASE Minute \/ UpsertAgent \/ \E d \in Debtors : Cleared(d)
  <2>1. owing' \subseteq Debtors
    BY <1>2 DEF Minute, UpsertAgent, Cleared, OutreachInv, RunsInv
  <2>2. UNCHANGED <<ruleVars, ringVars, items, send, seenKeys>>
    BY <1>2 DEF Minute, UpsertAgent, Cleared, recordVars
  <2> QED  BY <2>1, <2>2, StillStep
<1>3. CASE \E x \in Senders : SendStep(x)
  BY <1>3, SendStepHolds
<1>4. CASE \E p \in Pods : PodStep(p)
  BY <1>4, PodStepHolds
<1>5. CASE \E j \in Campaigns : CampaignStep(j)
  BY <1>5, CampaignStepHolds
<1>6. CASE \E h \in VoiceHooks : RingStep(h)
  BY <1>6, RingStepHolds
<1> QED  BY <1>1, <1>2, <1>3, <1>4, <1>5, <1>6 DEF OutreachNext

LEMMA OutreachHolds == OutreachSpec => []OutreachInv
<1>1. OutreachInit => OutreachInv
  BY OutreachStarts DEF OutreachInit
<1>2. OutreachInv /\ [OutreachNext]_outreachVars => OutreachInv'
  BY OutreachSteps
<1> QED  BY <1>1, <1>2, PTL DEF OutreachSpec

\* A rule hands a contract to the provider at most once for one due minute,
\* whichever of the processes fire at it or die at it.  A contract that a run
\* has still to hand over was not handed over, a process is at a run only while
\* its row is RUNNING, and no two are at the same one.
THEOREM RulesRunOnce == OutreachSpec => []RuleRunsOnce
<1>1. OutreachInv => RuleRunsOnce
  BY DEF OutreachInv, RunsInv, RunKnows, RuleRunsOnce
<1> QED  BY <1>1, OutreachHolds, PTL

\* The counts of a finished run are those of the items it recorded, and add up
\* to what it matched.  What is recorded, what is counted and what is left of a
\* run are parts of what it matched at each of its steps, and a batch that
\* failed recorded nothing.
THEOREM CountsAreRecorded == OutreachSpec => []SentIsRecorded
<1>1. OutreachInv => SentIsRecorded
  BY DEF OutreachInv, RunsInv, RunKnows, Recorded, SentIsRecorded
<1> QED  BY <1>1, OutreachHolds, PTL

\* A request for a payment link records one message, however often it is
\* delivered, and has recorded it once it is acknowledged and nobody works on
\* it, unless a web-hook died on it.  The row of its event is there as long as a
\* web-hook waits, for which it is the only one.
THEOREM LinksAreSentOnce == OutreachSpec => []VoiceLinkOnce
<1>1. OutreachInv => VoiceLinkOnce
  BY DEF OutreachInv, LinksInv, LinkKnows, Waits, VoiceLinkOnce
<1> QED  BY <1>1, OutreachHolds, PTL

-----------------------------------------------------------------------------
(* What the rows may hold.                                                 *)

LEMMA RowReplaced ==
  ASSUME NEW Keys, NEW Values, NEW f \in [Keys -> Values], NEW k, NEW row,
         k \in Keys => row \in Values
  PROVE  [f EXCEPT ![k] = row] \in [Keys -> Values]
OBVIOUS

\* The requests for d that are on their way: each has a link of its own.
Posting(d) == {x \in Senders : /\ send[x].at = "post" /\ ~IsCall(send[x].cause)
                              /\ d \in send[x].batch}
LinksHeld == /\ links \in [Debtors -> Nat]
             /\ \A d \in Debtors : links[d] >= Cardinality(Posting(d))

Clocks == /\ minute \in 1 .. LastMinute /\ agent \in BOOLEAN
          /\ breaks \in 0 .. MaxBreaks /\ rings \in 0 .. MaxRings
RunStatuses == {"NONE", "RUNNING", "COMPLETED", "COMPLETED_WITH_ERRORS", "FAILED"}
RunRows == \A k \in RunKeys : runRow[k].status \in RunStatuses
CallStatuses == {"NONE", "PENDING", "IN_PROGRESS", "COMPLETED", "FAILED"}
TalkStatuses == {"NONE", "QUEUED", "SENT", "ANSWERED", "NO_ANSWER"}
CallRows == callStatus \in [Calls -> CallStatuses] /\ callTalk \in [Calls -> TalkStatuses]
OutreachTyped == OutreachInv /\ Clocks /\ RunRows /\ CallRows /\ LinksHeld

LEMMA SendersAreFinite ==
  ASSUME NEW S, S \subseteq Senders
  PROVE  IsFiniteSet(S) /\ Cardinality(S) \in Nat
<1>1. IsFiniteSet(Pods \cup Campaigns)
  BY OutreachAssumption, FS_Union
<1>2. IsFiniteSet(Senders)
  BY <1>1, OutreachAssumption, FS_Union DEF Senders
<1> QED  BY <1>2, FS_Subset, FS_CardinalityType

\* The clock, the agent and the bounds.
LEMMA ClocksMove ==
  ASSUME OutreachTyped, OutreachNext
  PROVE  Clocks'
<1>1. Clocks /\ LastMinute \in Nat /\ MaxBreaks \in Nat /\ MaxRings \in Nat
  BY OutreachAssumption DEF OutreachTyped
<1>2. ASSUME UNCHANGED <<minute, agent>>, breaks' = breaks \/ Break,
             rings' = rings \/ (rings < MaxRings /\ rings' = rings + 1)
      PROVE  Clocks'
  BY <1>1, <1>2 DEF Clocks, Break
<1>3. CASE Minute \/ UpsertAgent
  BY <1>1, <1>3 DEF Minute, UpsertAgent, Clocks, ringVars
<1>4. CASE \E d \in Debtors : Cleared(d)
  BY <1>2, <1>4 DEF Cleared, ringVars
<1>5. ASSUME NEW x \in Senders, SendStep(x) PROVE Clocks'
  BY <1>2, <1>5 DEF SendStep, SendCheck, SendPost, SendRecord, SendBreaks, ringVars, world
<1>6. ASSUME NEW p \in Pods, PodStep(p) PROVE Clocks'
  BY <1>2, <1>6 DEF PodStep, PodTick, RunCreate, RunSelect, RunBatch, BatchAnswered, RunMail,
     RunClose, RunFails, PodDies, ringVars, world
<1>7. ASSUME NEW j \in Campaigns, CampaignStep(j) PROVE Clocks'
  BY <1>2, <1>7 DEF CampaignStep, CampaignQueue, CampaignPage, CampaignAnswered, ringVars, world
<1>8. ASSUME NEW h \in VoiceHooks, RingStep(h) PROVE Clocks'
  BY <1>2, <1>8 DEF RingStep, VoiceFind, VoiceEvent, VoiceAnswered, ReportFind, ReportItem,
     ReportTalk, RingDies, world
<1> QED  BY <1>3, <1>4, <1>5, <1>6, <1>7, <1>8 DEF OutreachNext

\* The row of a run is written when it begins and when it ends.
LEMMA RunRowsMove ==
  ASSUME OutreachTyped, OutreachNext
  PROVE  RunRows'
<1>1. RunRows /\ DOMAIN runRow = RunKeys
  BY DEF OutreachTyped, OutreachInv, RunsInv
<1>2. ASSUME NEW k, NEW row, runRow' = [runRow EXCEPT ![k] = row], row.status \in RunStatuses
      PROVE  RunRows'
  BY <1>1, <1>2 DEF RunRows
<1>3. ASSUME runRow' = runRow PROVE RunRows'
  BY <1>1, <1>3 DEF RunRows
<1>4. ASSUME NEW p \in Pods, RunCreate(p) PROVE RunRows'
  <2>1. PICK row : row = [status |-> "RUNNING"]
    OBVIOUS
  <2>2. runRow' = runRow \/ \E k : runRow' = [runRow EXCEPT ![k] = row]
    BY <1>4, <2>1 DEF RunCreate
  <2>3. row.status \in RunStatuses
    BY <2>1 DEF RunStatuses
  <2> QED  BY <1>2, <1>3, <2>2, <2>3
<1>5. ASSUME NEW p \in Pods, RunClose(p) PROVE RunRows'
  <2>1. PICK s : s = RunStatus(pod[p].sent, pod[p].failed) /\ s \in RunStatuses
    BY DEF RunStatus, RunStatuses
  <2>2. PICK row : row = [status |-> s, matched |-> pod[p].matched,
                          sent |-> pod[p].sent, failed |-> pod[p].failed]
    OBVIOUS
  <2>3. runRow' = [runRow EXCEPT ![Run(p)] = row]
    BY <1>5, <2>1, <2>2 DEF RunClose
  <2>4. row.status \in RunStatuses
    BY <2>1, <2>2
  <2> QED  BY <1>2, <2>3, <2>4
<1>6. ASSUME NEW p \in Pods, RunFails(p) PROVE RunRows'
  <2>1. PICK row : row = [status |-> "FAILED"]
    OBVIOUS
  <2>2. runRow' = [runRow EXCEPT ![Run(p)] = row]
    BY <1>6, <2>1 DEF RunFails
  <2>3. row.status \in RunStatuses
    BY <2>1 DEF RunStatuses
  <2> QED  BY <1>2, <2>2, <2>3
<1>7. ASSUME NEW p \in Pods, PodStep(p) PROVE RunRows'
  BY <1>3, <1>4, <1>5, <1>6, <1>7 DEF PodStep, PodTick, RunSelect, RunBatch, BatchAnswered,
     RunMail, PodDies
<1>8. CASE Minute \/ UpsertAgent \/ \E d \in Debtors : Cleared(d)
  BY <1>3, <1>8 DEF Minute, UpsertAgent, Cleared, ruleVars
<1>9. ASSUME NEW x \in Senders, SendStep(x) PROVE RunRows'
  BY <1>3, <1>9 DEF SendStep, SendCheck, SendPost, SendRecord, SendBreaks, ruleVars
<1>10. ASSUME NEW j \in Campaigns, CampaignStep(j) PROVE RunRows'
  BY <1>3, <1>10 DEF CampaignStep, CampaignQueue, CampaignPage, CampaignAnswered, ruleVars
<1>11. ASSUME NEW h \in VoiceHooks, RingStep(h) PROVE RunRows'
  BY <1>3, <1>11 DEF RingStep, VoiceFind, VoiceEvent, VoiceAnswered, ReportFind, ReportItem,
     ReportTalk, RingDies, ruleVars
<1> QED  BY <1>7, <1>8, <1>9, <1>10, <1>11 DEF OutreachNext

\* A call's rows are written when it is dialled and when it is reported on.
LEMMA CallRowsMove ==
  ASSUME OutreachTyped, OutreachNext
  PROVE  CallRows'
<1>1. CallRows
  BY DEF OutreachTyped
<1>2. ASSUME callStatus' = callStatus, callTalk' = callTalk PROVE CallRows'
  BY <1>1, <1>2 DEF CallRows
<1>3. ASSUME NEW x \in Senders, SendRecord(x) PROVE CallRows'
  <2>1. callStatus' \in [Calls -> CallStatuses]
    BY <1>1, <1>3 DEF SendRecord, CallRows, CallStatuses
  <2>2. callTalk' \in [Calls -> TalkStatuses]
    BY <1>1, <1>3 DEF SendRecord, CallRows, TalkStatuses
  <2> QED  BY <2>1, <2>2 DEF CallRows
<1>4. ASSUME NEW h \in VoiceHooks, ReportItem(h) PROVE CallRows'
  <2>1. PICK s : s = ItemOf(ring[h].report) /\ s \in CallStatuses
    BY DEF ItemOf, CallStatuses
  <2>2. callStatus' = [callStatus EXCEPT ![ring[h].of] = s] /\ callTalk' = callTalk
    BY <1>4, <2>1 DEF ReportItem
  <2> QED  BY <1>1, <2>1, <2>2, RowReplaced DEF CallRows
<1>5. ASSUME NEW h \in VoiceHooks, ReportTalk(h) PROVE CallRows'
  <2>1. PICK s : s = TalkOf(ring[h].report) /\ s \in TalkStatuses
    BY DEF TalkOf, TalkStatuses
  <2>2. callTalk' = [callTalk EXCEPT ![ring[h].of] = s] /\ callStatus' = callStatus
    BY <1>5, <2>1 DEF ReportTalk
  <2> QED  BY <1>1, <2>1, <2>2, RowReplaced DEF CallRows
<1>6. ASSUME NEW h \in VoiceHooks, RingStep(h) PROVE CallRows'
  BY <1>2, <1>4, <1>5, <1>6 DEF RingStep, VoiceFind, VoiceEvent, VoiceAnswered, ReportFind,
     RingDies, recordVars
<1>7. CASE Minute \/ UpsertAgent \/ \E d \in Debtors : Cleared(d)
  BY <1>2, <1>7 DEF Minute, UpsertAgent, Cleared, recordVars
<1>8. ASSUME NEW x \in Senders, SendStep(x) PROVE CallRows'
  BY <1>2, <1>3, <1>8 DEF SendStep, SendCheck, SendPost, SendBreaks, recordVars
<1>9. ASSUME NEW j \in Campaigns, CampaignStep(j) PROVE CallRows'
  BY <1>2, <1>9 DEF CampaignStep, CampaignQueue, CampaignPage, CampaignAnswered, recordVars
<1>10. ASSUME NEW p \in Pods, PodStep(p) PROVE CallRows'
  BY <1>2, <1>10 DEF PodStep, PodTick, RunCreate, RunSelect, RunBatch, BatchAnswered, RunMail,
     RunClose, RunFails, PodDies, recordVars
<1> QED  BY <1>6, <1>7, <1>8, <1>9, <1>10 DEF OutreachNext

\* A step that posts nothing and touches no link leaves enough of them.
LEMMA LinksRemain ==
  ASSUME OutreachTyped, links' = links, DOMAIN send' = Senders, NEW x \in Senders,
         \A y \in Senders \ {x} : send'[y] = send[y],
         send'[x] = send[x] \/ send'[x].at # "post"
  PROVE  LinksHeld'
<1>1. LinksHeld
  BY DEF OutreachTyped
<1>2. ASSUME NEW d \in Debtors PROVE links[d] >= Cardinality(Posting(d)')
  <2>1. PICK A : A = Posting(d)
    OBVIOUS
  <2>2. PICK B : B = Posting(d)'
    OBVIOUS
  <2>3. B \subseteq A /\ A \subseteq Senders
    BY <2>1, <2>2 DEF Posting
  <2>4. IsFiniteSet(A) /\ Cardinality(A) \in Nat /\ Cardinality(B) \in Nat
    BY <2>3, SendersAreFinite
  <2>5. Cardinality(B) <= Cardinality(A)
    BY <2>3, <2>4, FS_Subset
  <2>6. links[d] \in Nat /\ links[d] >= Cardinality(A)
    BY <1>1, <2>1 DEF LinksHeld
  <2> QED  BY <2>2, <2>4, <2>5, <2>6
<1> QED  BY <1>1, <1>2 DEF LinksHeld

\* An SMS gives each of its contracts a link ...
LEMMA LinksGiven ==
  ASSUME OutreachTyped, NEW x \in Senders, SendCheck(x)
  PROVE  LinksHeld'
<1>1. LinksHeld /\ CallFits(send[x]) /\ DOMAIN send = Senders
  BY DEF OutreachTyped, OutreachInv, SendsFit, SendCheck, Empty, NoSend
<1>2. PICK a : send' = [send EXCEPT ![x].at = a]
               /\ links' = [d \in Debtors |-> links[d] + IF a = "post" /\ ~IsCall(send[x].cause)
                                                            /\ d \in send[x].batch THEN 1 ELSE 0]
  <2>1. PICK sound : sound = (/\ send[x].batch \subseteq owing \cap WithPhone
                              /\ IsCall(send[x].cause) => agent)
    OBVIOUS
  <2>2. PICK a : a = IF sound THEN "post" ELSE "failed"
    OBVIOUS
  <2>3. send' = [send EXCEPT ![x].at = a] /\ (sound <=> a = "post")
    BY <2>1, <2>2 DEF SendCheck
  <2>4. links' = [d \in Debtors |-> links[d] + IF sound /\ ~IsCall(send[x].cause)
                                                  /\ d \in send[x].batch THEN 1 ELSE 0]
    BY <2>1 DEF SendCheck
  <2> QED  BY <2>3, <2>4
<1>3. ASSUME NEW d \in Debtors PROVE links'[d] \in Nat /\ links'[d] >= Cardinality(Posting(d)')
  <2>1. PICK A : A = Posting(d)
    OBVIOUS
  <2>2. PICK B : B = Posting(d)'
    OBVIOUS
  <2>3. A \subseteq Senders /\ IsFiniteSet(A) /\ Cardinality(A) \in Nat
    BY <2>1, SendersAreFinite DEF Posting
  <2>4. links[d] \in Nat /\ links[d] >= Cardinality(A)
    BY <1>1, <2>1 DEF LinksHeld
  <2>5. CASE a = "post" /\ ~IsCall(send[x].cause) /\ d \in send[x].batch
    <3>1. B \subseteq A \cup {x} /\ B \subseteq Senders
      BY <1>1, <1>2, <2>1, <2>2 DEF Posting
    <3>2. IsFiniteSet(A \cup {x}) /\ Cardinality(A \cup {x}) \in Nat
          /\ Cardinality(A \cup {x}) <= Cardinality(A) + 1
      <4>1. /\ IsFiniteSet(A \cup {x})
            /\ Cardinality(A \cup {x}) = IF x \in A THEN Cardinality(A) ELSE Cardinality(A) + 1
        BY <2>3, FS_AddElement
      <4> QED  BY <2>3, <4>1
    <3>3. Cardinality(B) <= Cardinality(A \cup {x}) /\ Cardinality(B) \in Nat
      BY <3>1, <3>2, FS_Subset, SendersAreFinite
    <3>4. links'[d] = links[d] + 1
      BY <1>2, <2>5
    <3> QED  BY <2>2, <2>3, <2>4, <3>2, <3>3, <3>4
  <2>6. CASE ~(a = "post" /\ ~IsCall(send[x].cause) /\ d \in send[x].batch)
    <3>1. B \subseteq A
      BY <1>1, <1>2, <2>1, <2>2, <2>6 DEF Posting, IsCall
    <3>2. Cardinality(B) <= Cardinality(A) /\ Cardinality(B) \in Nat
      BY <2>3, <3>1, FS_Subset, SendersAreFinite
    <3>3. links'[d] = links[d]
      BY <1>2, <2>4, <2>6
    <3> QED  BY <2>2, <2>3, <2>4, <3>2, <3>3
  <2> QED  BY <2>5, <2>6
<1>4. links' \in [Debtors -> Nat]
  BY <1>2, <1>3
<1> QED  BY <1>3, <1>4 DEF LinksHeld

\* ... and takes back those of the requests that failed.
LEMMA LinksTaken ==
  ASSUME OutreachTyped, NEW x \in Senders, SendPost(x)
  PROVE  LinksHeld'
<1>1. LinksHeld /\ CallFits(send[x]) /\ DOMAIN send = Senders /\ send[x].at = "post"
  BY DEF OutreachTyped, OutreachInv, SendsFit, SendPost, Empty, NoSend
<1>2. PICK lost \in SUBSET send[x].batch :
         /\ send' = [send EXCEPT ![x].at = IF lost = {} THEN "record" ELSE "failed"]
         /\ links' = [d \in Debtors |-> links[d] - IF d \in lost /\ ~IsCall(send[x].cause) THEN 1 ELSE 0]
  BY DEF SendPost
<1>3. PICK a : a = IF lost = {} THEN "record" ELSE "failed"
  OBVIOUS
<1>4. send' = [send EXCEPT ![x].at = a] /\ a # "post"
  BY <1>2, <1>3
<1>5. ASSUME NEW d \in Debtors PROVE links'[d] \in Nat /\ links'[d] >= Cardinality(Posting(d)')
  <2>1. PICK A : A = Posting(d)
    OBVIOUS
  <2>2. PICK B : B = Posting(d)'
    OBVIOUS
  <2>3. A \subseteq Senders /\ IsFiniteSet(A) /\ Cardinality(A) \in Nat
    BY <2>1, SendersAreFinite DEF Posting
  <2>4. links[d] \in Nat /\ links[d] >= Cardinality(A)
    BY <1>1, <2>1 DEF LinksHeld
  <2>5. B \subseteq A \ {x}
    BY <1>1, <1>4, <2>1, <2>2 DEF Posting
  <2>6. CASE d \in lost /\ ~IsCall(send[x].cause)
    <3>1. x \in A
      BY <1>1, <1>2, <2>1, <2>6 DEF Posting
    <3>2. IsFiniteSet(A \ {x}) /\ Cardinality(A \ {x}) = Cardinality(A) - 1
      BY <2>3, <3>1, FS_RemoveElement
    <3>3. Cardinality(B) <= Cardinality(A \ {x}) /\ Cardinality(B) \in Nat
      <4>1. B \subseteq Senders
        BY <2>3, <2>5
      <4> QED  BY <2>5, <3>2, <4>1, FS_Subset, SendersAreFinite
    <3>4. links'[d] = links[d] - 1
      BY <1>2, <2>6
    <3> QED  BY <2>2, <2>3, <2>4, <3>2, <3>3, <3>4
  <2>7. CASE ~(d \in lost /\ ~IsCall(send[x].cause))
    <3>1. Cardinality(B) <= Cardinality(A) /\ Cardinality(B) \in Nat
      <4>1. B \subseteq A /\ B \subseteq Senders
        BY <2>3, <2>5
      <4> QED  BY <2>3, <4>1, FS_Subset, SendersAreFinite
    <3>2. links'[d] = links[d]
      BY <1>2, <2>4, <2>7
    <3> QED  BY <2>2, <2>3, <2>4, <3>1, <3>2
  <2> QED  BY <2>6, <2>7
<1>6. links' \in [Debtors -> Nat]
  BY <1>2, <1>5
<1> QED  BY <1>5, <1>6 DEF LinksHeld

LEMMA LinksMove ==
  ASSUME OutreachTyped, OutreachNext
  PROVE  LinksHeld'
<1>1. LinksHeld /\ DOMAIN send = Senders
  BY DEF OutreachTyped, OutreachInv, SendsFit
<1>2. ASSUME links' = links, send' = send PROVE LinksHeld'
  BY <1>1, <1>2 DEF LinksHeld, Posting
<1>3. ASSUME NEW x \in Senders, NEW s, s.at # "post", links' = links,
             send' = [send EXCEPT ![x] = s]
      PROVE  LinksHeld'
  <2>1. /\ DOMAIN send' = Senders /\ \A y \in Senders \ {x} : send'[y] = send[y]
        /\ send'[x].at # "post"
    BY <1>1, <1>3
  <2> QED  BY <1>3, <2>1, LinksRemain
<1>4. NoSend.at # "post"
  BY DEF NoSend
<1>5. ASSUME NEW x \in Senders, NEW cause, NEW b, Call(x, cause, b), links' = links PROVE LinksHeld'
  <2>1. PICK s : s = [at |-> "check", cause |-> cause, batch |-> b]
    OBVIOUS
  <2>2. s.at # "post" /\ send' = [send EXCEPT ![x] = s]
    BY <1>5, <2>1 DEF Call
  <2> QED  BY <1>3, <1>5, <2>2
<1>6. ASSUME NEW x \in Senders, SendRecord(x) \/ SendBreaks(x) PROVE LinksHeld'
  <2>1. PICK a : send' = [send EXCEPT ![x].at = a] /\ a # "post" /\ links' = links
                 /\ send[x].at = "record"
    BY <1>6 DEF SendRecord, SendBreaks
  <2>2. CallFits(send[x])
    BY <2>1 DEF OutreachTyped, OutreachInv, SendsFit, Empty, NoSend
  <2>3. PICK s : s = [send[x] EXCEPT !.at = a]
    OBVIOUS
  <2>4. s.at # "post" /\ send' = [send EXCEPT ![x] = s]
    BY <2>1, <2>2, <2>3 DEF CallFits
  <2> QED  BY <1>3, <2>1, <2>4
<1>7. ASSUME NEW x \in Senders, SendStep(x) PROVE LinksHeld'
  BY <1>6, <1>7, LinksGiven, LinksTaken DEF SendStep
<1>8. CASE Minute \/ UpsertAgent \/ \E d \in Debtors : Cleared(d)
  BY <1>2, <1>8 DEF Minute, UpsertAgent, Cleared
<1>9. ASSUME NEW p \in Pods, PodStep(p) PROVE LinksHeld'
  <2>1. p \in Senders
    BY DEF Senders
  <2>2. links' = links
    BY <1>9 DEF PodStep, PodTick, RunCreate, RunSelect, RunBatch, BatchAnswered, RunMail,
       RunClose, RunFails, PodDies
  <2>3. \/ send' = send \/ send' = [send EXCEPT ![p] = NoSend]
        \/ \E cause, b : Call(p, cause, b)
    <3>1. CASE RunBatch(p)
      BY <3>1 DEF RunBatch
    <3> QED
      BY <1>9, <3>1 DEF PodStep, PodTick, RunCreate, RunSelect, BatchAnswered, RunMail,
         RunClose, RunFails, PodDies
  <2> QED  BY <1>2, <1>3, <1>4, <1>5, <2>1, <2>2, <2>3
<1>10. ASSUME NEW j \in Campaigns, CampaignStep(j) PROVE LinksHeld'
  <2>1. j \in Senders
    BY DEF Senders
  <2>2. links' = links
    BY <1>10 DEF CampaignStep, CampaignQueue, CampaignPage, CampaignAnswered
  <2>3. \/ send' = send \/ send' = [send EXCEPT ![j] = NoSend]
        \/ \E cause, b : Call(j, cause, b)
    <3>1. CASE CampaignPage(j)
      BY <3>1 DEF CampaignPage
    <3> QED
      BY <1>10, <3>1 DEF CampaignStep, CampaignQueue, CampaignAnswered
  <2> QED  BY <1>2, <1>3, <1>4, <1>5, <2>1, <2>2, <2>3
<1>11. ASSUME NEW h \in VoiceHooks, RingStep(h) PROVE LinksHeld'
  <2>1. h \in Senders
    BY DEF Senders
  <2>2. links' = links
    BY <1>11 DEF RingStep, VoiceFind, VoiceEvent, VoiceAnswered, ReportFind, ReportItem,
       ReportTalk, RingDies
  <2>3. \/ send' = send \/ send' = [send EXCEPT ![h] = NoSend]
        \/ \E cause, b : Call(h, cause, b)
    <3>1. CASE VoiceEvent(h)
      BY <3>1 DEF VoiceEvent
    <3> QED
      BY <1>11, <3>1 DEF RingStep, VoiceFind, VoiceAnswered, ReportFind, ReportItem,
         ReportTalk, RingDies
  <2> QED  BY <1>2, <1>3, <1>4, <1>5, <2>1, <2>2, <2>3
<1> QED  BY <1>7, <1>8, <1>9, <1>10, <1>11 DEF OutreachNext

LEMMA OutreachTypedStarts ==
  ASSUME NEW m \in 1 .. LastMinute, NEW ran \in SUBSET RunKeys, OutreachFrom(m, ran)
  PROVE  OutreachTyped
<1>1. OutreachInv
  BY OutreachStarts
<1>2. Clocks
  BY OutreachAssumption DEF OutreachFrom, Clocks
<1>3. RunRows
  <2>1. \A a, b : RunStatus(a, b) \in RunStatuses
    BY DEF RunStatus, RunStatuses
  <2>2. ASSUME NEW k \in RunKeys PROVE runRow[k].status \in RunStatuses
    <3>1. runRow[k] = NoRun \/ \E a, b : runRow[k].status = RunStatus(a, b)
      BY DEF OutreachFrom
    <3>2. NoRun.status \in RunStatuses
      BY DEF NoRun, RunStatuses
    <3> QED  BY <2>1, <3>1, <3>2
  <2> QED  BY <2>2 DEF RunRows
<1>4. CallRows
  BY DEF OutreachFrom, CallRows, CallStatuses, TalkStatuses
<1>5. LinksHeld
  <2>1. send = [x \in Senders |-> NoSend] /\ links = [d \in Debtors |-> 0]
    BY DEF OutreachFrom
  <2>2. \A d \in Debtors : Posting(d) = {}
    BY <2>1 DEF Posting, NoSend
  <2>3. Cardinality({}) = 0
    BY FS_EmptySet
  <2> QED  BY <2>1, <2>2, <2>3 DEF LinksHeld
<1> QED  BY <1>1, <1>2, <1>3, <1>4, <1>5 DEF OutreachTyped

LEMMA OutreachTypedMoves == OutreachTyped /\ [OutreachNext]_outreachVars => OutreachTyped'
<1> SUFFICES ASSUME OutreachTyped, [OutreachNext]_outreachVars PROVE OutreachTyped'
  OBVIOUS
<1>1. OutreachInv'
  BY OutreachSteps DEF OutreachTyped
<1>2. CASE OutreachNext
  BY <1>1, <1>2, ClocksMove, RunRowsMove, CallRowsMove, LinksMove DEF OutreachTyped
<1>3. CASE UNCHANGED outreachVars
  <2>1. Clocks' /\ RunRows' /\ CallRows'
    BY <1>3 DEF outreachVars, OutreachTyped, Clocks, RunRows, CallRows
  <2>2. LinksHeld'
    BY <1>3 DEF outreachVars, OutreachTyped, LinksHeld, Posting
  <2> QED  BY <1>1, <2>1, <2>2 DEF OutreachTyped
<1> QED  BY <1>2, <1>3

LEMMA OutreachFits == OutreachTyped => OutreachTypeOK
<1> SUFFICES ASSUME OutreachTyped PROVE OutreachTypeOK
  OBVIOUS
<1>1. items \in [Causes -> [Debtors -> Nat]]
  BY DEF OutreachTyped, OutreachInv, ItemsFit
<1>2. owing \subseteq Debtors
  BY DEF OutreachTyped, OutreachInv, RunsInv
<1> QED
  BY <1>1, <1>2 DEF OutreachTyped, Clocks, RunRows, RunStatuses, CallRows, CallStatuses,
     TalkStatuses, LinksHeld, OutreachTypeOK

\* Runs, items, calls and their interactions hold statuses their columns have,
\* and no contract's links are taken back more often than they were given:
\* a request that failed deletes its own link, of those on their way.
THEOREM OutreachIsTyped == OutreachSpec => []OutreachTypeOK
<1>1. OutreachInit => OutreachTyped
  BY OutreachTypedStarts, OutreachAssumption DEF OutreachInit
<1> QED  BY <1>1, OutreachTypedMoves, OutreachFits, PTL DEF OutreachSpec

\* A message on its way to a debtor has a payment link that works, one for
\* every campaign and pod that sends to the debtor at the same time: what is
\* deleted is the link of a request that failed, and only once.
THEOREM RequestsHaveLinks == OutreachSpec => []LinksHeld
<1>1. OutreachInit => OutreachTyped
  BY OutreachTypedStarts, OutreachAssumption DEF OutreachInit
<1>2. OutreachTyped => LinksHeld
  BY DEF OutreachTyped
<1> QED  BY <1>1, <1>2, OutreachTypedMoves, PTL DEF OutreachSpec

(***************************************************************************)
(* Debtors.  Whose debts a row, a copy of it and a delivery hold.          *)
(***************************************************************************)

ListFits(list, p) == list \in Seq(Owed) /\ \A i \in 1 .. Len(list) : HolderOf[list[i]] = p

\* With a document, the debts on the row are the document's; and a state that
\* takes orders has some.
ChatFits(c) ==
    /\ DOMAIN c = {"state", "document", "list"} /\ c.list \in Seq(Owed)
    /\ c.state \in {"AWAITING_CPF", "AWAITING_ACTION"} /\ c.document \in Holders \cup {NoHolder}
    /\ c.document # NoHolder => ListFits(c.list, c.document)
    /\ c.state = "AWAITING_ACTION" => c.list # << >>

\* A delivery holds a row, a list or a contract of the document it goes by.
TurnFits(t) ==
    /\ t.at \in {"idle", "open", "reply", "found", "contest", "pix", "issue", "capture", "send"}
    /\ t.at # "idle" => t.message \in Messages
    /\ t.at = "reply" => ChatFits(t.seen)
    /\ t.at = "found" => /\ SaysOf[t.message].says = "document"
                         /\ ListFits(t.list, SaysOf[t.message].whose)
    /\ t.at = "contest" => HolderOf[t.contract] = t.word
    /\ t.at \in {"pix", "issue", "capture"} =>
          /\ DOMAIN t = {"at", "message", "contract", "word", "phone"}
          /\ HolderOf[t.contract] = t.word

\* So does a request of a page that was found to be in order.
VisitFits(w) ==
    /\ w.at = "expire" => w.action \in {"lookup", "pix"}
    /\ w.at = "issue" => HolderOf[w.contract] = w.word

AccessInv == /\ DOMAIN turn = Turns /\ \A x \in Turns : TurnFits(turn[x])
             /\ DOMAIN visit = Visits /\ \A v \in Visits : VisitFits(visit[v])
             /\ ChatFits(chat)
             /\ ActsForTheHolder

-----------------------------------------------------------------------------
\* A lookup finds contracts of the document.
LEMMA FoundFits ==
  ASSUME NEW p
  PROVE  ListFits(Found(p), p)
<1>1. PICK K : K = {i \in DOMAIN ByDueDate : HolderOf[ByDueDate[i]] = p /\ Owing(ByDueDate[i])}
  OBVIOUS
<1>2. K \in SUBSET (DOMAIN ByDueDate) /\ Found(p) = Chosen(ByDueDate, K)
  BY <1>1 DEF Found
<1>3. PICK list : list = Found(p)
  OBVIOUS
<1>4. /\ list \in Seq(Owed) /\ Len(list) = Cardinality(K)
      /\ \A n \in 1 .. Cardinality(K) :
            PlaceOf(K, n) \in K /\ list[n] = ByDueDate[PlaceOf(K, n)]
  BY <1>2, <1>3, AccessAssumption, ChosenFits
<1>5. \A n \in 1 .. Len(list) : HolderOf[list[n]] = p
  BY <1>1, <1>4
<1> QED  BY <1>3, <1>4, <1>5 DEF ListFits

-----------------------------------------------------------------------------
(* A delivery of a message.                                                *)

\* The contract an order picks is on the list, of the document of the row.
LEMMA SelectedFits ==
  ASSUME NEW x \in Turns, TurnFits(turn[x]), turn[x].at = "reply", Acting(x),
         Said(x).says \in {"pix", "contest"}
  PROVE  HolderOf[Selected(x)] = turn[x].seen.document
<1>1. PICK list : list = turn[x].seen.list
  OBVIOUS
<1>2. /\ list \in Seq(Owed) /\ list # << >>
      /\ \A i \in 1 .. Len(list) : HolderOf[list[i]] = turn[x].seen.document
  BY <1>1 DEF TurnFits, ChatFits, ListFits, Acting
<1>3. Len(list) \in Nat /\ Len(list) # 0
  BY <1>2
<1>4. Said(x).number \in 0 .. Len(ByDueDate)
  <2>1. Said(x) \in Sayings
    BY AccessAssumption DEF TurnFits, Said
  <2> QED  BY <2>1 DEF Sayings
<1>5. Said(x).number \in Nat
  BY <1>4, AccessAssumption
<1>6. Option(x) \in Nat /\ Option(x) <= Len(list)
  BY <1>1, <1>3, <1>5 DEF Option
<1>7. PICK i : i = IF Option(x) = 0 THEN 1 ELSE Option(x)
  OBVIOUS
<1>8. i \in 1 .. Len(list)
  BY <1>3, <1>6, <1>7
<1> QED  BY <1>1, <1>2, <1>7, <1>8 DEF Selected

LEMMA TurnMoves ==
  ASSUME AccessInv, NEW x \in Turns, NEW t, TurnFits(t), turn' = [turn EXCEPT ![x] = t],
         visit' = visit, ChatFits(chat'),
         acted' = acted \/ \E a : acted' = acted \cup {a} /\ HolderOf[a.contract] = a.word
  PROVE  AccessInv'
BY DEF AccessInv, ActsForTheHolder

LEMMA TurnStepHolds ==
  ASSUME AccessInv, NEW x \in Turns, TurnStep(x)
  PROVE  AccessInv'
<1>1. /\ TurnFits(turn[x]) /\ ChatFits(chat) /\ DOMAIN turn = Turns
  BY DEF AccessInv
<1>3. ASSUME ThenSend(x), turn[x].at # "idle", visit' = visit, ChatFits(chat'),
             acted' = acted \/ \E a : acted' = acted \cup {a} /\ HolderOf[a.contract] = a.word
      PROVE  AccessInv'
  <2>1. PICK t : t = [at |-> "send", message |-> turn[x].message]
    OBVIOUS
  <2>2. TurnFits(t) /\ turn' = [turn EXCEPT ![x] = t]
    BY <1>1, <1>3, <2>1 DEF TurnFits, ThenSend
  <2> QED  BY <2>2, <1>3, TurnMoves
<1>4. ASSUME NEW m \in Messages, Receive(x, m) PROVE AccessInv'
  <2>1. PICK t : t = [at |-> "open", message |-> m]
    OBVIOUS
  <2>2. TurnFits(t) /\ turn' = [turn EXCEPT ![x] = t]
    BY <1>4, <2>1 DEF TurnFits, Receive
  <2> QED  BY <2>2, <1>1, <1>4, TurnMoves DEF Receive
<1>5. CASE ReadChat(x)
  <2>1. PICK t : t = [at |-> "reply", message |-> turn[x].message, seen |-> chat]
    OBVIOUS
  <2>2. TurnFits(t) /\ turn' = [turn EXCEPT ![x] = t]
    BY <1>1, <1>5, <2>1 DEF TurnFits, ReadChat
  <2> QED  BY <2>2, <1>1, <1>5, TurnMoves DEF ReadChat
<1>6. CASE ReplyMenu(x)
  <2>1. PICK c : c = [chat EXCEPT !.state = "AWAITING_CPF", !.document = NoHolder]
    OBVIOUS
  <2>2. ChatFits(c) /\ chat' = c
    BY <1>1, <1>6, <2>1 DEF ChatFits, ReplyMenu
  <2> QED  BY <2>2, <1>3, <1>6 DEF ReplyMenu, Replying
<1>7. CASE LookupRead(x)
  <2>1. PICK t : t = [at |-> "found", message |-> turn[x].message, list |-> Found(Said(x).whose)]
    OBVIOUS
  <2>2. turn' = [turn EXCEPT ![x] = t] /\ turn[x].at = "reply" /\ Said(x).says = "document"
    BY <1>7, <2>1 DEF LookupRead, Replying
  <2>3. ListFits(t.list, SaysOf[t.message].whose)
    BY <2>1, FoundFits DEF Said
  <2>4. TurnFits(t)
    BY <1>1, <2>1, <2>2, <2>3 DEF TurnFits, Said
  <2> QED  BY <2>2, <2>4, <1>1, <1>7, TurnMoves DEF LookupRead
<1>8. CASE LookupWrite(x)
  <2>1. PICK c : c = chat'
    OBVIOUS
  <2>2. /\ c = [document |-> Said(x).whose, list |-> turn[x].list,
                state |-> IF turn[x].list = << >> THEN "AWAITING_CPF" ELSE "AWAITING_ACTION"]
        /\ turn[x].at = "found"
    BY <1>8, <2>1 DEF LookupWrite
  <2>3. ListFits(turn[x].list, Said(x).whose) /\ Said(x).whose \in Holders
    <3>1. Said(x) \in Sayings /\ Said(x).says = "document"
      BY <1>1, <2>2, AccessAssumption DEF TurnFits, Said
    <3> QED  BY <1>1, <2>2, <3>1 DEF TurnFits, Said, Sayings
  <2>4. ChatFits(c)
    BY <2>2, <2>3 DEF ChatFits, ListFits
  <2> QED  BY <2>1, <2>2, <2>4, <1>3, <1>8 DEF LookupWrite
<1>9. CASE ReplyAside(x)
  BY <1>1, <1>3, <1>9 DEF ReplyAside
<1>10. CASE ContestRead(x)
  <2>1. /\ turn[x].at = "reply" /\ Said(x).says = "contest" /\ Acting(x)
    BY <1>10 DEF ContestRead, Replying
  <2>2. HolderOf[Selected(x)] = turn[x].seen.document
    BY <2>1, <1>1, SelectedFits
  <2>3. PICK t : t = IF debt[Selected(x)].active
                     THEN [at |-> "contest", message |-> turn[x].message,
                           contract |-> Selected(x), word |-> turn[x].seen.document]
                     ELSE NoTurn
    OBVIOUS
  <2>4. TurnFits(t)
    BY <1>1, <2>1, <2>2, <2>3 DEF TurnFits, NoTurn
  <2>5. turn' = [turn EXCEPT ![x] = t]
    BY <1>10, <2>3 DEF ContestRead
  <2> QED  BY <2>4, <2>5, <1>1, <1>10, TurnMoves DEF ContestRead
<1>11. CASE ContestWrite(x)
  <2>1. PICK a : a = [did |-> "contest", contract |-> turn[x].contract, word |-> turn[x].word]
    OBVIOUS
  <2>2. acted' = acted \cup {a} /\ turn[x].at = "contest"
    BY <1>11, <2>1 DEF ContestWrite
  <2>3. HolderOf[a.contract] = a.word
    BY <1>1, <2>1, <2>2 DEF TurnFits
  <2> QED  BY <2>2, <2>3, <1>1, <1>3, <1>11 DEF ContestWrite
<1>12. CASE PixPhone(x)
  <2>1. /\ turn[x].at = "reply" /\ Said(x).says = "pix" /\ Acting(x)
    BY <1>12 DEF PixPhone, Replying
  <2>2. HolderOf[Selected(x)] = turn[x].seen.document
    BY <2>1, <1>1, SelectedFits
  <2>3. PICK t : t = [at |-> "pix", message |-> turn[x].message, contract |-> Selected(x),
                      word |-> turn[x].seen.document, phone |-> debt[Selected(x)].phone]
    OBVIOUS
  <2>4. TurnFits(t)
    BY <1>1, <2>1, <2>2, <2>3 DEF TurnFits
  <2>5. turn' = [turn EXCEPT ![x] = t]
    BY <1>12, <2>3 DEF PixPhone
  <2> QED  BY <2>4, <2>5, <1>1, <1>12, TurnMoves DEF PixPhone
<1>13. ASSUME NEW a \in {"issue", "capture"}, turn[x].at \in {"pix", "issue"},
              turn' = [turn EXCEPT ![x].at = a], visit' = visit, chat' = chat,
              acted' = acted \/ \E b : acted' = acted \cup {b} /\ HolderOf[b.contract] = b.word
       PROVE  AccessInv'
  <2>1. PICK t : t = [turn[x] EXCEPT !.at = a]
    OBVIOUS
  <2>2. TurnFits(t)
    BY <1>1, <1>13, <2>1 DEF TurnFits
  <2>3. turn' = [turn EXCEPT ![x] = t]
    BY <1>13, <2>1
  <2> QED  BY <2>2, <2>3, <1>1, <1>13, TurnMoves
<1>14. CASE PixFind(x)
  <2>1. \/ turn' = [turn EXCEPT ![x].at = "issue"]
        \/ ThenSend(x)
    BY <1>14 DEF PixFind
  <2>2. /\ turn[x].at = "pix" /\ visit' = visit /\ chat' = chat /\ acted' = acted
    BY <1>14 DEF PixFind
  <2> QED  BY <2>1, <2>2, <1>1, <1>3, <1>13
<1>15. CASE PixIssue(x)
  <2>1. \/ /\ turn' = [turn EXCEPT ![x].at = "capture"]
           /\ acted' = acted \cup {[did |-> "pix", contract |-> turn[x].contract,
                                    word |-> turn[x].word]}
        \/ ThenSend(x) /\ acted' = acted
    BY <1>15 DEF PixIssue, Issued
  <2>2. turn[x].at = "issue" /\ visit' = visit /\ chat' = chat
    BY <1>15 DEF PixIssue
  <2>3. PICK a : a = [did |-> "pix", contract |-> turn[x].contract, word |-> turn[x].word]
    OBVIOUS
  <2>4. HolderOf[a.contract] = a.word
    BY <1>1, <2>2, <2>3 DEF TurnFits
  <2>5. CASE /\ turn' = [turn EXCEPT ![x].at = "capture"]
             /\ acted' = acted \cup {a}
    BY <2>2, <2>4, <2>5, <1>13
  <2>6. CASE ThenSend(x) /\ acted' = acted
    BY <2>2, <2>6, <1>1, <1>3
  <2> QED  BY <2>1, <2>3, <2>5, <2>6
<1>16. CASE Capture(x)
  BY <1>1, <1>3, <1>16 DEF Capture
<1>17. CASE Record(x) \/ TurnFails(x)
  <2>1. turn' = [turn EXCEPT ![x] = NoTurn] /\ TurnFits(NoTurn)
    BY <1>17 DEF Record, TurnFails, TurnFits, NoTurn
  <2> QED  BY <2>1, <1>1, <1>17, TurnMoves DEF Record, TurnFails
<1> QED
  BY <1>4, <1>5, <1>6, <1>7, <1>8, <1>9, <1>10, <1>11, <1>12, <1>14, <1>15, <1>16, <1>17
  DEF TurnStep

-----------------------------------------------------------------------------
(* A request of the public pages.                                          *)

LEMMA VisitMoves ==
  ASSUME AccessInv, NEW v \in Visits, NEW w, VisitFits(w), visit' = [visit EXCEPT ![v] = w],
         turn' = turn, chat' = chat,
         acted' = acted \/ \E a : acted' = acted \cup {a} /\ HolderOf[a.contract] = a.word
  PROVE  AccessInv'
BY DEF AccessInv, ActsForTheHolder

LEMMA VisitStepHolds ==
  ASSUME AccessInv, NEW v \in Visits, VisitStep(v)
  PROVE  AccessInv'
<1>1. VisitFits(visit[v]) /\ VisitFits(NoVisit)
  BY DEF AccessInv, VisitFits, NoVisit
<1>2. /\ turn' = turn /\ chat' = chat
  BY DEF VisitStep, Knock, SetExpiry, ShowDebts, FindForPix, IssueForPage, LinkPix, OpenLink,
         MarkOpened, VisitFails
<1>3. ASSUME NEW action \in {"lookup", "pix"}, NEW p, NEW c, Knock(v, action, p, c)
      PROVE  AccessInv'
  <2>1. PICK w : w = IF tally[<<action, p>>].count = 0
                     THEN [at |-> "expire", action |-> action, word |-> p, contract |-> c]
                     ELSE IF tally[<<action, p>>].count < MaxAsks
                     THEN [at |-> action, word |-> p, contract |-> c]
                     ELSE NoVisit
    OBVIOUS
  <2>2. visit' = [visit EXCEPT ![v] = w] /\ acted' = acted
    BY <1>3, <2>1 DEF Knock, Begin
  <2>3. VisitFits(w)
    BY <2>1 DEF VisitFits, NoVisit
  <2> QED  BY <2>2, <2>3, <1>2, VisitMoves
<1>4. CASE SetExpiry(v)
  <2>1. PICK w : w = [at |-> visit[v].action, word |-> visit[v].word,
                       contract |-> visit[v].contract]
    OBVIOUS
  <2>2. visit' = [visit EXCEPT ![v] = w] /\ acted' = acted /\ visit[v].at = "expire"
    BY <1>4, <2>1 DEF SetExpiry
  <2>3. VisitFits(w)
    BY <1>1, <2>1, <2>2 DEF VisitFits
  <2> QED  BY <2>2, <2>3, <1>2, VisitMoves
<1>5. CASE ShowDebts(v) \/ MarkOpened(v) \/ VisitFails(v)
  <2>1. visit' = [visit EXCEPT ![v] = NoVisit] /\ acted' = acted
    BY <1>5 DEF ShowDebts, MarkOpened, VisitFails
  <2> QED  BY <2>1, <1>1, <1>2, VisitMoves
<1>6. CASE FindForPix(v)
  <2>1. PICK w : w = IF Owing(visit[v].contract) /\ HolderOf[visit[v].contract] = visit[v].word
                     THEN [at |-> "issue", contract |-> visit[v].contract,
                           word |-> visit[v].word] ELSE NoVisit
    OBVIOUS
  <2>2. visit' = [visit EXCEPT ![v] = w] /\ acted' = acted
    BY <1>6, <2>1 DEF FindForPix
  <2>3. VisitFits(w)
    BY <2>1 DEF VisitFits, NoVisit
  <2> QED  BY <2>2, <2>3, <1>2, VisitMoves
<1>7. CASE IssueForPage(v)
  <2>1. PICK a : a = [did |-> "pix", contract |-> visit[v].contract, word |-> visit[v].word]
    OBVIOUS
  <2>2. /\ visit' = [visit EXCEPT ![v] = NoVisit] /\ visit[v].at = "issue"
        /\ acted' = acted \/ acted' = acted \cup {a}
    BY <1>7, <2>1 DEF IssueForPage, Issued
  <2>3. HolderOf[a.contract] = a.word
    BY <1>1, <2>1, <2>2 DEF VisitFits
  <2> QED  BY <2>2, <2>3, <1>1, <1>2, VisitMoves
<1>8. ASSUME NEW l \in Links, LinkPix(v, l) \/ OpenLink(v, l) PROVE AccessInv'
  <2>1. PICK w : w = IF LinkPix(v, l)
                     THEN [at |-> "issue", contract |-> LinkTo[l], word |-> HolderOf[LinkTo[l]]]
                     ELSE [at |-> "opened", link |-> l, noticed |-> link[l].noticed]
    OBVIOUS
  <2>2. visit' = [visit EXCEPT ![v] = w] /\ acted' = acted
    BY <1>8, <2>1 DEF LinkPix, OpenLink, Begin
  <2>3. VisitFits(w)
    BY <2>1 DEF VisitFits
  <2> QED  BY <2>2, <2>3, <1>2, VisitMoves
<1> QED  BY <1>3, <1>4, <1>5, <1>6, <1>7, <1>8 DEF VisitStep

-----------------------------------------------------------------------------
LEMMA AccessStarts == AccessInit => AccessInv
<1> SUFFICES ASSUME AccessInit PROVE AccessInv
  OBVIOUS
<1>1. /\ chat = [state |-> "AWAITING_CPF", document |-> NoHolder, list |-> << >>]
      /\ turn = [x \in Turns |-> NoTurn] /\ visit = [v \in Visits |-> NoVisit] /\ acted = {}
  BY DEF AccessInit
<1>2. ChatFits(chat)
  BY <1>1 DEF ChatFits
<1> QED
  BY <1>1, <1>2 DEF AccessInv, TurnFits, VisitFits, NoTurn, NoVisit, ActsForTheHolder

LEMMA AccessMoves == AccessInv /\ [AccessNext]_accessVars => AccessInv'
<1> SUFFICES ASSUME AccessInv, [AccessNext]_accessVars PROVE AccessInv'
  OBVIOUS
<1>1. ASSUME turn' = turn, visit' = visit, chat' = chat, acted' = acted PROVE AccessInv'
  BY <1>1 DEF AccessInv, ActsForTheHolder
<1>2. CASE UNCHANGED accessVars
  BY <1>1, <1>2 DEF accessVars
<1>3. CASE \E x \in Turns : TurnStep(x)
  BY <1>3, TurnStepHolds
<1>4. CASE \E v \in Visits : VisitStep(v)
  BY <1>4, VisitStepHolds
<1>5. CASE \/ \E c \in Owed : Ended(c) \/ PhoneSupplied(c)
           \/ \E l \in Links : LinkNoticed(l) \/ LinkExpires(l)
           \/ \E p \in Holders : MinutePasses("lookup", p) \/ MinutePasses("pix", p)
  BY <1>1, <1>5 DEF Ended, PhoneSupplied, LinkNoticed, LinkExpires, MinutePasses
<1> QED  BY <1>2, <1>3, <1>4, <1>5 DEF AccessNext

-----------------------------------------------------------------------------
(* The rows of debtors.                                                    *)

DebtRow == [active: BOOLEAN, paid: BOOLEAN, phone: {"NONE", "CREDITOR", "CHAT"}]
LinkRow == [live: BOOLEAN, noticed: BOOLEAN, opened: BOOLEAN, read: BOOLEAN]
TallyRow == [count: Nat, expires: BOOLEAN]
DebtorRows ==
    /\ debt \in [Owed -> DebtRow] /\ heard \subseteq Messages
    /\ link \in [Links -> LinkRow]
    /\ tally \in [{"lookup", "pix"} \X Holders -> TallyRow]
    /\ taken \in [turns: 0 .. MaxTurns, visits: 0 .. MaxVisits] /\ upsets \in 0 .. MaxUpsets
    /\ \A v \in Visits : visit[v].at = "opened" => visit[v].noticed \in BOOLEAN
AccessTyped == AccessInv /\ DebtorRows

\* What a step makes of the row of a debt, of a link, and of a counter.
LEMMA DebtRowsFit ==
  ASSUME NEW row \in DebtRow
  PROVE  /\ [row EXCEPT !.active = FALSE] \in DebtRow /\ [row EXCEPT !.paid = TRUE] \in DebtRow
         /\ [row EXCEPT !.phone = "CREDITOR"] \in DebtRow /\ [row EXCEPT !.phone = "CHAT"] \in DebtRow
BY DEF DebtRow

LEMMA LinkRowsFit ==
  ASSUME NEW row \in LinkRow
  PROVE  /\ [row EXCEPT !.noticed = TRUE] \in LinkRow /\ [row EXCEPT !.live = FALSE] \in LinkRow
         /\ \A b \in BOOLEAN : [row EXCEPT !.opened = TRUE, !.read = b] \in LinkRow
BY DEF LinkRow

LEMMA TallyRowsFit ==
  ASSUME NEW row \in TallyRow
  PROVE  /\ [row EXCEPT !.count = @ + 1] \in TallyRow
         /\ [row EXCEPT !.expires = row.count > 0] \in TallyRow
<1>1. [row EXCEPT !.count = @ + 1] \in TallyRow /\ \A b \in BOOLEAN : [row EXCEPT !.expires = b] \in TallyRow
  BY DEF TallyRow
<1>2. (row.count > 0) \in BOOLEAN
  <2>1. PICK n : n = row.count /\ n \in Nat
    BY DEF TallyRow
  <2>2. (n > 0) \in BOOLEAN
    BY <2>1
  <2> QED  BY <2>1, <2>2, Zenon
<1> QED  BY <1>1, <1>2, Zenon

LEMMA TurnRows ==
  ASSUME AccessTyped, NEW x \in Turns, TurnStep(x)
  PROVE  DebtorRows'
<1>1. DebtorRows /\ TurnFits(turn[x])
  BY DEF AccessTyped, AccessInv
<1>2. link' = link /\ visit' = visit /\ tally' = tally
  BY DEF TurnStep, Receive, ReadChat, ReplyMenu, LookupRead, LookupWrite, ReplyAside,
         ContestRead, ContestWrite, PixPhone, PixFind, PixIssue, Capture, Record, TurnFails
<1>3. debt' \in [Owed -> DebtRow]
  <2>1. CASE debt' = debt
    BY <1>1, <2>1 DEF DebtorRows
  <2>2. CASE ContestWrite(x)
    <3>1. PICK c : c = turn[x].contract
      OBVIOUS
    <3>2. debt' = [debt EXCEPT ![c].active = FALSE]
      BY <2>2, <3>1 DEF ContestWrite
    <3>3. PICK row : row = [debt[c] EXCEPT !.active = FALSE]
      OBVIOUS
    <3>4. debt' = [debt EXCEPT ![c] = row] /\ (c \in Owed => row \in DebtRow)
      BY <1>1, <3>2, <3>3, DebtRowsFit DEF DebtorRows
    <3> QED  BY <1>1, <3>4, RowReplaced DEF DebtorRows
  <2>3. CASE Capture(x)
    <3>1. PICK c : c = turn[x].contract
      OBVIOUS
    <3>2. debt' = debt \/ debt' = [debt EXCEPT ![c].phone = "CHAT"]
      BY <2>3, <3>1 DEF Capture
    <3>3. PICK row : row = [debt[c] EXCEPT !.phone = "CHAT"]
      OBVIOUS
    <3>4. (c \in Owed => row \in DebtRow) /\ (debt' = debt \/ debt' = [debt EXCEPT ![c] = row])
      BY <1>1, <3>2, <3>3, DebtRowsFit DEF DebtorRows
    <3> QED  BY <1>1, <3>4, RowReplaced DEF DebtorRows
  <2> QED
    BY <2>1, <2>2, <2>3 DEF TurnStep, Receive, ReadChat, ReplyMenu, LookupRead, LookupWrite,
       ReplyAside, ContestRead, PixPhone, PixFind, PixIssue, Record, TurnFails
<1>4. heard' \subseteq Messages
  <2>1. CASE heard' = heard
    BY <1>1, <2>1 DEF DebtorRows
  <2>2. CASE Record(x)
    BY <1>1, <2>2 DEF Record, TurnFits, DebtorRows
  <2> QED
    BY <2>1, <2>2 DEF TurnStep, Receive, ReadChat, ReplyMenu, LookupRead, LookupWrite,
       ReplyAside, ContestRead, ContestWrite, PixPhone, PixFind, PixIssue, Capture, TurnFails
<1>5. taken' \in [turns: 0 .. MaxTurns, visits: 0 .. MaxVisits]
  <2>1. CASE taken' = taken
    BY <1>1, <2>1 DEF DebtorRows
  <2>2. CASE \E m \in Messages : Receive(x, m)
    BY <1>1, <2>2, AccessAssumption DEF Receive, DebtorRows
  <2> QED
    BY <2>1, <2>2 DEF TurnStep, ReadChat, ReplyMenu, LookupRead, LookupWrite, Record,
       ReplyAside, ContestRead, ContestWrite, PixPhone, PixFind, PixIssue, Capture, TurnFails
<1>6. upsets' \in 0 .. MaxUpsets
  <2>1. upsets' = upsets \/ Upset
    BY DEF TurnStep, Receive, ReadChat, ReplyMenu, LookupRead, LookupWrite, ReplyAside,
           ContestRead, ContestWrite, PixPhone, PixFind, PixIssue, Capture, Record, TurnFails
  <2> QED  BY <1>1, <2>1, AccessAssumption DEF Upset, DebtorRows
<1> QED  BY <1>1, <1>2, <1>3, <1>4, <1>5, <1>6 DEF DebtorRows

LEMMA VisitRows ==
  ASSUME AccessTyped, NEW v \in Visits, VisitStep(v)
  PROVE  DebtorRows'
<1>1. DebtorRows /\ DOMAIN visit = Visits
  BY DEF AccessTyped, AccessInv
<1>2. debt' = debt /\ heard' = heard
  BY DEF VisitStep, Knock, SetExpiry, ShowDebts, FindForPix, IssueForPage, LinkPix, OpenLink,
         MarkOpened, VisitFails
<1>3. link' \in [Links -> LinkRow]
  <2>1. CASE link' = link
    BY <1>1, <2>1 DEF DebtorRows
  <2>2. CASE MarkOpened(v)
    <3>1. PICK w : w = visit[v] /\ w.noticed \in BOOLEAN
      BY <1>1, <2>2 DEF MarkOpened, DebtorRows
    <3>2. PICK l, b : l = w.link /\ b = w.noticed
      OBVIOUS
    <3>3. PICK row : row = [link[l] EXCEPT !.opened = TRUE, !.read = b]
      OBVIOUS
    <3>4. link' = link \/ link' = [link EXCEPT ![l] = row]
      BY <2>2, <3>1, <3>2, <3>3 DEF MarkOpened
    <3>5. l \in Links => row \in LinkRow
      BY <1>1, <3>1, <3>2, <3>3, LinkRowsFit DEF DebtorRows
    <3> QED  BY <1>1, <3>4, <3>5, RowReplaced DEF DebtorRows
  <2> QED
    BY <2>1, <2>2 DEF VisitStep, Knock, SetExpiry, ShowDebts, FindForPix, IssueForPage, LinkPix,
       OpenLink, VisitFails
<1>4. tally' \in [{"lookup", "pix"} \X Holders -> TallyRow]
  <2>1. CASE tally' = tally
    BY <1>1, <2>1 DEF DebtorRows
  <2>2. ASSUME NEW action, NEW p, NEW c, Knock(v, action, p, c)
        PROVE  tally' \in [{"lookup", "pix"} \X Holders -> TallyRow]
    <3>1. PICK k : k = <<action, p>>
      OBVIOUS
    <3>2. tally' = [tally EXCEPT ![k].count = @ + 1]
      BY <2>2, <3>1 DEF Knock
    <3> QED  BY <1>1, <3>2, TallyRowsFit DEF DebtorRows
  <2>3. CASE SetExpiry(v)
    <3>1. PICK k : k = <<visit[v].action, visit[v].word>>
      OBVIOUS
    <3>2. PICK row : row = [tally[k] EXCEPT !.expires = tally[k].count > 0]
      OBVIOUS
    <3>3. tally' = [tally EXCEPT ![k] = row]
      BY <2>3, <3>1, <3>2 DEF SetExpiry
    <3>4. k \in {"lookup", "pix"} \X Holders => row \in TallyRow
      BY <1>1, <3>2, TallyRowsFit DEF DebtorRows
    <3> QED  BY <1>1, <3>3, <3>4, RowReplaced DEF DebtorRows
  <2> QED
    BY <2>1, <2>2, <2>3 DEF VisitStep, ShowDebts, FindForPix, IssueForPage, LinkPix, OpenLink,
       MarkOpened, VisitFails
<1>5. taken' \in [turns: 0 .. MaxTurns, visits: 0 .. MaxVisits]
  <2>1. \/ taken' = taken
        \/ taken.visits < MaxVisits /\ taken' = [taken EXCEPT !.visits = @ + 1]
    BY DEF VisitStep, Knock, SetExpiry, ShowDebts, FindForPix, IssueForPage, LinkPix, OpenLink,
           MarkOpened, VisitFails, Begin
  <2> QED  BY <1>1, <2>1, AccessAssumption DEF DebtorRows
<1>6. upsets' \in 0 .. MaxUpsets
  <2>1. upsets' = upsets \/ Upset
    BY DEF VisitStep, Knock, SetExpiry, ShowDebts, FindForPix, IssueForPage, LinkPix, OpenLink,
           MarkOpened, VisitFails
  <2> QED  BY <1>1, <2>1, AccessAssumption DEF Upset, DebtorRows
<1>7. \A u \in Visits : visit'[u].at = "opened" => visit'[u].noticed \in BOOLEAN
  <2>1. ASSUME NEW w, visit' = [visit EXCEPT ![v] = w],
               w.at = "opened" => w.noticed \in BOOLEAN
        PROVE  \A u \in Visits : visit'[u].at = "opened" => visit'[u].noticed \in BOOLEAN
    BY <1>1, <2>1 DEF DebtorRows
  <2>2. NoVisit.at # "opened"
    BY DEF NoVisit
  <2>3. ASSUME NEW action \in {"lookup", "pix"}, NEW p, NEW c, Knock(v, action, p, c)
        PROVE  \E w : visit' = [visit EXCEPT ![v] = w] /\ w.at # "opened"
    <3>1. PICK w : w = IF tally[<<action, p>>].count = 0
                       THEN [at |-> "expire", action |-> action, word |-> p, contract |-> c]
                       ELSE IF tally[<<action, p>>].count < MaxAsks
                       THEN [at |-> action, word |-> p, contract |-> c]
                       ELSE NoVisit
      OBVIOUS
    <3>2. visit' = [visit EXCEPT ![v] = w]
      BY <2>3, <3>1 DEF Knock, Begin
    <3>3. w.at # "opened"
      BY <2>2, <3>1
    <3> QED  BY <3>2, <3>3
  <2>4. CASE SetExpiry(v)
    <3>1. visit[v].action \in {"lookup", "pix"}
      BY <2>4 DEF SetExpiry, AccessTyped, AccessInv, VisitFits
    <3>2. PICK w : w = [at |-> visit[v].action, word |-> visit[v].word,
                        contract |-> visit[v].contract]
      OBVIOUS
    <3>3. visit' = [visit EXCEPT ![v] = w] /\ w.at # "opened"
      BY <2>4, <3>1, <3>2 DEF SetExpiry
    <3> QED  BY <2>1, <3>3
  <2>5. CASE ShowDebts(v) \/ IssueForPage(v) \/ MarkOpened(v) \/ VisitFails(v)
    BY <2>1, <2>2, <2>5 DEF ShowDebts, IssueForPage, MarkOpened, VisitFails
  <2>6. CASE FindForPix(v)
    <3>1. PICK w : w = [at |-> "issue", contract |-> visit[v].contract, word |-> visit[v].word]
      OBVIOUS
    <3>2. visit' = [visit EXCEPT ![v] = w] \/ visit' = [visit EXCEPT ![v] = NoVisit]
      BY <2>6, <3>1 DEF FindForPix
    <3> QED  BY <2>1, <2>2, <3>1, <3>2
  <2>7. ASSUME NEW l \in Links, LinkPix(v, l)
        PROVE  \E w : visit' = [visit EXCEPT ![v] = w] /\ w.at # "opened"
    <3>1. PICK w : w = [at |-> "issue", contract |-> LinkTo[l], word |-> HolderOf[LinkTo[l]]]
      OBVIOUS
    <3>2. visit' = [visit EXCEPT ![v] = w]
      BY <2>7, <3>1 DEF LinkPix, Begin
    <3>3. w.at # "opened"
      BY <3>1
    <3> QED  BY <3>2, <3>3
  <2>8. ASSUME NEW l \in Links, OpenLink(v, l)
        PROVE  \E w : visit' = [visit EXCEPT ![v] = w] /\ w.noticed \in BOOLEAN
    <3>1. PICK w : w = [at |-> "opened", link |-> l, noticed |-> link[l].noticed]
      OBVIOUS
    <3>2. visit' = [visit EXCEPT ![v] = w]
      BY <2>8, <3>1 DEF OpenLink, Begin
    <3>3. w.noticed \in BOOLEAN
      BY <1>1, <3>1 DEF DebtorRows, LinkRow
    <3> QED  BY <3>2, <3>3
  <2> QED  BY <2>1, <2>3, <2>4, <2>5, <2>6, <2>7, <2>8 DEF VisitStep
<1> QED  BY <1>1, <1>2, <1>3, <1>4, <1>5, <1>6, <1>7 DEF DebtorRows

LEMMA AccessTypedStarts == AccessInit => AccessTyped
<1> SUFFICES ASSUME AccessInit PROVE DebtorRows
  BY AccessStarts DEF AccessTyped
<1>1. debt \in [Owed -> DebtRow]
  BY DEF AccessInit, DebtRow
<1>2. link \in [Links -> LinkRow]
  BY DEF AccessInit, LinkRow
<1>3. tally \in [{"lookup", "pix"} \X Holders -> TallyRow]
  BY DEF AccessInit, TallyRow
<1>4. taken \in [turns: 0 .. MaxTurns, visits: 0 .. MaxVisits] /\ upsets \in 0 .. MaxUpsets
  BY AccessAssumption DEF AccessInit
<1> QED  BY <1>1, <1>2, <1>3, <1>4 DEF AccessInit, DebtorRows, NoVisit

LEMMA AccessTypedMoves == AccessTyped /\ [AccessNext]_accessVars => AccessTyped'
<1> SUFFICES ASSUME AccessTyped, [AccessNext]_accessVars PROVE DebtorRows'
  BY AccessMoves DEF AccessTyped
<1>0. DebtorRows
  BY DEF AccessTyped
<1>1. CASE UNCHANGED accessVars
  BY <1>0, <1>1 DEF accessVars, DebtorRows
<1>2. CASE \E x \in Turns : TurnStep(x)
  BY <1>2, TurnRows
<1>3. CASE \E v \in Visits : VisitStep(v)
  BY <1>3, VisitRows
<1>4. ASSUME NEW c \in Owed, Ended(c) \/ PhoneSupplied(c) PROVE DebtorRows'
  <2>1. \/ debt' = [debt EXCEPT ![c].active = FALSE] \/ debt' = [debt EXCEPT ![c].paid = TRUE]
        \/ debt' = [debt EXCEPT ![c].phone = "CREDITOR"]
    BY <1>4 DEF Ended, PhoneSupplied
  <2>2. debt' \in [Owed -> DebtRow]
    <3>1. debt[c] \in DebtRow
      BY <1>0 DEF DebtorRows
    <3>2. /\ [debt[c] EXCEPT !.active = FALSE] \in DebtRow /\ [debt[c] EXCEPT !.paid = TRUE] \in DebtRow
          /\ [debt[c] EXCEPT !.phone = "CREDITOR"] \in DebtRow
      BY <3>1, DebtRowsFit
    <3>3. PICK row \in DebtRow : debt' = [debt EXCEPT ![c] = row]
      BY <2>1, <3>2
    <3> QED  BY <1>0, <3>3, RowReplaced DEF DebtorRows
  <2> QED  BY <1>0, <1>4, <2>2 DEF Ended, PhoneSupplied, DebtorRows
<1>5. ASSUME NEW l \in Links, LinkNoticed(l) \/ LinkExpires(l) PROVE DebtorRows'
  <2>1. link' = [link EXCEPT ![l].noticed = TRUE] \/ link' = [link EXCEPT ![l].live = FALSE]
    BY <1>5 DEF LinkNoticed, LinkExpires
  <2>2. link' \in [Links -> LinkRow]
    <3>1. link[l] \in LinkRow
      BY <1>0 DEF DebtorRows
    <3>2. [link[l] EXCEPT !.noticed = TRUE] \in LinkRow /\ [link[l] EXCEPT !.live = FALSE] \in LinkRow
      BY <3>1, LinkRowsFit
    <3>3. PICK row \in LinkRow : link' = [link EXCEPT ![l] = row]
      BY <2>1, <3>2
    <3> QED  BY <1>0, <3>3, RowReplaced DEF DebtorRows
  <2> QED  BY <1>0, <1>5, <2>2 DEF LinkNoticed, LinkExpires, DebtorRows
<1>6. ASSUME NEW p \in Holders, NEW action, MinutePasses(action, p) PROVE DebtorRows'
  <2>1. PICK k : k = <<action, p>>
    OBVIOUS
  <2>2. tally' = [tally EXCEPT ![k] = [count |-> 0, expires |-> FALSE]]
    BY <1>6, <2>1 DEF MinutePasses
  <2>3. tally' \in [{"lookup", "pix"} \X Holders -> TallyRow]
    BY <1>0, <2>2 DEF DebtorRows, TallyRow
  <2> QED  BY <1>0, <1>6, <2>3 DEF MinutePasses, DebtorRows
<1> QED  BY <1>1, <1>2, <1>3, <1>4, <1>5, <1>6 DEF AccessNext

LEMMA AccessFits == AccessTyped => AccessTypeOK
<1> SUFFICES ASSUME AccessTyped PROVE AccessTypeOK
  OBVIOUS
<1>1. ToSet(chat.list) \subseteq Owed
  BY DEF AccessTyped, AccessInv, ChatFits, ToSet
<1> QED
  BY <1>1 DEF AccessTyped, AccessInv, ChatFits, DebtorRows, DebtRow, LinkRow, TallyRow, AccessTypeOK

\* The rows of debts, links and the conversation hold what their columns may, and
\* the counters of requests count: the bot writes no state, document or contract
\* that the tables do not have, whatever was read before it was written.
THEOREM AccessIsTyped == AccessSpec => []AccessTypeOK
<1> QED
  BY AccessTypedStarts, AccessTypedMoves, AccessFits, PTL DEF AccessSpec

-----------------------------------------------------------------------------
\* A contract is contested, and a Pix handed out, only on the word of a document
\* that is the contract's, although the bot picks it by its place on a list it
\* read before.  The list of the row, and of every copy of it, is the list of the
\* row's document, and what a delivery or a page holds is that document's.
THEOREM DebtorsActForThemselves == AccessSpec => []ActsForTheHolder
<1>1. AccessInv => ActsForTheHolder
  BY DEF AccessInv
<1> QED  BY <1>1, AccessStarts, AccessMoves, PTL DEF AccessSpec

(***************************************************************************)
(* The three together, as MCBackOffice plays them.  They share no state:   *)
(* in the scene of one the others rest.                                    *)
(***************************************************************************)

SceneInv == AccountsInv /\ OutreachTyped /\ AccessTyped

LEMMA SceneStarts == MCInit => SceneInv
<1> SUFFICES ASSUME MCInit PROVE SceneInv
  OBVIOUS
<1>1. AccountsInv
  BY AccountsInvInit DEF MCInit, noAccounts
<1>2. OutreachTyped
  <2>1. 1 \in 1 .. LastMinute /\ 2 \in 1 .. LastMinute
    BY OutreachAssumption, InstanceAssumption
  <2>2. {} \in SUBSET RunKeys /\ {<<k2, 1>>} \in SUBSET RunKeys
    BY <2>1, InstanceAssumption DEF RunKeys
  <2>3. OutreachFrom(1, {}) \/ OutreachFrom(2, {}) \/ OutreachFrom(2, {<<k2, 1>>})
    BY DEF MCInit, OutreachInit
  <2> QED
    BY <2>1, <2>2, <2>3, OutreachTypedStarts
<1>3. AccessTyped
  BY AccessTypedStarts DEF MCInit, AccessFrom
<1> QED
  BY <1>1, <1>2, <1>3 DEF SceneInv

LEMMA SceneMoves ==
    SceneInv /\ [MCNext]_<<scene, accountsVars, outreachVars, accessVars>> => SceneInv'
<1> SUFFICES ASSUME SceneInv, [MCNext]_<<scene, accountsVars, outreachVars, accessVars>>
             PROVE  SceneInv'
  OBVIOUS
<1>1. [AccountsNext]_accountsVars /\ [OutreachNext]_outreachVars /\ [AccessNext]_accessVars
  <2>1. CASE UNCHANGED <<scene, accountsVars, outreachVars, accessVars>>
    BY <2>1
  <2>2. CASE AccountsNext /\ UNCHANGED <<outreachVars, accessVars>>
    BY <2>2
  <2>3. CASE OutreachScene /\ UNCHANGED <<accountsVars, accessVars>>
    <3>1. OutreachNext
      BY <2>3 DEF OutreachScene, OutreachNext, Clear, PodStep, Senders
    <3> QED
      BY <2>3, <3>1
  <2>4. CASE AccessScene /\ UNCHANGED <<accountsVars, outreachVars>>
    <3>1. AccessNext
      BY <2>4 DEF AccessScene, AccessNext
    <3> QED
      BY <2>4, <3>1
  <2> QED
    BY <2>1, <2>2, <2>3, <2>4 DEF MCNext
<1> QED
  BY <1>1, AccountsInvNext, OutreachTypedMoves, AccessTypedMoves DEF SceneInv

\* Whichever of the three is at work, the rows of users, sessions and links, of
\* runs, calls and messages, and of conversations, debts and page visits hold what
\* their columns may, whatever is read, checked and written in between.
THEOREM BackOfficeIsTyped == MCSpec => []BackOfficeTypeOK
<1>1. SceneInv => BackOfficeTypeOK
  BY OutreachFits, AccessFits DEF SceneInv, AccountsInv, BackOfficeTypeOK
<1> QED
  BY <1>1, SceneStarts, SceneMoves, PTL DEF MCSpec

=============================================================================
