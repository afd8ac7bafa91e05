------------------------------- MODULE Access -------------------------------
(***************************************************************************)
(* Who may do what: the check of every request against the user's row and  *)
(* the permissions of its role, which each server caches for TTL ticks     *)
(* (permissions.service.ts), and the maintenance of users and roles.       *)
(***************************************************************************)
EXTENDS Naturals, Routes, Server

CONSTANTS Visits,        \* requests in flight
          Members, Roles, Servers,
          Grants,        \* permission sets an administrator may give a role
          TTL

\* A role is given permissions that exist (the foreign key of role_permissions).
ASSUME AccessAssumption ==
  /\ TTL \in Nat
  /\ \A codes \in Grants \union {RoleMatrix[r] : r \in Roles} : codes \subseteq AllRights

VARIABLES members,       \* users, each with a valid token: role and activation
          granted, cache, visit, now,
          recent         \* history: permission sets a role had, and until when

accessVars == <<members, granted, cache, visit, now, recent>>

NoVisit == [at |-> "idle", user |-> None, role |-> None, server |-> None, codes |-> {}]

AccessInit ==
  /\ members \in [Members -> [role : Roles, active : {TRUE}]]
  /\ granted = [r \in Roles |-> RoleMatrix[r]]
  /\ cache = [s \in Servers |-> [r \in Roles |-> [codes |-> {}, expires |-> 0]]]
  /\ now = 1
  /\ visit = [v \in Visits |-> NoVisit]
  /\ recent = [r \in Roles |-> {}]

-----------------------------------------------------------------------------
\* A request: the token's user is read again (jwt.strategy.ts), then the guard asks for the
\* route's permission.  A request that passes is for any route that codes permits.
BeginRequest(v) ==
  /\ visit[v].at = "idle"
  /\ \E u \in Members, s \in Servers :
       /\ members[u].active
       /\ visit' = [visit EXCEPT ![v] = [NoVisit EXCEPT !.at = "guard", !.user = u, !.server = s,
                                           !.role = members[u].role]]
  /\ UNCHANGED <<members, granted, cache, now, recent>>

Permitted(v) == {route \in AllRoutes : route.right \in visit[v].codes \union {Anyone}}

PassWith(v, codes) ==
  /\ visit' = [visit EXCEPT ![v].at = "act", ![v].codes = codes]
  /\ UNCHANGED <<members, granted, now, recent>>

\* No permission asked, or the Administrator role: no query.
PassUnasked(v) ==
  /\ visit[v].at = "guard"
  /\ PassWith(v, IF visit[v].role = "Administrator" THEN AllRights ELSE {})
  /\ UNCHANGED cache

CacheEverLive(v) == cache[visit[v].server][visit[v].role].expires > 0

CacheLive(v) == cache[visit[v].server][visit[v].role].expires > now

PassCached(v) ==
  /\ visit[v].at = "guard"
  /\ visit[v].role # "Administrator"
  /\ CacheLive(v)
  /\ PassWith(v, cache[visit[v].server][visit[v].role].codes)
  /\ UNCHANGED cache

\* Without a live entry the codes are read, then cached and used.
ReadCodes(v) ==
  /\ visit[v].at = "guard"
  /\ visit[v].role # "Administrator"
  /\ ~CacheLive(v)
  /\ visit' = [visit EXCEPT ![v].at = "fill", ![v].codes = granted[visit[v].role]]
  /\ UNCHANGED <<members, granted, cache, now, recent>>

FillCache(v) ==
  /\ visit[v].at = "fill"
  /\ cache' = [cache EXCEPT ![visit[v].server][visit[v].role] =
                 [codes |-> visit[v].codes, expires |-> now + TTL]]
  /\ PassWith(v, visit[v].codes)

\* The handler runs; what it does is modelled elsewhere.
Act(v) ==
  /\ visit[v].at = "act"
  /\ visit' = [visit EXCEPT ![v] = NoVisit]
  /\ UNCHANGED <<members, granted, cache, now, recent>>

\* A refusal, an exception or a crash.
VisitAbort(v) ==
  /\ visit[v].at # "idle"
  /\ visit' = [visit EXCEPT ![v] = NoVisit]
  /\ UNCHANGED <<members, granted, cache, now, recent>>

-----------------------------------------------------------------------------
\* users.service: a role or the activation of a user changes; roles.service: a role's
\* permissions are replaced in one transaction, the caches are left alone.
UpdateUser(u) ==
  /\ \E r \in Roles, active \in BOOLEAN :
       members' = [members EXCEPT ![u].role = r, ![u].active = active]
  /\ UNCHANGED <<granted, cache, visit, now, recent>>

SetPermissions(r) ==
  /\ \E codes \in Grants \ {granted[r]} :
       /\ granted' = [granted EXCEPT ![r] = codes]
       /\ recent' = [recent EXCEPT ![r] = @ \union {[codes |-> granted[r], until |-> now]}]
  /\ UNCHANGED <<members, cache, visit, now>>

\* A query takes less than a tick: the caches are filled within the tick they were read in.
Tick ==
  /\ now < Horizon
  /\ \A v \in Visits : visit[v].at # "fill"
  /\ now' = now + 1
  /\ UNCHANGED <<members, granted, cache, visit, recent>>

AccessNext ==
  \/ \E v \in Visits :
       \/ BeginRequest(v) \/ PassUnasked(v) \/ PassCached(v) \/ ReadCodes(v) \/ FillCache(v)
       \/ Act(v) \/ VisitAbort(v)
  \/ \E u \in Members : UpdateUser(u)
  \/ \E r \in Roles : SetPermissions(r)
  \/ Tick

-----------------------------------------------------------------------------
AccessTypeOK ==
  /\ members \in [Members -> [role : Roles, active : BOOLEAN]]
  /\ \A r \in Roles : granted[r] \subseteq AllRights
  /\ \A s \in Servers, r \in Roles :
       cache[s][r].codes \subseteq AllRights /\ cache[s][r].expires \in 0 .. now + TTL
  /\ \A v \in Visits : visit[v].at \in {"idle", "guard", "fill", "act"}

HeldWithin(r, right, ticks) ==
  \/ right \in granted[r]
  \/ \E old \in recent[r] : right \in old.codes /\ old.until + ticks >= now

Passes(v) == visit[v].at # "act" /\ visit'[v].at = "act" /\ visit[v].role # "Administrator"

\* A permission taken from a role is refused everywhere once the caches have expired: whoever
\* passes the guard holds the permission or lost it within TTL (permissions.service.ts:34-41),
\* so that a role that could only read for that long reaches no handler that changes business
\* data (the routes of all controllers).
RevocationTakesHold ==
  [][\A v \in Visits : Passes(v) =>
       /\ \A right \in visit'[v].codes : HeldWithin(visit[v].role, right, TTL)
       /\ (\E route \in Permitted(v)' : route.changes = "data") =>
            \E right \in WriteRights : HeldWithin(visit[v].role, right, TTL)]_accessVars
=============================================================================
