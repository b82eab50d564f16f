----------------------------- MODULE Principals -----------------------------
(***************************************************************************)
(* The cache of resolved principals.  Every request of a signed-in user is *)
(* decided on a Principal: the user's status, roles and assignments, the   *)
(* permissions of the role, the institution's status and whether its       *)
(* subscription is usable.  Principals are cached in Redis under a key of  *)
(* version numbers; a change of one of these facts is announced by         *)
(* incrementing a version, in a statement after the change.                *)
(*                                                                         *)
(* One user, who holds one role at a time.  A fact is abstracted to the    *)
(* number of changes it has seen.                                          *)
(*                                                                         *)
(* Source: apps/api/src/authz/authorization.service.ts, auth/access.guard  *)
(* .ts, and the callers of invalidate, invalidateRole and invalidateOrg.   *)
(***************************************************************************)
EXTENDS Integers, Sequences

CONSTANTS
  Roles,           \* roles the user may hold
  TTL,             \* the expiry of a cached principal (300 s)
  Horizon,         \* bound: the last moment considered
  Workers,         \* concurrent request slots of the API and the worker
  Budgets          \* bound: how many changes of each kind, and deaths, occur in one run

Scopes == {"user", "org", "sub"}          \* facts announced by the user's permVersion
Kinds == Scopes \cup {"role", "silent", "death"}

ASSUME PrincipalsAssumption ==
  /\ Roles # {} /\ TTL \in Nat \ {0} /\ Horizon \in Nat
  /\ Budgets \subseteq [Kinds -> Nat]

VARIABLES
  fact,       \* the user's, the institution's and the subscription's facts
  held,       \* the role the user holds
  perms,      \* the permissions of each role
  version,    \* users.permVersion
  roleVersion,\* roles.permVersion
  cache,      \* Redis: principals by key, each with its expiry
  job,        \* the request running in each slot
  era,        \* history: the facts announced when each permVersion was reached
  roleEra,    \* history: the permissions announced with each roles.permVersion
  past,       \* history: the facts at the start of each moment so far
  slow,       \* history: the clock has moved while a principal was being resolved
  budget      \* what is left of the budget

facts == <<fact, held, perms>>
history == <<era, roleEra, past, slow>>
vars == <<facts, version, roleVersion, cache, job, history, budget>>

Pcs == {"idle", "roles", "rights", "get", "set", "decide", "announce"}

Facts == [Scopes -> Nat]
Principal == [fact : Facts, held : Roles, perm : Nat]
Entry == [user : Nat, role : Nat, value : Principal, until : Nat]

\* user, held, role: the versions read and the role they are of; value: the
\* principal built or found; kind, of, wrote: the change to announce.
Job == [pc : Pcs, user : Nat, held : Roles, role : Nat, value : Principal,
        kind : Scopes \cup {"role"}, of : Roles, wrote : Nat]

AnyRole == CHOOSE r \in Roles : TRUE
Nothing == [fact |-> [k \in Scopes |-> 0], held |-> AnyRole, perm |-> 0]
Idle == [pc |-> "idle", user |-> 0, held |-> AnyRole, role |-> 0, value |-> Nothing,
         kind |-> "user", of |-> AnyRole, wrote |-> 0]

TypeOK ==
  /\ fact \in Facts /\ held \in Roles /\ perms \in [Roles -> Nat]
  /\ version \in Nat /\ roleVersion \in [Roles -> Nat]
  /\ cache \subseteq Entry
  /\ job \in [Workers -> Job]
  /\ era \in Seq(Facts) /\ roleEra \in [Roles -> Seq(Nat)]
  /\ past \in Seq([fact : Facts, perms : [Roles -> Nat]]) /\ slow \in BOOLEAN
  /\ budget \in [Kinds -> Nat]

Init ==
  /\ fact = [k \in Scopes |-> 0] /\ held \in Roles /\ perms = [r \in Roles |-> 0]
  /\ version = 1 /\ roleVersion = [r \in Roles |-> 1]
  /\ cache = {}
  /\ job = [w \in Workers |-> Idle]
  /\ era = <<fact>> /\ roleEra = [r \in Roles |-> <<0>>]
  /\ past = <<[fact |-> fact, perms |-> perms]>> /\ slow = FALSE
  /\ budget \in Budgets

-----------------------------------------------------------------------------
At(w, p) == job[w].pc = p
End(w) == job' = [job EXCEPT ![w] = Idle]
Spend(k) == budget[k] > 0 /\ budget' = [budget EXCEPT ![k] = @ - 1]
now == Len(past)
AtLeast(f, g) == \A k \in Scopes : f[k] >= g[k]

(* Mutated forms: bugs this code could have had, each caught by a property. *)
UserVersionOnly(user, role) == <<user, 1>>
NoExpiry == Horizon + TTL

-----------------------------------------------------------------------------
(* Changes. *)

\* updateStaff (which may replace the role), setAssignments, patchStatus and
\* joining or leaving an institution; setStatus of the institution; activating
\* or extending its subscription: the change is committed ...
Change(w, k, r) ==
  /\ At(w, "idle") /\ (k # "user" => r = held)
  /\ fact' = [fact EXCEPT ![k] = @ + 1]
  /\ held' = r
  /\ job' = [job EXCEPT ![w] = [Idle EXCEPT !.pc = "announce", !.kind = k, !.wrote = fact[k] + 1]]
  /\ Spend(k)
  /\ UNCHANGED <<perms, version, roleVersion, cache, history>>

\* updateRolePermissions.
ChangeRole(w, r) ==
  /\ At(w, "idle")
  /\ perms' = [perms EXCEPT ![r] = @ + 1]
  /\ job' = [job EXCEPT ![w] = [Idle EXCEPT !.pc = "announce", !.kind = "role", !.of = r,
                                            !.wrote = perms[r] + 1]]
  /\ Spend("role")
  /\ UNCHANGED <<fact, held, version, roleVersion, cache, history>>

\* ... and then announced: invalidate and invalidateOrg increment the user's
\* version.
Announce(w) ==
  LET k == job[w].kind
      last == era[version]
  IN
  /\ At(w, "announce") /\ k # "role"
  /\ version' = version + 1
  /\ era' = Append(era, IF last[k] < job[w].wrote THEN [last EXCEPT ![k] = job[w].wrote] ELSE last)
  /\ End(w)
  /\ UNCHANGED <<facts, roleVersion, cache, roleEra, past, slow, budget>>

\* invalidateRole increments the role's.
AnnounceRole(w) ==
  LET r == job[w].of
      last == roleEra[r][roleVersion[r]]
  IN
  /\ At(w, "announce") /\ job[w].kind = "role"
  /\ roleVersion' = [roleVersion EXCEPT ![r] = @ + 1]
  /\ roleEra' = [roleEra EXCEPT ![r] = Append(@, IF last < job[w].wrote THEN job[w].wrote ELSE last)]
  /\ End(w)
  /\ UNCHANGED <<facts, version, cache, era, past, slow, budget>>

\* A subscription cancelled, overdue, provisioned or run out, and the removal
\* of an institution, are not announced to every member.
ChangeSilently ==
  /\ \E k \in {"user", "sub"} : fact' = [fact EXCEPT ![k] = @ + 1]
  /\ Spend("silent")
  /\ UNCHANGED <<held, perms, version, roleVersion, cache, job, history>>

-----------------------------------------------------------------------------
(* Resolving a principal. *)

\* resolvePrincipal: the user's row, with its version, is read first, ...
ReadUser(w) ==
  /\ At(w, "idle")
  /\ job' = [job EXCEPT ![w] = [Idle EXCEPT !.pc = "roles", !.user = version]]
  /\ UNCHANGED <<facts, version, roleVersion, cache, history, budget>>

\* ... then the role with its version, ...
ReadRoles(w) ==
  /\ At(w, "roles")
  /\ job' = [job EXCEPT ![w].pc = "rights", ![w].held = held, ![w].role = roleVersion[held]]
  /\ UNCHANGED <<facts, version, roleVersion, cache, history, budget>>

\* ... then what hangs on them.
ReadRights(w) ==
  /\ At(w, "rights")
  /\ job' = [job EXCEPT ![w].pc = "get",
                        ![w].value = [fact |-> fact, held |-> job[w].held,
                                      perm |-> perms[job[w].held]]]
  /\ UNCHANGED <<facts, version, roleVersion, cache, history, budget>>

\* The key holds the version of the role, not its name.
Key(user, role) == <<user, role>>
KeyOf(e) == Key(e.user, e.role)
Alive(e) == e.until > now

\* redis get: a cached principal is used instead of what was read.
Hit(w, e) ==
  /\ At(w, "get") /\ e \in cache
  /\ Alive(e) /\ KeyOf(e) = Key(job[w].user, job[w].role)
  /\ job' = [job EXCEPT ![w].pc = "decide", ![w].value = e.value]
  /\ UNCHANGED <<facts, version, roleVersion, cache, history, budget>>

Miss(w) ==
  /\ At(w, "get")
  /\ \A e \in cache : Alive(e) => KeyOf(e) # Key(job[w].user, job[w].role)
  /\ job' = [job EXCEPT ![w].pc = "set"]
  /\ UNCHANGED <<facts, version, roleVersion, cache, history, budget>>

Expiry == now + TTL
Resolved == "decide"

\* redis set, with the expiry: what the key held before is replaced.
Store(w) ==
  LET new == [user |-> job[w].user, role |-> job[w].role, value |-> job[w].value,
              until |-> Expiry]
  IN
  /\ At(w, "set")
  /\ cache' = {e \in cache : KeyOf(e) # KeyOf(new)} \cup {new}
  /\ job' = [job EXCEPT ![w].pc = Resolved]
  /\ UNCHANGED <<facts, version, roleVersion, history, budget>>

\* AccessGuard and the permission check: the request is decided.
Decide(w) ==
  /\ At(w, "decide")
  /\ End(w)
  /\ UNCHANGED <<facts, version, roleVersion, cache, history, budget>>

-----------------------------------------------------------------------------
(* Time and faults. *)

Tick ==
  /\ now < Horizon
  /\ past' = Append(past, [fact |-> fact, perms |-> perms])
  /\ cache' = {e \in cache : e.until > now + 1}
  /\ slow' = (slow \/ \E w \in Workers : job[w].pc \notin {"idle", "announce"})
  /\ UNCHANGED <<facts, version, roleVersion, job, era, roleEra, budget>>

\* A process dies or an announcement fails.
Abort(w) ==
  /\ ~At(w, "idle") /\ Spend("death")
  /\ End(w)
  /\ UNCHANGED <<facts, version, roleVersion, cache, history>>

Next ==
  \/ ChangeSilently \/ Tick
  \/ \E w \in Workers :
       \/ \E k \in Scopes, r \in Roles : Change(w, k, r)
       \/ \E r \in Roles : ChangeRole(w, r)
       \/ Announce(w) \/ AnnounceRole(w)
       \/ ReadUser(w) \/ ReadRoles(w) \/ ReadRights(w)
       \/ (\E e \in cache : Hit(w, e)) \/ Miss(w) \/ Store(w) \/ Decide(w)
       \/ Abort(w)

Spec == Init /\ [][Next]_vars
-----------------------------------------------------------------------------
(* Properties. *)

\* Whatever overlaps, a request is decided on every change of the user, the
\* institution and the subscription that was announced before it started.
AnnouncedIsSeen ==
  \A w \in Workers : At(w, "decide") => AtLeast(job[w].value.fact, era[job[w].user])

\* The same for permissions, as long as the cached principal is of the role the
\* user was found to hold: a role replaced but not yet announced can be met
\* with a principal of the old one.
PermissionsAreSeen ==
  \A w \in Workers :
    At(w, "decide") /\ job[w].value.held = job[w].held
      => job[w].value.perm >= roleEra[job[w].held][job[w].role]

\* What is never announced, or was going to be when the process died, is seen
\* when the cached principal has expired: nothing older than TTL decides, if
\* resolving a principal takes no time.
StaleAtMostTTL ==
  \A w \in Workers :
    At(w, "decide") /\ ~slow /\ now >= TTL
      => /\ AtLeast(job[w].value.fact, past[now - TTL + 1].fact)
         /\ job[w].value.perm >= past[now - TTL + 1].perms[job[w].value.held]

\* Every announced change, of facts and of permissions, decides the requests that
\* start after it.
ChangesAreSeen == AnnouncedIsSeen /\ PermissionsAreSeen
=============================================================================
