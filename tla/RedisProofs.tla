----------------------------- MODULE RedisProofs -----------------------------
(* Theorems about Principals and about Delivery, for every value of their     *)
(* constants.  Both keep their state in Redis; no step of one reads what the  *)
(* other has written there, so each has its own specification.                *)
EXTENDS Principals, Delivery, SequenceTheorems, FiniteSetTheorems, TLAPS

\* The history agrees with the versions, and nothing announced or past is newer
\* than the facts.
EraOK ==
  /\ version >= 1 /\ Len(era) = version
  /\ \A i \in 1..version : AtLeast(fact, era[i])

RoleEraOK ==
  \A r \in Roles :
    /\ roleVersion[r] >= 1 /\ Len(roleEra[r]) = roleVersion[r]
    /\ \A i \in 1..roleVersion[r] : perms[r] >= roleEra[r][i]

NotOlder(p, q) == AtLeast(p.fact, q.fact) /\ \A r \in Roles : p.perms[r] >= q.perms[r]

PastOK ==
  /\ now >= 1
  /\ \A i \in 1..now : NotOlder([fact |-> fact, perms |-> perms], past[i])
  /\ \A j \in 1..now : \A i \in 1..j : NotOlder(past[j], past[i])

\* A principal holds what had been announced when the user's version was u and
\* its role's version n ...
Seen(v, u, n) ==
  /\ u \in 1..version /\ n \in 1..roleVersion[v.held]
  /\ AtLeast(v.fact, era[u]) /\ v.perm >= roleEra[v.held][n]

\* ... and what held at the start of moment t.
Fresh(v, t) ==
  t \in 1..now /\ AtLeast(v.fact, past[t].fact) /\ v.perm >= past[t].perms[v.held]

EntryOK(e) ==
  /\ Seen(e.value, e.user, e.role)
  /\ ~slow => Fresh(e.value, e.until - TTL)

CacheOK == \A e \in cache : EntryOK(e)

Resolving == {"roles", "rights", "get", "set", "decide"}

JobOK(j) ==
  /\ j.pc \in Resolving => j.user \in 1..version
  /\ j.pc \in Resolving \ {"roles"} => j.role \in 1..roleVersion[j.held]
  /\ j.pc \in {"get", "set"} => j.value.held = j.held /\ Seen(j.value, j.user, j.role)
  /\ j.pc = "decide" =>
       /\ AtLeast(j.value.fact, era[j.user])
       /\ j.value.held = j.held => j.value.perm >= roleEra[j.held][j.role]
  /\ j.pc = "announce" =>
       IF j.kind = "role" THEN perms[j.of] >= j.wrote ELSE fact[j.kind] >= j.wrote

JobFresh(j) ==
  ~slow => /\ j.pc \in {"get", "set"} => Fresh(j.value, now)
           /\ j.pc = "decide" /\ now >= TTL => Fresh(j.value, now - TTL + 1)

JobsOK == \A w \in Workers : JobOK(job[w]) /\ JobFresh(job[w])

IInv == TypeOK /\ EraOK /\ RoleEraOK /\ PastOK /\ CacheOK /\ JobsOK

LEMMA IInvImpliesSeen == IInv => ChangesAreSeen
  BY DEF IInv, JobsOK, JobOK, ChangesAreSeen, AnnouncedIsSeen, PermissionsAreSeen, At

LEMMA IInvImpliesTTL == IInv => StaleAtMostTTL
  BY PrincipalsAssumption DEF IInv, JobsOK, JobFresh, Fresh, StaleAtMostTTL, At

-----------------------------------------------------------------------------
(* What every step keeps: versions, facts and histories only grow. *)

Grows ==
  /\ version' >= version /\ \A i \in 1..version : era'[i] = era[i]
  /\ \A r \in Roles :
       /\ roleVersion'[r] >= roleVersion[r] /\ perms'[r] >= perms[r]
       /\ \A i \in 1..roleVersion[r] : roleEra'[r][i] = roleEra[r][i]
  /\ now' >= now /\ \A i \in 1..now : past'[i] = past[i]
  /\ AtLeast(fact', fact)
  /\ slow => slow'

LEMMA Numbers ==
  ASSUME TypeOK
  PROVE  /\ version \in Nat /\ now \in Nat
         /\ \A r \in Roles : roleVersion[r] \in Nat /\ perms[r] \in Nat
         /\ \A k \in Scopes : fact[k] \in Nat
<1>1. now \in Nat
  <2> DEFINE S == [fact : Facts, perms : [Roles -> Nat]]
  <2>1. past \in Seq(S)
    BY DEF TypeOK
  <2> HIDE DEF S
  <2> QED
    BY <2>1 DEF now
<1> QED
  BY <1>1 DEF TypeOK, Facts

LEMMA NumbersNext ==
  ASSUME TypeOK'
  PROVE  /\ version' \in Nat /\ now' \in Nat
         /\ \A r \in Roles : roleVersion'[r] \in Nat /\ perms'[r] \in Nat
         /\ \A k \in Scopes : fact'[k] \in Nat
<1>1. now' \in Nat
  <2> DEFINE S == [fact : Facts, perms : [Roles -> Nat]]
  <2>1. past' \in Seq(S)
    BY DEF TypeOK
  <2> HIDE DEF S
  <2> QED
    BY <2>1 DEF now
<1> QED
  BY <1>1 DEF TypeOK, Facts

LEMMA SeenKept ==
  ASSUME TypeOK, TypeOK', Grows, NEW v \in Principal, NEW u, NEW n, Seen(v, u, n)
  PROVE  Seen(v, u, n)'
<1>1. v.held \in Roles
  BY DEF Principal
<1>2. u \in 1..version' /\ era'[u] = era[u]
  BY Numbers, NumbersNext DEF Grows, Seen
<1>3. n \in 1..roleVersion'[v.held] /\ roleEra'[v.held][n] = roleEra[v.held][n]
  <2>1. roleVersion[v.held] \in Nat /\ roleVersion'[v.held] \in Nat
    BY <1>1, Numbers, NumbersNext
  <2>2. roleVersion'[v.held] >= roleVersion[v.held]
    BY <1>1 DEF Grows
  <2>3. n \in 1..roleVersion[v.held]
    BY DEF Seen
  <2> QED
    BY <1>1, <2>1, <2>2, <2>3 DEF Grows
<1> QED
  BY <1>2, <1>3 DEF Seen

LEMMA FreshKept ==
  ASSUME TypeOK, TypeOK', Grows, NEW v \in Principal, NEW t, Fresh(v, t)
  PROVE  /\ t \in 1..now'
         /\ AtLeast(v.fact, past'[t].fact)
         /\ v.perm >= past'[t].perms[v.held]
<1>1. now \in Nat /\ now' \in Nat /\ now' >= now /\ t \in 1..now
  BY Numbers, NumbersNext DEF Grows, Fresh
<1>2. past'[t] = past[t]
  BY <1>1 DEF Grows
<1> QED
  BY <1>1, <1>2 DEF Fresh

LEMMA EntryKept ==
  ASSUME IInv, TypeOK', Grows, NEW e \in cache
  PROVE  EntryOK(e)'
<1>1. e \in Entry /\ EntryOK(e)
  BY DEF IInv, TypeOK, CacheOK
<1>2. e.value \in Principal
  BY <1>1 DEF Entry
<1>3. Seen(e.value, e.user, e.role)'
  BY <1>1, <1>2, SeenKept DEF IInv, EntryOK
<1>4. ~slow' => Fresh(e.value, e.until - TTL)'
  BY <1>1, <1>2, FreshKept DEF IInv, EntryOK, Grows, Fresh
<1> QED
  BY <1>3, <1>4 DEF EntryOK

\* A request in flight keeps what it has read, ...
LEMMA JobOKKept ==
  ASSUME IInv, TypeOK', Grows, NEW j \in Job, JobOK(j)
  PROVE  JobOK(j)'
<1>1. j.value \in Principal /\ j.held \in Roles /\ j.of \in Roles /\ j.wrote \in Nat
  BY DEF Job
<1>2. j.pc \in Resolving => j.user \in 1..version'
  BY Numbers, NumbersNext DEF JobOK, Grows, IInv
<1>3. j.pc \in Resolving \ {"roles"} => j.role \in 1..roleVersion'[j.held]
  BY <1>1, Numbers, NumbersNext DEF JobOK, Grows, IInv
<1>4. j.pc \in {"get", "set"} => j.value.held = j.held /\ Seen(j.value, j.user, j.role)'
  BY <1>1, SeenKept DEF JobOK, IInv
<1>5. j.pc = "decide" =>
       /\ AtLeast(j.value.fact, era'[j.user])
       /\ j.value.held = j.held => j.value.perm >= roleEra'[j.held][j.role]
  BY <1>1 DEF JobOK, Grows, Resolving
<1>6. ASSUME j.pc = "announce"
      PROVE  IF j.kind = "role" THEN perms'[j.of] >= j.wrote ELSE fact'[j.kind] >= j.wrote
  <2>1. CASE j.kind = "role"
    <3>1. perms[j.of] \in Nat /\ perms'[j.of] \in Nat /\ perms'[j.of] >= perms[j.of]
      BY <1>1, Numbers, NumbersNext DEF IInv, Grows
    <3> QED
      BY <1>1, <1>6, <2>1, <3>1 DEF JobOK
  <2>2. CASE j.kind # "role"
    <3>1. j.kind \in Scopes
      BY <2>2 DEF Job
    <3>2. fact[j.kind] \in Nat /\ fact'[j.kind] \in Nat /\ fact'[j.kind] >= fact[j.kind]
      BY <3>1, Numbers, NumbersNext DEF IInv, Grows, AtLeast
    <3> QED
      BY <1>1, <1>6, <2>2, <3>2 DEF JobOK
  <2> QED
    BY <2>1, <2>2
<1> QED
  BY <1>2, <1>3, <1>4, <1>5, <1>6 DEF JobOK

\* ... and is as fresh as it was, as long as the clock stands still or it
\* resolves nothing.
LEMMA JobKept ==
  ASSUME IInv, TypeOK', Grows, NEW j \in Job, JobOK(j), JobFresh(j),
         now' = now \/ j.pc \notin Resolving
  PROVE  JobOK(j)' /\ JobFresh(j)'
<1>1. j.value \in Principal
  BY DEF Job
<1>2. JobFresh(j)'
  BY <1>1, FreshKept DEF JobFresh, Resolving, Grows, Fresh, IInv
<1> QED
  BY <1>2, JobOKKept

-----------------------------------------------------------------------------
(* Steps that leave the facts, the versions and the history alone. *)

Still == UNCHANGED <<facts, version, roleVersion, history>>

LEMMA StillGrows ==
  ASSUME TypeOK, Still
  PROVE  Grows
<1>1. now' = now
  BY DEF Still, history, now
<1>2. \A r \in Roles : perms[r] \in Nat
  BY Numbers
<1>3. AtLeast(fact', fact)
  BY Numbers DEF Still, facts, AtLeast
<1> QED
  BY <1>1, <1>2, <1>3, Numbers DEF Still, facts, history, Grows, now

LEMMA StillHistory ==
  ASSUME EraOK, RoleEraOK, PastOK, Still
  PROVE  EraOK' /\ RoleEraOK' /\ PastOK'
  BY DEF EraOK, RoleEraOK, PastOK, NotOlder, Still, facts, history, now

\* One request moves, and the cache keeps its entries or gains one.
LEMMA StillIInv ==
  ASSUME IInv, Still, NEW w \in Workers, NEW j \in Job,
         job' = [job EXCEPT ![w] = j], cache' \subseteq Entry, budget' \in [Kinds -> Nat],
         JobOK(j), JobFresh(j), \A e \in cache' : e \in cache \/ EntryOK(e)
  PROVE  IInv'
<1>1. TypeOK'
  BY DEF IInv, TypeOK, Still, facts, history
<1>2. Grows /\ now' = now
  BY StillGrows DEF IInv, Still, history, now
<1>3. EraOK' /\ RoleEraOK' /\ PastOK'
  BY StillHistory DEF IInv
<1>4. ASSUME NEW e \in cache'
      PROVE  EntryOK(e)'
  <2>1. CASE e \in cache
    BY <1>1, <1>2, <2>1, EntryKept
  <2>2. CASE EntryOK(e)
    BY <2>2 DEF EntryOK, Seen, Fresh, Still, facts, history, now
  <2> QED
    BY <1>4, <2>1, <2>2
<1>5. ASSUME NEW v \in Workers
      PROVE  JobOK(job[v])' /\ JobFresh(job[v])'
  <2>1. job'[v] \in Job
    BY <1>1 DEF TypeOK
  <2>2. \A x \in Job : JobOK(x) /\ JobFresh(x) => JobOK(x)' /\ JobFresh(x)'
    BY <1>1, <1>2, JobKept
  <2>3. job'[v] = job[v] \/ job'[v] = j
    BY DEF IInv, TypeOK
  <2>4. JobOK(job[v]) /\ JobFresh(job[v]) /\ JobOK(j) /\ JobFresh(j)
    BY DEF IInv, JobsOK
  <2> QED
    BY <2>1, <2>2, <2>3, <2>4 DEF JobOK, JobFresh
<1> QED
  BY <1>1, <1>3, <1>4, <1>5 DEF IInv, CacheOK, JobsOK
LEMMA PastMoment ==
  ASSUME TypeOK, NEW t \in 1..now
  PROVE  past[t] \in [fact : Facts, perms : [Roles -> Nat]]
<1> DEFINE S == [fact : Facts, perms : [Roles -> Nat]]
<1>1. past \in Seq(S)
  BY DEF TypeOK
<1> HIDE DEF S
<1>2. past[t] \in S
  BY <1>1 DEF now
<1> QED
  BY <1>2 DEF S

\* What is as new as a moment is as new as every earlier one.
LEMMA FreshEarlier ==
  ASSUME TypeOK, PastOK, NEW v \in Principal, NEW t, Fresh(v, t), NEW u \in 1..t
  PROVE  Fresh(v, u)
<1>1. t \in 1..now /\ u \in 1..now
  BY Numbers DEF Fresh
<1>2. NotOlder(past[t], past[u])
  BY <1>1 DEF PastOK
<1>3. v.fact \in Facts /\ v.held \in Roles /\ v.perm \in Nat
  BY DEF Principal
<1>4. /\ past[t].fact \in Facts /\ past[u].fact \in Facts
      /\ past[t].perms \in [Roles -> Nat] /\ past[u].perms \in [Roles -> Nat]
  BY <1>1, PastMoment
<1>5. AtLeast(v.fact, past[u].fact)
  <2>1. AtLeast(v.fact, past[t].fact) /\ AtLeast(past[t].fact, past[u].fact)
    BY <1>2 DEF Fresh, NotOlder
  <2> QED
    BY <2>1, <1>3, <1>4 DEF AtLeast, Facts
<1>6. v.perm >= past[u].perms[v.held]
  <2>1. v.perm >= past[t].perms[v.held] /\ past[t].perms[v.held] >= past[u].perms[v.held]
    BY <1>2, <1>3 DEF Fresh, NotOlder
  <2> QED
    BY <2>1, <1>3, <1>4
<1> QED
  BY <1>1, <1>5, <1>6 DEF Fresh

LEMMA IdleOK == Idle \in Job /\ JobOK(Idle) /\ JobFresh(Idle)
<1>1. AnyRole \in Roles
  BY PrincipalsAssumption DEF AnyRole
<1>2. Idle \in Job
  BY <1>1 DEF Idle, Job, Nothing, Principal, Facts, Scopes, Pcs
<1> QED
  BY <1>2 DEF Idle, JobOK, JobFresh, Resolving

LEMMA EndIInv ==
  ASSUME IInv, Still, NEW w \in Workers, End(w), cache' \subseteq cache, budget' \in [Kinds -> Nat]
  PROVE  IInv'
<1>1. cache' \subseteq Entry
  BY DEF IInv, TypeOK
<1> QED
  BY <1>1, IdleOK, StillIInv DEF End

LEMMA ReadUserIInv == ASSUME IInv, NEW w \in Workers, ReadUser(w) PROVE IInv'
<1> DEFINE j == [Idle EXCEPT !.pc = "roles", !.user = version]
<1>1. j \in Job
  BY IdleOK DEF IInv, TypeOK, Job, Pcs, Idle
<1>2. JobOK(j) /\ JobFresh(j)
  BY DEF IInv, TypeOK, EraOK, JobOK, JobFresh, Resolving, Idle
<1>3. Still /\ job' = [job EXCEPT ![w] = j] /\ cache' = cache /\ budget' = budget
  BY DEF ReadUser, Still
<1> HIDE DEF j
<1> QED
  BY <1>1, <1>2, <1>3, StillIInv DEF IInv, TypeOK

LEMMA ReadRolesIInv == ASSUME IInv, NEW w \in Workers, ReadRoles(w) PROVE IInv'
<1> DEFINE j == [job[w] EXCEPT !.pc = "rights", !.held = held, !.role = roleVersion[held]]
<1>1. job[w] \in Job /\ JobOK(job[w]) /\ job[w].pc = "roles"
  BY DEF IInv, TypeOK, JobsOK, ReadRoles, At
<1>2. held \in Roles /\ roleVersion[held] \in Nat /\ roleVersion[held] >= 1
  BY DEF IInv, TypeOK, RoleEraOK
<1>3. j \in Job
  BY <1>1, <1>2 DEF Job, Pcs
<1>4. JobOK(j) /\ JobFresh(j)
  BY <1>1, <1>2 DEF JobOK, JobFresh, Resolving, Job
<1>5. Still /\ job' = [job EXCEPT ![w] = j] /\ cache' = cache /\ budget' = budget
  BY <1>1 DEF ReadRoles, Still, Job, IInv, TypeOK
<1> HIDE DEF j
<1> QED
  BY <1>3, <1>4, <1>5, StillIInv DEF IInv, TypeOK

LEMMA ReadRightsIInv ==
  ASSUME IInv, NEW w \in Workers, ReadRights(w)
  PROVE  IInv'
<1> DEFINE p == [fact |-> fact, held |-> job[w].held, perm |-> perms[job[w].held]]
           j == [job[w] EXCEPT !.pc = "get", !.value = p]
<1>1. job[w] \in Job /\ JobOK(job[w]) /\ job[w].pc = "rights"
  BY DEF IInv, TypeOK, JobsOK, ReadRights, At
<1>2. job[w].held \in Roles
  BY <1>1 DEF Job
<1>3. p \in Principal
  BY <1>2 DEF IInv, TypeOK, Principal
<1>4. Seen(p, job[w].user, job[w].role)
  BY <1>1, <1>2 DEF JobOK, Resolving, Seen, IInv, EraOK, RoleEraOK
<1>5. Fresh(p, now)
  <2>1. now \in 1..now
    BY Numbers DEF IInv, PastOK
  <2> QED
    BY <2>1, <1>2 DEF Fresh, IInv, PastOK, NotOlder
<1>6. p.held = job[w].held
  OBVIOUS
<1> HIDE DEF p
<1>7. j \in Job
  BY <1>1, <1>3 DEF Job, Pcs
<1>8. JobOK(j) /\ JobFresh(j)
  BY <1>1, <1>4, <1>5, <1>6 DEF JobOK, JobFresh, Resolving, Job
<1>9. Still /\ job' = [job EXCEPT ![w] = j] /\ cache' = cache /\ budget' = budget
  BY <1>1 DEF ReadRights, Still, p
<1> HIDE DEF j
<1> QED
  BY <1>7, <1>8, <1>9, StillIInv DEF IInv, TypeOK

\* A live entry is of a moment less than TTL ago.
LEMMA HitIInv ==
  ASSUME IInv, NEW w \in Workers, NEW e \in cache, Hit(w, e)
  PROVE  IInv'
<1> DEFINE j == [job[w] EXCEPT !.pc = "decide", !.value = e.value]
<1>1. job[w] \in Job /\ JobOK(job[w]) /\ job[w].pc = "get"
  BY DEF IInv, TypeOK, JobsOK, Hit, At
<1>2. e \in Entry /\ e.value \in Principal /\ EntryOK(e) /\ e.until \in Nat
  BY DEF IInv, TypeOK, CacheOK, Entry
<1>3. e.user = job[w].user /\ e.role = job[w].role /\ e.until > now
  BY DEF Hit, KeyOf, Key, Alive
<1>4. Seen(e.value, job[w].user, job[w].role)
  BY <1>2, <1>3 DEF EntryOK
<1>5. ASSUME ~slow, now >= TTL
      PROVE  Fresh(e.value, now - TTL + 1)
  <2>1. Fresh(e.value, e.until - TTL)
    BY <1>2, <1>5 DEF EntryOK
  <2>2. now - TTL + 1 \in 1..(e.until - TTL)
    BY <1>2, <1>3, <1>5, Numbers, PrincipalsAssumption DEF IInv
  <2> QED
    BY <1>2, <2>1, <2>2, FreshEarlier DEF IInv
<1>6. j \in Job
  BY <1>1, <1>2 DEF Job, Pcs
<1>7. JobOK(j)
  BY <1>1, <1>4 DEF JobOK, Seen, Resolving, Job
<1>8. JobFresh(j)
  BY <1>1, <1>5 DEF JobFresh, Job
<1>9. Still /\ job' = [job EXCEPT ![w] = j] /\ cache' = cache /\ budget' = budget
  BY <1>1 DEF Hit, Still
<1> HIDE DEF j
<1> QED
  BY <1>6, <1>7, <1>8, <1>9, StillIInv DEF IInv, TypeOK

LEMMA MissIInv == ASSUME IInv, NEW w \in Workers, Miss(w) PROVE IInv'
<1> DEFINE j == [job[w] EXCEPT !.pc = "set"]
<1>1. job[w] \in Job /\ JobOK(job[w]) /\ JobFresh(job[w]) /\ job[w].pc = "get"
  BY DEF IInv, TypeOK, JobsOK, Miss, At
<1>2. j \in Job
  BY <1>1 DEF Job, Pcs
<1>3. JobOK(j) /\ JobFresh(j)
  BY <1>1 DEF JobOK, JobFresh, Resolving, Job
<1>4. Still /\ job' = [job EXCEPT ![w] = j] /\ cache' = cache /\ budget' = budget
  BY <1>1 DEF Miss, Still
<1> HIDE DEF j
<1> QED
  BY <1>2, <1>3, <1>4, StillIInv DEF IInv, TypeOK

LEMMA StoreIInv == ASSUME IInv, NEW w \in Workers, Store(w) PROVE IInv'
<1> DEFINE j == [job[w] EXCEPT !.pc = Resolved]
           e == [user |-> job[w].user, role |-> job[w].role, value |-> job[w].value,
                 until |-> Expiry]
<1>1. job[w] \in Job /\ JobOK(job[w]) /\ JobFresh(job[w]) /\ job[w].pc = "set"
  BY DEF IInv, TypeOK, JobsOK, Store, At
<1>2. now \in Nat /\ TTL \in Nat /\ TTL >= 1 /\ now >= 1
  BY Numbers, PrincipalsAssumption DEF IInv, PastOK
<1>3. Seen(job[w].value, job[w].user, job[w].role) /\ job[w].value.held = job[w].held
  BY <1>1 DEF JobOK
<1>4. ~slow => Fresh(job[w].value, now)
  BY <1>1 DEF JobFresh
<1>5. e \in Entry
  BY <1>1, <1>2 DEF Entry, Job, Expiry
<1>6. EntryOK(e)
  BY <1>2, <1>3, <1>4 DEF EntryOK, Expiry
<1>7. j \in Job
  BY <1>1 DEF Job, Pcs, Resolved
<1>8. JobOK(j)
  BY <1>1, <1>3 DEF JobOK, Seen, Resolving, Job, Resolved
<1>9. ASSUME ~slow, now >= TTL
      PROVE  Fresh(job[w].value, now - TTL + 1)
  <2>1. now - TTL + 1 \in 1..now /\ Fresh(job[w].value, now)
    BY <1>2, <1>4, <1>9
  <2>2. job[w].value \in Principal
    BY <1>1 DEF Job
  <2> QED
    BY <2>1, <2>2, FreshEarlier DEF IInv
<1>10. JobFresh(j)
  BY <1>1, <1>9 DEF JobFresh, Job, Resolved
<1>11. Still /\ job' = [job EXCEPT ![w] = j] /\ budget' = budget /\ cache' \subseteq cache \cup {e}
  BY <1>1 DEF Store, Still
<1> HIDE DEF j, e
<1> QED
  BY <1>5, <1>6, <1>7, <1>8, <1>10, <1>11, StillIInv DEF IInv, TypeOK
-----------------------------------------------------------------------------
(* Changes, announcements and the clock. *)

Announces(j) ==
  /\ j.pc = "announce"
  /\ IF j.kind = "role" THEN perms'[j.of] >= j.wrote ELSE fact'[j.kind] >= j.wrote

LEMMA GrownIInv ==
  ASSUME IInv, TypeOK', Grows, EraOK', RoleEraOK', PastOK', cache' \subseteq cache,
         now' = now \/ \A v \in Workers : job[v].pc \in Resolving => slow',
         \A v \in Workers : job'[v] \in {job[v], Idle} \/ Announces(job'[v])
  PROVE  IInv'
<1>1. ASSUME NEW e \in cache'
      PROVE  EntryOK(e)'
  BY <1>1, EntryKept
<1>2. ASSUME NEW v \in Workers
      PROVE  JobOK(job[v])' /\ JobFresh(job[v])'
  <2>1. CASE job'[v] \in {job[v], Idle}
    <3>1. job'[v] \in Job
      BY DEF TypeOK
    <3>2. JobOK(job[v]) /\ JobFresh(job[v]) /\ JobOK(Idle) /\ JobFresh(Idle)
      BY IdleOK DEF IInv, JobsOK
    <3>3. CASE now' = now \/ job'[v].pc \notin Resolving
      <4>1. \A x \in Job :
              JobOK(x) /\ JobFresh(x) /\ (now' = now \/ x.pc \notin Resolving)
                => JobOK(x)' /\ JobFresh(x)'
        BY JobKept
      <4> QED
        BY <2>1, <3>1, <3>2, <3>3, <4>1 DEF JobOK, JobFresh
    <3>4. CASE now' # now /\ job'[v].pc \in Resolving
      <4>1. job'[v] = job[v] /\ slow'
        BY <2>1, <3>4 DEF Resolving, Idle
      <4>2. \A x \in Job : JobOK(x) => JobOK(x)'
        BY JobOKKept
      <4> QED
        BY <3>1, <3>2, <4>1, <4>2 DEF JobOK, JobFresh
    <3> QED
      BY <3>3, <3>4
  <2>2. CASE Announces(job'[v])
    BY <2>2 DEF Announces, JobOK, JobFresh, Resolving
  <2> QED
    BY <2>1, <2>2
<1> QED
  BY <1>1, <1>2 DEF IInv, CacheOK, JobsOK

\* Nothing but the facts or the permissions change, and they grow.
LEMMA ChangedIInv ==
  ASSUME IInv, fact' \in Facts, held' \in Roles, perms' \in [Roles -> Nat],
         job' \in [Workers -> Job], budget' \in [Kinds -> Nat],
         AtLeast(fact', fact), \A r \in Roles : perms'[r] >= perms[r],
         UNCHANGED <<version, roleVersion, cache, history>>,
         \A v \in Workers : job'[v] \in {job[v], Idle} \/ Announces(job'[v])
  PROVE  IInv'
<1>1. TypeOK'
  BY DEF IInv, TypeOK, history
<1>2. now' = now
  BY DEF history, now
<1>3. Grows
  BY <1>2, Numbers DEF IInv, history, Grows
<1>4. \A k \in Scopes : fact[k] \in Nat /\ fact'[k] \in Nat
  BY <1>1, Numbers, NumbersNext DEF IInv
<1>5. EraOK'
  <2>1. ASSUME NEW i \in 1..version
        PROVE  AtLeast(fact', era[i])
    <3>1. era[i] \in [Scopes -> Nat] /\ AtLeast(fact, era[i])
      <4>1. era \in Seq(Facts) /\ Len(era) = version
        BY DEF IInv, TypeOK, EraOK
      <4>2. era[i] \in Facts
        BY <4>1
      <4> QED
        BY <4>2 DEF IInv, EraOK, Facts
    <3>2. \A k \in Scopes : fact[k] >= era[i][k] /\ fact'[k] >= fact[k] /\ era[i][k] \in Nat
      BY <3>1 DEF AtLeast
    <3> QED
      BY <1>4, <3>2 DEF AtLeast
  <2> QED
    BY <2>1 DEF IInv, EraOK, history
<1>6. RoleEraOK'
  <2>1. ASSUME NEW r \in Roles, NEW i \in 1..roleVersion[r]
        PROVE  perms'[r] >= roleEra[r][i]
    <3>1. roleEra[r] \in Seq(Nat) /\ Len(roleEra[r]) = roleVersion[r]
      BY DEF IInv, TypeOK, RoleEraOK
    <3>2. roleEra[r][i] \in Nat
      BY <3>1
    <3>3. perms[r] >= roleEra[r][i] /\ perms'[r] >= perms[r]
      BY DEF IInv, RoleEraOK
    <3>4. perms[r] \in Nat /\ perms'[r] \in Nat
      BY <1>1, Numbers, NumbersNext DEF IInv
    <3> QED
      BY <3>2, <3>3, <3>4
  <2> QED
    BY <2>1 DEF IInv, RoleEraOK, history
<1>7. PastOK'
  <2> DEFINE S == [fact : Facts, perms : [Roles -> Nat]]
  <2>1. \A i \in 1..now : past[i] \in S
    BY PastMoment DEF IInv
  <2>2. ASSUME NEW i \in 1..now
        PROVE  NotOlder([fact |-> fact', perms |-> perms'], past[i])
    <3>1. past[i].fact \in Facts /\ past[i].perms \in [Roles -> Nat]
      BY <2>1
    <3>2. /\ AtLeast(fact, past[i].fact)
          /\ \A r \in Roles : perms[r] >= past[i].perms[r]
      BY DEF IInv, PastOK, NotOlder
    <3>3. AtLeast(fact', past[i].fact)
      BY <1>4, <3>1, <3>2 DEF AtLeast, Facts
    <3>4. \A r \in Roles : perms'[r] >= past[i].perms[r]
      BY <1>1, <3>1, <3>2, Numbers, NumbersNext DEF IInv
    <3> QED
      BY <3>3, <3>4 DEF NotOlder
  <2> HIDE DEF S
  <2> QED
    BY <1>2, <2>2 DEF IInv, PastOK, history, NotOlder
<1> QED
  BY <1>1, <1>2, <1>3, <1>5, <1>6, <1>7, GrownIInv DEF IInv, history
LEMMA SpendOK ==
  ASSUME budget \in [Kinds -> Nat], NEW k \in Kinds, Spend(k)
  PROVE  budget' \in [Kinds -> Nat]
  BY DEF Spend

LEMMA ChangeIInv ==
  ASSUME IInv, NEW w \in Workers, NEW k \in Scopes, NEW r \in Roles, Change(w, k, r)
  PROVE  IInv'
<1> DEFINE j == [Idle EXCEPT !.pc = "announce", !.kind = k, !.wrote = fact[k] + 1]
<1>1. fact \in [Scopes -> Nat] /\ fact' = [fact EXCEPT ![k] = @ + 1]
  BY DEF IInv, TypeOK, Facts, Change
<1>2. fact' \in Facts /\ AtLeast(fact', fact) /\ fact'[k] = fact[k] + 1
  BY <1>1 DEF Facts, AtLeast
<1>3. j \in Job
  <2>1. fact[k] + 1 \in Nat /\ k \in Scopes \cup {"role"} /\ "announce" \in Pcs
    BY <1>1 DEF Pcs
  <2> QED
    BY <2>1, IdleOK DEF Job
<1>4. k # "role"
  BY DEF Scopes
<1>5. j.pc = "announce" /\ j.kind = k /\ j.wrote = fact[k] + 1
  BY DEF Idle
<1>6. fact'[k] >= j.wrote
  BY <1>1, <1>2, <1>5
<1>7. job' = [job EXCEPT ![w] = j] /\ job \in [Workers -> Job]
  BY DEF Change, IInv, TypeOK
<1> HIDE DEF j
<1>8. job' \in [Workers -> Job] /\ \A v \in Workers : job'[v] \in {job[v], Idle} \/ Announces(job'[v])
  BY <1>3, <1>4, <1>5, <1>6, <1>7 DEF Announces
<1>9. budget' \in [Kinds -> Nat]
  BY SpendOK DEF Change, Kinds, IInv, TypeOK
<1>10. perms' = perms /\ perms \in [Roles -> Nat] /\ held' \in Roles
  BY DEF Change, IInv, TypeOK
<1>11. UNCHANGED <<version, roleVersion, cache, history>>
  BY DEF Change
<1>12. \A x \in Roles : perms'[x] >= perms[x]
  BY <1>10
<1> QED
  BY <1>2, <1>8, <1>9, <1>10, <1>11, <1>12, ChangedIInv

LEMMA ChangeRoleIInv ==
  ASSUME IInv, NEW w \in Workers, NEW r \in Roles, ChangeRole(w, r)
  PROVE  IInv'
<1> DEFINE j == [Idle EXCEPT !.pc = "announce", !.kind = "role", !.of = r, !.wrote = perms[r] + 1]
<1>1. perms \in [Roles -> Nat] /\ perms' = [perms EXCEPT ![r] = @ + 1]
  BY DEF IInv, TypeOK, ChangeRole
<1>2. /\ perms' \in [Roles -> Nat] /\ perms'[r] = perms[r] + 1
      /\ \A x \in Roles : perms'[x] >= perms[x]
  BY <1>1
<1>3. j \in Job
  <2>1. perms[r] + 1 \in Nat /\ "announce" \in Pcs
    BY <1>1 DEF Pcs
  <2> QED
    BY <2>1, IdleOK DEF Job
<1>4. j.pc = "announce" /\ j.kind = "role" /\ j.of = r /\ j.wrote = perms[r] + 1
  BY DEF Idle
<1>5. perms'[r] >= j.wrote
  BY <1>1, <1>2, <1>4
<1>6. job' = [job EXCEPT ![w] = j] /\ job \in [Workers -> Job]
  BY DEF ChangeRole, IInv, TypeOK
<1> HIDE DEF j
<1>7. job' \in [Workers -> Job] /\ \A v \in Workers : job'[v] \in {job[v], Idle} \/ Announces(job'[v])
  BY <1>3, <1>4, <1>5, <1>6 DEF Announces
<1>8. budget' \in [Kinds -> Nat]
  <2>1. Spend("role") /\ budget \in [Kinds -> Nat] /\ "role" \in Kinds
    BY DEF ChangeRole, Kinds, IInv, TypeOK
  <2> QED
    BY <2>1, SpendOK
<1>9. fact' = fact /\ fact \in Facts /\ held' \in Roles /\ UNCHANGED <<version, roleVersion, cache, history>>
  BY DEF ChangeRole, IInv, TypeOK
<1>10. AtLeast(fact', fact)
  BY <1>9 DEF AtLeast, Facts
<1> QED
  BY <1>2, <1>7, <1>8, <1>9, <1>10, ChangedIInv

LEMMA ChangeSilentlyIInv == ASSUME IInv, ChangeSilently PROVE IInv'
<1>1. PICK k \in {"user", "sub"} : fact' = [fact EXCEPT ![k] = @ + 1]
  BY DEF ChangeSilently
<1>2. fact \in [Scopes -> Nat] /\ k \in Scopes
  BY DEF IInv, TypeOK, Facts, Scopes
<1>3. fact' \in Facts /\ AtLeast(fact', fact)
  BY <1>1, <1>2 DEF Facts, AtLeast
<1>4. budget' \in [Kinds -> Nat]
  <2>1. Spend("silent") /\ budget \in [Kinds -> Nat] /\ "silent" \in Kinds
    BY DEF ChangeSilently, Kinds, IInv, TypeOK
  <2> QED
    BY <2>1, SpendOK
<1>5. perms' = perms /\ perms \in [Roles -> Nat] /\ held' \in Roles
      /\ job' = job /\ job' \in [Workers -> Job]
  BY DEF ChangeSilently, IInv, TypeOK
<1>6. UNCHANGED <<version, roleVersion, cache, history>>
  BY DEF ChangeSilently
<1>7. \A x \in Roles : perms'[x] >= perms[x]
  BY <1>5
<1> QED
  BY <1>3, <1>4, <1>5, <1>6, <1>7, ChangedIInv

LEMMA AnnounceIInv == ASSUME IInv, NEW w \in Workers, Announce(w) PROVE IInv'
<1> DEFINE k == job[w].kind
           last == era[version]
           new == IF last[k] < job[w].wrote THEN [last EXCEPT ![k] = job[w].wrote] ELSE last
<1>1. job[w] \in Job /\ JobOK(job[w]) /\ job[w].pc = "announce" /\ k \in Scopes
  BY DEF IInv, TypeOK, JobsOK, Announce, At, Job
<1>2. fact[k] >= job[w].wrote /\ job[w].wrote \in Nat
  BY <1>1 DEF JobOK, Scopes, Job
<1>3. era \in Seq(Facts) /\ version \in Nat /\ version >= 1 /\ Len(era) = version
  BY DEF IInv, TypeOK, EraOK
<1>4. last \in Facts /\ AtLeast(fact, last)
  BY <1>3 DEF IInv, EraOK
<1>5. new \in Facts
  BY <1>1, <1>2, <1>4 DEF Facts
<1>6. AtLeast(fact, new)
  BY <1>1, <1>2, <1>4 DEF AtLeast, Facts
<1>7. version' = version + 1 /\ era' = Append(era, new)
  BY DEF Announce
<1> HIDE DEF new, last
<1>8. era' \in Seq(Facts) /\ Len(era') = version' /\ era'[version'] = new
      /\ \A i \in 1..version : era'[i] = era[i]
  BY <1>3, <1>5, <1>7
<1>9. job' = [job EXCEPT ![w] = Idle] /\ job \in [Workers -> Job]
  BY DEF Announce, End, IInv, TypeOK
<1>10. job' \in [Workers -> Job] /\ \A v \in Workers : job'[v] \in {job[v], Idle}
  BY <1>9, IdleOK
<1>11. UNCHANGED <<facts, roleVersion, cache, roleEra, past, slow, budget>>
  BY DEF Announce
<1>12. TypeOK'
  BY <1>3, <1>7, <1>8, <1>10, <1>11 DEF IInv, TypeOK, facts
<1>13. now' = now /\ AtLeast(fact', fact)
  BY <1>11, Numbers DEF now, facts, AtLeast, IInv
<1>14. Grows
  BY <1>3, <1>7, <1>8, <1>11, <1>13, Numbers DEF Grows, facts, IInv
<1>15. EraOK'
  BY <1>3, <1>6, <1>7, <1>8, <1>11 DEF IInv, EraOK, facts
<1>16. RoleEraOK' /\ PastOK'
  BY <1>11, <1>13 DEF IInv, RoleEraOK, PastOK, NotOlder, facts
<1> QED
  BY <1>10, <1>11, <1>12, <1>13, <1>14, <1>15, <1>16, GrownIInv

LEMMA AnnounceRoleIInv ==
  ASSUME IInv, NEW w \in Workers, AnnounceRole(w)
  PROVE  IInv'
<1> DEFINE r == job[w].of
           n == roleVersion[r]
           last == roleEra[r][n]
           new == IF last < job[w].wrote THEN job[w].wrote ELSE last
<1>1. job[w] \in Job /\ JobOK(job[w]) /\ job[w].pc = "announce" /\ job[w].kind = "role" /\ r \in Roles
  BY DEF IInv, TypeOK, JobsOK, AnnounceRole, At, Job
<1>2. perms[r] >= job[w].wrote /\ job[w].wrote \in Nat
  BY <1>1 DEF JobOK, Job
<1>3. /\ roleEra[r] \in Seq(Nat) /\ n \in Nat /\ n >= 1 /\ Len(roleEra[r]) = n
      /\ \A i \in 1..n : perms[r] >= roleEra[r][i]
  BY <1>1 DEF IInv, TypeOK, RoleEraOK
<1>4. last \in Nat /\ perms[r] >= last
  BY <1>3
<1>5. new \in Nat /\ perms[r] >= new
  BY <1>2, <1>4
<1>6. /\ roleVersion' = [roleVersion EXCEPT ![r] = n + 1]
      /\ roleEra' = [roleEra EXCEPT ![r] = Append(roleEra[r], new)]
  BY DEF AnnounceRole
<1> HIDE DEF new, last
<1> DEFINE s == Append(roleEra[r], new)
<1>7. s \in Seq(Nat) /\ Len(s) = n + 1 /\ s[n + 1] = new /\ \A i \in 1..n : s[i] = roleEra[r][i]
  BY <1>3, <1>5
<1> HIDE DEF s, n
<1>8. roleEra' = [roleEra EXCEPT ![r] = s]
  BY <1>6 DEF s
<1>9. roleEra \in [Roles -> Seq(Nat)] /\ roleVersion \in [Roles -> Nat] /\ roleVersion[r] = n
  BY DEF IInv, TypeOK, n
<1>10. /\ roleEra' \in [Roles -> Seq(Nat)] /\ roleVersion' \in [Roles -> Nat]
       /\ roleEra'[r] = s /\ roleVersion'[r] = n + 1
       /\ \A x \in Roles \ {r} : roleEra'[x] = roleEra[x] /\ roleVersion'[x] = roleVersion[x]
  BY <1>1, <1>3, <1>6, <1>7, <1>8, <1>9
<1>11. job' = [job EXCEPT ![w] = Idle] /\ job \in [Workers -> Job]
  BY DEF AnnounceRole, End, IInv, TypeOK
<1>12. job' \in [Workers -> Job] /\ \A v \in Workers : job'[v] \in {job[v], Idle}
  BY <1>11, IdleOK
<1>13. UNCHANGED <<facts, version, cache, era, past, slow, budget>>
  BY DEF AnnounceRole
<1>14. TypeOK'
  BY <1>10, <1>12, <1>13 DEF IInv, TypeOK, facts
<1>15. now' = now /\ AtLeast(fact', fact) /\ perms' = perms
  BY <1>13, Numbers DEF now, facts, AtLeast, IInv
<1>16. Grows
  <2>1. ASSUME NEW x \in Roles
        PROVE  /\ roleVersion'[x] >= roleVersion[x]
               /\ \A i \in 1..roleVersion[x] : roleEra'[x][i] = roleEra[x][i]
    <3>1. roleVersion[x] \in Nat
      BY <1>9
    <3>2. CASE x = r
      <4>1. roleVersion[x] = n /\ roleVersion'[x] = n + 1 /\ n \in Nat
        BY <1>3, <1>9, <1>10, <3>2
      <4>2. roleEra'[x] = s /\ \A i \in 1..n : s[i] = roleEra[x][i]
        BY <1>7, <1>10, <3>2
      <4> QED
        BY <4>1, <4>2
    <3>3. CASE x # r
      BY <1>10, <3>1, <3>3
    <3> QED
      BY <3>2, <3>3
  <2> QED
    BY <2>1, <1>13, <1>15, Numbers DEF Grows, IInv
<1>17. RoleEraOK'
  <2>1. ASSUME NEW x \in Roles
        PROVE  /\ roleVersion'[x] >= 1 /\ Len(roleEra'[x]) = roleVersion'[x]
               /\ \A i \in 1..roleVersion'[x] : perms[x] >= roleEra'[x][i]
    <3>1. CASE x = r
      <4>1. roleVersion'[x] = n + 1 /\ roleEra'[x] = s /\ n \in Nat /\ n >= 1
        BY <1>3, <1>10, <3>1
      <4>2. ASSUME NEW i \in 1..(n + 1)
            PROVE  perms[x] >= s[i]
        <5>1. CASE i = n + 1
          BY <1>5, <1>7, <3>1, <5>1
        <5>2. CASE i # n + 1
          <6>1. i \in 1..n
            BY <4>1, <5>2
          <6> QED
            BY <1>3, <1>7, <3>1, <6>1
        <5> QED
          BY <5>1, <5>2
      <4>3. Len(s) = n + 1
        BY <1>7
      <4> QED
        BY <4>1, <4>2, <4>3
    <3>2. CASE x # r
      BY <1>10, <3>2 DEF IInv, RoleEraOK
    <3> QED
      BY <3>1, <3>2
  <2> QED
    BY <2>1, <1>15 DEF RoleEraOK
<1>18. EraOK' /\ PastOK'
  BY <1>13, <1>15 DEF IInv, EraOK, PastOK, NotOlder, facts
<1> QED
  BY <1>12, <1>13, <1>14, <1>15, <1>16, <1>17, <1>18, GrownIInv

LEMMA TickIInv == ASSUME IInv, Tick PROVE IInv'
<1> DEFINE S == [fact : Facts, perms : [Roles -> Nat]]
           m == [fact |-> fact, perms |-> perms]
<1>1. past \in Seq(S) /\ m \in S /\ past' = Append(past, m)
  BY DEF IInv, TypeOK, Tick
<1>2. m.fact = fact /\ m.perms = perms
  OBVIOUS
<1> HIDE DEF S, m
<1>3. past' \in Seq(S) /\ now' = now + 1 /\ now \in Nat /\ now' \in Nat
      /\ past'[now + 1] = m /\ \A i \in 1..now : past'[i] = past[i]
  BY <1>1 DEF now
<1>4. /\ UNCHANGED <<facts, version, roleVersion, job, era, roleEra, budget>>
      /\ cache' \subseteq cache
      /\ slow' = (slow \/ \E w \in Workers : job[w].pc \notin {"idle", "announce"})
  BY DEF Tick
<1>5. TypeOK'
  BY <1>3, <1>4 DEF IInv, TypeOK, facts, S
<1>6. AtLeast(fact', fact) /\ fact' = fact /\ perms' = perms
  BY <1>4, Numbers DEF facts, AtLeast, IInv
<1>7. Grows
  <2>1. version' = version /\ roleVersion' = roleVersion /\ era' = era /\ roleEra' = roleEra
    BY <1>4
  <2>2. slow => slow'
    BY <1>4, Zenon
  <2>3. now' >= now
    BY <1>3
  <2>4. version \in Nat /\ \A r \in Roles : roleVersion[r] \in Nat /\ perms[r] \in Nat
    BY Numbers DEF IInv
  <2> QED
    BY <1>3, <1>6, <2>1, <2>2, <2>3, <2>4 DEF Grows
<1>8. EraOK' /\ RoleEraOK'
  BY <1>4, <1>6 DEF IInv, EraOK, RoleEraOK
<1>9. NotOlder(m, m)
  BY <1>2, Numbers DEF IInv, NotOlder, AtLeast
<1>10. \A i \in 1..now : NotOlder(m, past[i])
  BY DEF IInv, PastOK, m
<1>11. \A i \in 1..now' : NotOlder(m, past'[i])
  BY <1>3, <1>9, <1>10
<1>12. \A j \in 1..now' : \A i \in 1..j : NotOlder(past'[j], past'[i])
  <2>1. ASSUME NEW j \in 1..now', NEW i \in 1..j
        PROVE  NotOlder(past'[j], past'[i])
    <3>1. CASE j = now + 1
      BY <1>3, <1>11, <3>1
    <3>2. CASE j # now + 1
      <4>1. j \in 1..now /\ i \in 1..now
        BY <1>3, <3>2
      <4> QED
        BY <1>3, <4>1 DEF IInv, PastOK
    <3> QED
      BY <3>1, <3>2
  <2> QED
    BY <2>1
<1>13. PastOK'
  BY <1>3, <1>6, <1>11, <1>12 DEF PastOK, NotOlder, m
<1>14. \A v \in Workers : job'[v] \in {job[v], Idle} /\ (job[v].pc \in Resolving => slow')
  BY <1>4 DEF Resolving
<1> QED
  BY <1>4, <1>5, <1>7, <1>8, <1>13, <1>14, GrownIInv

-----------------------------------------------------------------------------
LEMMA InitIInv == Init => IInv
<1> SUFFICES ASSUME Init PROVE IInv
  OBVIOUS
<1> DEFINE S == [fact : Facts, perms : [Roles -> Nat]]
<1>1. fact \in Facts /\ perms \in [Roles -> Nat] /\ roleVersion \in [Roles -> Nat]
  BY DEF Init, Facts
<1>2. [fact |-> fact, perms |-> perms] \in S
  BY <1>1
<1> HIDE DEF S
<1>3. past = <<[fact |-> fact, perms |-> perms]>> /\ past \in Seq(S) /\ Len(past) = 1
  BY <1>2 DEF Init
<1>4. job \in [Workers -> Job] /\ budget \in [Kinds -> Nat]
  BY IdleOK, PrincipalsAssumption DEF Init
<1>5. TypeOK
  <2>1. <<fact>> \in Seq(Facts) /\ <<0>> \in Seq(Nat)
    BY <1>1
  <2>2. era \in Seq(Facts) /\ roleEra \in [Roles -> Seq(Nat)]
    BY <2>1 DEF Init
  <2>3. past \in Seq([fact : Facts, perms : [Roles -> Nat]])
    BY <1>3 DEF S
  <2>4. held \in Roles /\ version \in Nat /\ cache \subseteq Entry /\ slow \in BOOLEAN
    BY DEF Init
  <2> QED
    BY <1>1, <1>4, <2>2, <2>3, <2>4 DEF TypeOK
<1>6. EraOK
  BY <1>1 DEF Init, EraOK, AtLeast, Facts
<1>7. RoleEraOK
  <2>1. ASSUME NEW r \in Roles
        PROVE  roleVersion[r] = 1 /\ roleEra[r] = <<0>> /\ perms[r] = 0
    BY DEF Init
  <2> DEFINE s == <<0>>
  <2>2. Len(s) = 1 /\ \A i \in 1..1 : s[i] = 0
    OBVIOUS
  <2> HIDE DEF s
  <2>3. ASSUME NEW r \in Roles
        PROVE  /\ roleVersion[r] >= 1 /\ Len(roleEra[r]) = roleVersion[r]
               /\ \A i \in 1..roleVersion[r] : perms[r] >= roleEra[r][i]
    <3>1. roleVersion[r] = 1 /\ roleEra[r] = s /\ perms[r] = 0
      BY <2>1 DEF s
    <3>2. \A i \in 1..roleVersion[r] : perms[r] >= roleEra[r][i]
      BY <2>2, <3>1
    <3> QED
      BY <2>2, <3>1, <3>2
  <2> QED
    BY <2>3 DEF RoleEraOK
<1>8. PastOK
  BY <1>1, <1>3 DEF PastOK, NotOlder, AtLeast, Facts, now
<1> QED
  BY <1>5, <1>6, <1>7, <1>8, IdleOK DEF Init, IInv, CacheOK, JobsOK

LEMMA NextIInv == IInv /\ [Next]_vars => IInv'
<1> SUFFICES ASSUME IInv, [Next]_vars PROVE IInv'
  OBVIOUS
<1>1. CASE Next
  <2>1. ASSUME NEW w \in Workers, Decide(w) \/ Abort(w)
        PROVE  IInv'
    <3>1. Still /\ End(w) /\ cache' \subseteq cache /\ budget' \in [Kinds -> Nat]
      BY <2>1 DEF Decide, Abort, Spend, Still, IInv, TypeOK
    <3> QED
      BY <3>1, EndIInv
  <2> QED
    BY <1>1, <2>1, ChangeSilentlyIInv, TickIInv, ChangeIInv, ChangeRoleIInv, AnnounceIInv,
       AnnounceRoleIInv, ReadUserIInv, ReadRolesIInv, ReadRightsIInv, HitIInv, MissIInv,
       StoreIInv DEF Next
<1>2. CASE UNCHANGED vars
  <2>1. Still /\ now' = now /\ TypeOK'
    BY <1>2 DEF vars, Still, facts, history, now, IInv, TypeOK
  <2>2. EraOK' /\ RoleEraOK' /\ PastOK' /\ Grows
    BY <2>1, StillHistory, StillGrows DEF IInv
  <2>3. cache' \subseteq cache /\ \A v \in Workers : job'[v] \in {job[v], Idle}
    BY <1>2 DEF vars
  <2> QED
    BY <2>1, <2>2, <2>3, GrownIInv
<1> QED
  BY <1>1, <1>2

LEMMA InvariantHolds == Spec => []IInv
  BY InitIInv, NextIInv, PTL DEF Spec

\* Every variable of the cache of principals keeps its type.
THEOREM PrincipalsTypeCorrect == Spec => []TypeOK
<1>1. IInv => TypeOK
  BY DEF IInv
<1> QED
  BY <1>1, InvariantHolds, PTL

\* For any number of requests, roles and changes, and whatever overlaps or dies,
\* a request is decided on every change that was announced before it started.
THEOREM ChangesAreSeenHolds == Spec => []ChangesAreSeen
  BY InvariantHolds, IInvImpliesSeen, PTL

\* While principals are resolved without delay nothing older than TTL decides a
\* request, whatever was never announced.
THEOREM StaleAtMostTTLHolds == Spec => []StaleAtMostTTL
  BY InvariantHolds, IInvImpliesTTL, PTL

-----------------------------------------------------------------------------
(* The worker of Delivery. *)

\* Sequences: an element occurs, and occurs once.
In(x, s) == \E i \in 1..Len(s) : s[i] = x
OnceEach(s) == \A i, j \in 1..Len(s) : s[i] = s[j] => i = j

LEMMA Appended ==
  ASSUME NEW S, NEW s \in Seq(S), NEW x \in S
  PROVE  /\ Append(s, x) \in Seq(S)
         /\ \A y : In(y, Append(s, x)) <=> In(y, s) \/ y = x
         /\ OnceEach(s) /\ ~In(x, s) => OnceEach(Append(s, x))
<1> DEFINE a == Append(s, x)
<1>1. /\ a \in Seq(S) /\ Len(a) = Len(s) + 1 /\ a[Len(s) + 1] = x
      /\ \A i \in 1..Len(s) : a[i] = s[i]
      /\ Len(s) \in Nat
  BY AppendProperties, LenProperties
<1> HIDE DEF a
<1>2. \A y : In(y, a) <=> In(y, s) \/ y = x
  BY <1>1 DEF In
<1>3. OnceEach(s) /\ ~In(x, s) => OnceEach(a)
  BY <1>1 DEF In, OnceEach
<1> QED
  BY <1>1, <1>2, <1>3 DEF a

LEMMA Pushed ==
  ASSUME NEW S, NEW s \in Seq(S), NEW x \in S
  PROVE  /\ <<x>> \o s \in Seq(S) /\ Len(<<x>> \o s) = Len(s) + 1
         /\ \A y : In(y, <<x>> \o s) <=> In(y, s) \/ y = x
         /\ OnceEach(s) /\ ~In(x, s) => OnceEach(<<x>> \o s)
<1> DEFINE a == <<x>> \o s
<1>1. <<x>> \in Seq(S) /\ Len(<<x>>) = 1 /\ <<x>>[1] = x
  OBVIOUS
<1>2. /\ a \in Seq(S) /\ Len(a) = 1 + Len(s)
      /\ \A i \in 1..(1 + Len(s)) : a[i] = IF i <= 1 THEN <<x>>[i] ELSE s[i - 1]
      /\ Len(s) \in Nat
  BY <1>1, ConcatProperties, LenProperties
<1>3. a[1] = x /\ \A i \in 1..Len(s) : a[i + 1] = s[i]
  BY <1>1, <1>2
<1> HIDE DEF a
<1>4. /\ \A i \in 1..Len(a) : i = 1 \/ (i - 1 \in 1..Len(s) /\ a[i] = s[i - 1])
      /\ \A j \in 1..Len(s) : j + 1 \in 1..Len(a)
      /\ 1 \in 1..Len(a) /\ Len(a) = Len(s) + 1
  BY <1>2, <1>3
<1>5. \A y : In(y, a) <=> In(y, s) \/ y = x
  <2>1. ASSUME NEW y, In(y, s)
        PROVE  In(y, a)
    BY <1>3, <1>4, <2>1 DEF In
  <2>2. ASSUME NEW y, In(y, a)
        PROVE  In(y, s) \/ y = x
    BY <1>3, <1>4, <2>2 DEF In
  <2>3. In(x, a)
    BY <1>3, <1>4 DEF In
  <2> QED
    BY <2>1, <2>2, <2>3
<1>6. ASSUME OnceEach(s), ~In(x, s), NEW i \in 1..Len(a), NEW j \in 1..Len(a), a[i] = a[j]
      PROVE  i = j
  <2>1. i = 1 /\ j # 1 => FALSE
    BY <1>3, <1>4, <1>6 DEF In
  <2>2. j = 1 /\ i # 1 => FALSE
    BY <1>3, <1>4, <1>6 DEF In
  <2>3. i # 1 /\ j # 1 => i - 1 = j - 1
    BY <1>4, <1>6 DEF OnceEach
  <2> QED
    BY <1>2, <1>6, <2>1, <2>2, <2>3
<1>7. OnceEach(s) /\ ~In(x, s) => OnceEach(a)
  BY <1>6 DEF OnceEach
<1> QED
  BY <1>2, <1>4, <1>5, <1>7 DEF a

LEMMA Taken ==
  ASSUME NEW S, NEW s \in Seq(S), s # <<>>
  PROVE  /\ Tail(s) \in Seq(S) /\ Head(s) \in S /\ In(Head(s), s)
         /\ \A y : In(y, Tail(s)) => In(y, s)
         /\ OnceEach(s) => OnceEach(Tail(s)) /\ ~In(Head(s), Tail(s))
<1> DEFINE a == Tail(s)
<1>1. /\ a \in Seq(S) /\ Len(a) = Len(s) - 1 /\ Head(s) \in S /\ Len(s) \in Nat \ {0}
      /\ \A i \in 1..Len(a) : a[i] = s[i + 1]
  BY HeadTailProperties, EmptySeq
<1>2. Head(s) = s[1]
  BY <1>1
<1> HIDE DEF a
<1>3. In(Head(s), s) /\ \A y : In(y, a) => In(y, s)
  BY <1>1, <1>2 DEF In
<1>4. OnceEach(s) => OnceEach(a) /\ ~In(Head(s), a)
  BY <1>1, <1>2 DEF In, OnceEach
<1> QED
  BY <1>1, <1>3, <1>4 DEF a

LEMMA Cut ==
  ASSUME NEW S, NEW s \in Seq(S), NEW n \in 0..Len(s)
  PROVE  /\ SubSeq(s, 1, n) \in Seq(S) /\ Len(SubSeq(s, 1, n)) = n
         /\ \A i \in 1..n : SubSeq(s, 1, n)[i] = s[i]
         /\ \A y : In(y, SubSeq(s, 1, n)) => In(y, s)
         /\ OnceEach(s) => OnceEach(SubSeq(s, 1, n))
<1> DEFINE a == SubSeq(s, 1, n)
<1>1. Len(s) \in Nat /\ n \in Int /\ \A i \in 1..n : s[i] \in S
  BY LenProperties, ElementOfSeq
<1>2. /\ a \in Seq(S) /\ Len(a) = (IF 1 <= n THEN n - 1 + 1 ELSE 0)
      /\ \A i \in 1..(n - 1 + 1) : a[i] = s[1 + i - 1]
  BY <1>1, SubSeqProperties
<1>3. Len(a) = n /\ \A i \in 1..n : a[i] = s[i]
  BY <1>1, <1>2
<1> HIDE DEF a
<1>4. /\ \A y : In(y, a) => In(y, s)
      /\ OnceEach(s) => OnceEach(a)
  BY <1>1, <1>3 DEF In, OnceEach
<1> QED
  BY <1>2, <1>3, <1>4 DEF a

\* Elements of a prefix.
LEMMA PrefixElements ==
  ASSUME NEW S, NEW s \in Seq(S), NEW t \in Seq(S)
  PROVE  IsPrefix(s, t) <=> Len(s) <= Len(t) /\ \A i \in 1..Len(s) : s[i] = t[i]
<1>1. Len(s) \in Nat /\ Len(t) \in Nat
  BY LenProperties
<1>2. SubSeq(s, 1, Len(s)) = s
  BY SubSeqFull
<1>3. CASE Len(s) <= Len(t)
  <2>1. Len(s) \in 0..Len(t)
    BY <1>1, <1>3
  <2>2. /\ SubSeq(t, 1, Len(s)) \in Seq(S) /\ Len(SubSeq(t, 1, Len(s))) = Len(s)
        /\ \A i \in 1..Len(s) : SubSeq(t, 1, Len(s))[i] = t[i]
    BY <2>1, Cut
  <2>3. ASSUME \A i \in 1..Len(s) : s[i] = t[i]
        PROVE  s = SubSeq(t, 1, Len(s))
    BY <2>2, <2>3, SeqEqual
  <2> QED
    BY <1>2, <1>3, <2>2, <2>3 DEF IsPrefix
<1> QED
  BY <1>1, <1>3 DEF IsPrefix

LEMMA PushedPrefix ==
  ASSUME NEW S, NEW s \in Seq(S), NEW t \in Seq(S), NEW x \in S, IsPrefix(s, t)
  PROVE  IsPrefix(<<x>> \o s, <<x>> \o t)
<1> DEFINE a == <<x>> \o s
           b == <<x>> \o t
<1>1. <<x>> \in Seq(S) /\ Len(<<x>>) = 1 /\ Len(s) \in Nat /\ Len(t) \in Nat
  BY LenProperties
<1>2. /\ a \in Seq(S) /\ Len(a) = 1 + Len(s)
      /\ \A i \in 1..(1 + Len(s)) : a[i] = IF i <= 1 THEN <<x>>[i] ELSE s[i - 1]
  BY <1>1, ConcatProperties
<1>3. /\ b \in Seq(S) /\ Len(b) = 1 + Len(t)
      /\ \A i \in 1..(1 + Len(t)) : b[i] = IF i <= 1 THEN <<x>>[i] ELSE t[i - 1]
  BY <1>1, ConcatProperties
<1>4. Len(s) <= Len(t) /\ \A i \in 1..Len(s) : s[i] = t[i]
  BY PrefixElements
<1> HIDE DEF a, b
<1>5. ASSUME NEW i \in 1..Len(a)
      PROVE  a[i] = b[i]
  <2>1. i \in 1..(1 + Len(s)) /\ i \in 1..(1 + Len(t))
    BY <1>1, <1>2, <1>4
  <2>2. i > 1 => i - 1 \in 1..Len(s)
    BY <1>1, <2>1
  <2> QED
    BY <1>2, <1>3, <1>4, <2>1, <2>2
<1>6. Len(a) <= Len(b)
  BY <1>1, <1>2, <1>3, <1>4
<1>7. IsPrefix(a, b)
  BY <1>2, <1>3, <1>5, <1>6, PrefixElements
<1> QED
  BY <1>7 DEF a, b

LEMMA CutPrefix ==
  ASSUME NEW S, NEW s \in Seq(S), NEW t \in Seq(S), NEW n \in 0..Len(s), IsPrefix(s, t)
  PROVE  IsPrefix(SubSeq(s, 1, n), t)
<1> DEFINE a == SubSeq(s, 1, n)
<1>1. a \in Seq(S) /\ Len(a) = n /\ \A i \in 1..n : a[i] = s[i]
  BY Cut
<1>2. Len(s) <= Len(t) /\ \A i \in 1..Len(s) : s[i] = t[i]
  BY PrefixElements
<1>3. Len(s) \in Nat /\ Len(t) \in Nat
  BY LenProperties
<1> HIDE DEF a
<1>4. Len(a) <= Len(t) /\ \A i \in 1..Len(a) : a[i] = t[i]
  BY <1>1, <1>2, <1>3
<1>5. IsPrefix(a, t)
  BY <1>1, <1>4, PrefixElements
<1> QED
  BY <1>5 DEF a


LEMMA DeliveryBounds ==
  /\ MaxAttempts \in Nat \ {0} /\ DeadMax \in Nat \ {0}
  /\ Window \in Nat /\ ClaimDays \in Nat /\ Validity \in Nat
  /\ \A q \in Queues : q \in {"email", "sms"}
  /\ \A m : QueueOf(m) \in Queues
  BY DeliveryAssumption DEF Queues, QueueOf

LEMMA WaitingFacts ==
  /\ Waiting \in Loop /\ Waiting.pc = "pop" /\ Waiting.msgs = {}
  /\ \A t : /\ Again(t) \in Loop /\ Again(t).pc \in {"pop", "over"} /\ Again(t).msgs = {}
            /\ Again(t).pc = "over" => mode[t] # "running"
<1>1. Waiting \in Loop /\ Waiting.pc = "pop" /\ Waiting.msgs = {}
  BY DeliveryAssumption DEF Waiting, Loop
<1> DEFINE over == [Waiting EXCEPT !.pc = "over"]
<1>2. over \in Loop /\ over.pc = "over" /\ over.msgs = {}
  BY DeliveryAssumption DEF Waiting, Loop
<1>3. \A t : Again(t) = IF mode[t] = "running" THEN Waiting ELSE over
  BY DEF Again
<1> HIDE DEF over
<1> QED
  BY <1>1, <1>2, <1>3

LEMMA NoSweepFacts ==
  NoSweep \in Sweep /\ NoSweep.pc = "idle" /\ NoSweep.row = {} /\ NoSweep.rows = {}
  BY DEF NoSweep, Sweep

LEMMA LoopBecomes ==
  ASSUME DeliveryTypeOK, NEW t \in Tasks, NEW l \in Loop, loop' = [loop EXCEPT ![t] = l]
  PROVE  loop' \in [Tasks -> Loop] /\ loop'[t] = l /\ \A u \in Tasks \ {t} : loop'[u] = loop[u]
  BY DEF DeliveryTypeOK

LEMMA SweepBecomes ==
  ASSUME DeliveryTypeOK, NEW t \in Tasks, NEW s \in Sweep, sweep' = [sweep EXCEPT ![t] = s]
  PROVE  sweep' \in [Tasks -> Sweep] /\ sweep'[t] = s /\ \A u \in Tasks \ {t} : sweep'[u] = sweep[u]
  BY DEF DeliveryTypeOK

LEMMA SpendFacts ==
  ASSUME DeliveryTypeOK, NEW k \in Events, Use(k)
  PROVE  /\ spent' \in [Events -> Nat] /\ allowed' \in [Events -> Nat]
         /\ spent'[k] = spent[k] + 1
         /\ \A j \in Events \ {k} : spent'[j] = spent[j]
         /\ \A j \in Events : spent'[j] >= spent[j]
<1>1. spent \in [Events -> Nat] /\ allowed \in [Events -> Nat] /\ spent' = [spent EXCEPT ![k] = @ + 1]
      /\ allowed' = allowed
  BY DEF DeliveryTypeOK, Use
<1>2. spent'[k] = spent[k] + 1 /\ \A j \in Events \ {k} : spent'[j] = spent[j]
  BY <1>1
<1> QED
  BY <1>1, <1>2

LEMMA NothingSpent ==
  ASSUME DeliveryTypeOK, UNCHANGED bounds
  PROVE  /\ spent' \in [Events -> Nat] /\ allowed' \in [Events -> Nat] /\ spent' = spent
         /\ \A j \in Events : spent'[j] >= spent[j]
  BY DEF bounds, DeliveryTypeOK

-----------------------------------------------------------------------------
(* Types. *)

\* What a step of a delivery changes.
LEMMA DeliveryTypes ==
  ASSUME DeliveryTypeOK, UNCHANGED <<reminders, mode, waits, sweep>>,
         queue' \in [Queues -> Seq(Messages)], dead' \in [Queues -> Seq(Messages)],
         parked' \in [Queues -> Seq(Messages)], sent' \in [Messages -> Nat],
         queued' \subseteq Messages, gone' \subseteq Messages, signalled' \subseteq Messages,
         loop' \in [Tasks -> Loop], spent' \in [Events -> Nat], allowed' \in [Events -> Nat]
  PROVE  DeliveryTypeOK'
  BY DEF DeliveryTypeOK, reminders

LEMMA QueueTypes ==
  ASSUME DeliveryTypeOK, NEW m \in Messages, Queue(m)
  PROVE  DeliveryTypeOK'
<1>1. /\ Use("message") /\ queue' = [queue EXCEPT ![QueueOf(m)] = Append(@, m)]
      /\ queued' = queued \cup {m} /\ UNCHANGED <<dead, sent, parked, gone, signalled, loop>>
      /\ UNCHANGED <<reminders, mode, waits, sweep>>
  BY DEF Queue, processes
<1>2. queue' \in [Queues -> Seq(Messages)]
  BY <1>1, DeliveryBounds DEF DeliveryTypeOK
<1>3. spent' \in [Events -> Nat] /\ allowed' \in [Events -> Nat]
  BY <1>1, SpendFacts DEF Events
<1> QED
  BY <1>1, <1>2, <1>3, DeliveryTypes DEF DeliveryTypeOK

LEMMA PopTypes ==
  ASSUME DeliveryTypeOK, NEW t \in Tasks, NEW q \in Queues, Pop(t, q)
  PROVE  DeliveryTypeOK'
<1> DEFINE l == [pc |-> "try", msgs |-> {Head(queue[q])}, attempt |-> 1]
<1>1. /\ queue[q] # <<>> /\ queue' = [queue EXCEPT ![q] = Tail(@)] /\ loop' = [loop EXCEPT ![t] = l]
      /\ UNCHANGED <<dead, queued, sent, parked, gone, signalled, reminders, mode, waits, sweep, bounds>>
  BY DEF Pop, Popped
<1>2. queue[q] \in Seq(Messages)
  BY DEF DeliveryTypeOK
<1>3. Head(queue[q]) \in Messages /\ Tail(queue[q]) \in Seq(Messages)
  BY <1>1, <1>2, Taken
<1>4. l \in Loop
  BY <1>3, DeliveryAssumption DEF Loop
<1> HIDE DEF l
<1>5. loop' \in [Tasks -> Loop] /\ queue' \in [Queues -> Seq(Messages)]
  BY <1>1, <1>3, <1>4, LoopBecomes DEF DeliveryTypeOK
<1> QED
  BY <1>1, <1>5, NothingSpent, DeliveryTypes DEF DeliveryTypeOK

LEMMA StopPoppingTypes ==
  ASSUME DeliveryTypeOK, NEW t \in Tasks, StopPopping(t)
  PROVE  DeliveryTypeOK'
<1>1. /\ loop' = [loop EXCEPT ![t] = Again(t)]
      /\ UNCHANGED <<queue, dead, sent, queued, parked, gone, signalled, reminders, mode, waits,
                     sweep, bounds>>
  BY DEF StopPopping, messages
<1>2. loop' \in [Tasks -> Loop]
  BY <1>1, WaitingFacts, LoopBecomes
<1> QED
  BY <1>1, <1>2, NothingSpent, DeliveryTypes DEF DeliveryTypeOK

LEMMA AcceptTypes ==
  ASSUME DeliveryTypeOK, NEW t \in Tasks, Accept(t)
  PROVE  DeliveryTypeOK'
<1>1. /\ loop' = [loop EXCEPT ![t] = Again(t)]
      /\ sent' = [m \in Messages |-> sent[m] + (IF m \in loop[t].msgs THEN 1 ELSE 0)]
      /\ UNCHANGED <<queue, dead, queued, parked, gone, signalled, reminders, mode, waits, sweep, bounds>>
  BY DEF Accept
<1>2. loop' \in [Tasks -> Loop]
  BY <1>1, WaitingFacts, LoopBecomes
<1>3. sent' \in [Messages -> Nat]
  BY <1>1 DEF DeliveryTypeOK
<1> QED
  BY <1>1, <1>2, <1>3, NothingSpent, DeliveryTypes DEF DeliveryTypeOK

LEMMA RefusedFacts ==
  ASSUME DeliveryTypeOK, NEW t \in Tasks, NEW m
  PROVE  /\ Refused(t, m) \in Loop /\ Refused(t, m).msgs = loop[t].msgs
         /\ Refused(t, m).pc \in {loop[t].pc, "park"}
<1>1. loop[t] \in Loop
  BY DEF DeliveryTypeOK
<1> DEFINE a == [loop[t] EXCEPT !.attempt = @ + 1]
           b == [loop[t] EXCEPT !.pc = "park"]
<1>2. a.msgs = loop[t].msgs /\ a.pc = loop[t].pc
      /\ (loop[t].attempt < MaxAttempts => a \in Loop)
  BY <1>1, DeliveryAssumption DEF Loop
<1>3. b \in Loop /\ b.msgs = loop[t].msgs /\ b.pc = "park"
  BY <1>1 DEF Loop
<1>4. Refused(t, m) = IF loop[t].attempt < MaxAttempts THEN a ELSE b
  BY DEF Refused
<1> HIDE DEF a, b
<1> QED
  BY <1>2, <1>3, <1>4

LEMMA RefuseTypes ==
  ASSUME DeliveryTypeOK, NEW t \in Tasks, NEW m \in Messages, NEW accepted \in BOOLEAN,
         Refuse(t, m, accepted)
  PROVE  DeliveryTypeOK'
<1> DEFINE k == IF accepted THEN "echo" ELSE "refusal"
           n == IF accepted THEN 1 ELSE 0
<1>1. /\ loop' = [loop EXCEPT ![t] = Refused(t, m)] /\ Use(k) /\ sent' = [sent EXCEPT ![m] = @ + n]
      /\ UNCHANGED <<queue, dead, queued, parked, gone, signalled, reminders, mode, waits, sweep>>
  BY DEF Refuse
<1>2. k \in Events /\ n \in Nat
  BY DEF Events
<1> HIDE DEF k, n
<1>3. loop' \in [Tasks -> Loop] /\ sent' \in [Messages -> Nat]
  BY <1>1, <1>2, RefusedFacts, LoopBecomes DEF DeliveryTypeOK
<1> QED
  BY <1>1, <1>2, <1>3, SpendFacts, DeliveryTypes DEF DeliveryTypeOK

LEMMA PcFacts ==
  ASSUME DeliveryTypeOK, NEW t \in Tasks, loop' = [loop EXCEPT ![t].pc = "trim"]
  PROVE  /\ loop' \in [Tasks -> Loop] /\ loop'[t].pc = "trim" /\ loop'[t].msgs = loop[t].msgs
         /\ \A u \in Tasks \ {t} : loop'[u] = loop[u]
<1> DEFINE l == [loop[t] EXCEPT !.pc = "trim"]
<1>1. loop[t] \in Loop /\ loop' = [loop EXCEPT ![t] = l]
  BY DEF DeliveryTypeOK
<1>2. l \in Loop /\ l.pc = "trim" /\ l.msgs = loop[t].msgs
  BY <1>1 DEF Loop
<1> HIDE DEF l
<1> QED
  BY <1>1, <1>2, LoopBecomes

LEMMA ParkTypes ==
  ASSUME DeliveryTypeOK, NEW t \in Tasks, NEW m \in Messages, Park(t, m)
  PROVE  DeliveryTypeOK'
<1>1. /\ dead' = [dead EXCEPT ![QueueOf(m)] = <<m>> \o @]
      /\ parked' = [parked EXCEPT ![QueueOf(m)] = <<m>> \o @]
      /\ loop' = [loop EXCEPT ![t].pc = "trim"]
      /\ UNCHANGED <<queue, queued, sent, gone, signalled, reminders, mode, waits, sweep, bounds>>
  BY DEF Park
<1>2. \A s \in Seq(Messages) : <<m>> \o s \in Seq(Messages)
  BY Pushed
<1>3. dead' \in [Queues -> Seq(Messages)] /\ parked' \in [Queues -> Seq(Messages)]
  BY <1>1, <1>2, DeliveryBounds DEF DeliveryTypeOK
<1> QED
  BY <1>1, <1>3, PcFacts, NothingSpent, DeliveryTypes DEF DeliveryTypeOK

LEMMA LoseParkedTypes ==
  ASSUME DeliveryTypeOK, NEW t \in Tasks, LoseParked(t)
  PROVE  DeliveryTypeOK'
<1>1. /\ gone' = gone \cup loop[t].msgs /\ loop' = [loop EXCEPT ![t] = Again(t)]
      /\ Use("redis") \/ UNCHANGED bounds
      /\ UNCHANGED <<queue, dead, queued, sent, parked, signalled, reminders, mode, waits, sweep>>
  BY DEF LoseParked
<1>2. loop' \in [Tasks -> Loop] /\ gone' \subseteq Messages
  BY <1>1, WaitingFacts, LoopBecomes DEF DeliveryTypeOK, Loop
<1>3. spent' \in [Events -> Nat] /\ allowed' \in [Events -> Nat]
  BY <1>1, SpendFacts, NothingSpent DEF Events
<1> QED
  BY <1>1, <1>2, <1>3, DeliveryTypes DEF DeliveryTypeOK

LEMMA TrimmedFacts ==
  ASSUME NEW q, NEW l \in Seq(Messages)
  PROVE  /\ Trimmed(q, l) \in Seq(Messages) /\ Len(Trimmed(q, l)) <= DeadMax
         /\ Len(l) < DeadMax => Trimmed(q, l) = l
         /\ Len(l) >= DeadMax => Len(Trimmed(q, l)) = DeadMax
         /\ \A y : In(y, Trimmed(q, l)) => In(y, l)
         /\ OnceEach(l) => OnceEach(Trimmed(q, l))
         /\ \A s \in Seq(Messages) : IsPrefix(l, s) => IsPrefix(Trimmed(q, l), s)
<1> DEFINE n == IF Len(l) < DeadMax THEN Len(l) ELSE DeadMax
<1>1. Len(l) \in Nat /\ n \in 0..Len(l) /\ n <= DeadMax
  BY LenProperties, DeliveryBounds
<1>2. Trimmed(q, l) = SubSeq(l, 1, n)
  BY DEF Trimmed
<1>3. Len(l) < DeadMax => n = Len(l)
  OBVIOUS
<1>4. Len(l) >= DeadMax => n = DeadMax
  BY <1>1, DeliveryBounds
<1> HIDE DEF n
<1>5. SubSeq(l, 1, Len(l)) = l
  BY SubSeqFull
<1>6. /\ SubSeq(l, 1, n) \in Seq(Messages) /\ Len(SubSeq(l, 1, n)) = n
      /\ \A y : In(y, SubSeq(l, 1, n)) => In(y, l)
      /\ OnceEach(l) => OnceEach(SubSeq(l, 1, n))
  BY <1>1, Cut
<1>7. \A s \in Seq(Messages) : IsPrefix(l, s) => IsPrefix(SubSeq(l, 1, n), s)
  BY <1>1, CutPrefix
<1> QED
  BY <1>1, <1>2, <1>3, <1>4, <1>5, <1>6, <1>7

LEMMA TrimTypes ==
  ASSUME DeliveryTypeOK, NEW t \in Tasks, NEW m \in Messages, Trim(t, m)
  PROVE  DeliveryTypeOK'
<1>1. /\ dead' = [dead EXCEPT ![QueueOf(m)] = Trimmed(QueueOf(m), @)]
      /\ loop' = [loop EXCEPT ![t] = Again(t)]
      /\ UNCHANGED <<queue, queued, sent, parked, gone, signalled, reminders, mode, waits, sweep, bounds>>
  BY DEF Trim
<1>2. \A q, l : l \in Seq(Messages) => Trimmed(q, l) \in Seq(Messages)
  BY TrimmedFacts
<1>3. dead' \in [Queues -> Seq(Messages)]
  BY <1>1, <1>2, DeliveryBounds DEF DeliveryTypeOK
<1>4. loop' \in [Tasks -> Loop]
  BY <1>1, WaitingFacts, LoopBecomes
<1> QED
  BY <1>1, <1>3, <1>4, NothingSpent, DeliveryTypes DEF DeliveryTypeOK

\* What a step of the clock or of a sweep changes.
LEMMA ReminderTypes ==
  ASSUME DeliveryTypeOK, UNCHANGED <<messages, mode, waits, loop>>,
         day' \in Nat, endsAt' \in [Reminders -> Nat], claims' \subseteq Claim,
         mailed' \in [Reminders -> Seq(Nat)], swept' \in BOOLEAN, missed' \in BOOLEAN,
         sweep' \in [Tasks -> Sweep], spent' \in [Events -> Nat], allowed' \in [Events -> Nat]
  PROVE  DeliveryTypeOK'
  BY DEF DeliveryTypeOK, messages

LEMMA TickTypes == ASSUME DeliveryTypeOK, PassDay PROVE DeliveryTypeOK'
<1>1. /\ Use("day") /\ day' = day + 1 /\ claims' \subseteq claims /\ swept' = FALSE
      /\ missed' = (missed \/ ~swept \/ \E t \in Tasks : sweep[t].pc # "idle")
      /\ UNCHANGED <<endsAt, mailed, messages, mode, waits, loop, sweep>>
  BY DEF PassDay, processes
<1>2. missed' \in BOOLEAN
  BY <1>1
<1>3. spent' \in [Events -> Nat] /\ allowed' \in [Events -> Nat]
  BY <1>1, SpendFacts DEF Events
<1>4. day' = day + 1 /\ claims' \subseteq claims
  BY <1>1
<1>5. swept' \in BOOLEAN
  BY <1>1
<1>6. UNCHANGED <<endsAt, mailed, sweep>>
  BY <1>1
<1>7. day' \in Nat /\ claims' \subseteq Claim
  BY <1>4 DEF DeliveryTypeOK
<1>8. /\ endsAt' \in [Reminders -> Nat] /\ mailed' \in [Reminders -> Seq(Nat)]
      /\ sweep' \in [Tasks -> Sweep]
  BY <1>6 DEF DeliveryTypeOK
<1> QED
  BY <1>1, <1>2, <1>3, <1>5, <1>7, <1>8, ReminderTypes

LEMMA RenewTypes ==
  ASSUME DeliveryTypeOK, NEW r \in Reminders, Renew(r)
  PROVE  DeliveryTypeOK'
<1>1. /\ Use("renewal")
      /\ endsAt' = [endsAt EXCEPT ![r] = IF r \in Plans THEN @ + Validity ELSE day + Validity]
      /\ UNCHANGED <<day, claims, mailed, swept, missed, messages, mode, waits, loop, sweep>>
  BY DEF Renew, processes
<1>2. endsAt' \in [Reminders -> Nat]
  BY <1>1, DeliveryBounds DEF DeliveryTypeOK
<1>3. spent' \in [Events -> Nat] /\ allowed' \in [Events -> Nat]
  BY <1>1, SpendFacts DEF Events
<1> QED
  BY <1>1, <1>2, <1>3, ReminderTypes DEF DeliveryTypeOK

LEMMA StartSweepFacts ==
  ASSUME DeliveryTypeOK, NEW t \in Tasks, StartSweep(t)
  PROVE  /\ sweep' \in [Tasks -> Sweep] /\ \A u \in Tasks \ {t} : sweep'[u] = sweep[u]
         /\ sweep'[t].pc = "claim" /\ sweep'[t].since = day /\ sweep'[t].rows = NearEnd
         /\ sweep'[t].ends = endsAt /\ sweep'[t].row = {}
<1> DEFINE s == [pc |-> "claim", since |-> day, rows |-> NearEnd, ends |-> endsAt, row |-> {}]
<1>1. sweep' = [sweep EXCEPT ![t] = s]
  BY DEF StartSweep
<1>2. /\ s \in Sweep /\ s.pc = "claim" /\ s.since = day /\ s.rows = NearEnd /\ s.ends = endsAt
      /\ s.row = {}
  BY DEF Sweep, DeliveryTypeOK, NearEnd
<1> HIDE DEF s
<1> QED
  BY <1>1, <1>2, SweepBecomes

LEMMA ClaimRowFacts ==
  ASSUME DeliveryTypeOK, NEW t \in Tasks, NEW r \in Reminders, ClaimRow(t, r)
  PROVE  /\ sweep' \in [Tasks -> Sweep] /\ \A u \in Tasks \ {t} : sweep'[u] = sweep[u]
         /\ sweep'[t].since = sweep[t].since /\ sweep'[t].ends = sweep[t].ends
         /\ sweep'[t].rows = sweep[t].rows \ {r}
         /\ IF Unclaimed(r, sweep[t].ends[r])
              THEN sweep'[t].pc = "mail" /\ sweep'[t].row = {r}
              ELSE sweep'[t].pc = "claim" /\ sweep'[t].row = {}
<1> DEFINE free == Unclaimed(r, sweep[t].ends[r])
           rs == sweep[t].rows \ {r}
           row == IF free THEN {r} ELSE {}
           p == IF free THEN "mail" ELSE "claim"
           a == [sweep[t] EXCEPT !.rows = rs]
           b == [a EXCEPT !.row = row]
           s == [b EXCEPT !.pc = p]
<1>1. sweep[t] \in Sweep /\ sweep \in [Tasks -> Sweep]
  BY DEF DeliveryTypeOK
<1>2. sweep' = [sweep EXCEPT ![t].rows = rs, ![t].row = row, ![t].pc = p]
  BY <1>1 DEF ClaimRow
<1>3. row \subseteq Reminders /\ p \in {"mail", "claim"}
  OBVIOUS
<1>4. rs \subseteq Reminders
  BY <1>1 DEF Sweep
<1> HIDE DEF rs, row, p
<1>5. sweep' = [sweep EXCEPT ![t] = s]
  BY <1>1, <1>2
<1>6. a \in Sweep /\ a.rows = rs /\ a.since = sweep[t].since /\ a.ends = sweep[t].ends
  BY <1>1, <1>4 DEF Sweep
<1> HIDE DEF a
<1>7. b \in Sweep /\ b.row = row /\ b.rows = rs /\ b.since = sweep[t].since /\ b.ends = sweep[t].ends
  BY <1>3, <1>6 DEF Sweep
<1> HIDE DEF b
<1>8. /\ s \in Sweep /\ s.pc = p /\ s.row = row /\ s.rows = rs /\ s.since = sweep[t].since
      /\ s.ends = sweep[t].ends
  BY <1>3, <1>7 DEF Sweep
<1> HIDE DEF s
<1> QED
  BY <1>5, <1>8, SweepBecomes DEF rs, row, p

LEMMA MailRowFacts ==
  ASSUME DeliveryTypeOK, NEW t \in Tasks, NEW r \in Reminders, MailRow(t, r)
  PROVE  /\ sweep' \in [Tasks -> Sweep] /\ \A u \in Tasks \ {t} : sweep'[u] = sweep[u]
         /\ sweep'[t].since = sweep[t].since /\ sweep'[t].ends = sweep[t].ends
         /\ sweep'[t].rows = sweep[t].rows /\ sweep'[t].pc = "claim" /\ sweep'[t].row = {}
<1> DEFINE a == [sweep[t] EXCEPT !.pc = "claim"]
           s == [a EXCEPT !.row = {}]
<1>1. sweep[t] \in Sweep /\ sweep \in [Tasks -> Sweep]
  BY DEF DeliveryTypeOK
<1>2. sweep' = [sweep EXCEPT ![t].pc = "claim", ![t].row = {}]
  BY DEF MailRow
<1>3. sweep' = [sweep EXCEPT ![t] = s]
  BY <1>1, <1>2
<1>4. /\ a \in Sweep /\ a.pc = "claim" /\ a.rows = sweep[t].rows /\ a.since = sweep[t].since
      /\ a.ends = sweep[t].ends
  BY <1>1 DEF Sweep
<1> HIDE DEF a
<1>5. /\ s \in Sweep /\ s.pc = "claim" /\ s.row = {} /\ s.rows = sweep[t].rows
      /\ s.since = sweep[t].since /\ s.ends = sweep[t].ends
  BY <1>4 DEF Sweep
<1> HIDE DEF s
<1> QED
  BY <1>3, <1>5, SweepBecomes

LEMMA SweepTypes ==
  ASSUME DeliveryTypeOK, NEW t \in Tasks, Remind(t)
  PROVE  DeliveryTypeOK'
<1>1. CASE StartSweep(t)
  <2>1. UNCHANGED <<day, endsAt, claims, mailed, swept, missed, messages, mode, waits, loop, bounds>>
    BY <1>1 DEF StartSweep, reminders
  <2> QED
    BY <1>1, <2>1, StartSweepFacts, NothingSpent, ReminderTypes DEF DeliveryTypeOK
<1>2. CASE EndSweep(t)
  <2>1. /\ sweep' = [sweep EXCEPT ![t] = NoSweep] /\ swept' = TRUE
        /\ UNCHANGED <<day, endsAt, claims, mailed, missed, messages, mode, waits, loop, bounds>>
    BY <1>2 DEF EndSweep
  <2> QED
    BY <2>1, NoSweepFacts, SweepBecomes, NothingSpent, ReminderTypes DEF DeliveryTypeOK
<1>3. ASSUME NEW r \in Reminders, ClaimRow(t, r)
      PROVE  DeliveryTypeOK'
  <2> DEFINE c == [row |-> r, end |-> sweep[t].ends[r], until |-> ClaimExpiry]
  <2>1. /\ claims' \subseteq claims \cup {c}
        /\ UNCHANGED <<day, endsAt, mailed, swept, missed, messages, mode, waits, loop, bounds>>
    BY <1>3 DEF ClaimRow
  <2>2. c \in Claim
    BY DeliveryBounds DEF DeliveryTypeOK, Sweep, Claim, ClaimExpiry
  <2> HIDE DEF c
  <2> QED
    BY <1>3, <2>1, <2>2, ClaimRowFacts, NothingSpent, ReminderTypes DEF DeliveryTypeOK
<1>4. ASSUME NEW r \in Reminders, MailRow(t, r)
      PROVE  DeliveryTypeOK'
  <2>1. /\ mailed' = [mailed EXCEPT ![r] = Append(@, sweep[t].ends[r])]
        /\ UNCHANGED <<day, endsAt, claims, swept, missed, messages, mode, waits, loop, bounds>>
    BY <1>4 DEF MailRow
  <2>2. sweep[t].ends[r] \in Nat
    BY DEF DeliveryTypeOK, Sweep
  <2>3. mailed' \in [Reminders -> Seq(Nat)]
    BY <2>1, <2>2, Appended DEF DeliveryTypeOK
  <2> QED
    BY <1>4, <2>1, <2>3, MailRowFacts, NothingSpent, ReminderTypes DEF DeliveryTypeOK
<1> QED
  BY <1>1, <1>2, <1>3, <1>4 DEF Remind

LEMMA StartTypes ==
  ASSUME DeliveryTypeOK, NEW t \in Tasks, Start(t)
  PROVE  DeliveryTypeOK'
<1>1. /\ mode' = [mode EXCEPT ![t] = "running"]
      /\ UNCHANGED <<queue, dead, queued, sent, parked, gone, signalled, day, endsAt, claims, mailed,
                     swept, missed, waits, loop, sweep, allowed, spent>>
  BY DEF Start, messages, reminders, bounds
<1>2. mode' \in [Tasks -> {"running", "stopping", "down"}]
  BY <1>1 DEF DeliveryTypeOK
<1> QED
  BY <1>1, <1>2 DEF DeliveryTypeOK

LEMMA StopTypes ==
  ASSUME DeliveryTypeOK, NEW t \in Tasks, Stop(t)
  PROVE  DeliveryTypeOK'
<1>1. /\ Use("stop") /\ mode' = [mode EXCEPT ![t] = "stopping"]
      /\ waits' = [waits EXCEPT ![t] = InFlight(t)] /\ signalled' = signalled \cup loop[t].msgs
      /\ UNCHANGED <<queue, dead, queued, sent, parked, gone, day, endsAt, claims, mailed,
                     swept, missed, loop, sweep>>
  BY DEF Stop, reminders
<1>2. mode' \in [Tasks -> {"running", "stopping", "down"}] /\ waits' \in [Tasks -> BOOLEAN]
  <2>1. InFlight(t) \in BOOLEAN
    BY DEF InFlight
  <2> QED
    BY <1>1, <2>1 DEF DeliveryTypeOK
<1>3. signalled' \subseteq Messages
  BY <1>1 DEF DeliveryTypeOK, Loop
<1>4. spent' \in [Events -> Nat] /\ allowed' \in [Events -> Nat]
  BY <1>1, SpendFacts DEF Events
<1> QED
  BY <1>1, <1>2, <1>3, <1>4 DEF DeliveryTypeOK

\* How a process ends.
LEMMA EndFacts ==
  ASSUME DeliveryTypeOK, NEW t \in Tasks, GoDown(t)
  PROVE  /\ loop' \in [Tasks -> Loop] /\ loop'[t] = Waiting /\ \A u \in Tasks \ {t} : loop'[u] = loop[u]
         /\ sweep' \in [Tasks -> Sweep] /\ sweep'[t] = NoSweep
         /\ \A u \in Tasks \ {t} : sweep'[u] = sweep[u]
         /\ mode' \in [Tasks -> {"running", "stopping", "down"}] /\ mode'[t] = "down"
         /\ waits' \in [Tasks -> BOOLEAN] /\ waits'[t] = FALSE
         /\ \A u \in Tasks \ {t} : mode'[u] = mode[u] /\ waits'[u] = waits[u]
         /\ gone' = gone \cup (IF loop[t].pc = "trim" THEN {} ELSE loop[t].msgs)
         /\ gone' \subseteq Messages
         /\ missed' = (missed \/ sweep[t].pc # "idle") /\ missed' \in BOOLEAN
         /\ UNCHANGED <<queue, dead, queued, sent, parked, signalled, day, endsAt, claims, mailed, swept>>
<1>1. /\ mode' = [mode EXCEPT ![t] = "down"] /\ waits' = [waits EXCEPT ![t] = FALSE]
      /\ gone' = gone \cup (IF loop[t].pc = "trim" THEN {} ELSE loop[t].msgs)
      /\ loop' = [loop EXCEPT ![t] = Waiting] /\ sweep' = [sweep EXCEPT ![t] = NoSweep]
      /\ missed' = (missed \/ sweep[t].pc # "idle")
      /\ UNCHANGED <<queue, dead, queued, sent, parked, signalled, day, endsAt, claims, mailed, swept>>
  BY DEF GoDown
<1>2. loop' \in [Tasks -> Loop] /\ loop'[t] = Waiting /\ \A u \in Tasks \ {t} : loop'[u] = loop[u]
  BY <1>1, WaitingFacts, LoopBecomes
<1>3. sweep' \in [Tasks -> Sweep] /\ sweep'[t] = NoSweep /\ \A u \in Tasks \ {t} : sweep'[u] = sweep[u]
  BY <1>1, NoSweepFacts, SweepBecomes
<1>4. /\ mode' \in [Tasks -> {"running", "stopping", "down"}] /\ mode'[t] = "down"
      /\ waits' \in [Tasks -> BOOLEAN] /\ waits'[t] = FALSE
      /\ \A u \in Tasks \ {t} : mode'[u] = mode[u] /\ waits'[u] = waits[u]
  BY <1>1 DEF DeliveryTypeOK
<1>5. gone' \subseteq Messages
  BY <1>1 DEF DeliveryTypeOK, Loop
<1>6. missed' \in BOOLEAN
  BY <1>1
<1> QED
  BY <1>1, <1>2, <1>3, <1>4, <1>5, <1>6

\* A process ends: told to, dying, or when a sweep fails.
Ends(t) ==
  /\ GoDown(t)
  /\ \/ mode[t] = "stopping" /\ (waits[t] => loop[t].pc = "over") /\ UNCHANGED bounds
     \/ \E k \in {"kill", "grace", "sweep"} : Use(k)

LEMMA EndsTypes ==
  ASSUME DeliveryTypeOK, NEW t \in Tasks, Ends(t)
  PROVE  DeliveryTypeOK'
<1>1. spent' \in [Events -> Nat] /\ allowed' \in [Events -> Nat]
  BY SpendFacts, NothingSpent DEF Ends, Events
<1>2. GoDown(t)
  BY DEF Ends
<1> QED
  BY <1>1, <1>2, EndFacts DEF DeliveryTypeOK

LEMMA StepCases ==
  ASSUME DeliveryTypeOK, [DeliveryNext]_deliveryVars
  PROVE  \/ \E m \in Messages : Queue(m)
         \/ PassDay \/ \E r \in Reminders : Renew(r)
         \/ \E t \in Tasks :
              \/ \E q \in Queues : Pop(t, q)
              \/ StopPopping(t) \/ Accept(t) \/ LoseParked(t)
              \/ \E m \in Messages : Park(t, m) \/ Trim(t, m)
              \/ \E m \in Messages, accepted \in BOOLEAN : Refuse(t, m, accepted)
              \/ Remind(t) \/ Start(t) \/ Stop(t) \/ Ends(t)
         \/ UNCHANGED deliveryVars
<1>1. \A t \in Tasks : Kill(t) \/ SweepFails(t) \/ Exit(t) \/ GraceOver(t) => Ends(t)
  BY DEF Kill, SweepFails, Exit, GraceOver, Ends
<1> QED
  BY <1>1 DEF DeliveryNext, Deliver

LEMMA NextTypes ==
  ASSUME DeliveryTypeOK, [DeliveryNext]_deliveryVars
  PROVE  DeliveryTypeOK'
<1>1. CASE UNCHANGED deliveryVars
  BY <1>1 DEF DeliveryTypeOK, deliveryVars, messages, reminders, processes, bounds
<1> QED
  BY <1>1, StepCases, QueueTypes, TickTypes, RenewTypes, PopTypes, StopPoppingTypes, AcceptTypes,
     LoseParkedTypes, ParkTypes, TrimTypes, RefuseTypes, SweepTypes, StartTypes, StopTypes, EndsTypes

LEMMA InitTypes ==
  DeliveryInit => DeliveryTypeOK
<1> SUFFICES ASSUME DeliveryInit
             PROVE  DeliveryTypeOK
  OBVIOUS
<1>1. /\ queue \in [Queues -> Seq(Messages)] /\ dead \in [Queues -> Seq(Messages)]
      /\ parked \in [Queues -> Seq(Messages)] /\ mailed \in [Reminders -> Seq(Nat)]
  BY DEF DeliveryInit
<1>2. loop \in [Tasks -> Loop] /\ sweep \in [Tasks -> Sweep]
  BY WaitingFacts, NoSweepFacts DEF DeliveryInit
<1>3. allowed \in [Events -> Nat]
  BY DeliveryAssumption DEF DeliveryInit
<1>4. endsAt \in [Reminders -> Nat]
  BY DeliveryBounds DEF DeliveryInit
<1> QED
  BY <1>1, <1>2, <1>3, <1>4 DEF DeliveryInit, DeliveryTypeOK


Listed(m) == In(m, queue[QueueOf(m)])
Dead(m) == In(m, dead[QueueOf(m)])

\* What a process holds at each place of its loop.
LoopOK(t) ==
  /\ loop[t].pc \in {"pop", "over"} => loop[t].msgs = {}
  /\ loop[t].pc \in {"try", "park", "trim"} => \E m \in Messages : loop[t].msgs = {m}
  /\ loop[t].pc = "trim" => Connected(t)
  /\ waits[t] => mode[t] = "stopping"

HeldOK(t) == \A m \in loop[t].msgs : m \in queued /\ ~Listed(m) /\ (loop[t].pc # "trim" => ~Dead(m))
Apart == \A t, u \in Tasks : \A m : m \in loop[t].msgs /\ m \in loop[u].msgs => t = u

LoopsOK == (\A t \in Tasks : LoopOK(t) /\ HeldOK(t)) /\ Apart

ListsOK ==
  \A q \in Queues :
    /\ OnceEach(queue[q]) /\ OnceEach(dead[q])
    /\ \A m : In(m, queue[q]) => m \in queued /\ QueueOf(m) = q /\ ~In(m, dead[q])
    /\ \A m : In(m, dead[q]) => m \in queued

LostOK ==
  /\ gone \subseteq queued /\ signalled \subseteq queued
  /\ \A m \in gone \cup signalled : ~Listed(m)
  /\ \A t \in Tasks : loop[t].msgs \cap gone = {}
  /\ \A t \in Tasks : loop[t].msgs \cap signalled # {} => waits[t]
  /\ StopWaitsForDelivery

Trims(q) == {t \in Tasks : loop[t].pc = "trim" /\ \E m \in loop[t].msgs : QueueOf(m) = q}
LostTrims == spent["kill"] + spent["grace"] + spent["sweep"]

DeadOK ==
  \A q \in Queues :
    /\ IsFiniteSet(Trims(q))
    /\ IsPrefix(dead[q], parked[q])
    /\ dead[q] # parked[q] => Len(dead[q]) >= DeadMax
    /\ Len(dead[q]) <= DeadMax + Cardinality(Trims(q)) + LostTrims

KeptInv == DeliveryTypeOK /\ LoopsOK /\ ListsOK /\ LostOK /\ DeadOK

-----------------------------------------------------------------------------
LEMMA LostTrimsFacts ==
  ASSUME DeliveryTypeOK, \A j \in Events : spent'[j] >= spent[j] /\ spent'[j] \in Nat
  PROVE  /\ LostTrims \in Nat /\ LostTrims' \in Nat /\ LostTrims' >= LostTrims
         /\ \A k \in {"kill", "grace", "sweep"} : spent'[k] = spent[k] + 1 => LostTrims' >= LostTrims + 1
<1>1. /\ spent["kill"] \in Nat /\ spent["grace"] \in Nat /\ spent["sweep"] \in Nat
      /\ spent'["kill"] \in Nat /\ spent'["grace"] \in Nat /\ spent'["sweep"] \in Nat
      /\ spent'["kill"] >= spent["kill"] /\ spent'["grace"] >= spent["grace"]
      /\ spent'["sweep"] >= spent["sweep"]
  BY DEF DeliveryTypeOK, Events
<1> QED
  BY <1>1 DEF LostTrims

\* The budgets only grow.
Used == \A j \in Events : spent'[j] >= spent[j] /\ spent'[j] \in Nat

LEMMA UsedFacts ==
  ASSUME DeliveryTypeOK, UNCHANGED bounds \/ \E k \in Events : Use(k)
  PROVE  Used
<1>1. CASE UNCHANGED bounds
  BY <1>1, NothingSpent DEF Used
<1>2. ASSUME NEW k \in Events, Use(k)
      PROVE  Used
  BY <1>2, SpendFacts DEF Used
<1> QED
  BY <1>1, <1>2

\* No fault now, so none before.
LEMMA NoFaultBefore ==
  ASSUME DeliveryTypeOK, Used, \A k \in {"kill", "grace", "redis", "sweep"} : spent'[k] = 0
  PROVE  \A k \in {"kill", "grace", "redis", "sweep"} : spent[k] = 0
<1> SUFFICES ASSUME NEW k \in {"kill", "grace", "redis", "sweep"}
             PROVE  spent[k] = 0
  OBVIOUS
<1>1. k \in Events
  BY DEF Events
<1> QED
  BY <1>1 DEF Used, DeliveryTypeOK

\* Dead letters and trims untouched.
LEMMA DeadKept ==
  ASSUME DeliveryTypeOK, DeadOK, Used, UNCHANGED <<dead, parked>>,
         \A q \in Queues : Trims(q)' = Trims(q)
  PROVE  DeadOK'
<1> SUFFICES ASSUME NEW q \in Queues
             PROVE  /\ IsFiniteSet(Trims(q))'
                    /\ IsPrefix(dead[q], parked[q])'
                    /\ (dead[q] # parked[q] => Len(dead[q]) >= DeadMax)'
                    /\ (Len(dead[q]) <= DeadMax + Cardinality(Trims(q)) + LostTrims)'
  BY DEF DeadOK
<1>1. /\ IsFiniteSet(Trims(q)) /\ IsPrefix(dead[q], parked[q])
      /\ dead[q] # parked[q] => Len(dead[q]) >= DeadMax
      /\ Len(dead[q]) <= DeadMax + Cardinality(Trims(q)) + LostTrims
  BY DEF DeadOK
<1>2. LostTrims \in Nat /\ LostTrims' \in Nat /\ LostTrims' >= LostTrims
  BY LostTrimsFacts DEF Used
<1>3. Cardinality(Trims(q)) \in Nat /\ Len(dead[q]) \in Nat /\ DeadMax \in Nat
  BY <1>1, FS_CardinalityType, DeliveryBounds, LenProperties DEF DeliveryTypeOK
<1>4. Len(dead[q]) <= DeadMax + Cardinality(Trims(q)) + LostTrims'
  BY <1>1, <1>2, <1>3
<1> QED
  BY <1>1, <1>4

\* No process enters or leaves its trim.
LEMMA TrimsKept ==
  ASSUME NEW t \in Tasks, \A u \in Tasks \ {t} : loop'[u] = loop[u],
         loop[t].pc # "trim", loop'[t].pc # "trim"
  PROVE  \A q \in Queues : Trims(q)' = Trims(q)
  BY DEF Trims

\* Processes and messages that a step leaves as they are.
LEMMA StopWaitsKept ==
  ASSUME DeliveryTypeOK, Used, StopWaitsForDelivery,
         ASSUME \A k \in {"kill", "grace", "redis", "sweep"} : spent'[k] = 0, signalled \cap gone = {}
         PROVE  signalled' \cap gone' = {}
  PROVE  StopWaitsForDelivery'
<1> SUFFICES ASSUME \A k \in {"kill", "grace", "redis", "sweep"} : spent'[k] = 0
             PROVE  signalled' \cap gone' = {}
  BY DEF StopWaitsForDelivery
<1>1. signalled \cap gone = {}
  BY NoFaultBefore DEF StopWaitsForDelivery
<1> QED
  BY <1>1

-----------------------------------------------------------------------------
LEMMA QueueKept ==
  ASSUME KeptInv, NEW m \in Messages, Queue(m)
  PROVE  KeptInv'
<1>1. /\ m \notin queued /\ Use("message") /\ queue' = [queue EXCEPT ![QueueOf(m)] = Append(@, m)]
      /\ queued' = queued \cup {m} /\ UNCHANGED <<dead, sent, parked, gone, signalled, loop>>
      /\ UNCHANGED <<mode, waits>>
  BY DEF Queue, processes
<1>2. DeliveryTypeOK /\ LoopsOK /\ ListsOK /\ LostOK /\ DeadOK /\ DeliveryTypeOK' /\ Used
  BY <1>1, QueueTypes, UsedFacts DEF KeptInv, Events
<1> DEFINE q0 == QueueOf(m)
<1>3. q0 \in Queues /\ queue[q0] \in Seq(Messages) /\ queue \in [Queues -> Seq(Messages)]
  BY <1>2, DeliveryBounds DEF DeliveryTypeOK
<1>4. queue'[q0] = Append(queue[q0], m) /\ \A q \in Queues \ {q0} : queue'[q] = queue[q]
  BY <1>1, <1>3
<1>5. /\ \A y : In(y, queue'[q0]) <=> In(y, queue[q0]) \/ y = m
      /\ OnceEach(queue[q0]) /\ ~In(m, queue[q0]) => OnceEach(queue'[q0])
  BY <1>3, <1>4, Appended
<1> HIDE DEF q0
<1>6. \A y : \A q \in Queues : In(y, queue'[q]) => In(y, queue[q]) \/ y = m
  BY <1>4, <1>5
<1>7. \A y : Listed(y)' => Listed(y) \/ y = m
  BY <1>1, <1>6, DeliveryBounds DEF Listed
<1>8. \A y : Dead(y)' <=> Dead(y)
  BY <1>1 DEF Dead
<1>9. LoopsOK'
  <2>1. ASSUME NEW t \in Tasks
        PROVE  LoopOK(t)' /\ HeldOK(t)'
    <3>1. LoopOK(t)'
      BY <1>1, <1>2 DEF LoopsOK, LoopOK, Connected
    <3>2. HeldOK(t)'
      BY <1>1, <1>2, <1>7, <1>8 DEF LoopsOK, HeldOK
    <3> QED
      BY <3>1, <3>2
  <2> QED
    BY <1>1, <1>2, <2>1 DEF LoopsOK, Apart
<1>10. ListsOK'
  <2> SUFFICES ASSUME NEW q \in Queues
               PROVE  /\ OnceEach(queue'[q]) /\ OnceEach(dead'[q])
                      /\ \A y : In(y, queue'[q]) => y \in queued' /\ QueueOf(y) = q /\ ~In(y, dead'[q])
                      /\ \A y : In(y, dead'[q]) => y \in queued'
    BY DEF ListsOK
  <2>1. /\ OnceEach(queue[q]) /\ OnceEach(dead[q])
        /\ \A y : In(y, queue[q]) => y \in queued /\ QueueOf(y) = q /\ ~In(y, dead[q])
        /\ \A y : In(y, dead[q]) => y \in queued
    BY <1>2 DEF ListsOK
  <2>2. OnceEach(queue'[q])
    BY <1>1, <1>4, <1>5, <2>1
  <2>3. \A y : In(y, queue'[q]) => y \in queued' /\ QueueOf(y) = q /\ ~In(y, dead'[q])
    BY <1>1, <1>4, <1>5, <2>1 DEF q0
  <2> QED
    BY <1>1, <2>1, <2>2, <2>3
<1>11. LostOK'
  <2>1. StopWaitsForDelivery'
    BY <1>1, <1>2, StopWaitsKept DEF LostOK
  <2>2. \A y \in gone' \cup signalled' : ~Listed(y)'
    BY <1>1, <1>2, <1>7 DEF LostOK
  <2> QED
    BY <1>1, <1>2, <2>1, <2>2 DEF LostOK
<1>12. DeadOK'
  BY <1>1, <1>2, DeadKept DEF Trims
<1> QED
  BY <1>2, <1>9, <1>10, <1>11, <1>12 DEF KeptInv

LEMMA PopKept ==
  ASSUME KeptInv, NEW t \in Tasks, NEW q \in Queues, Pop(t, q)
  PROVE  KeptInv'
<1> DEFINE l == [pc |-> "try", msgs |-> {Head(queue[q])}, attempt |-> 1]
<1>0. PICK m : m = Head(queue[q])
  OBVIOUS
<1>1. /\ Doing(t, "pop") /\ queue[q] # <<>> /\ queue' = [queue EXCEPT ![q] = Tail(@)]
      /\ loop' = [loop EXCEPT ![t] = l]
      /\ UNCHANGED <<dead, queued, sent, parked, gone, signalled, mode, waits, bounds>>
  BY DEF Pop, Popped
<1>2. DeliveryTypeOK /\ LoopsOK /\ ListsOK /\ LostOK /\ DeadOK /\ DeliveryTypeOK' /\ Used
  BY <1>1, PopTypes, UsedFacts DEF KeptInv
<1>3. queue[q] \in Seq(Messages) /\ queue \in [Queues -> Seq(Messages)]
  BY <1>2 DEF DeliveryTypeOK
<1>4. queue'[q] = Tail(queue[q]) /\ \A p \in Queues \ {q} : queue'[p] = queue[p]
  BY <1>1, <1>3
<1>5. /\ m \in Messages /\ In(m, queue[q])
      /\ \A y : In(y, queue'[q]) => In(y, queue[q])
      /\ OnceEach(queue[q]) => OnceEach(queue'[q]) /\ ~In(m, queue'[q])
  BY <1>0, <1>1, <1>3, <1>4, Taken
<1>6. /\ loop'[t].pc = "try" /\ loop'[t].msgs = {m} /\ \A u \in Tasks \ {t} : loop'[u] = loop[u]
  <2>1. l \in Loop /\ l.pc = "try" /\ l.msgs = {m}
    BY DeliveryAssumption, <1>0, <1>5 DEF Loop
  <2> HIDE DEF l
  <2> QED
    BY <1>1, <1>2, <2>1, LoopBecomes
<1> HIDE DEF l
<1>7. /\ m \in queued /\ QueueOf(m) = q /\ ~In(m, dead[q]) /\ ~In(m, queue'[q])
  BY <1>2, <1>5 DEF ListsOK
<1>8. ~Listed(m)' /\ ~Dead(m)' /\ Listed(m) /\ \A y : Listed(y)' => Listed(y)
  <2>1. ~Listed(m)' /\ ~Dead(m)' /\ Listed(m)
    BY <1>1, <1>5, <1>7 DEF Listed, Dead
  <2>2. \A y : \A p \in Queues : In(y, queue'[p]) => In(y, queue[p])
    BY <1>4, <1>5
  <2> QED
    BY <2>1, <2>2, DeliveryBounds DEF Listed
<1>9. \A y : Dead(y)' <=> Dead(y)
  BY <1>1 DEF Dead
<1>10. LoopsOK'
  <2>1. LoopOK(t)' /\ HeldOK(t)'
    <3>1. LoopOK(t)'
      BY <1>1, <1>2, <1>5, <1>6 DEF LoopsOK, LoopOK, Connected
    <3>2. HeldOK(t)'
      BY <1>1, <1>6, <1>7, <1>8 DEF HeldOK
    <3> QED
      BY <3>1, <3>2
  <2>2. ASSUME NEW u \in Tasks \ {t}
        PROVE  LoopOK(u)' /\ HeldOK(u)'
    <3>1. LoopOK(u)'
      BY <1>1, <1>2, <1>6 DEF LoopsOK, LoopOK, Connected
    <3>2. HeldOK(u)'
      BY <1>1, <1>2, <1>6, <1>8, <1>9 DEF LoopsOK, HeldOK
    <3> QED
      BY <3>1, <3>2
  <2>3. \A u \in Tasks : m \notin loop[u].msgs
    BY <1>2, <1>8 DEF LoopsOK, HeldOK
  <2>4. Apart'
    BY <1>2, <1>6, <2>3 DEF LoopsOK, Apart
  <2> QED
    BY <2>1, <2>2, <2>4 DEF LoopsOK
<1>11. ListsOK'
  <2> SUFFICES ASSUME NEW p \in Queues
               PROVE  /\ OnceEach(queue'[p]) /\ OnceEach(dead'[p])
                      /\ \A y : In(y, queue'[p]) => y \in queued' /\ QueueOf(y) = p /\ ~In(y, dead'[p])
                      /\ \A y : In(y, dead'[p]) => y \in queued'
    BY DEF ListsOK
  <2>1. /\ OnceEach(queue[p]) /\ OnceEach(dead[p])
        /\ \A y : In(y, queue[p]) => y \in queued /\ QueueOf(y) = p /\ ~In(y, dead[p])
        /\ \A y : In(y, dead[p]) => y \in queued
    BY <1>2 DEF ListsOK
  <2> QED
    BY <1>1, <1>4, <1>5, <2>1
<1>12. LostOK'
  <2>1. StopWaitsForDelivery'
    BY <1>1, <1>2, StopWaitsKept DEF LostOK
  <2>2. m \notin gone /\ m \notin signalled
    BY <1>2, <1>8 DEF LostOK
  <2>3. \A u \in Tasks : loop'[u].msgs \cap gone' = {}
    BY <1>1, <1>2, <1>6, <2>2 DEF LostOK
  <2>4. \A u \in Tasks : loop'[u].msgs \cap signalled' # {} => waits'[u]
    BY <1>1, <1>2, <1>6, <2>2 DEF LostOK
  <2>5. \A y \in gone' \cup signalled' : ~Listed(y)'
    BY <1>1, <1>2, <1>8 DEF LostOK
  <2> QED
    BY <1>1, <1>2, <2>1, <2>3, <2>4, <2>5 DEF LostOK
<1>13. DeadOK'
  <2>1. loop[t].pc # "trim" /\ loop'[t].pc # "trim"
    BY <1>1, <1>6 DEF Doing
  <2> QED
    BY <1>1, <1>2, <1>6, <2>1, TrimsKept, DeadKept
<1> QED
  BY <1>2, <1>10, <1>11, <1>12, <1>13 DEF KeptInv


\* A process lets go of what it holds.
Released(t) ==
  /\ loop'[t].msgs = {} /\ loop'[t].pc \in {"pop", "over"}
  /\ \A u \in Tasks \ {t} : loop'[u] = loop[u] /\ mode'[u] = mode[u] /\ waits'[u] = waits[u]
  /\ waits'[t] => mode'[t] = "stopping"
  /\ UNCHANGED <<queue, queued, signalled>>

LEMMA ReleasedLoops ==
  ASSUME LoopsOK, NEW t \in Tasks, Released(t), \A y : Dead(y)' => Dead(y)
  PROVE  LoopsOK'
<1>1. \A y : Listed(y)' <=> Listed(y)
  BY DEF Released, Listed
<1>2. LoopOK(t)' /\ HeldOK(t)'
  BY DEF Released, LoopOK, HeldOK
<1>3. ASSUME NEW u \in Tasks \ {t}
      PROVE  LoopOK(u)' /\ HeldOK(u)'
  <2>1. LoopOK(u)'
    BY DEF Released, LoopsOK, LoopOK, Connected
  <2>2. HeldOK(u)'
    BY <1>1 DEF Released, LoopsOK, HeldOK
  <2> QED
    BY <2>1, <2>2
<1>4. Apart'
  BY DEF Released, LoopsOK, Apart
<1> QED
  BY <1>2, <1>3, <1>4 DEF LoopsOK

LEMMA ReleasedLost ==
  ASSUME DeliveryTypeOK, Used, LoopsOK, LostOK, NEW t \in Tasks, Released(t),
         gone' \subseteq gone \cup loop[t].msgs,
         ASSUME \A k \in {"kill", "grace", "redis", "sweep"} : spent'[k] = 0
         PROVE  signalled \cap gone' \subseteq gone
  PROVE  LostOK'
<1>1. StopWaitsForDelivery'
  BY StopWaitsKept DEF LostOK, Released
<1>2. \A y : Listed(y)' <=> Listed(y)
  BY DEF Released, Listed
<1>3. \A m \in loop[t].msgs : m \in queued /\ ~Listed(m)
  BY DEF LoopsOK, HeldOK
<1>4. gone' \subseteq queued' /\ signalled' \subseteq queued'
  BY <1>3 DEF LostOK, Released
<1>5. \A m \in gone' \cup signalled' : ~Listed(m)'
  BY <1>2, <1>3 DEF LostOK, Released
<1>6. \A u \in Tasks : loop'[u].msgs \cap gone' = {}
  BY DEF LostOK, Released, LoopsOK, Apart
<1>7. \A u \in Tasks : loop'[u].msgs \cap signalled' # {} => waits'[u]
  BY DEF LostOK, Released
<1> QED
  BY <1>1, <1>4, <1>5, <1>6, <1>7 DEF LostOK

\* The trims of the others.
LEMMA ReleasedTrims ==
  ASSUME NEW t \in Tasks, Released(t)
  PROVE  \A q \in Queues : Trims(q)' = Trims(q) \ {t}
  BY DEF Released, Trims

LEMMA StopPoppingKept ==
  ASSUME KeptInv, NEW t \in Tasks, StopPopping(t)
  PROVE  KeptInv'
<1>1. /\ Doing(t, "pop") /\ loop' = [loop EXCEPT ![t] = Again(t)]
      /\ UNCHANGED <<queue, dead, queued, parked, gone, signalled, mode, waits, bounds>>
  BY DEF StopPopping, messages
<1>2. DeliveryTypeOK /\ LoopsOK /\ ListsOK /\ LostOK /\ DeadOK /\ DeliveryTypeOK' /\ Used
  BY <1>1, StopPoppingTypes, UsedFacts DEF KeptInv
<1>3. loop'[t] = Again(t) /\ \A u \in Tasks \ {t} : loop'[u] = loop[u]
  BY <1>1, <1>2, WaitingFacts, LoopBecomes
<1>4. Released(t)
  BY <1>1, <1>2, <1>3, WaitingFacts DEF Released, LoopsOK, LoopOK
<1>5. LoopsOK'
  BY <1>1, <1>2, <1>4, ReleasedLoops DEF Dead
<1>6. ListsOK'
  BY <1>1, <1>2 DEF ListsOK
<1>7. LostOK'
  BY <1>1, <1>2, <1>4, ReleasedLost
<1>8. DeadOK'
  <2>1. loop[t].pc # "trim" /\ loop'[t].pc # "trim"
    BY <1>1, <1>3, WaitingFacts DEF Doing
  <2> QED
    BY <1>1, <1>2, <1>3, <2>1, TrimsKept, DeadKept
<1> QED
  BY <1>2, <1>5, <1>6, <1>7, <1>8 DEF KeptInv

LEMMA AcceptKept ==
  ASSUME KeptInv, NEW t \in Tasks, Accept(t)
  PROVE  KeptInv'
<1>1. /\ Doing(t, "try") /\ loop' = [loop EXCEPT ![t] = Again(t)]
      /\ UNCHANGED <<queue, dead, queued, parked, gone, signalled, mode, waits, bounds>>
  BY DEF Accept
<1>2. DeliveryTypeOK /\ LoopsOK /\ ListsOK /\ LostOK /\ DeadOK /\ DeliveryTypeOK' /\ Used
  BY <1>1, AcceptTypes, UsedFacts DEF KeptInv
<1>3. loop'[t] = Again(t) /\ \A u \in Tasks \ {t} : loop'[u] = loop[u]
  BY <1>1, <1>2, WaitingFacts, LoopBecomes
<1>4. Released(t)
  BY <1>1, <1>2, <1>3, WaitingFacts DEF Released, LoopsOK, LoopOK
<1>5. LoopsOK'
  BY <1>1, <1>2, <1>4, ReleasedLoops DEF Dead
<1>6. ListsOK'
  BY <1>1, <1>2 DEF ListsOK
<1>7. LostOK'
  BY <1>1, <1>2, <1>4, ReleasedLost
<1>8. DeadOK'
  <2>1. loop[t].pc # "trim" /\ loop'[t].pc # "trim"
    BY <1>1, <1>3, WaitingFacts DEF Doing
  <2> QED
    BY <1>1, <1>2, <1>3, <2>1, TrimsKept, DeadKept
<1> QED
  BY <1>2, <1>5, <1>6, <1>7, <1>8 DEF KeptInv

\* A message that cannot be parked was not in delivery when its process was told to
\* stop, or Redis has failed.
LEMMA LoseParkedKept ==
  ASSUME KeptInv, NEW t \in Tasks, LoseParked(t)
  PROVE  KeptInv'
<1>1. /\ Doing(t, "park") /\ loop' = [loop EXCEPT ![t] = Again(t)] /\ gone' = gone \cup loop[t].msgs
      /\ IF Connected(t) THEN Use("redis") ELSE UNCHANGED bounds
      /\ UNCHANGED <<queue, dead, queued, parked, signalled, mode, waits>>
  BY DEF LoseParked
<1>2. DeliveryTypeOK /\ LoopsOK /\ ListsOK /\ LostOK /\ DeadOK /\ DeliveryTypeOK' /\ Used
  BY <1>1, LoseParkedTypes, UsedFacts DEF KeptInv, Events
<1>3. loop'[t] = Again(t) /\ \A u \in Tasks \ {t} : loop'[u] = loop[u]
  BY <1>1, <1>2, WaitingFacts, LoopBecomes
<1>4. Released(t)
  BY <1>1, <1>2, <1>3, WaitingFacts DEF Released, LoopsOK, LoopOK
<1>5. LoopsOK'
  BY <1>1, <1>2, <1>4, ReleasedLoops DEF Dead
<1>6. ListsOK'
  BY <1>1, <1>2 DEF ListsOK
<1>7. LostOK'
  <2>1. ASSUME \A k \in {"kill", "grace", "redis", "sweep"} : spent'[k] = 0
        PROVE  signalled \cap gone' \subseteq gone
    <3>1. ~Connected(t)
      <4>1. spent["redis"] \in Nat /\ "redis" \in Events
        BY <1>2 DEF DeliveryTypeOK, Events
      <4>2. Use("redis") => spent'["redis"] = spent["redis"] + 1
        BY <1>2, <4>1, SpendFacts
      <4> QED
        BY <1>1, <2>1, <4>1, <4>2
    <3>2. loop[t].msgs \cap signalled = {}
      BY <1>2, <3>1 DEF LostOK, Connected
    <3> QED
      BY <1>1, <3>2
  <2> QED
    BY <1>1, <1>2, <1>4, <2>1, ReleasedLost
<1>8. DeadOK'
  <2>1. loop[t].pc # "trim" /\ loop'[t].pc # "trim"
    BY <1>1, <1>3, WaitingFacts DEF Doing
  <2> QED
    BY <1>1, <1>2, <1>3, <2>1, TrimsKept, DeadKept
<1> QED
  BY <1>2, <1>5, <1>6, <1>7, <1>8 DEF KeptInv

LEMMA TrimKept ==
  ASSUME KeptInv, NEW t \in Tasks, NEW m \in Messages, Trim(t, m)
  PROVE  KeptInv'
<1> DEFINE q0 == QueueOf(m)
<1>1. /\ Doing(t, "trim") /\ m \in loop[t].msgs /\ loop' = [loop EXCEPT ![t] = Again(t)]
      /\ dead' = [dead EXCEPT ![q0] = Trimmed(q0, @)]
      /\ UNCHANGED <<queue, queued, parked, gone, signalled, mode, waits, bounds>>
  BY DEF Trim
<1>2. DeliveryTypeOK /\ LoopsOK /\ ListsOK /\ LostOK /\ DeadOK /\ DeliveryTypeOK' /\ Used
  BY <1>1, TrimTypes, UsedFacts DEF KeptInv
<1>3. loop'[t] = Again(t) /\ \A u \in Tasks \ {t} : loop'[u] = loop[u]
  BY <1>1, <1>2, WaitingFacts, LoopBecomes
<1>4. Released(t)
  BY <1>1, <1>2, <1>3, WaitingFacts DEF Released, LoopsOK, LoopOK
<1>5. q0 \in Queues /\ dead[q0] \in Seq(Messages) /\ dead \in [Queues -> Seq(Messages)]
      /\ parked \in [Queues -> Seq(Messages)]
  BY <1>2, DeliveryBounds DEF DeliveryTypeOK
<1>6. dead'[q0] = Trimmed(q0, dead[q0]) /\ \A q \in Queues \ {q0} : dead'[q] = dead[q]
  BY <1>1, <1>5
<1>7. loop[t].msgs = {m}
  BY <1>1, <1>2 DEF LoopsOK, LoopOK, Doing
<1>8. /\ Len(dead'[q0]) <= DeadMax
      /\ Len(dead[q0]) < DeadMax => dead'[q0] = dead[q0]
      /\ Len(dead[q0]) >= DeadMax => Len(dead'[q0]) = DeadMax
      /\ \A y : In(y, dead'[q0]) => In(y, dead[q0])
      /\ OnceEach(dead[q0]) => OnceEach(dead'[q0])
      /\ IsPrefix(dead[q0], parked[q0]) => IsPrefix(dead'[q0], parked[q0])
  BY <1>5, <1>6, TrimmedFacts
<1> HIDE DEF q0
<1>9. \A y : \A q \in Queues : In(y, dead'[q]) => In(y, dead[q])
  BY <1>6, <1>8
<1>10. LoopsOK'
  <2>1. \A y : Dead(y)' => Dead(y)
    BY <1>9, DeliveryBounds DEF Dead
  <2> QED
    BY <1>2, <1>4, <2>1, ReleasedLoops
<1>11. ListsOK'
  BY <1>1, <1>2, <1>6, <1>8, <1>9 DEF ListsOK
<1>12. LostOK'
  BY <1>1, <1>2, <1>4, ReleasedLost
<1>13. DeadOK'
  <2> SUFFICES ASSUME NEW q \in Queues
               PROVE  /\ IsFiniteSet(Trims(q)')
                      /\ IsPrefix(dead'[q], parked'[q])
                      /\ dead'[q] # parked'[q] => Len(dead'[q]) >= DeadMax
                      /\ Len(dead'[q]) <= DeadMax + Cardinality(Trims(q)') + LostTrims'
    BY DEF DeadOK
  <2>1. /\ IsFiniteSet(Trims(q)) /\ IsPrefix(dead[q], parked[q])
        /\ dead[q] # parked[q] => Len(dead[q]) >= DeadMax
        /\ Len(dead[q]) <= DeadMax + Cardinality(Trims(q)) + LostTrims
    BY <1>2 DEF DeadOK
  <2>2. LostTrims' \in Nat /\ LostTrims' = LostTrims
    BY <1>1, <1>2, LostTrimsFacts DEF Used, bounds, LostTrims
  <2>3. Trims(q)' = Trims(q) \ {t}
    BY <1>4, ReleasedTrims
  <2>4. IsFiniteSet(Trims(q)')
    BY <2>1, <2>3, FS_RemoveElement
  <2>5. CASE q = q0
    <3>1. Cardinality(Trims(q)') \in Nat
      BY <2>4, FS_CardinalityType
    <3>2. Len(dead'[q]) <= DeadMax + Cardinality(Trims(q)') + LostTrims'
      <4>1. Len(dead'[q]) \in Nat /\ Len(dead'[q]) <= DeadMax
        BY <1>2, <1>8, <2>5, LenProperties DEF DeliveryTypeOK
      <4> QED
        BY <2>2, <3>1, <4>1, DeliveryBounds
    <3>3. dead'[q] # parked'[q] => Len(dead'[q]) >= DeadMax
      <4>1. Len(dead[q]) \in Nat /\ DeadMax \in Nat
        BY <1>5, <2>5, LenProperties, DeliveryBounds
      <4>2. CASE Len(dead[q]) < DeadMax
        BY <1>1, <1>8, <2>1, <2>5, <4>2
      <4>3. CASE Len(dead[q]) >= DeadMax
        BY <1>8, <2>5, <4>1, <4>3
      <4> QED
        BY <4>1, <4>2, <4>3
    <3> QED
      BY <1>1, <1>8, <2>1, <2>4, <2>5, <3>2, <3>3
  <2>6. CASE q # q0
    <3>1. t \notin Trims(q)
      BY <1>7, <2>6 DEF Trims, q0
    <3>2. Trims(q)' = Trims(q)
      BY <2>3, <3>1
    <3> QED
      BY <1>1, <1>6, <2>1, <2>2, <2>6, <3>2
  <2> QED
    BY <2>5, <2>6
<1> QED
  BY <1>2, <1>10, <1>11, <1>12, <1>13 DEF KeptInv

LEMMA RefuseKept ==
  ASSUME KeptInv, NEW t \in Tasks, NEW m \in Messages,
         NEW accepted \in BOOLEAN, Refuse(t, m, accepted)
  PROVE  KeptInv'
<1> DEFINE k == IF accepted THEN "echo" ELSE "refusal"
<1>1. /\ Doing(t, "try") /\ loop' = [loop EXCEPT ![t] = Refused(t, m)] /\ Use(k)
      /\ UNCHANGED <<queue, dead, queued, parked, gone, signalled, mode, waits>>
  BY DEF Refuse
<1>2. k \in Events
  BY DEF Events
<1> HIDE DEF k
<1>3. DeliveryTypeOK /\ LoopsOK /\ ListsOK /\ LostOK /\ DeadOK /\ DeliveryTypeOK' /\ Used
  BY <1>1, <1>2, RefuseTypes, UsedFacts DEF KeptInv
<1>4. /\ loop'[t].msgs = loop[t].msgs /\ loop[t].pc = "try" /\ loop'[t].pc \in {"try", "park"}
      /\ \A u \in Tasks \ {t} : loop'[u] = loop[u]
  BY <1>1, <1>3, RefusedFacts, LoopBecomes DEF Doing
<1>5. /\ \A y : Listed(y)' <=> Listed(y)
      /\ \A y : Dead(y)' <=> Dead(y)
  BY <1>1 DEF Listed, Dead
<1>6. \A u \in Tasks : loop'[u].msgs = loop[u].msgs
  BY <1>4
<1>7. LoopsOK'
  <2>1. ASSUME NEW u \in Tasks
        PROVE  LoopOK(u)' /\ HeldOK(u)'
    <3>1. LoopOK(u)'
      BY <1>1, <1>3, <1>4 DEF LoopsOK, LoopOK, Connected
    <3>2. HeldOK(u)'
      BY <1>1, <1>3, <1>4, <1>5 DEF LoopsOK, HeldOK
    <3> QED
      BY <3>1, <3>2
  <2>2. Apart'
    BY <1>3, <1>6 DEF LoopsOK, Apart
  <2> QED
    BY <2>1, <2>2 DEF LoopsOK
<1>8. ListsOK'
  BY <1>1, <1>3 DEF ListsOK
<1>9. LostOK'
  <2>1. StopWaitsForDelivery'
    BY <1>1, <1>3, StopWaitsKept DEF LostOK
  <2> QED
    BY <1>1, <1>3, <1>5, <1>6, <2>1 DEF LostOK
<1>10. DeadOK'
  BY <1>1, <1>3, <1>4, TrimsKept, DeadKept
<1> QED
  BY <1>3, <1>7, <1>8, <1>9, <1>10 DEF KeptInv

LEMMA ParkKept ==
  ASSUME KeptInv, NEW t \in Tasks, NEW m \in Messages, Park(t, m)
  PROVE  KeptInv'
<1> DEFINE q0 == QueueOf(m)
<1>1. /\ Doing(t, "park") /\ m \in loop[t].msgs /\ Connected(t)
      /\ dead' = [dead EXCEPT ![q0] = <<m>> \o @] /\ parked' = [parked EXCEPT ![q0] = <<m>> \o @]
      /\ loop' = [loop EXCEPT ![t].pc = "trim"]
      /\ UNCHANGED <<queue, queued, gone, signalled, mode, waits, bounds>>
  BY DEF Park
<1>2. DeliveryTypeOK /\ LoopsOK /\ ListsOK /\ LostOK /\ DeadOK /\ DeliveryTypeOK' /\ Used
  BY <1>1, ParkTypes, UsedFacts DEF KeptInv
<1>3. /\ loop'[t].pc = "trim" /\ loop'[t].msgs = loop[t].msgs
      /\ \A u \in Tasks \ {t} : loop'[u] = loop[u]
  BY <1>1, <1>2, PcFacts
<1>4. /\ q0 \in Queues /\ dead[q0] \in Seq(Messages) /\ parked[q0] \in Seq(Messages)
      /\ dead \in [Queues -> Seq(Messages)] /\ parked \in [Queues -> Seq(Messages)]
  BY <1>2, DeliveryBounds DEF DeliveryTypeOK
<1>5. /\ dead'[q0] = <<m>> \o dead[q0] /\ parked'[q0] = <<m>> \o parked[q0]
      /\ \A q \in Queues \ {q0} : dead'[q] = dead[q] /\ parked'[q] = parked[q]
  BY <1>1, <1>4
<1>6. /\ Len(dead'[q0]) = Len(dead[q0]) + 1
      /\ \A y : In(y, dead'[q0]) <=> In(y, dead[q0]) \/ y = m
      /\ OnceEach(dead[q0]) /\ ~In(m, dead[q0]) => OnceEach(dead'[q0])
  BY <1>4, <1>5, Pushed
<1>7. IsPrefix(dead[q0], parked[q0]) => IsPrefix(dead'[q0], parked'[q0])
  BY <1>4, <1>5, PushedPrefix
<1>8. loop[t].pc = "park" /\ loop[t].msgs = {m}
  BY <1>1, <1>2 DEF LoopsOK, LoopOK, Doing
<1> HIDE DEF q0
<1>9. m \in queued /\ ~Listed(m) /\ ~Dead(m) /\ \A u \in Tasks \ {t} : m \notin loop[u].msgs
  BY <1>2, <1>8 DEF LoopsOK, HeldOK, Apart
<1>10. \A y : \A q \in Queues : In(y, dead'[q]) => In(y, dead[q]) \/ (y = m /\ q = q0)
  BY <1>5, <1>6
<1>11. /\ \A y : Dead(y)' => Dead(y) \/ y = m
       /\ \A y : Listed(y)' <=> Listed(y)
  BY <1>1, <1>10, DeliveryBounds DEF Dead, Listed
<1>12. \A u \in Tasks : loop'[u].msgs = loop[u].msgs
  BY <1>3
<1>13. LoopsOK'
  <2>1. LoopOK(t)' /\ HeldOK(t)'
    <3>1. LoopOK(t)'
      BY <1>1, <1>2, <1>3, <1>8 DEF LoopsOK, LoopOK, Connected
    <3>2. HeldOK(t)'
      BY <1>1, <1>3, <1>8, <1>9, <1>11 DEF HeldOK
    <3> QED
      BY <3>1, <3>2
  <2>2. ASSUME NEW u \in Tasks \ {t}
        PROVE  LoopOK(u)' /\ HeldOK(u)'
    <3>1. LoopOK(u)'
      BY <1>1, <1>2, <1>3 DEF LoopsOK, LoopOK, Connected
    <3>2. HeldOK(u)'
      BY <1>1, <1>2, <1>3, <1>9, <1>11 DEF LoopsOK, HeldOK
    <3> QED
      BY <3>1, <3>2
  <2>3. Apart'
    BY <1>2, <1>12 DEF LoopsOK, Apart
  <2> QED
    BY <2>1, <2>2, <2>3 DEF LoopsOK
<1>14. ListsOK'
  <2> SUFFICES ASSUME NEW q \in Queues
               PROVE  /\ OnceEach(queue'[q]) /\ OnceEach(dead'[q])
                      /\ \A y : In(y, queue'[q]) => y \in queued' /\ QueueOf(y) = q /\ ~In(y, dead'[q])
                      /\ \A y : In(y, dead'[q]) => y \in queued'
    BY DEF ListsOK
  <2>1. /\ OnceEach(queue[q]) /\ OnceEach(dead[q])
        /\ \A y : In(y, queue[q]) => y \in queued /\ QueueOf(y) = q /\ ~In(y, dead[q])
        /\ \A y : In(y, dead[q]) => y \in queued
    BY <1>2 DEF ListsOK
  <2>2. ~In(m, queue[q0]) /\ ~In(m, dead[q0])
    BY <1>9 DEF Listed, Dead, q0
  <2>3. OnceEach(dead'[q])
    BY <1>5, <1>6, <2>1, <2>2
  <2>4. \A y : In(y, queue[q]) => ~In(y, dead'[q])
    BY <1>10, <2>1, <2>2
  <2> QED
    BY <1>1, <1>9, <1>10, <2>1, <2>3, <2>4
<1>15. LostOK'
  <2>1. StopWaitsForDelivery'
    BY <1>1, <1>2, StopWaitsKept DEF LostOK
  <2> QED
    BY <1>1, <1>2, <1>11, <1>12, <2>1 DEF LostOK
<1>16. DeadOK'
  <2> SUFFICES ASSUME NEW q \in Queues
               PROVE  /\ IsFiniteSet(Trims(q)')
                      /\ IsPrefix(dead'[q], parked'[q])
                      /\ dead'[q] # parked'[q] => Len(dead'[q]) >= DeadMax
                      /\ Len(dead'[q]) <= DeadMax + Cardinality(Trims(q)') + LostTrims'
    BY DEF DeadOK
  <2>1. /\ IsFiniteSet(Trims(q)) /\ IsPrefix(dead[q], parked[q])
        /\ dead[q] # parked[q] => Len(dead[q]) >= DeadMax
        /\ Len(dead[q]) <= DeadMax + Cardinality(Trims(q)) + LostTrims
    BY <1>2 DEF DeadOK
  <2>2. LostTrims' \in Nat /\ LostTrims' = LostTrims
    BY <1>1, <1>2, LostTrimsFacts DEF Used, bounds, LostTrims
  <2>3. CASE q = q0
    <3>1. t \notin Trims(q) /\ Trims(q)' = Trims(q) \cup {t}
      <4>1. t \notin Trims(q)
        BY <1>8 DEF Trims
      <4>2. t \in Trims(q)'
        BY <1>3, <1>8, <2>3 DEF Trims, q0
      <4>3. \A u \in Tasks \ {t} : u \in Trims(q)' <=> u \in Trims(q)
        BY <1>3 DEF Trims
      <4>4. Trims(q) \subseteq Tasks /\ Trims(q)' \subseteq Tasks
        BY DEF Trims
      <4> QED
        BY <4>1, <4>2, <4>3, <4>4
    <3>2. IsFiniteSet(Trims(q)') /\ Cardinality(Trims(q)') = Cardinality(Trims(q)) + 1
      BY <2>1, <3>1, FS_AddElement
    <3>3. Cardinality(Trims(q)) \in Nat /\ Len(dead[q]) \in Nat /\ Len(dead'[q]) = Len(dead[q]) + 1
          /\ DeadMax \in Nat
      BY <1>4, <1>6, <2>1, <2>3, FS_CardinalityType, LenProperties, DeliveryBounds
    <3>4. Len(dead'[q]) <= DeadMax + Cardinality(Trims(q)') + LostTrims'
      BY <2>1, <2>2, <3>2, <3>3
    <3>5. dead'[q] # parked'[q] => Len(dead'[q]) >= DeadMax
      <4>1. dead[q] = parked[q] => dead'[q] = parked'[q]
        BY <1>5, <2>3
      <4> QED
        BY <2>1, <3>3, <4>1
    <3> QED
      BY <1>7, <2>1, <2>3, <3>2, <3>4, <3>5
  <2>4. CASE q # q0
    <3>1. t \notin Trims(q) /\ t \notin Trims(q)'
      BY <1>3, <1>8, <2>4 DEF Trims, q0
    <3>2. Trims(q)' = Trims(q)
      <4>1. \A u \in Tasks \ {t} : u \in Trims(q)' <=> u \in Trims(q)
        BY <1>3 DEF Trims
      <4>2. Trims(q) \subseteq Tasks /\ Trims(q)' \subseteq Tasks
        BY DEF Trims
      <4> QED
        BY <3>1, <4>1, <4>2
    <3> QED
      BY <1>1, <1>5, <2>1, <2>2, <2>4, <3>2
  <2> QED
    BY <2>3, <2>4
<1> QED
  BY <1>2, <1>13, <1>14, <1>15, <1>16 DEF KeptInv


LEMMA StartKept == ASSUME KeptInv, NEW t \in Tasks, Start(t) PROVE KeptInv'
<1>1. /\ mode[t] = "down" /\ mode' = [mode EXCEPT ![t] = "running"]
      /\ UNCHANGED <<queue, dead, queued, parked, gone, signalled, waits, loop, bounds>>
  BY DEF Start, messages
<1>2. DeliveryTypeOK /\ LoopsOK /\ ListsOK /\ LostOK /\ DeadOK /\ DeliveryTypeOK' /\ Used
  BY <1>1, StartTypes, UsedFacts DEF KeptInv
<1>3. mode'[t] = "running" /\ \A u \in Tasks \ {t} : mode'[u] = mode[u]
  BY <1>1, <1>2 DEF DeliveryTypeOK
<1>4. LoopsOK'
  <2>1. ASSUME NEW u \in Tasks
        PROVE  LoopOK(u)' /\ HeldOK(u)'
    <3>1. LoopOK(u) /\ (u = t => ~waits[u])
      BY <1>1, <1>2 DEF LoopsOK, LoopOK
    <3>2. LoopOK(u)'
      BY <1>1, <1>3, <3>1 DEF LoopOK, Connected
    <3>3. HeldOK(u)'
      BY <1>1, <1>2 DEF LoopsOK, HeldOK, Listed, Dead
    <3> QED
      BY <3>2, <3>3
  <2> QED
    BY <1>1, <1>2, <2>1 DEF LoopsOK, Apart
<1>5. ListsOK'
  BY <1>1, <1>2 DEF ListsOK
<1>6. LostOK'
  <2>1. StopWaitsForDelivery'
    BY <1>1, <1>2, StopWaitsKept DEF LostOK
  <2> QED
    BY <1>1, <1>2, <2>1 DEF LostOK, Listed
<1>7. DeadOK'
  BY <1>1, <1>2, DeadKept DEF Trims
<1> QED
  BY <1>2, <1>4, <1>5, <1>6, <1>7 DEF KeptInv

LEMMA StopKept == ASSUME KeptInv, NEW t \in Tasks, Stop(t) PROVE KeptInv'
<1>1. /\ mode[t] = "running" /\ Use("stop") /\ mode' = [mode EXCEPT ![t] = "stopping"]
      /\ waits' = [waits EXCEPT ![t] = InFlight(t)]
      /\ signalled' = signalled \cup loop[t].msgs
      /\ UNCHANGED <<queue, dead, queued, parked, gone, loop>>
  BY DEF Stop
<1>2. DeliveryTypeOK /\ LoopsOK /\ ListsOK /\ LostOK /\ DeadOK /\ DeliveryTypeOK' /\ Used
  BY <1>1, StopTypes, UsedFacts DEF KeptInv, Events
<1>3. mode'[t] = "stopping" /\ \A u \in Tasks \ {t} : mode'[u] = mode[u]
  BY <1>1, <1>2 DEF DeliveryTypeOK
<1>4. (waits'[t] <=> loop[t].msgs # {}) /\ \A u \in Tasks \ {t} : waits'[u] = waits[u]
  BY <1>1, <1>2 DEF DeliveryTypeOK, InFlight
<1>5. LoopsOK'
  <2>1. LoopOK(t)'
    BY <1>1, <1>2, <1>3, <1>4 DEF LoopsOK, LoopOK, Connected
  <2>2. \A u \in Tasks \ {t} : LoopOK(u)'
    BY <1>1, <1>2, <1>3, <1>4 DEF LoopsOK, LoopOK, Connected
  <2>3. \A u \in Tasks : HeldOK(u)'
    BY <1>1, <1>2 DEF LoopsOK, HeldOK, Listed, Dead
  <2> QED
    BY <1>1, <1>2, <2>1, <2>2, <2>3 DEF LoopsOK, Apart
<1>6. ListsOK'
  BY <1>1, <1>2 DEF ListsOK
<1>7. LostOK'
  <2>1. loop[t].msgs \cap gone = {} /\ \A m \in loop[t].msgs : m \in queued /\ ~Listed(m)
    BY <1>2 DEF LostOK, LoopsOK, HeldOK
  <2>2. StopWaitsForDelivery'
    BY <1>1, <1>2, <2>1, StopWaitsKept DEF LostOK
  <2>3. \A y : Listed(y)' <=> Listed(y)
    BY <1>1 DEF Listed
  <2>4. gone' \subseteq queued' /\ signalled' \subseteq queued'
    BY <1>1, <1>2, <2>1 DEF LostOK
  <2>5. \A m \in gone' \cup signalled' : ~Listed(m)'
    BY <1>1, <1>2, <2>1, <2>3 DEF LostOK
  <2>6. \A u \in Tasks : loop'[u].msgs \cap gone' = {}
    BY <1>1, <1>2 DEF LostOK
  <2>7. ASSUME NEW u \in Tasks, loop'[u].msgs \cap signalled' # {}
        PROVE  waits'[u]
    <3>1. CASE u = t
      BY <1>1, <1>4, <2>7, <3>1
    <3>2. CASE u # t
      <4>1. loop[u].msgs \cap loop[t].msgs = {}
        BY <1>2, <3>2 DEF LoopsOK, Apart
      <4>2. loop[u].msgs \cap signalled # {}
        BY <1>1, <2>7, <4>1
      <4> QED
        BY <1>2, <1>4, <3>2, <4>2 DEF LostOK
    <3> QED
      BY <3>1, <3>2
  <2> QED
    BY <2>2, <2>4, <2>5, <2>6, <2>7 DEF LostOK
<1>8. DeadOK'
  BY <1>1, <1>2, DeadKept DEF Trims
<1> QED
  BY <1>2, <1>5, <1>6, <1>7, <1>8 DEF KeptInv

\* A process told to stop exits with a message only if it was not in delivery then,
\* and never before the trim of a dead letter.
LEMMA EndsKept == ASSUME KeptInv, NEW t \in Tasks, Ends(t) PROVE KeptInv'
<1>1. /\ GoDown(t)
      /\ \/ mode[t] = "stopping" /\ (waits[t] => loop[t].pc = "over") /\ UNCHANGED bounds
         \/ \E k \in {"kill", "grace", "sweep"} : Use(k)
  BY DEF Ends
<1>2. DeliveryTypeOK /\ LoopsOK /\ ListsOK /\ LostOK /\ DeadOK /\ DeliveryTypeOK' /\ Used
  BY <1>1, EndsTypes, UsedFacts DEF KeptInv, Events
<1>3. /\ loop'[t] = Waiting /\ \A u \in Tasks \ {t} : loop'[u] = loop[u]
      /\ mode'[t] = "down" /\ waits'[t] = FALSE
      /\ \A u \in Tasks \ {t} : mode'[u] = mode[u] /\ waits'[u] = waits[u]
      /\ gone' = gone \cup (IF loop[t].pc = "trim" THEN {} ELSE loop[t].msgs)
      /\ UNCHANGED <<queue, dead, queued, parked, signalled>>
  BY <1>1, <1>2, EndFacts
<1>4. Released(t)
  BY <1>3, WaitingFacts DEF Released
<1>5. LoopsOK'
  BY <1>2, <1>3, <1>4, ReleasedLoops DEF Dead
<1>6. ListsOK'
  BY <1>2, <1>3 DEF ListsOK
<1>7. ASSUME NEW k \in {"kill", "grace", "sweep"}, Use(k)
      PROVE  spent'[k] = spent[k] + 1 /\ spent[k] \in Nat
  BY <1>2, <1>7, SpendFacts DEF Events, DeliveryTypeOK
<1>8. LostOK'
  <2>1. ASSUME \A k \in {"kill", "grace", "redis", "sweep"} : spent'[k] = 0
        PROVE  signalled \cap gone' \subseteq gone
    <3>1. \A k \in {"kill", "grace", "sweep"} : ~Use(k)
      BY <1>7, <2>1
    <3>2. waits[t] => loop[t].pc = "over"
      BY <1>1, <3>1
    <3>3. loop[t].msgs \cap signalled = {}
      BY <1>2, <3>2 DEF LostOK, LoopsOK, LoopOK
    <3> QED
      BY <1>3, <3>3
  <2> QED
    BY <1>2, <1>3, <1>4, <2>1, ReleasedLost
<1>9. DeadOK'
  <2>1. CASE loop[t].pc # "trim"
    <3>1. loop'[t].pc # "trim"
      BY <1>3, WaitingFacts
    <3> QED
      BY <1>2, <1>3, <2>1, <3>1, TrimsKept, DeadKept
  <2>2. CASE loop[t].pc = "trim"
    <3>1. Connected(t) /\ loop[t].pc # "over"
      BY <1>2, <2>2 DEF LoopsOK, LoopOK
    <3>2. \E k \in {"kill", "grace", "sweep"} : Use(k)
      BY <1>1, <3>1 DEF Connected
    <3>3. LostTrims \in Nat /\ LostTrims' \in Nat /\ LostTrims' >= LostTrims + 1
      BY <1>2, <1>7, <3>2, LostTrimsFacts DEF Used
    <3> SUFFICES ASSUME NEW q \in Queues
                 PROVE  /\ IsFiniteSet(Trims(q)')
                        /\ IsPrefix(dead'[q], parked'[q])
                        /\ dead'[q] # parked'[q] => Len(dead'[q]) >= DeadMax
                        /\ Len(dead'[q]) <= DeadMax + Cardinality(Trims(q)') + LostTrims'
      BY DEF DeadOK
    <3>4. /\ IsFiniteSet(Trims(q)) /\ IsPrefix(dead[q], parked[q])
          /\ dead[q] # parked[q] => Len(dead[q]) >= DeadMax
          /\ Len(dead[q]) <= DeadMax + Cardinality(Trims(q)) + LostTrims
      BY <1>2 DEF DeadOK
    <3>5. Trims(q)' = Trims(q) \ {t}
      BY <1>4, ReleasedTrims
    <3>6. /\ IsFiniteSet(Trims(q)')
          /\ Cardinality(Trims(q)') = IF t \in Trims(q) THEN Cardinality(Trims(q)) - 1
                                                        ELSE Cardinality(Trims(q))
      <4>1. PICK before : before = Trims(q)
        OBVIOUS
      <4>2. /\ IsFiniteSet(before \ {t})
            /\ Cardinality(before \ {t}) = IF t \in before THEN Cardinality(before) - 1
                                                           ELSE Cardinality(before)
        BY <3>4, <4>1, FS_RemoveElement
      <4> QED
        BY <3>5, <4>1, <4>2
    <3>7. Cardinality(Trims(q)) \in Nat /\ Cardinality(Trims(q)') \in Nat /\ DeadMax \in Nat
      BY <3>4, <3>6, FS_CardinalityType, DeliveryBounds
    <3>8. Len(dead[q]) \in Nat
      BY <1>2, LenProperties DEF DeliveryTypeOK
    <3>9. Cardinality(Trims(q)) <= Cardinality(Trims(q)') + 1
      BY <3>6, <3>7
    <3>10. Len(dead[q]) <= DeadMax + Cardinality(Trims(q)') + LostTrims'
      BY <3>3, <3>4, <3>7, <3>8, <3>9
    <3> QED
      BY <1>3, <3>4, <3>6, <3>10
  <2> QED
    BY <2>1, <2>2
<1> QED
  BY <1>2, <1>5, <1>6, <1>8, <1>9 DEF KeptInv

\* The clock and the sweeps touch no message.
LEMMA OthersKept ==
  ASSUME KeptInv, DeliveryTypeOK', Used, UNCHANGED <<messages, mode, waits, loop>>
  PROVE  KeptInv'
<1>1. UNCHANGED <<queue, dead, queued, parked, gone, signalled, mode, waits, loop>>
  BY DEF messages
<1>2. DeliveryTypeOK /\ LoopsOK /\ ListsOK /\ LostOK /\ DeadOK
  BY DEF KeptInv
<1>3. LoopsOK'
  BY <1>1, <1>2 DEF LoopsOK, LoopOK, HeldOK, Apart, Connected, Listed, Dead
<1>4. ListsOK'
  BY <1>1, <1>2 DEF ListsOK
<1>5. LostOK'
  <2>1. StopWaitsForDelivery'
    BY <1>1, <1>2, StopWaitsKept DEF LostOK
  <2> QED
    BY <1>1, <1>2, <2>1 DEF LostOK, Listed
<1>6. DeadOK'
  BY <1>1, <1>2, DeadKept DEF Trims
<1> QED
  BY <1>3, <1>4, <1>5, <1>6 DEF KeptInv

LEMMA NextKept == ASSUME KeptInv, [DeliveryNext]_deliveryVars PROVE KeptInv'
<1>1. DeliveryTypeOK /\ DeliveryTypeOK'
  BY NextTypes DEF KeptInv
<1>2. CASE PassDay
  <2>1. Used /\ UNCHANGED <<messages, mode, waits, loop>>
    BY <1>1, <1>2, UsedFacts DEF PassDay, processes, Events
  <2> QED
    BY <1>1, <2>1, OthersKept
<1>3. ASSUME NEW r \in Reminders, Renew(r)
      PROVE  KeptInv'
  <2>1. Used /\ UNCHANGED <<messages, mode, waits, loop>>
    BY <1>1, <1>3, UsedFacts DEF Renew, processes, Events
  <2> QED
    BY <1>1, <2>1, OthersKept
<1>4. ASSUME NEW t \in Tasks, Remind(t)
      PROVE  KeptInv'
  <2>1. UNCHANGED <<messages, mode, waits, loop, bounds>>
    BY <1>4 DEF Remind, StartSweep, EndSweep, ClaimRow, MailRow
  <2> QED
    BY <1>1, <2>1, UsedFacts, OthersKept
<1>5. CASE UNCHANGED deliveryVars
  <2>1. Used /\ UNCHANGED <<messages, mode, waits, loop>>
    BY <1>1, <1>5, UsedFacts DEF deliveryVars, processes
  <2> QED
    BY <1>1, <2>1, OthersKept
<1> QED
  BY <1>1, <1>2, <1>3, <1>4, <1>5, StepCases, QueueKept, PopKept, StopPoppingKept, AcceptKept,
     LoseParkedKept, ParkKept, TrimKept, RefuseKept, StartKept, StopKept, EndsKept

LEMMA InitKept == ASSUME DeliveryInit PROVE KeptInv
<1>1. DeliveryTypeOK
  BY InitTypes
<1>2. /\ \A q \in Queues : queue[q] = <<>> /\ dead[q] = <<>> /\ parked[q] = <<>>
      /\ \A t \in Tasks : loop[t] = Waiting /\ mode[t] = "down" /\ waits[t] = FALSE
      /\ gone = {} /\ signalled = {} /\ queued = {}
      /\ \A k \in Events : spent[k] = 0
  BY DEF DeliveryInit
<1>3. \A y : \A q \in Queues : ~In(y, queue[q]) /\ ~In(y, dead[q])
  BY <1>2 DEF In
<1>4. LoopsOK
  BY <1>2, WaitingFacts DEF LoopsOK, LoopOK, HeldOK, Apart
<1>5. ListsOK
  BY <1>2, <1>3 DEF ListsOK, OnceEach
<1>6. LostOK
  BY <1>2, WaitingFacts DEF LostOK, StopWaitsForDelivery
<1>7. DeadOK
  <2> SUFFICES ASSUME NEW q \in Queues
               PROVE  /\ IsFiniteSet(Trims(q))
                      /\ IsPrefix(dead[q], parked[q])
                      /\ dead[q] # parked[q] => Len(dead[q]) >= DeadMax
                      /\ Len(dead[q]) <= DeadMax + Cardinality(Trims(q)) + LostTrims
    BY DEF DeadOK
  <2>1. Trims(q) = {}
    BY <1>2, WaitingFacts DEF Trims
  <2>2. IsFiniteSet(Trims(q)) /\ Cardinality(Trims(q)) = 0
    BY <2>1, FS_EmptySet
  <2>3. LostTrims = 0
    BY <1>2 DEF LostTrims, Events
  <2>4. <<>> \in Seq(Messages) /\ Len(<<>>) = 0
    BY EmptySeq
  <2>5. IsPrefix(<<>>, <<>>)
    BY <2>4 DEF IsPrefix
  <2>6. dead[q] = <<>> /\ parked[q] = <<>>
    BY <1>2
  <2> QED
    BY <2>2, <2>3, <2>4, <2>5, <2>6, DeliveryBounds
<1> QED
  BY <1>1, <1>4, <1>5, <1>6, <1>7 DEF KeptInv

\* The cardinality the properties of Delivery are written with.
LEMMA CardinalitySame == \A S : Cardinality(S) = Cardinality(S)
  BY DEF Cardinality, Cardinality

LEMMA Single ==
  ASSUME NEW B, \A i, j \in B : i = j
  PROVE  B = {} \/ \E i : B = {i}
<1> SUFFICES ASSUME B # {}
             PROVE  \E i : B = {i}
  OBVIOUS
<1>1. PICK i \in B : TRUE
  OBVIOUS
<1>2. B = {i}
  BY <1>1
<1> QED
  BY <1>2

\* The places of a message exclude each other, and each has at most one.
LEMMA KeptHolders == ASSUME KeptInv PROVE OneHolder
<1> SUFFICES ASSUME NEW m \in Messages
             PROVE  Places(m) <= 1
  BY DEF OneHolder
<1> DEFINE q == QueueOf(m)
           A == {t \in Tasks : m \in loop[t].msgs /\ loop[t].pc # "trim"}
           B == {i \in DOMAIN queue[q] : queue[q][i] = m}
           C == {i \in DOMAIN dead[q] : dead[q][i] = m}
<1>1. DeliveryTypeOK /\ LoopsOK /\ ListsOK
  BY DEF KeptInv
<1>2. q \in Queues /\ queue[q] \in Seq(Messages) /\ dead[q] \in Seq(Messages)
  BY <1>1, DeliveryBounds DEF DeliveryTypeOK
<1>3. DOMAIN queue[q] = 1..Len(queue[q]) /\ DOMAIN dead[q] = 1..Len(dead[q])
  BY <1>2, LenProperties
<1>4. /\ OnceEach(queue[q]) /\ OnceEach(dead[q])
      /\ In(m, queue[q]) => ~In(m, dead[q])
  BY <1>1, <1>2 DEF ListsOK
<1>5. A = {} \/ \E t : A = {t}
  <2>1. \A t, u \in A : t = u
    BY <1>1 DEF LoopsOK, Apart
  <2> HIDE DEF A
  <2> QED
    BY <2>1, Single
<1>6. B = {} \/ \E i : B = {i}
  <2>1. \A i, j \in B : i = j
    BY <1>3, <1>4 DEF OnceEach
  <2> HIDE DEF B
  <2> QED
    BY <2>1, Single
<1>7. C = {} \/ \E i : C = {i}
  <2>1. \A i, j \in C : i = j
    BY <1>3, <1>4 DEF OnceEach
  <2> HIDE DEF C
  <2> QED
    BY <2>1, Single
<1>8. B # {} => In(m, queue[q])
  BY <1>3 DEF In
<1>9. C # {} => In(m, dead[q])
  BY <1>3 DEF In
<1>10. A # {} => ~In(m, queue[q]) /\ ~In(m, dead[q])
  BY <1>1 DEF LoopsOK, HeldOK, Listed, Dead
<1>11. Places(m) = Cardinality(A) + Cardinality(B) + Cardinality(C)
  BY CardinalitySame DEF Places
<1> HIDE DEF A, B, C, q
<1>12. Cardinality({}) = 0 /\ \A x : Cardinality({x}) = 1
  BY FS_EmptySet, FS_Singleton
<1>13. /\ Cardinality(A) \in {0, 1} /\ (A = {} => Cardinality(A) = 0)
       /\ Cardinality(B) \in {0, 1} /\ (B = {} => Cardinality(B) = 0)
       /\ Cardinality(C) \in {0, 1} /\ (C = {} => Cardinality(C) = 0)
  BY <1>5, <1>6, <1>7, <1>12
<1> QED
  BY <1>4, <1>8, <1>9, <1>10, <1>11, <1>13

LEMMA KeptDead == ASSUME KeptInv PROVE DeadLettersKeepNewest
<1> DEFINE T == {t \in Tasks : loop[t].pc = "trim"}
<1>1. DeliveryTypeOK /\ LoopsOK /\ DeadOK
  BY DEF KeptInv
<1>2. T = Trims("email") \cup Trims("sms")
  <2>1. ASSUME NEW t \in T
        PROVE  t \in Trims("email") \cup Trims("sms")
    <3>1. PICK m \in Messages : loop[t].msgs = {m}
      BY <1>1 DEF LoopsOK, LoopOK
    <3>2. QueueOf(m) \in {"email", "sms"}
      BY DEF QueueOf
    <3> QED
      BY <3>1, <3>2 DEF Trims
  <2> QED
    BY <2>1 DEF Trims
<1>3. IsFiniteSet(T)
  <2>1. IsFiniteSet(Trims("email")) /\ IsFiniteSet(Trims("sms"))
    BY <1>1 DEF DeadOK, Queues
  <2> HIDE DEF T
  <2>2. IsFiniteSet(Trims("email") \cup Trims("sms"))
    BY <2>1, FS_Union
  <2> QED
    BY <1>2, <2>2
<1> SUFFICES ASSUME NEW q \in Queues
             PROVE  /\ IsPrefix(dead[q], parked[q])
                    /\ dead[q] # parked[q] => Len(dead[q]) >= DeadMax
                    /\ Len(dead[q]) <= DeadMax + Cardinality(T)
                                       + spent["kill"] + spent["grace"] + spent["sweep"]
  BY CardinalitySame DEF DeadLettersKeepNewest
<1>4. /\ IsFiniteSet(Trims(q)) /\ IsPrefix(dead[q], parked[q])
      /\ dead[q] # parked[q] => Len(dead[q]) >= DeadMax
      /\ Len(dead[q]) <= DeadMax + Cardinality(Trims(q)) + LostTrims
  BY <1>1 DEF DeadOK
<1>5. Trims(q) \subseteq T
  BY DEF Trims
<1> HIDE DEF T
<1>6. Cardinality(Trims(q)) <= Cardinality(T)
  BY <1>3, <1>5, FS_Subset
<1>7. /\ Cardinality(Trims(q)) \in Nat /\ Cardinality(T) \in Nat /\ Len(dead[q]) \in Nat /\ DeadMax \in Nat
      /\ spent["kill"] \in Nat /\ spent["grace"] \in Nat /\ spent["sweep"] \in Nat
  BY <1>1, <1>3, <1>4, FS_CardinalityType, LenProperties, DeliveryBounds DEF DeliveryTypeOK, Events
<1>8. /\ Len(dead[q]) <= DeadMax + Cardinality(T)
                         + spent["kill"] + spent["grace"] + spent["sweep"]
  BY <1>4, <1>6, <1>7 DEF LostTrims
<1> QED
  BY <1>4, <1>8

\* However many processes, messages and faults: a message is in one place at a time,
\* a stop gives up none that was in delivery, and the list of undeliverable messages
\* drops none of the newest.
THEOREM MessagesAreKeptHolds == DeliverySpec => []MessagesAreKept
<1>1. DeliveryInit => KeptInv
  BY InitKept
<1>2. KeptInv /\ [DeliveryNext]_deliveryVars => KeptInv'
  BY NextKept
<1>3. KeptInv => MessagesAreKept
  BY KeptHolders, KeptDead DEF KeptInv, LostOK, MessagesAreKept
<1> QED
  BY <1>1, <1>2, <1>3, PTL DEF DeliverySpec


\* The sources' figures: reminders start before a claim expires, and a claim
\* expires before an entitlement granted again ends.
Spacing == Window \in Nat \ {0} /\ Window < ClaimDays /\ ClaimDays < Validity

Announcing(t, r, e) == sweep[t].pc = "mail" /\ r \in sweep[t].row /\ sweep[t].ends[r] = e
Mailed(r, e) == In(e, mailed[r])
Announced(r, e) == Mailed(r, e) \/ \E t \in Tasks : Announcing(t, r, e)
Claimed(r, e) == \E c \in claims : c.row = r /\ c.end = e

SweepOK(t) ==
  /\ sweep[t].pc = "mail" => \E r \in Reminders : sweep[t].row = {r}
  /\ sweep[t].pc # "idle" =>
       /\ sweep[t].since <= day /\ day <= sweep[t].since + 1
       /\ \A r \in sweep[t].rows \cup sweep[t].row :
            sweep[t].since < sweep[t].ends[r] /\ sweep[t].ends[r] <= sweep[t].since + Window

\* A claim outlives the end it is for.
ClaimsOK == \A c \in claims : c.end < c.until /\ day < c.until /\ c.until <= day + ClaimDays

OnceOK ==
  /\ \A r \in Reminders : OnceEach(mailed[r])
  /\ \A r \in Reminders, e \in Nat : Announced(r, e) => e < day \/ Claimed(r, e)
  /\ \A t \in Tasks, r \in Reminders, e \in Nat : Announcing(t, r, e) => ~Mailed(r, e)
  /\ \A t, u \in Tasks, r \in Reminders, e \in Nat :
       Announcing(t, r, e) /\ Announcing(u, r, e) => t = u

Pending(t, r) == r \in sweep[t].rows /\ sweep[t].ends[r] = endsAt[r]

\* While a sweep runs: what ends tomorrow is still on its list or is announced.
SweepInTime(t) ==
  sweep[t].pc # "idle" =>
    /\ sweep[t].since = day
    /\ \A r \in Reminders : endsAt[r] = day + 1 => Pending(t, r) \/ Announced(r, endsAt[r])
    /\ \A r \in Courses : sweep[t].ends[r] # endsAt[r] => endsAt[r] = day + Validity

\* A claim is for an announcement; one for an earlier end expires before the reminder
\* of the present one is due.
ClaimInTime(c) ==
  /\ Announced(c.row, c.end)
  /\ c.row \in Courses /\ c.end # endsAt[c.row] => c.until + Validity <= endsAt[c.row] + ClaimDays

InTime ==
  /\ \A t \in Tasks : SweepInTime(t)
  /\ \A c \in claims : ClaimInTime(c)
  /\ \A r \in Reminders : endsAt[r] <= day => Mailed(r, endsAt[r])
  /\ swept => \A r \in Reminders : endsAt[r] = day + 1 => Announced(r, endsAt[r])

EndsInv ==
  /\ DeliveryTypeOK /\ \A t \in Tasks : SweepOK(t)
  /\ ClaimsOK /\ OnceOK /\ (~missed => InTime)

-----------------------------------------------------------------------------
LEMMA SpacingFacts ==
  ASSUME Spacing
  PROVE  /\ Window \in Nat /\ ClaimDays \in Nat /\ Validity \in Nat
         /\ 1 <= Window /\ Window + 1 <= ClaimDays /\ ClaimDays + 1 <= Validity
  BY DeliveryBounds DEF Spacing

LEMMA SweepNumbers ==
  ASSUME DeliveryTypeOK
  PROVE  /\ day \in Nat
         /\ \A t \in Tasks : /\ sweep[t].since \in Nat /\ sweep[t].rows \subseteq Reminders
                             /\ sweep[t].row \subseteq Reminders
                             /\ \A r \in Reminders : sweep[t].ends[r] \in Nat
         /\ \A r \in Reminders : endsAt[r] \in Nat /\ mailed[r] \in Seq(Nat)
         /\ \A c \in claims : c.row \in Reminders /\ c.end \in Nat /\ c.until \in Nat
  BY DEF DeliveryTypeOK, Sweep, Claim

\* Steps that leave the reminders alone.
LEMMA RemindersKept ==
  ASSUME EndsInv, DeliveryTypeOK', UNCHANGED <<reminders, sweep>>
  PROVE  EndsInv'
<1>1. UNCHANGED <<day, endsAt, claims, mailed, swept, missed, sweep>>
  BY DEF reminders
<1>2. DeliveryTypeOK /\ (\A t \in Tasks : SweepOK(t)) /\ ClaimsOK /\ OnceOK
  BY DEF EndsInv
<1>3. \A t \in Tasks : SweepOK(t)'
  BY <1>1, <1>2 DEF SweepOK
<1>4. ClaimsOK'
  BY <1>1, <1>2 DEF ClaimsOK
<1>5. OnceOK'
  BY <1>1, <1>2 DEF OnceOK, Announced, Announcing, Mailed, Claimed
<1>6. ASSUME ~missed'
      PROVE  InTime'
  <2>1. InTime
    BY <1>1, <1>6 DEF EndsInv
  <2> QED
    BY <1>1, <2>1 DEF InTime, SweepInTime, ClaimInTime, Pending, Announced, Announcing, Mailed
<1> QED
  BY <1>3, <1>4, <1>5, <1>6 DEF EndsInv

LEMMA TickEnds == ASSUME Spacing, EndsInv, PassDay PROVE EndsInv'
<1>1. /\ \A t \in Tasks : sweep[t].pc # "idle" => sweep[t].since = day
      /\ day' = day + 1 /\ claims' = {c \in claims : c.until > day + 1}
      /\ UNCHANGED <<endsAt, mailed, sweep>>
  BY DEF PassDay, processes
<1>2. swept' = FALSE
  BY DEF PassDay
<1>3. missed' = (missed \/ ~swept \/ \E t \in Tasks : sweep[t].pc # "idle")
  BY DEF PassDay
<1>4. DeliveryTypeOK /\ (\A t \in Tasks : SweepOK(t)) /\ ClaimsOK /\ OnceOK /\ DeliveryTypeOK'
  BY TickTypes DEF EndsInv
<1>5. day \in Nat /\ \A c \in claims : c.row \in Reminders /\ c.end \in Nat /\ c.until \in Nat
  BY <1>4, SweepNumbers
<1>6. \A t \in Tasks : SweepOK(t)'
  <2> SUFFICES ASSUME NEW t \in Tasks
               PROVE  SweepOK(t)'
    OBVIOUS
  <2>1. SweepOK(t) /\ sweep[t].since \in Nat
    BY <1>4, SweepNumbers
  <2> QED
    BY <1>1, <1>5, <2>1 DEF SweepOK
<1>7. ClaimsOK'
  <2> SUFFICES ASSUME NEW c \in claims'
               PROVE  c.end < c.until /\ day' < c.until /\ c.until <= day' + ClaimDays
    BY DEF ClaimsOK
  <2>1. c \in claims /\ c.until > day + 1
    BY <1>1
  <2>2. c.end < c.until /\ day < c.until /\ c.until <= day + ClaimDays
    BY <1>4, <2>1 DEF ClaimsOK
  <2> QED
    BY <1>1, <1>5, <2>1, <2>2, DeliveryBounds
<1>8. /\ \A r, e : Announced(r, e)' <=> Announced(r, e)
      /\ \A r, e : Mailed(r, e)' <=> Mailed(r, e)
      /\ \A t, r, e : Announcing(t, r, e)' <=> Announcing(t, r, e)
  BY <1>1 DEF Announced, Announcing, Mailed
<1>9. OnceOK'
  <2>1. ASSUME NEW r \in Reminders, NEW e \in Nat, Announced(r, e)
        PROVE  e < day' \/ Claimed(r, e)'
    <3>1. CASE e < day
      BY <1>1, <1>5, <3>1
    <3>2. ASSUME NEW c \in claims, c.row = r, c.end = e
          PROVE  e < day' \/ Claimed(r, e)'
      <4>1. c.end < c.until /\ c.until \in Nat
        BY <1>4, <1>5 DEF ClaimsOK
      <4>2. CASE c.until > day + 1
        BY <1>1, <3>2, <4>2 DEF Claimed
      <4>3. CASE c.until <= day + 1
        BY <1>1, <1>5, <3>2, <4>1, <4>3
      <4> QED
        BY <1>5, <4>1, <4>2, <4>3
    <3> QED
      BY <1>4, <2>1, <3>1, <3>2 DEF OnceOK, Claimed
  <2>2. \A r \in Reminders : OnceEach(mailed[r])'
    BY <1>1, <1>4 DEF OnceOK
  <2> QED
    BY <1>4, <1>8, <2>1, <2>2 DEF OnceOK
<1>10. ASSUME ~missed'
       PROVE  InTime'
  <2>1. ~missed /\ swept /\ \A t \in Tasks : sweep[t].pc = "idle"
    BY <1>3, <1>10
  <2>2. InTime
    BY <2>1 DEF EndsInv
  <2>3. \A t \in Tasks : SweepInTime(t)'
    BY <1>1, <2>1 DEF SweepInTime
  <2>4. \A c \in claims' : ClaimInTime(c)'
    BY <1>1, <1>8, <2>2 DEF InTime, ClaimInTime
  <2>5. \A r \in Reminders : Announced(r, endsAt[r]) => Mailed(r, endsAt[r])
    BY <2>1 DEF Announced, Announcing
  <2>6. ASSUME NEW r \in Reminders, endsAt[r] <= day + 1
        PROVE  Mailed(r, endsAt[r])
    <3>1. endsAt[r] \in Nat
      BY <1>4, SweepNumbers
    <3>2. endsAt[r] <= day \/ endsAt[r] = day + 1
      BY <1>5, <2>6, <3>1
    <3> QED
      BY <2>1, <2>2, <2>5, <3>2 DEF InTime
  <2> QED
    BY <1>1, <1>2, <1>8, <2>3, <2>4, <2>6 DEF InTime
<1> QED
  BY <1>4, <1>6, <1>7, <1>9, <1>10 DEF EndsInv

LEMMA RenewEnds ==
  ASSUME Spacing, EndsInv, NEW r \in Reminders, Renew(r)
  PROVE  EndsInv'
<1>1. /\ (r \in Plans => day <= endsAt[r])
      /\ endsAt' = [endsAt EXCEPT ![r] = IF r \in Plans THEN @ + Validity ELSE day + Validity]
      /\ UNCHANGED <<day, claims, mailed, swept, missed, sweep>>
  BY DEF Renew, processes
<1>2. DeliveryTypeOK /\ (\A t \in Tasks : SweepOK(t)) /\ ClaimsOK /\ OnceOK /\ DeliveryTypeOK'
  BY RenewTypes DEF EndsInv
<1>3. day \in Nat /\ endsAt \in [Reminders -> Nat]
  BY <1>2 DEF DeliveryTypeOK
<1>4. /\ \A x \in Reminders \ {r} : endsAt'[x] = endsAt[x]
      /\ endsAt'[r] >= day + Validity /\ endsAt'[r] \in Nat
      /\ r \notin Plans => endsAt'[r] = day + Validity
  <2>1. endsAt'[r] = IF r \in Plans THEN endsAt[r] + Validity ELSE day + Validity
    BY <1>1, <1>3
  <2>2. endsAt[r] \in Nat
    BY <1>3
  <2> QED
    BY <1>1, <1>3, <2>1, <2>2, DeliveryBounds
<1>5. \A t \in Tasks : SweepOK(t)'
  BY <1>1, <1>2 DEF SweepOK
<1>6. ClaimsOK'
  BY <1>1, <1>2 DEF ClaimsOK
<1>7. /\ \A x, e : Announced(x, e)' <=> Announced(x, e)
      /\ \A x, e : Mailed(x, e)' <=> Mailed(x, e)
      /\ \A t, x, e : Announcing(t, x, e)' <=> Announcing(t, x, e)
      /\ \A x, e : Claimed(x, e)' <=> Claimed(x, e)
  BY <1>1 DEF Announced, Announcing, Mailed, Claimed
<1>8. OnceOK'
  BY <1>1, <1>2, <1>7 DEF OnceOK
<1>9. r \in Courses => r \notin Plans
  BY DeliveryAssumption
<1>10. endsAt'[r] > day + 1
  BY <1>3, <1>4, SpacingFacts
<1>11. ASSUME ~missed'
       PROVE  InTime'
  <2>1. InTime
    BY <1>1, <1>11 DEF EndsInv
  <2>2. ASSUME NEW t \in Tasks
        PROVE  SweepInTime(t)'
    <3> SUFFICES ASSUME sweep[t].pc # "idle"
                 PROVE  /\ sweep'[t].since = day'
                        /\ \A x \in Reminders : endsAt'[x] = day' + 1 =>
                                                  Pending(t, x)' \/ Announced(x, endsAt[x])'
                        /\ \A x \in Courses : sweep'[t].ends[x] # endsAt'[x] =>
                                                  endsAt'[x] = day' + Validity
      BY <1>1 DEF SweepInTime
    <3>1. /\ sweep[t].since = day
          /\ \A x \in Reminders : endsAt[x] = day + 1 => Pending(t, x) \/ Announced(x, endsAt[x])
          /\ \A x \in Courses : sweep[t].ends[x] # endsAt[x] => endsAt[x] = day + Validity
      BY <2>1 DEF InTime, SweepInTime
    <3>2. ASSUME NEW x \in Reminders, endsAt'[x] = day' + 1
          PROVE  Pending(t, x)' \/ Announced(x, endsAt[x])'
      <4>1. x # r
        BY <1>1, <1>3, <1>4, <1>10, <3>2
      <4>2. endsAt'[x] = endsAt[x]
        BY <1>4, <4>1
      <4> QED
        BY <1>1, <1>7, <3>1, <3>2, <4>2 DEF Pending
    <3>3. ASSUME NEW x \in Courses, sweep'[t].ends[x] # endsAt'[x]
          PROVE  endsAt'[x] = day' + Validity
      <4>1. x \in Reminders
        BY DEF Reminders
      <4> QED
        BY <1>1, <1>4, <1>9, <3>1, <3>3, <4>1
    <3> QED
      BY <1>1, <3>1, <3>2, <3>3
  <2>3. ASSUME NEW c \in claims'
        PROVE  ClaimInTime(c)'
    <3>1. ClaimInTime(c) /\ c.row \in Reminders /\ c.until \in Nat /\ c.until <= day + ClaimDays
      BY <1>1, <1>2, <2>1, SweepNumbers DEF InTime, ClaimsOK
    <3>2. CASE c.row # r
      BY <1>4, <1>7, <3>1, <3>2 DEF ClaimInTime
    <3>3. CASE c.row = r
      <4>1. r \in Courses => c.until + Validity <= endsAt'[r] + ClaimDays
        BY <1>3, <1>4, <1>9, <3>1, DeliveryBounds
      <4> QED
        BY <1>7, <3>1, <3>3, <4>1 DEF ClaimInTime
    <3> QED
      BY <3>2, <3>3
  <2>4. ASSUME NEW x \in Reminders, endsAt'[x] <= day'
        PROVE  Mailed(x, endsAt[x])'
    <3>1. x # r
      BY <1>1, <1>3, <1>4, <1>10, <2>4
    <3>2. endsAt'[x] = endsAt[x]
      BY <1>4, <3>1
    <3> QED
      BY <1>1, <1>7, <2>1, <2>4, <3>2 DEF InTime
  <2>5. ASSUME swept', NEW x \in Reminders, endsAt'[x] = day' + 1
        PROVE  Announced(x, endsAt[x])'
    <3>1. x # r
      BY <1>1, <1>3, <1>4, <1>10, <2>5
    <3>2. endsAt'[x] = endsAt[x]
      BY <1>4, <3>1
    <3> QED
      BY <1>1, <1>7, <2>1, <2>5, <3>2 DEF InTime
  <2> QED
    BY <2>2, <2>3, <2>4, <2>5 DEF InTime
<1> QED
  BY <1>2, <1>5, <1>6, <1>8, <1>11 DEF EndsInv


LEMMA StartSweepEnds ==
  ASSUME Spacing, EndsInv, NEW t \in Tasks, StartSweep(t)
  PROVE  EndsInv'
<1>1. /\ sweep[t].pc = "idle" /\ ~swept
      /\ UNCHANGED <<day, endsAt, claims, mailed, swept, missed, messages, mode, waits, loop, bounds>>
  BY DEF StartSweep, Sweeping, reminders
<1>2. DeliveryTypeOK /\ (\A u \in Tasks : SweepOK(u)) /\ ClaimsOK /\ OnceOK /\ DeliveryTypeOK'
  BY SweepTypes DEF EndsInv, Remind
<1>3. /\ \A u \in Tasks \ {t} : sweep'[u] = sweep[u]
      /\ sweep'[t].pc = "claim" /\ sweep'[t].since = day /\ sweep'[t].rows = NearEnd
      /\ sweep'[t].ends = endsAt /\ sweep'[t].row = {}
  BY <1>2, StartSweepFacts
<1>4. day \in Nat /\ \A r \in Reminders : endsAt[r] \in Nat
  BY <1>2, SweepNumbers
<1>5. \A u \in Tasks : SweepOK(u)'
  <2>1. SweepOK(t)'
    BY <1>1, <1>3, <1>4, DeliveryBounds DEF SweepOK, NearEnd
  <2>2. \A u \in Tasks \ {t} : SweepOK(u)'
    BY <1>1, <1>2, <1>3 DEF SweepOK
  <2> QED
    BY <2>1, <2>2
<1>6. ClaimsOK'
  BY <1>1, <1>2 DEF ClaimsOK
<1>7. /\ \A u \in Tasks : \A r, e : Announcing(u, r, e)' <=> Announcing(u, r, e)
      /\ \A r, e : Mailed(r, e)' <=> Mailed(r, e)
      /\ \A r, e : Claimed(r, e)' <=> Claimed(r, e)
  BY <1>1, <1>3 DEF Announcing, Mailed, Claimed
<1>8. \A r, e : Announced(r, e)' <=> Announced(r, e)
  BY <1>7 DEF Announced
<1>9. OnceOK'
  BY <1>1, <1>2, <1>7, <1>8 DEF OnceOK
<1>10. ASSUME ~missed'
       PROVE  InTime'
  <2>1. InTime
    BY <1>1, <1>10 DEF EndsInv
  <2>2. SweepInTime(t)'
    <3>1. \A r \in Reminders : endsAt[r] = day + 1 => r \in NearEnd
      BY <1>4, SpacingFacts DEF NearEnd
    <3> QED
      BY <1>1, <1>3, <3>1 DEF SweepInTime, Pending, Reminders
  <2>3. \A u \in Tasks \ {t} : SweepInTime(u)'
    BY <1>1, <1>3, <1>8, <2>1 DEF InTime, SweepInTime, Pending
  <2>4. \A c \in claims' : ClaimInTime(c)'
    BY <1>1, <1>8, <2>1 DEF InTime, ClaimInTime
  <2>5. \A r \in Reminders : (endsAt[r] <= day => Mailed(r, endsAt[r]))'
    BY <1>1, <1>7, <2>1 DEF InTime
  <2> QED
    BY <1>1, <2>2, <2>3, <2>4, <2>5 DEF InTime
<1> QED
  BY <1>2, <1>5, <1>6, <1>9, <1>10 DEF EndsInv

LEMMA EndSweepEnds ==
  ASSUME Spacing, EndsInv, NEW t \in Tasks, EndSweep(t)
  PROVE  EndsInv'
<1>1. /\ sweep[t].pc = "claim" /\ sweep[t].rows = {} /\ sweep' = [sweep EXCEPT ![t] = NoSweep]
      /\ UNCHANGED <<day, endsAt, claims, mailed, missed>>
  BY DEF EndSweep, Sweeping
<1>2. DeliveryTypeOK /\ (\A u \in Tasks : SweepOK(u)) /\ ClaimsOK /\ OnceOK /\ DeliveryTypeOK'
  BY SweepTypes DEF EndsInv, Remind
<1>3. sweep'[t].pc = "idle" /\ \A u \in Tasks \ {t} : sweep'[u] = sweep[u]
  BY <1>1, <1>2, NoSweepFacts, SweepBecomes
<1>4. \A u \in Tasks : SweepOK(u)'
  <2>1. SweepOK(t)'
    BY <1>3 DEF SweepOK
  <2>2. \A u \in Tasks \ {t} : SweepOK(u)'
    BY <1>1, <1>2, <1>3 DEF SweepOK
  <2> QED
    BY <2>1, <2>2
<1>5. ClaimsOK'
  BY <1>1, <1>2 DEF ClaimsOK
<1>6. /\ \A u \in Tasks : \A r, e : Announcing(u, r, e)' <=> Announcing(u, r, e)
      /\ \A r, e : Mailed(r, e)' <=> Mailed(r, e)
      /\ \A r, e : Claimed(r, e)' <=> Claimed(r, e)
  BY <1>1, <1>3 DEF Announcing, Mailed, Claimed
<1>7. \A r, e : Announced(r, e)' <=> Announced(r, e)
  BY <1>6 DEF Announced
<1>8. OnceOK'
  BY <1>1, <1>2, <1>6, <1>7 DEF OnceOK
<1>9. ASSUME ~missed'
      PROVE  InTime'
  <2>1. InTime
    BY <1>1, <1>9 DEF EndsInv
  <2>2. \A u \in Tasks : SweepInTime(u)'
    BY <1>1, <1>3, <1>7, <2>1 DEF InTime, SweepInTime, Pending
  <2>3. \A c \in claims' : ClaimInTime(c)'
    BY <1>1, <1>7, <2>1 DEF InTime, ClaimInTime
  <2>4. \A r \in Reminders : (endsAt[r] <= day => Mailed(r, endsAt[r]))'
    BY <1>1, <1>6, <2>1 DEF InTime
  <2>5. \A r \in Reminders : endsAt[r] = day + 1 => Announced(r, endsAt[r])
    BY <1>1, <2>1 DEF InTime, SweepInTime, Pending
  <2>6. \A r \in Reminders : (endsAt[r] = day + 1 => Announced(r, endsAt[r]))'
    BY <1>1, <1>7, <2>5
  <2> QED
    BY <2>2, <2>3, <2>4, <2>6 DEF InTime
<1> QED
  BY <1>2, <1>4, <1>5, <1>8, <1>9 DEF EndsInv

\* A row is claimed only for an end that nobody has announced or is announcing: the claim
\* of an announced end lasts until the end has passed.
LEMMA FreeUnannounced ==
  ASSUME EndsInv, NEW t \in Tasks, NEW r \in sweep[t].rows, sweep[t].pc = "claim",
         Unclaimed(r, sweep[t].ends[r])
  PROVE  ~Announced(r, sweep[t].ends[r])
<1> DEFINE e == sweep[t].ends[r]
<1>1. DeliveryTypeOK /\ SweepOK(t) /\ OnceOK
  BY DEF EndsInv
<1>2. r \in Reminders /\ e \in Nat /\ day \in Nat /\ sweep[t].since \in Nat
  BY <1>1, SweepNumbers
<1>3. ~Claimed(r, e)
  BY DEF Unclaimed, Claimed
<1>4. day <= sweep[t].since + 1 /\ sweep[t].since < e
  BY <1>1 DEF SweepOK
<1> HIDE DEF e
<1>5. ~(e < day)
  BY <1>2, <1>4
<1>6. ~Announced(r, e)
  BY <1>1, <1>2, <1>3, <1>5 DEF OnceOK
<1> QED
  BY <1>6 DEF e

LEMMA ClaimRowEnds ==
  ASSUME Spacing, EndsInv, NEW t \in Tasks, NEW r \in Reminders, ClaimRow(t, r)
  PROVE  EndsInv'
<1>0. PICK e : e = sweep[t].ends[r]
  OBVIOUS
<1>1. PICK n : n = [row |-> r, end |-> e, until |-> day + ClaimDays]
  OBVIOUS
<1>2. PICK free \in BOOLEAN : free <=> Unclaimed(r, e)
  OBVIOUS
<1>3. /\ sweep[t].pc = "claim" /\ r \in sweep[t].rows
      /\ claims' = IF free THEN claims \cup {n} ELSE claims
      /\ UNCHANGED <<day, endsAt, mailed, swept, missed>>
  BY <1>0, <1>1, <1>2 DEF ClaimRow, Sweeping, ClaimExpiry
<1>4. DeliveryTypeOK /\ (\A u \in Tasks : SweepOK(u)) /\ ClaimsOK /\ OnceOK /\ DeliveryTypeOK'
  BY SweepTypes DEF EndsInv, Remind
<1>5. /\ \A u \in Tasks \ {t} : sweep'[u] = sweep[u]
      /\ sweep'[t].since = sweep[t].since /\ sweep'[t].ends = sweep[t].ends
      /\ sweep'[t].rows = sweep[t].rows \ {r}
      /\ free => sweep'[t].pc = "mail" /\ sweep'[t].row = {r}
      /\ ~free => sweep'[t].pc = "claim" /\ sweep'[t].row = {}
  BY <1>0, <1>2, <1>4, ClaimRowFacts
<1>6. /\ e \in Nat /\ day \in Nat /\ sweep[t].since \in Nat
      /\ \A x \in Reminders : endsAt[x] \in Nat
      /\ \A c \in claims : c.row \in Reminders /\ c.end \in Nat /\ c.until \in Nat
  BY <1>0, <1>4, SweepNumbers
<1>7. /\ day <= sweep[t].since + 1 /\ sweep[t].since <= day
      /\ sweep[t].since < e /\ e <= sweep[t].since + Window
  BY <1>0, <1>3, <1>4 DEF SweepOK
<1>8. n.row = r /\ n.end = e /\ n.until = day + ClaimDays
  BY <1>1
<1>9. \A u \in Tasks : SweepOK(u)'
  <2>1. SweepOK(t)'
    BY <1>3, <1>4, <1>5 DEF SweepOK
  <2>2. \A u \in Tasks \ {t} : SweepOK(u)'
    BY <1>3, <1>4, <1>5 DEF SweepOK
  <2> QED
    BY <2>1, <2>2
<1>10. ClaimsOK'
  <2>1. n.end < n.until /\ day < n.until /\ n.until <= day + ClaimDays
    BY <1>6, <1>7, <1>8, SpacingFacts
  <2> QED
    BY <1>3, <1>4, <2>1 DEF ClaimsOK
<1>11. free => ~Announced(r, e)
  BY <1>0, <1>2, <1>3, FreeUnannounced
<1>12. /\ \A u \in Tasks : \A x, d : Announcing(u, x, d)' <=>
            Announcing(u, x, d) \/ (free /\ u = t /\ x = r /\ d = e)
       /\ \A x, d : Mailed(x, d)' <=> Mailed(x, d)
       /\ \A x, d : Claimed(x, d) => Claimed(x, d)'
       /\ free => Claimed(r, e)'
  <2>1. \A x, d : Announcing(t, x, d)' <=> (free /\ x = r /\ d = e)
    BY <1>0, <1>2, <1>5 DEF Announcing
  <2>2. \A x, d : ~Announcing(t, x, d)
    BY <1>3 DEF Announcing
  <2>3. \A u \in Tasks \ {t} : \A x, d : Announcing(u, x, d)' <=> Announcing(u, x, d)
    BY <1>5 DEF Announcing
  <2>4. \A x, d : Claimed(x, d) => Claimed(x, d)'
    BY <1>3 DEF Claimed
  <2>5. free => Claimed(r, e)'
    BY <1>3, <1>8 DEF Claimed
  <2> QED
    BY <1>3, <2>1, <2>2, <2>3, <2>4, <2>5 DEF Mailed
<1>13. \A x, d : Announced(x, d)' <=> Announced(x, d) \/ (free /\ x = r /\ d = e)
  BY <1>12 DEF Announced
<1>14. OnceOK'
  <2>1. \A x \in Reminders : OnceEach(mailed[x])'
    BY <1>3, <1>4 DEF OnceOK
  <2>2. \A x \in Reminders, d \in Nat : (Announced(x, d) => d < day \/ Claimed(x, d))'
    BY <1>3, <1>4, <1>12, <1>13 DEF OnceOK
  <2>3. \A u \in Tasks, x \in Reminders, d \in Nat : (Announcing(u, x, d) => ~Mailed(x, d))'
    BY <1>4, <1>11, <1>12 DEF OnceOK, Announced
  <2>4. \A u, v \in Tasks, x \in Reminders, d \in Nat :
          (Announcing(u, x, d) /\ Announcing(v, x, d) => u = v)'
    BY <1>4, <1>11, <1>12 DEF OnceOK, Announced
  <2> QED
    BY <2>1, <2>2, <2>3, <2>4 DEF OnceOK
<1>15. ASSUME ~missed'
       PROVE  InTime'
  <2>1. InTime
    BY <1>3, <1>15 DEF EndsInv
  <2>2. SweepInTime(t) /\ sweep[t].since = day
    BY <1>3, <2>1 DEF InTime, SweepInTime
  <2>3. endsAt[r] = day + 1 => Announced(r, endsAt[r])' \/ e # endsAt[r]
    <3> SUFFICES ASSUME endsAt[r] = day + 1, e = endsAt[r]
                 PROVE  Announced(r, e)'
      BY <1>3
    <3>1. CASE free
      BY <1>13, <3>1
    <3>2. CASE ~free
      <4>1. PICK c \in claims : c.row = r /\ ~(r \in Plans /\ c.end # e)
        BY <1>2, <3>2 DEF Unclaimed
      <4>2. ClaimInTime(c) /\ day < c.until /\ c.until \in Nat
        BY <1>4, <1>6, <2>1 DEF InTime, ClaimsOK
      <4>3. CASE c.end = e
        BY <1>13, <4>1, <4>2, <4>3 DEF ClaimInTime
      <4>4. CASE c.end # e
        <5>1. c.row \in Courses /\ c.end # endsAt[c.row]
          BY <4>1, <4>4 DEF Reminders
        <5>2. c.until + Validity <= day + 1 + ClaimDays
          BY <4>1, <4>2, <5>1 DEF ClaimInTime
        <5> QED
          BY <1>6, <4>2, <5>2, SpacingFacts
      <4> QED
        BY <4>3, <4>4
    <3> QED
      BY <3>1, <3>2
  <2>4. SweepInTime(t)'
    <3>1. ASSUME NEW x \in Reminders, endsAt[x] = day + 1
          PROVE  Pending(t, x)' \/ Announced(x, endsAt[x])'
      <4>1. Pending(t, x) \/ Announced(x, endsAt[x])
        BY <1>3, <2>2, <3>1 DEF SweepInTime
      <4>2. CASE Announced(x, endsAt[x])
        BY <1>3, <1>13, <4>2
      <4>3. CASE Pending(t, x) /\ x # r
        BY <1>3, <1>5, <4>3 DEF Pending
      <4>4. CASE Pending(t, x) /\ x = r
        BY <1>0, <2>3, <3>1, <4>4 DEF Pending
      <4> QED
        BY <4>1, <4>2, <4>3, <4>4
    <3>2. \A x \in Courses : sweep[t].ends[x] # endsAt[x] => endsAt[x] = day + Validity
      BY <1>3, <2>2 DEF SweepInTime
    <3> QED
      BY <1>3, <1>5, <2>2, <3>1, <3>2 DEF SweepInTime
  <2>5. \A u \in Tasks \ {t} : SweepInTime(u)'
    BY <1>3, <1>5, <1>13, <2>1 DEF InTime, SweepInTime, Pending
  <2>6. ASSUME NEW c \in claims'
        PROVE  ClaimInTime(c)'
    <3>1. CASE c \in claims
      BY <1>3, <1>13, <2>1, <3>1 DEF InTime, ClaimInTime
    <3>2. CASE c \notin claims
      <4>1. free /\ c = n
        BY <1>3, <3>2
      <4>2. Announced(c.row, c.end)'
        BY <1>8, <1>13, <4>1
      <4>3. c.row \in Courses /\ c.end # endsAt[c.row] => endsAt[c.row] = day + Validity
        BY <1>0, <1>3, <1>8, <2>2, <4>1 DEF SweepInTime
      <4>4. c.row \in Courses /\ c.end # endsAt[c.row] => c.until + Validity <= endsAt[c.row] + ClaimDays
        BY <1>6, <1>8, <4>1, <4>3, DeliveryBounds
      <4> QED
        BY <1>3, <4>2, <4>4 DEF ClaimInTime
    <3> QED
      BY <3>1, <3>2
  <2>7. \A x \in Reminders : (endsAt[x] <= day => Mailed(x, endsAt[x]))'
    BY <1>3, <1>12, <2>1 DEF InTime
  <2>8. swept' => \A x \in Reminders : (endsAt[x] = day + 1 => Announced(x, endsAt[x]))'
    BY <1>3, <1>13, <2>1 DEF InTime
  <2> QED
    BY <2>4, <2>5, <2>6, <2>7, <2>8 DEF InTime
<1> QED
  BY <1>4, <1>9, <1>10, <1>14, <1>15 DEF EndsInv

LEMMA MailRowEnds ==
  ASSUME EndsInv, NEW t \in Tasks, NEW r \in Reminders, MailRow(t, r)
  PROVE  EndsInv'
<1>0. PICK e : e = sweep[t].ends[r]
  OBVIOUS
<1>1. /\ sweep[t].pc = "mail" /\ r \in sweep[t].row
      /\ mailed' = [mailed EXCEPT ![r] = Append(@, e)]
      /\ UNCHANGED <<day, endsAt, claims, swept, missed>>
  BY <1>0 DEF MailRow, Sweeping
<1>2. DeliveryTypeOK /\ (\A u \in Tasks : SweepOK(u)) /\ ClaimsOK /\ OnceOK /\ DeliveryTypeOK'
  BY SweepTypes DEF EndsInv, Remind
<1>3. /\ \A u \in Tasks \ {t} : sweep'[u] = sweep[u]
      /\ sweep'[t].since = sweep[t].since /\ sweep'[t].ends = sweep[t].ends
      /\ sweep'[t].rows = sweep[t].rows /\ sweep'[t].pc = "claim" /\ sweep'[t].row = {}
  BY <1>2, MailRowFacts
<1>4. e \in Nat /\ mailed[r] \in Seq(Nat) /\ mailed \in [Reminders -> Seq(Nat)]
  BY <1>0, <1>2, SweepNumbers DEF DeliveryTypeOK
<1>5. /\ mailed'[r] = Append(mailed[r], e)
      /\ \A x \in Reminders \ {r} : mailed'[x] = mailed[x]
  BY <1>1, <1>4
<1>6. /\ \A d : In(d, mailed'[r]) <=> In(d, mailed[r]) \/ d = e
      /\ OnceEach(mailed[r]) /\ ~In(e, mailed[r]) => OnceEach(mailed'[r])
  BY <1>4, <1>5, Appended
<1>7. sweep[t].row = {r}
  BY <1>1, <1>2 DEF SweepOK
<1>8. /\ \A x \in Reminders : \A d : Mailed(x, d)' <=> Mailed(x, d) \/ (x = r /\ d = e)
      /\ \A x, d : Announcing(t, x, d) <=> x = r /\ d = e
      /\ \A x, d : ~Announcing(t, x, d)'
      /\ \A u \in Tasks \ {t} : \A x, d : Announcing(u, x, d)' <=> Announcing(u, x, d)
      /\ \A x, d : Claimed(x, d)' <=> Claimed(x, d)
  <2>1. \A x \in Reminders : \A d : Mailed(x, d)' <=> Mailed(x, d) \/ (x = r /\ d = e)
    BY <1>5, <1>6 DEF Mailed
  <2>2. \A x, d : Announcing(t, x, d) <=> x = r /\ d = e
    BY <1>0, <1>1, <1>7 DEF Announcing
  <2> QED
    BY <1>1, <1>3, <2>1, <2>2 DEF Announcing, Claimed
<1>9. \A x \in Reminders : \A d : Announced(x, d)' <=> Announced(x, d)
  BY <1>8 DEF Announced
<1>10. \A u \in Tasks : SweepOK(u)'
  <2>1. SweepOK(t)'
    BY <1>1, <1>2, <1>3 DEF SweepOK
  <2>2. \A u \in Tasks \ {t} : SweepOK(u)'
    BY <1>1, <1>2, <1>3 DEF SweepOK
  <2> QED
    BY <2>1, <2>2
<1>11. ClaimsOK'
  BY <1>1, <1>2 DEF ClaimsOK
<1>12. ~Mailed(r, e) /\ \A u \in Tasks \ {t} : ~Announcing(u, r, e)
  BY <1>2, <1>4, <1>8 DEF OnceOK
<1>13. OnceOK'
  <2>1. \A x \in Reminders : OnceEach(mailed[x])'
    BY <1>2, <1>5, <1>6, <1>12 DEF OnceOK, Mailed
  <2>2. \A x \in Reminders, d \in Nat : (Announced(x, d) => d < day \/ Claimed(x, d))'
    BY <1>1, <1>2, <1>8, <1>9 DEF OnceOK
  <2>3. \A u \in Tasks, x \in Reminders, d \in Nat : (Announcing(u, x, d) => ~Mailed(x, d))'
    BY <1>2, <1>8, <1>12 DEF OnceOK
  <2>4. \A u, v \in Tasks, x \in Reminders, d \in Nat :
          (Announcing(u, x, d) /\ Announcing(v, x, d) => u = v)'
    BY <1>2, <1>8 DEF OnceOK
  <2> QED
    BY <2>1, <2>2, <2>3, <2>4 DEF OnceOK
<1>14. ASSUME ~missed'
       PROVE  InTime'
  <2>1. InTime
    BY <1>1, <1>14 DEF EndsInv
  <2>2. \A u \in Tasks : SweepInTime(u)'
    <3>1. \A u \in Tasks : sweep'[u].since = sweep[u].since /\ sweep'[u].ends = sweep[u].ends
                           /\ sweep'[u].rows = sweep[u].rows
                           /\ (sweep'[u].pc # "idle" => sweep[u].pc # "idle")
      BY <1>1, <1>3
    <3> QED
      BY <1>1, <1>9, <2>1, <3>1 DEF InTime, SweepInTime, Pending
  <2>3. \A c \in claims' : ClaimInTime(c)'
    <3>1. \A c \in claims : c.row \in Reminders
      BY <1>2, SweepNumbers
    <3> QED
      BY <1>1, <1>9, <2>1, <3>1 DEF InTime, ClaimInTime
  <2>4. \A x \in Reminders : (endsAt[x] <= day => Mailed(x, endsAt[x]))'
    BY <1>1, <1>8, <2>1 DEF InTime
  <2>5. swept' => \A x \in Reminders : (endsAt[x] = day + 1 => Announced(x, endsAt[x]))'
    BY <1>1, <1>9, <2>1 DEF InTime
  <2> QED
    BY <2>2, <2>3, <2>4, <2>5 DEF InTime
<1> QED
  BY <1>2, <1>10, <1>11, <1>13, <1>14 DEF EndsInv

\* A process that ends drops its sweep; if it was running one, the day counts as missed.
LEMMA EndsEnds == ASSUME EndsInv, NEW t \in Tasks, Ends(t) PROVE EndsInv'
<1>1. DeliveryTypeOK /\ (\A u \in Tasks : SweepOK(u)) /\ ClaimsOK /\ OnceOK /\ DeliveryTypeOK'
  BY EndsTypes DEF EndsInv
<1>2. GoDown(t)
  BY DEF Ends
<1>3. /\ sweep'[t].pc = "idle" /\ \A u \in Tasks \ {t} : sweep'[u] = sweep[u]
      /\ UNCHANGED <<day, endsAt, claims, mailed, swept>>
  BY <1>1, <1>2, EndFacts, NoSweepFacts
<1>4. missed' = (missed \/ sweep[t].pc # "idle")
  BY <1>2 DEF GoDown
<1>5. \A u \in Tasks : SweepOK(u)'
  <2>1. SweepOK(t)'
    BY <1>3 DEF SweepOK
  <2>2. \A u \in Tasks \ {t} : SweepOK(u)'
    BY <1>1, <1>3 DEF SweepOK
  <2> QED
    BY <2>1, <2>2
<1>6. ClaimsOK'
  BY <1>1, <1>3 DEF ClaimsOK
<1>7. /\ \A u \in Tasks : \A r, e : Announcing(u, r, e)' => Announcing(u, r, e)
      /\ \A r, e : Mailed(r, e)' <=> Mailed(r, e)
      /\ \A r, e : Claimed(r, e)' <=> Claimed(r, e)
  BY <1>3 DEF Announcing, Mailed, Claimed
<1>8. \A r, e : Announced(r, e)' => Announced(r, e)
  BY <1>7 DEF Announced
<1>9. OnceOK'
  BY <1>1, <1>3, <1>7, <1>8 DEF OnceOK
<1>10. ASSUME ~missed'
       PROVE  InTime'
  <2>1. ~missed /\ sweep[t].pc = "idle"
    BY <1>4, <1>10
  <2>2. InTime
    BY <2>1 DEF EndsInv
  <2>3. \A u \in Tasks : \A r, e : Announcing(u, r, e)' <=> Announcing(u, r, e)
    BY <1>3, <2>1 DEF Announcing
  <2>4. \A r, e : Announced(r, e)' <=> Announced(r, e)
    BY <1>7, <2>3 DEF Announced
  <2>5. \A u \in Tasks : SweepInTime(u)'
    BY <1>3, <2>2, <2>4 DEF InTime, SweepInTime, Pending
  <2>6. \A c \in claims' : ClaimInTime(c)'
    BY <1>3, <2>2, <2>4 DEF InTime, ClaimInTime
  <2>7. \A x \in Reminders : (endsAt[x] <= day => Mailed(x, endsAt[x]))'
    BY <1>3, <1>7, <2>2 DEF InTime
  <2>8. swept' => \A x \in Reminders : (endsAt[x] = day + 1 => Announced(x, endsAt[x]))'
    BY <1>3, <2>2, <2>4 DEF InTime
  <2> QED
    BY <2>5, <2>6, <2>7, <2>8 DEF InTime
<1> QED
  BY <1>1, <1>5, <1>6, <1>9, <1>10 DEF EndsInv

LEMMA NextEnds ==
  ASSUME Spacing, EndsInv, [DeliveryNext]_deliveryVars
  PROVE  EndsInv'
<1>1. DeliveryTypeOK /\ DeliveryTypeOK'
  BY NextTypes DEF EndsInv
<1>2. ASSUME UNCHANGED <<reminders, sweep>>
      PROVE  EndsInv'
  BY <1>1, <1>2, RemindersKept
<1>3. ASSUME NEW m \in Messages, Queue(m)
      PROVE  UNCHANGED <<reminders, sweep>>
  BY <1>3 DEF Queue, processes
<1>4. ASSUME NEW t \in Tasks,
             \/ \E q \in Queues : Pop(t, q)
             \/ StopPopping(t) \/ Accept(t) \/ LoseParked(t)
             \/ \E m \in Messages : Park(t, m) \/ Trim(t, m)
             \/ \E m \in Messages, accepted \in BOOLEAN : Refuse(t, m, accepted)
             \/ Start(t) \/ Stop(t)
      PROVE  UNCHANGED <<reminders, sweep>>
  BY <1>4 DEF Pop, StopPopping, Accept, LoseParked, Park, Trim, Refuse, Start, Stop
<1>5. CASE UNCHANGED deliveryVars
  BY <1>2, <1>5 DEF deliveryVars, processes
<1>6. ASSUME NEW t \in Tasks, Remind(t)
      PROVE  EndsInv'
  BY <1>6, StartSweepEnds, EndSweepEnds, ClaimRowEnds, MailRowEnds DEF Remind
<1> QED
  BY <1>1, <1>2, <1>3, <1>4, <1>5, <1>6, StepCases, TickEnds, RenewEnds, EndsEnds

LEMMA InitEnds == ASSUME Spacing, DeliveryInit PROVE EndsInv
<1>1. DeliveryTypeOK
  BY InitTypes
<1>2. /\ \A t \in Tasks : sweep[t].pc = "idle"
      /\ day = 0 /\ endsAt = [r \in Reminders |-> Validity] /\ claims = {}
      /\ mailed = [r \in Reminders |-> <<>>] /\ swept = FALSE
  BY NoSweepFacts DEF DeliveryInit
<1>3. \A r \in Reminders : OnceEach(mailed[r]) /\ \A e : ~Mailed(r, e)
  BY <1>2 DEF OnceEach, Mailed, In
<1>4. \A r \in Reminders : \A e : ~Announced(r, e)
  BY <1>2, <1>3 DEF Announced, Announcing
<1>5. (\A t \in Tasks : SweepOK(t)) /\ ClaimsOK
  BY <1>2 DEF SweepOK, ClaimsOK
<1>6. OnceOK
  BY <1>2, <1>3, <1>4 DEF OnceOK, Announcing
<1>7. InTime
  <2>1. \A r \in Reminders : ~(endsAt[r] <= day)
    BY <1>2, SpacingFacts
  <2> QED
    BY <1>2, <2>1 DEF InTime, SweepInTime
<1> QED
  BY <1>1, <1>5, <1>6, <1>7 DEF EndsInv

LEMMA EndsAnnounced == ASSUME EndsInv PROVE EndsAnnouncedOnce
<1>1. \A r \in Reminders : DOMAIN mailed[r] = 1..Len(mailed[r])
  BY LenProperties DEF EndsInv, DeliveryTypeOK
<1>2. RemindedOnce
  BY <1>1 DEF EndsInv, OnceOK, OnceEach, RemindedOnce
<1>3. RemindedInTime
  <2> SUFFICES ASSUME NEW r \in Reminders, ~missed, day >= endsAt[r]
               PROVE  \E i \in DOMAIN mailed[r] : mailed[r][i] = endsAt[r]
    BY DEF RemindedInTime
  <2>1. InTime /\ endsAt[r] \in Nat /\ day \in Nat
    BY SweepNumbers DEF EndsInv
  <2>2. Mailed(r, endsAt[r])
    BY <2>1 DEF InTime
  <2> QED
    BY <1>1, <2>2 DEF Mailed, In
<1> QED
  BY <1>2, <1>3 DEF EndsAnnouncedOnce

\* Every variable of the worker keeps its type.
THEOREM DeliveryTypeCorrect == DeliverySpec => []DeliveryTypeOK
<1>1. DeliveryInit => DeliveryTypeOK
  BY InitTypes
<1>2. DeliveryTypeOK /\ [DeliveryNext]_deliveryVars => DeliveryTypeOK'
  BY NextTypes
<1> QED
  BY <1>1, <1>2, PTL DEF DeliverySpec

\* However many processes, rows and renewals: each end is announced by one mail at
\* most, and by one in time if a sweep is completed every day.
THEOREM EndsAnnouncedOnceHolds ==
  ASSUME Spacing
  PROVE  DeliverySpec => []EndsAnnouncedOnce
<1>1. DeliveryInit => EndsInv
  BY InitEnds
<1>2. EndsInv /\ [DeliveryNext]_deliveryVars => EndsInv'
  BY NextEnds
<1>3. EndsInv => EndsAnnouncedOnce
  BY EndsAnnounced
<1> QED
  BY <1>1, <1>2, <1>3, PTL DEF DeliverySpec
=============================================================================
