----------------------------- MODULE Administration -----------------------------
(***************************************************************************)
(* What administrators change while everybody works: who is one of them,   *)
(* and the settings of the identity provider, which are stored in          *)
(* system_config, kept in memory and built into the verifier that every    *)
(* request with a JWT loads from an atomic pointer.                        *)
(*                                                                         *)
(*   demote:  count -> flag -> update         promote: update              *)
(*   save:    write -> select -> swap -> read -> publish                   *)
(*   verify:  pointer -> cached [-> fetch -> install -> lookup]            *)
(*                                                                         *)
(* The provider changes its signing key now and then.                      *)
(***************************************************************************)
EXTENDS Naturals, FiniteSets

CONSTANTS
    Users,
    FirstAdmins,  \* the administrators when the model starts
    Requests,     \* goroutines of HTTP requests
    Issuers,      \* identity providers
    EnvIssuer,    \* the one the environment names
    None,
    MaxOps,       \* bound on requests
    MaxKeys,      \* bound on the key changes of a provider
    MaxFaults     \* bound on failed calls, restarts and caches that expire

ASSUME AdminAssumption ==
    /\ IsFiniteSet(Users)
    /\ FirstAdmins \subseteq Users /\ FirstAdmins # {} /\ EnvIssuer \in Issuers
    /\ None \notin Users \union Issuers \union Requests
    /\ MaxOps \in Nat /\ MaxKeys \in Nat /\ MaxFaults \in Nat

VARIABLES
    admins,    \* users with is_admin
    db,        \* system_config: the issuer that overrides the environment's
    kc,        \* the settings in memory
    verifier,  \* the verifiers that were built: issuer, cached keys, age
    current,   \* the atomic pointer: the number of one of them
    published, \* the key each issuer signs with and publishes
    pc, job,
    misled,    \* history: a demotion relied on a count or a flag that was not so
    alone,     \* history: the request that nothing has disturbed so far
    ops, faults

userVars   == <<admins, misled>>
configVars == <<db, kc>>
verifyVars == <<verifier, current>>
vars == <<userVars, configVars, verifyVars, published, pc, job, alone, ops, faults>>

--------------------------------------------------------------------------------

Key      == [iss : Issuers, nr : 0..MaxKeys]
Numbers  == 0..(MaxOps + MaxFaults)
Verifier == [iss : Issuers, keys : SUBSET Key, fresh : BOOLEAN]

\* NewJWTVerifier: nothing is cached yet.
NewVerifier(iss) == [iss |-> iss, keys |-> {}, fresh |-> FALSE]

KeyOf(iss) == [iss |-> iss, nr |-> published[iss]]

\* A mutant: a setting that was cleared stays empty.
StoredRaw == db

\* Runtime.Reload: a row wins over the environment.
Stored == IF db = None THEN EnvIssuer ELSE db

Op == {"none", "demote", "promote", "save", "verify"}
PC == {"idle", "count", "flag", "update", "write", "select", "swap", "read", "publish",
       "pointer", "cached", "fetch", "install", "lookup"}

\* conf: the settings in hand; token: the key that signed the token, keys: those
\* that were fetched, by: the number of the verifier.
Job == [op : Op, user : Users \union {None}, count : 0..Cardinality(Users), flag : BOOLEAN,
        conf : Issuers \union {None}, token : Key \union {None}, keys : SUBSET Key,
        by : Numbers]

NoJob == [op |-> "none", user |-> None, count |-> 0, flag |-> FALSE, conf |-> None,
          token |-> None, keys |-> {}, by |-> 0]

TypeOK ==
    /\ admins \in SUBSET Users /\ misled \in BOOLEAN
    /\ db \in Issuers \union {None} /\ kc \in Issuers
    /\ verifier \in [Numbers -> Verifier] /\ current \in Numbers
    /\ published \in [Issuers -> 0..MaxKeys]
    /\ pc \in [Requests -> PC] /\ job \in [Requests -> Job]
    /\ alone \in Requests \union {None}
    /\ ops \in 0..MaxOps /\ faults \in 0..MaxFaults

Init ==
    /\ admins = FirstAdmins /\ misled = FALSE
    /\ db = None /\ kc = EnvIssuer
    /\ verifier = [n \in Numbers |-> NewVerifier(EnvIssuer)] /\ current = 0
    /\ published = [i \in Issuers |-> 0]
    /\ pc = [r \in Requests |-> "idle"] /\ job = [r \in Requests |-> NoJob]
    /\ alone = None /\ ops = 0 /\ faults = 0

--------------------------------------------------------------------------------

Begins(r, at, j) ==
    /\ pc[r] = "idle" /\ ops < MaxOps
    /\ ops' = ops + 1
    /\ pc' = [pc EXCEPT ![r] = at] /\ job' = [job EXCEPT ![r] = j]
    /\ alone' = IF \A q \in Requests \ {r} : pc[q] = "idle" THEN r ELSE None
    /\ UNCHANGED <<userVars, configVars, verifyVars, published, faults>>

\* The next step of r; j is what it holds from now on.
Goes(r, at, j) ==
    /\ pc' = [pc EXCEPT ![r] = at] /\ job' = [job EXCEPT ![r] = j]
    /\ UNCHANGED <<published, alone, ops, faults>>

\* The response is written.
Ends(r) == Goes(r, "idle", NoJob)

\* Numbers of verifiers that nobody holds a pointer to are used again.
Unused == Numbers \ ({current} \union {job[r].by : r \in Requests})

\* RebuildJWTVerifier: a new object, without the keys of the one before it.
Rebuild(iss) ==
    \E n \in Unused :
        /\ \A m \in Unused : n <= m
        /\ verifier' = [verifier EXCEPT ![n] = NewVerifier(iss)]
        /\ current' = n

--------------------------------------------------------------------------------
(***************************************************************************)
(* handleAdminPatchUser.                                                   *)
(***************************************************************************)

Demote(r, u) == Begins(r, "count", [NoJob EXCEPT !.op = "demote", !.user = u])

Promote(r, u) == Begins(r, "update", [NoJob EXCEPT !.op = "promote", !.user = u])

CountAdmins(r) ==
    /\ pc[r] = "count"
    /\ Goes(r, "flag", [job[r] EXCEPT !.count = Cardinality(admins)])
    /\ UNCHANGED <<userVars, configVars, verifyVars>>

ReadFlag(r) ==
    /\ pc[r] = "flag"
    /\ Goes(r, "update", [job[r] EXCEPT !.flag = job[r].user \in admins])
    /\ UNCHANGED <<userVars, configVars, verifyVars>>

\* The errors of the two queries are dropped: a count of none, no administrator.
ReadFails(r) ==
    /\ pc[r] \in {"count", "flag"} /\ faults < MaxFaults
    /\ pc' = [pc EXCEPT ![r] = IF @ = "count" THEN "flag" ELSE "update"]
    /\ faults' = faults + 1
    /\ UNCHANGED <<userVars, configVars, verifyVars, published, job, alone, ops>>

\* A mutant: the guard looks at the number alone, and too late.
GuardEmpty(r) == job[r].op = "demote" /\ job[r].flag /\ job[r].count < 1

LastAdmin(r) == job[r].op = "demote" /\ job[r].flag /\ job[r].count <= 1

Misread(r) ==
    \/ job[r].flag # (job[r].user \in admins)
    \/ job[r].count # Cardinality(admins)

UpdateUser(r) ==
    LET u == job[r].user
        demotes == job[r].op = "demote"
    IN /\ pc[r] = "update"
       /\ \/ LastAdmin(r) /\ UNCHANGED userVars
          \/ /\ ~LastAdmin(r)
             /\ admins' = IF demotes THEN admins \ {u} ELSE admins \union {u}
             /\ misled' = (misled \/ (demotes /\ Misread(r)))
       /\ Ends(r)
       /\ UNCHANGED <<configVars, verifyVars>>

--------------------------------------------------------------------------------
(***************************************************************************)
(* handleAdminPatchSettings: store, reload, rebuild.                       *)
(***************************************************************************)

\* None clears the override.
Save(r, iss) == Begins(r, "write", [NoJob EXCEPT !.op = "save", !.conf = iss])

\* BulkSetSystemConfig, one transaction.
WriteSettings(r) ==
    /\ pc[r] = "write"
    /\ db' = job[r].conf
    /\ Goes(r, "select", [job[r] EXCEPT !.conf = None])
    /\ UNCHANGED <<userVars, kc, verifyVars>>

\* Reload reads without the lock that it takes to replace the settings.
SelectSettings(r) ==
    /\ pc[r] = "select"
    /\ Goes(r, "swap", [job[r] EXCEPT !.conf = Stored])
    /\ UNCHANGED <<userVars, configVars, verifyVars>>

SwapSettings(r) ==
    /\ pc[r] = "swap"
    /\ kc' = job[r].conf
    /\ Goes(r, "read", [job[r] EXCEPT !.conf = None])
    /\ UNCHANGED <<userVars, db, verifyVars>>

ReadSettings(r) ==
    /\ pc[r] = "read"
    /\ Goes(r, "publish", [job[r] EXCEPT !.conf = kc])
    /\ UNCHANGED <<userVars, configVars, verifyVars>>

\* A mutant: the verifier in use is kept if the settings are those it was built of.
PublishIfEdited(r) ==
    /\ pc[r] = "publish"
    /\ IF job[r].conf = db THEN Rebuild(job[r].conf) ELSE UNCHANGED verifyVars
    /\ Ends(r)
    /\ UNCHANGED <<userVars, configVars>>

Publish(r) ==
    /\ pc[r] = "publish"
    /\ Rebuild(job[r].conf)
    /\ Ends(r)
    /\ UNCHANGED <<userVars, configVars>>

--------------------------------------------------------------------------------
(***************************************************************************)
(* JWTVerifier.Verify.                                                     *)
(***************************************************************************)

\* A request with a token its issuer signed with the present key.
Verify(r, iss) == Begins(r, "pointer", [NoJob EXCEPT !.op = "verify", !.token = KeyOf(iss)])

LoadPointer(r) ==
    /\ pc[r] = "pointer"
    /\ Goes(r, "cached", [job[r] EXCEPT !.by = current])
    /\ UNCHANGED <<userVars, configVars, verifyVars>>

\* A mutant: a key that is cached is taken, however old, and none is sent for.
CachedOnly(r) ==
    LET v == verifier[job[r].by]
    IN /\ pc[r] = "cached"
       /\ Goes(r, IF v.keys = {} THEN "fetch" ELSE "lookup", job[r])
       /\ UNCHANGED <<userVars, configVars, verifyVars>>

\* keyFor: a key that is missing or too old sends for all of them.
Cached(r) ==
    LET v == verifier[job[r].by]
    IN /\ pc[r] = "cached"
       /\ IF job[r].token \in v.keys /\ v.fresh THEN Ends(r) ELSE Goes(r, "fetch", job[r])
       /\ UNCHANGED <<userVars, configVars, verifyVars>>

\* The JWKS of the verifier's issuer, outside the lock.
Fetch(r) ==
    /\ pc[r] = "fetch"
    /\ Goes(r, "install", [job[r] EXCEPT !.keys = {KeyOf(verifier[job[r].by].iss)}])
    /\ UNCHANGED <<userVars, configVars, verifyVars>>

Install(r) ==
    /\ pc[r] = "install"
    /\ verifier' = [verifier EXCEPT ![job[r].by].keys = job[r].keys, ![job[r].by].fresh = TRUE]
    /\ Goes(r, "lookup", [job[r] EXCEPT !.keys = {}])
    /\ UNCHANGED <<userVars, configVars, current>>

Accepts(r) == job[r].token \in verifier[job[r].by].keys /\ job[r].token.iss = verifier[job[r].by].iss

Lookup(r) ==
    /\ pc[r] = "lookup"
    /\ Ends(r)
    /\ UNCHANGED <<userVars, configVars, verifyVars>>

--------------------------------------------------------------------------------
(***************************************************************************)
(* The provider, time and faults.                                          *)
(***************************************************************************)

\* The provider signs with a new key from now on and publishes it alone.
RotateKey(iss) ==
    /\ published[iss] < MaxKeys
    /\ published' = [published EXCEPT ![iss] = @ + 1]
    /\ alone' = None
    /\ UNCHANGED <<userVars, configVars, verifyVars, pc, job, ops, faults>>

\* Ten minutes pass.
Expire(n) ==
    /\ verifier[n].fresh
    /\ verifier' = [verifier EXCEPT ![n].fresh = FALSE]
    /\ UNCHANGED <<userVars, configVars, current, published, pc, job, alone, ops, faults>>

\* A statement or the fetch fails, the handler answers with an error.
CallFails(r) ==
    /\ pc[r] \in {"update", "write", "select", "fetch"} /\ faults < MaxFaults
    /\ faults' = faults + 1
    /\ pc' = [pc EXCEPT ![r] = "idle"] /\ job' = [job EXCEPT ![r] = NoJob]
    /\ alone' = IF alone = r THEN None ELSE alone
    /\ UNCHANGED <<userVars, configVars, verifyVars, published, ops>>

\* main reloads the settings, or is content with the environment's if it cannot,
\* and builds the first verifier before it serves.
Restart ==
    /\ faults < MaxFaults
    /\ faults' = faults + 1
    /\ kc' \in {Stored, EnvIssuer}
    /\ verifier' = [n \in Numbers |-> NewVerifier(kc')] /\ current' = 0
    /\ pc' = [r \in Requests |-> "idle"] /\ job' = [r \in Requests |-> NoJob]
    /\ alone' = None
    /\ UNCHANGED <<userVars, db, published, ops>>

--------------------------------------------------------------------------------

\* isAdminActor: an administrator, or the bootstrap token, which is always there.
Begin(r) ==
    \/ \E u \in Users : Demote(r, u) \/ Promote(r, u)
    \/ \E iss \in Issuers \union {None} : Save(r, iss)
    \/ \E iss \in Issuers : Verify(r, iss)

Step(r) ==
    \/ CountAdmins(r) \/ ReadFlag(r) \/ UpdateUser(r)
    \/ WriteSettings(r) \/ SelectSettings(r) \/ SwapSettings(r) \/ ReadSettings(r) \/ Publish(r)
    \/ LoadPointer(r) \/ Cached(r) \/ Fetch(r) \/ Install(r) \/ Lookup(r)

Next ==
    \/ \E r \in Requests : Begin(r) \/ Step(r) \/ ReadFails(r) \/ CallFails(r)
    \/ \E iss \in Issuers : RotateKey(iss)
    \/ \E n \in Numbers : Expire(n)
    \/ Restart

Spec == Init /\ [][Next]_vars

--------------------------------------------------------------------------------

\* The platform keeps an administrator, whatever is demoted and promoted in any
\* order, unless a demotion acted on a count or a flag that was no longer, or
\* never, so: two demotions at once, or a failed read that is taken for a "no"
\* (handleAdminPatchUser).
AdminRemains == admins = {} => misled

\* Settings that are saved undisturbed are in force when the response is written:
\* in memory and in the verifier, also after saves that raced or broke off between
\* storing, reloading and rebuilding (handleAdminPatchSettings, Runtime.Reload,
\* RebuildJWTVerifier).
SettingsInForce ==
    [][\A r \in Requests :
          pc[r] = "publish" /\ pc'[r] = "idle" /\ alone = r /\ alone' = r
              => kc' = Stored' /\ verifier'[current'].iss = kc']_vars

\* A token that the verifier's issuer signed with its present key is accepted,
\* whatever keys earlier calls left in the cache and however old they are, if the
\* key does not change and no other call overlaps (JWTVerifier.keyFor).
ValidTokenAccepted ==
    \A r \in Requests :
        /\ pc[r] = "lookup" /\ alone = r
        /\ job[r].token = KeyOf(verifier[job[r].by].iss)
        => Accepts(r)

\* admin.go: the handler "refuses to demote the very last admin".
NeverWithoutAdmin == admins # {}
================================================================================
