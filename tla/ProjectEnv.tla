------------------------------- MODULE ProjectEnv -------------------------------
(***************************************************************************)
(* The environment of one project: encrypted rows that users edit, that    *)
(* deployments add credentials to, that rekey-env seals anew when the      *)
(* platform's key changes, and the Secret in the cluster that is made of   *)
(* them.  The handlers, the reconciler and rekey-env run side by side and  *)
(* no lock orders them.                                                    *)
(*                                                                         *)
(*   put:    check -> set  -> sync                                         *)
(*   delete: check -> drop -> sync                                         *)
(*   deploy: load [-> provision -> store ...] -> get -> putSecret          *)
(*   rekey:  scan -> commit -> verify                                      *)
(*                                                                         *)
(*   sync:   load -> get -> putSecret                                      *)
(*                                                                         *)
(* A Secret is updated with the resourceVersion of the Get before it, and  *)
(* the update fails if the Secret was written in between.                  *)
(***************************************************************************)
EXTENDS Naturals

CONSTANTS
    Keys,
    Creds,      \* the keys of the credentials that the platform provisions
    Marker,     \* the one of them that is looked for
    Legacy,     \* keys that hold a value sealed before values were bound to keys
    Manifests,
    Needy,      \* the manifests that need the sidecar
    Created,    \* the manifest the project was created with
    Requests,   \* goroutines of HTTP requests
    Tick,       \* the reconciler
    Rekey,      \* the tool
    None,
    MaxOps,     \* bound on edits, deployments and runs of the tool
    MaxFaults   \* bound on failed calls and crashes

Actors == Requests \union {Tick, Rekey}

ASSUME EnvAssumption ==
    /\ Creds \subseteq Keys /\ Legacy \subseteq Keys /\ (Creds # {} => Marker \in Creds)
    /\ Needy \subseteq Manifests /\ Created \in Manifests
    /\ Tick # Rekey /\ Tick \notin Requests /\ Rekey \notin Requests
    /\ None \notin Keys \union Manifests \union Actors
    /\ MaxOps \in Nat /\ MaxFaults \in Nat

VARIABLES
    row,      \* project_env: value, how it is sealed, the system flag
    secret,   \* the Secret app-env: the manifest and the values it is made of
    kek,      \* the key the control plane was started with
    account,  \* how often the sidecar's password was set
    pc, job, seen,
    last,     \* history: the value last set for each key through the control plane
    raced,    \* history: keys set while the tool held an older value of them
    late,     \* history: keys set under the old key since the tool last checked
    usurped,  \* history: keys of the platform that a request overwrote or removed
    cut,      \* history: a deployment was broken off while it stored credentials
    manifest, \* history: the manifest of the latest deployment
    verdict,  \* how the tool's last run ended
    alone,    \* history: the actor whose operation nothing has disturbed so far
    ops, faults

storeVars == <<row, last, raced, late, usurped>>
procVars  == <<pc, job, seen>>
budget    == <<ops, faults>>
vars == <<storeVars, procVars, budget, secret, kek, account, cut, manifest, verdict, alone>>

--------------------------------------------------------------------------------
(***************************************************************************)
(* Data.  Every value set is a different one, so that a lost one shows.    *)
(***************************************************************************)

Value == [by : {"user", "platform"}, nr : 0..MaxOps]
Env   == [Keys -> Value \union {None}]

\* Under the old key without or with the binding to project and key (AAD), under
\* the new one with it.  A rotation that keeps the key is the case without "old".
Seal == {"legacy", "old", "new"}
Row  == [val : Value, seal : Seal, system : BOOLEAN]

\* What the Secret is made of: a manifest's own environment and the values over it.
Content == [base : Manifests, env : Env]

ASSUME NoneIsNoRecord == None \notin Value /\ None \notin Row /\ None \notin Content

Empty == [k \in Keys |-> None]

Held == {k \in Keys : row[k] # None}

\* What Decrypt makes of the rows: no row fails, or all is refused.
Readable == \A k \in Held : row[k].seal = kek
Values   == [k \in Keys |-> IF k \in Held THEN row[k].val ELSE None]

Op  == {"none", "put", "delete", "deploy", "rekey"}
PC  == {"idle", "check", "set", "drop", "load", "provision", "store", "get", "putSecret",
        "scan", "commit", "verify"}

\* left: credentials to be stored or rows to be sealed anew; env: values in hand.
Job == [op : Op, key : Keys \union {None}, val : Value \union {None},
        base : Manifests \union {None}, env : Env, left : SUBSET Keys]

NoJob == [op |-> "none", key |-> None, val |-> None, base |-> None, env |-> Empty,
          left |-> {}]

TypeOK ==
    /\ row \in [Keys -> Row \union {None}]
    /\ secret \in Content \union {None}
    /\ kek \in {"old", "new"}
    /\ account \in 0..MaxOps
    /\ pc \in [Actors -> PC]
    /\ job \in [Actors -> Job]
    /\ seen \in [Actors -> {"none", "absent", "current", "old"}]
    /\ last \in Env
    /\ raced \in SUBSET Keys /\ late \in SUBSET Keys /\ usurped \in SUBSET Keys
    /\ cut \in BOOLEAN
    /\ manifest \in Manifests \union {None}
    /\ verdict \in {"none", "ok", "failed"}
    /\ alone \in Actors \union {None}
    /\ ops \in 0..MaxOps /\ faults \in 0..MaxFaults

Legate == [by |-> "user", nr |-> 0]

\* A project that was never deployed, with some values of old.
Init ==
    /\ row = [k \in Keys |-> IF k \in Legacy
                             THEN [val |-> Legate, seal |-> "legacy", system |-> FALSE]
                             ELSE None]
    /\ last = [k \in Keys |-> IF k \in Legacy THEN Legate ELSE None]
    /\ secret = None /\ kek = "old" /\ account = 0
    /\ pc = [a \in Actors |-> "idle"]
    /\ job = [a \in Actors |-> NoJob]
    /\ seen = [a \in Actors |-> "none"]
    /\ raced = {} /\ late = {} /\ usurped = {} /\ cut = FALSE
    /\ manifest = None /\ verdict = "none" /\ alone = None
    /\ ops = 0 /\ faults = 0

--------------------------------------------------------------------------------
(***************************************************************************)
(* Operations.                                                             *)
(***************************************************************************)

Begins(a, at, j) ==
    /\ pc[a] = "idle" /\ ops < MaxOps
    /\ ops' = ops + 1
    /\ pc' = [pc EXCEPT ![a] = at]
    /\ job' = [job EXCEPT ![a] = j]
    /\ alone' = IF \A b \in Actors \ {a} : pc[b] = "idle" THEN a ELSE None
    /\ UNCHANGED <<storeVars, seen, secret, kek, account, cut, manifest, faults>>

Goto(a, at) == pc' = [pc EXCEPT ![a] = at]

\* The next step of a; j is its job from now on.
Goes(a, at, j) ==
    /\ Goto(a, at)
    /\ job' = [job EXCEPT ![a] = j]
    /\ UNCHANGED <<budget, alone, cut>>

\* The response is written, the deployment is applied, the tool exits.
Ends(a) == Goes(a, "idle", NoJob)

\* An error ends every operation: the handlers answer, the deployment fails, and
\* the tool exits without its transaction.
Fails(a) ==
    /\ Goto(a, "idle")
    /\ job' = [job EXCEPT ![a] = NoJob]
    /\ seen' = [seen EXCEPT ![a] = "none"]
    /\ alone' = IF alone = a THEN None ELSE alone
    /\ verdict' = IF a = Rekey THEN "failed" ELSE verdict
    /\ cut' = (cut \/ (a = Tick /\ pc[a] = "store"))
    /\ UNCHANGED ops

Put(r, k) ==
    /\ Begins(r, "check", [NoJob EXCEPT !.op = "put", !.key = k,
                                        !.val = [by |-> "user", nr |-> ops + 1]])
    /\ UNCHANGED verdict

Delete(r, k) ==
    /\ Begins(r, "check", [NoJob EXCEPT !.op = "delete", !.key = k])
    /\ UNCHANGED verdict

Deploy(m) ==
    /\ Begins(Tick, "load", [NoJob EXCEPT !.op = "deploy", !.base = m])
    /\ UNCHANGED verdict

RunRekey ==
    /\ kek = "old"
    /\ Begins(Rekey, "scan", [NoJob EXCEPT !.op = "rekey"])
    /\ verdict' = "none"

--------------------------------------------------------------------------------
(***************************************************************************)
(* The rows.  The tool holds older values between its scan and its commit. *)
(***************************************************************************)

InHand == IF pc[Rekey] = "commit" THEN job[Rekey].left ELSE {}

\* SetProjectEnv: an upsert that takes the flag of the caller.
SetEnv(k, v, system) ==
    /\ row' = [row EXCEPT ![k] = [val |-> v, seal |-> kek, system |-> system]]
    /\ last' = [last EXCEPT ![k] = v]
    /\ raced' = IF k \in InHand THEN raced \union {k} ELSE raced
    /\ late' = IF kek = "old" THEN late \union {k} ELSE late
    /\ usurped' = IF ~system /\ k \in Held /\ row[k].system THEN usurped \union {k}
                  ELSE IF system THEN usurped \ {k} ELSE usurped

\* A key that belongs to the platform is refused, and so is the deletion of none.
Check(r) ==
    LET k == job[r].key
        refused == IF k \in Held THEN row[k].system ELSE job[r].op = "delete"
    IN /\ pc[r] = "check"
       /\ IF refused THEN Ends(r)
          ELSE Goes(r, IF job[r].op = "put" THEN "set" ELSE "drop", job[r])
       /\ UNCHANGED <<storeVars, seen, secret, kek, account, manifest, verdict>>

Set(r) ==
    /\ pc[r] = "set"
    /\ SetEnv(job[r].key, job[r].val, FALSE)
    /\ Goes(r, "load", [job[r] EXCEPT !.val = None, !.base = Created])
    /\ UNCHANGED <<seen, secret, kek, account, manifest, verdict>>

\* A mutant: the value is emptied, the row stays.
DropValue(r) ==
    LET k == job[r].key
    IN /\ pc[r] = "drop"
       /\ row' = [row EXCEPT ![k] = IF k \in Held THEN [@ EXCEPT !.val = None] ELSE None]
       /\ Goes(r, "load", [job[r] EXCEPT !.base = Created])
       /\ UNCHANGED <<last, raced, late, usurped, seen, secret, kek, account, manifest, verdict>>

\* The DELETE itself has no condition on the flag.
Drop(r) ==
    LET k == job[r].key
    IN /\ pc[r] = "drop"
       /\ row' = [row EXCEPT ![k] = None]
       /\ last' = [last EXCEPT ![k] = None]
       /\ usurped' = IF k \in Held /\ row[k].system THEN usurped \union {k} ELSE usurped
       /\ Goes(r, "load", [job[r] EXCEPT !.base = Created])
       /\ UNCHANGED <<raced, late, seen, secret, kek, account, manifest, verdict>>

--------------------------------------------------------------------------------
(***************************************************************************)
(* From the rows to the Secret: syncProjectEnvToCluster of an edit lays    *)
(* the values over the manifest of the project's row, a deployment over    *)
(* its own.                                                                *)
(***************************************************************************)

\* A value the control plane cannot read refuses all of them.
Load(a) ==
    /\ pc[a] = "load"
    /\ IF Readable
       THEN /\ Goes(a, IF /\ job[a].op = "deploy" /\ job[a].base \in Needy
                          /\ Marker \notin Held
                       THEN "provision" ELSE "get",
                    [job[a] EXCEPT !.env = Values])
            /\ UNCHANGED <<seen, verdict>>
       ELSE Fails(a) /\ UNCHANGED faults
    /\ UNCHANGED <<storeVars, secret, kek, account, manifest>>

\* Accounts are made, or their password is set anew.
Provision ==
    /\ pc[Tick] = "provision"
    /\ account' = account + 1
    /\ Goes(Tick, "store", [job[Tick] EXCEPT !.left = Creds])
    /\ UNCHANGED <<storeVars, seen, secret, kek, manifest, verdict>>

\* A mutant: the values stored do not reach the Secret.
StoreUnmerged ==
    /\ pc[Tick] = "store"
    /\ \E k \in job[Tick].left :
          LET left == job[Tick].left \ {k}
          IN /\ SetEnv(k, [by |-> "platform", nr |-> account], TRUE)
             /\ Goes(Tick, IF left = {} THEN "get" ELSE "store", [job[Tick] EXCEPT !.left = left])
    /\ UNCHANGED <<seen, secret, kek, account, manifest, verdict>>

\* A mutant: only the marker is stored.
StoreMarker ==
    /\ pc[Tick] = "store"
    /\ LET v == [by |-> "platform", nr |-> account]
       IN /\ SetEnv(Marker, v, TRUE)
          /\ Goes(Tick, "get", [job[Tick] EXCEPT !.left = {}, !.env[Marker] = v])
    /\ UNCHANGED <<seen, secret, kek, account, manifest, verdict>>

\* One statement for each of them, in the order of a Go map.
Store ==
    /\ pc[Tick] = "store"
    /\ \E k \in job[Tick].left :
          LET v    == [by |-> "platform", nr |-> account]
              left == job[Tick].left \ {k}
          IN /\ SetEnv(k, v, TRUE)
             /\ Goes(Tick, IF left = {} THEN "get" ELSE "store",
                     [job[Tick] EXCEPT !.left = left, !.env[k] = v])
    /\ UNCHANGED <<seen, secret, kek, account, manifest, verdict>>

GetSecret(a) ==
    /\ pc[a] = "get"
    /\ seen' = [seen EXCEPT ![a] = IF secret = None THEN "absent" ELSE "current"]
    /\ Goes(a, "putSecret", job[a])
    /\ UNCHANGED <<storeVars, secret, kek, account, manifest, verdict>>

Fresh(a) == IF seen[a] = "absent" THEN secret = None ELSE seen[a] = "current"

\* An edit before the first deployment finds no namespace.
PutSecret(a) ==
    LET deploys == job[a].op = "deploy"
        ok == Fresh(a) /\ (secret = None => deploys)
        new == [base |-> job[a].base, env |-> job[a].env]
    IN /\ pc[a] = "putSecret"
       /\ \/ /\ ok
             /\ secret' = new
             /\ seen' = [b \in Actors |-> IF b = a THEN "none"
                                          ELSE IF seen[b] = "current" /\ new # secret
                                               THEN "old" ELSE seen[b]]
             /\ manifest' = IF deploys THEN job[a].base ELSE manifest
             /\ Ends(a)
             /\ UNCHANGED verdict
          \/ ~ok /\ Fails(a) /\ UNCHANGED <<secret, manifest, faults>>
       /\ UNCHANGED <<storeVars, kek, account>>

--------------------------------------------------------------------------------
(***************************************************************************)
(* rekey-env.                                                              *)
(***************************************************************************)

\* A mutant: the tool reads only what was never bound to its key.
Migratable(k) == row[k].seal = "legacy"

Sealable(k) == row[k].seal \in {"legacy", "old"}

\* Everything is read and sealed anew in memory, outside the transaction.  The
\* tool is done if there is nothing to do, and gives up on a value it cannot read.
Scan ==
    LET rest == {k \in Held : row[k].seal # "new"}
        stop == rest = {} \/ \E k \in rest : ~Sealable(k)
    IN /\ pc[Rekey] = "scan"
       /\ IF stop THEN Ends(Rekey)
          ELSE Goes(Rekey, "commit", [job[Rekey] EXCEPT !.left = rest, !.env = Values])
       /\ verdict' = IF ~stop THEN verdict ELSE IF rest = {} THEN "ok" ELSE "failed"
       /\ late' = IF rest = {} THEN {} ELSE late
       /\ UNCHANGED <<row, last, raced, usurped, seen, secret, kek, account, manifest>>

\* A mutant: rows are inserted again.
CommitUpserts ==
    /\ pc[Rekey] = "commit"
    /\ row' = [k \in Keys |->
                  IF k \in job[Rekey].left
                  THEN [val |-> job[Rekey].env[k], seal |-> "new", system |-> FALSE]
                  ELSE row[k]]
    /\ Goes(Rekey, "verify", [job[Rekey] EXCEPT !.left = {}, !.env = Empty])
    /\ UNCHANGED <<last, raced, late, usurped, seen, secret, kek, account, manifest, verdict>>

\* Every UPDATE writes what was read, over what is there; a row that is gone
\* stays gone.
Commit ==
    /\ pc[Rekey] = "commit"
    /\ row' = [k \in Keys |->
                  IF k \in job[Rekey].left /\ k \in Held
                  THEN [row[k] EXCEPT !.val = job[Rekey].env[k], !.seal = "new"]
                  ELSE row[k]]
    /\ Goes(Rekey, "verify", [job[Rekey] EXCEPT !.left = {}, !.env = Empty])
    /\ UNCHANGED <<last, raced, late, usurped, seen, secret, kek, account, manifest, verdict>>

\* A mutant: nothing is read back.
Unverified == TRUE

\* An empty table is taken for a failure.
Verified == Held # {} /\ \A k \in Held : row[k].seal = "new"

Verify ==
    /\ pc[Rekey] = "verify"
    /\ verdict' = IF Verified THEN "ok" ELSE "failed"
    /\ late' = IF Verified THEN {} ELSE late
    /\ Ends(Rekey)
    /\ UNCHANGED <<row, last, raced, usurped, seen, secret, kek, account, manifest>>

--------------------------------------------------------------------------------
(***************************************************************************)
(* Faults and restarts.                                                    *)
(***************************************************************************)

\* A statement or a call of the Kubernetes API or of the sidecar fails, or the
\* tool is killed.
CallFails(a) ==
    /\ pc[a] # "idle" /\ faults < MaxFaults
    /\ faults' = faults + 1
    /\ Fails(a)
    /\ UNCHANGED <<storeVars, secret, kek, account, manifest>>

\* The control plane stops in the middle of everything and starts with this key.
StartsWith(key) ==
    /\ kek' = key
    /\ pc' = [a \in Actors |-> IF a = Rekey THEN pc[a] ELSE "idle"]
    /\ job' = [a \in Actors |-> IF a = Rekey THEN job[a] ELSE NoJob]
    /\ seen' = [a \in Actors |-> "none"]
    /\ alone' = IF alone = Rekey THEN Rekey ELSE None
    /\ cut' = (cut \/ pc[Tick] = "store")
    /\ UNCHANGED <<storeVars, ops, secret, account, manifest, verdict>>

Restart ==
    /\ faults < MaxFaults
    /\ faults' = faults + 1
    /\ StartsWith(kek)

\* The operator rotates the key when the tool has said that all is well.
Rotate ==
    /\ kek = "old" /\ verdict = "ok" /\ pc[Rekey] = "idle"
    /\ StartsWith("new")
    /\ UNCHANGED faults

--------------------------------------------------------------------------------

Begin ==
    \/ \E r \in Requests, k \in Keys : Put(r, k) \/ Delete(r, k)
    \/ \E m \in Manifests : Deploy(m)
    \/ RunRekey

Step ==
    \/ \E r \in Requests : Check(r) \/ Set(r) \/ Drop(r)
    \/ \E a \in Requests \union {Tick} : Load(a) \/ GetSecret(a) \/ PutSecret(a)
    \/ Provision \/ Store
    \/ Scan \/ Commit \/ Verify

Next ==
    \/ Begin
    \/ Step
    \/ \E a \in Actors : CallFails(a)
    \/ Restart \/ Rotate

Spec == Init /\ [][Next]_vars

--------------------------------------------------------------------------------
(***************************************************************************)
(* Safety.                                                                 *)
(***************************************************************************)

\* Rotating the key changes no value: what a row decrypts to is what was last
\* set, and what was removed stays removed, through runs of the tool that are
\* killed, repeated or overlap with edits and deployments -- except for a key set
\* between the tool's reading and its commit (rekey-env's unconditional UPDATE).
ValuesKept == \A k \in Keys \ raced : Values[k] = last[k]

\* Once the control plane runs with the new key it reads every row, but for keys
\* that were set between the tool's last word and the restart: whatever was set
\* while the tool worked is caught by its verification.
ReadableAfterRotation ==
    kek = "new" => \A k \in Held \ late : row[k].seal = "new"

\* A run of the tool that nobody disturbs leaves every row under the new key,
\* whatever a previous run left, and says so: it may be repeated, also for the next
\* rotation of what is bound already.
ToolConverges ==
    [][pc[Rekey] # "idle" /\ pc'[Rekey] = "idle" /\ alone = Rekey /\ alone' = Rekey
         => /\ \A k \in Held' : row'[k].seal = "new"
            /\ verdict' = "ok"]_vars

\* An edit or a deployment that is alone brings the Secret up to date with the
\* rows, whatever overlapping or failed ones left there -- if there is a Secret,
\* the operation was not refused, and the control plane can read the rows.
SecretCurrent ==
    [][\A a \in Requests \union {Tick} :
          pc[a] \notin {"idle", "check"} /\ pc'[a] = "idle" /\ alone = a /\ alone' = a
              => secret' # None /\ secret'.env = Values']_vars

\* A deployment is past its provisioning and works with the platform's accounts;
\* a user who sets the marker brings a database of his own.
Provisioned ==
    /\ pc[Tick] \in {"get", "putSecret"} /\ job[Tick].base \in Needy
    /\ job[Tick].env[Marker] # None /\ job[Tick].env[Marker].by = "platform"

\* "Credentials must be in project_env before the pod starts" (reconciler.go):
\* a deployment that needs the sidecar writes the Secret with all the credentials
\* in the rows, however users edit beside it -- unless an earlier one was broken off
\* between its statements or a user's edit that had passed its check overwrote one
\* of the platform's keys.
CredentialsStored ==
    /\ Provisioned /\ ~cut /\ usurped = {}
    => Creds \subseteq Held

--------------------------------------------------------------------------------
(***************************************************************************)
(* What the repository says and the code does not keep.                    *)
(***************************************************************************)

\* reconciler.go: "credentials must be in project_env before the pod starts".
\* Nobody edits in this run.
CredentialsAlways == Provisioned => Creds \subseteq Held

\* project_env.go: the Secret is made from "the manifest's env from the most
\* recent deployment as the base layer".
LatestManifest == secret # None => secret.base = manifest
================================================================================
