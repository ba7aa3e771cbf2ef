--------------------------- MODULE RuntimeSnapshot ---------------------------
(***************************************************************************)
(* Publication of the runtime snapshot of one process.  A configuration    *)
(* commit made here, a notification of a commit made elsewhere and a       *)
(* periodic reconciliation each reload the configuration under one lock,   *)
(* publish the account protection policy to Redis and replace the          *)
(* published snapshot, or suspend it when the configuration cannot be      *)
(* confirmed.                                                              *)
(*                                                                         *)
(* The database is the history of committed configurations: the revision   *)
(* is its length, and restoring a backup shortens it.  Of a configuration  *)
(* only the account limits are kept, which is what a publication compares. *)
(* The model catalogs of the providers are one generation number.  A       *)
(* suspended snapshot is served for a grace period and then refused; the   *)
(* period decides nothing here, since a snapshot whose period is over is   *)
(* suspended, which already makes a reconciliation reload it.              *)
(***************************************************************************)
EXTENDS Naturals, Sequences

CONSTANTS
    Commits,        \* administration calls of this process that commit
    Limits,         \* contents of a configuration
    Attempts,       \* MAXIMUM_SNAPSHOT_STABILITY_ATTEMPTS
    MaxRevision,    \* bound on the revisions of the database
    MaxCatalog,     \* bound on the catalog generations
    MaxNotices,     \* bound on the notifications in the subscription
    MaxFaults       \* bound on failed calls, suspensions and restores

ASSUME SnapshotAssumption ==
    /\ Limits # {}
    /\ {Attempts, MaxRevision, MaxCatalog} \subseteq Nat \ {0}
    /\ {MaxNotices, MaxFaults} \subseteq Nat
    /\ Commits \cap {"reconciliation", "subscription"} = {}

VARIABLES
    log,       \* PostgreSQL: the limits of every revision
    catalog,   \* the generation of the provider catalogs
    policy,    \* Redis: the revision of the protection policy
    late,      \* policy publications nobody waits for that may still run
    notices,   \* notifications waiting in the subscription
    snap,      \* RuntimeSnapshotHandle
    conc,      \* AccountConcurrencyHandle
    stage,     \* how far each task is
    work,      \* the refresh of the task that holds refresh_lock
    mine,      \* the revision each administration call has committed, or 0
    served,    \* the latest revision whose publish_committed has refreshed
    faults

vars == <<log, catalog, policy, late, notices, snap, conc, stage, work, mine, served, faults>>

Background == "reconciliation"
Committed == Commits \cup {"subscription"}
Tasks == Committed \cup {Background}

Compiling == {"facts", "observe", "query", "verify"}
Holding == {"revision", "policy", "apply"} \cup Compiling
Stages == {"idle", "committed", "lock", "notify"} \cup Holding

Revisions == 1 .. MaxRevision
Catalogs == 1 .. MaxCatalog
Works == [rev : Revisions, limits : Limits, gen : {0} \cup Catalogs, asked : Catalogs,
          tries : 0 .. Attempts - 1, ok : BOOLEAN, suspends : BOOLEAN,
          cancelled : BOOLEAN, fenced : BOOLEAN, old : BOOLEAN]
Snapshots == [rev : Revisions, limits : Limits, gen : {0} \cup Catalogs,
              asked : Catalogs, suspended : BOOLEAN]
Concurrencies == [rev : Revisions, limits : Limits, suspended : BOOLEAN]
Maximum(a, b) == IF a > b THEN a ELSE b

Locked == \E t \in Tasks : stage[t] \in Holding
(* pending_commits: the committed refreshes that have begun and not ended. *)
Pending == {t \in Committed : stage[t] \in {"lock"} \cup Holding}
Suspended == snap.suspended \/ conc.suspended

(* No refresh is under way. *)
NoWork ==
    [rev |-> 1, limits |-> CHOOSE l \in Limits : TRUE, gen |-> 1, asked |-> 1, tries |-> 0,
     ok |-> TRUE, suspends |-> FALSE, cancelled |-> FALSE, fenced |-> FALSE, old |-> FALSE]

Init ==
    /\ log = <<CHOOSE l \in Limits : TRUE>>
    /\ catalog = 1 /\ policy = 1 /\ late = {} /\ notices = 0
    /\ snap = [rev |-> 1, limits |-> log[1], gen |-> 1, asked |-> 1, suspended |-> FALSE]
    /\ conc = [rev |-> 1, limits |-> log[1], suspended |-> FALSE]
    /\ stage = [t \in Tasks |-> "idle"]
    /\ work = NoWork
    /\ mine = [c \in Commits |-> 0]
    /\ served = 1 /\ faults = 0

-----------------------------------------------------------------------------
(* Suspension.  Every suspension replaces the fence: a refresh that has     *)
(* read the previous one finds it changed.  `old' records that the facts    *)
(* of the refresh were loaded before.                                       *)

SuspendBoth ==
    /\ conc' = [conc EXCEPT !.suspended = TRUE]
    /\ snap' = [snap EXCEPT !.suspended = TRUE]

(* RuntimeSnapshotPublisher::suspend, called from outside a refresh. *)
Suspend ==
    /\ faults < MaxFaults
    /\ SuspendBoth
    /\ work' = IF Locked THEN [work EXCEPT !.fenced = TRUE, !.old = TRUE] ELSE work
    /\ faults' = faults + 1
    /\ UNCHANGED <<log, catalog, policy, late, notices, stage, mine, served>>

Fault == faults < MaxFaults /\ faults' = faults + 1
Move(t, s) == stage' = [stage EXCEPT ![t] = s]
(* The refresh is over and the lock released. *)
Done(t) ==
    /\ Move(t, IF t \in Commits THEN "notify" ELSE "idle")
    /\ work' = NoWork

-----------------------------------------------------------------------------
(* The tasks up to the lock.                                                *)

(* An administration call commits: a new revision. *)
Commit(c) ==
    /\ stage[c] = "idle" /\ Len(log) < MaxRevision
    /\ \E l \in Limits : log' = Append(log, l)
    /\ mine' = [mine EXCEPT ![c] = Len(log) + 1]
    /\ Move(c, "committed")
    /\ UNCHANGED <<catalog, policy, late, notices, snap, conc, work, served, faults>>

(* CommittedRefreshGuard::begin preempts a background refresh. *)
BeginCommitted(t) ==
    /\ Move(t, "lock")
    /\ work' = [work EXCEPT !.cancelled = stage[Background] \in Holding]

PublishCommitted(c) ==
    /\ stage[c] = "committed"
    /\ BeginCommitted(c)
    /\ UNCHANGED <<log, catalog, policy, late, notices, snap, conc, mine, served, faults>>

(* The subscription task takes a notification, whatever revision it names. *)
Notified ==
    /\ stage["subscription"] = "idle" /\ notices > 0
    /\ notices' = notices - 1
    /\ BeginCommitted("subscription")
    /\ UNCHANGED <<log, catalog, policy, late, snap, conc, mine, served, faults>>

ReconcileStarts ==
    /\ stage[Background] = "idle"
    /\ Move(Background, "lock")
    /\ UNCHANGED <<log, catalog, policy, late, notices, snap, conc, work, mine, served, faults>>

(* refresh_locked: the fence is read and the compilation starts. *)
StartRefresh(t, suspends) ==
    /\ Move(t, "facts")
    /\ work' = [work EXCEPT !.suspends = suspends, !.fenced = FALSE]

LockCommitted(t) ==
    /\ stage[t] = "lock" /\ ~Locked
    /\ StartRefresh(t, TRUE)
    /\ UNCHANGED <<log, catalog, policy, late, notices, snap, conc, mine, served, faults>>

(* BackgroundRefreshGuard::begin refuses while a commit is pending. *)
LockBackground ==
    /\ stage[Background] = "lock" /\ ~Locked
    /\ IF Pending # {}
       THEN Move(Background, "idle")
       ELSE Move(Background, "revision")
    /\ UNCHANGED <<log, catalog, policy, late, notices, snap, conc, work, mine, served, faults>>

(* MUTANT: a suspended snapshot of the current revision is left alone *)
IgnoresSuspension ==
    LET changed == snap.rev # Len(log) IN
    /\ stage[Background] = "revision"
    /\ IF changed \/ snap.gen # catalog
       THEN StartRefresh(Background, changed)
       ELSE Done(Background)
    /\ UNCHANGED <<log, catalog, policy, late, notices, snap, conc, mine, served, faults>>

(* The reconciliation reads the persisted revision and decides. *)
ReadRevision ==
    LET changed == snap.rev # Len(log) IN
    /\ stage[Background] = "revision"
    /\ IF changed \/ Suspended \/ snap.gen # catalog
       THEN StartRefresh(Background, changed \/ Suspended)
       ELSE Done(Background)
    /\ UNCHANGED <<log, catalog, policy, late, notices, snap, conc, mine, served, faults>>

ReadRevisionFails ==
    /\ stage[Background] = "revision" /\ Fault
    /\ SuspendBoth
    /\ Done(Background)
    /\ UNCHANGED <<log, catalog, policy, late, notices, mine, served>>

-----------------------------------------------------------------------------
(* Compilation (compile_inner).  A background compilation goes on only      *)
(* while no commit has cancelled it.                                        *)

Goes(t, s) == stage[t] = s /\ (t = Background => ~work.cancelled)

(* The facts of one revision, read in one transaction. *)
LoadFacts(t) ==
    /\ Goes(t, "facts")
    /\ Move(t, "observe")
    /\ work' = [work EXCEPT !.rev = Len(log), !.limits = log[Len(log)], !.old = FALSE]
    /\ UNCHANGED <<log, catalog, policy, late, notices, snap, conc, mine, served, faults>>

Failed(t) == Move(t, "apply") /\ work' = [work EXCEPT !.ok = FALSE]

(* One more attempt, or the error that the last one ends with. *)
TryAgain(t) ==
    IF work.tries + 1 < Attempts
    THEN Move(t, "facts") /\ work' = [work EXCEPT !.tries = @ + 1]
    ELSE Failed(t)

(* The revision read after the transaction, and the catalog generations. *)
Observe(t) ==
    /\ Goes(t, "observe")
    /\ IF work.rev = Len(log)
       THEN Move(t, "query") /\ work' = [work EXCEPT !.gen = catalog]
       ELSE TryAgain(t)
    /\ UNCHANGED <<log, catalog, policy, late, notices, snap, conc, mine, served, faults>>

(* compile_runtime_snapshot: a committed refresh keeps the model facts of   *)
(* the previous snapshot, a background one queries the catalogs.            *)
Query(t) ==
    /\ Goes(t, "query")
    /\ Move(t, "verify")
    /\ work' = [work EXCEPT !.asked = IF t = Background THEN catalog ELSE snap.asked]
    /\ UNCHANGED <<log, catalog, policy, late, notices, snap, conc, mine, served, faults>>

(* The generations are unchanged.  A committed snapshot has none, so that   *)
(* the next reconciliation queries the catalogs.                            *)
Verify(t) ==
    /\ Goes(t, "verify")
    /\ IF work.gen = catalog
       THEN /\ Move(t, "policy")
            /\ work' = [work EXCEPT !.gen = IF t = Background THEN @ ELSE 0]
       ELSE TryAgain(t)
    /\ UNCHANGED <<log, catalog, policy, late, notices, snap, conc, mine, served, faults>>

(* The store fails or the facts are invalid. *)
CompileFails(t) ==
    /\ \E s \in Compiling \ {"verify"} : Goes(t, s)
    /\ Fault
    /\ Failed(t)
    /\ UNCHANGED <<log, catalog, policy, late, notices, snap, conc, mine, served>>

(* A commit preempts the background refresh: nothing is suspended. *)
Preempted ==
    /\ stage[Background] \in Compiling /\ work.cancelled
    /\ Done(Background)
    /\ UNCHANGED <<log, catalog, policy, late, notices, snap, conc, mine, served, faults>>

-----------------------------------------------------------------------------
(* Publication.                                                             *)

(* The script: a newer policy stays. *)
Publish(r) == policy' = Maximum(policy, r)

PublishPolicy(t) ==
    /\ stage[t] = "policy"
    /\ Publish(work.rev)
    /\ Move(t, "apply")
    /\ work' = [work EXCEPT !.ok = TRUE]
    /\ UNCHANGED <<log, catalog, late, notices, snap, conc, mine, served, faults>>

(* MUTANT: the snapshot does not wait for its policy *)
TimeoutIsSuccess(t) ==
    /\ stage[t] = "policy" /\ Fault
    /\ late' = late \cup {work.rev}
    /\ Move(t, "apply")
    /\ work' = [work EXCEPT !.ok = TRUE]
    /\ UNCHANGED <<log, catalog, policy, notices, snap, conc, mine, served>>

(* No answer within a second, or an error: the script may run later. *)
PolicyTimesOut(t) ==
    /\ stage[t] = "policy" /\ Fault
    /\ late' = late \cup {work.rev}
    /\ Failed(t)
    /\ UNCHANGED <<log, catalog, policy, notices, snap, conc, mine, served>>

LatePolicy(r) ==
    /\ Publish(r)
    /\ late' = late \ {r}
    /\ UNCHANGED <<log, catalog, notices, snap, conc, stage, work, mine, served, faults>>

(* MUTANT: whatever the database holds is published *)
AcceptsAny == work.ok

(* AccountConcurrencyState::publish refuses an older revision and another   *)
(* content of the same one.                                                 *)
Publishable ==
    /\ work.ok
    /\ work.rev >= conc.rev
    /\ work.rev = conc.rev => work.limits = conc.limits

Published ==
    /\ conc' = [rev |-> work.rev, limits |-> work.limits, suspended |-> FALSE]
    /\ snap' = [rev |-> work.rev, limits |-> work.limits, gen |-> work.gen,
                asked |-> work.asked, suspended |-> FALSE]

Refreshed(t) ==
    served' = IF t \in Commits THEN Maximum(served, mine[t]) ELSE served

(* MUTANT: a failed refresh leaves the snapshot as it was *)
FailsQuietly(t) ==
    /\ stage[t] = "apply"
    /\ IF ~work.fenced /\ Publishable THEN Published ELSE UNCHANGED <<snap, conc>>
    /\ Refreshed(t)
    /\ Done(t)
    /\ UNCHANGED <<log, catalog, policy, late, notices, mine, faults>>

(* MUTANT: a suspension since the refresh began goes unnoticed *)
IgnoresFence(t) ==
    /\ stage[t] = "apply"
    /\ IF Publishable THEN Published
       ELSE IF work.suspends THEN SuspendBoth ELSE UNCHANGED <<snap, conc>>
    /\ Refreshed(t)
    /\ Done(t)
    /\ UNCHANGED <<log, catalog, policy, late, notices, mine, faults>>

(* The end of refresh_locked, under the write lock of the handle. *)
Apply(t) ==
    /\ stage[t] = "apply"
    /\ IF work.fenced THEN UNCHANGED <<snap, conc>>
       ELSE IF Publishable THEN Published
       ELSE IF work.suspends THEN SuspendBoth
       ELSE UNCHANGED <<snap, conc>>
    /\ Refreshed(t)
    /\ Done(t)
    /\ UNCHANGED <<log, catalog, policy, late, notices, mine, faults>>

(* Publishing to a Redis channel delivers to the subscription or not. *)
Deliver ==
    \/ UNCHANGED notices
    \/ notices < MaxNotices /\ notices' = notices + 1

Notify(c) ==
    /\ stage[c] = "notify"
    /\ Deliver
    /\ Move(c, "idle")
    /\ mine' = [mine EXCEPT ![c] = 0]
    /\ UNCHANGED <<log, catalog, policy, late, snap, conc, work, served, faults>>

(* The client of an administration call leaves and its handler is dropped:  *)
(* the guards release what they hold, a script already sent may run.        *)
DropCommit(c) ==
    /\ stage[c] # "idle"
    /\ late' \in {late} \cup (IF stage[c] = "policy" THEN {late \cup {work.rev}} ELSE {})
    /\ Move(c, "idle")
    /\ mine' = [mine EXCEPT ![c] = 0]
    /\ work' = IF stage[c] \in Holding THEN NoWork ELSE work
    /\ UNCHANGED <<log, catalog, policy, notices, snap, conc, served, faults>>

-----------------------------------------------------------------------------
(* The surroundings: other processes, the providers, an operator.           *)

(* Another process commits, publishes its policy or not, notifies or not. *)
RemoteCommit ==
    /\ Len(log) < MaxRevision
    /\ \E l \in Limits : log' = Append(log, l)
    /\ policy' \in {policy, Maximum(policy, Len(log) + 1)}
    /\ Deliver
    /\ UNCHANGED <<catalog, late, snap, conc, stage, work, mine, served, faults>>

CatalogChanges ==
    /\ catalog < MaxCatalog
    /\ catalog' = catalog + 1
    /\ UNCHANGED <<log, policy, late, notices, snap, conc, stage, work, mine, served, faults>>

(* The database is restored to an earlier revision: the commits after it    *)
(* are undone.                                                              *)
Restore ==
    /\ Fault
    /\ \E r \in 1 .. Len(log) - 1 :
         /\ log' = SubSeq(log, 1, r)
         /\ mine' = [c \in Commits |-> IF mine[c] > r THEN 0 ELSE mine[c]]
         /\ served' = IF served > r THEN r ELSE served
    /\ UNCHANGED <<catalog, policy, late, notices, snap, conc, stage, work>>

-----------------------------------------------------------------------------
RefreshStep(t) ==
    \/ LoadFacts(t) \/ Observe(t) \/ Query(t) \/ Verify(t)
    \/ PublishPolicy(t) \/ Apply(t)

Reconcile == ReconcileStarts \/ LockBackground \/ ReadRevision \/ Preempted

Next ==
    \/ Suspend \/ Restore \/ RemoteCommit \/ CatalogChanges
    \/ Notified \/ Reconcile \/ ReadRevisionFails
    \/ \E c \in Commits : Commit(c) \/ PublishCommitted(c) \/ Notify(c) \/ DropCommit(c)
    \/ \E t \in Committed : LockCommitted(t)
    \/ \E t \in Tasks : RefreshStep(t) \/ CompileFails(t) \/ PolicyTimesOut(t)
    \/ \E r \in late : LatePolicy(r)

Spec == Init /\ [][Next]_vars

(* Every task is polled, reconciliation starts again after its interval,    *)
(* and an administration call that is not dropped goes on.                  *)
Fairness ==
    /\ WF_vars(Reconcile) /\ WF_vars(Notified)
    /\ \A t \in Tasks : WF_vars(RefreshStep(t))
    /\ \A t \in Committed : WF_vars(LockCommitted(t))
    /\ \A c \in Commits : WF_vars(PublishCommitted(c)) /\ WF_vars(Notify(c))

FairSpec == Spec /\ Fairness

-----------------------------------------------------------------------------
(* Properties.                                                              *)

(* The state has its type, and one task at most is refreshing. *)
TypeOK ==
    /\ log \in Seq(Limits) /\ Len(log) \in Revisions
    /\ catalog \in Catalogs /\ policy \in Revisions /\ late \subseteq Revisions
    /\ notices \in 0 .. MaxNotices
    /\ snap \in Snapshots /\ conc \in Concurrencies
    /\ stage \in [Tasks -> Stages] /\ work \in Works
    /\ mine \in [Commits -> {0} \cup Revisions]
    /\ served \in Revisions /\ faults \in 0 .. MaxFaults

(* What a request may freeze never goes back: neither to an older revision, *)
(* nor to another content of the same one, nor to older model facts, even   *)
(* though two tasks reload and the database may be restored.                *)
PublishedNeverFalls ==
    [][/\ snap'.rev >= snap.rev
       /\ snap'.rev = snap.rev => snap'.limits = snap.limits
       /\ snap'.asked >= snap.asked]_vars

(* Once publish_committed has refreshed, the commit is in the published     *)
(* snapshot or the snapshot is suspended: no interleaving with a background *)
(* refresh, a notification or a suspension leaves an earlier configuration  *)
(* published as good.                                                       *)
CommittedIsServed ==
    \/ Suspended
    \/ snap.rev > served
    \/ snap.rev = served /\ snap.limits = log[served]

(* A request never runs under a revision whose protection policy Redis does *)
(* not have: begin_account_protection refuses a newer revision than the     *)
(* stored one.                                                              *)
PolicyPrecedesSnapshot == policy >= snap.rev

(* A suspension is lifted only by a configuration loaded after it.          *)
SuspensionHolds == [][Suspended /\ ~Suspended' => ~work.old]_vars

(* Without further commits and faults the process converges, whatever       *)
(* notifications were lost: it publishes the persisted configuration with   *)
(* catalogs asked in their current generation, unsuspended.  After a        *)
(* restore that took the database behind the published revision it stays    *)
(* suspended; only when another content has taken the same revision may it  *)
(* not notice.                                                              *)
Current ==
    /\ snap.rev = Len(log) /\ snap.limits = log[Len(log)]
    /\ snap.gen = catalog /\ snap.asked = catalog /\ ~Suspended
Converges ==
    <>[](\/ Current
         \/ snap.rev > Len(log) /\ Suspended
         \/ snap.rev = Len(log) /\ snap.limits # log[Len(log)])
=============================================================================
