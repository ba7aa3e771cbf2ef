----------------------- MODULE RuntimeSnapshotProofs -----------------------
(***************************************************************************)
(* The published snapshot, for any number of administration calls, any     *)
(* configurations and any bounds.                                          *)
(***************************************************************************)
EXTENDS RuntimeSnapshot, TLAPS

LEMMA Constants ==
    /\ Attempts \in Nat /\ Attempts > 0 /\ MaxRevision \in Nat /\ MaxRevision > 0
    /\ MaxCatalog \in Nat /\ MaxCatalog > 0 /\ MaxNotices \in Nat /\ MaxFaults \in Nat
    /\ 1 \in Revisions /\ 1 \in Catalogs
  BY SnapshotAssumption DEF Revisions, Catalogs

(* The names of the tasks of the process differ. *)
LEMMA TaskNames ==
    /\ Background \in Tasks /\ Background \notin Committed /\ Background \notin Commits
    /\ "subscription" \in Committed /\ "subscription" \notin Commits
    /\ Committed \subseteq Tasks /\ Commits \subseteq Committed
    /\ \A t \in Tasks : t # Background => t \in Committed
  BY SnapshotAssumption DEF Tasks, Committed, Background

LEMMA NoWorkType ==
    NoWork \in Works /\ ~NoWork.fenced /\ ~NoWork.cancelled
<1>1. Limits # {}
  BY SnapshotAssumption
<1>2. (CHOOSE l \in Limits : TRUE) \in Limits
  BY <1>1
<1>3. QED
  BY <1>2, Constants DEF NoWork, Works

(* What the steps do to the refresh under way. *)
LEMMA WorkUpdates ==
    ASSUME NEW w \in Works
    PROVE  /\ \A b \in BOOLEAN : [w EXCEPT !.cancelled = b] \in Works
           /\ \A b \in BOOLEAN : [w EXCEPT !.suspends = b, !.fenced = FALSE] \in Works
           /\ \A b \in BOOLEAN : [w EXCEPT !.ok = b] \in Works
           /\ [w EXCEPT !.fenced = TRUE, !.old = TRUE] \in Works
           /\ \A r \in Revisions, l \in Limits :
                [w EXCEPT !.rev = r, !.limits = l, !.old = FALSE] \in Works
           /\ \A g \in Catalogs \cup {0} : [w EXCEPT !.gen = g] \in Works
           /\ \A g \in Catalogs : [w EXCEPT !.asked = g] \in Works
           /\ w.tries + 1 < Attempts => [w EXCEPT !.tries = @ + 1] \in Works
<1> USE DEF Works
<1>1. /\ \A b \in BOOLEAN : [w EXCEPT !.cancelled = b] \in Works
      /\ \A b \in BOOLEAN : [w EXCEPT !.ok = b] \in Works
  OBVIOUS
<1>2. \A b \in BOOLEAN : [w EXCEPT !.suspends = b, !.fenced = FALSE] \in Works
  OBVIOUS
<1>3. [w EXCEPT !.fenced = TRUE, !.old = TRUE] \in Works
  OBVIOUS
<1>4. \A r \in Revisions, l \in Limits :
        [w EXCEPT !.rev = r, !.limits = l, !.old = FALSE] \in Works
  OBVIOUS
<1>5. /\ \A g \in Catalogs \cup {0} : [w EXCEPT !.gen = g] \in Works
      /\ \A g \in Catalogs : [w EXCEPT !.asked = g] \in Works
  OBVIOUS
<1>6. w.tries + 1 < Attempts => [w EXCEPT !.tries = @ + 1] \in Works
  BY Constants
<1>7. QED
  BY <1>1, <1>2, <1>3, <1>4, <1>5, <1>6

LEMMA InitType == Init => TypeOK
<1> SUFFICES ASSUME Init PROVE TypeOK
  OBVIOUS
<1>1. (CHOOSE l \in Limits : TRUE) \in Limits
  BY SnapshotAssumption
<1>2. log \in Seq(Limits) /\ Len(log) = 1 /\ log[1] \in Limits
  BY <1>1 DEF Init
<1>3. QED
  BY <1>2, NoWorkType, Constants DEF Init, TypeOK, Stages, Snapshots, Concurrencies

LEMMA MoveType ==
    ASSUME stage \in [Tasks -> Stages], NEW t \in Tasks, NEW s \in Stages, Move(t, s)
    PROVE  stage' \in [Tasks -> Stages]
  BY DEF Move

LEMMA SuspendType ==
    ASSUME TypeOK, SuspendBoth
    PROVE  snap' \in Snapshots /\ conc' \in Concurrencies
  BY DEF TypeOK, SuspendBoth, Snapshots, Concurrencies

LEMMA DoneType ==
    ASSUME TypeOK, NEW t \in Tasks, Done(t)
    PROVE  stage' \in [Tasks -> Stages] /\ work' \in Works
  BY NoWorkType DEF TypeOK, Done, Move, Stages

LEMMA FailedType ==
    ASSUME TypeOK, NEW t \in Tasks, Failed(t)
    PROVE  stage' \in [Tasks -> Stages] /\ work' \in Works
  BY WorkUpdates DEF TypeOK, Failed, Move, Stages, Holding

LEMMA TryAgainType ==
    ASSUME TypeOK, NEW t \in Tasks, TryAgain(t)
    PROVE  stage' \in [Tasks -> Stages] /\ work' \in Works
<1>1. CASE work.tries + 1 < Attempts
  BY <1>1, WorkUpdates DEF TypeOK, TryAgain, Move, Stages, Holding, Compiling
<1>2. CASE ~(work.tries + 1 < Attempts)
  BY <1>2, FailedType DEF TryAgain
<1>3. QED
  BY <1>1, <1>2

LEMMA StageNames ==
    /\ {"idle", "committed", "lock", "notify", "revision", "policy", "apply", "facts",
        "observe", "query", "verify"} = Stages
    /\ Holding = {"revision", "policy", "apply", "facts", "observe", "query", "verify"}
  BY DEF Stages, Holding, Compiling

LEMMA BeginType ==
    ASSUME TypeOK, NEW t \in Tasks, BeginCommitted(t)
    PROVE  stage' \in [Tasks -> Stages] /\ work' \in Works
<1>1. (stage[Background] \in Holding) \in BOOLEAN
  OBVIOUS
<1>2. work' \in Works
  BY <1>1, WorkUpdates DEF BeginCommitted, TypeOK
<1>3. QED
  BY <1>2, StageNames DEF BeginCommitted, Move, TypeOK

(* An administration call outside its refresh. *)
LEMMA CommitType ==
    ASSUME TypeOK, NEW c \in Commits,
           Commit(c) \/ PublishCommitted(c) \/ Notify(c) \/ DropCommit(c)
    PROVE  TypeOK'
<1> USE Constants, TaskNames, StageNames
<1>1. CASE Commit(c)
  <2>1. log' \in Seq(Limits) /\ Len(log') = Len(log) + 1
    BY <1>1 DEF Commit, TypeOK
  <2>2. Len(log') \in Revisions /\ mine' \in [Commits -> {0} \cup Revisions]
    BY <1>1, <2>1 DEF Commit, TypeOK, Revisions
  <2>3. stage' \in [Tasks -> Stages]
    BY <1>1 DEF Commit, Move, TypeOK
  <2>4. QED
    BY <1>1, <2>1, <2>2, <2>3 DEF Commit, TypeOK
<1>2. CASE PublishCommitted(c)
  BY <1>2, BeginType DEF PublishCommitted, TypeOK
<1>3. CASE Notify(c)
  BY <1>3 DEF Notify, Deliver, Move, TypeOK
<1>4. CASE DropCommit(c)
  <2>1. late' \subseteq Revisions
    BY <1>4 DEF DropCommit, TypeOK, Works
  <2>2. QED
    BY <1>4, <2>1, NoWorkType DEF DropCommit, Move, TypeOK
<1>5. QED
  BY <1>1, <1>2, <1>3, <1>4

(* A committed refresh up to its compilation. *)
LEMMA CommittedType ==
    ASSUME TypeOK, Notified \/ \E t \in Committed : LockCommitted(t)
    PROVE  TypeOK'
<1> USE Constants, TaskNames, StageNames
<1>1. CASE Notified
  BY <1>1, BeginType DEF Notified, TypeOK
<1>2. ASSUME NEW t \in Committed, LockCommitted(t) PROVE TypeOK'
  BY <1>2, WorkUpdates DEF LockCommitted, StartRefresh, Move, TypeOK
<1>3. QED
  BY <1>1, <1>2

(* The reconciliation. *)
LEMMA ReconcileType ==
    ASSUME TypeOK, Reconcile \/ ReadRevisionFails
    PROVE  TypeOK'
<1> USE Constants, TaskNames, StageNames
<1>1. CASE ReconcileStarts \/ LockBackground
  BY <1>1 DEF ReconcileStarts, LockBackground, Move, TypeOK
<1>2. CASE ReadRevision
  <2>1. CASE Done(Background)
    BY <1>2, <2>1, DoneType DEF ReadRevision, TypeOK
  <2>2. ASSUME NEW b \in BOOLEAN, StartRefresh(Background, b) PROVE TypeOK'
    BY <1>2, <2>2, WorkUpdates DEF ReadRevision, StartRefresh, Move, TypeOK
  <2>3. QED
    BY <1>2, <2>1, <2>2 DEF ReadRevision, Suspended, TypeOK, Snapshots, Concurrencies
<1>3. CASE ReadRevisionFails
  BY <1>3, SuspendType, DoneType DEF ReadRevisionFails, Fault, TypeOK
<1>4. CASE Preempted
  BY <1>4, DoneType DEF Preempted, TypeOK
<1>5. QED
  BY <1>1, <1>2, <1>3, <1>4 DEF Reconcile

(* The compilation. *)
LEMMA CompileType ==
    ASSUME TypeOK, NEW t \in Tasks,
           LoadFacts(t) \/ Observe(t) \/ Query(t) \/ Verify(t) \/ CompileFails(t)
    PROVE  TypeOK'
<1> USE Constants, StageNames
<1>1. CASE LoadFacts(t)
  <2>1. Len(log) \in Revisions /\ log[Len(log)] \in Limits
    BY DEF TypeOK, Revisions
  <2>2. QED
    BY <1>1, <2>1, WorkUpdates DEF LoadFacts, Move, TypeOK
<1>2. CASE Observe(t)
  <2>1. CASE TryAgain(t)
    BY <1>2, <2>1, TryAgainType DEF Observe, TypeOK
  <2>2. CASE ~TryAgain(t)
    <3>1. work' \in Works
      BY <1>2, <2>2, WorkUpdates DEF Observe, TypeOK
    <3>2. QED
      BY <1>2, <2>2, <3>1 DEF Observe, Move, TypeOK
  <2>3. QED
    BY <2>1, <2>2
<1>3. CASE Query(t)
  BY <1>3, WorkUpdates DEF Query, Move, TypeOK, Snapshots
<1>4. CASE Verify(t)
  <2>1. CASE TryAgain(t)
    BY <1>4, <2>1, TryAgainType DEF Verify, TypeOK
  <2>2. CASE ~TryAgain(t)
    <3>1. work.gen \in Catalogs \cup {0}
      BY DEF TypeOK, Works
    <3>2. PICK g \in Catalogs \cup {0} : work' = [work EXCEPT !.gen = g]
      BY <1>4, <2>2, <3>1 DEF Verify
    <3>3. work' \in Works
      BY <3>2, WorkUpdates DEF TypeOK
    <3>4. QED
      BY <1>4, <2>2, <3>3 DEF Verify, Move, TypeOK
  <2>3. QED
    BY <2>1, <2>2
<1>5. CASE CompileFails(t)
  BY <1>5, FailedType DEF CompileFails, Fault, TypeOK
<1>6. QED
  BY <1>1, <1>2, <1>3, <1>4, <1>5

(* The publication. *)
LEMMA PublishType ==
    ASSUME TypeOK, NEW t \in Tasks,
           PublishPolicy(t) \/ PolicyTimesOut(t) \/ Apply(t) \/ \E r \in late : LatePolicy(r)
    PROVE  TypeOK'
<1> USE Constants, StageNames
<1>0. work.rev \in Revisions /\ work.limits \in Limits /\ work.gen \in {0} \cup Catalogs
      /\ work.asked \in Catalogs
  BY DEF TypeOK, Works
<1>1. CASE PublishPolicy(t)
  BY <1>0, <1>1, WorkUpdates DEF PublishPolicy, Publish, Maximum, Move, TypeOK
<1>2. CASE PolicyTimesOut(t)
  BY <1>0, <1>2, FailedType DEF PolicyTimesOut, Fault, TypeOK
<1>3. CASE Apply(t)
  <2>1. served' \in Revisions
    BY <1>3 DEF Apply, Refreshed, Maximum, TypeOK, Revisions
  <2>2. snap' \in Snapshots /\ conc' \in Concurrencies
    <3>1. CASE Published
      BY <1>0, <3>1 DEF Published, Snapshots, Concurrencies
    <3>2. CASE SuspendBoth
      BY <3>2, SuspendType
    <3>3. CASE UNCHANGED <<snap, conc>>
      BY <3>3 DEF TypeOK
    <3>4. QED
      BY <1>3, <3>1, <3>2, <3>3 DEF Apply
  <2>3. QED
    BY <1>3, <2>1, <2>2, DoneType DEF Apply, TypeOK
<1>4. ASSUME NEW r \in late, LatePolicy(r) PROVE TypeOK'
  BY <1>4 DEF LatePolicy, Publish, Maximum, TypeOK
<1>5. QED
  BY <1>1, <1>2, <1>3, <1>4

(* The surroundings. *)
LEMMA SurroundingsType ==
    ASSUME TypeOK, Suspend \/ RemoteCommit \/ CatalogChanges \/ Restore
    PROVE  TypeOK'
<1> USE Constants
<1>1. CASE Suspend
  <2>1. work' \in Works
    BY <1>1, WorkUpdates DEF Suspend, TypeOK
  <2>2. QED
    BY <1>1, <2>1, SuspendType DEF Suspend, TypeOK
<1>2. CASE RemoteCommit
  <2>1. log' \in Seq(Limits) /\ Len(log') = Len(log) + 1
    BY <1>2 DEF RemoteCommit, TypeOK
  <2>2. QED
    BY <1>2, <2>1 DEF RemoteCommit, Deliver, Maximum, TypeOK, Revisions
<1>3. CASE CatalogChanges
  BY <1>3 DEF CatalogChanges, TypeOK, Catalogs
<1>4. CASE Restore
  <2>1. PICK r \in 1 .. Len(log) - 1 :
          /\ log' = SubSeq(log, 1, r)
          /\ mine' = [c \in Commits |-> IF mine[c] > r THEN 0 ELSE mine[c]]
          /\ served' = IF served > r THEN r ELSE served
    BY <1>4 DEF Restore
  <2>2. log' \in Seq(Limits) /\ Len(log') = r /\ r \in Revisions
    BY <2>1 DEF TypeOK, Revisions
  <2>3. QED
    BY <1>4, <2>1, <2>2 DEF Restore, Fault, TypeOK
<1>5. QED
  BY <1>1, <1>2, <1>3, <1>4

LEMMA TypeStep == TypeOK /\ [Next]_vars => TypeOK'
<1> SUFFICES ASSUME TypeOK, [Next]_vars PROVE TypeOK'
  OBVIOUS
<1>1. CASE UNCHANGED vars
  BY <1>1 DEF vars, TypeOK
<1>2. CASE Next
  <2>1. ASSUME NEW t \in Tasks, RefreshStep(t) \/ CompileFails(t) \/ PolicyTimesOut(t)
        PROVE TypeOK'
    BY <2>1, CompileType, PublishType DEF RefreshStep
  <2>2. ASSUME NEW r \in late, LatePolicy(r) PROVE TypeOK'
    BY <2>2, PublishType, TaskNames
  <2>3. QED
    BY <1>2, <2>1, <2>2, CommitType, CommittedType, ReconcileType, SurroundingsType DEF Next
<1>3. QED
  BY <1>1, <1>2

(* The state has its type. *)
THEOREM TypeCorrect == Spec => []TypeOK
  BY InitType, TypeStep, PTL DEF Spec

-----------------------------------------------------------------------------
(* One task at most is refreshing.                                          *)

OneHolder ==
    \A t, u \in Tasks : stage[t] \in Holding /\ stage[u] \in Holding => t = u

LEMMA HolderStep == TypeOK /\ OneHolder /\ [Next]_vars => OneHolder'
<1> SUFFICES ASSUME TypeOK, OneHolder, [Next]_vars PROVE OneHolder'
  OBVIOUS
<1> USE TaskNames, StageNames
<1>1. ASSUME NEW t \in Tasks, NEW s \in Stages, Move(t, s),
             s \in Holding => stage[t] \in Holding \/ ~Locked
      PROVE OneHolder'
  BY <1>1 DEF OneHolder, Move, Locked, TypeOK
<1>2. CASE UNCHANGED stage
  BY <1>2 DEF OneHolder
<1>3. ASSUME NEW c \in Commits,
             Commit(c) \/ PublishCommitted(c) \/ Notify(c) \/ DropCommit(c)
      PROVE OneHolder'
  BY <1>1, <1>3 DEF Commit, PublishCommitted, BeginCommitted, Notify, DropCommit
<1>4. CASE Notified
  BY <1>1, <1>4 DEF Notified, BeginCommitted
<1>5. ASSUME NEW t \in Committed, LockCommitted(t) PROVE OneHolder'
  BY <1>1, <1>5 DEF LockCommitted, StartRefresh
<1>6. CASE Reconcile \/ ReadRevisionFails
  BY <1>1, <1>6 DEF Reconcile, ReconcileStarts, LockBackground, ReadRevision, ReadRevisionFails,
                    Preempted, StartRefresh, Done
<1>7. ASSUME NEW t \in Tasks, RefreshStep(t) \/ CompileFails(t) \/ PolicyTimesOut(t)
      PROVE OneHolder'
  <2>1. stage[t] \in Holding
    BY <1>7 DEF RefreshStep, LoadFacts, Observe, Query, Verify, CompileFails, PolicyTimesOut,
                PublishPolicy, Apply, Goes, Compiling
  <2>2. PICK s \in Stages : Move(t, s)
    BY <1>7 DEF RefreshStep, LoadFacts, Observe, Query, Verify, CompileFails, PolicyTimesOut,
                PublishPolicy, Apply, TryAgain, Failed, Done
  <2>3. QED
    BY <1>1, <2>1, <2>2
<1>8. CASE Suspend \/ RemoteCommit \/ CatalogChanges \/ Restore \/ \E r \in late : LatePolicy(r)
  BY <1>2, <1>8 DEF Suspend, RemoteCommit, CatalogChanges, Restore, LatePolicy
<1>9. QED
  BY <1>2, <1>3, <1>4, <1>5, <1>6, <1>7, <1>8 DEF Next, vars

-----------------------------------------------------------------------------
(* The steps by what they do to the refresh under way.                      *)

SameWork ==
    /\ work'.rev = work.rev /\ work'.limits = work.limits /\ work'.gen = work.gen
    /\ work'.asked = work.asked /\ work'.ok = work.ok /\ work'.suspends = work.suspends
    /\ work'.fenced = work.fenced /\ work'.old = work.old

(* A step beside the refresh: it stays where it is and what it is, but may  *)
(* be cancelled.                                                            *)
Aside ==
    /\ \A t \in Tasks : stage[t] \in Holding \/ stage'[t] \in Holding => stage'[t] = stage[t]
    /\ SameWork

(* After the step no facts are loaded: a refresh begins or has ended.  The  *)
(* refresh of a commit suspends when it fails.                              *)
Between ==
    \A t \in Tasks : stage'[t] \in Holding =>
        stage'[t] \in {"revision", "facts"} /\ (t \in Committed => work'.suspends)

(* A step of the refresh itself. *)
Gathers(t) ==
    \/ LoadFacts(t) \/ Observe(t) \/ Query(t) \/ Verify(t) \/ CompileFails(t)
    \/ PublishPolicy(t) \/ PolicyTimesOut(t)

LEMMA CommitKinds ==
    ASSUME TypeOK, OneHolder, NEW c \in Commits,
           Commit(c) \/ PublishCommitted(c) \/ Notify(c) \/ DropCommit(c)
    PROVE  Aside \/ Between
<1> USE TaskNames, StageNames
<1>1. CASE Commit(c)
  BY <1>1 DEF Commit, Move, Aside, SameWork, TypeOK
<1>2. CASE PublishCommitted(c)
  <2>1. SameWork
    BY <1>2 DEF PublishCommitted, BeginCommitted, SameWork, TypeOK, Works
  <2>2. QED
    BY <1>2, <2>1 DEF PublishCommitted, BeginCommitted, Move, Aside, TypeOK
<1>3. CASE Notify(c)
  BY <1>3 DEF Notify, Move, Aside, SameWork, TypeOK
<1>4. CASE DropCommit(c)
  <2>1. CASE stage[c] \in Holding
    BY <1>4, <2>1 DEF DropCommit, Move, Between, OneHolder, TypeOK
  <2>2. CASE stage[c] \notin Holding
    BY <1>4, <2>2 DEF DropCommit, Move, Aside, SameWork, TypeOK
  <2>3. QED
    BY <2>1, <2>2
<1>5. QED
  BY <1>1, <1>2, <1>3, <1>4

LEMMA AppliesBetween ==
    ASSUME TypeOK, OneHolder, NEW t \in Tasks, Apply(t)
    PROVE  Between
  BY StageNames DEF Apply, Done, Move, Between, OneHolder, TypeOK

LEMMA LockKinds ==
    ASSUME TypeOK, OneHolder,
           \/ Notified \/ Reconcile \/ ReadRevisionFails
           \/ \E t \in Committed : LockCommitted(t)
           \/ \E t \in Tasks : Apply(t)
    PROVE  Aside \/ Between
<1> USE TaskNames, StageNames
<1>1. CASE Notified
  <2>1. SameWork
    BY <1>1 DEF Notified, BeginCommitted, SameWork, TypeOK, Works
  <2>2. QED
    BY <1>1, <2>1 DEF Notified, BeginCommitted, Move, Aside, TypeOK
<1>2. CASE ReconcileStarts
  BY <1>2 DEF ReconcileStarts, Move, Aside, SameWork, TypeOK
<1>3. CASE LockBackground
  BY <1>3 DEF LockBackground, Locked, Move, Between, TypeOK
<1>4. CASE ReadRevision
  BY <1>4 DEF ReadRevision, StartRefresh, Done, Move, Between, OneHolder, TypeOK
<1>5. CASE ReadRevisionFails
  BY <1>5 DEF ReadRevisionFails, Done, Move, Between, OneHolder, TypeOK
<1>6. CASE Preempted
  BY <1>6 DEF Preempted, Compiling, Done, Move, Between, OneHolder, TypeOK
<1>7. ASSUME NEW t \in Committed, LockCommitted(t) PROVE Between
  BY <1>7 DEF LockCommitted, StartRefresh, Locked, Move, Between, TypeOK, Works
<1>8. ASSUME NEW t \in Tasks, Apply(t) PROVE Between
  BY <1>8, AppliesBetween
<1>9. QED
  BY <1>1, <1>2, <1>3, <1>4, <1>5, <1>6, <1>7, <1>8 DEF Reconcile

LEMMA StepKinds ==
    ASSUME TypeOK, OneHolder, [Next]_vars
    PROVE  Aside \/ Between \/ Suspend \/ \E t \in Tasks : Gathers(t)
<1>1. CASE UNCHANGED <<stage, work>>
  BY <1>1 DEF Aside, SameWork
<1>2. CASE RemoteCommit \/ CatalogChanges \/ Restore \/ \E r \in late : LatePolicy(r)
  BY <1>1, <1>2 DEF RemoteCommit, CatalogChanges, Restore, LatePolicy
<1>3. ASSUME NEW t \in Tasks, RefreshStep(t) \/ CompileFails(t) \/ PolicyTimesOut(t)
      PROVE Gathers(t) \/ Apply(t)
  BY <1>3 DEF RefreshStep, Gathers
<1>4. CASE UNCHANGED vars
  BY <1>1, <1>4 DEF vars
<1>5. QED
  BY <1>2, <1>3, <1>4, CommitKinds, LockKinds DEF Next

(* Refreshing keeps everyone else out. *)
LEMMA GathersAlone ==
    ASSUME TypeOK, OneHolder, NEW t \in Tasks, Gathers(t)
    PROVE  /\ stage[t] \in Holding
           /\ \A u \in Tasks : u # t => stage[u] \notin Holding /\ stage'[u] = stage[u]
           /\ UNCHANGED <<snap, conc, log, catalog, mine, served>>
<1> USE StageNames
<1>1. stage[t] \in Holding
  BY DEF Gathers, LoadFacts, Observe, Query, Verify, CompileFails, PolicyTimesOut,
         PublishPolicy, Goes, Compiling
<1>2. \E s \in Stages : Move(t, s)
  BY DEF Gathers, LoadFacts, Observe, Query, Verify, CompileFails, PolicyTimesOut,
         PublishPolicy, TryAgain, Failed
<1>3. UNCHANGED <<snap, conc, log, catalog, mine, served>>
  BY DEF Gathers, LoadFacts, Observe, Query, Verify, CompileFails, PolicyTimesOut, PublishPolicy
<1>4. QED
  BY <1>1, <1>2, <1>3 DEF OneHolder, Move, TypeOK

(* The handles change when a refresh publishes and when they are suspended. *)
LEMMA HandleSteps ==
    ASSUME TypeOK, [Next]_vars
    PROVE  \/ UNCHANGED <<snap, conc>>
           \/ SuspendBoth
           \/ \E t \in Tasks : Apply(t) /\ ~work.fenced /\ Publishable /\ Published
<1>1. ASSUME NEW c \in Commits,
             Commit(c) \/ PublishCommitted(c) \/ Notify(c) \/ DropCommit(c)
      PROVE UNCHANGED <<snap, conc>>
  BY <1>1 DEF Commit, PublishCommitted, Notify, DropCommit
<1>2. CASE Notified \/ \E t \in Committed : LockCommitted(t)
  BY <1>2 DEF Notified, LockCommitted
<1>3. CASE Reconcile \/ ReadRevisionFails
  BY <1>3 DEF Reconcile, ReconcileStarts, LockBackground, ReadRevision, ReadRevisionFails, Preempted
<1>4. ASSUME NEW t \in Tasks, RefreshStep(t) \/ CompileFails(t) \/ PolicyTimesOut(t)
      PROVE \/ UNCHANGED <<snap, conc>> \/ SuspendBoth
            \/ Apply(t) /\ ~work.fenced /\ Publishable /\ Published
  BY <1>4 DEF RefreshStep, LoadFacts, Observe, Query, Verify, CompileFails, PolicyTimesOut,
              PublishPolicy, Apply
<1>5. CASE RemoteCommit \/ CatalogChanges \/ Restore \/ \E r \in late : LatePolicy(r)
  BY <1>5 DEF RemoteCommit, CatalogChanges, Restore, LatePolicy
<1>6. CASE Suspend
  BY <1>6 DEF Suspend
<1>7. CASE UNCHANGED vars
  BY <1>7 DEF vars
<1>8. QED
  BY <1>1, <1>2, <1>3, <1>4, <1>5, <1>6, <1>7 DEF Next

(* Neither the policy in Redis nor the catalogs go back. *)
LEMMA Rising ==
    ASSUME TypeOK, [Next]_vars
    PROVE  policy' >= policy /\ catalog' >= catalog
<1>0. policy \in Nat /\ catalog \in Nat /\ work.rev \in Nat
  BY Constants DEF TypeOK, Revisions, Catalogs, Works
<1>1. ASSUME NEW c \in Commits,
             Commit(c) \/ PublishCommitted(c) \/ Notify(c) \/ DropCommit(c)
      PROVE UNCHANGED <<policy, catalog>>
  BY <1>1 DEF Commit, PublishCommitted, Notify, DropCommit
<1>2. ASSUME Notified \/ \E t \in Committed : LockCommitted(t)
      PROVE UNCHANGED <<policy, catalog>>
  BY <1>2 DEF Notified, LockCommitted
<1>3. ASSUME Reconcile \/ ReadRevisionFails PROVE UNCHANGED <<policy, catalog>>
  BY <1>3 DEF Reconcile, ReconcileStarts, LockBackground, ReadRevision, ReadRevisionFails, Preempted
<1>4. ASSUME NEW t \in Tasks, RefreshStep(t) \/ CompileFails(t) \/ PolicyTimesOut(t)
      PROVE UNCHANGED <<policy, catalog>> \/ PublishPolicy(t)
  BY <1>4 DEF RefreshStep, LoadFacts, Observe, Query, Verify, CompileFails, PolicyTimesOut, Apply
<1>5. ASSUME NEW t \in Tasks, PublishPolicy(t) PROVE policy' >= policy /\ catalog' >= catalog
  BY <1>0, <1>5 DEF PublishPolicy, Publish, Maximum
<1>6. CASE RemoteCommit \/ CatalogChanges \/ \E r \in late : LatePolicy(r)
  <2>1. Len(log) \in Nat /\ late \subseteq Nat
    BY Constants DEF TypeOK, Revisions
  <2>2. QED
    BY <1>0, <1>6, <2>1 DEF RemoteCommit, CatalogChanges, LatePolicy, Publish, Maximum
<1>7. ASSUME Suspend \/ Restore \/ UNCHANGED vars PROVE UNCHANGED <<policy, catalog>>
  BY <1>7 DEF Suspend, Restore, vars
<1>8. ASSUME UNCHANGED <<policy, catalog>> PROVE policy' >= policy /\ catalog' >= catalog
  BY <1>0, <1>8
<1>9. QED
  BY <1>1, <1>2, <1>3, <1>4, <1>5, <1>6, <1>7, <1>8 DEF Next

-----------------------------------------------------------------------------
(* The two handles carry the same configuration.                            *)

HandlesAgree == snap.rev = conc.rev /\ snap.limits = conc.limits

LEMMA HandlesStep == TypeOK /\ HandlesAgree /\ [Next]_vars => HandlesAgree'
  BY HandleSteps DEF HandlesAgree, SuspendBoth, Published, TypeOK, Snapshots, Concurrencies

-----------------------------------------------------------------------------
(* The policy of a compiled snapshot is in Redis before it is published.    *)

PolicyReady ==
    /\ policy >= snap.rev
    /\ \A t \in Tasks : stage[t] = "apply" /\ work.ok => policy >= work.rev

LEMMA PolicyStep == TypeOK /\ OneHolder /\ PolicyReady /\ [Next]_vars => PolicyReady'
<1> SUFFICES ASSUME TypeOK, OneHolder, PolicyReady, [Next]_vars PROVE PolicyReady'
  OBVIOUS
<1> USE StageNames
<1>0. /\ policy \in Nat /\ snap.rev \in Nat /\ work.rev \in Nat
      /\ policy' \in Nat /\ snap'.rev \in Nat /\ work'.rev \in Nat
  <2>1. TypeOK'
    BY TypeStep
  <2>2. QED
    BY <2>1, Constants DEF TypeOK, Revisions, Snapshots, Works
<1>1. policy' >= snap'.rev
  <2>1. CASE UNCHANGED <<snap, conc>> \/ SuspendBoth
    BY <1>0, <2>1, Rising DEF PolicyReady, SuspendBoth, TypeOK, Snapshots
  <2>2. ASSUME NEW t \in Tasks, Apply(t), Publishable, Published
        PROVE policy' >= snap'.rev
    BY <2>2 DEF PolicyReady, Apply, Publishable, Published
  <2>3. QED
    BY <2>1, <2>2, HandleSteps
<1>2. ASSUME NEW t \in Tasks, stage'[t] = "apply", work'.ok
      PROVE policy' >= work'.rev
  <2>1. CASE Aside
    BY <1>0, <1>2, <2>1, Rising DEF Aside, SameWork, PolicyReady
  <2>2. CASE Between
    BY <1>2, <2>2 DEF Between
  <2>3. CASE Suspend
    BY <1>0, <1>2, <2>3, Rising DEF Suspend, PolicyReady, TypeOK, Works
  <2>4. ASSUME NEW u \in Tasks, Gathers(u) PROVE policy' >= work'.rev
    <3>1. u = t
      BY <1>2, <2>4, GathersAlone
    <3>2. PublishPolicy(t)
      BY <1>2, <2>4, <3>1 DEF Gathers, LoadFacts, Observe, Query, Verify, CompileFails,
             PolicyTimesOut, TryAgain, Failed, Move, TypeOK, Works
    <3>3. work'.rev = work.rev
      BY <3>2 DEF PublishPolicy, TypeOK, Works
    <3>4. QED
      BY <1>0, <3>2, <3>3 DEF PublishPolicy, Publish, Maximum
  <2>5. QED
    BY <2>1, <2>2, <2>3, <2>4, StepKinds
<1>3. QED
  BY <1>1, <1>2 DEF PolicyReady

LEMMA PolicyInit == Init => OneHolder /\ HandlesAgree /\ PolicyReady
  BY TaskNames, StageNames DEF Init, OneHolder, HandlesAgree, PolicyReady

(* No published snapshot is ahead of the policy in Redis, whatever          *)
(* publication timed out and ran later or never.                            *)
THEOREM PolicyFirst == Spec => []PolicyPrecedesSnapshot
<1>1. PolicyReady => PolicyPrecedesSnapshot
  BY DEF PolicyReady, PolicyPrecedesSnapshot
<1>2. QED
  BY <1>1, PolicyInit, InitType, TypeStep, HolderStep, PolicyStep, PTL DEF Spec

-----------------------------------------------------------------------------
(* The model facts are asked in order: a refresh that has queried is not    *)
(* behind the published snapshot, and nobody is ahead of the catalogs.      *)

Queried(t) == stage[t] \in {"verify", "policy"} \/ (stage[t] = "apply" /\ work.ok)

AskedInOrder ==
    /\ snap.asked <= catalog
    /\ \A t \in Tasks : Queried(t) => snap.asked <= work.asked /\ work.asked <= catalog

LEMMA AskedStep == TypeOK /\ OneHolder /\ AskedInOrder /\ [Next]_vars => AskedInOrder'
<1> SUFFICES ASSUME TypeOK, OneHolder, AskedInOrder, [Next]_vars PROVE AskedInOrder'
  OBVIOUS
<1> USE StageNames
<1>0. /\ catalog \in Nat /\ snap.asked \in Nat /\ work.asked \in Nat
      /\ catalog' \in Nat /\ snap'.asked \in Nat /\ work'.asked \in Nat
  <2>1. TypeOK'
    BY TypeStep
  <2>2. QED
    BY <2>1, Constants DEF TypeOK, Catalogs, Snapshots, Works
<1>1. snap'.asked <= catalog'
  <2>1. CASE UNCHANGED <<snap, conc>> \/ SuspendBoth
    BY <1>0, <2>1, Rising DEF AskedInOrder, SuspendBoth, TypeOK, Snapshots
  <2>2. ASSUME NEW t \in Tasks, Apply(t), Publishable, Published
        PROVE snap'.asked <= catalog'
    BY <2>2 DEF AskedInOrder, Queried, Apply, Publishable, Published
  <2>3. QED
    BY <2>1, <2>2, HandleSteps
<1>2. ASSUME NEW t \in Tasks, Queried(t)'
      PROVE snap'.asked <= work'.asked /\ work'.asked <= catalog'
  <2>1. CASE Between
    BY <1>2, <2>1 DEF Between, Queried
  <2>2. CASE ~Between
    <3>1. snap'.asked = snap.asked
      BY <2>2, HandleSteps, AppliesBetween DEF SuspendBoth, TypeOK, Snapshots
    <3>2. CASE Aside
      BY <1>0, <1>2, <3>1, <3>2, Rising DEF Aside, SameWork, AskedInOrder, Queried
    <3>3. CASE Suspend
      BY <1>0, <1>2, <3>1, <3>3, Rising DEF Suspend, AskedInOrder, Queried, TypeOK, Works
    <3>4. ASSUME NEW u \in Tasks, Gathers(u)
          PROVE snap'.asked <= work'.asked /\ work'.asked <= catalog'
      <4>1. u = t
        BY <1>2, <3>4, GathersAlone DEF Queried
      <4>2. CASE Query(t)
        <5>1. work'.asked = IF t = Background THEN catalog ELSE snap.asked
          BY <4>2 DEF Query, TypeOK, Works
        <5>2. catalog' = catalog
          BY <4>2 DEF Query
        <5>3. QED
          BY <1>0, <3>1, <5>1, <5>2 DEF AskedInOrder
      <4>3. CASE ~Query(t)
        <5>1. Queried(t) /\ work'.asked = work.asked
          BY <1>2, <3>4, <4>1, <4>3 DEF Gathers, LoadFacts, Observe, Verify, CompileFails,
             PublishPolicy, PolicyTimesOut, Goes, TryAgain, Failed, Move, Queried, TypeOK, Works
        <5>2. QED
          BY <1>0, <3>1, <5>1, Rising DEF AskedInOrder
      <4>4. QED
        BY <4>2, <4>3
    <3>5. QED
      BY <2>2, <3>2, <3>3, <3>4, StepKinds
  <2>3. QED
    BY <2>1, <2>2
<1>3. QED
  BY <1>1, <1>2 DEF AskedInOrder

(* A request never sees an older revision, another content of the same      *)
(* revision or older model facts than an earlier request, whichever tasks   *)
(* reload and even though the database may be restored.                     *)
THEOREM SnapshotNeverFalls == Spec => PublishedNeverFalls
<1> DEFINE Inv == TypeOK /\ OneHolder /\ HandlesAgree /\ AskedInOrder
<1>1. Init => Inv
  BY InitType, PolicyInit, TaskNames, StageNames
     DEF Init, AskedInOrder, Queried
<1>2. Inv /\ [Next]_vars => Inv'
  BY TypeStep, HolderStep, HandlesStep, AskedStep
<1>3. ASSUME Inv, [Next]_vars
      PROVE  /\ snap'.rev >= snap.rev
             /\ snap'.rev = snap.rev => snap'.limits = snap.limits
             /\ snap'.asked >= snap.asked
  <2>1. snap.rev \in Nat /\ snap.asked \in Nat /\ work.rev \in Nat /\ work.asked \in Nat
    BY <1>3, Constants DEF TypeOK, Revisions, Catalogs, Snapshots, Works
  <2>2. CASE UNCHANGED <<snap, conc>> \/ SuspendBoth
    BY <1>3, <2>1, <2>2 DEF SuspendBoth, TypeOK, Snapshots
  <2>3. ASSUME NEW t \in Tasks, Apply(t), Publishable, Published
        PROVE  /\ snap'.rev >= snap.rev
               /\ snap'.rev = snap.rev => snap'.limits = snap.limits
               /\ snap'.asked >= snap.asked
    <3>1. snap.asked <= work.asked
      BY <1>3, <2>3 DEF AskedInOrder, Queried, Apply, Publishable
    <3>2. QED
      BY <1>3, <2>1, <2>3, <3>1 DEF Publishable, Published, HandlesAgree
  <2>4. QED
    BY <1>3, <2>2, <2>3, HandleSteps
<1>4. QED
  BY <1>1, <1>2, <1>3, PTL DEF Spec, PublishedNeverFalls

-----------------------------------------------------------------------------
(* A suspension during a refresh is seen when it ends.                      *)

Ready(t) ==
    stage[t] \in {"observe", "query", "verify", "policy"} \/ (stage[t] = "apply" /\ work.ok)

FencedWhenOld == \A t \in Tasks : Ready(t) /\ work.old => work.fenced

LEMMA FencedStep == TypeOK /\ OneHolder /\ FencedWhenOld /\ [Next]_vars => FencedWhenOld'
<1> SUFFICES ASSUME TypeOK, OneHolder, FencedWhenOld, [Next]_vars,
                    NEW t \in Tasks, Ready(t)', work'.old
             PROVE  work'.fenced
  BY DEF FencedWhenOld
<1> USE StageNames
<1>1. CASE Aside
  BY <1>1 DEF Aside, SameWork, Ready, FencedWhenOld
<1>2. CASE Between
  BY <1>2 DEF Between, Ready
<1>3. CASE Suspend
  <2>1. Locked
    BY <1>3 DEF Suspend, Locked, Ready
  <2>2. QED
    BY <1>3, <2>1 DEF Suspend, TypeOK, Works
<1>4. ASSUME NEW u \in Tasks, Gathers(u) PROVE work'.fenced
  <2>1. u = t
    BY <1>4, GathersAlone DEF Ready
  <2>2. ~LoadFacts(t)
    BY DEF LoadFacts, TypeOK, Works
  <2>3. Ready(t) /\ work'.old = work.old /\ work'.fenced = work.fenced
    BY <1>4, <2>1, <2>2 DEF Gathers, Observe, Query, Verify, CompileFails, PublishPolicy,
           PolicyTimesOut, Goes, TryAgain, Failed, Move, Ready, TypeOK, Works
  <2>4. QED
    BY <2>3 DEF FencedWhenOld
<1>5. QED
  BY <1>1, <1>2, <1>3, <1>4, StepKinds

(* Only a configuration loaded after the suspension lifts it: a refresh     *)
(* that was under way does not.                                             *)
THEOREM SuspensionStands == Spec => SuspensionHolds
<1> DEFINE Inv == TypeOK /\ OneHolder /\ FencedWhenOld
<1>1. Init => Inv
  BY InitType, PolicyInit, TaskNames DEF Init, FencedWhenOld, Ready
<1>2. Inv /\ [Next]_vars => Inv'
  BY TypeStep, HolderStep, FencedStep
<1>3. ASSUME Inv, [Next]_vars PROVE Suspended /\ ~Suspended' => ~work.old
  <2>1. CASE UNCHANGED <<snap, conc>> \/ SuspendBoth
    BY <1>3, <2>1 DEF SuspendBoth, Suspended, TypeOK, Snapshots, Concurrencies
  <2>2. ASSUME NEW t \in Tasks, Apply(t), ~work.fenced, Publishable PROVE ~work.old
    BY <1>3, <2>2 DEF Apply, Publishable, FencedWhenOld, Ready
  <2>3. QED
    BY <1>3, <2>1, <2>2, HandleSteps
<1>4. QED
  BY <1>1, <1>2, <1>3, PTL DEF Spec, SuspensionHolds

-----------------------------------------------------------------------------
(* What a refresh has loaded covers every commit it answers for.            *)

(* Revision r with content l is at or beyond revision n of history h. *)
Covers(h, r, l, n) == r > n \/ (r = n /\ l = h[n])

(* How the history and what was promised of it change. *)
Grows == /\ \E l \in Limits : log' = Append(log, l)
         /\ served' = served
         /\ \A c \in Commits :
              \/ mine'[c] = mine[c]
              \/ mine'[c] = Len(log) + 1 /\ stage'[c] \notin Holding
Shrinks(k) == /\ log' = SubSeq(log, 1, k)
              /\ \A c \in Commits : mine'[c] = IF mine[c] > k THEN 0 ELSE mine[c]
              /\ served' = IF served > k THEN k ELSE served
Forgets == /\ UNCHANGED <<log, served>>
           /\ \A c \in Commits : mine'[c] \in {0, mine[c]}

LEMMA HistorySteps ==
    ASSUME TypeOK, [Next]_vars
    PROVE  \/ Grows \/ Forgets
           \/ \E k \in 1 .. Len(log) - 1 : Shrinks(k)
           \/ \E t \in Tasks : Apply(t)
<1> USE TaskNames, StageNames
<1>1. CASE UNCHANGED <<log, served, mine>>
  BY <1>1 DEF Forgets
<1>2. ASSUME NEW c \in Commits,
             Commit(c) \/ PublishCommitted(c) \/ Notify(c) \/ DropCommit(c)
      PROVE Grows \/ Forgets
  <2>1. CASE Commit(c)
    BY <2>1 DEF Commit, Move, Grows, TypeOK
  <2>2. CASE PublishCommitted(c)
    BY <1>1, <2>2 DEF PublishCommitted, Forgets
  <2>3. CASE Notify(c) \/ DropCommit(c)
    BY <2>3 DEF Notify, DropCommit, Forgets, TypeOK
  <2>4. QED
    BY <1>2, <2>1, <2>2, <2>3
<1>3. CASE Notified \/ \E t \in Committed : LockCommitted(t)
  BY <1>1, <1>3 DEF Notified, LockCommitted
<1>4. CASE Reconcile \/ ReadRevisionFails
  BY <1>1, <1>4 DEF Reconcile, ReconcileStarts, LockBackground, ReadRevision, ReadRevisionFails,
                    Preempted
<1>5. ASSUME NEW t \in Tasks, RefreshStep(t) \/ CompileFails(t) \/ PolicyTimesOut(t)
      PROVE UNCHANGED <<log, served, mine>> \/ Apply(t)
  BY <1>5 DEF RefreshStep, LoadFacts, Observe, Query, Verify, CompileFails, PolicyTimesOut,
              PublishPolicy
<1>6. CASE RemoteCommit
  BY <1>6 DEF RemoteCommit, Grows
<1>7. CASE Restore
  BY <1>7 DEF Restore, Shrinks
<1>8. CASE Suspend \/ CatalogChanges \/ UNCHANGED vars \/ \E r \in late : LatePolicy(r)
  BY <1>1, <1>8 DEF Suspend, CatalogChanges, LatePolicy, vars
<1>9. QED
  BY <1>1, <1>2, <1>3, <1>4, <1>5, <1>6, <1>7, <1>8 DEF Next

InHistory ==
    /\ served <= Len(log)
    /\ \A c \in Commits : mine[c] <= Len(log)

LEMMA HistoryTypes ==
    ASSUME TypeOK
    PROVE  /\ log \in Seq(Limits) /\ Len(log) \in Nat \ {0} /\ served \in Nat \ {0}
           /\ \A c \in Commits : mine[c] \in Nat
           /\ snap.rev \in Nat /\ conc.rev \in Nat /\ work.rev \in Nat
  BY Constants DEF TypeOK, Revisions, Snapshots, Concurrencies, Works

LEMMA InHistoryStep == TypeOK /\ InHistory /\ [Next]_vars => InHistory'
<1> SUFFICES ASSUME TypeOK, InHistory, [Next]_vars PROVE InHistory'
  OBVIOUS
<1> USE HistoryTypes DEF InHistory
<1>1. CASE Grows
  <2>1. Len(log') = Len(log) + 1
    BY <1>1 DEF Grows
  <2>2. QED
    BY <1>1, <2>1 DEF Grows
<1>2. CASE Forgets
  BY <1>2 DEF Forgets
<1>3. ASSUME NEW k \in 1 .. Len(log) - 1, Shrinks(k) PROVE InHistory'
  <2>1. Len(log') = k
    BY <1>3 DEF Shrinks
  <2>2. QED
    BY <1>3, <2>1 DEF Shrinks
<1>4. ASSUME NEW t \in Tasks, Apply(t) PROVE InHistory'
  BY <1>4 DEF Apply, Refreshed, Maximum
<1>5. QED
  BY <1>1, <1>2, <1>3, <1>4, HistorySteps

(* What covers a revision of the history covers what is left of it. *)
LEMMA CoversStays ==
    ASSUME TypeOK, [Next]_vars, NEW n \in 1 .. Len(log), NEW r \in Nat, NEW l,
           Covers(log, r, l, n), ~\E t \in Tasks : Apply(t)
    PROVE  /\ (Grows \/ Forgets) => Covers(log', r, l, n)
           /\ \A k \in 1 .. Len(log) - 1 : Shrinks(k) =>
                Covers(log', r, l, IF n > k THEN k ELSE n)
<1> USE HistoryTypes DEF Covers
<1>1. CASE Grows
  <2>1. log'[n] = log[n]
    BY <1>1 DEF Grows
  <2>2. QED
    BY <2>1
<1>2. CASE Forgets
  BY <1>2 DEF Forgets
<1>3. ASSUME NEW k \in 1 .. Len(log) - 1, Shrinks(k)
      PROVE Covers(log', r, l, IF n > k THEN k ELSE n)
  <2>1. n <= k => log'[n] = log[n]
    BY <1>3 DEF Shrinks
  <2>2. QED
    BY <2>1
<1>4. QED
  BY <1>1, <1>2, <1>3

LoadedCovers ==
    \A t \in Tasks : Ready(t) =>
        /\ Covers(log, work.rev, work.limits, served)
        /\ t \in Commits /\ mine[t] > 0 => Covers(log, work.rev, work.limits, mine[t])

LEMMA LoadedStep ==
    TypeOK /\ OneHolder /\ InHistory /\ LoadedCovers /\ [Next]_vars => LoadedCovers'
<1> SUFFICES ASSUME TypeOK, OneHolder, InHistory, LoadedCovers, [Next]_vars,
                    NEW t \in Tasks, Ready(t)'
             PROVE  /\ Covers(log', work'.rev, work'.limits, served')
                    /\ t \in Commits /\ mine'[t] > 0 =>
                         Covers(log', work'.rev, work'.limits, mine'[t])
  BY DEF LoadedCovers
<1> USE StageNames
<1>1. ~Between /\ stage'[t] \in Holding
  BY DEF Between, Ready
<1>2. ~\E u \in Tasks : Apply(u)
  BY <1>1, AppliesBetween
<1>3. CASE LoadFacts(t)
  <2>1. /\ work'.rev = Len(log) /\ work'.limits = log[Len(log)]
        /\ log' = log /\ served' = served /\ mine' = mine
    BY <1>3 DEF LoadFacts, TypeOK, Works
  <2>2. QED
    BY <2>1, HistoryTypes DEF InHistory, Covers
<1>4. ASSUME ~LoadFacts(t)
      PROVE  Ready(t) /\ work'.rev = work.rev /\ work'.limits = work.limits
  <2>1. CASE Aside
    BY <1>1, <2>1 DEF Aside, SameWork, Ready
  <2>2. CASE Suspend
    BY <2>2 DEF Suspend, Ready, TypeOK, Works
  <2>3. ASSUME NEW u \in Tasks, Gathers(u)
        PROVE  Ready(t) /\ work'.rev = work.rev /\ work'.limits = work.limits
    <3>1. u = t
      BY <1>1, <2>3, GathersAlone
    <3>2. QED
      BY <1>4, <2>3, <3>1 DEF Gathers, Observe, Query, Verify, CompileFails, PublishPolicy,
             PolicyTimesOut, Goes, TryAgain, Failed, Move, Ready, TypeOK, Works
  <2>4. QED
    BY <1>1, <2>1, <2>2, <2>3, StepKinds
<1>5. CASE ~LoadFacts(t)
  <2>1. Covers(log', work'.rev, work'.limits, served')
    <3>1. served \in 1 .. Len(log) /\ work.rev \in Nat
      BY HistoryTypes DEF InHistory
    <3>2. Covers(log, work.rev, work.limits, served)
      BY <1>4, <1>5 DEF LoadedCovers
    <3>3. /\ (Grows \/ Forgets) => Covers(log', work.rev, work.limits, served)
          /\ \A k \in 1 .. Len(log) - 1 : Shrinks(k) =>
               Covers(log', work.rev, work.limits, IF served > k THEN k ELSE served)
      BY <1>2, <3>1, <3>2, CoversStays
    <3>4. QED
      BY <1>2, <1>4, <1>5, <3>3, HistorySteps DEF Grows, Forgets, Shrinks
  <2>2. ASSUME t \in Commits, mine'[t] > 0
        PROVE Covers(log', work'.rev, work'.limits, mine'[t])
    <3>1. /\ mine'[t] = mine[t]
          /\ \A k \in 1 .. Len(log) - 1 : Shrinks(k) => ~(mine[t] > k)
      BY <1>1, <1>2, <2>2, HistorySteps, HistoryTypes DEF Grows, Forgets, Shrinks
    <3>2. mine[t] \in 1 .. Len(log) /\ work.rev \in Nat
      BY <2>2, <3>1, HistoryTypes DEF InHistory
    <3>3. Covers(log, work.rev, work.limits, mine[t])
      BY <1>4, <1>5, <2>2, <3>1 DEF LoadedCovers
    <3>4. /\ (Grows \/ Forgets) => Covers(log', work.rev, work.limits, mine[t])
          /\ \A k \in 1 .. Len(log) - 1 : Shrinks(k) =>
               Covers(log', work.rev, work.limits, IF mine[t] > k THEN k ELSE mine[t])
      BY <1>2, <3>2, <3>3, CoversStays
    <3>5. QED
      BY <1>2, <1>4, <1>5, <3>1, <3>4, HistorySteps
  <2>3. QED
    BY <2>1, <2>2
<1>6. QED
  BY <1>3, <1>5

(* The fence has changed only when the handles are suspended, and the       *)
(* refresh of a commit suspends them when it does not publish.              *)
Suspending ==
    /\ work.fenced => Suspended
    /\ \A t \in Committed : stage[t] \in Holding => work.suspends

LEMMA FenceSteps ==
    ASSUME TypeOK, [Next]_vars, ~Suspend
    PROVE  work'.fenced => work.fenced
<1> USE NoWorkType DEF TypeOK, Works
<1>1. CASE UNCHANGED work
  BY <1>1
<1>2. ASSUME NEW c \in Commits,
             Commit(c) \/ PublishCommitted(c) \/ Notify(c) \/ DropCommit(c)
      PROVE work'.fenced => work.fenced
  BY <1>2 DEF Commit, PublishCommitted, BeginCommitted, Notify, DropCommit
<1>3. CASE Notified \/ \E t \in Committed : LockCommitted(t)
  BY <1>3 DEF Notified, BeginCommitted, LockCommitted, StartRefresh
<1>4. CASE Reconcile \/ ReadRevisionFails
  BY <1>4 DEF Reconcile, ReconcileStarts, LockBackground, ReadRevision, ReadRevisionFails,
              Preempted, StartRefresh, Done
<1>5. ASSUME NEW t \in Tasks, RefreshStep(t) \/ CompileFails(t) \/ PolicyTimesOut(t)
      PROVE work'.fenced => work.fenced
  BY <1>5 DEF RefreshStep, LoadFacts, Observe, Query, Verify, CompileFails, PolicyTimesOut,
              PublishPolicy, Apply, TryAgain, Failed, Done
<1>6. CASE Restore \/ RemoteCommit \/ CatalogChanges \/ UNCHANGED vars \/ \E r \in late : LatePolicy(r)
  BY <1>1, <1>6 DEF Restore, RemoteCommit, CatalogChanges, LatePolicy, vars
<1>7. QED
  BY <1>2, <1>3, <1>4, <1>5, <1>6 DEF Next

LEMMA SuspendingStep == TypeOK /\ OneHolder /\ Suspending /\ [Next]_vars => Suspending'
<1> SUFFICES ASSUME TypeOK, OneHolder, Suspending, [Next]_vars PROVE Suspending'
  OBVIOUS
<1> USE StageNames, TaskNames
<1>1. work'.fenced => Suspended'
  <2>1. CASE SuspendBoth
    BY <2>1 DEF SuspendBoth, Suspended, TypeOK, Snapshots, Concurrencies
  <2>2. ASSUME NEW t \in Tasks, Apply(t) PROVE ~work'.fenced
    BY <2>2, NoWorkType DEF Apply, Done
  <2>3. CASE UNCHANGED <<snap, conc>>
    <3>1. CASE Suspend
      BY <2>1, <3>1 DEF Suspend
    <3>2. CASE ~Suspend
      <4>1. work'.fenced => work.fenced
        BY <3>2, FenceSteps
      <4>2. QED
        BY <2>3, <4>1 DEF Suspending, Suspended
    <3>3. QED
      BY <3>1, <3>2
  <2>4. QED
    BY <2>1, <2>2, <2>3, HandleSteps
<1>2. ASSUME NEW t \in Committed, stage'[t] \in Holding PROVE work'.suspends
  <2>1. CASE Aside
    BY <1>2, <2>1 DEF Aside, SameWork, Suspending
  <2>2. CASE Between
    BY <1>2, <2>2 DEF Between
  <2>3. CASE Suspend
    BY <1>2, <2>3 DEF Suspend, Suspending, TypeOK, Works
  <2>4. ASSUME NEW u \in Tasks, Gathers(u) PROVE work'.suspends
    <3>1. u = t /\ stage[t] \in Holding
      BY <1>2, <2>4, GathersAlone
    <3>2. work'.suspends = work.suspends
      <4>0. work \in Works
        BY DEF TypeOK
      <4> USE <4>0 DEF Works
      <4>1. CASE LoadFacts(u)
        BY <4>1 DEF LoadFacts
      <4>2. CASE Query(u)
        BY <4>2 DEF Query
      <4>3. CASE PublishPolicy(u)
        BY <4>3 DEF PublishPolicy
      <4>4. CASE Failed(u)
        BY <4>4 DEF Failed
      <4>5. CASE TryAgain(u)
        BY <4>4, <4>5 DEF TryAgain
      <4>6. CASE Observe(u)
        BY <4>5, <4>6 DEF Observe
      <4>7. CASE Verify(u)
        BY <4>5, <4>7 DEF Verify
      <4>8. QED
        BY <2>4, <4>1, <4>2, <4>3, <4>4, <4>6, <4>7 DEF Gathers, CompileFails, PolicyTimesOut
    <3>3. QED
      BY <3>1, <3>2 DEF Suspending
  <2>5. QED
    BY <2>1, <2>2, <2>3, <2>4, StepKinds
<1>3. QED
  BY <1>1, <1>2 DEF Suspending

LEMMA ServedStep ==
    TypeOK /\ OneHolder /\ InHistory /\ LoadedCovers /\ Suspending /\ CommittedIsServed
    /\ [Next]_vars => CommittedIsServed'
<1> SUFFICES ASSUME TypeOK, OneHolder, InHistory, LoadedCovers, Suspending, CommittedIsServed,
                    [Next]_vars, ~Suspended'
             PROVE  Covers(log', snap'.rev, snap'.limits, served')
  BY DEF CommittedIsServed, Covers
<1> USE TaskNames, StageNames
<1>1. ASSUME NEW t \in Tasks, Apply(t)
      PROVE Covers(log', snap'.rev, snap'.limits, served')
  <2>1. stage[t] \in Holding /\ log' = log /\ mine' = mine /\ Refreshed(t) /\ ~SuspendBoth
    BY <1>1 DEF Apply, SuspendBoth, Suspended, TypeOK, Snapshots, Concurrencies
  <2>2. CASE ~work.fenced /\ Publishable
    <3>1. snap'.rev = work.rev /\ snap'.limits = work.limits /\ Ready(t)
      BY <1>1, <2>2 DEF Apply, Published, Publishable, Ready
    <3>2. QED
      <4>1. Covers(log, work.rev, work.limits, served)
        BY <3>1 DEF LoadedCovers
      <4>2. CASE t \in Commits /\ mine[t] > served
        <5>1. served' = mine[t] /\ mine[t] > 0
          BY <2>1, <4>2, HistoryTypes DEF Refreshed, Maximum
        <5>2. QED
          BY <2>1, <3>1, <4>2, <5>1 DEF LoadedCovers
      <4>3. CASE ~(t \in Commits /\ mine[t] > served)
        <5>1. served' = served
          BY <2>1, <4>3, HistoryTypes DEF Refreshed, Maximum
        <5>2. QED
          BY <2>1, <3>1, <4>1, <5>1
      <4>4. QED
        BY <4>2, <4>3
  <2>3. CASE ~(~work.fenced /\ Publishable)
    <3>1. UNCHANGED <<snap, conc>> /\ ~Suspended
      BY <1>1, <2>1, <2>3 DEF Apply, Suspended
    <3>2. ~work.fenced /\ t \notin Committed
      BY <1>1, <2>1, <2>3, <3>1 DEF Suspending, Apply
    <3>3. served' = served
      BY <2>1, <3>2 DEF Refreshed
    <3>4. QED
      BY <2>1, <3>1, <3>3 DEF CommittedIsServed, Covers
  <2>4. QED
    BY <2>2, <2>3
<1>2. CASE ~\E t \in Tasks : Apply(t)
  <2>1. UNCHANGED <<snap, conc>> /\ ~Suspended
    BY <1>2, HandleSteps DEF SuspendBoth, Suspended, TypeOK, Snapshots, Concurrencies
  <2>2. served \in 1 .. Len(log) /\ snap.rev \in Nat /\ Covers(log, snap.rev, snap.limits, served)
    BY <2>1, HistoryTypes DEF InHistory, CommittedIsServed, Covers
  <2>3. /\ (Grows \/ Forgets) => Covers(log', snap.rev, snap.limits, served)
        /\ \A k \in 1 .. Len(log) - 1 : Shrinks(k) =>
             Covers(log', snap.rev, snap.limits, IF served > k THEN k ELSE served)
    BY <1>2, <2>2, CoversStays
  <2>4. QED
    BY <1>2, <2>1, <2>3, HistorySteps DEF Grows, Forgets, Shrinks
<1>3. QED
  BY <1>1, <1>2

(* Once publish_committed has refreshed, the commit or a later one is what  *)
(* requests freeze, or the snapshot is suspended.                           *)
THEOREM CommitServed == Spec => []CommittedIsServed
<1> DEFINE Inv == TypeOK /\ OneHolder /\ InHistory /\ LoadedCovers /\ Suspending /\ CommittedIsServed
<1>1. Init => Inv
  <2> SUFFICES ASSUME Init PROVE Inv
    OBVIOUS
  <2>1. Len(log) = 1
    BY DEF Init
  <2>2. CommittedIsServed /\ LoadedCovers
    BY TaskNames DEF Init, CommittedIsServed, LoadedCovers, Ready
  <2>3. Suspending
    BY TaskNames, StageNames, NoWorkType DEF Init, Suspending
  <2>4. QED
    BY <2>1, <2>2, <2>3, InitType, PolicyInit DEF Init, InHistory
<1>2. Inv /\ [Next]_vars => Inv'
  BY TypeStep, HolderStep, InHistoryStep, LoadedStep, SuspendingStep, ServedStep
<1>3. QED
  BY <1>1, <1>2, PTL DEF Spec
=============================================================================
