--------------------------- MODULE Services_proofs ---------------------------
(***************************************************************************)
(* Proofs about the services around the engine: blobs and their collector  *)
(* (BlobStore), the schedule dispatcher (Schedules, here as the instance   *)
(* Sch), the model registry (Providers, as the instance P), the logins at  *)
(* MCP servers (McpLogin, as the instance L) and the connections and tools *)
(* of the steps that call them (Mcp, as the instance M).                   *)
(***************************************************************************)
EXTENDS BlobStore, Sequences, FiniteSetTheorems, WellFoundedInduction, TLAPS

CONSTANTS ScheduleIds, Daemons, SkipIds, Interval, MaxTime, MaxVerbs,
          ProviderIds, OAuth, Procs, Daemon, Clients, Genuine, MaxNonces, MaxGrants,
          Steps, Nodes, ConnIds, Creds, Listings, Gates, Registry
VARIABLES clock, schedules, cause, pausedBy, broken, runs, disp, failures, verbs,
          creds, configs, flight, edit, backoff, registry, written, held, stamped, tied,
          row, login, nonce, grant, expired, copy, shown, completed, code,
          conn, pool, connecting, step, releases, shutDown, cred, listing

Sch == INSTANCE Schedules WITH Ids <- ScheduleIds, rows <- schedules, faults <- failures

P == INSTANCE Providers WITH Ids <- ProviderIds, faults <- failures

L == INSTANCE McpLogin

M == INSTANCE Mcp WITH Ids <- ConnIds

----------------------------------------------------------------------------
(* Blobs.                                                                  *)

IInv == TypeOK /\ ContentSafe

-----------------------------------------------------------------------------
\* A referenced blob is one of the blobs.
LEMMA ReferencedType == TypeOK => Referenced \subseteq Shas
  BY DEF TypeOK, Referenced

\* What a pass picks within its limit leaves a budget.
LEMMA BudgetType ==
    ASSUME NEW S \in SUBSET Shas, Cardinality(S) <= Limit
    PROVE  Limit - Cardinality(S) \in 0 .. Limit
<1>1. Cardinality(S) \in Nat
  BY BlobAssumption, FS_Subset, FS_CardinalityType
<1> QED BY <1>1, BlobAssumption

\* Deleting files and putting one keep the type of files.
LEMMA FilesType ==
    ASSUME TypeOK
    PROVE  /\ \A S : Delete(S) => files' \in [Shas -> {"absent", "fresh", "old"}]
           /\ \A s \in Shas : Put(s) => /\ files' \in [Shas -> {"absent", "fresh", "old"}]
                                       /\ forfeited' \subseteq Shas
  BY DEF TypeOK, Delete, Put

\* The initial state satisfies the invariant.
LEMMA InitIInv == Init => IInv
<1> SUFFICES ASSUME Init PROVE IInv
  OBVIOUS
<1>1. TypeOK
  BY BlobAssumption DEF Init, TypeOK
<1>2. Referenced = {}
  BY DEF Init, Referenced
<1> QED BY <1>1, <1>2 DEF IInv, ContentSafe

-----------------------------------------------------------------------------
(* Types.                                                                  *)

\* A writer's steps keep the types.
LEMMA WriterTypeOK ==
    ASSUME TypeOK, NEW w \in Writers,
           \/ \E o \in Ops : BeginWrite(w, o)
           \/ FinishWrite(w) \/ ReputFails(w) \/ WriterLost(w)
    PROVE  TypeOK'
<1> USE DEF db, gc, bound, Become, EndWrite
<1>0. wpc[w] # "idle" => op[w] \in Ops /\ op[w].sha \in Shas /\ op[w].scope \in Scopes
  BY DEF TypeOK, Ops
<1>1. ASSUME NEW o \in Ops, BeginWrite(w, o) PROVE TypeOK'
  <2>1. o.sha \in Shas
    BY DEF Ops
  <2>2. files' \in [Shas -> {"absent", "fresh", "old"}] /\ forfeited' \subseteq Shas
    BY <1>1, <2>1, FilesType DEF BeginWrite
  <2> QED BY <1>1, <2>2 DEF BeginWrite, TypeOK
<1>2. CASE Commit(w)
  <2>1. artifacts' \in [Scopes -> Shas \union {None}] /\ roots' \subseteq Shas
    BY <1>0, <1>2 DEF Commit, Reference, TypeOK
  <2>2. rows' \subseteq Shas
    BY <1>0, <1>2 DEF Commit, TypeOK
  <2> QED BY <1>2, <2>1, <2>2 DEF Commit, TypeOK
<1>3. CASE CommitFails(w)
  BY <1>3 DEF CommitFails, TypeOK
<1>4. CASE ReputBlobs(w)
  <2>1. files' \in [Shas -> {"absent", "fresh", "old"}] /\ forfeited' \subseteq Shas
    BY <1>0, <1>4, FilesType DEF ReputBlobs
  <2> QED BY <1>4, <2>1 DEF ReputBlobs, TypeOK
<1>5. CASE ReapCheck(w)
  BY <1>5 DEF ReapCheck, TypeOK
<1>6. CASE ReapDelete(w)
  <2>1. files' \in [Shas -> {"absent", "fresh", "old"}]
    BY <1>6, FilesType DEF ReapDelete
  <2>2. forfeited' \subseteq Shas
    BY <1>0, <1>6 DEF ReapDelete, TypeOK
  <2> QED BY <1>6, <2>1, <2>2 DEF ReapDelete, TypeOK
<1>7. CASE ReputFails(w)
  BY <1>0, <1>7 DEF ReputFails, TypeOK
<1>8. CASE WriterLost(w)
  BY <1>0, <1>8 DEF WriterLost, TypeOK
<1> QED BY <1>1, <1>2, <1>3, <1>4, <1>5, <1>6, <1>7, <1>8 DEF FinishWrite

\* A sweeper's steps keep the types.
LEMMA SweeperTypeOK ==
    ASSUME TypeOK, NEW g \in Sweepers, Sweep(g) \/ \E S \in SUBSET Shas : SweeperLost(g, S)
    PROVE  TypeOK'
<1> USE DEF db, gc, bound
<1>1. ASSUME NEW S \in SUBSET Shas, GcRows(g, S) PROVE TypeOK'
  <2>1. files' \in [Shas -> {"absent", "fresh", "old"}]
    BY <1>1, FilesType DEF GcRows
  <2>2. Limit - Cardinality(S) \in 0 .. Limit
    BY <1>1, BudgetType DEF GcRows, Picks
  <2> QED BY <1>1, <2>1, <2>2 DEF GcRows, TypeOK
<1>2. ASSUME NEW S \in SUBSET Shas, GcWalk(g, S) PROVE TypeOK'
  BY <1>2, BlobAssumption DEF GcWalk, TypeOK
<1>3. CASE GcFiles(g)
  <2>1. files' \in [Shas -> {"absent", "fresh", "old"}]
    BY <1>3, FilesType DEF GcFiles
  <2> QED BY <1>3, <2>1 DEF GcFiles, TypeOK
<1>4. ASSUME NEW S \in SUBSET Shas, SweeperLost(g, S) PROVE TypeOK'
  <2>1. files' \in [Shas -> {"absent", "fresh", "old"}]
    BY <1>4, FilesType DEF SweeperLost
  <2> QED BY <1>4, <2>1 DEF SweeperLost, TypeOK
<1> QED BY <1>1, <1>2, <1>3, <1>4 DEF Sweep

\* Every step keeps the types.
LEMMA NextTypeOK == TypeOK /\ [Next]_vars => TypeOK'
<1> SUFFICES ASSUME TypeOK, [Next]_vars PROVE TypeOK'
  OBVIOUS
<1>1. ASSUME NEW s \in Shas, Age(s) PROVE TypeOK'
  BY <1>1 DEF Age, TypeOK, db, gc, bound
<1>2. CASE UNCHANGED vars
  BY <1>2 DEF vars, db, gc, bound, TypeOK
<1> QED BY <1>1, <1>2, WriterTypeOK, SweeperTypeOK DEF Next

-----------------------------------------------------------------------------
(* Content.                                                                *)

\* A step that adds no reference, drops no row that is referenced, unlinks no
\* file that is, and settles no debt unpaid, keeps every content safe.
LEMMA NothingLost ==
    ASSUME ContentSafe,
           Referenced' \subseteq Referenced,
           \A s \in Referenced : s \in rows => s \in rows',
           \A s \in Referenced : files[s] # "absent" => files'[s] # "absent" \/ s \in forfeited',
           \A s \in Referenced : s \in forfeited => s \in forfeited' \/ files'[s] # "absent",
           \A s \in Referenced : Owed(s) => Owed(s)' \/ s \in forfeited' \/ files'[s] # "absent"
    PROVE  ContentSafe'
  BY DEF ContentSafe

\* Putting a file leaves every other file alone and is never a loss.
LEMMA PutKeeps ==
    ASSUME TypeOK, NEW s \in Shas, Put(s)
    PROVE  /\ files'[s] # "absent"
           /\ \A t \in Shas : files[t] # "absent" => files'[t] # "absent"
           /\ \A t \in Shas : t \in forfeited => t \in forfeited' \/ files'[t] # "absent"
  BY DEF TypeOK, Put

\* A writer's steps keep every content safe.
LEMMA WriterContentSafe ==
    ASSUME IInv, NEW w \in Writers,
           \/ \E o \in Ops : BeginWrite(w, o)
           \/ FinishWrite(w) \/ ReputFails(w) \/ WriterLost(w)
    PROVE  ContentSafe'
<1> USE DEF IInv
<1>0. wpc[w] # "idle" => op[w].sha \in Shas /\ op[w].scope \in Scopes
  BY DEF TypeOK, Ops
<1>a. Referenced \subseteq Shas
  BY ReferencedType
<1>b. ASSUME UNCHANGED db PROVE Referenced' = Referenced /\ rows' = rows
  BY <1>b DEF db, Referenced
<1>c. ASSUME NEW s, Owed(s), wpc[w] # "reput" \/ op[w].sha # s, NEW p, NEW o, Become(w, p, o)
      PROVE  Owed(s)'
  BY <1>c DEF Become, Owed, TypeOK
<1>1. ASSUME NEW o \in Ops, BeginWrite(w, o) PROVE ContentSafe'
  <2>1. o.sha \in Shas /\ Put(o.sha) /\ UNCHANGED db
    BY <1>1 DEF BeginWrite, Ops
  <2>2. \A s : Owed(s) => Owed(s)'
    BY <1>1, <1>c DEF BeginWrite
  <2> QED BY <1>a, <1>b, <2>1, <2>2, PutKeeps, NothingLost
<1>2. CASE Commit(w)
  <2>0. PICK s0 : s0 = op[w].sha
    OBVIOUS
  <2>1. Referenced' \subseteq Referenced \union {s0}
    BY <1>0, <1>2, <2>0 DEF Commit, Reference, Referenced, TypeOK
  <2>2. rows' = rows \union {s0} /\ UNCHANGED <<files, forfeited>>
    BY <1>2, <2>0 DEF Commit
  <2>3. Owed(s0)'
    BY <1>2, <2>0 DEF Commit, Become, Owed, TypeOK
  <2>4. \A s : Owed(s) => Owed(s)'
    BY <1>2, <1>c DEF Commit
  <2> QED BY <2>1, <2>2, <2>3, <2>4 DEF ContentSafe
<1>3. CASE CommitFails(w) \/ ReapCheck(w)
  <2>1. wpc[w] # "reput" /\ UNCHANGED <<files, db, forfeited>>
    BY <1>3 DEF CommitFails, ReapCheck
  <2>2. \E p, o : Become(w, p, o)
    BY <1>3 DEF CommitFails, ReapCheck, EndWrite
  <2> QED BY <1>b, <1>c, <2>1, <2>2, NothingLost
<1>4. CASE ReputBlobs(w)
  <2>1. op[w].sha \in Shas /\ Put(op[w].sha) /\ UNCHANGED db
    BY <1>0, <1>4 DEF ReputBlobs
  <2>2. Become(w, "idle", NoOp)
    BY <1>4 DEF ReputBlobs, EndWrite
  <2>3. \A s : Owed(s) => Owed(s)' \/ files'[s] # "absent"
    BY <1>c, <2>1, <2>2, PutKeeps
  <2> QED BY <1>a, <1>b, <2>1, <2>3, PutKeeps, NothingLost
<1>5. CASE ReapDelete(w)
  <2>1. UNCHANGED db /\ wpc[w] # "reput" /\ Become(w, "idle", NoOp)
    BY <1>5 DEF ReapDelete, EndWrite
  <2>2. \A s \in Shas : s # op[w].sha => files'[s] = files[s]
    BY <1>5 DEF ReapDelete, Delete
  <2>3. forfeited' = IF op[w].sha \in rows THEN forfeited \union {op[w].sha} ELSE forfeited
    BY <1>5 DEF ReapDelete
  <2>4. \A s \in Referenced : s \in rows
    BY DEF ContentSafe
  <2> QED BY <1>a, <1>b, <1>c, <2>1, <2>2, <2>3, <2>4, NothingLost
<1>6. CASE ReputFails(w) \/ WriterLost(w)
  <2>1. UNCHANGED <<files, db>> /\ Become(w, "idle", NoOp)
    BY <1>6 DEF ReputFails, WriterLost, EndWrite
  <2>2. /\ forfeited \subseteq forfeited'
        /\ wpc[w] = "reput" => op[w].sha \in forfeited'
    BY <1>6 DEF ReputFails, WriterLost
  <2>3. \A s : Owed(s) => Owed(s)' \/ s \in forfeited'
    BY <1>c, <2>1, <2>2
  <2> QED BY <1>b, <2>1, <2>2, <2>3, NothingLost
<1> QED BY <1>1, <1>2, <1>3, <1>4, <1>5, <1>6 DEF FinishWrite

\* A sweeper's steps do: under the lock an unreferenced row is unreferenced,
\* and a file without a row has no reference either.
LEMMA SweeperContentSafe ==
    ASSUME IInv, NEW g \in Sweepers, Sweep(g) \/ \E S \in SUBSET Shas : SweeperLost(g, S)
    PROVE  ContentSafe'
<1> USE DEF IInv
<1>a. Referenced \subseteq Shas /\ \A s \in Referenced : s \in rows
  BY ReferencedType DEF ContentSafe
<1>b. UNCHANGED <<artifacts, roots, wpc, op, forfeited>>
  BY DEF Sweep, GcRows, GcWalk, GcFiles, SweeperLost, db
<1>c. Referenced' = Referenced /\ \A s : Owed(s)' = Owed(s)
  BY <1>b DEF Referenced, Owed
<1>d. ASSUME NEW S, Delete(S), S \intersect Referenced = {}, NEW s \in Referenced
      PROVE  files'[s] = files[s]
  BY <1>a, <1>d DEF Delete
<1>1. ASSUME NEW S \in SUBSET Shas, GcRows(g, S) PROVE ContentSafe'
  <2>1. S \intersect Referenced = {} /\ rows' = rows \ S /\ Delete(S)
    BY <1>1 DEF GcRows, Picks, OrphanRows
  <2>2. \A s \in Referenced : files'[s] = files[s]
    BY <1>d, <2>1
  <2> QED BY <1>b, <1>c, <2>1, <2>2 DEF ContentSafe
<1>2. ASSUME NEW S \in SUBSET Shas, GcWalk(g, S) PROVE ContentSafe'
  BY <1>2, <1>b, <1>c DEF GcWalk, db, ContentSafe
<1>3. CASE GcFiles(g)
  <2>1. Delete(Deletable(g)) /\ rows' = rows /\ Deletable(g) \intersect Referenced = {}
    BY <1>3, <1>a DEF GcFiles, Deletable, db
  <2>2. \A s \in Referenced : files'[s] = files[s]
    BY <1>d, <2>1
  <2> QED BY <1>b, <1>c, <2>1, <2>2 DEF ContentSafe
<1>4. ASSUME NEW S \in SUBSET Shas, SweeperLost(g, S) PROVE ContentSafe'
  <2>1. Delete(S) /\ rows' = rows /\ S \intersect Referenced = {}
    BY <1>4, <1>a DEF SweeperLost, OrphanRows, Deletable, db
  <2>2. \A s \in Referenced : files'[s] = files[s]
    BY <1>d, <2>1
  <2> QED BY <1>b, <1>c, <2>1, <2>2 DEF ContentSafe
<1> QED BY <1>1, <1>2, <1>3, <1>4 DEF Sweep

\* Every step keeps every content safe.
LEMMA NextContentSafe == IInv /\ [Next]_vars => ContentSafe'
<1> SUFFICES ASSUME IInv, [Next]_vars PROVE ContentSafe'
  OBVIOUS
<1>1. ASSUME NEW t \in Shas, Age(t) PROVE ContentSafe'
  <2>1. UNCHANGED <<rows, artifacts, roots, wpc, op, forfeited>>
    BY <1>1 DEF Age, db
  <2>2. Referenced' = Referenced /\ \A s : Owed(s)' = Owed(s)
    BY <2>1 DEF Referenced, Owed
  <2>3. \A s \in Shas : files[s] # "absent" => files'[s] # "absent"
    BY <1>1 DEF Age, IInv, TypeOK
  <2> QED BY <2>1, <2>2, <2>3, ReferencedType, NothingLost DEF IInv
<1>2. CASE UNCHANGED vars
  <2>1. UNCHANGED <<rows, artifacts, roots, wpc, op, forfeited, files>>
    BY <1>2 DEF vars, db
  <2>2. Referenced' = Referenced /\ \A s : Owed(s)' = Owed(s)
    BY <2>1 DEF Referenced, Owed
  <2> QED BY <2>1, <2>2 DEF IInv, ContentSafe
<1> QED BY <1>1, <1>2, WriterContentSafe, SweeperContentSafe DEF Next

-----------------------------------------------------------------------------
\* The inductive invariant holds in every reachable state.
LEMMA Invariant == Spec => []IInv
<1>1. IInv /\ [Next]_vars => IInv'
  BY NextTypeOK, NextContentSafe DEF IInv
<1> QED BY <1>1, InitIInv, PTL DEF Spec

\* Every reachable state of BlobStore is well typed: no sweep overdraws its
\* limit and only blobs are collected or referenced.
THEOREM BlobsTypeCorrect == Spec => []TypeOK
<1>1. IInv => TypeOK
  BY DEF IInv
<1> QED BY <1>1, Invariant, PTL

\* However many writers and sweepers interleave, a referenced blob has its
\* row and its file, or its writer is about to put the file back, unless that
\* writer was lost or a failed import deleted the file.
THEOREM ContentSafeHolds == Spec => []ContentSafe
<1>1. IInv => ContentSafe
  BY DEF IInv
<1> QED BY <1>1, Invariant, PTL

\* A plain putArtifact never overwrites an artifact another writer committed
\* after the pre-read, for every number of writers and scopes.
THEOREM FirstWriterWinsHolds == Spec => FirstWriterWins
<1> DEFINE Overwrites(c, w) == /\ wpc[w] = "commit" /\ wpc'[w] = "reput"
                               /\ op[w].kind \in {"replace", "import"}
                               /\ op[w].scope = c
           A == \A c \in Scopes : artifacts[c] # None /\ artifacts'[c] # artifacts[c] =>
                    \E w \in Writers : Overwrites(c, w)
<1>1. TypeOK /\ [Next]_vars => [A]_vars
  <2> SUFFICES ASSUME TypeOK, Next, NEW c \in Scopes, artifacts[c] # None, artifacts'[c] # artifacts[c]
               PROVE  \E w \in Writers : Overwrites(c, w)
    OBVIOUS
  <2>1. PICK w \in Writers : Commit(w)
    BY DEF Next, Age, BeginWrite, FinishWrite, CommitFails, ReputBlobs, ReapCheck, ReapDelete,
           ReputFails, WriterLost, Sweep, GcRows, GcWalk, GcFiles, SweeperLost, db
  <2>2. op[w] \in Ops /\ wpc[w] = "commit" /\ wpc'[w] = "reput"
    BY <2>1 DEF Commit, Become, TypeOK
  <2>3. op[w].scope = c /\ op[w].kind # "spill" /\ artifacts'[c] = op[w].sha
    BY <2>1, <2>2 DEF Commit, Reference, TypeOK, Ops
  <2>4. op[w].kind # "artifact"
    BY <2>1, <2>3 DEF Commit, Reference
  <2>5. op[w].kind \in {"replace", "import"}
    BY <2>2, <2>3, <2>4, BlobAssumption DEF Ops, AllKinds
  <2> QED BY <2>2, <2>3, <2>5
<1>2. A = (\A c \in Scopes :
             artifacts[c] # None /\ artifacts'[c] # artifacts[c] =>
                 \E w \in Writers : /\ wpc[w] = "commit" /\ wpc'[w] = "reput"
                                    /\ op[w].kind \in {"replace", "import"}
                                    /\ op[w].scope = c)
  OBVIOUS
<1> QED BY <1>1, BlobsTypeCorrect, PTL DEF Spec, FirstWriterWins


----------------------------------------------------------------------------
(* The model registry: types.                                              *)

\* Providers sees the same sets of the standard module.
LEMMA SameFiniteSets ==
    ASSUME NEW X
    PROVE  (P!IsFiniteSet(X) <=> IsFiniteSet(X)) /\ P!Cardinality(X) = Cardinality(X)
<1>1. P!IsFiniteSet(X) <=> IsFiniteSet(X)
  BY Zenon DEF P!IsFiniteSet, IsFiniteSet
<1>2. P!Cardinality(X) = Cardinality(X)
  BY Zenon DEF P!Cardinality, Cardinality
<1> QED BY <1>1, <1>2

\* A definition is written after time 0, and no later than the newest was.
Stamped ==
    /\ stamped <= clock /\ 0 < clock
    /\ \A id \in P!Present(configs) : 0 < configs[id].at /\ configs[id].at <= stamped

\* A watermark is a time and a number; no row is newer, and no write is older.
LEMMA RevisionType ==
    ASSUME P!ProvidersAssumption, P!TypeOK, Stamped
    PROVE  /\ P!Revision \in P!Revisions
           /\ P!Revision.at <= stamped
           /\ \A id \in P!Present(configs) : configs[id].at <= P!Revision.at
<1> DEFINE A == {0} \union {configs[id].at : id \in P!Present(configs)}
           above == {b \in Nat : \A x \in A : x <= b}
<1>1. /\ A \subseteq Nat /\ stamped \in Nat
      /\ \A x \in A : x <= stamped
      /\ \A id \in P!Present(configs) : configs[id].at \in A
      /\ 0 \in A
  BY DEF P!TypeOK, P!Present, P!Configs, Stamped
<1>2. stamped \in above
  BY <1>1
<1>3. PICK m \in above : \A y \in above : ~(<<y, m>> \in OpToRel(<, Nat))
  <2> HIDE DEF above
  <2>1. above # {} /\ above \subseteq Nat
    BY <1>2 DEF above
  <2> QED BY <2>1, NatLessThanWellFounded, WFMin
<1>4. m \in A
  <2>1. SUFFICES ASSUME m \notin A PROVE FALSE
    OBVIOUS
  <2>2. m \in Nat /\ m > 0 /\ \A x \in A : x <= m /\ x # m
    BY <1>1, <2>1
  <2>3. m - 1 \in Nat /\ \A x \in A : x <= m - 1
    BY <1>1, <2>2
  <2>4. m - 1 \in above
    BY <2>3
  <2>5. <<m - 1, m>> \in OpToRel(<, Nat)
    BY <2>2, <2>3 DEF OpToRel
  <2> QED BY <1>3, <2>4, <2>5
<1>5. P!Max(A) \in A /\ \A x \in A : x <= P!Max(A)
  <2>1. \E x \in A : \A y \in A : x >= y
    BY <1>1, <1>4
  <2>2. P!Max(A) \in A /\ \A y \in A : P!Max(A) >= y
    BY <2>1 DEF P!Max
  <2> QED BY <1>1, <2>2
<1>6. Cardinality(P!Present(configs)) \in Nat
  <2>1. P!Present(configs) \subseteq ProviderIds
    BY DEF P!Present
  <2> QED BY <2>1, FS_Subset, FS_CardinalityType, SameFiniteSets DEF P!ProvidersAssumption
<1>7. P!Revision = [at |-> P!Max(A), rows |-> Cardinality(P!Present(configs))]
  BY SameFiniteSets DEF P!Revision
<1> QED
  <2>1. P!Revision.at = P!Max(A)
    BY <1>7
  <2> QED BY <1>1, <1>5, <1>6, <1>7, <2>1 DEF P!Revisions


\* An operation under way has the fields its step needs.
LEMMA FlightType ==
    ASSUME P!TypeOK, NEW p \in Procs, flight[p] # None
    PROVE  /\ flight[p] \in P!Flights
           /\ flight[p].id \in ProviderIds
           /\ flight[p].step \in {"exchange", "hung"} =>
                flight[p] \in [step : {"exchange", "hung"}, id : ProviderIds, snap : P!Creds]
           /\ flight[p].step = "rows" =>
                flight[p] \in [step : {"rows"}, id : ProviderIds, kind : {"set", "logout", "rm", "refresh"},
                               next : P!Creds, up : SUBSET ProviderIds, del : SUBSET ProviderIds]
<1>1. flight[p] \in P!Flights
  BY DEF P!TypeOK
<1>2. CASE flight[p] \in [step : {"exchange", "hung"}, id : ProviderIds, snap : P!Creds]
  BY <1>1, <1>2
<1>3. CASE flight[p] \in [step : {"rows"}, id : ProviderIds, kind : {"set", "logout", "rm", "refresh"},
                          next : P!Creds, up : SUBSET ProviderIds, del : SUBSET ProviderIds]
  BY <1>1, <1>3
<1> QED BY <1>1, <1>2, <1>3 DEF P!Flights

\* A change of rows is an operation.
LEMMA DiffType ==
    ASSUME NEW base \in P!Creds, NEW next \in P!Creds, NEW id \in ProviderIds,
           NEW kind \in {"set", "logout", "rm", "refresh"}
    PROVE  P!Diff(base, next, id, kind) \in P!Flights
  BY DEF P!Diff, P!Flights, P!Present

\* A step of a process on credentials.
CredentialStep(p) ==
    \/ \E id \in ProviderIds : \/ P!SetCredential(p, id) \/ P!Login(p, id) \/ P!RemoveCredential(p, id)
                                \/ P!BeginRefresh(p, id) \/ P!Expire(id)
    \/ P!Exchange(p) \/ P!ExchangeFails(p) \/ P!Deadline(p)
    \/ P!WriteRow(p) \/ P!Finish(p) \/ P!WindowPasses(p)

\* Operations on credentials keep the types.
LEMMA CredentialTypes ==
    ASSUME P!ProvidersAssumption, P!TypeOK, NEW p \in Procs, CredentialStep(p)
    PROVE  P!TypeOK'
<1> USE DEF P!tables, P!history
<1>0. written \in Nat /\ \A g \in Nat : P!Key(g) \in [kind : {"api_key", "oauth"}, gen : Nat, expired : BOOLEAN]
                      /\ P!Token(g) \in [kind : {"api_key", "oauth"}, gen : Nat, expired : BOOLEAN]
  BY DEF P!TypeOK, P!Key, P!Token, P!ProvidersAssumption
<1>1. ASSUME NEW id \in ProviderIds,
             NEW c \in [kind : {"api_key", "oauth"}, gen : Nat, expired : BOOLEAN] \union {None},
             NEW kind \in {"set", "logout", "rm"}, P!Change(p, id, c, kind)
      PROVE  flight' \in [Procs -> P!Flights \union {None}]
  <2>1. creds \in P!Creds /\ [creds EXCEPT ![id] = c] \in P!Creds
    BY DEF P!TypeOK, P!Creds
  <2> QED BY <1>1, <2>1, DiffType DEF P!Change, P!TypeOK
<1>2. P!Write => written' \in 0 .. MaxWrites
  BY DEF P!Write, P!TypeOK, P!ProvidersAssumption
<1>3. ASSUME NEW id \in ProviderIds, P!SetCredential(p, id) PROVE P!TypeOK'
  <2>1. P!Key(written') \in [kind : {"api_key", "oauth"}, gen : Nat, expired : BOOLEAN] \union {None}
    BY <1>0, <1>2, <1>3 DEF P!SetCredential
  <2> QED BY <1>1, <1>2, <1>3, <2>1 DEF P!SetCredential, P!TypeOK
<1>4. ASSUME NEW id \in ProviderIds, P!Login(p, id) PROVE P!TypeOK'
  <2>1. P!Token(written') \in [kind : {"api_key", "oauth"}, gen : Nat, expired : BOOLEAN] \union {None}
    BY <1>0, <1>2, <1>4 DEF P!Login
  <2> QED BY <1>1, <1>2, <1>4, <2>1 DEF P!Login, P!TypeOK
<1>5. ASSUME NEW id \in ProviderIds, P!RemoveCredential(p, id) PROVE P!TypeOK'
  BY <1>1, <1>2, <1>5 DEF P!RemoveCredential, P!TypeOK
<1>6. ASSUME NEW id \in ProviderIds, P!BeginRefresh(p, id) PROVE P!TypeOK'
  <2>1. [step |-> "exchange", id |-> id, snap |-> creds] \in P!Flights
    BY DEF P!Flights, P!TypeOK
  <2> QED BY <1>6, <2>1 DEF P!BeginRefresh, P!TypeOK
<1>7. CASE P!Exchange(p)
  <2> DEFINE f == flight[p]
             next == [f.snap EXCEPT ![f.id] = P!Token(written)]
             base == [i \in ProviderIds |-> IF f.snap[i] # None THEN f.snap[i] ELSE creds[i]]
  <2>1. f.id \in ProviderIds /\ f.snap \in P!Creds
    BY <1>7, FlightType DEF P!Exchange, P!Exchanging
  <2>2. next \in P!Creds
    BY <1>0, <2>1 DEF P!Creds
  <2>3. base \in P!Creds
    BY <2>1 DEF P!Creds, P!TypeOK
  <2>4. P!Diff(base, next, f.id, "refresh") \in P!Flights
    BY <2>1, <2>2, <2>3, DiffType
  <2>5. flight' = [flight EXCEPT ![p] = P!Diff(base, next, f.id, "refresh")]
    BY <1>7 DEF P!Exchange
  <2> QED BY <1>7, <2>4, <2>5 DEF P!Exchange, P!TypeOK
<1>8. ASSUME P!GiveUp(p) PROVE backoff' \in [Procs -> BOOLEAN] /\ flight' \in [Procs -> P!Flights \union {None}]
  BY <1>8 DEF P!GiveUp, P!TypeOK
<1>9. CASE P!ExchangeFails(p)
  <2>1. flight[p] \in [step : {"exchange", "hung"}, id : ProviderIds, snap : P!Creds]
    BY <1>9, FlightType DEF P!ExchangeFails, P!Exchanging
  <2>2. [flight[p] EXCEPT !.step = "hung"] \in P!Flights
    BY <2>1 DEF P!Flights
  <2>3. flight' \in [Procs -> P!Flights \union {None}] /\ backoff' \in [Procs -> BOOLEAN]
    BY <1>8, <1>9, <2>2 DEF P!ExchangeFails, P!TypeOK
  <2> QED BY <1>9, <2>3 DEF P!ExchangeFails, P!TypeOK, P!ProvidersAssumption
<1>10. CASE P!Deadline(p)
  BY <1>8, <1>10 DEF P!Deadline, P!TypeOK
<1>11. CASE P!WriteRow(p)
  <2>1. flight[p] \in [step : {"rows"}, id : ProviderIds, kind : {"set", "logout", "rm", "refresh"},
                       next : P!Creds, up : SUBSET ProviderIds, del : SUBSET ProviderIds]
    BY <1>11, FlightType DEF P!WriteRow
  <2>2. \A i \in ProviderIds : /\ [flight[p] EXCEPT !.up = @ \ {i}] \in P!Flights
                              /\ [flight[p] EXCEPT !.del = @ \ {i}] \in P!Flights
    BY <2>1 DEF P!Flights
  <2>3. \A i \in flight[p].up : [creds EXCEPT ![i] = flight[p].next[i]] \in P!Creds
    BY <2>1 DEF P!Creds, P!TypeOK
  <2>4. \A i \in flight[p].del : [creds EXCEPT ![i] = None] \in P!Creds
    BY <2>1 DEF P!Creds, P!TypeOK
  <2>5. flight' \in [Procs -> P!Flights \union {None}]
    <3>1. ASSUME NEW f \in P!Flights, flight' = [flight EXCEPT ![p] = f]
          PROVE  flight' \in [Procs -> P!Flights \union {None}]
      BY <3>1 DEF P!TypeOK
    <3>2. ASSUME NEW i \in flight[p].up, flight' = [flight EXCEPT ![p].up = @ \ {i}]
          PROVE  flight' \in [Procs -> P!Flights \union {None}]
      BY <2>1, <2>2, <3>1, <3>2
    <3>3. ASSUME NEW i \in flight[p].del, flight' = [flight EXCEPT ![p].del = @ \ {i}]
          PROVE  flight' \in [Procs -> P!Flights \union {None}]
      BY <2>1, <2>2, <3>1, <3>3
    <3> QED BY <1>11, <3>2, <3>3 DEF P!WriteRow
  <2>6. creds' \in P!Creds /\ held' \subseteq ProviderIds
    BY <1>11, <2>1, <2>3, <2>4 DEF P!WriteRow, P!TypeOK
  <2> QED BY <1>11, <2>5, <2>6 DEF P!WriteRow, P!TypeOK
<1>12. CASE P!Finish(p)
  <2>1. configs' \in P!Configs
    BY <1>12 DEF P!Finish, P!TypeOK, P!Configs
  <2> QED BY <1>12, <2>1 DEF P!Finish, P!TypeOK
<1>13. ASSUME NEW id \in ProviderIds, P!Expire(id) PROVE P!TypeOK'
  <2>1. creds' \in P!Creds
    BY <1>13 DEF P!Expire, P!TypeOK, P!Creds
  <2> QED BY <1>2, <1>13, <2>1 DEF P!Expire, P!TypeOK
<1>14. CASE P!WindowPasses(p)
  BY <1>14 DEF P!WindowPasses, P!TypeOK
<1> QED BY <1>3, <1>4, <1>5, <1>6, <1>7, <1>9, <1>10, <1>11, <1>12, <1>13, <1>14
    DEF CredentialStep


\* A registry as its constructor begins.
LEMMA NewRegistryType ==
    ASSUME P!Revision \in P!Revisions
    PROVE  P!NewRegistry \in P!Registry
<1>1. P!BeginLoad \in [rev : P!Revisions, rows : P!Configs \union {None}, blind : BOOLEAN]
  BY DEF P!BeginLoad
<1>2. P!NoDefinitions \in [ProviderIds -> Nat \union {None}] /\ [at |-> 0, rows |-> 0] \in P!Revisions
  BY DEF P!NoDefinitions, P!Revisions
<1> QED BY <1>1, <1>2 DEF P!NewRegistry, P!Registry

\* Operations on definitions and the registry's load keep the types.
LEMMA DefinitionTypes ==
    ASSUME P!ProvidersAssumption, P!TypeOK, Stamped,
           \/ \E p \in Procs, id \in ProviderIds : P!AddCustom(p, id) \/ P!BeginEdit(p, id)
           \/ \E p \in Procs : P!CommitEdit(p) \/ P!Crash(p)
           \/ P!EnsureFresh \/ P!LoadRows \/ P!LoadFails \/ P!LoadModels \/ P!Tick
    PROVE  P!TypeOK'
<1> USE DEF P!tables, P!history
<1>0. /\ P!Revision \in P!Revisions
      /\ P!BeginLoad \in [rev : P!Revisions, rows : P!Configs \union {None}, blind : BOOLEAN]
  BY RevisionType DEF P!BeginLoad
<1>1. ASSUME NEW i \in ProviderIds, NEW shape \in P!Shapes, P!UpsertConfig(i, shape)
      PROVE  configs' \in P!Configs /\ written' \in 0 .. MaxWrites /\ stamped' \in Nat /\ tied' \in BOOLEAN
  <2>1. written' \in 0 .. MaxWrites
    BY <1>1 DEF P!UpsertConfig, P!Write, P!TypeOK, P!ProvidersAssumption
  <2>2. [gen |-> written', at |-> clock, shape |-> shape] \in [gen : Nat, at : Nat, shape : P!Shapes]
    BY <2>1 DEF P!TypeOK, P!ProvidersAssumption
  <2>3. configs' \in P!Configs
    BY <1>1, <2>2 DEF P!UpsertConfig, P!TypeOK, P!Configs
  <2>4. stamped' \in Nat
    BY <1>1 DEF P!UpsertConfig, P!TypeOK
  <2>5. tied' \in BOOLEAN
    BY <1>1 DEF P!UpsertConfig, P!TypeOK
  <2> QED BY <2>1, <2>3, <2>4, <2>5
<1>2. \A rows_ \in P!Configs : P!CustomModels(rows_) \in [ProviderIds -> Nat \union {None}]
  BY DEF P!CustomModels, P!Configs
<1>3. ASSUME NEW p \in Procs, NEW id \in ProviderIds, P!AddCustom(p, id) PROVE P!TypeOK'
  BY <1>1, <1>3 DEF P!AddCustom, P!TypeOK
<1>4. ASSUME NEW p \in Procs, NEW id \in ProviderIds, P!BeginEdit(p, id) PROVE P!TypeOK'
  BY <1>4 DEF P!BeginEdit, P!TypeOK
<1>5. ASSUME NEW p \in Procs, P!CommitEdit(p) PROVE P!TypeOK'
  <2>1. edit[p] \in ProviderIds /\ "llm" \in P!Shapes
    BY <1>5 DEF P!CommitEdit, P!TypeOK, P!Shapes
  <2> QED BY <1>1, <1>5, <2>1 DEF P!CommitEdit, P!TypeOK
<1>6. CASE P!EnsureFresh
  <2>1. registry' \in P!Registry
    BY <1>0, <1>6 DEF P!EnsureFresh, P!TypeOK, P!Registry
  <2> QED BY <1>6, <2>1 DEF P!EnsureFresh, P!TypeOK
<1>7. CASE P!LoadRows
  <2>1. registry.load \in [rev : P!Revisions, rows : P!Configs \union {None}, blind : BOOLEAN]
    BY <1>7 DEF P!LoadRows, P!Reading, P!TypeOK, P!Registry
  <2>2. [registry.load EXCEPT !.rows = configs] \in [rev : P!Revisions, rows : P!Configs \union {None}, blind : BOOLEAN]
    BY <2>1 DEF P!TypeOK
  <2>3. registry' = [registry EXCEPT !.load = [registry.load EXCEPT !.rows = configs]]
    BY <1>7 DEF P!LoadRows
  <2>4. registry' \in P!Registry
    BY <2>2, <2>3 DEF P!TypeOK, P!Registry
  <2> QED BY <1>7, <2>4 DEF P!LoadRows, P!TypeOK
<1>8. CASE P!LoadModels
  <2>1. registry.load.rev \in P!Revisions /\ registry.load.rows \in P!Configs /\ registry.load.blind \in BOOLEAN
    BY <1>8 DEF P!LoadModels, P!TypeOK, P!Registry
  <2>2. registry' \in P!Registry
    BY <1>2, <1>8, <2>1 DEF P!LoadModels, P!Loaded, P!Registry
  <2> QED BY <1>8, <2>2 DEF P!LoadModels, P!TypeOK
<1>9. ASSUME NEW p \in Procs, P!Crash(p) PROVE P!TypeOK'
  <2>1. P!NewRegistry \in P!Registry
    BY <1>0, NewRegistryType
  <2>2. registry' \in P!Registry
    BY <1>9, <2>1 DEF P!Crash, P!TypeOK
  <2> QED BY <1>9, <2>2 DEF P!Crash, P!TypeOK, P!ProvidersAssumption
<1>11. CASE P!LoadFails
  <2>1. registry.load \in [rev : P!Revisions, rows : P!Configs \union {None}, blind : BOOLEAN]
    BY <1>11 DEF P!LoadFails, P!Reading, P!TypeOK, P!Registry
  <2>2. P!NoDefinitions \in P!Configs
    BY DEF P!NoDefinitions, P!Configs
  <2>3. [[registry.load EXCEPT !.rows = P!NoDefinitions] EXCEPT !.blind = TRUE]
          \in [rev : P!Revisions, rows : P!Configs \union {None}, blind : BOOLEAN]
    BY <2>1, <2>2
  <2>4. registry' = [registry EXCEPT !.load = [[registry.load EXCEPT !.rows = P!NoDefinitions] EXCEPT !.blind = TRUE]]
    BY <1>11 DEF P!LoadFails
  <2>5. registry' \in P!Registry
    BY <2>3, <2>4 DEF P!TypeOK, P!Registry
  <2> QED BY <1>11, <2>5 DEF P!LoadFails, P!TypeOK, P!ProvidersAssumption
<1>10. CASE P!Tick
  BY <1>10 DEF P!Tick, P!TypeOK
<1> QED BY <1>3, <1>4, <1>5, <1>6, <1>7, <1>8, <1>9, <1>10, <1>11

----------------------------------------------------------------------------
(* The model registry: the watermark covers what was loaded.               *)

\* No watermark is ahead of the newest write, and while no two writes share a
\* millisecond, a row that a watermark covers was loaded under it as it still is,
\* unless the read that the watermark was taken for threw.
Covered(at, models) ==
    \A id \in P!Present(configs) : configs[id].at <= at => models[id] = P!CustomModels(configs)[id]

Watermarked ==
    /\ registry.rev.at <= stamped
    /\ ~tied /\ ~registry.blind => Covered(registry.rev.at, registry.models)
    /\ registry.load # None =>
         /\ registry.load.rev.at <= stamped
         /\ ~tied /\ registry.load.rows # None /\ ~registry.load.blind =>
              Covered(registry.load.rev.at, P!CustomModels(registry.load.rows))

RegistryInv == P!TypeOK /\ Stamped /\ Watermarked

LEMMA RegistryInit == P!ProvidersAssumption /\ P!Init => RegistryInv
<1> SUFFICES ASSUME P!ProvidersAssumption, P!Init PROVE RegistryInv
  OBVIOUS
<1>1. P!Present(configs) = {}
  BY DEF P!Init, P!Present, P!NoDefinitions
<1>2. P!Revision = [at |-> P!Max({0}), rows |-> P!Cardinality({})]
  <2>1. {0} \union {configs[id].at : id \in P!Present(configs)} = {0}
    BY <1>1
  <2> QED BY <1>1, <2>1 DEF P!Revision
<1>3. P!Max({0}) = 0 /\ P!Cardinality({}) = 0
  BY FS_EmptySet, SameFiniteSets DEF P!Max
<1>4. creds \in P!Creds /\ configs \in P!Configs
  BY DEF P!Init, P!LoggedIn, P!NoDefinitions, P!Token, P!Creds, P!Configs
<1>5. /\ registry \in P!Registry
      /\ registry.rev.at = 0 /\ registry.load.rev.at = 0 /\ registry.load.rows = None
  BY <1>2, <1>3, NewRegistryType DEF P!Init, P!NewRegistry, P!BeginLoad, P!Revisions
<1>6. P!TypeOK
  <2>1. clock \in Nat /\ stamped \in Nat /\ written \in 0 .. MaxWrites /\ failures \in 0 .. MaxFaults
    BY DEF P!Init, P!ProvidersAssumption
  <2>2. /\ flight \in [Procs -> P!Flights \union {None}] /\ edit \in [Procs -> ProviderIds \union {None}]
        /\ backoff \in [Procs -> BOOLEAN] /\ held \subseteq ProviderIds /\ tied \in BOOLEAN
    BY DEF P!Init, P!ProvidersAssumption
  <2> QED BY <1>4, <1>5, <2>1, <2>2 DEF P!TypeOK
<1>7. Stamped /\ Watermarked
  BY <1>1, <1>5 DEF P!Init, Stamped, Watermarked, Covered
<1> QED BY <1>6, <1>7 DEF RegistryInv

\* A step that only removes definitions keeps what watermarks cover.
LEMMA FewerRows ==
    ASSUME RegistryInv, UNCHANGED <<registry, stamped, tied>>, clock' >= clock, clock' \in Nat,
           configs' \in P!Configs,
           \A id \in ProviderIds : configs'[id] \in {configs[id], None}
    PROVE  Stamped' /\ Watermarked'
<1>1. P!Present(configs)' \subseteq P!Present(configs)
  BY DEF P!Present
<1>2. \A id \in P!Present(configs)' : /\ configs'[id] = configs[id]
                                      /\ P!CustomModels(configs)'[id] = P!CustomModels(configs)[id]
  BY DEF P!Present, P!CustomModels
<1>3. \A at, models : Covered(at, models) => Covered(at, models)'
  BY <1>1, <1>2 DEF Covered
<1>4. Watermarked'
  <2>1. P!CustomModels(registry.load.rows)' = P!CustomModels(registry.load.rows)
    BY DEF P!CustomModels
  <2>2. \A at, models : (\A id \in P!Present(configs) :
                            configs[id].at <= at => models[id] = P!CustomModels(configs)[id])
                        => (\A id \in P!Present(configs)' :
                              configs'[id].at <= at => models[id] = P!CustomModels(configs)'[id])
    BY <1>1, <1>2
  <2> QED BY <2>1, <2>2 DEF RegistryInv, Watermarked, Covered
<1>5. Stamped'
  BY <1>1, <1>2 DEF RegistryInv, Stamped, P!TypeOK
<1> QED BY <1>4, <1>5

\* A definition that is written is newer than every watermark.
LEMMA NewerRow ==
    ASSUME P!ProvidersAssumption, RegistryInv, NEW id \in ProviderIds, NEW shape \in P!Shapes,
           P!UpsertConfig(id, shape), UNCHANGED <<registry, clock>>
    PROVE  Stamped' /\ Watermarked'
<1>1. configs \in P!Configs /\ clock \in Nat /\ stamped \in Nat /\ stamped <= clock
  BY DEF RegistryInv, Stamped, P!TypeOK
<1>2. configs' = [configs EXCEPT ![id] = [gen |-> written', at |-> clock, shape |-> shape]] /\ stamped' = clock
  BY DEF P!UpsertConfig
<1>3. ~tied' => ~tied /\ stamped < clock
  <2>1. ~tied' => ~tied /\ stamped # clock
    BY Zenon DEF P!UpsertConfig
  <2> QED BY <1>1, <2>1
<1>4. \A i \in P!Present(configs)' : (i = id /\ configs'[i].at = clock)
                                  \/ /\ i \in P!Present(configs) /\ configs'[i] = configs[i]
                                     /\ P!CustomModels(configs)'[i] = P!CustomModels(configs)[i]
  BY <1>1, <1>2 DEF P!Present, P!CustomModels, P!Configs
<1>5. Stamped'
  BY <1>1, <1>2, <1>4 DEF RegistryInv, Stamped, P!Present, P!Configs
<1>6. ASSUME NEW at \in Nat, at <= stamped, ~tied', NEW models,
             \A i \in P!Present(configs) : configs[i].at <= at => models[i] = P!CustomModels(configs)[i]
      PROVE  \A i \in P!Present(configs)' : configs'[i].at <= at => models[i] = P!CustomModels(configs)'[i]
  BY <1>1, <1>3, <1>4, <1>6
<1>7. registry.rev.at \in Nat /\ registry.rev.at <= stamped
  BY DEF RegistryInv, Watermarked, P!TypeOK, P!Registry, P!Revisions
<1>8. registry.load # None => registry.load.rev.at \in Nat /\ registry.load.rev.at <= stamped
  BY DEF RegistryInv, Watermarked, P!TypeOK, P!Registry, P!Revisions
<1>9. P!CustomModels(registry.load.rows)' = P!CustomModels(registry.load.rows)
  BY DEF P!CustomModels
<1>10. ~tied' /\ ~registry.blind => \A i \in P!Present(configs)' :
                   configs'[i].at <= registry.rev.at => registry.models[i] = P!CustomModels(configs)'[i]
  BY <1>3, <1>6, <1>7 DEF RegistryInv, Watermarked, Covered
<1>11. ~tied' /\ registry.load # None /\ registry.load.rows # None /\ ~registry.load.blind =>
         \A i \in P!Present(configs)' :
           configs'[i].at <= registry.load.rev.at =>
             P!CustomModels(registry.load.rows)[i] = P!CustomModels(configs)'[i]
  BY <1>3, <1>6, <1>8 DEF RegistryInv, Watermarked, Covered
<1>12. Watermarked'
  <2>1. registry' = registry
    OBVIOUS
  <2>2. registry'.rev.at <= stamped' /\ (registry'.load # None => registry'.load.rev.at <= stamped')
    BY <1>1, <1>2, <1>7, <1>8, <2>1
  <2>3. ~tied' /\ ~registry'.blind => Covered(registry.rev.at, registry.models)'
    BY <1>10, <2>1 DEF Covered
  <2>4. ~tied' /\ registry'.load # None /\ registry'.load.rows # None /\ ~registry'.load.blind =>
          Covered(registry.load.rev.at, P!CustomModels(registry.load.rows))'
    BY <1>9, <1>11, <2>1 DEF Covered
  <2> QED BY <2>2, <2>3, <2>4 DEF Watermarked
<1> QED BY <1>5, <1>12


\* Every step keeps the invariant.
LEMMA RegistryStep == P!ProvidersAssumption /\ RegistryInv /\ [P!Next]_P!vars => RegistryInv'
<1> SUFFICES ASSUME P!ProvidersAssumption, RegistryInv, [P!Next]_P!vars PROVE RegistryInv'
  OBVIOUS
<1> USE DEF P!tables, P!history
<1>0. P!TypeOK /\ Stamped /\ Watermarked /\ clock \in Nat
  BY DEF RegistryInv, P!TypeOK
<1>1. ASSUME NEW p \in Procs, CredentialStep(p) PROVE RegistryInv'
  <2>1. P!TypeOK'
    BY <1>0, <1>1, CredentialTypes
  <2>2. UNCHANGED <<registry, stamped, tied, clock>>
    BY <1>1 DEF CredentialStep, P!SetCredential, P!Login, P!RemoveCredential, P!BeginRefresh, P!Exchange, P!ExchangeFails,
                P!Deadline, P!WriteRow, P!Finish, P!Expire, P!WindowPasses
  <2>3. configs' = configs \/ \E i : configs' = [configs EXCEPT ![i] = None]
    BY <1>1 DEF CredentialStep, P!SetCredential, P!Login, P!RemoveCredential, P!BeginRefresh, P!Exchange, P!ExchangeFails,
                P!Deadline, P!WriteRow, P!Finish, P!Expire, P!WindowPasses
  <2>4. \A i \in ProviderIds : configs'[i] \in {configs[i], None}
    BY <1>0, <2>3 DEF P!TypeOK, P!Configs
  <2>5. clock' >= clock /\ clock' \in Nat /\ configs' \in P!Configs
    BY <1>0, <2>1, <2>2 DEF P!TypeOK
  <2> QED BY <2>1, <2>2, <2>4, <2>5, FewerRows DEF RegistryInv
<1>2. ASSUME NEW p \in Procs, NEW id \in ProviderIds, P!AddCustom(p, id) PROVE RegistryInv'
  BY <1>0, <1>2, DefinitionTypes, NewerRow DEF P!AddCustom, RegistryInv
<1>3. ASSUME NEW p \in Procs, P!CommitEdit(p) PROVE RegistryInv'
  <2>1. edit[p] \in ProviderIds /\ "llm" \in P!Shapes
    BY <1>0, <1>3 DEF P!CommitEdit, P!TypeOK, P!Shapes
  <2>2. Stamped' /\ Watermarked'
    BY <1>3, <2>1, NewerRow DEF P!CommitEdit
  <2> QED BY <1>0, <1>3, <2>1, <2>2, DefinitionTypes DEF RegistryInv
<1>4. ASSUME NEW p \in Procs, NEW id \in ProviderIds, P!BeginEdit(p, id) PROVE RegistryInv'
  <2>1. UNCHANGED <<registry, stamped, tied, clock, configs>>
    BY <1>4 DEF P!BeginEdit
  <2>2. P!TypeOK'
    BY <1>0, <1>4, DefinitionTypes
  <2>3. clock' >= clock /\ clock' \in Nat /\ configs' \in P!Configs
    BY <1>0, <2>1, <2>2 DEF P!TypeOK
  <2> QED BY <2>1, <2>2, <2>3, FewerRows DEF RegistryInv
<1>5. ASSUME P!Tick PROVE RegistryInv'
  <2>1. UNCHANGED <<registry, stamped, tied, configs>> /\ clock' = clock + 1
    BY <1>5 DEF P!Tick
  <2>2. P!TypeOK'
    BY <1>0, <1>5, DefinitionTypes
  <2>3. clock' >= clock /\ clock' \in Nat /\ configs' \in P!Configs
    BY <1>0, <2>1, <2>2 DEF P!TypeOK
  <2> QED BY <2>1, <2>2, <2>3, FewerRows DEF RegistryInv
<1>6. ASSUME UNCHANGED <<configs, clock, stamped, tied>>
      PROVE  /\ Stamped'
             /\ P!Revision.at <= stamped'
             /\ Covered(P!Revision.at, P!CustomModels(configs))'
             /\ P!Revision' = P!Revision
             /\ \A at, models : Covered(at, models) = (\A id \in P!Present(configs)' :
                    configs'[id].at <= at => models[id] = P!CustomModels(configs')[id])
  BY <1>0, <1>6, RevisionType DEF Stamped, Covered, P!Revision, P!Present, P!CustomModels
<1>7. ASSUME P!EnsureFresh PROVE RegistryInv'
  <2>1. UNCHANGED <<configs, clock, stamped, tied>>
    BY <1>7 DEF P!EnsureFresh
  <2>2. /\ registry'.rev = registry.rev /\ registry'.models = registry.models /\ registry'.blind = registry.blind
        /\ registry'.load.rev = P!Revision /\ registry'.load.rows = None
    BY <1>0, <1>7 DEF P!EnsureFresh, P!BeginLoad, P!TypeOK, P!Registry
  <2>3. Watermarked'
    BY <1>0, <1>6, <2>1, <2>2 DEF Watermarked, Covered
  <2> QED BY <1>0, <1>6, <1>7, <2>1, <2>3, DefinitionTypes DEF RegistryInv
<1>8. ASSUME P!LoadRows PROVE RegistryInv'
  <2>1. UNCHANGED <<configs, clock, stamped, tied>>
    BY <1>8 DEF P!LoadRows
  <2>2. /\ registry.load # None /\ registry'.rev = registry.rev /\ registry'.models = registry.models
        /\ registry'.blind = registry.blind
        /\ registry'.load.rev = registry.load.rev /\ registry'.load.rows = configs
    BY <1>0, <1>8 DEF P!LoadRows, P!Reading, P!TypeOK, P!Registry
  <2>3. Covered(registry.load.rev.at, P!CustomModels(registry.load.rows))'
    BY <2>1, <2>2 DEF Covered, P!CustomModels
  <2>4. Watermarked'
    BY <1>0, <1>6, <2>1, <2>2, <2>3 DEF Watermarked, Covered
  <2> QED BY <1>0, <1>6, <1>8, <2>1, <2>4, DefinitionTypes DEF RegistryInv
<1>16. ASSUME P!LoadFails PROVE RegistryInv'
  <2>1. UNCHANGED <<configs, clock, stamped, tied>>
    BY <1>16 DEF P!LoadFails
  <2>2. /\ registry.load # None /\ registry'.rev = registry.rev /\ registry'.models = registry.models
        /\ registry'.blind = registry.blind
        /\ registry'.load.rev = registry.load.rev /\ registry'.load.blind = TRUE
    BY <1>0, <1>16 DEF P!LoadFails, P!Reading, P!TypeOK, P!Registry
  <2>3. Watermarked'
    BY <1>0, <1>6, <2>1, <2>2 DEF Watermarked, Covered
  <2> QED BY <1>0, <1>6, <1>16, <2>1, <2>3, DefinitionTypes DEF RegistryInv
<1>9. ASSUME P!LoadModels PROVE RegistryInv'
  <2>1. UNCHANGED <<configs, clock, stamped, tied>>
    BY <1>9 DEF P!LoadModels
  <2>2. /\ registry.load # None /\ registry.load.rows # None
        /\ registry'.rev = registry.load.rev /\ registry'.load = None
        /\ registry'.models = P!CustomModels(registry.load.rows)
        /\ registry'.blind = registry.load.blind
    BY <1>9 DEF P!LoadModels, P!Loaded
  <2>3. Watermarked'
    BY <1>0, <1>6, <2>1, <2>2 DEF Watermarked, Covered
  <2> QED BY <1>0, <1>6, <1>9, <2>1, <2>3, DefinitionTypes DEF RegistryInv
<1>10. ASSUME NEW p \in Procs, P!Crash(p) PROVE RegistryInv'
  <2>1. UNCHANGED <<configs, clock, stamped, tied>>
    BY <1>10 DEF P!Crash
  <2>2. CASE registry' = registry
    <3>1. Watermarked'
      BY <1>0, <1>6, <2>1, <2>2 DEF Watermarked, Covered, P!CustomModels
    <3> QED BY <1>0, <1>6, <1>10, <2>1, <3>1, DefinitionTypes DEF RegistryInv
  <2>3. CASE registry' = P!NewRegistry
    <3>1. /\ registry'.rev.at = 0 /\ registry'.load.rev = P!Revision /\ registry'.load.rows = None
          /\ 0 <= stamped'
      BY <1>0, <2>1, <2>3 DEF P!NewRegistry, P!BeginLoad, P!TypeOK
    <3>2. Covered(registry.rev.at, registry.models)'
      <4> SUFFICES ASSUME NEW id \in P!Present(configs)', configs'[id].at <= registry'.rev.at PROVE FALSE
        BY DEF Covered
      <4> QED BY <1>0, <2>1, <3>1 DEF Stamped, P!Present, P!TypeOK, P!Configs
    <3>3. Watermarked'
      BY <1>0, <1>6, <2>1, <3>1, <3>2 DEF Watermarked, Covered
    <3> QED BY <1>0, <1>6, <1>10, <2>1, <3>3, DefinitionTypes DEF RegistryInv
  <2> QED BY <1>10, <2>2, <2>3 DEF P!Crash
<1>11. CASE UNCHANGED P!vars
  BY <1>11 DEF RegistryInv, P!vars, P!TypeOK, Stamped, Watermarked, Covered, P!CustomModels, P!Present
<1>12. \A p \in Procs : P!Settle(p) \/ P!WindowPasses(p) => RegistryInv'
  BY <1>1 DEF P!Settle, CredentialStep
<1>13. \A p \in Procs, id \in ProviderIds : P!Verb(p, id) => RegistryInv'
  BY <1>1, <1>2, <1>4 DEF P!Verb, P!Test, CredentialStep
<1>14. Daemon \in Procs /\ OAuth \subseteq ProviderIds
  BY DEF P!ProvidersAssumption
<1>15. P!Call \/ (\E id \in ProviderIds : P!Expire(id)) => RegistryInv'
  BY <1>1, <1>14 DEF P!Call, CredentialStep
<1> QED BY <1>3, <1>5, <1>7, <1>8, <1>9, <1>10, <1>11, <1>12, <1>13, <1>15, <1>16 DEF P!Next

LEMMA RegistryInvariant == ASSUME P!ProvidersAssumption PROVE P!Spec => []RegistryInv
<1>1. P!Init => RegistryInv
  BY RegistryInit
<1>2. RegistryInv /\ [P!Next]_P!vars => RegistryInv'
  BY RegistryStep
<1> QED BY <1>1, <1>2, PTL DEF P!Spec

\* Every reachable state of Providers is well typed.
THEOREM ProvidersTypeCorrect == ASSUME P!ProvidersAssumption PROVE P!Spec => []P!TypeOK
<1>1. RegistryInv => P!TypeOK
  BY DEF RegistryInv
<1> QED BY <1>1, RegistryInvariant, PTL

\* A registry whose watermark agrees with the table has every definition of the
\* table as it is, whatever other processes write between the two reads of a
\* load, and whichever process dies (loadModels takes the watermark first), unless
\* the last load's read threw: its watermark is kept without its rows.
THEOREM RegistryCurrentHolds == ASSUME P!ProvidersAssumption PROVE P!Spec => []P!RegistryCurrent
<1>1. RegistryInv => P!RegistryCurrent
  <2> SUFFICES ASSUME RegistryInv, registry.load = None, registry.rev = P!Revision,
                      ~tied, ~registry.blind, NEW id \in P!Present(P!CustomModels(configs))
               PROVE  registry.models[id] = P!CustomModels(configs)[id]
    BY DEF P!RegistryCurrent
  <2>1. id \in P!Present(configs)
    BY DEF P!Present, P!CustomModels
  <2>2. configs[id].at <= registry.rev.at
    BY <2>1, RevisionType DEF RegistryInv
  <2> QED BY <2>1, <2>2 DEF RegistryInv, Watermarked, Covered
<1> QED BY <1>1, RegistryInvariant, PTL


----------------------------------------------------------------------------
(* The schedule dispatcher: types.                                         *)

\* The loop of a dispatcher goes on without the row it is done with.
LEMMA NextRowIs ==
    ASSUME Sch!SchedulesAssumption, Sch!TypeOK, NEW d \in Daemons, NEW e \in disp[d].due,
           disp' = Sch!NextRow(d, e)
    PROVE  /\ disp' \in [Daemons -> Sch!Dispatcher]
           /\ \A c \in Daemons : /\ c = d
                                 /\ disp'[c].phase \in {"asleep", "row"}
                                 /\ disp'[c].due \subseteq disp[c].due \ {e}
<1>1. disp[d] \in Sch!Dispatcher
  BY DEF Sch!TypeOK
<1>2. Sch!Asleep \in Sch!Dispatcher
  BY DEF Sch!Asleep, Sch!Dispatcher, Sch!SchedulesAssumption
<1>3. [disp[d] EXCEPT !.phase = "row", !.due = @ \ {e}, !.run = 0] \in Sch!Dispatcher
  BY <1>1 DEF Sch!Dispatcher
<1>4. CASE disp' = [disp EXCEPT ![d] = Sch!Asleep]
  BY <1>2, <1>4 DEF Sch!TypeOK, Sch!SchedulesAssumption, Sch!Asleep
<1>5. CASE disp' = [disp EXCEPT ![d] = [disp[d] EXCEPT !.phase = "row", !.due = @ \ {e}, !.run = 0]]
  <2>1. disp' \in [Daemons -> Sch!Dispatcher]
    BY <1>3, <1>5 DEF Sch!TypeOK
  <2>2. disp'[d].phase = "row" /\ disp'[d].due = disp[d].due \ {e}
    BY <1>1, <1>5 DEF Sch!TypeOK, Sch!Dispatcher
  <2> QED BY <2>1, <2>2 DEF Sch!SchedulesAssumption
<1>6. \/ disp' = [disp EXCEPT ![d] = Sch!Asleep]
      \/ disp' = [disp EXCEPT ![d] = [disp[d] EXCEPT !.phase = "row", !.due = @ \ {e}, !.run = 0]]
  BY DEF Sch!NextRow
<1> QED BY <1>4, <1>5, <1>6

\* A due row is a schedule of its own time, and what a tick reads is typed.
LEMMA DueRowsType ==
    ASSUME Sch!SchedulesAssumption, Sch!TypeOK
    PROVE  /\ Sch!DueRows \subseteq Sch!DueRow
           /\ \A e \in Sch!DueRows : /\ e.id \in ScheduleIds /\ schedules[e.id].state = "live"
                                   /\ e.last = schedules[e.id].last
           /\ \A e, f \in Sch!DueRows : e.id = f.id => e = f
  BY DEF Sch!DueRows, Sch!DueRow, Sch!Due, Sch!TypeOK, Sch!Row

\* A due list holds due rows.
LEMMA DueListType ==
    ASSUME Sch!TypeOK, NEW d \in Daemons, NEW e \in disp[d].due
    PROVE  e \in Sch!DueRow /\ e.id \in ScheduleIds /\ e.next \in Nat /\ e.last \in Nat
<1>1. disp[d] \in Sch!Dispatcher
  BY DEF Sch!TypeOK
<1>2. e \in Sch!DueRow
  BY <1>1 DEF Sch!Dispatcher
<1> QED BY <1>2 DEF Sch!DueRow

\* Operators and the clock keep the types.
LEMMA OperatorTypes ==
    ASSUME Sch!SchedulesAssumption, Sch!TypeOK,
           \/ \E s \in ScheduleIds : \/ \E f \in BOOLEAN : Sch!Create(s, f)
                                     \/ Sch!Pause(s) \/ Sch!Resume(s) \/ Sch!Delete(s) \/ Sch!EditWorkflow(s)
           \/ Sch!Elapse
    PROVE  Sch!TypeOK'
<1>1. ASSUME NEW s \in ScheduleIds, NEW r \in Sch!Row, schedules' = [schedules EXCEPT ![s] = r]
      PROVE  schedules' \in [ScheduleIds -> Sch!Row]
  BY <1>1 DEF Sch!TypeOK
<1>2. clock \in 0 .. MaxTime /\ clock + Interval \in 0 .. MaxTime + Interval /\ 0 \in 0 .. MaxTime + Interval
  BY DEF Sch!TypeOK, Sch!SchedulesAssumption
<1>3. clock \in 0 .. MaxTime + Interval
  BY <1>2 DEF Sch!SchedulesAssumption
<1>4. ASSUME NEW s \in ScheduleIds, NEW f \in BOOLEAN, Sch!Create(s, f) PROVE Sch!TypeOK'
  <2>1. [state |-> "live", paused |-> FALSE, last |-> 0, next |-> IF f THEN clock ELSE clock + Interval] \in Sch!Row
    BY <1>2, <1>3 DEF Sch!Row
  <2> QED BY <1>1, <1>4, <2>1 DEF Sch!Create, Sch!TypeOK
<1>5. ASSUME NEW s \in ScheduleIds, Sch!Pause(s) PROVE Sch!TypeOK'
  <2>1. [schedules[s] EXCEPT !.paused = @ \/ schedules[s].state = "live"] \in Sch!Row
    BY DEF Sch!TypeOK, Sch!Row
  <2>2. schedules' = [schedules EXCEPT ![s] = [schedules[s] EXCEPT !.paused = @ \/ schedules[s].state = "live"]]
    BY <1>5 DEF Sch!Pause, Sch!PausedRow
  <2> QED BY <1>1, <1>5, <2>1, <2>2 DEF Sch!Pause, Sch!TypeOK, Sch!BlamePause
<1>6. ASSUME NEW s \in ScheduleIds, Sch!Resume(s) PROVE Sch!TypeOK'
  <2>1. [schedules[s] EXCEPT !.paused = FALSE, !.next = clock + Interval] \in Sch!Row
    BY <1>2 DEF Sch!TypeOK, Sch!Row
  <2>2. schedules' = [schedules EXCEPT ![s] = [schedules[s] EXCEPT !.paused = FALSE, !.next = clock + Interval]]
    BY <1>6 DEF Sch!Resume, Sch!TypeOK
  <2> QED BY <1>1, <1>6, <2>1, <2>2 DEF Sch!Resume, Sch!TypeOK
<1>7. ASSUME NEW s \in ScheduleIds, Sch!Delete(s) PROVE Sch!TypeOK'
  <2>1. [state |-> "deleted", paused |-> FALSE, next |-> 0, last |-> 0] \in Sch!Row
    BY <1>2 DEF Sch!Row
  <2> QED BY <1>1, <1>7, <2>1 DEF Sch!Delete, Sch!TypeOK
<1>8. ASSUME NEW s \in ScheduleIds, Sch!EditWorkflow(s) PROVE Sch!TypeOK'
  BY <1>8 DEF Sch!EditWorkflow, Sch!TypeOK
<1>9. CASE Sch!Elapse
  BY <1>9 DEF Sch!Elapse, Sch!TypeOK, Sch!SchedulesAssumption
<1> QED BY <1>4, <1>5, <1>6, <1>7, <1>8, <1>9

\* Runs and dispatchers keep the types.
LEMMA DispatcherTypes ==
    ASSUME Sch!SchedulesAssumption, Sch!TypeOK,
           \/ \E d \in Daemons : Sch!Dispatch(d) \/ Sch!TickFails(d) \/ Sch!Crash(d) \/ Sch!Start(d)
           \/ \E i \in DOMAIN runs : \E t \in {"active", "quarantined", "terminal"} : Sch!RunMoves(i, t)
    PROVE  Sch!TypeOK'
<1>1. Sch!Asleep \in Sch!Dispatcher /\ [Sch!Asleep EXCEPT !.phase = "down"] \in Sch!Dispatcher
  BY DEF Sch!Asleep, Sch!Dispatcher, Sch!SchedulesAssumption
<1>2. ASSUME NEW d \in Daemons, NEW a \in Sch!Dispatcher, disp' = [disp EXCEPT ![d] = a]
      PROVE  disp' \in [Daemons -> Sch!Dispatcher] /\ \A c \in Daemons : disp'[c] = a
  BY <1>2 DEF Sch!TypeOK, Sch!SchedulesAssumption
<1>3. ASSUME NEW d \in Daemons, Sch!Tick(d) PROVE Sch!TypeOK'
  <2>1. [disp[d] EXCEPT !.phase = "row", !.now = clock, !.due = Sch!DueRows] \in Sch!Dispatcher
    <3>1. disp[d] \in Sch!Dispatcher /\ clock \in 0 .. MaxTime /\ Sch!DueRows \subseteq Sch!DueRow
      BY DueRowsType DEF Sch!TypeOK
    <3> QED BY <3>1 DEF Sch!Dispatcher
  <2>2. [disp[d] EXCEPT !.phase = "row", !.now = clock, !.due = Sch!DueRows].phase = "row"
    BY DEF Sch!TypeOK, Sch!Dispatcher
  <2> QED BY <1>2, <1>3, <2>1, <2>2 DEF Sch!Tick, Sch!TypeOK
<1>4. ASSUME NEW d \in Daemons, NEW e \in disp[d].due
      PROVE  /\ e \in Sch!DueRow /\ disp[d].now \in 0 .. MaxTime /\ disp[d].run \in Nat
             /\ Sch!AdvancedFrom(e.id, disp[d].now) \in 0 .. MaxTime + Interval
  <2>1. e \in Sch!DueRow /\ disp[d].now \in 0 .. MaxTime /\ disp[d].run \in Nat
    BY DEF Sch!TypeOK, Sch!Dispatcher
  <2>2. schedules[e.id].next \in 0 .. MaxTime + Interval
    BY <2>1 DEF Sch!TypeOK, Sch!Row, Sch!DueRow
  <2>3. disp[d].now + Interval \in 0 .. MaxTime + Interval
    BY <2>1 DEF Sch!SchedulesAssumption
  <2> QED BY <2>1, <2>2, <2>3 DEF Sch!AdvancedFrom
<1>5. ASSUME NEW d \in Daemons, NEW e \in disp[d].due, Sch!SkipRow(d, e) PROVE Sch!TypeOK'
  <2>1. schedules' \in [ScheduleIds -> Sch!Row]
    BY <1>4, <1>5 DEF Sch!SkipRow, Sch!TypeOK, Sch!Row, Sch!DueRow
  <2>2. disp' \in [Daemons -> Sch!Dispatcher] /\ \A c \in Daemons : disp'[c].phase # "record"
    BY <1>5, NextRowIs DEF Sch!SkipRow
  <2> QED BY <1>5, <2>1, <2>2 DEF Sch!SkipRow, Sch!TypeOK
<1>6. ASSUME NEW d \in Daemons, NEW e \in disp[d].due, Sch!AutoPause(d, e) PROVE Sch!TypeOK'
  <2>0. e.id \in ScheduleIds
    BY <1>4 DEF Sch!DueRow
  <2>1. schedules' \in [ScheduleIds -> Sch!Row]
    <3>1. schedules[e.id] \in Sch!Row
      BY <2>0 DEF Sch!TypeOK
    <3>2. [schedules[e.id] EXCEPT !.paused = @ \/ schedules[e.id].state = "live"] \in Sch!Row
      BY <3>1 DEF Sch!Row
    <3>3. schedules' = [schedules EXCEPT ![e.id] =
                          [schedules[e.id] EXCEPT !.paused = @ \/ schedules[e.id].state = "live"]]
      BY <1>6 DEF Sch!AutoPause, Sch!PausedRow
    <3> QED BY <2>0, <3>2, <3>3 DEF Sch!TypeOK
  <2>2. disp' \in [Daemons -> Sch!Dispatcher] /\ \A c \in Daemons : disp'[c].phase # "record"
    BY <1>6, NextRowIs DEF Sch!AutoPause
  <2>3. cause' \subseteq ScheduleIds /\ pausedBy' \in [ScheduleIds -> {"operator", "dispatcher", None}]
    BY <1>6, <2>0 DEF Sch!AutoPause, Sch!BlamePause, Sch!TypeOK
  <2> QED BY <1>6, <2>1, <2>2, <2>3 DEF Sch!AutoPause, Sch!TypeOK
<1>7. ASSUME NEW d \in Daemons, NEW e \in disp[d].due, Sch!Enqueue(d, e) PROVE Sch!TypeOK'
  <2> DEFINE r == [of |-> e.id, at |-> disp[d].now, recorded |-> FALSE, everSettled |-> FALSE, status |-> "active"]
             a == [disp[d] EXCEPT !.phase = "record", !.run = Len(runs) + 1]
  <2>0. r \in Sch!Run /\ runs \in Seq(Sch!Run) /\ Len(runs) \in Nat
    BY <1>4 DEF Sch!Run, Sch!DueRow, Sch!TypeOK
  <2>1. runs' \in Seq(Sch!Run) /\ Len(runs') = Len(runs) + 1
    BY <1>7, <2>0 DEF Sch!Enqueue
  <2>2. a \in Sch!Dispatcher /\ a.run = Len(runs) + 1
    <3>1. disp[d] \in Sch!Dispatcher /\ Len(runs) + 1 \in Nat
      BY <2>0 DEF Sch!TypeOK
    <3> QED BY <3>1 DEF Sch!Dispatcher
  <2>3. disp' = [disp EXCEPT ![d] = a]
    BY <1>7 DEF Sch!Enqueue, Sch!TypeOK
  <2>4. \A c \in Daemons : disp'[c].run \in DOMAIN runs'
    <3>1. \A c \in Daemons : disp'[c] = a
      BY <1>2, <2>2, <2>3
    <3>2. Len(runs) + 1 \in DOMAIN runs'
      BY <2>0, <2>1
    <3> QED BY <2>2, <3>1, <3>2
  <2> QED BY <1>2, <1>7, <2>1, <2>2, <2>3, <2>4 DEF Sch!Enqueue, Sch!TypeOK
<1>8. ASSUME NEW d \in Daemons, NEW e \in disp[d].due, Sch!Record(d, e) PROVE Sch!TypeOK'
  <2>1. schedules' \in [ScheduleIds -> Sch!Row]
    <3> DEFINE n == Sch!AdvancedFrom(e.id, disp[d].now)
               l == IF schedules[e.id].state = "live" THEN disp[d].run ELSE schedules[e.id].last
    <3>1. e.id \in ScheduleIds /\ schedules[e.id] \in Sch!Row
      BY <1>4 DEF Sch!TypeOK, Sch!DueRow
    <3>2. n \in 0 .. MaxTime + Interval /\ l \in Nat
      BY <1>4, <3>1 DEF Sch!Row
    <3>3. [schedules[e.id] EXCEPT !.next = n, !.last = l] \in Sch!Row
      BY <3>1, <3>2 DEF Sch!Row
    <3>4. schedules' = [schedules EXCEPT ![e.id] = [schedules[e.id] EXCEPT !.next = n, !.last = l]]
      BY <1>8, <3>1 DEF Sch!Record, Sch!TypeOK, Sch!Row
    <3> QED BY <3>1, <3>3, <3>4 DEF Sch!TypeOK
  <2>2. disp' \in [Daemons -> Sch!Dispatcher] /\ \A c \in Daemons : disp'[c].phase # "record"
    BY <1>8, NextRowIs DEF Sch!Record
  <2>3. runs' \in Seq(Sch!Run)
    <3>1. disp[d].run \in DOMAIN runs /\ runs \in Seq(Sch!Run)
      BY <1>8 DEF Sch!Record, Sch!AtRow, Sch!TypeOK
    <3>0. runs[disp[d].run] \in Sch!Run
      BY <3>1
    <3>2. [runs[disp[d].run] EXCEPT !.recorded = TRUE] \in Sch!Run
      BY <3>0 DEF Sch!Run
    <3>3. runs' = [runs EXCEPT ![disp[d].run] = [runs[disp[d].run] EXCEPT !.recorded = TRUE]]
      BY <1>8 DEF Sch!Record
    <3> QED BY <3>1, <3>2, <3>3
  <2> QED BY <1>8, <2>1, <2>2, <2>3 DEF Sch!Record, Sch!TypeOK
<1>9. ASSUME NEW d \in Daemons, Sch!TickFails(d) \/ Sch!Crash(d) \/ Sch!Start(d) PROVE Sch!TypeOK'
  <2>1. disp' \in [Daemons -> Sch!Dispatcher] /\ \A c \in Daemons : disp'[c].phase # "record"
    BY <1>1, <1>2, <1>9 DEF Sch!TickFails, Sch!Crash, Sch!Start, Sch!Asleep
  <2> QED BY <1>9, <2>1 DEF Sch!TickFails, Sch!Crash, Sch!Start, Sch!TypeOK
<1>10. ASSUME NEW i \in DOMAIN runs, NEW t \in {"active", "quarantined", "terminal"}, Sch!RunMoves(i, t)
       PROVE  Sch!TypeOK'
  <2>1. runs \in Seq(Sch!Run) /\ runs[i] \in Sch!Run
    BY DEF Sch!TypeOK
  <2>2. [runs[i] EXCEPT !.status = t, !.everSettled = @ \/ Sch!Settled(t)] \in Sch!Run
    BY <2>1 DEF Sch!Run, Sch!Settled
  <2>3. runs' = [runs EXCEPT ![i] = [runs[i] EXCEPT !.status = t, !.everSettled = @ \/ Sch!Settled(t)]]
    BY <1>10 DEF Sch!RunMoves
  <2>4. runs' \in Seq(Sch!Run) /\ DOMAIN runs' = DOMAIN runs
    BY <2>1, <2>2, <2>3
  <2> QED BY <1>10, <2>4 DEF Sch!RunMoves, Sch!TypeOK
<1> QED BY <1>3, <1>5, <1>6, <1>7, <1>8, <1>9, <1>10 DEF Sch!Dispatch


----------------------------------------------------------------------------
(* The schedule dispatcher: what its rows know of the runs.                *)

\* A recorded run of a skip schedule that has not settled once.
Unended(i) == runs[i].of \in SkipIds /\ runs[i].recorded /\ ~runs[i].everSettled

\* The row names it, unless the schedule was deleted.
LastKnown ==
    \A i \in DOMAIN runs : Unended(i) =>
        \/ schedules[runs[i].of].state = "deleted"
        \/ schedules[runs[i].of].state = "live" /\ schedules[runs[i].of].last = i

\* So does the copy of the row in a due list, which has one row of a schedule.
DueKnown ==
    \A d \in Daemons : \A e \in disp[d].due :
        /\ schedules[e.id].state # "absent"
        /\ \A i \in DOMAIN runs : Unended(i) /\ runs[i].of = e.id => e.last = i
        /\ \A f \in disp[d].due : f.id = e.id => e = f

\* The run about to be recorded is the newest, of the row whose turn it is.
Recording ==
    \A d \in Daemons : disp[d].phase = "record" =>
        /\ disp[d].run = Len(runs)
        /\ \A e \in disp[d].due : Sch!AtRow(d, e, "record") => runs[disp[d].run].of = e.id

\* A run that never settled is active, and none was fired after it.
ActiveUntilSettled == \A i \in DOMAIN runs : ~runs[i].everSettled => runs[i].status = "active"
NoneAfter == \A i, j \in DOMAIN runs : i < j /\ Unended(i) => runs[j].of # runs[i].of

OverlapInv == Sch!TypeOK /\ LastKnown /\ DueKnown /\ Recording /\ ActiveUntilSettled /\ NoneAfter

LEMMA OverlapInit == Sch!SchedulesAssumption /\ Sch!Init => OverlapInv
<1> SUFFICES ASSUME Sch!SchedulesAssumption, Sch!Init PROVE OverlapInv
  OBVIOUS
<1>1. runs = << >> /\ disp = [d \in Daemons |-> Sch!Asleep]
  BY DEF Sch!Init
<1>2. Sch!TypeOK
  <2>1. Sch!Asleep \in Sch!Dispatcher /\ Sch!Asleep.phase = "asleep"
    BY DEF Sch!Asleep, Sch!Dispatcher, Sch!SchedulesAssumption
  <2>2. schedules \in [ScheduleIds -> Sch!Row] /\ pausedBy \in [ScheduleIds -> {"operator", "dispatcher", None}]
    BY DEF Sch!Init, Sch!ScheduleRow, Sch!Row, Sch!SchedulesAssumption
  <2>3. runs \in Seq(Sch!Run)
    BY <1>1
  <2> QED BY <1>1, <2>1, <2>2, <2>3 DEF Sch!Init, Sch!TypeOK, Sch!SchedulesAssumption
<1>3. DOMAIN runs = {}
  BY <1>1
<1>4. \A d \in Daemons : disp[d].phase = "asleep" /\ disp[d].due = {}
  BY <1>1 DEF Sch!Asleep
<1> QED BY <1>2, <1>3, <1>4 DEF OverlapInv, LastKnown, DueKnown, Recording, ActiveUntilSettled, NoneAfter

\* A schedule stays in being, and its last run is kept unless it is deleted.
Kept ==
    \A s \in ScheduleIds :
        /\ schedules[s].state # "absent" => schedules'[s].state # "absent"
        /\ \/ schedules'[s].state = schedules[s].state /\ schedules'[s].last = schedules[s].last
           \/ schedules[s].state = "absent"
           \/ schedules'[s].state = "deleted"

\* Steps that fire and record nothing, and take nothing into a due list.
LEMMA QuietStep ==
    ASSUME Sch!SchedulesAssumption, OverlapInv, Sch!TypeOK', runs' = runs,
           Kept,
           \A d \in Daemons : \/ disp'[d] = disp[d]
                              \/ disp'[d].due \subseteq disp[d].due /\ disp'[d].phase # "record"
    PROVE  OverlapInv'
<1>1. \A i : Unended(i)' = Unended(i)
  BY DEF Unended
<1>2. \A i \in DOMAIN runs : runs[i].of \in ScheduleIds
  <2>1. \A i \in DOMAIN runs : runs[i] \in Sch!Run
    BY DEF OverlapInv, Sch!TypeOK
  <2> QED BY <2>1 DEF Sch!Run
<1>3. \A d \in Daemons : disp'[d].due \subseteq disp[d].due /\ \A e \in disp[d].due : e.id \in ScheduleIds
  BY DueListType DEF OverlapInv
<1>4. LastKnown'
  BY <1>1, <1>2 DEF OverlapInv, LastKnown, Kept
<1>5. DueKnown'
  BY <1>1, <1>3 DEF OverlapInv, DueKnown, Kept
<1>6. Recording'
  BY DEF OverlapInv, Recording, Sch!AtRow, Sch!Earlier
<1>7. ActiveUntilSettled' /\ NoneAfter'
  BY <1>1 DEF OverlapInv, ActiveUntilSettled, NoneAfter
<1> QED BY <1>4, <1>5, <1>6, <1>7 DEF OverlapInv

\* Operators and the clock.
LEMMA OperatorOverlap ==
    ASSUME Sch!SchedulesAssumption, OverlapInv,
           \/ \E s \in ScheduleIds : \/ \E f \in BOOLEAN : Sch!Create(s, f)
                                     \/ Sch!Pause(s) \/ Sch!Resume(s) \/ Sch!Delete(s) \/ Sch!EditWorkflow(s)
           \/ Sch!Elapse
    PROVE  OverlapInv'
<1>1. Sch!TypeOK'
  BY OperatorTypes DEF OverlapInv
<1>2. runs' = runs /\ disp' = disp
  BY DEF Sch!Create, Sch!Pause, Sch!Resume, Sch!Delete, Sch!EditWorkflow, Sch!Elapse
<1>3. schedules \in [ScheduleIds -> Sch!Row]
  BY DEF OverlapInv, Sch!TypeOK
<1>4. ASSUME NEW s \in ScheduleIds, Sch!Create(s, TRUE) \/ Sch!Create(s, FALSE) PROVE Kept
  <2>1. schedules[s].state = "absent" /\ schedules'[s].state = "live"
        /\ \A t \in ScheduleIds \ {s} : schedules'[t] = schedules[t]
    BY <1>3, <1>4 DEF Sch!Create
  <2> QED BY <2>1 DEF Kept
<1>5. ASSUME NEW s \in ScheduleIds, Sch!Pause(s) \/ Sch!Resume(s) PROVE Kept
  <2>1. schedules[s] \in Sch!Row
    BY <1>3
  <2>2. schedules'[s].state = schedules[s].state /\ schedules'[s].last = schedules[s].last
        /\ \A t \in ScheduleIds \ {s} : schedules'[t] = schedules[t]
    BY <1>3, <1>5, <2>1 DEF Sch!Pause, Sch!PausedRow, Sch!Resume, Sch!Row
  <2> QED BY <2>2 DEF Kept
<1>6. ASSUME NEW s \in ScheduleIds, Sch!Delete(s) PROVE Kept
  <2>1. schedules'[s].state = "deleted" /\ \A t \in ScheduleIds \ {s} : schedules'[t] = schedules[t]
    BY <1>3, <1>6 DEF Sch!Delete
  <2> QED BY <2>1 DEF Kept
<1>7. ASSUME schedules' = schedules PROVE Kept
  BY <1>7 DEF Kept
<1>8. Kept
  BY <1>4, <1>5, <1>6, <1>7 DEF Sch!EditWorkflow, Sch!Elapse
<1> QED BY <1>1, <1>2, <1>8, QuietStep

\* A tick reads its rows.
LEMMA TickOverlap ==
    ASSUME Sch!SchedulesAssumption, OverlapInv, NEW d \in Daemons, Sch!Tick(d)
    PROVE  OverlapInv'
<1>1. Sch!TypeOK'
  BY DispatcherTypes DEF OverlapInv, Sch!Dispatch
<1>2. runs' = runs /\ schedules' = schedules /\ (\A i : Unended(i)' = Unended(i))
  BY DEF Sch!Tick, Unended
<1>3. \A c \in Daemons : disp'[c].phase = "row" /\ disp'[c].due = Sch!DueRows
  <2>1. disp[d] \in Sch!Dispatcher
    BY DEF OverlapInv, Sch!TypeOK
  <2> QED BY <2>1 DEF Sch!Tick, Sch!SchedulesAssumption, OverlapInv, Sch!TypeOK, Sch!Dispatcher
<1>4. DueKnown'
  BY <1>2, <1>3, DueRowsType DEF OverlapInv, DueKnown, LastKnown
<1>5. LastKnown' /\ Recording' /\ ActiveUntilSettled' /\ NoneAfter'
  BY <1>2, <1>3 DEF OverlapInv, LastKnown, Recording, ActiveUntilSettled, NoneAfter
<1> QED BY <1>1, <1>4, <1>5 DEF OverlapInv

\* Of two rows of a due list one comes first.
LEMMA OneFirst ==
    ASSUME Sch!SchedulesAssumption, OverlapInv, NEW d \in Daemons, NEW a, NEW b,
           Sch!AtRow(d, a, disp[d].phase), Sch!AtRow(d, b, disp[d].phase)
    PROVE  a = b
<1>1. a \in disp[d].due /\ b \in disp[d].due /\ ~Sch!Earlier(a, b) /\ ~Sch!Earlier(b, a)
  BY DEF Sch!AtRow
<1>2. a.next \in Nat /\ b.next \in Nat /\ a.id \in Nat /\ b.id \in Nat
  BY <1>1, DueListType DEF OverlapInv, Sch!SchedulesAssumption
<1>3. a.id = b.id
  BY <1>1, <1>2 DEF Sch!Earlier
<1> QED BY <1>1, <1>3 DEF OverlapInv, DueKnown

\* A fire: the prior run of a skip schedule has settled by then.
LEMMA EnqueueOverlap ==
    ASSUME Sch!SchedulesAssumption, OverlapInv, NEW d \in Daemons, NEW e \in disp[d].due, Sch!Enqueue(d, e)
    PROVE  OverlapInv'
<1> DEFINE n == Len(runs) + 1
<1>1. Sch!TypeOK'
  BY DispatcherTypes DEF OverlapInv, Sch!Dispatch
<1>2. /\ runs \in Seq(Sch!Run) /\ Len(runs) \in Nat /\ DOMAIN runs = 1 .. Len(runs)
      /\ DOMAIN runs' = 1 .. n /\ Len(runs') = n
      /\ \A i \in DOMAIN runs : runs'[i] = runs[i]
      /\ runs'[n].of = e.id /\ ~runs'[n].recorded /\ runs'[n].status = "active"
  BY DEF Sch!Enqueue, OverlapInv, Sch!TypeOK
<1>3. schedules' = schedules
  BY DEF Sch!Enqueue
<1>4. \A c \in Daemons : disp'[c].phase = "record" /\ disp'[c].run = n /\ disp'[c].due = disp[c].due
                        /\ c = d /\ disp[c].phase = "row"
  <2>1. disp[d] \in Sch!Dispatcher
    BY DEF OverlapInv, Sch!TypeOK
  <2> QED BY <2>1 DEF Sch!Enqueue, Sch!AtRow, Sch!SchedulesAssumption, OverlapInv, Sch!TypeOK, Sch!Dispatcher
<1>5. \A i \in DOMAIN runs' : Unended(i)' => i \in DOMAIN runs /\ Unended(i)
  BY <1>2 DEF Unended
<1>6. \A i \in DOMAIN runs : Unended(i) => runs[i].of # e.id
  <2> SUFFICES ASSUME NEW i \in DOMAIN runs, Unended(i), runs[i].of = e.id PROVE FALSE
    OBVIOUS
  <2>1. e.last = i /\ i # 0
    BY <1>2 DEF OverlapInv, DueKnown
  <2>2. runs[i].status = "active"
    BY DEF OverlapInv, ActiveUntilSettled, Unended
  <2>3. Sch!Overlaps(e)
    BY <2>1, <2>2 DEF Sch!Overlaps, Sch!Settled, Unended
  <2> QED BY <2>3 DEF Sch!Enqueue
<1>7. LastKnown'
  BY <1>2, <1>3, <1>5 DEF OverlapInv, LastKnown
<1>8. DueKnown'
  BY <1>2, <1>3, <1>4, <1>5 DEF OverlapInv, DueKnown
<1>9. Recording'
  <2>1. ASSUME NEW f \in disp[d].due, \A g \in disp[d].due : ~Sch!Earlier(g, f) PROVE f = e
    BY <2>1, <1>4, OneFirst DEF Sch!Enqueue, Sch!AtRow
  <2> QED BY <1>2, <1>4, <2>1 DEF Recording, Sch!AtRow, Sch!Earlier
<1>10. ActiveUntilSettled'
  BY <1>2 DEF OverlapInv, ActiveUntilSettled
<1>11. NoneAfter'
  BY <1>2, <1>5, <1>6 DEF OverlapInv, NoneAfter
<1> QED BY <1>1, <1>7, <1>8, <1>9, <1>10, <1>11 DEF OverlapInv


\* A row is skipped or paused, a tick fails, a daemon dies or starts.
LEMMA PassOverlap ==
    ASSUME Sch!SchedulesAssumption, OverlapInv, NEW d \in Daemons,
           \/ \E e \in disp[d].due : Sch!SkipRow(d, e) \/ Sch!AutoPause(d, e)
           \/ Sch!TickFails(d) \/ Sch!Crash(d) \/ Sch!Start(d)
    PROVE  OverlapInv'
<1>1. Sch!TypeOK' /\ runs' = runs
  <2>1. Sch!TypeOK'
    BY DispatcherTypes DEF OverlapInv, Sch!Dispatch
  <2> QED BY <2>1 DEF Sch!SkipRow, Sch!AutoPause, Sch!TickFails, Sch!Crash, Sch!Start
<1>2. schedules \in [ScheduleIds -> Sch!Row] /\ Sch!TypeOK
  BY DEF OverlapInv, Sch!TypeOK
<1>3. ASSUME NEW e \in disp[d].due, Sch!SkipRow(d, e) \/ Sch!AutoPause(d, e) PROVE Kept
  <2>1. e.id \in ScheduleIds
    BY <1>2, DueListType
  <2>2. schedules[e.id] \in Sch!Row
    BY <1>2, <2>1
  <2>3. schedules'[e.id].state = schedules[e.id].state /\ schedules'[e.id].last = schedules[e.id].last
        /\ \A t \in ScheduleIds \ {e.id} : schedules'[t] = schedules[t]
    BY <1>2, <1>3, <2>1, <2>2 DEF Sch!SkipRow, Sch!AutoPause, Sch!PausedRow, Sch!Row
  <2> QED BY <2>3 DEF Kept
<1>4. ASSUME NEW e \in disp[d].due, Sch!SkipRow(d, e) \/ Sch!AutoPause(d, e)
      PROVE  \A c \in Daemons : disp'[c].due \subseteq disp[c].due /\ disp'[c].phase # "record"
  BY <1>2, <1>4, NextRowIs DEF Sch!SkipRow, Sch!AutoPause
<1>5. ASSUME Sch!TickFails(d) \/ Sch!Crash(d) \/ Sch!Start(d)
      PROVE  /\ Kept
             /\ \A c \in Daemons : disp'[c].due \subseteq disp[c].due /\ disp'[c].phase # "record"
  <2>1. schedules' = schedules
    BY <1>5 DEF Sch!TickFails, Sch!Crash, Sch!Start
  <2>2. \A c \in Daemons : c = d
    BY DEF Sch!SchedulesAssumption
  <2>3. disp'[d].due = {} /\ disp'[d].phase # "record"
    BY <1>2, <1>5 DEF Sch!TickFails, Sch!Crash, Sch!Start, Sch!Asleep, Sch!TypeOK
  <2> QED BY <2>1, <2>2, <2>3 DEF Kept
<1>6. Kept /\ \A c \in Daemons : disp'[c].due \subseteq disp[c].due /\ disp'[c].phase # "record"
  BY <1>3, <1>4, <1>5
<1> QED BY <1>1, <1>6, QuietStep

\* A fire is recorded: its schedule has no other run that never settled.
LEMMA RecordOverlap ==
    ASSUME Sch!SchedulesAssumption, OverlapInv, NEW d \in Daemons, NEW e \in disp[d].due, Sch!Record(d, e)
    PROVE  OverlapInv'
<1> DEFINE n == disp[d].run
<1>1. Sch!TypeOK'
  BY DispatcherTypes DEF OverlapInv, Sch!Dispatch
<1>2. disp[d].phase = "record" /\ n = Len(runs) /\ n \in DOMAIN runs /\ runs[n].of = e.id
  BY DEF Sch!Record, Sch!AtRow, OverlapInv, Recording, Sch!TypeOK
<1>3. e.id \in ScheduleIds /\ schedules[e.id].state \in {"live", "deleted"}
  <2>1. e.id \in ScheduleIds
    BY DueListType DEF OverlapInv
  <2>2. schedules[e.id] \in Sch!Row
    BY <2>1 DEF OverlapInv, Sch!TypeOK
  <2> QED BY <2>1, <2>2 DEF OverlapInv, DueKnown, Sch!Row
<1>4. /\ runs \in Seq(Sch!Run) /\ Len(runs) \in Nat /\ DOMAIN runs = 1 .. Len(runs) /\ DOMAIN runs' = DOMAIN runs
      /\ Len(runs') = Len(runs)
      /\ \A i \in DOMAIN runs : /\ runs'[i].of = runs[i].of /\ runs'[i].everSettled = runs[i].everSettled
                                /\ runs'[i].status = runs[i].status
                                /\ i # n => runs'[i].recorded = runs[i].recorded
  <2>1. runs \in Seq(Sch!Run) /\ runs[n] \in Sch!Run
    BY <1>2 DEF OverlapInv, Sch!TypeOK
  <2>2. runs' = [runs EXCEPT ![n] = [runs[n] EXCEPT !.recorded = TRUE]]
    BY DEF Sch!Record
  <2>3. [runs[n] EXCEPT !.recorded = TRUE] \in Sch!Run
    BY <2>1 DEF Sch!Run
  <2>4. \A i \in DOMAIN runs : runs'[i] = IF i = n THEN [runs[n] EXCEPT !.recorded = TRUE] ELSE runs[i]
    BY <2>1, <2>2
  <2>5. Len(runs) \in Nat /\ DOMAIN runs = 1 .. Len(runs) /\ DOMAIN runs' = DOMAIN runs /\ Len(runs') = Len(runs)
    BY <2>1, <2>2
  <2>6. ASSUME NEW i \in DOMAIN runs
        PROVE  /\ runs'[i].of = runs[i].of /\ runs'[i].everSettled = runs[i].everSettled
               /\ runs'[i].status = runs[i].status
               /\ i # n => runs'[i].recorded = runs[i].recorded
    <3>1. CASE i # n
      BY <2>4, <3>1
    <3>2. CASE i = n
      BY <2>1, <2>4, <3>2 DEF Sch!Run
    <3> QED BY <3>1, <3>2
  <2> QED BY <2>1, <2>5, <2>6
<1>5. \A i \in DOMAIN runs : Unended(i)' => i = n \/ Unended(i)
  BY <1>4 DEF Unended
<1>6. \A i \in DOMAIN runs : Unended(i) /\ i # n => runs[i].of # e.id
  BY <1>2, <1>4 DEF OverlapInv, NoneAfter
<1>7. /\ \A s \in ScheduleIds : schedules'[s].state = schedules[s].state
      /\ \A s \in ScheduleIds : s # e.id => schedules'[s].last = schedules[s].last
      /\ schedules[e.id].state = "live" => schedules'[e.id].last = n
  <2>1. schedules \in [ScheduleIds -> Sch!Row]
    BY DEF OverlapInv, Sch!TypeOK
  <2>2. schedules[e.id] \in Sch!Row
    BY <1>3, <2>1
  <2> QED BY <1>3, <2>1, <2>2 DEF Sch!Record, Sch!Row
<1>8. \A c \in Daemons : c = d /\ disp'[c].phase # "record" /\ disp'[c].due \subseteq disp[c].due \ {e}
  BY NextRowIs DEF OverlapInv, Sch!Record
<1>9. LastKnown'
  <2> SUFFICES ASSUME NEW i \in DOMAIN runs, Unended(i)'
               PROVE  \/ schedules'[runs'[i].of].state = "deleted"
                      \/ schedules'[runs'[i].of].state = "live" /\ schedules'[runs'[i].of].last = i
    BY <1>4 DEF LastKnown
  <2>1. CASE i = n
    BY <1>2, <1>3, <1>4, <1>7, <2>1
  <2>2. CASE i # n
    <3>1. Unended(i) /\ runs[i].of # e.id
      BY <1>5, <1>6, <2>2
    <3>2. runs[i].of \in ScheduleIds /\ runs'[i].of = runs[i].of
      <4>1. runs[i] \in Sch!Run
        BY <1>4
      <4> QED BY <1>4, <4>1 DEF Sch!Run
    <3> QED BY <1>7, <3>1, <3>2 DEF OverlapInv, LastKnown
  <2> QED BY <2>1, <2>2
<1>10. DueKnown'
  <2> SUFFICES ASSUME NEW c \in Daemons, NEW f \in disp'[c].due
               PROVE  /\ schedules'[f.id].state # "absent"
                      /\ \A i \in DOMAIN runs' : Unended(i)' /\ runs'[i].of = f.id => f.last = i
                      /\ \A g \in disp'[c].due : g.id = f.id => f = g
    BY DEF DueKnown
  <2>1. f \in disp[d].due /\ f # e /\ c = d /\ disp'[c].due \subseteq disp[d].due
    BY <1>8
  <2>2. f.id \in ScheduleIds /\ f.id # e.id
    BY <2>1, DueListType DEF OverlapInv, DueKnown
  <2>3. \A i \in DOMAIN runs : Unended(i)' /\ runs'[i].of = f.id => Unended(i) /\ runs[i].of = f.id
    BY <1>2, <1>4, <1>5, <2>2
  <2> QED BY <1>4, <1>7, <2>1, <2>2, <2>3 DEF OverlapInv, DueKnown
<1>11. Recording'
  BY <1>8 DEF Recording
<1>12. ActiveUntilSettled'
  BY <1>4 DEF OverlapInv, ActiveUntilSettled
<1>13. NoneAfter'
  <2> SUFFICES ASSUME NEW i \in DOMAIN runs, NEW j \in DOMAIN runs, i < j, Unended(i)'
               PROVE  runs'[j].of # runs'[i].of
    BY <1>4 DEF NoneAfter
  <2>1. i # n
    BY <1>2, <1>4
  <2> QED BY <1>4, <1>5, <2>1 DEF OverlapInv, NoneAfter
<1> QED BY <1>1, <1>9, <1>10, <1>11, <1>12, <1>13 DEF OverlapInv

\* A run ends, is quarantined or has its quarantine lifted.
LEMMA RunMovesOverlap ==
    ASSUME Sch!SchedulesAssumption, OverlapInv, NEW i \in DOMAIN runs,
           NEW t \in {"active", "quarantined", "terminal"}, Sch!RunMoves(i, t)
    PROVE  OverlapInv'
<1>1. Sch!TypeOK'
  BY DispatcherTypes DEF OverlapInv
<1>2. UNCHANGED <<schedules, disp>>
  BY DEF Sch!RunMoves
<1>3. /\ runs \in Seq(Sch!Run) /\ DOMAIN runs' = DOMAIN runs /\ Len(runs') = Len(runs)
      /\ \A k \in DOMAIN runs : /\ runs'[k].of = runs[k].of /\ runs'[k].recorded = runs[k].recorded
                                /\ ~runs'[k].everSettled => ~runs[k].everSettled
                                /\ k # i => runs'[k] = runs[k]
      /\ runs'[i].status = t /\ (~runs'[i].everSettled => t = "active")
  <2>1. runs \in Seq(Sch!Run) /\ runs[i] \in Sch!Run
    BY DEF OverlapInv, Sch!TypeOK
  <2>2. runs' = [runs EXCEPT ![i] = [runs[i] EXCEPT !.status = t, !.everSettled = @ \/ Sch!Settled(t)]]
    BY DEF Sch!RunMoves
  <2>3. /\ runs'[i] = [runs[i] EXCEPT !.status = t, !.everSettled = runs[i].everSettled \/ Sch!Settled(t)]
        /\ \A k \in DOMAIN runs : k # i => runs'[k] = runs[k]
    BY <2>1, <2>2
  <2>4. DOMAIN runs' = DOMAIN runs /\ Len(runs') = Len(runs)
    BY <2>1, <2>2
  <2>5. /\ runs'[i].of = runs[i].of /\ runs'[i].recorded = runs[i].recorded /\ runs'[i].status = t
        /\ runs'[i].everSettled = (runs[i].everSettled \/ Sch!Settled(t))
    BY <2>1, <2>3 DEF Sch!Run
  <2>6. ~runs'[i].everSettled => ~runs[i].everSettled /\ t = "active"
    <3>1. ~Sch!Settled(t) => t = "active"
      BY DEF Sch!Settled
    <3> QED BY <2>5, <3>1, Zenon
  <2>7. ASSUME NEW k \in DOMAIN runs
        PROVE  /\ runs'[k].of = runs[k].of /\ runs'[k].recorded = runs[k].recorded
               /\ ~runs'[k].everSettled => ~runs[k].everSettled
               /\ k # i => runs'[k] = runs[k]
    <3>1. CASE k = i
      BY <2>5, <2>6, <3>1
    <3>2. CASE k # i
      <4>1. runs'[k] = runs[k]
        BY <2>3, <3>2
      <4> QED BY <4>1, <3>2, Zenon
    <3> QED BY <3>1, <3>2
  <2> QED BY <2>1, <2>4, <2>5, <2>6, <2>7
<1>4. \A k \in DOMAIN runs : Unended(k)' => Unended(k)
  BY <1>3 DEF Unended
<1>5. LastKnown' /\ DueKnown' /\ NoneAfter'
  BY <1>2, <1>3, <1>4 DEF OverlapInv, LastKnown, DueKnown, NoneAfter
<1>6. Recording'
  BY <1>2, <1>3 DEF OverlapInv, Recording, Sch!AtRow, Sch!Earlier, Sch!TypeOK
<1>7. ActiveUntilSettled'
  BY <1>3 DEF OverlapInv, ActiveUntilSettled
<1> QED BY <1>1, <1>5, <1>6, <1>7 DEF OverlapInv

LEMMA OverlapInvariant == ASSUME Sch!SchedulesAssumption PROVE Sch!Spec => []OverlapInv
<1>1. Sch!Init => OverlapInv
  BY OverlapInit
<1>2. OverlapInv /\ [Sch!Next]_Sch!vars => OverlapInv'
  <2> SUFFICES ASSUME OverlapInv, [Sch!Next]_Sch!vars PROVE OverlapInv'
    OBVIOUS
  <2>1. CASE UNCHANGED Sch!vars
    <3>1. Sch!TypeOK' /\ runs' = runs /\ disp' = disp /\ Kept
      BY <2>1 DEF Sch!vars, OverlapInv, Sch!TypeOK, Kept
    <3> QED BY <3>1, QuietStep
  <2>2. ASSUME NEW d \in Daemons, Sch!Dispatch(d) PROVE OverlapInv'
    BY <2>2, TickOverlap, PassOverlap, EnqueueOverlap, RecordOverlap DEF Sch!Dispatch
  <2> QED BY <2>1, <2>2, OperatorOverlap, PassOverlap, RunMovesOverlap DEF Sch!Next
<1> QED BY <1>1, <1>2, PTL DEF Sch!Spec

\* Every reachable state of Schedules is well typed.
THEOREM SchedulesTypeCorrect == ASSUME Sch!SchedulesAssumption PROVE Sch!Spec => []Sch!TypeOK
<1>1. OverlapInv => Sch!TypeOK
  BY DEF OverlapInv
<1> QED BY <1>1, OverlapInvariant, PTL

\* With one dispatcher alive at a time, and however its ticks fail, its daemon
\* dies and operators pause, resume and delete between the scan of the due rows
\* and their records: two runs of a skip schedule are under way at once only if
\* the older one's fire was never recorded or it had settled once.
THEOREM OverlapNeedsAnExcuseHolds ==
    ASSUME Sch!SchedulesAssumption PROVE Sch!Spec => []Sch!OverlapNeedsAnExcuse
<1>1. OverlapInv => Sch!OverlapNeedsAnExcuse
  BY DEF OverlapInv, NoneAfter, Unended, Sch!OverlapNeedsAnExcuse
<1> QED BY <1>1, OverlapInvariant, PTL

----------------------------------------------------------------------------
(* Logins at MCP servers.                                                  *)

(* The states put before an operator were generated; a login that is about *)
(* to ask finds none of them in the row.                                   *)
ShownBefore ==
    /\ shown \subseteq 1 .. nonce
    /\ row # None => row.csrf = None \/ row.csrf <= nonce
    /\ login.pc \in {"asked", "exchanged", "cleared"} => login.csrf # None
    /\ login.csrf # None => login.csrf <= nonce
    /\ login.pc = "connecting" /\ row # None => row.csrf \notin shown

(* The row holds the refresh token the server issued last; a copy none.    *)
GrantsHonoured ==
    /\ completed \subseteq 0 .. grant
    /\ row # None /\ row.tokens # None => row.tokens.refresh = grant
    /\ copy # None => copy.tokens # None /\ copy.tokens.refresh = None

(* A login that has exchanged its code acted as a client the server knows, *)
(* the one its tokens name as long as they are there.                      *)
ClientKept ==
    login.pc \in {"exchanged", "cleared"} =>
        /\ login.client \in Genuine \union {"registered", None}
        /\ row # None /\ row.tokens # None => row.tokens.client = L!ActsAs(row, login.client)

LoginInv ==
    /\ L!TypeOK /\ ShownBefore /\ GrantsHonoured /\ ClientKept
    /\ L!StateIsFresh /\ L!ClientIsProven /\ L!DaemonCanRefresh

LEMMA LoginInit == L!McpLoginAssumption /\ L!Init => LoginInv
<1> SUFFICES ASSUME L!McpLoginAssumption, L!Init PROVE LoginInv
  OBVIOUS
<1>1. L!TypeOK
  <2>1. 0 \in L!Grants /\ 0 \in 0 .. MaxNonces
    BY DEF L!Grants, L!McpLoginAssumption
  <2>2. L!AtRest \in L!Logins
    BY DEF L!AtRest, L!Logins
  <2> QED BY <2>1, <2>2 DEF L!Init, L!TypeOK
<1>2. ShownBefore /\ GrantsHonoured /\ ClientKept
  BY DEF L!Init, L!AtRest, ShownBefore, GrantsHonoured, ClientKept
<1>3. L!StateIsFresh /\ L!ClientIsProven /\ L!DaemonCanRefresh
  BY DEF L!Init, L!AtRest, L!StateIsFresh, L!ClientIsProven, L!DaemonCanRefresh
<1> QED BY <1>1, <1>2, <1>3 DEF LoginInv

\* A row without its transients.
LEMMA ClearedRow ==
    ASSUME NEW r \in L!Rows \union {None}, r # None
    PROVE  /\ L!ClearTransient(r) \in L!Rows /\ L!ClearTransient(r).csrf = None
           /\ L!ClearTransient(r).client = r.client /\ L!ClearTransient(r).tokens = r.tokens
<1>1. r \in L!Rows
  OBVIOUS
<1> QED BY <1>1 DEF L!ClearTransient, L!Rows

\* The row an authorization has begun in.
LEMMA BegunRow ==
    ASSUME L!McpLoginAssumption, L!TypeOK, NEW preset \in Clients \union {None}, nonce < MaxNonces
    PROVE  /\ L!Begun(preset) \in L!Rows
           /\ L!Begun(preset).tokens = L!Blob.tokens
           /\ L!Begun(preset).client = IF preset = None /\ L!Blob.client = None THEN "registered" ELSE L!Blob.client
           /\ L!Begun(preset).csrf = IF L!Blob.csrf = None THEN nonce + 1 ELSE L!Blob.csrf
           /\ L!Begun(preset).verifier = nonce + 1
<1>1. L!Blank \in L!Rows
  BY DEF L!Blank, L!Rows
<1>2. L!Blob \in L!Rows
  BY <1>1 DEF L!Blob, L!TypeOK
<1>3. nonce + 1 \in L!Nonces
  BY DEF L!TypeOK, L!McpLoginAssumption, L!Nonces
<1> QED BY <1>2, <1>3 DEF L!Begun, L!Rows

\* The fields of a row and of a login.
LEMMA LoginFields ==
    ASSUME L!McpLoginAssumption, L!TypeOK
    PROVE  /\ L!Blob \in L!Rows /\ L!Blank \in L!Rows /\ None \notin L!Rows
           /\ L!Blob.tokens # None => row \in L!Rows /\ L!Blob = row /\ row.tokens \in L!TokenSets
           /\ grant \in Nat /\ nonce \in Nat /\ None \notin Nat
<1>1. L!Blank \in L!Rows /\ L!Blank.tokens = None
  BY DEF L!Blank, L!Rows
<1>2. L!Blob \in L!Rows /\ (L!Blob.tokens # None => row \in L!Rows /\ L!Blob = row)
  BY <1>1 DEF L!Blob, L!TypeOK
<1>3. L!Blob.tokens # None => row.tokens \in L!TokenSets
  BY <1>2 DEF L!Rows
<1> QED BY <1>1, <1>2, <1>3 DEF L!TypeOK, L!McpLoginAssumption, L!Grants

\* A silent refresh.
LEMMA RefreshedRow ==
    ASSUME L!McpLoginAssumption, LoginInv, L!Blob.tokens # None, grant < MaxGrants, L!Refresh
    PROVE  /\ row # None /\ row' \in L!Rows /\ row'.csrf = row.csrf /\ row'.client = row.client
           /\ row'.tokens # None /\ row'.tokens.client = row.tokens.client /\ row'.tokens.refresh = grant + 1
           /\ grant' = grant + 1 /\ grant' \in L!Grants /\ completed' \subseteq L!Grants
           /\ completed' \subseteq 0 .. grant'
           /\ grant' \in completed' => grant \in completed
<1>1. row \in L!Rows /\ row.tokens \in L!TokenSets /\ grant \in Nat /\ None \notin L!Rows /\ None \notin L!TokenSets
  BY LoginFields DEF LoginInv, L!McpLoginAssumption
<1>2. grant + 1 \in L!Grants
  BY <1>1 DEF L!Grants, L!McpLoginAssumption
<1>3. [row.tokens EXCEPT !.refresh = grant + 1] \in L!TokenSets
  BY <1>1, <1>2 DEF L!TokenSets
<1>4. row' = [row EXCEPT !.tokens = [row.tokens EXCEPT !.refresh = grant + 1]]
  BY <1>1 DEF L!Refresh, L!Rows
<1>5. /\ row' \in L!Rows /\ row'.csrf = row.csrf /\ row'.client = row.client
      /\ row'.tokens = [row.tokens EXCEPT !.refresh = grant + 1]
  BY <1>1, <1>3, <1>4 DEF L!Rows
<1>6. row'.tokens.client = row.tokens.client /\ row'.tokens.refresh = grant + 1
  BY <1>1, <1>5 DEF L!TokenSets
<1>7. completed' \subseteq 0 .. grant' /\ completed' \subseteq L!Grants /\ (grant' \in completed' => grant \in completed)
  BY <1>1, <1>2 DEF L!Refresh, LoginInv, GrantsHonoured, L!TypeOK
<1> QED BY <1>1, <1>2, <1>3, <1>5, <1>6, <1>7 DEF L!Refresh
\* A step that leaves row, login and grants alone.
LEMMA LoginQuiet ==
    ASSUME L!McpLoginAssumption, LoginInv, UNCHANGED <<row, login, nonce, grant, shown, completed>>,
           copy' = copy \/ copy' = None \/ (copy' \in L!Rows /\ copy'.tokens # None /\ copy'.tokens.refresh = None),
           expired' \in BOOLEAN, code' \in {None, 0, 1}
    PROVE  LoginInv'
<1>1. L!TypeOK'
  BY DEF LoginInv, L!TypeOK
<1>2. ShownBefore' /\ ClientKept' /\ L!StateIsFresh' /\ L!ClientIsProven' /\ L!DaemonCanRefresh'
  BY DEF LoginInv, ShownBefore, ClientKept, L!ActsAs, L!StateIsFresh, L!ClientIsProven, L!DaemonCanRefresh
<1>3. GrantsHonoured'
  BY DEF LoginInv, GrantsHonoured
<1> QED BY <1>1, <1>2, <1>3 DEF LoginInv

\* A login begins: no state of an earlier one is left in the row.
LEMMA StartStep == ASSUME L!McpLoginAssumption, LoginInv, L!Start PROVE LoginInv'
<1>1. PICK c \in Clients \union {None} : login' = [L!AtRest EXCEPT !.pc = "connecting", !.client = c]
  BY DEF L!Start
<1>2. login' \in L!Logins /\ login'.pc = "connecting" /\ login'.csrf = None
  BY <1>1 DEF L!AtRest, L!Logins
<1>3. row # None => /\ row' \in L!Rows /\ row'.csrf = None /\ row' # None
                    /\ row'.client = row.client /\ row'.tokens = row.tokens
  BY ClearedRow DEF L!Start, LoginInv, L!TypeOK, L!McpLoginAssumption
<1>4. row = None => row' = None
  BY DEF L!Start, L!ClearTransient
<1>5. UNCHANGED <<nonce, grant, expired, copy, shown, completed>> /\ code' = None
  BY DEF L!Start, L!history
<1>6. L!TypeOK'
  BY <1>2, <1>3, <1>4, <1>5 DEF LoginInv, L!TypeOK
<1>7. None \notin Nat /\ nonce \in Nat
  BY LoginFields DEF LoginInv
<1>8. ShownBefore'
  <2>1. shown' \subseteq 1 .. nonce' /\ None \notin shown'
    <3>1. shown \subseteq 1 .. nonce
      BY DEF LoginInv, ShownBefore
    <3>2. \A x \in 1 .. nonce : x \in Nat
      BY <1>7
    <3> QED BY <1>5, <1>7, <3>1, <3>2
  <2>2. row' # None => row'.csrf = None
    BY <1>3, <1>4
  <2> QED BY <1>2, <2>1, <2>2 DEF ShownBefore
<1>9. GrantsHonoured' /\ ClientKept' /\ L!StateIsFresh' /\ L!ClientIsProven' /\ L!DaemonCanRefresh'
  BY <1>2, <1>3, <1>4, <1>5 DEF LoginInv, GrantsHonoured, ClientKept, L!StateIsFresh, L!ClientIsProven,
                                L!DaemonCanRefresh
<1> QED BY <1>6, <1>8, <1>9 DEF LoginInv

\* Tokens are refreshed, by a login or by the daemon.
LEMMA RefreshStep == ASSUME L!McpLoginAssumption, LoginInv, L!RefreshedIn \/ L!HeadlessRefresh PROVE LoginInv'
<1>1. /\ L!Blob.tokens # None /\ grant < MaxGrants /\ L!Refresh
      /\ UNCHANGED <<nonce, copy, shown>> /\ (login' = L!AtRest \/ login' = login)
      /\ code' \in {code, 0}
  BY DEF L!RefreshedIn, L!HeadlessRefresh, L!CanRefresh
<1>2. /\ row # None /\ row' \in L!Rows /\ row'.csrf = row.csrf /\ row'.client = row.client
      /\ row'.tokens # None /\ row'.tokens.client = row.tokens.client /\ row'.tokens.refresh = grant + 1
      /\ grant' = grant + 1 /\ grant' \in L!Grants /\ completed' \subseteq L!Grants
      /\ completed' \subseteq 0 .. grant'
      /\ grant' \in completed' => grant \in completed
  BY <1>1, RefreshedRow
<1>3. row' # None /\ expired' = FALSE
  BY <1>1, <1>2, LoginFields DEF LoginInv, L!Refresh
<1>4. row.tokens # None /\ row.tokens.refresh = grant
  BY <1>1, <1>2 DEF L!Blob, LoginInv, GrantsHonoured
<1>5. L!AtRest \in L!Logins /\ L!AtRest.pc = "idle" /\ L!AtRest.csrf = None
  BY DEF L!AtRest, L!Logins
<1>6. L!TypeOK'
  BY <1>1, <1>2, <1>3, <1>5 DEF LoginInv, L!TypeOK
<1>7. ShownBefore'
  BY <1>1, <1>2, <1>3, <1>5 DEF LoginInv, ShownBefore
<1>8. GrantsHonoured'
  BY <1>1, <1>2, <1>3 DEF LoginInv, GrantsHonoured
<1>9. ClientKept'
  BY <1>1, <1>2, <1>3, <1>4, <1>5 DEF LoginInv, ClientKept, L!ActsAs
<1>10. L!StateIsFresh' /\ L!ClientIsProven'
  BY <1>1, <1>2, <1>3, <1>5 DEF LoginInv, L!StateIsFresh, L!ClientIsProven
<1>11. L!DaemonCanRefresh'
  BY <1>2, <1>3, <1>4 DEF LoginInv, L!DaemonCanRefresh
<1> QED BY <1>6, <1>7, <1>8, <1>9, <1>10, <1>11 DEF LoginInv

\* A flow begins, before an operator or headless.
LEMMA BeginStep == ASSUME L!McpLoginAssumption, LoginInv, L!AskOperator \/ L!HeadlessThrows PROVE LoginInv'
<1>1. PICK preset \in Clients \union {None} :
        /\ L!Begin(preset)
        /\ \/ /\ preset = None /\ login' = login
           \/ /\ login.pc = "connecting"
              /\ login' = [login EXCEPT !.pc = "asked", !.csrf = row'.csrf, !.verifier = row'.verifier]
  BY DEF L!AskOperator, L!HeadlessThrows, LoginInv, L!TypeOK, L!Logins
<1>2. UNCHANGED <<grant, expired, copy, code, shown, completed>>
  BY DEF L!AskOperator, L!HeadlessThrows, L!history
<1>3. /\ nonce < MaxNonces /\ nonce' = nonce + 1 /\ row' \in L!Rows
      /\ row'.tokens = L!Blob.tokens
      /\ row'.client = IF preset = None /\ L!Blob.client = None THEN "registered" ELSE L!Blob.client
      /\ row'.csrf = IF L!Blob.csrf = None THEN nonce + 1 ELSE L!Blob.csrf
  BY <1>1, BegunRow DEF L!Begin, LoginInv
<1>4. /\ row' # None /\ nonce \in Nat /\ None \notin Nat /\ nonce' \in 0 .. MaxNonces /\ nonce' \in L!Nonces
      /\ shown \subseteq 1 .. nonce
  BY <1>3, LoginFields DEF LoginInv, L!McpLoginAssumption, L!Nonces, L!TypeOK, ShownBefore
<1>5. row = None => L!Blob.tokens = None /\ L!Blob.client = None /\ L!Blob.csrf = None
  BY DEF L!Blob, L!Blank
<1>6. row # None => L!Blob = row
  BY DEF L!Blob
<1>7. /\ row'.csrf \in L!Nonces /\ row'.csrf <= nonce'
      /\ login.pc = "connecting" => row'.csrf \notin shown
  <2>1. CASE L!Blob.csrf = None
    <3>1. row'.csrf = nonce'
      BY <1>3, <2>1
    <3> QED BY <1>4, <1>3, <3>1
  <2>2. CASE L!Blob.csrf # None
    <3>1. row # None /\ row'.csrf = row.csrf /\ row.csrf # None
      BY <1>3, <1>5, <1>6, <2>2
    <3>2. row.csrf \in L!Nonces /\ row.csrf <= nonce /\ (login.pc = "connecting" => row.csrf \notin shown)
      BY <3>1 DEF LoginInv, ShownBefore, L!TypeOK, L!Rows
    <3> QED BY <1>3, <1>4, <3>1, <3>2 DEF L!Nonces
  <2> QED BY <2>1, <2>2
<1>8. /\ login' \in L!Logins
      /\ \/ login' = login
         \/ /\ login.pc = "connecting" /\ login'.pc = "asked" /\ login'.csrf = row'.csrf
            /\ login'.client = login.client
  <2>1. login \in L!Logins /\ row'.csrf \in L!Nonces /\ row'.verifier \in L!Nonces \union {None}
    BY <1>3, <1>7 DEF LoginInv, L!TypeOK, L!Rows
  <2> QED BY <1>1, <2>1 DEF L!Logins
<1>9. L!TypeOK'
  BY <1>2, <1>3, <1>4, <1>8 DEF LoginInv, L!TypeOK
<1>10. ShownBefore'
  <2>1. shown' \subseteq 1 .. nonce'
    BY <1>2, <1>3, <1>4
  <2>2. /\ login'.pc \in {"asked", "exchanged", "cleared"} => login'.csrf # None
        /\ login'.csrf # None => login'.csrf <= nonce'
    <3>1. row'.csrf # None
      BY <1>4, <1>7 DEF L!Nonces
    <3>2. login.csrf # None => login.csrf <= nonce /\ login.csrf \in Nat
      BY DEF LoginInv, ShownBefore, L!TypeOK, L!Logins, L!Nonces
    <3> QED BY <1>3, <1>4, <1>7, <1>8, <3>1, <3>2 DEF LoginInv, ShownBefore
  <2>3. login'.pc = "connecting" => row'.csrf \notin shown'
    BY <1>2, <1>7, <1>8
  <2> QED BY <1>7, <2>1, <2>2, <2>3 DEF ShownBefore
<1>11. GrantsHonoured'
  BY <1>2, <1>3, <1>5, <1>6 DEF LoginInv, GrantsHonoured
<1>12. ClientKept'
  <2> SUFFICES ASSUME login'.pc \in {"exchanged", "cleared"}
               PROVE  /\ login'.client \in Genuine \union {"registered", None}
                      /\ row'.tokens # None => row'.tokens.client = L!ActsAs(row', login'.client)
    BY DEF ClientKept, L!ActsAs
  <2>1. login' = login
    BY <1>8
  <2>2. row'.tokens # None => row # None /\ row.tokens # None /\ row'.tokens = row.tokens
    BY <1>3, <1>5, <1>6
  <2>3. row'.tokens # None => row'.client = row.client \/ login.client # None
    <3>1. row'.tokens # None => row.tokens.client # None
      <4>1. row'.tokens # None => row.tokens \in L!TokenSets
        BY <2>2, LoginFields DEF LoginInv, L!Blob
      <4> QED BY <4>1 DEF L!TokenSets, L!McpLoginAssumption
    <3>2. row'.tokens # None /\ login.client = None => row.client # None
      BY <2>1, <2>2, <3>1 DEF LoginInv, ClientKept, L!ActsAs
    <3> QED BY <1>3, <1>6, <2>2, <3>2
  <2> QED BY <2>1, <2>2, <2>3 DEF LoginInv, ClientKept, L!ActsAs
<1>13. L!StateIsFresh'
  BY <1>2, <1>7, <1>8 DEF LoginInv, L!StateIsFresh
<1>14. L!ClientIsProven'
  BY <1>3, <1>5, <1>6 DEF LoginInv, L!ClientIsProven
<1>15. L!DaemonCanRefresh'
  <2> SUFFICES ASSUME row'.tokens # None, row'.tokens.refresh \in completed
               PROVE  row'.tokens.refresh = grant /\ row'.client = row'.tokens.client
    BY <1>2 DEF L!DaemonCanRefresh
  <2>1. row # None /\ row.tokens # None /\ row'.tokens = row.tokens
    BY <1>3, <1>5, <1>6
  <2>2. row.tokens \in L!TokenSets /\ row.client = row.tokens.client /\ row.tokens.refresh = grant
    BY <2>1, LoginFields DEF LoginInv, L!DaemonCanRefresh, L!Blob
  <2>3. row.client # None
    BY <2>2 DEF L!TokenSets, L!McpLoginAssumption
  <2> QED BY <1>3, <1>6, <2>1, <2>2, <2>3
<1> QED BY <1>9, <1>10, <1>11, <1>12, <1>13, <1>14, <1>15 DEF LoginInv

\* The code of the callback is exchanged: the new grant is not yet of a login that ended.
LEMMA ExchangeStep == ASSUME L!McpLoginAssumption, LoginInv, L!Exchange PROVE LoginInv'
<1>1. row \in L!Rows /\ grant \in Nat /\ None \notin L!Rows /\ None \notin L!TokenSets /\ login \in L!Logins
  BY LoginFields DEF LoginInv, L!TypeOK, L!Exchange, L!McpLoginAssumption
<1> DEFINE client == L!ActsAs(row, login.client)
<1>2. client \in Genuine \union {"registered"} /\ client # None
  BY DEF L!Exchange, L!McpLoginAssumption
<1>3. grant + 1 \in L!Grants /\ L!Tokens(client, grant + 1) \in L!TokenSets
  BY <1>1, <1>2 DEF L!Grants, L!McpLoginAssumption, L!Exchange, L!Tokens, L!TokenSets
<1>4. /\ row' \in L!Rows /\ row'.client = row.client /\ row'.csrf = row.csrf
      /\ row'.tokens = L!Tokens(client, grant + 1)
  BY <1>1, <1>3 DEF L!Exchange, L!Rows
<1>5. row'.tokens # None /\ row'.tokens.client = client /\ row'.tokens.refresh = grant + 1 /\ row' # None
  BY <1>1, <1>3, <1>4 DEF L!Tokens
<1>6. /\ login' \in L!Logins /\ login'.pc = "exchanged" /\ login.pc = "asked"
      /\ login'.client = login.client /\ login'.csrf = login.csrf
  BY <1>1 DEF L!Exchange, L!Logins
<1>7. grant' = grant + 1 /\ expired' = FALSE /\ UNCHANGED <<nonce, copy, code, shown, completed>>
  BY DEF L!Exchange, L!history
<1>8. L!TypeOK'
  BY <1>3, <1>4, <1>6, <1>7 DEF LoginInv, L!TypeOK
<1>9. ShownBefore'
  BY <1>4, <1>6, <1>7, <1>1 DEF LoginInv, ShownBefore, L!Exchange
<1>10. GrantsHonoured'
  BY <1>1, <1>5, <1>7 DEF LoginInv, GrantsHonoured
<1>11. ClientKept'
  <2>1. login.client \in Genuine \union {"registered", None}
    BY <1>2 DEF L!ActsAs
  <2>2. L!ActsAs(row', login'.client) = client
    BY <1>4, <1>6 DEF L!ActsAs
  <2> QED BY <1>5, <1>6, <2>1, <2>2 DEF ClientKept, L!ActsAs
<1>12. L!StateIsFresh' /\ L!ClientIsProven'
  BY <1>1, <1>4, <1>6 DEF LoginInv, L!StateIsFresh, L!ClientIsProven
<1>13. L!DaemonCanRefresh'
  BY <1>1, <1>5, <1>7 DEF LoginInv, GrantsHonoured, L!DaemonCanRefresh
<1> QED BY <1>8, <1>9, <1>10, <1>11, <1>12, <1>13 DEF LoginInv
\* The transients are cleared, the client is persisted, the login ends.
LEMMA EndStep == ASSUME L!McpLoginAssumption, LoginInv, L!Clear \/ L!Finish \/ L!GiveUp PROVE LoginInv'
<1>0. /\ login \in L!Logins /\ row \in L!Rows \union {None} /\ None \notin L!Rows /\ None \notin L!TokenSets
      /\ None \notin Nat /\ grant \in Nat /\ nonce \in Nat
      /\ L!AtRest \in L!Logins /\ L!AtRest.pc = "idle" /\ L!AtRest.csrf = None
  BY LoginFields DEF LoginInv, L!TypeOK, L!McpLoginAssumption, L!AtRest, L!Logins
<1>1. CASE L!Clear
  <2>1. /\ login' \in L!Logins /\ login'.pc = "cleared" /\ login.pc = "exchanged"
        /\ login'.client = login.client /\ login'.csrf = login.csrf
    BY <1>0, <1>1 DEF L!Clear, L!Logins
  <2>2. row # None => /\ row' \in L!Rows /\ row'.csrf = None /\ row'.client = row.client /\ row'.tokens = row.tokens
    BY <1>0, <1>1, ClearedRow DEF L!Clear
  <2>3. row = None => row' = None
    BY <1>1 DEF L!Clear, L!ClearTransient
  <2>4. UNCHANGED <<nonce, grant, expired, copy, code, shown, completed>>
    BY <1>1 DEF L!Clear, L!history
  <2>5. L!TypeOK'
    BY <2>1, <2>2, <2>3, <2>4 DEF LoginInv, L!TypeOK
  <2>6. ShownBefore'
    BY <2>1, <2>2, <2>3, <2>4 DEF LoginInv, ShownBefore
  <2>7. GrantsHonoured' /\ ClientKept' /\ L!StateIsFresh' /\ L!ClientIsProven' /\ L!DaemonCanRefresh'
    BY <2>1, <2>2, <2>3, <2>4 DEF LoginInv, GrantsHonoured, ClientKept, L!ActsAs, L!StateIsFresh, L!ClientIsProven,
                                  L!DaemonCanRefresh
  <2> QED BY <2>5, <2>6, <2>7 DEF LoginInv
<1>2. CASE L!Finish
  <2>1. L!Blob \in L!Rows /\ (row # None => L!Blob = row) /\ (row = None => L!Blob = L!Blank)
    BY <1>0, LoginFields DEF LoginInv, L!Blob
  <2>2. /\ login.pc = "cleared" /\ login.client \in Clients \union {None}
        /\ login.client \in Genuine \union {"registered", None}
        /\ login.csrf \in L!Nonces /\ login.csrf <= nonce /\ login.csrf >= 1
    BY <1>0, <1>2 DEF L!Finish, LoginInv, ShownBefore, ClientKept, L!Logins, L!Nonces
  <2>3. /\ row' \in L!Rows /\ row'.tokens = L!Blob.tokens /\ row'.csrf = L!Blob.csrf
        /\ row'.client = IF login.client = None THEN L!Blob.client ELSE login.client
    BY <1>2, <2>1, <2>2 DEF L!Finish, L!WithClient, L!Rows
  <2>4. /\ login' = L!AtRest /\ code' = 0 /\ completed' = completed \union {grant}
        /\ shown' = shown \union {login.csrf} /\ UNCHANGED <<nonce, grant, expired, copy>>
    BY <1>2 DEF L!Finish
  <2>5. L!Blank.tokens = None /\ L!Blank.client = None /\ L!Blank.csrf = None
    BY DEF L!Blank
  <2>6. L!TypeOK'
    BY <1>0, <2>2, <2>3, <2>4 DEF LoginInv, L!TypeOK
  <2>7. ShownBefore'
    <3>1. shown' \subseteq 1 .. nonce'
      <4>1. shown \subseteq 1 .. nonce /\ login.csrf \in 1 .. nonce
        BY <1>0, <2>2 DEF LoginInv, ShownBefore, L!Nonces
      <4> QED BY <2>4, <4>1
    <3>2. row'.csrf = None \/ row'.csrf <= nonce'
      BY <2>1, <2>3, <2>4, <2>5 DEF LoginInv, ShownBefore
    <3> QED BY <1>0, <2>4, <3>1, <3>2 DEF ShownBefore
  <2>8. GrantsHonoured'
    BY <1>0, <2>1, <2>3, <2>4, <2>5 DEF LoginInv, GrantsHonoured
  <2>9. ClientKept' /\ L!StateIsFresh'
    BY <1>0, <2>4 DEF ClientKept, L!StateIsFresh
  <2>10. L!ClientIsProven'
    BY <2>1, <2>2, <2>3, <2>5 DEF LoginInv, L!ClientIsProven
  <2>11. L!DaemonCanRefresh'
    <3> SUFFICES ASSUME row'.tokens # None
                 PROVE  row'.tokens.refresh = grant /\ row'.client = row'.tokens.client
      BY <2>4 DEF L!DaemonCanRefresh
    <3>1. row # None /\ row.tokens # None /\ row'.tokens = row.tokens /\ L!Blob = row
      BY <2>1, <2>3, <2>5
    <3>2. row.tokens.refresh = grant /\ row.tokens.client = IF login.client = None THEN row.client ELSE login.client
      BY <2>2, <3>1 DEF LoginInv, GrantsHonoured, ClientKept, L!ActsAs
    <3> QED BY <2>3, <3>1, <3>2
  <2> QED BY <2>6, <2>7, <2>8, <2>9, <2>10, <2>11 DEF LoginInv
<1>3. CASE L!GiveUp
  <2>1. /\ login' = L!AtRest /\ code' = 1 /\ UNCHANGED <<row, nonce, grant, expired, copy, completed>>
        /\ shown' = IF login.csrf # None THEN shown \union {login.csrf} ELSE shown
    BY <1>3 DEF L!GiveUp
  <2>2. login.csrf # None => login.csrf \in L!Nonces /\ login.csrf <= nonce /\ login.csrf >= 1
    BY <1>0 DEF LoginInv, ShownBefore, L!Logins, L!Nonces
  <2>3. L!TypeOK'
    BY <1>0, <2>1, <2>2 DEF LoginInv, L!TypeOK
  <2>4. shown' \subseteq 1 .. nonce'
    BY <1>0, <2>1, <2>2 DEF LoginInv, ShownBefore, L!Nonces
  <2>5. ShownBefore' /\ GrantsHonoured' /\ ClientKept' /\ L!StateIsFresh' /\ L!ClientIsProven' /\ L!DaemonCanRefresh'
    BY <1>0, <2>1, <2>4 DEF LoginInv, ShownBefore, GrantsHonoured, ClientKept, L!StateIsFresh, L!ClientIsProven,
                            L!DaemonCanRefresh
  <2> QED BY <2>3, <2>5 DEF LoginInv
<1> QED BY <1>1, <1>2, <1>3

\* The row is removed.
LEMMA LogoutStep == ASSUME L!McpLoginAssumption, LoginInv, L!Logout PROVE LoginInv'
<1>1. row' = None /\ UNCHANGED <<login, nonce, grant, expired, copy, code, shown, completed>>
  BY DEF L!Logout, L!history
<1> QED BY <1>1 DEF LoginInv, L!TypeOK, ShownBefore, GrantsHonoured, ClientKept, L!StateIsFresh, L!ClientIsProven,
                    L!DaemonCanRefresh

\* A refusal, a login that the stored token satisfies, and the copy of a ci run:
\* it takes no refresh token along, so that the run's end uses up no grant.
LEMMA CopyStep ==
    ASSUME L!McpLoginAssumption, LoginInv, L!Refuse \/ L!AlreadyIn \/ L!Expire \/ L!CopyForCi \/ L!CiEnds
    PROVE  LoginInv'
<1>0. /\ L!Blob \in L!Rows /\ (L!Blob.tokens # None => L!Blob.tokens \in L!TokenSets)
      /\ grant \in Nat /\ None \notin Nat /\ None \notin L!TokenSets
  BY LoginFields DEF LoginInv, L!McpLoginAssumption
<1>1. CASE L!AlreadyIn
  <2>1. login' = L!AtRest /\ code' = 0 /\ UNCHANGED <<row, nonce, grant, expired, copy, shown, completed>>
    BY <1>1 DEF L!AlreadyIn, L!history
  <2>2. L!AtRest \in L!Logins /\ L!AtRest.pc = "idle" /\ L!AtRest.csrf = None
    BY DEF L!AtRest, L!Logins
  <2>3. L!TypeOK'
    BY <2>1, <2>2 DEF LoginInv, L!TypeOK
  <2>4. ShownBefore' /\ GrantsHonoured' /\ ClientKept' /\ L!StateIsFresh' /\ L!ClientIsProven' /\ L!DaemonCanRefresh'
    BY <2>1, <2>2 DEF LoginInv, ShownBefore, GrantsHonoured, ClientKept, L!StateIsFresh, L!ClientIsProven,
                      L!DaemonCanRefresh
  <2> QED BY <2>3, <2>4 DEF LoginInv
<1>2. CASE L!Refuse \/ L!Expire
  BY <1>2, LoginQuiet DEF L!Refuse, L!Expire, L!history, LoginInv, L!TypeOK
<1>3. CASE L!CopyForCi
  <2>1. /\ L!Blob.tokens # None /\ UNCHANGED <<row, login, nonce, grant, expired, code, shown, completed>>
        /\ copy' = [L!Blob EXCEPT !.csrf = None, !.verifier = None, !.tokens.refresh = None]
    BY <1>3 DEF L!CopyForCi, L!Portable, L!history
  <2>2. [L!Blob.tokens EXCEPT !.refresh = None] \in L!TokenSets
    BY <1>0, <2>1 DEF L!TokenSets
  <2>3. copy' = [L!Blob EXCEPT !.csrf = None, !.verifier = None, !.tokens = [L!Blob.tokens EXCEPT !.refresh = None]]
    BY <1>0, <2>1 DEF L!Rows
  <2>4. copy' \in L!Rows /\ copy'.tokens = [L!Blob.tokens EXCEPT !.refresh = None]
    BY <1>0, <2>2, <2>3 DEF L!Rows
  <2>5. copy'.tokens # None /\ copy'.tokens.refresh = None
    BY <1>0, <2>1, <2>2, <2>4 DEF L!TokenSets
  <2> QED BY <2>1, <2>4, <2>5, LoginQuiet DEF LoginInv, L!TypeOK
<1>4. CASE L!CiEnds
  <2>1. copy.tokens.refresh # grant
    BY <1>0, <1>4 DEF L!CiEnds, LoginInv, GrantsHonoured
  <2> QED BY <1>4, <2>1, LoginQuiet DEF L!CiEnds, L!history, LoginInv, L!TypeOK
<1> QED BY <1>1, <1>2, <1>3, <1>4

LEMMA LoginInvariance == ASSUME L!McpLoginAssumption PROVE L!Spec => []LoginInv
<1>1. L!Init => LoginInv
  BY LoginInit
<1>2. LoginInv /\ [L!Next]_L!vars => LoginInv'
  <2> SUFFICES ASSUME LoginInv, [L!Next]_L!vars PROVE LoginInv'
    OBVIOUS
  <2>1. CASE UNCHANGED L!vars
    BY <2>1, LoginQuiet DEF L!vars, LoginInv, L!TypeOK
  <2>2. CASE L!Next
    BY <2>2, StartStep, RefreshStep, BeginStep, ExchangeStep, EndStep, LogoutStep, CopyStep DEF L!Next
  <2> QED BY <2>1, <2>2
<1> QED BY <1>1, <1>2, PTL DEF L!Spec

\* Every reachable state of McpLogin is well typed.
THEOREM LoginTypeCorrect == ASSUME L!McpLoginAssumption PROVE L!Spec => []L!TypeOK
<1>1. LoginInv => L!TypeOK
  BY DEF LoginInv
<1> QED BY <1>1, LoginInvariance, PTL

\* For any number of logins, interrupted after any of their steps, with logouts,
\* headless flows and ci runs in between: no CSRF state is shown twice, the row
\* never names a client the server does not know, and what a finished login left
\* can be refreshed by the daemon.
THEOREM LoginSoundHolds == ASSUME L!McpLoginAssumption PROVE L!Spec => []L!LoginSound
<1>1. LoginInv => L!LoginSound
  BY DEF LoginInv, L!LoginSound
<1> QED BY <1>1, LoginInvariance, PTL

----------------------------------------------------------------------------
(* The connections of MCP steps.                                           *)

\* A connect under way is about a connection that nobody holds yet and that
\* some step waits for.
Settling ==
    /\ \A k \in M!Keys : connecting[k] # None =>
         conn[connecting[k]].phase = "connecting" /\ conn[connecting[k]].key = k
    /\ \A i \in ConnIds : conn[i].phase = "connecting" =>
         /\ conn[i].leases = 0 /\ ~conn[i].timer /\ M!Holders(i) = {}
         /\ conn[i].key # None /\ connecting[conn[i].key] = i
         /\ \E s \in Steps : step[s].pc = "waiting" /\ step[s].on = i

\* A step is on a connection while it acquires one, and on one of its own only
\* without a key.
OnConn ==
    \A s \in Steps :
      /\ step[s].pc = "idle" => step[s].on = None
      /\ step[s].pc \in {"waiting", "probing", "listing", "dropped"} => step[s].key # None /\ step[s].on # None
      /\ step[s].pc = "dropped" => conn[step[s].on].phase = "closed"
      /\ step[s].key = None /\ step[s].on # None => conn[step[s].on].key = None

McpInv == M!TypeOK /\ Settling /\ OnConn /\ M!NobodyLeaks

\* Holders are steps, and the cardinality of a set of steps counts them.
LEMMA Counted ==
    ASSUME M!McpAssumption
    PROVE  /\ M!Cardinality({}) = 0
           /\ \A H \in SUBSET Steps :
                /\ M!Cardinality(H) \in Nat
                /\ M!Cardinality(H) = 0 <=> H = {}
                /\ \A s \in Steps \ H : M!Cardinality(H \union {s}) = M!Cardinality(H) + 1
                /\ \A s \in H : M!Cardinality(H \ {s}) = M!Cardinality(H) - 1
<1>1. \A X : (M!IsFiniteSet(X) <=> IsFiniteSet(X)) /\ M!Cardinality(X) = Cardinality(X)
  <2> TAKE X
  <2>1. M!IsFiniteSet(X) <=> IsFiniteSet(X)
    BY Zenon DEF M!IsFiniteSet, IsFiniteSet
  <2>2. M!Cardinality(X) = Cardinality(X)
    BY Zenon DEF M!Cardinality, Cardinality
  <2> QED BY <2>1, <2>2
<1>2. IsFiniteSet(Steps)
  BY <1>1 DEF M!McpAssumption
<1>3. ASSUME NEW H \in SUBSET Steps
      PROVE  /\ Cardinality(H) \in Nat
             /\ Cardinality(H) = 0 <=> H = {}
             /\ \A s \in Steps \ H : Cardinality(H \union {s}) = Cardinality(H) + 1
             /\ \A s \in H : Cardinality(H \ {s}) = Cardinality(H) - 1
  <2>1. IsFiniteSet(H)
    BY <1>2, FS_Subset
  <2> QED BY <2>1, FS_CardinalityType, FS_EmptySet, FS_AddElement, FS_RemoveElement
<1> QED BY <1>1, <1>3, FS_EmptySet

\* The connection a step opens is closed before, and no other step is on it.
LEMMA FreshIsFree ==
    ASSUME M!McpAssumption, NEW s \in Steps, NEW i \in M!Fresh(s)
    PROVE  i \in ConnIds /\ conn[i].phase = "closed" /\ \A t \in Steps \ {s} : step[t].on # i
<1> DEFINE F == M!Free(s)
<1>1. F # {} /\ i = M!Min(F) /\ F \subseteq Nat
  BY DEF M!Fresh, M!Free, M!McpAssumption
<1>2. PICK m \in F : \A y \in F : ~(<<y, m>> \in OpToRel(<, Nat))
  <2> HIDE DEF F
  <2> QED BY <1>1, NatLessThanWellFounded, WFMin
<1>3. ASSUME NEW y \in F PROVE m <= y
  <2> HIDE DEF F
  <2>1. m \in Nat /\ y \in Nat
    BY <1>1
  <2>2. y < m => <<y, m>> \in OpToRel(<, Nat)
    BY <2>1 DEF OpToRel
  <2>3. ~(y < m)
    BY <1>2, <2>2, Zenon
  <2> QED BY <2>1, <2>3
<1>4. i \in F
  <2> HIDE DEF F
  <2> QED BY <1>1, <1>3 DEF M!Min
<1> QED BY <1>4 DEF M!Free

\* What a step is assembled to has the type of a step, and keeps its key.
LEMMA AssembledType ==
    ASSUME NEW st \in M!Dispatches, NEW i \in ConnIds \union {None}, NEW l \in Listings \union {<<>>}
    PROVE  /\ M!Assembled(st, i, l) \in M!Dispatches
           /\ M!Assembled(st, i, l).on = i /\ M!Assembled(st, i, l).key = st.key
           /\ M!Assembled(st, i, l).pc \in {"running", "refused"}
<1>1. M!Selected(st.gate) \union M!Kept(st.gate, l) \subseteq M!Tools
  BY DEF M!Selected, M!Kept, M!Tools
<1> QED BY <1>1 DEF M!Assembled, M!Dispatches

\* A step without a connection is well typed.
LEMMA AtRestType ==
    /\ M!AtRest \in M!Dispatches /\ M!AtRest.pc = "idle" /\ M!AtRest.on = None /\ M!AtRest.key = None
    /\ \A g \in Gates :
         /\ [M!AtRest EXCEPT !.gate = g] \in M!Dispatches
         /\ [M!AtRest EXCEPT !.pc = "refused", !.gate = g] \in M!Dispatches
         /\ \A k \in M!Keys : [M!AtRest EXCEPT !.gate = g, !.key = k] \in M!Dispatches
  BY DEF M!AtRest, M!Dispatches

LEMMA NoConnType == M!NoConn \in M!Conns
  BY DEF M!NoConn, M!Conns

LEMMA McpInit == M!McpAssumption /\ M!Init => McpInv
<1> SUFFICES ASSUME M!McpAssumption, M!Init PROVE McpInv
  OBVIOUS
<1>1. M!TypeOK
  BY AtRestType, NoConnType DEF M!Init, M!TypeOK
<1>2. OnConn
  BY AtRestType DEF M!Init, OnConn
<1>3. Settling /\ M!NobodyLeaks
  BY DEF M!Init, Settling, M!NobodyLeaks, M!NoConn
<1> QED BY <1>1, <1>2, <1>3 DEF McpInv

\* Connections close, whatever the pool led to them: none of them was being opened,
\* and the steps stay where they are.
LEMMA ConnsClose ==
    ASSUME McpInv, NEW A \in SUBSET ConnIds,
           \A i \in A : conn[i].phase # "connecting",
           conn' = M!Shut(conn, A), pool' = M!Unpooled(pool, A), UNCHANGED connecting,
           step' \in [Steps -> M!Dispatches], cred' \in Creds \union {None}, listing' \in Listings,
           \A s \in Steps :
             /\ step'[s].on = step[s].on /\ step'[s].key = step[s].key
             /\ \/ step'[s].pc = step[s].pc
                \/ step'[s].pc = "dropped" /\ step[s].pc \in {"probing", "listing"} /\ step[s].on \in A
    PROVE  McpInv'
<1> USE DEF McpInv
<1>1. /\ \A i \in A : conn'[i] = M!NoConn
      /\ \A i \in ConnIds \ A : conn'[i] = conn[i]
      /\ conn' \in [ConnIds -> M!Conns]
  BY NoConnType DEF M!Shut, M!TypeOK
<1>2. /\ \A k \in M!Keys : pool'[k] = IF pool[k] \in A THEN None ELSE pool[k]
      /\ pool' \in [M!Keys -> ConnIds \union {None}]
  BY DEF M!Unpooled, M!TypeOK
<1>3. M!TypeOK'
  BY <1>1, <1>2 DEF M!TypeOK
<1>4. M!NoConn.phase = "closed" /\ M!NoConn.key = None
  BY DEF M!NoConn
<1>5. \A i \in ConnIds : M!Holders(i)' = M!Holders(i)
  BY DEF M!Holders
<1>6. Settling'
  <2>1. \A k \in M!Keys : connecting'[k] # None => connecting'[k] \in ConnIds /\ connecting'[k] \notin A
    BY DEF Settling, M!TypeOK
  <2>2. \A k \in M!Keys : connecting'[k] # None =>
          conn'[connecting'[k]].phase = "connecting" /\ conn'[connecting'[k]].key = k
    BY <1>1, <2>1 DEF Settling
  <2>3. ASSUME NEW i \in ConnIds, conn'[i].phase = "connecting"
        PROVE  /\ conn'[i].leases = 0 /\ ~conn'[i].timer /\ M!Holders(i)' = {}
               /\ conn'[i].key # None /\ connecting'[conn'[i].key] = i
               /\ \E s \in Steps : step'[s].pc = "waiting" /\ step'[s].on = i
    <3>1. i \notin A /\ conn'[i] = conn[i]
      BY <1>1, <1>4, <2>3
    <3> QED BY <1>5, <2>3, <3>1 DEF Settling
  <2> QED BY <2>2, <2>3 DEF Settling
<1>7. OnConn'
  BY <1>1, <1>4 DEF OnConn, M!TypeOK, M!Dispatches
<1>8. M!NobodyLeaks'
  <2>1. ASSUME NEW i \in ConnIds, conn'[i].phase = "open"
        PROVE  /\ conn'[i].leases = M!Cardinality(M!Holders(i)')
               /\ conn'[i].timer => M!Holders(i)' = {}
               /\ conn'[i].timer \/ \E s \in Steps : step'[s].on = i
    <3>1. i \notin A /\ conn'[i] = conn[i]
      BY <1>1, <1>4, <2>1
    <3> QED BY <1>5, <2>1, <3>1 DEF M!NobodyLeaks
  <2>2. ASSUME NEW k \in M!Keys, pool'[k] # None PROVE conn'[pool'[k]].phase = "open" /\ conn'[pool'[k]].key = k
    <3>1. pool'[k] = pool[k] /\ pool[k] \notin A /\ pool[k] \in ConnIds
      BY <1>2, <2>2 DEF M!TypeOK
    <3> QED BY <1>1, <2>2, <3>1 DEF M!NobodyLeaks
  <2> QED BY <2>1, <2>2 DEF M!NobodyLeaks
<1> QED BY <1>3, <1>6, <1>7, <1>8

\* A step that is on no connection, or on one that closed, waits for a connect: the one
\* under way for the key, or its own.
LEMMA AwaitStep ==
    ASSUME M!McpAssumption, McpInv, NEW s \in Steps, step[s].pc \in {"idle", "dropped"},
           NEW st \in M!Dispatches, st.key \in M!Keys, M!Await(conn, s, st), UNCHANGED <<pool, cred, listing>>
    PROVE  McpInv'
<1> USE DEF McpInv
<1> DEFINE k == st.key
<1>0. None \notin ConnIds /\ None \notin M!Keys /\ M!TypeOK
  BY DEF M!McpAssumption
<1>1. \A i \in ConnIds : conn[i].phase # "closed" => step[s].on # i
  BY <1>0 DEF OnConn
<1>2. PICK i \in ConnIds :
        /\ step' = [step EXCEPT ![s] = [st EXCEPT !.pc = "waiting", !.on = i]]
        /\ \/ connecting[k] = i /\ conn' = conn /\ connecting' = connecting
           \/ /\ connecting[k] = None /\ conn[i].phase = "closed" /\ \A t \in Steps \ {s} : step[t].on # i
              /\ conn' = [conn EXCEPT ![i] = [M!NoConn EXCEPT !.phase = "connecting", !.key = k]]
              /\ connecting' = [connecting EXCEPT ![k] = i]
  <2>1. CASE connecting[k] # None
    BY <1>0, <2>1 DEF M!Await, M!TypeOK
  <2>2. CASE connecting[k] = None
    BY <2>2, FreshIsFree DEF M!Await
  <2> QED BY <2>1, <2>2
<1>3. /\ step' \in [Steps -> M!Dispatches]
      /\ step'[s].pc = "waiting" /\ step'[s].on = i /\ step'[s].key = k
      /\ \A t \in Steps \ {s} : step'[t] = step[t]
  <2>1. [st EXCEPT !.pc = "waiting", !.on = i] \in M!Dispatches
    BY DEF M!Dispatches
  <2> QED BY <1>2, <2>1 DEF M!TypeOK, M!Dispatches
<1>4. \A j \in ConnIds : conn[j].phase # "closed" => M!Holders(j)' = M!Holders(j)
  BY <1>1, <1>3 DEF M!Holders
<1>5. CASE connecting[k] = i
  <2>1. conn' = conn /\ connecting' = connecting /\ conn[i].phase = "connecting"
    BY <1>0, <1>2, <1>5 DEF Settling
  <2>2. M!TypeOK'
    BY <1>0, <1>3, <2>1 DEF M!TypeOK
  <2>3. Settling'
    BY <1>3, <1>4, <2>1 DEF Settling
  <2>4. OnConn'
    BY <1>0, <1>3, <2>1 DEF OnConn
  <2>5. M!NobodyLeaks'
    BY <1>0, <1>1, <1>3, <1>4, <2>1 DEF M!NobodyLeaks, M!TypeOK
  <2> QED BY <2>2, <2>3, <2>4, <2>5
<1>6. CASE connecting[k] # i
  <2>0. /\ connecting[k] = None /\ conn[i].phase = "closed" /\ \A t \in Steps \ {s} : step[t].on # i
        /\ conn' = [conn EXCEPT ![i] = [M!NoConn EXCEPT !.phase = "connecting", !.key = k]]
        /\ connecting' = [connecting EXCEPT ![k] = i]
    BY <1>2, <1>6
  <2>1. /\ conn' \in [ConnIds -> M!Conns]
        /\ conn'[i].phase = "connecting" /\ conn'[i].key = k /\ conn'[i].leases = 0 /\ ~conn'[i].timer
        /\ \A j \in ConnIds \ {i} : conn'[j] = conn[j]
    <3>1. [M!NoConn EXCEPT !.phase = "connecting", !.key = k] \in M!Conns
      BY NoConnType DEF M!Conns
    <3> QED BY <1>0, <2>0, <3>1 DEF M!TypeOK, M!NoConn
  <2>2. /\ connecting' \in [M!Keys -> ConnIds \union {None}] /\ connecting'[k] = i
        /\ \A h \in M!Keys \ {k} : connecting'[h] = connecting[h]
    BY <1>0, <2>0 DEF M!TypeOK
  <2>3. M!TypeOK'
    BY <1>0, <1>3, <2>1, <2>2 DEF M!TypeOK
  <2>4. M!Holders(i)' = {}
    BY <1>3, <2>0 DEF M!Holders
  <2>5. Settling'
    <3>1. \A h \in M!Keys : connecting'[h] # None => conn'[connecting'[h]].phase = "connecting" /\ conn'[connecting'[h]].key = h
      <4>1. \A h \in M!Keys \ {k} : connecting[h] # None => connecting[h] \in ConnIds \ {i}
        BY <1>0, <2>0 DEF Settling, M!TypeOK
      <4> QED BY <2>1, <2>2, <4>1 DEF Settling
    <3>2. ASSUME NEW j \in ConnIds \ {i}, conn'[j].phase = "connecting"
          PROVE  /\ conn'[j].leases = 0 /\ ~conn'[j].timer /\ M!Holders(j)' = {}
                 /\ conn'[j].key # None /\ connecting'[conn'[j].key] = j
                 /\ \E t \in Steps : step'[t].pc = "waiting" /\ step'[t].on = j
      <4>1. conn'[j] = conn[j] /\ conn[j].key \in M!Keys /\ connecting[conn[j].key] = j
        BY <1>0, <2>1, <3>2 DEF Settling, M!TypeOK, M!Conns
      <4>2. conn[j].key # k
        BY <1>0, <2>0, <4>1
      <4> QED BY <1>1, <1>3, <1>4, <2>2, <3>2, <4>1, <4>2 DEF Settling
    <3> QED BY <1>0, <1>3, <2>1, <2>2, <2>4, <3>1, <3>2 DEF Settling
  <2>6. OnConn'
    BY <1>0, <1>3, <2>0, <2>1 DEF OnConn, M!TypeOK, M!Dispatches
  <2>7. M!NobodyLeaks'
    <3>1. ASSUME NEW j \in ConnIds, conn'[j].phase = "open"
          PROVE  /\ conn'[j].leases = M!Cardinality(M!Holders(j)')
                 /\ conn'[j].timer => M!Holders(j)' = {}
                 /\ conn'[j].timer \/ \E t \in Steps : step'[t].on = j
      <4>1. j # i /\ conn'[j] = conn[j]
        BY <2>1, <3>1
      <4> QED BY <1>1, <1>3, <1>4, <3>1, <4>1 DEF M!NobodyLeaks
    <3>2. ASSUME NEW h \in M!Keys, pool'[h] # None PROVE conn'[pool'[h]].phase = "open" /\ conn'[pool'[h]].key = h
      <4>1. pool'[h] = pool[h] /\ pool[h] \in ConnIds /\ pool[h] # i
        BY <1>0, <2>0, <3>2 DEF M!NobodyLeaks, M!TypeOK
      <4> QED BY <2>1, <3>2, <4>1 DEF M!NobodyLeaks
    <3> QED BY <3>1, <3>2 DEF M!NobodyLeaks
  <2> QED BY <2>3, <2>5, <2>6, <2>7
<1> QED BY <1>5, <1>6

\* Descriptors and marks change, steps go on with the connection they have.
LEMMA SameLeases ==
    ASSUME McpInv, UNCHANGED <<pool, connecting>>, conn' \in [ConnIds -> M!Conns],
           \A i \in ConnIds : /\ conn'[i].phase = conn[i].phase /\ conn'[i].key = conn[i].key
                              /\ conn'[i].leases = conn[i].leases /\ conn'[i].timer = conn[i].timer,
           step' \in [Steps -> M!Dispatches], cred' \in Creds \union {None}, listing' \in Listings,
           \A s \in Steps :
             /\ step'[s].on = step[s].on /\ step'[s].key = step[s].key
             /\ \/ step'[s].pc = step[s].pc
                \/ step[s].pc \in {"probing", "listing"} /\ step'[s].pc \in {"listing", "running", "refused"}
    PROVE  McpInv'
<1> USE DEF McpInv
<1>1. \A i \in ConnIds : M!Holders(i)' = M!Holders(i)
  BY DEF M!Holders
<1>2. M!TypeOK'
  BY DEF M!TypeOK
<1>3. /\ \A i \in ConnIds : (\E s \in Steps : step'[s].on = i) <=> \E s \in Steps : step[s].on = i
      /\ \A i \in ConnIds : (\E s \in Steps : step'[s].pc = "waiting" /\ step'[s].on = i)
                              <=> \E s \in Steps : step[s].pc = "waiting" /\ step[s].on = i
  OBVIOUS
<1>4. Settling'
  BY <1>1, <1>3 DEF Settling, M!TypeOK
<1>5. OnConn'
  BY DEF OnConn, M!TypeOK, M!Dispatches
<1>6. M!NobodyLeaks'
  <2>1. \A k \in M!Keys : pool[k] # None => pool[k] \in ConnIds
    BY DEF M!TypeOK
  <2> QED BY <1>1, <1>3, <2>1 DEF M!NobodyLeaks
<1> QED BY <1>2, <1>4, <1>5, <1>6

\* A step leases an open connection that it is not yet counted for.
LEMMA LeaseStep ==
    ASSUME M!McpAssumption, McpInv, NEW s \in Steps, NEW i \in ConnIds, conn[i].phase = "open",
           step[s].pc \in {"idle", "waiting"}, step[s].on \in {None, i},
           NEW st \in M!Dispatches, st.on = i, st.key # None, st.pc \in {"probing", "running", "refused"},
           step' = [step EXCEPT ![s] = st], conn' = M!Lease(conn, i), UNCHANGED <<pool, connecting, cred, listing>>
    PROVE  McpInv'
<1> USE DEF McpInv
<1>0. None \notin ConnIds /\ M!TypeOK
  BY DEF M!McpAssumption
<1>1. /\ step' \in [Steps -> M!Dispatches] /\ step'[s] = st
      /\ \A t \in Steps \ {s} : step'[t] = step[t]
  BY <1>0 DEF M!TypeOK
<1>2. /\ conn' \in [ConnIds -> M!Conns]
      /\ conn'[i].leases = conn[i].leases + 1 /\ ~conn'[i].timer
      /\ conn'[i].phase = "open" /\ conn'[i].key = conn[i].key
      /\ \A j \in ConnIds \ {i} : conn'[j] = conn[j]
  <2> DEFINE r == [conn[i] EXCEPT !.leases = @ + 1, !.timer = FALSE]
  <2>1. conn \in [ConnIds -> M!Conns] /\ conn[i] \in M!Conns
    BY <1>0 DEF M!TypeOK
  <2>2. r.leases = conn[i].leases + 1 /\ ~r.timer /\ r.phase = conn[i].phase /\ r.key = conn[i].key
    BY <2>1 DEF M!Conns
  <2>4. conn[i].leases + 1 \in Int
    BY <2>1 DEF M!Conns
  <2>5. r \in M!Conns
    BY <2>1, <2>4 DEF M!Conns
  <2>3. conn' = [conn EXCEPT ![i] = r]
    BY <2>1 DEF M!Lease, M!Conns
  <2> HIDE DEF r
  <2> QED BY <2>1, <2>2, <2>3, <2>5
<1>3. /\ M!Holders(i)' = M!Holders(i) \union {s} /\ s \notin M!Holders(i)
      /\ \A j \in ConnIds \ {i} : M!Holders(j)' = M!Holders(j)
  <2>1. s \notin M!Holders(i)
    BY <1>0 DEF M!Holders, OnConn
  <2>2. M!Holders(i)' = M!Holders(i) \union {s}
    BY <1>1 DEF M!Holders
  <2>3. \A j \in ConnIds \ {i} : M!Holders(j)' = M!Holders(j)
    BY <1>0, <1>1 DEF M!Holders
  <2> QED BY <2>1, <2>2, <2>3
<1>4. M!TypeOK'
  BY <1>0, <1>1, <1>2 DEF M!TypeOK
<1>5. Settling'
  <2>1. ASSUME NEW j \in ConnIds, conn'[j].phase = "connecting"
        PROVE  /\ conn'[j].leases = 0 /\ ~conn'[j].timer /\ M!Holders(j)' = {}
               /\ conn'[j].key # None /\ connecting'[conn'[j].key] = j
               /\ \E t \in Steps : step'[t].pc = "waiting" /\ step'[t].on = j
    <3>1. j # i /\ conn'[j] = conn[j]
      BY <1>2, <2>1
    <3>2. PICK t \in Steps : step[t].pc = "waiting" /\ step[t].on = j
      BY <2>1, <3>1 DEF Settling
    <3>3. t # s
      BY <1>0, <3>1, <3>2
    <3> QED BY <1>1, <1>3, <2>1, <3>1, <3>2, <3>3 DEF Settling
  <2>2. \A k \in M!Keys : connecting'[k] # None =>
          conn'[connecting'[k]].phase = "connecting" /\ conn'[connecting'[k]].key = k
    BY <1>0, <1>2 DEF Settling, M!TypeOK
  <2> QED BY <2>1, <2>2 DEF Settling
<1>6. OnConn'
  BY <1>0, <1>1, <1>2 DEF OnConn, M!TypeOK, M!Dispatches
<1>7. M!NobodyLeaks'
  <2>1. conn'[i].leases = M!Cardinality(M!Holders(i)')
    <3>1. M!Holders(i) \in SUBSET Steps
      BY DEF M!Holders
    <3> QED BY <1>2, <1>3, <3>1, Counted DEF M!NobodyLeaks
  <2>2. ASSUME NEW j \in ConnIds \ {i}, conn'[j].phase = "open"
        PROVE  /\ conn'[j].leases = M!Cardinality(M!Holders(j)')
               /\ conn'[j].timer => M!Holders(j)' = {}
               /\ conn'[j].timer \/ \E t \in Steps : step'[t].on = j
    <3>1. conn[j].timer \/ \E t \in Steps \ {s} : step[t].on = j
      BY <1>0, <1>2, <2>2 DEF M!NobodyLeaks
    <3> QED BY <1>1, <1>2, <1>3, <2>2, <3>1 DEF M!NobodyLeaks
  <2>3. \A k \in M!Keys : pool'[k] # None => conn'[pool'[k]].phase = "open" /\ conn'[pool'[k]].key = k
    BY <1>0, <1>2 DEF M!NobodyLeaks, M!TypeOK
  <2> QED BY <1>1, <1>2, <2>1, <2>2, <2>3 DEF M!NobodyLeaks
<1> QED BY <1>4, <1>5, <1>6, <1>7

\* A step that no open connection counts goes on, or fails, without one.
LEMMA GoesWithout ==
    ASSUME M!McpAssumption, McpInv, NEW s \in Steps, step[s].pc \in {"idle", "waiting"},
           \A i \in ConnIds : conn[i].phase # "closed" => step[s].on # i,
           NEW st \in M!Dispatches, st.on = None, st.pc \in {"running", "refused"},
           step' = [step EXCEPT ![s] = st], UNCHANGED <<conn, pool, connecting, cred, listing>>
    PROVE  McpInv'
<1> USE DEF McpInv
<1>0. None \notin ConnIds /\ M!TypeOK
  BY DEF M!McpAssumption
<1>1. /\ step' \in [Steps -> M!Dispatches] /\ step'[s] = st
      /\ \A t \in Steps \ {s} : step'[t] = step[t]
  BY <1>0 DEF M!TypeOK
<1>2. \A j \in ConnIds : conn[j].phase # "closed" => M!Holders(j)' = M!Holders(j)
  BY <1>0, <1>1 DEF M!Holders
<1>3. M!TypeOK'
  BY <1>0, <1>1 DEF M!TypeOK
<1>4. Settling'
  BY <1>0, <1>1, <1>2 DEF Settling
<1>5. OnConn'
  BY <1>0, <1>1 DEF OnConn
<1>6. M!NobodyLeaks'
  BY <1>0, <1>1, <1>2 DEF M!NobodyLeaks, M!TypeOK
<1> QED BY <1>3, <1>4, <1>5, <1>6

\* A connect succeeds: nobody holds the connection yet, and the steps that wait for it
\* keep it from leaking.
LEMMA ConnectedStep ==
    ASSUME M!McpAssumption, McpInv, NEW k \in M!Keys, M!Connected(k)
    PROVE  McpInv'
<1> USE DEF McpInv
<1>0. None \notin ConnIds /\ None \notin M!Keys /\ M!TypeOK
  BY DEF M!McpAssumption
<1>1. PICK i \in ConnIds : i = connecting[k]
  BY <1>0 DEF M!Connected, M!TypeOK
<1>2. /\ conn[i].phase = "connecting" /\ conn[i].key = k /\ conn[i].leases = 0 /\ ~conn[i].timer
      /\ M!Holders(i) = {} /\ \E s \in Steps : step[s].pc = "waiting" /\ step[s].on = i
  BY <1>0, <1>1 DEF Settling
<1>3. /\ conn' \in [ConnIds -> M!Conns]
      /\ conn'[i].phase = "open" /\ conn'[i].key = k /\ conn'[i].leases = 0 /\ ~conn'[i].timer
      /\ \A j \in ConnIds \ {i} : conn'[j] = conn[j]
  <2> DEFINE r == [conn[i] EXCEPT !.phase = "open", !.tools = listing]
  <2>1. conn \in [ConnIds -> M!Conns] /\ conn[i] \in M!Conns /\ listing \in Listings
    BY <1>0 DEF M!TypeOK
  <2>2. r.phase = "open" /\ r.key = k /\ r.leases = 0 /\ ~r.timer
    BY <1>2, <2>1 DEF M!Conns
  <2>3. r \in M!Conns
    BY <2>1 DEF M!Conns
  <2>4. conn' = [conn EXCEPT ![i] = r]
    BY <1>1, <2>1 DEF M!Connected, M!Conns
  <2> HIDE DEF r
  <2> QED BY <2>1, <2>2, <2>3, <2>4
<1>4. /\ pool' = [pool EXCEPT ![k] = i] /\ connecting' = [connecting EXCEPT ![k] = None]
      /\ UNCHANGED <<step, cred, listing>>
  BY <1>1 DEF M!Connected, M!outside
<1>5. M!TypeOK'
  BY <1>0, <1>3, <1>4 DEF M!TypeOK
<1>6. \A j \in ConnIds : M!Holders(j)' = M!Holders(j)
  BY <1>4 DEF M!Holders
<1>7. Settling'
  <2>1. ASSUME NEW h \in M!Keys, connecting'[h] # None
        PROVE  conn'[connecting'[h]].phase = "connecting" /\ conn'[connecting'[h]].key = h
    <3>1. h # k /\ connecting'[h] = connecting[h] /\ connecting[h] \in ConnIds
      BY <1>0, <1>4, <2>1 DEF M!TypeOK
    <3>2. conn[connecting[h]].phase = "connecting" /\ conn[connecting[h]].key = h
      BY <2>1, <3>1 DEF Settling
    <3> QED BY <1>2, <1>3, <3>1, <3>2
  <2>2. ASSUME NEW j \in ConnIds, conn'[j].phase = "connecting"
        PROVE  /\ conn'[j].leases = 0 /\ ~conn'[j].timer /\ M!Holders(j)' = {}
               /\ conn'[j].key # None /\ connecting'[conn'[j].key] = j
               /\ \E s \in Steps : step'[s].pc = "waiting" /\ step'[s].on = j
    <3>1. j # i /\ conn'[j] = conn[j]
      BY <1>3, <2>2
    <3>2. conn[j].key \in M!Keys /\ connecting[conn[j].key] = j
      BY <1>0, <2>2, <3>1 DEF Settling, M!TypeOK, M!Conns
    <3>3. conn[j].key # k
      BY <1>1, <3>1, <3>2
    <3> QED BY <1>0, <1>4, <1>6, <2>2, <3>1, <3>2, <3>3 DEF Settling, M!TypeOK
  <2> QED BY <2>1, <2>2 DEF Settling
<1>8. OnConn'
  BY <1>0, <1>2, <1>3, <1>4 DEF OnConn, M!TypeOK, M!Dispatches
<1>9. M!NobodyLeaks'
  <2>1. ASSUME NEW j \in ConnIds, conn'[j].phase = "open"
        PROVE  /\ conn'[j].leases = M!Cardinality(M!Holders(j)')
               /\ conn'[j].timer => M!Holders(j)' = {}
               /\ conn'[j].timer \/ \E s \in Steps : step'[s].on = j
    <3>1. CASE j = i
      BY <1>2, <1>3, <1>4, <1>6, <3>1, Counted
    <3>2. CASE j # i
      BY <1>3, <1>4, <1>6, <2>1, <3>2 DEF M!NobodyLeaks
    <3> QED BY <3>1, <3>2
  <2>2. ASSUME NEW h \in M!Keys, pool'[h] # None PROVE conn'[pool'[h]].phase = "open" /\ conn'[pool'[h]].key = h
    <3>1. CASE h = k
      BY <1>0, <1>3, <1>4, <3>1 DEF M!TypeOK
    <3>2. CASE h # k
      <4>1. pool'[h] = pool[h] /\ pool[h] \in ConnIds
        BY <1>0, <1>4, <2>2, <3>2 DEF M!TypeOK
      <4>2. conn[pool[h]].phase = "open" /\ conn[pool[h]].key = h
        BY <2>2, <4>1 DEF M!NobodyLeaks
      <4> QED BY <1>2, <1>3, <4>1, <4>2
    <3> QED BY <3>1, <3>2
  <2> QED BY <2>1, <2>2 DEF M!NobodyLeaks
<1> QED BY <1>5, <1>7, <1>8, <1>9

\* A connect fails: whoever waited for it goes on without.
LEMMA ConnectFailsStep ==
    ASSUME M!McpAssumption, McpInv, NEW k \in M!Keys, M!ConnectFails(k)
    PROVE  McpInv'
<1> USE DEF McpInv
<1>0. None \notin ConnIds /\ None \notin M!Keys /\ M!TypeOK
  BY DEF M!McpAssumption
<1>1. PICK i \in ConnIds : i = connecting[k]
  BY <1>0 DEF M!ConnectFails, M!TypeOK
<1>2. conn[i].phase = "connecting" /\ conn[i].key = k /\ M!Holders(i) = {}
  BY <1>0, <1>1 DEF Settling
<1>3. conn' \in [ConnIds -> M!Conns] /\ conn'[i] = M!NoConn /\ \A j \in ConnIds \ {i} : conn'[j] = conn[j]
  BY <1>0, <1>1, NoConnType DEF M!ConnectFails, M!Shut, M!TypeOK
<1>4. M!NoConn.phase = "closed" /\ M!NoConn.key = None
  BY DEF M!NoConn
<1>5. connecting' = [connecting EXCEPT ![k] = None] /\ UNCHANGED <<pool, cred, listing>>
  BY DEF M!ConnectFails, M!outside
<1> DEFINE Left(s) == step[s].pc = "waiting" /\ step[s].on = i
<1>6. /\ step' \in [Steps -> M!Dispatches]
      /\ \A s \in Steps : Left(s) => /\ step'[s].on = None /\ step'[s].key = step[s].key
                                     /\ step'[s].pc \in {"running", "refused"}
      /\ \A s \in Steps : ~Left(s) => step'[s] = step[s]
  <2>1. step' = [s \in Steps |-> IF Left(s) THEN M!Assembled(step[s], None, <<>>) ELSE step[s]]
    BY <1>1 DEF M!ConnectFails
  <2>2. \A s \in Steps : step[s] \in M!Dispatches
    BY <1>0 DEF M!TypeOK
  <2>3. ASSUME NEW s \in Steps
        PROVE  /\ M!Assembled(step[s], None, <<>>) \in M!Dispatches
               /\ M!Assembled(step[s], None, <<>>).on = None
               /\ M!Assembled(step[s], None, <<>>).key = step[s].key
               /\ M!Assembled(step[s], None, <<>>).pc \in {"running", "refused"}
    <3>1. None \in ConnIds \union {None} /\ <<>> \in Listings \union {<<>>} /\ step[s] \in M!Dispatches
      BY <2>2
    <3> QED BY <3>1, AssembledType
  <2> HIDE DEF Left
  <2> QED BY <2>1, <2>2, <2>3
<1>7. \A j \in ConnIds \ {i} : M!Holders(j)' = M!Holders(j)
  BY <1>0, <1>6 DEF M!Holders
<1>8. M!TypeOK'
  BY <1>0, <1>3, <1>5, <1>6 DEF M!TypeOK
<1>9. Settling'
  <2>1. ASSUME NEW h \in M!Keys, connecting'[h] # None
        PROVE  conn'[connecting'[h]].phase = "connecting" /\ conn'[connecting'[h]].key = h
    <3>1. h # k /\ connecting'[h] = connecting[h] /\ connecting[h] \in ConnIds
      BY <1>0, <1>5, <2>1 DEF M!TypeOK
    <3>2. conn[connecting[h]].phase = "connecting" /\ conn[connecting[h]].key = h
      BY <2>1, <3>1 DEF Settling
    <3> QED BY <1>2, <1>3, <3>1, <3>2
  <2>2. ASSUME NEW j \in ConnIds, conn'[j].phase = "connecting"
        PROVE  /\ conn'[j].leases = 0 /\ ~conn'[j].timer /\ M!Holders(j)' = {}
               /\ conn'[j].key # None /\ connecting'[conn'[j].key] = j
               /\ \E s \in Steps : step'[s].pc = "waiting" /\ step'[s].on = j
    <3>1. j # i /\ conn'[j] = conn[j]
      BY <1>3, <1>4, <2>2
    <3>2. conn[j].key \in M!Keys /\ connecting[conn[j].key] = j
      BY <1>0, <2>2, <3>1 DEF Settling, M!TypeOK, M!Conns
    <3>3. conn[j].key # k
      BY <1>1, <3>1, <3>2
    <3>4. PICK s \in Steps : step[s].pc = "waiting" /\ step[s].on = j
      BY <2>2, <3>1 DEF Settling
    <3>5. step'[s] = step[s]
      BY <1>6, <3>1, <3>4
    <3> QED BY <1>0, <1>5, <1>7, <2>2, <3>1, <3>2, <3>3, <3>4, <3>5 DEF Settling, M!TypeOK
  <2> QED BY <2>1, <2>2 DEF Settling
<1>10. OnConn'
  BY <1>0, <1>3, <1>4, <1>6 DEF OnConn, M!TypeOK, M!Dispatches
<1>11. M!NobodyLeaks'
  <2>1. ASSUME NEW j \in ConnIds, conn'[j].phase = "open"
        PROVE  /\ conn'[j].leases = M!Cardinality(M!Holders(j)')
               /\ conn'[j].timer => M!Holders(j)' = {}
               /\ conn'[j].timer \/ \E s \in Steps : step'[s].on = j
    <3>1. j # i /\ conn'[j] = conn[j]
      BY <1>3, <1>4, <2>1
    <3>2. \A s \in Steps : step[s].on = j => step'[s].on = j
      BY <1>6, <3>1
    <3> QED BY <1>7, <2>1, <3>1, <3>2 DEF M!NobodyLeaks
  <2>2. ASSUME NEW h \in M!Keys, pool'[h] # None PROVE conn'[pool'[h]].phase = "open" /\ conn'[pool'[h]].key = h
    <3>1. pool'[h] = pool[h] /\ pool[h] \in ConnIds
      BY <1>0, <1>5, <2>2 DEF M!TypeOK
    <3>2. conn[pool[h]].phase = "open" /\ conn[pool[h]].key = h
      BY <2>2, <3>1 DEF M!NobodyLeaks
    <3> QED BY <1>2, <1>3, <3>1, <3>2
  <2> QED BY <2>1, <2>2 DEF M!NobodyLeaks
<1> QED BY <1>8, <1>9, <1>10, <1>11

\* After shutdown a step opens a connection of its own.
LEMMA UnpooledStep ==
    ASSUME M!McpAssumption, McpInv, NEW s \in Steps, M!ConnectUnpooled(s)
    PROVE  McpInv'
<1> USE DEF McpInv
<1>0. None \notin ConnIds /\ None \notin M!Keys /\ M!TypeOK
  BY DEF M!McpAssumption
<1>1. PICK g \in Gates, i \in M!Fresh(s) :
        /\ conn' = [conn EXCEPT ![i] = [M!NoConn EXCEPT !.phase = "open", !.tools = listing]]
        /\ step' = [step EXCEPT ![s] = M!Assembled([M!AtRest EXCEPT !.gate = g], i, listing)]
  BY DEF M!ConnectUnpooled
<1>2. i \in ConnIds /\ conn[i].phase = "closed" /\ \A t \in Steps \ {s} : step[t].on # i
  BY FreshIsFree
<1>3. UNCHANGED <<pool, connecting, cred, listing>> /\ listing \in Listings
  BY <1>0 DEF M!ConnectUnpooled, M!outside, M!TypeOK
<1>4. /\ conn' \in [ConnIds -> M!Conns] /\ conn'[i].phase = "open" /\ conn'[i].key = None
      /\ conn'[i].leases = 0 /\ ~conn'[i].timer
      /\ \A j \in ConnIds \ {i} : conn'[j] = conn[j]
  <2>1. [M!NoConn EXCEPT !.phase = "open", !.tools = listing] \in M!Conns
    BY <1>3, NoConnType DEF M!Conns
  <2> QED BY <1>0, <1>1, <1>2, <2>1 DEF M!TypeOK, M!NoConn
<1>5. /\ step' \in [Steps -> M!Dispatches] /\ step'[s].on = i /\ step'[s].key = None
      /\ step'[s].pc \in {"running", "refused"}
      /\ \A t \in Steps \ {s} : step'[t] = step[t]
  <2> DEFINE rest == [M!AtRest EXCEPT !.gate = g]
             st == M!Assembled(rest, i, listing)
  <2>1. rest \in M!Dispatches /\ rest.key = None
    BY AtRestType DEF M!AtRest
  <2>2. st \in M!Dispatches /\ st.on = i /\ st.key = None /\ st.pc \in {"running", "refused"}
    <3>1. i \in ConnIds \union {None} /\ listing \in Listings \union {<<>>}
      BY <1>2, <1>3
    <3> HIDE DEF rest
    <3> QED BY <2>1, <3>1, AssembledType
  <2>3. step' = [step EXCEPT ![s] = st]
    BY <1>1
  <2> HIDE DEF st
  <2> QED BY <1>0, <2>2, <2>3 DEF M!TypeOK
<1>6. step[s].on = None
  BY DEF M!ConnectUnpooled, OnConn
<1>7. M!Holders(i)' = {} /\ \A j \in ConnIds \ {i} : M!Holders(j)' = M!Holders(j)
  BY <1>0, <1>2, <1>5, <1>6 DEF M!Holders
<1>8. M!TypeOK'
  BY <1>0, <1>3, <1>4, <1>5 DEF M!TypeOK
<1>9. Settling'
  <2>1. \A h \in M!Keys : connecting'[h] # None => conn'[connecting'[h]].phase = "connecting" /\ conn'[connecting'[h]].key = h
    BY <1>0, <1>2, <1>3, <1>4 DEF Settling, M!TypeOK
  <2>2. ASSUME NEW j \in ConnIds, conn'[j].phase = "connecting"
        PROVE  /\ conn'[j].leases = 0 /\ ~conn'[j].timer /\ M!Holders(j)' = {}
               /\ conn'[j].key # None /\ connecting'[conn'[j].key] = j
               /\ \E t \in Steps : step'[t].pc = "waiting" /\ step'[t].on = j
    <3>1. j # i /\ conn'[j] = conn[j]
      BY <1>4, <2>2
    <3>2. PICK t \in Steps : step[t].pc = "waiting" /\ step[t].on = j
      BY <2>2, <3>1 DEF Settling
    <3>3. step'[t] = step[t]
      BY <1>0, <1>5, <1>6, <3>2
    <3> QED BY <1>3, <1>7, <2>2, <3>1, <3>2, <3>3 DEF Settling
  <2> QED BY <2>1, <2>2 DEF Settling
<1>10. OnConn'
  BY <1>0, <1>2, <1>4, <1>5 DEF OnConn, M!TypeOK, M!Dispatches
<1>11. M!NobodyLeaks'
  <2>1. conn'[i].leases = M!Cardinality(M!Holders(i)')
    BY <1>4, <1>7, Counted
  <2>2. ASSUME NEW j \in ConnIds \ {i}, conn'[j].phase = "open"
        PROVE  /\ conn'[j].leases = M!Cardinality(M!Holders(j)')
               /\ conn'[j].timer => M!Holders(j)' = {}
               /\ conn'[j].timer \/ \E t \in Steps : step'[t].on = j
    <3>1. \A t \in Steps : step[t].on = j => step'[t].on = j
      BY <1>0, <1>5, <1>6
    <3> QED BY <1>4, <1>7, <2>2, <3>1 DEF M!NobodyLeaks
  <2>3. \A h \in M!Keys : pool'[h] # None => conn'[pool'[h]].phase = "open" /\ conn'[pool'[h]].key = h
    BY <1>0, <1>2, <1>3, <1>4 DEF M!NobodyLeaks, M!TypeOK
  <2> QED BY <1>4, <1>5, <1>7, <2>1, <2>2, <2>3 DEF M!NobodyLeaks
<1> QED BY <1>8, <1>9, <1>10, <1>11

\* A step ends: its own connection closes; a leased one counts a holder less, and the
\* last one arms the timer.
LEMMA DisposeStep ==
    ASSUME M!McpAssumption, McpInv, NEW s \in Steps, M!Dispose(s)
    PROVE  McpInv'
<1> USE DEF McpInv
<1>0. None \notin ConnIds /\ None \notin M!Keys /\ M!TypeOK
  BY DEF M!McpAssumption
<1>3. PICK i \in ConnIds \union {None} : i = step[s].on
  BY <1>0 DEF M!TypeOK, M!Dispatches
<1>1. /\ UNCHANGED <<pool, connecting, cred, listing>>
      /\ step' \in [Steps -> M!Dispatches] /\ step'[s] = M!AtRest /\ step[s].pc \in {"running", "refused"}
      /\ \A t \in Steps \ {s} : step'[t] = step[t]
  BY <1>0, AtRestType DEF M!Dispose, M!outside, M!TypeOK
<1>2. /\ M!AtRest.on = None /\ M!AtRest.key = None /\ M!AtRest.pc = "idle"
      /\ M!NoConn.phase = "closed" /\ M!NoConn.key = None
  BY DEF M!AtRest, M!NoConn
\* Only the connection of the step can change, and it was not being opened.
<1>4. /\ conn' \in [ConnIds -> M!Conns]
      /\ \A j \in ConnIds \ {i} : conn'[j] = conn[j]
      /\ i # None => /\ conn[i].phase # "connecting"
                     /\ conn'[i].phase \in {"closed", conn[i].phase}
                     /\ conn'[i].phase = "closed" => conn[i].phase = "closed" \/ conn[i].key = None
                     /\ conn'[i].key = conn[i].key \/ conn'[i].key = None
                     /\ conn'[i].phase = "open" => /\ step[s].key # None /\ conn'[i].key = conn[i].key
                                                   /\ conn'[i].leases = conn[i].leases - 1
                                                   /\ conn'[i].timer <=> conn[i].leases = 1
  <2>1. CASE i = None
    BY <1>0, <1>3, <2>1 DEF M!Dispose, M!TypeOK
  <2>2. CASE i # None /\ step[s].key = None
    <3>1. conn' = M!Shut(conn, {i}) /\ conn[i].key = None
      BY <1>3, <2>2 DEF M!Dispose, OnConn
    <3>2. conn[i].phase # "connecting"
      BY <1>3, <2>2, <3>1 DEF Settling
    <3> QED BY <1>0, <1>2, <1>3, <2>2, <3>1, <3>2, NoConnType DEF M!Shut, M!TypeOK
  <2>3. CASE i # None /\ step[s].key # None
    <3>1. conn' = M!Returned(conn, i) /\ s \in M!Holders(i) /\ i \in ConnIds
      BY <1>1, <1>3, <2>3 DEF M!Dispose, M!Holders
    <3>2. conn[i].phase # "connecting"
      BY <3>1 DEF Settling
    <3>3. CASE conn[i].phase = "closed"
      BY <1>0, <3>1, <3>3 DEF M!Returned, M!TypeOK
    <3>4. CASE conn[i].phase # "closed"
      <4> DEFINE r == [conn[i] EXCEPT !.leases = @ - 1, !.timer = conn[i].leases = 1]
      <4>1. conn \in [ConnIds -> M!Conns] /\ conn[i] \in M!Conns
        BY <1>0, <3>1 DEF M!TypeOK
      <4>2. /\ r.leases = conn[i].leases - 1 /\ r.timer = (conn[i].leases = 1)
            /\ r.phase = conn[i].phase /\ r.key = conn[i].key
        BY <4>1 DEF M!Conns
      <4>3. conn[i].leases - 1 \in Int /\ (conn[i].leases = 1) \in BOOLEAN
        BY <4>1 DEF M!Conns
      <4>4. r \in M!Conns
        BY <4>1, <4>3 DEF M!Conns
      <4>5. conn' = [conn EXCEPT ![i] = r]
        BY <3>1, <3>4, <4>1 DEF M!Returned, M!Conns
      <4> HIDE DEF r
      <4> QED BY <2>3, <3>1, <3>2, <3>4, <4>1, <4>2, <4>4, <4>5
    <3> QED BY <3>3, <3>4
  <2> QED BY <2>1, <2>2, <2>3
<1>5. \A j \in ConnIds \ {i} : M!Holders(j)' = M!Holders(j)
  BY <1>0, <1>1, <1>2, <1>3 DEF M!Holders
<1>6. i # None => M!Holders(i)' = M!Holders(i) \ {s}
  BY <1>1, <1>2, <1>3 DEF M!Holders
<1>7. M!TypeOK'
  BY <1>0, <1>1, <1>4 DEF M!TypeOK
<1>8. Settling'
  <2>1. ASSUME NEW h \in M!Keys, connecting'[h] # None
        PROVE  conn'[connecting'[h]].phase = "connecting" /\ conn'[connecting'[h]].key = h
    <3>1. connecting'[h] = connecting[h] /\ connecting[h] \in ConnIds
      BY <1>0, <1>1, <2>1 DEF M!TypeOK
    <3>2. conn[connecting[h]].phase = "connecting" /\ conn[connecting[h]].key = h
      BY <2>1, <3>1 DEF Settling
    <3> QED BY <1>0, <1>4, <3>1, <3>2
  <2>2. ASSUME NEW j \in ConnIds, conn'[j].phase = "connecting"
        PROVE  /\ conn'[j].leases = 0 /\ ~conn'[j].timer /\ M!Holders(j)' = {}
               /\ conn'[j].key # None /\ connecting'[conn'[j].key] = j
               /\ \E t \in Steps : step'[t].pc = "waiting" /\ step'[t].on = j
    <3>1. j # i /\ conn'[j] = conn[j]
      BY <1>0, <1>4, <2>2
    <3>2. PICK t \in Steps : step[t].pc = "waiting" /\ step[t].on = j
      BY <2>2, <3>1 DEF Settling
    <3>3. step'[t] = step[t]
      BY <1>1, <3>1, <3>2
    <3> QED BY <1>1, <1>5, <2>2, <3>1, <3>2, <3>3 DEF Settling
  <2> QED BY <2>1, <2>2 DEF Settling
<1>9. OnConn'
  <2>1. ASSUME NEW t \in Steps \ {s}
        PROVE  /\ step'[t].pc = "dropped" => conn'[step'[t].on].phase = "closed"
               /\ step'[t].key = None /\ step'[t].on # None => conn'[step'[t].on].key = None
    <3>1. step'[t] = step[t] /\ step[t].on \in ConnIds \union {None}
      BY <1>0, <1>1 DEF M!TypeOK, M!Dispatches
    <3>2. /\ step[t].pc = "dropped" => step[t].on # None /\ conn[step[t].on].phase = "closed"
          /\ step[t].key = None /\ step[t].on # None => conn[step[t].on].key = None
      BY DEF OnConn
    <3>3. step[t].on # i /\ step[t].on # None => conn'[step[t].on] = conn[step[t].on]
      BY <1>4, <3>1
    <3> QED BY <1>4, <3>1, <3>2, <3>3
  <2> QED BY <1>1, <1>2, <2>1 DEF OnConn
<1>10. M!NobodyLeaks'
  <2>1. ASSUME NEW j \in ConnIds \ {i}, conn'[j].phase = "open"
        PROVE  /\ conn'[j].leases = M!Cardinality(M!Holders(j)')
               /\ conn'[j].timer => M!Holders(j)' = {}
               /\ conn'[j].timer \/ \E t \in Steps : step'[t].on = j
    <3>1. conn'[j] = conn[j] /\ \A t \in Steps : step[t].on = j => step'[t].on = j
      BY <1>1, <1>3, <1>4
    <3> QED BY <1>5, <2>1, <3>1 DEF M!NobodyLeaks
  <2>2. ASSUME i # None, conn'[i].phase = "open"
        PROVE  /\ conn'[i].leases = M!Cardinality(M!Holders(i)')
               /\ conn'[i].timer => M!Holders(i)' = {}
               /\ conn'[i].timer \/ \E t \in Steps : step'[t].on = i
    <3> DEFINE H == M!Holders(i)
    <3>1. i \in ConnIds /\ conn[i].phase = "open" /\ H \in SUBSET Steps /\ s \in H
      BY <1>1, <1>3, <1>4, <2>2 DEF M!Holders
    <3>2. conn[i].leases = M!Cardinality(H)
      BY <3>1 DEF M!NobodyLeaks
    <3>3. H \ {s} \in SUBSET Steps
      BY <3>1
    <3>4. /\ M!Cardinality(H \ {s}) = M!Cardinality(H) - 1 /\ M!Cardinality(H) \in Nat
          /\ M!Cardinality(H \ {s}) = 0 <=> H \ {s} = {}
      <4> HIDE DEF H
      <4> QED BY <3>1, <3>3, Counted
    <3>5. conn'[i].timer <=> H \ {s} = {}
      BY <1>4, <2>2, <3>2, <3>4
    <3>6. H \ {s} # {} => \E t \in Steps : step'[t].on = i
      BY <1>1 DEF M!Holders
    <3> QED BY <1>4, <1>6, <2>2, <3>2, <3>4, <3>5, <3>6
  <2>3. ASSUME NEW h \in M!Keys, pool'[h] # None PROVE conn'[pool'[h]].phase = "open" /\ conn'[pool'[h]].key = h
    <3>1. pool'[h] = pool[h] /\ pool[h] \in ConnIds
      BY <1>0, <1>1, <2>3 DEF M!TypeOK
    <3>2. conn[pool[h]].phase = "open" /\ conn[pool[h]].key = h
      BY <2>3, <3>1 DEF M!NobodyLeaks
    <3>3. conn'[pool[h]].phase = "open" /\ conn'[pool[h]].key = h
      BY <1>0, <1>4, <3>1, <3>2
    <3> QED BY <3>1, <3>3
  <2> QED BY <1>0, <1>3, <2>1, <2>2, <2>3 DEF M!NobodyLeaks
<1> QED BY <1>7, <1>8, <1>9, <1>10

\* A step asks for a connection: it leases the one of its key, or awaits one.
LEMMA AcquireStep == ASSUME M!McpAssumption, McpInv, NEW s \in Steps, M!Acquire(s) PROVE McpInv'
<1>0. None \notin ConnIds /\ None \notin M!Keys /\ M!TypeOK /\ UNCHANGED <<pool, cred, listing>>
  BY DEF M!McpAssumption, McpInv, M!Acquire, M!outside
<1>1. PICK g \in Gates, n \in Nodes :
        LET st == [M!AtRest EXCEPT !.gate = g, !.key = <<n, cred>>]
        IN IF pool[st.key] # None
           THEN /\ conn' = M!Lease(conn, pool[st.key])
                /\ step' = [step EXCEPT ![s] = [st EXCEPT !.pc = "probing", !.on = pool[st.key]]]
                /\ UNCHANGED connecting
           ELSE M!Await(conn, s, st)
  BY DEF M!Acquire
<1> DEFINE st == [M!AtRest EXCEPT !.gate = g, !.key = <<n, cred>>]
<1>2. /\ <<n, cred>> \in M!Keys /\ step[s].pc = "idle" /\ step[s].on = None
      /\ st \in M!Dispatches /\ st.key = <<n, cred>>
  <2>1. <<n, cred>> \in M!Keys
    BY <1>0 DEF M!Acquire, M!Resolved, M!Keys, M!TypeOK
  <2>2. st \in M!Dispatches /\ st.key = <<n, cred>>
    BY <2>1 DEF M!AtRest, M!Dispatches
  <2> QED BY <2>1, <2>2 DEF M!Acquire, McpInv, OnConn
<1>3. CASE pool[st.key] # None
  <2>1. PICK i \in ConnIds : i = pool[st.key]
    BY <1>0, <1>2, <1>3 DEF M!TypeOK
  <2> DEFINE probe == [st EXCEPT !.pc = "probing", !.on = i]
  <2>2. conn[i].phase = "open"
    BY <1>2, <1>3, <2>1 DEF McpInv, M!NobodyLeaks
  <2>3. probe \in M!Dispatches /\ probe.on = i /\ probe.key # None /\ probe.pc = "probing"
    <3> HIDE DEF st
    <3> QED BY <1>0, <1>2 DEF M!Dispatches
  <2>4. step' = [step EXCEPT ![s] = probe] /\ conn' = M!Lease(conn, i) /\ UNCHANGED connecting
    BY <1>1, <1>3, <2>1
  <2> HIDE DEF probe
  <2> QED BY <1>0, <1>2, <2>2, <2>3, <2>4, LeaseStep
<1>4. CASE pool[st.key] = None
  <2>1. M!Await(conn, s, st)
    BY <1>1, <1>4
  <2> HIDE DEF st
  <2> QED BY <1>0, <1>2, <2>1, AwaitStep
<1> QED BY <1>3, <1>4

\* The connect a step waited for settled.
LEMMA TakeStep == ASSUME M!McpAssumption, McpInv, NEW s \in Steps, M!Take(s) PROVE McpInv'
<1>0. /\ None \notin ConnIds /\ M!TypeOK /\ UNCHANGED <<pool, connecting, cred, listing>>
      /\ step[s].pc = "waiting" /\ step[s].key # None /\ step[s] \in M!Dispatches
  BY DEF M!McpAssumption, McpInv, M!Take, M!outside, OnConn, M!TypeOK
<1>1. PICK i \in ConnIds : i = step[s].on
  BY <1>0 DEF McpInv, OnConn, M!Dispatches
<1>2. conn[i].tools \in Listings \union {<<>>} /\ <<>> \in Listings \union {<<>>} /\ i \in ConnIds \union {None}
  BY <1>0 DEF M!TypeOK, M!Conns
<1>3. CASE conn[i].phase = "closed"
  <2>1. PICK st : st = M!Assembled(step[s], None, <<>>)
    OBVIOUS
  <2>2. st \in M!Dispatches /\ st.on = None /\ st.pc \in {"running", "refused"}
    BY <1>0, <1>2, <2>1, AssembledType
  <2>3. step' = [step EXCEPT ![s] = st] /\ conn' = conn
    BY <1>0, <1>1, <1>3, <2>1 DEF M!Take, M!TypeOK
  <2> QED BY <1>0, <1>1, <1>3, <2>2, <2>3, GoesWithout
<1>4. CASE conn[i].phase # "closed"
  <2>1. PICK st : st = M!Assembled(step[s], i, conn[i].tools)
    OBVIOUS
  <2>2. st \in M!Dispatches /\ st.on = i /\ st.key # None /\ st.pc \in {"running", "refused"}
    BY <1>0, <1>2, <2>1, AssembledType
  <2>3. step' = [step EXCEPT ![s] = st] /\ conn' = M!Lease(conn, i) /\ conn[i].phase = "open"
    BY <1>0, <1>1, <1>4, <2>1 DEF M!Take, M!TypeOK
  <2> QED BY <1>0, <1>1, <2>2, <2>3, LeaseStep
<1> QED BY <1>3, <1>4

\* The probe of a leased connection is answered, or the list that follows it.
LEMMA ProbeStep ==
    ASSUME M!McpAssumption, McpInv, NEW s \in Steps, M!Pong(s) \/ M!Relisted(s)
    PROVE  McpInv'
<1>0. /\ None \notin ConnIds /\ M!TypeOK /\ UNCHANGED <<pool, connecting, cred, listing>>
      /\ step[s].pc \in {"probing", "listing"} /\ step[s] \in M!Dispatches
      /\ listing \in Listings /\ conn \in [ConnIds -> M!Conns]
  BY DEF M!McpAssumption, McpInv, M!Pong, M!Relisted, M!outside, M!TypeOK
<1>1. PICK i \in ConnIds : i = step[s].on
  BY <1>0 DEF McpInv, OnConn, M!Dispatches
<1>2. conn[i] \in M!Conns /\ conn[i].tools \in Listings \union {<<>>} /\ i \in ConnIds \union {None}
  BY <1>0 DEF M!Conns
<1>3. PICK st \in M!Dispatches, c \in M!Conns :
        /\ st.on = i /\ st.key = step[s].key /\ st.pc \in {"listing", "running", "refused"}
        /\ c.phase = conn[i].phase /\ c.key = conn[i].key /\ c.leases = conn[i].leases /\ c.timer = conn[i].timer
        /\ step' = [step EXCEPT ![s] = st] /\ conn' = [conn EXCEPT ![i] = c]
  <2>1. CASE M!Pong(s) /\ conn[i].stale
    <3> DEFINE st == [step[s] EXCEPT !.pc = "listing"]
               c == [conn[i] EXCEPT !.stale = FALSE]
    <3>1. st \in M!Dispatches /\ st.on = i /\ st.key = step[s].key /\ st.pc = "listing"
      BY <1>0, <1>1 DEF M!Dispatches
    <3>2. c \in M!Conns /\ c.phase = conn[i].phase /\ c.key = conn[i].key /\ c.leases = conn[i].leases /\ c.timer = conn[i].timer
      BY <1>2 DEF M!Conns
    <3>3. step' = [step EXCEPT ![s] = st] /\ conn' = [conn EXCEPT ![i] = c]
      BY <1>0, <1>1, <2>1 DEF M!Pong
    <3> HIDE DEF st, c
    <3> QED BY <3>1, <3>2, <3>3
  <2>2. CASE M!Pong(s) /\ ~conn[i].stale
    <3>1. PICK st : st = M!Assembled(step[s], i, conn[i].tools)
      OBVIOUS
    <3>2. st \in M!Dispatches /\ st.on = i /\ st.key = step[s].key /\ st.pc \in {"running", "refused"}
      BY <1>0, <1>2, <3>1, AssembledType
    <3>3. step' = [step EXCEPT ![s] = st] /\ conn' = [conn EXCEPT ![i] = conn[i]]
      BY <1>0, <1>1, <2>2, <3>1 DEF M!Pong, M!TypeOK
    <3> QED BY <1>2, <3>2, <3>3
  <2>3. CASE M!Relisted(s)
    <3> DEFINE c == [conn[i] EXCEPT !.tools = listing]
    <3>1. PICK st : st = M!Assembled(step[s], i, listing)
      OBVIOUS
    <3>2. st \in M!Dispatches /\ st.on = i /\ st.key = step[s].key /\ st.pc \in {"running", "refused"}
      <4>1. listing \in Listings \union {<<>>}
        BY <1>0
      <4> QED BY <1>0, <1>2, <3>1, <4>1, AssembledType
    <3>3. c \in M!Conns /\ c.phase = conn[i].phase /\ c.key = conn[i].key /\ c.leases = conn[i].leases /\ c.timer = conn[i].timer
      BY <1>0, <1>2 DEF M!Conns
    <3>4. step' = [step EXCEPT ![s] = st] /\ conn' = [conn EXCEPT ![i] = c]
      BY <1>0, <1>1, <2>3, <3>1 DEF M!Relisted, M!TypeOK
    <3> HIDE DEF c
    <3> QED BY <3>2, <3>3, <3>4
  <2> QED BY <2>1, <2>2, <2>3
<1>4. /\ step' \in [Steps -> M!Dispatches] /\ step'[s] = st
      /\ \A t \in Steps \ {s} : step'[t] = step[t]
      /\ conn' \in [ConnIds -> M!Conns] /\ conn'[i] = c
      /\ \A j \in ConnIds \ {i} : conn'[j] = conn[j]
  BY <1>0, <1>3 DEF M!TypeOK
<1> QED
  <2>1. cred' \in Creds \union {None} /\ listing' \in Listings
    BY <1>0 DEF M!TypeOK
  <2>2. \A j \in ConnIds : /\ conn'[j].phase = conn[j].phase /\ conn'[j].key = conn[j].key
                           /\ conn'[j].leases = conn[j].leases /\ conn'[j].timer = conn[j].timer
    BY <1>3, <1>4
  <2>3. \A t \in Steps :
          /\ step'[t].on = step[t].on /\ step'[t].key = step[t].key
          /\ \/ step'[t].pc = step[t].pc
             \/ step[t].pc \in {"probing", "listing"} /\ step'[t].pc \in {"listing", "running", "refused"}
    BY <1>0, <1>1, <1>3, <1>4
  <2> QED BY <1>0, <1>4, <2>1, <2>2, <2>3, SameLeases

\* A connection or several close: a probe failed, the idle timer fired, the server went
\* away, or a release that waited for connects settles.
LEMMA CloseStep ==
    ASSUME M!McpAssumption, McpInv,
           \/ \E s \in Steps : M!ProbeFails(s)
           \/ \E i \in ConnIds : M!IdleFires(i) \/ M!ServerGone(i)
           \/ M!Settle
    PROVE  McpInv'
<1>0. None \notin ConnIds /\ M!TypeOK
  BY DEF M!McpAssumption, McpInv
<1>1. ASSUME NEW s \in Steps, M!ProbeFails(s) PROVE McpInv'
  <2>1. PICK i \in ConnIds : i = step[s].on
    BY <1>0, <1>1 DEF M!ProbeFails, McpInv, OnConn, M!TypeOK, M!Dispatches
  <2>2. conn[i].phase # "connecting"
    <3>1. s \in M!Holders(i)
      BY <1>1, <2>1 DEF M!ProbeFails, M!Holders, McpInv, OnConn
    <3> QED BY <3>1 DEF McpInv, Settling
  <2>3. /\ step' \in [Steps -> M!Dispatches] /\ step'[s] = [step[s] EXCEPT !.pc = "dropped"]
        /\ \A t \in Steps \ {s} : step'[t] = step[t]
    <3>1. step[s] \in M!Dispatches /\ [step[s] EXCEPT !.pc = "dropped"] \in M!Dispatches
      BY <1>0 DEF M!TypeOK, M!Dispatches
    <3> QED BY <1>0, <1>1, <3>1 DEF M!ProbeFails, M!TypeOK
  <2>4. step[s] \in M!Dispatches
    BY <1>0 DEF M!TypeOK
  <2>5. step'[s].on = step[s].on /\ step'[s].key = step[s].key /\ step'[s].pc = "dropped"
    BY <2>3, <2>4 DEF M!Dispatches
  <2>6. \A t \in Steps :
          /\ step'[t].on = step[t].on /\ step'[t].key = step[t].key
          /\ \/ step'[t].pc = step[t].pc
             \/ step'[t].pc = "dropped" /\ step[t].pc \in {"probing", "listing"} /\ step[t].on \in {i}
    BY <1>1, <2>1, <2>3, <2>5 DEF M!ProbeFails
  <2>7. /\ conn' = M!Shut(conn, {i}) /\ pool' = M!Unpooled(pool, {i}) /\ UNCHANGED <<connecting, cred, listing>>
        /\ cred' \in Creds \union {None} /\ listing' \in Listings
    BY <1>0, <1>1, <2>1 DEF M!ProbeFails, M!outside, M!TypeOK
  <2> QED BY <2>2, <2>3, <2>6, <2>7, ConnsClose
<1>2. ASSUME NEW A \in SUBSET ConnIds, \A i \in A : conn[i].phase # "connecting",
             conn' = M!Shut(conn, A), pool' = M!Unpooled(pool, A), UNCHANGED <<connecting, step, cred, listing>>
      PROVE  McpInv'
  <2>1. step' \in [Steps -> M!Dispatches] /\ cred' \in Creds \union {None} /\ listing' \in Listings
    BY <1>0, <1>2 DEF M!TypeOK
  <2>2. \A s \in Steps : step'[s].on = step[s].on /\ step'[s].key = step[s].key /\ step'[s].pc = step[s].pc
    BY <1>2
  <2> QED BY <1>2, <2>1, <2>2, ConnsClose
<1>3. ASSUME NEW i \in ConnIds, M!IdleFires(i) \/ M!ServerGone(i) PROVE McpInv'
  <2>1. conn[i].phase # "connecting"
    BY <1>3 DEF M!IdleFires, M!ServerGone, McpInv, Settling
  <2> QED BY <1>2, <1>3, <2>1 DEF M!IdleFires, M!ServerGone, M!outside
<1>4. ASSUME M!Settle PROVE McpInv'
  <2>1. PICK r \in releases :
          LET S == {pool[k] : k \in {h \in M!Keys : h[1] \in r.nodes}} \ {None}
          IN conn' = M!Shut(conn, S) /\ pool' = M!Unpooled(pool, S) /\ UNCHANGED <<connecting, step, cred, listing>>
    BY <1>4 DEF M!Settle
  <2> DEFINE S == {pool[k] : k \in {h \in M!Keys : h[1] \in r.nodes}} \ {None}
  <2>2. S \in SUBSET ConnIds /\ \A i \in S : conn[i].phase = "open"
    BY <1>0 DEF M!TypeOK, McpInv, M!NobodyLeaks
  <2>3. conn' = M!Shut(conn, S) /\ pool' = M!Unpooled(pool, S) /\ UNCHANGED <<connecting, step, cred, listing>>
    BY <2>1
  <2> HIDE DEF S
  <2> QED BY <1>2, <2>2, <2>3
<1> QED BY <1>1, <1>3, <1>4

\* A step is refused for its configuration, or goes on while the server is unavailable.
LEMMA WithoutStep ==
    ASSUME M!McpAssumption, McpInv, NEW s \in Steps, M!Misconfigure(s) \/ M!Without(s)
    PROVE  McpInv'
<1>1. step[s].pc = "idle" /\ step[s].on = None /\ None \notin ConnIds /\ UNCHANGED <<conn, pool, connecting, cred, listing>>
  BY DEF M!McpAssumption, McpInv, M!Misconfigure, M!Without, M!outside, OnConn
<1>2. PICK st \in M!Dispatches :
        st.on = None /\ st.pc \in {"running", "refused"} /\ step' = [step EXCEPT ![s] = st]
  <2>1. CASE M!Misconfigure(s)
    <3>1. PICK g \in Gates : step' = [step EXCEPT ![s] = [M!AtRest EXCEPT !.pc = "refused", !.gate = g]]
      BY <2>1 DEF M!Misconfigure
    <3> DEFINE st == [M!AtRest EXCEPT !.pc = "refused", !.gate = g]
    <3>2. st \in M!Dispatches /\ st.on = None /\ st.pc = "refused"
      BY AtRestType DEF M!AtRest
    <3> HIDE DEF st
    <3> QED BY <3>1, <3>2 DEF st
  <2>2. CASE M!Without(s)
    <3>1. PICK g \in Gates : step' = [step EXCEPT ![s] = M!Assembled([M!AtRest EXCEPT !.gate = g], None, <<>>)]
      BY <2>2 DEF M!Without
    <3>2. PICK rest : rest = [M!AtRest EXCEPT !.gate = g]
      OBVIOUS
    <3>3. PICK st : st = M!Assembled(rest, None, <<>>)
      OBVIOUS
    <3>4. rest \in M!Dispatches /\ None \in ConnIds \union {None} /\ <<>> \in Listings \union {<<>>}
      BY <3>2, AtRestType
    <3>5. st \in M!Dispatches /\ st.on = None /\ st.pc \in {"running", "refused"}
      BY <3>3, <3>4, AssembledType
    <3> QED BY <3>1, <3>2, <3>3, <3>5
  <2> QED BY <2>1, <2>2
<1> QED BY <1>1, <1>2, GoesWithout

\* The server announces a change, a credential is rotated, a release or a shutdown begins,
\* or nothing happens.
LEMMA QuietMcpStep ==
    ASSUME M!McpAssumption, McpInv,
           \/ M!ListChanged \/ M!Rotate \/ M!CloseAll \/ (\E n \in Nodes : M!Release({n}))
           \/ UNCHANGED M!vars
    PROVE  McpInv'
<1>0. M!TypeOK
  BY DEF McpInv
<1>1. UNCHANGED <<pool, connecting, step>> /\ cred' \in Creds \union {None} /\ listing' \in Listings
  BY <1>0 DEF M!ListChanged, M!Rotate, M!CloseAll, M!Release, M!vars, M!TypeOK
<1>2. /\ conn' \in [ConnIds -> M!Conns]
      /\ \A i \in ConnIds : /\ conn'[i].phase = conn[i].phase /\ conn'[i].key = conn[i].key
                            /\ conn'[i].leases = conn[i].leases /\ conn'[i].timer = conn[i].timer
  <2>1. CASE M!ListChanged
    <3>1. conn' = [i \in ConnIds |-> IF conn[i].phase = "open" /\ conn[i].key # None
                                     THEN [conn[i] EXCEPT !.stale = TRUE] ELSE conn[i]]
      BY <2>1 DEF M!ListChanged
    <3>2. ASSUME NEW i \in ConnIds
          PROVE  /\ conn'[i] \in M!Conns
                 /\ conn'[i].phase = conn[i].phase /\ conn'[i].key = conn[i].key
                 /\ conn'[i].leases = conn[i].leases /\ conn'[i].timer = conn[i].timer
      <4>1. conn[i] \in M!Conns /\ conn'[i] \in {conn[i], [conn[i] EXCEPT !.stale = TRUE]}
        BY <1>0, <3>1 DEF M!TypeOK
      <4> QED BY <4>1 DEF M!Conns
    <3> QED BY <3>1, <3>2
  <2>2. CASE ~M!ListChanged
    <3>1. conn' = conn
      BY <2>2 DEF M!Rotate, M!CloseAll, M!Release, M!vars
    <3> QED BY <1>0, <3>1 DEF M!TypeOK
  <2> QED BY <2>1, <2>2
<1> QED
  <2>1. step' \in [Steps -> M!Dispatches]
    BY <1>0, <1>1 DEF M!TypeOK
  <2>2. \A s \in Steps : step'[s].on = step[s].on /\ step'[s].key = step[s].key /\ step'[s].pc = step[s].pc
    BY <1>1
  <2> QED BY <1>1, <1>2, <2>1, <2>2, SameLeases

\* A step that dropped its connection connects again: the lease it hands back is of a
\* connection that is closed.
LEMMA FallThroughStep == ASSUME M!McpAssumption, McpInv, NEW s \in Steps, M!FallThrough(s) PROVE McpInv'
<1>0. M!TypeOK /\ step[s] \in M!Dispatches /\ step[s].pc = "dropped" /\ UNCHANGED <<pool, cred, listing>>
  BY DEF McpInv, M!TypeOK, M!FallThrough, M!outside
<1>1. step[s].key # None /\ conn[step[s].on].phase = "closed"
  BY <1>0 DEF McpInv, OnConn
<1> DEFINE st == [step[s] EXCEPT !.on = None]
<1>2. st \in M!Dispatches /\ st.key \in M!Keys
  BY <1>0, <1>1 DEF M!Dispatches
<1>3. M!Await(conn, s, st)
  BY <1>1 DEF M!FallThrough, M!Returned
<1> HIDE DEF st
<1> QED BY <1>0, <1>2, <1>3, AwaitStep

LEMMA McpInvariance == ASSUME M!McpAssumption PROVE M!Spec => []McpInv
<1>1. McpInv /\ [M!Next]_M!vars => McpInv'
  <2> SUFFICES ASSUME McpInv, [M!Next]_M!vars PROVE McpInv'
    OBVIOUS
  <2>1. CASE \E s \in Steps : \/ M!Misconfigure(s) \/ M!Unavailable(s) \/ M!Unresolved(s) \/ M!Acquire(s) \/ M!Pong(s)
                              \/ M!Relisted(s) \/ M!FallThrough(s) \/ M!Take(s) \/ M!ConnectUnpooled(s) \/ M!Dispose(s)
    BY <2>1, WithoutStep, AcquireStep, ProbeStep, FallThroughStep, TakeStep, UnpooledStep, DisposeStep
       DEF M!Unavailable, M!Unresolved
  <2>2. CASE \E k \in M!Keys : M!Connected(k) \/ M!ConnectFails(k)
    BY <2>2, ConnectedStep, ConnectFailsStep
  <2>3. CASE \/ \E s \in Steps : M!ProbeFails(s)
             \/ \E i \in ConnIds : M!IdleFires(i) \/ M!ServerGone(i)
             \/ M!Settle
    BY <2>3, CloseStep
  <2>4. CASE \/ M!ListChanged \/ M!Rotate \/ M!CloseAll \/ (\E n \in Nodes : M!Release({n}))
             \/ UNCHANGED M!vars
    BY <2>4, QuietMcpStep
  <2> QED BY <2>1, <2>2, <2>3, <2>4 DEF M!Next
<1> QED BY <1>1, McpInit, PTL DEF M!Spec

\* Every reachable state of Mcp is well typed.
THEOREM McpTypeCorrect == ASSUME M!McpAssumption PROVE M!Spec => []M!TypeOK
<1>1. McpInv => M!TypeOK
  BY DEF McpInv
<1> QED BY <1>1, McpInvariance, PTL

\* For any number of steps, nodes, credentials and connections, with servers that go away,
\* lists that change, releases and shutdowns at every await: a connection counts the steps
\* that hold it, idles only while none does, somebody is left to close it, and the pool
\* leads to open connections of the key.
THEOREM NobodyLeaksHolds == ASSUME M!McpAssumption PROVE M!Spec => []M!NobodyLeaks
<1>1. McpInv => M!NobodyLeaks
  BY DEF McpInv
<1> QED BY <1>1, McpInvariance, PTL

\* What a step keeps in every state: one that runs had its allowlist met, and one that may
\* still come to run has a configuration that can be served.
Served(st) ==
    /\ st.pc \in {"waiting", "probing", "listing", "dropped"} => ~M!Misconfigured(st.gate)
    /\ st.pc = "running" => /\ st.gate.allow \notin {None, {}} => st.tools # {}
                            /\ \A t \in st.tools \ Registry : M!Slug[t] \notin st.gate.deny

AllServed == \A s \in Steps : Served(step[s])

\* A step is assembled from a configuration that can be served, and refused when the
\* allowlist names tools of servers alone and none is left.
LEMMA AssembledServed ==
    ASSUME NEW st \in M!Dispatches, ~M!Misconfigured(st.gate), NEW i, NEW l
    PROVE  Served(M!Assembled(st, i, l))
<1> DEFINE r == M!Assembled(st, i, l)
<1>1. /\ r.gate = st.gate /\ r.tools = M!Selected(st.gate) \union M!Kept(st.gate, l)
      /\ r.pc = IF M!McpOnly(st.gate) /\ M!Kept(st.gate, l) = {} THEN "refused" ELSE "running"
  BY DEF M!Assembled, M!Dispatches
<1>2. ASSUME r.pc = "running", st.gate.allow \notin {None, {}} PROVE r.tools # {}
  <2>1. SUFFICES ASSUME M!Selected(st.gate) = {}, M!Kept(st.gate, l) = {} PROVE FALSE
    BY <1>1
  <2>2. ~M!McpOnly(st.gate)
    BY <1>1, <1>2, <2>1
  <2>3. ~(st.gate.allow \subseteq M!McpNames)
    BY <1>2, <2>1, <2>2 DEF M!McpOnly
  <2>4. M!GateAllow(st.gate) # {}
    BY <1>2, <2>3 DEF M!GateAllow, M!McpNames
  <2> QED BY <2>1, <2>4 DEF M!Misconfigured
<1>3. \A t \in r.tools \ Registry : M!Slug[t] \notin st.gate.deny
  BY <1>1 DEF M!Selected, M!Kept
<1> HIDE DEF r
<1> QED BY <1>1, <1>2, <1>3 DEF r, Served

\* A step's record stays as it is, is cleared, refused, assembled, or one that goes on
\* acquiring with its configuration.
LEMMA StepServed ==
    ASSUME M!TypeOK, M!TypeOK', AllServed, [M!Next]_M!vars
    PROVE  AllServed'
<1>0. /\ step \in [Steps -> M!Dispatches]
      /\ M!AtRest.pc = "idle" /\ \A s \in Steps : step[s] \in M!Dispatches
  BY DEF M!TypeOK, M!AtRest
<1>1. ASSUME NEW s \in Steps, NEW st, Served(st), step' = [step EXCEPT ![s] = st] PROVE AllServed'
  BY <1>0, <1>1 DEF AllServed
<1>2. ASSUME UNCHANGED step PROVE AllServed'
  BY <1>2 DEF AllServed
<1>3. ASSUME NEW s \in Steps, M!Misconfigure(s) PROVE AllServed'
  <2>1. PICK g \in Gates : step' = [step EXCEPT ![s] = [M!AtRest EXCEPT !.pc = "refused", !.gate = g]]
    BY <1>3 DEF M!Misconfigure
  <2>2. Served([M!AtRest EXCEPT !.pc = "refused", !.gate = g])
    BY DEF Served, M!AtRest
  <2> QED BY <1>1, <2>1, <2>2
<1>4. ASSUME NEW s \in Steps, M!Without(s) PROVE AllServed'
  <2>1. PICK g \in Gates : /\ ~M!Misconfigured(g)
                           /\ step' = [step EXCEPT ![s] = M!Assembled([M!AtRest EXCEPT !.gate = g], None, <<>>)]
    BY <1>4 DEF M!Without
  <2>2. PICK rest : rest = [M!AtRest EXCEPT !.gate = g]
    OBVIOUS
  <2>3. rest \in M!Dispatches /\ rest.gate = g
    BY <2>2, AtRestType DEF M!AtRest
  <2>4. Served(M!Assembled(rest, None, <<>>))
    BY <2>1, <2>3, AssembledServed
  <2> QED BY <1>1, <2>1, <2>2, <2>4
<1>5. ASSUME NEW s \in Steps, NEW c, NEW st, st.pc = "idle" \/ st.pc = "dropped", ~M!Misconfigured(st.gate),
             st \in M!Dispatches, M!Await(c, s, st)
      PROVE  AllServed'
  <2>1. PICK i : step' = [step EXCEPT ![s] = [st EXCEPT !.pc = "waiting", !.on = i]]
    BY <1>5 DEF M!Await
  <2>2. Served([st EXCEPT !.pc = "waiting", !.on = i])
    BY <1>5 DEF Served, M!Dispatches
  <2> QED BY <1>1, <2>1, <2>2
<1>6. ASSUME NEW s \in Steps, M!Acquire(s) PROVE AllServed'
  <2>1. PICK g \in Gates, n \in Nodes :
          LET st == [M!AtRest EXCEPT !.gate = g, !.key = <<n, cred>>]
          IN /\ ~M!Misconfigured(g)
             /\ \/ step' = [step EXCEPT ![s] = [st EXCEPT !.pc = "probing", !.on = pool[st.key]]]
                \/ M!Await(conn, s, st)
    BY <1>6 DEF M!Acquire
  <2> DEFINE st == [M!AtRest EXCEPT !.gate = g, !.key = <<n, cred>>]
  <2>2. st \in M!Dispatches /\ st.pc = "idle" /\ st.gate = g
    <3>1. <<n, cred>> \in M!Keys
      BY <1>6 DEF M!Acquire, M!Resolved, M!Keys, M!TypeOK
    <3> QED BY <3>1 DEF M!AtRest, M!Dispatches
  <2>3. CASE step' = [step EXCEPT ![s] = [st EXCEPT !.pc = "probing", !.on = pool[st.key]]]
    <3>1. Served([st EXCEPT !.pc = "probing", !.on = pool[st.key]])
      <4> HIDE DEF st
      <4> QED BY <2>1, <2>2 DEF Served, M!Dispatches
    <3> QED BY <1>1, <2>3, <3>1
  <2>4. CASE M!Await(conn, s, st)
    <3> HIDE DEF st
    <3> QED BY <1>5, <2>1, <2>2, <2>4
  <2> QED BY <2>1, <2>3, <2>4
<1>7. ASSUME NEW s \in Steps, M!FallThrough(s) PROVE AllServed'
  <2>1. step[s].pc = "dropped" /\ ~M!Misconfigured(step[s].gate) /\ step[s] \in M!Dispatches
    BY <1>0, <1>7 DEF M!FallThrough, AllServed, Served
  <2> DEFINE st == [step[s] EXCEPT !.on = None]
  <2>2. st \in M!Dispatches /\ st.pc = "dropped" /\ st.gate = step[s].gate
    BY <2>1 DEF M!Dispatches
  <2>3. M!Await(M!Returned(conn, step[s].on), s, st)
    BY <1>7 DEF M!FallThrough
  <2> HIDE DEF st
  <2> QED BY <1>5, <2>1, <2>2, <2>3
<1>8. ASSUME NEW s \in Steps, M!ProbeFails(s) \/ (M!Pong(s) /\ conn[step[s].on].stale) PROVE AllServed'
  <2>1. PICK p \in {"dropped", "listing"} : step' = [step EXCEPT ![s].pc = p]
    BY <1>8 DEF M!ProbeFails, M!Pong
  <2>2. step[s].pc \in {"probing", "listing"} /\ step[s] \in M!Dispatches /\ Served(step[s])
    BY <1>0, <1>8 DEF M!ProbeFails, M!Pong, AllServed
  <2>3. Served([step[s] EXCEPT !.pc = p])
    BY <2>2 DEF Served, M!Dispatches
  <2>4. step' = [step EXCEPT ![s] = [step[s] EXCEPT !.pc = p]]
    BY <2>1
  <2> QED BY <1>1, <2>3, <2>4
<1>9. ASSUME NEW s \in Steps, M!Relisted(s) \/ M!Take(s) \/ (M!Pong(s) /\ ~conn[step[s].on].stale) PROVE AllServed'
  <2>1. PICK i, l : step' = [step EXCEPT ![s] = M!Assembled(step[s], i, l)]
    BY <1>0, <1>9 DEF M!Relisted, M!Take, M!Pong
  <2>2. step[s].pc \in {"waiting", "probing", "listing"} /\ step[s] \in M!Dispatches /\ Served(step[s])
    BY <1>0, <1>9 DEF M!Relisted, M!Take, M!Pong, AllServed
  <2>3. Served(M!Assembled(step[s], i, l))
    BY <2>2, AssembledServed DEF Served
  <2> QED BY <1>1, <2>1, <2>3
<1>10. ASSUME NEW k \in M!Keys, M!ConnectFails(k) PROVE AllServed'
  <2>1. ASSUME NEW s \in Steps
        PROVE  step'[s] = step[s] \/ (step[s].pc = "waiting" /\ step'[s] = M!Assembled(step[s], None, <<>>))
    <3>1. step' = [t \in Steps |-> IF step[t].pc = "waiting" /\ step[t].on = connecting[k]
                                   THEN M!Assembled(step[t], None, <<>>) ELSE step[t]]
      BY <1>10 DEF M!ConnectFails
    <3> QED BY <3>1
  <2>2. ASSUME NEW s \in Steps, step[s].pc = "waiting" PROVE Served(M!Assembled(step[s], None, <<>>))
    <3>1. step[s] \in M!Dispatches /\ ~M!Misconfigured(step[s].gate)
      BY <1>0, <2>2 DEF AllServed, Served
    <3> QED BY <3>1, AssembledServed
  <2> QED BY <2>1, <2>2 DEF AllServed
<1>11. ASSUME NEW s \in Steps, M!ConnectUnpooled(s) PROVE AllServed'
  <2>1. PICK g \in Gates, i \in M!Fresh(s) :
          ~M!Misconfigured(g) /\ step' = [step EXCEPT ![s] = M!Assembled([M!AtRest EXCEPT !.gate = g], i, listing)]
    BY <1>11 DEF M!ConnectUnpooled
  <2>2. PICK rest : rest = [M!AtRest EXCEPT !.gate = g]
    OBVIOUS
  <2>3. rest \in M!Dispatches /\ rest.gate = g
    BY <2>2, AtRestType DEF M!AtRest
  <2>4. Served(M!Assembled(rest, i, listing))
    BY <2>1, <2>3, AssembledServed
  <2> QED BY <1>1, <2>1, <2>2, <2>4
<1>12. ASSUME NEW s \in Steps, M!Dispose(s) PROVE AllServed'
  <2>1. Served(M!AtRest)
    BY <1>0 DEF Served
  <2> QED BY <1>1, <1>12, <2>1 DEF M!Dispose
<1>13. CASE \/ \E k \in M!Keys : M!Connected(k)
            \/ \E i \in ConnIds : M!IdleFires(i) \/ M!ServerGone(i)
            \/ M!ListChanged \/ M!Rotate \/ M!CloseAll \/ M!Settle
            \/ \E n \in Nodes : M!Release({n})
            \/ UNCHANGED M!vars
  BY <1>2, <1>13 DEF M!Connected, M!IdleFires, M!ServerGone, M!ListChanged, M!Rotate, M!CloseAll, M!Settle,
                     M!Release, M!vars
<1> QED
  BY <1>3, <1>4, <1>6, <1>7, <1>8, <1>9, <1>10, <1>11, <1>12, <1>13 DEF M!Next, M!Unavailable, M!Unresolved

\* However the server behaves while a step connects, a step that names tools runs with one
\* of them at least, and with none that it denied.
THEOREM AsksMetHolds == ASSUME M!McpAssumption PROVE M!Spec => []M!AsksMet
<1>1. M!Init => AllServed
  BY DEF M!Init, M!AtRest, AllServed, Served
<1>2. AllServed => M!AsksMet
  BY DEF AllServed, Served, M!AsksMet
<1>3. M!TypeOK /\ M!TypeOK' /\ AllServed /\ [M!Next]_M!vars => AllServed'
  BY StepServed
<1> QED BY <1>1, <1>2, <1>3, McpTypeCorrect, PTL DEF M!Spec
=============================================================================
