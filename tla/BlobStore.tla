----------------------------- MODULE BlobStore -----------------------------
(***************************************************************************)
(* Content-addressed blobs: a file per sha, a row in blobs, and the        *)
(* references that keep both.  Writers in several processes put the file,  *)
(* commit row and reference in one transaction and put the file again;     *)
(* sweeps of the daemon and of `fragua db gc` delete what is unreferenced. *)
(* Transactions are serialised by the write lock; file operations of       *)
(* writers are not.                                                        *)
(*                                                                         *)
(* A write concerns one sha: an operation that spills several puts them    *)
(* all before its transaction and again after it, and nothing here relates *)
(* two shas.  References are the artifacts table, whose rows can be        *)
(* overwritten, and the roots (routing inputs, outputs, events), which are *)
(* never deleted.                                                          *)
(***************************************************************************)
EXTENDS Integers, FiniteSets

CONSTANTS Shas, Scopes,  \* blob contents, and artifact scopes
          Writers,       \* processes that write
          Sweepers,      \* processes that collect
          None,
          Limit,         \* maxRows of one sweep
          Kinds,         \* the operations writers perform
          MaxWrites,     \* bound: writes begun
          MaxFaults      \* bound: processes lost, re-puts failed

AllKinds == {"artifact", "replace", "spill", "import"}

ASSUME BlobAssumption ==
    /\ Kinds \subseteq AllKinds
    /\ IsFiniteSet(Shas)
    /\ None \notin Shas
    /\ Limit \in Nat \ {0}
    /\ MaxWrites \in Nat
    /\ MaxFaults \in Nat

VARIABLES files,      \* age of each sha's file: absent, fresh or old
          rows,       \* shas in blobs
          artifacts,  \* artifacts.blob_sha of each scope, or None
          roots,      \* shas that BLOB_ROOTS_SQL returns
          wpc, op,    \* each writer: where it is, and the write it is in
          gpc,        \* each sweeper: where it is
          budget,     \* what is left of its limit
          candidates, \* the files its walk picked
          writes, faults,
          forfeited   \* history: shas whose file nobody will put back

db    == <<rows, artifacts, roots>>
gc    == <<gpc, budget, candidates>>
bound == <<writes, faults>>
vars  == <<files, db, wpc, op, gc, bound, forfeited>>

Ops  == [kind : Kinds, sha : Shas, scope : Scopes]
NoOp == [kind |-> "none", sha |-> None, scope |-> None]

TypeOK ==
    /\ files \in [Shas -> {"absent", "fresh", "old"}]
    /\ rows \subseteq Shas
    /\ artifacts \in [Scopes -> Shas \union {None}]
    /\ roots \subseteq Shas
    /\ wpc \in [Writers -> {"idle", "commit", "reput", "reap", "unlink"}]
    /\ op \in [Writers -> Ops \union {NoOp}]
    /\ \A w \in Writers : wpc[w] # "idle" => op[w] \in Ops
    /\ gpc \in [Sweepers -> {"idle", "walk", "drop"}]
    /\ budget \in [Sweepers -> 0 .. Limit]
    /\ candidates \in [Sweepers -> SUBSET Shas]
    /\ writes \in Nat
    /\ faults \in Nat
    /\ forfeited \subseteq Shas

Init ==
    /\ files = [s \in Shas |-> "absent"]
    /\ rows = {}
    /\ artifacts = [c \in Scopes |-> None]
    /\ roots = {}
    /\ wpc = [w \in Writers |-> "idle"]
    /\ op = [w \in Writers |-> NoOp]
    /\ gpc = [g \in Sweepers |-> "idle"]
    /\ budget = [g \in Sweepers |-> 0]
    /\ candidates = [g \in Sweepers |-> {}]
    /\ writes = 0
    /\ faults = 0
    /\ forfeited = {}

Referenced == roots \union {artifacts[c] : c \in {d \in Scopes : artifacts[d] # None}}

----------------------------------------------------------------------------
(* Files.                                                                  *)

\* BlobFS.put: temporary file, fsync, rename; nothing if the file is there,
\* which does not make an old file young again.
Put(s) ==
    /\ files' = [files EXCEPT ![s] = IF @ = "absent" THEN "fresh" ELSE @]
    /\ forfeited' = forfeited \ {s}

Delete(S) == files' = [s \in Shas |-> IF s \in S THEN "absent" ELSE files[s]]

\* ORPHAN_FILE_GRACE_MS passes.
Age(s) ==
    /\ files[s] = "fresh"
    /\ files' = [files EXCEPT ![s] = "old"]
    /\ UNCHANGED <<db, wpc, op, gc, bound, forfeited>>

----------------------------------------------------------------------------
(* Writers.                                                                *)

\* Writer w goes on at p with the write o.
Become(w, p, o) == wpc' = [wpc EXCEPT ![w] = p] /\ op' = [op EXCEPT ![w] = o]

EndWrite(w) == Become(w, "idle", NoOp)

\* putArtifact's read outside the lock refuses a write whose scope is taken,
\* with an error or, for the same content, as done already.
Refused(o) == o.kind \in {"artifact", "replace"}
              /\ \/ artifacts[o.scope] = o.sha
                 \/ artifacts[o.scope] # None /\ o.kind = "artifact"

\* The file is put before the transaction that names it.
BeginWrite(w, o) ==
    /\ writes < MaxWrites
    /\ wpc[w] = "idle"
    /\ ~Refused(o)
    /\ Put(o.sha)
    /\ Become(w, "commit", o)
    /\ writes' = writes + 1
    /\ UNCHANGED <<db, gc, faults>>

\* The reference that keeps the blob.  putArtifact inserts unless the scope
\* holds this content already; replace and import overwrite.
Reference(o) ==
    /\ o.kind = "artifact" => artifacts[o.scope] \in {None, o.sha}
    /\ artifacts' = IF o.kind = "spill" THEN artifacts ELSE [artifacts EXCEPT ![o.scope] = o.sha]
    /\ roots' = IF o.kind = "spill" THEN roots \union {o.sha} ELSE roots

\* Row and reference in one transaction.
Commit(w) ==
    /\ wpc[w] = "commit"
    /\ rows' = rows \union {op[w].sha}
    /\ Reference(op[w])
    /\ Become(w, "reput", op[w])
    /\ UNCHANGED <<files, gc, bound, forfeited>>

\* The transaction throws: a scope taken meanwhile, a version conflict, a
\* lost claim, a busy checkout, a lost import race.  Only an import cleans up.
CommitFails(w) ==
    /\ wpc[w] = "commit"
    /\ IF op[w].kind = "import" THEN Become(w, "reap", op[w]) ELSE EndWrite(w)
    /\ UNCHANGED <<files, db, gc, bound, forfeited>>

ReputBlobs(w) ==
    /\ wpc[w] = "reput"
    /\ Put(op[w].sha)
    /\ EndWrite(w)
    /\ UNCHANGED <<db, gc, bound>>

\* A failing re-put is only logged: the write has committed.
ReputFails(w) ==
    /\ faults < MaxFaults
    /\ wpc[w] = "reput"
    /\ EndWrite(w)
    /\ faults' = faults + 1
    /\ forfeited' = forfeited \union {op[w].sha}
    /\ UNCHANGED <<files, db, gc, writes>>

\* A failed import looks for the row and then deletes the file, outside any
\* transaction.
ReapCheck(w) ==
    /\ wpc[w] = "reap"
    /\ IF op[w].sha \in rows THEN EndWrite(w) ELSE Become(w, "unlink", op[w])
    /\ UNCHANGED <<files, db, gc, bound, forfeited>>

ReapDelete(w) ==
    /\ wpc[w] = "unlink"
    /\ Delete({op[w].sha})
    /\ forfeited' = IF op[w].sha \in rows THEN forfeited \union {op[w].sha} ELSE forfeited
    /\ EndWrite(w)
    /\ UNCHANGED <<db, gc, bound>>

WriterLost(w) ==
    /\ faults < MaxFaults
    /\ wpc[w] # "idle"
    /\ faults' = faults + 1
    /\ forfeited' = IF wpc[w] = "reput" THEN forfeited \union {op[w].sha} ELSE forfeited
    /\ EndWrite(w)
    /\ UNCHANGED <<files, db, gc, writes>>

----------------------------------------------------------------------------
(* Sweeps.                                                                 *)

OrphanRows == rows \ Referenced

\* S is n of the elements of T, or all of them.
Picks(S, T, n) ==
    /\ S \subseteq T
    /\ Cardinality(S) <= n
    /\ Cardinality(S) < n => S = T

\* Pass 1: the rows and, under the same lock, their files.
GcRows(g, S) ==
    /\ gpc[g] = "idle"
    /\ Picks(S, OrphanRows, Limit)
    /\ rows' = rows \ S
    /\ Delete(S)
    /\ budget' = [budget EXCEPT ![g] = Limit - Cardinality(S)]
    /\ gpc' = [gpc EXCEPT ![g] = IF Cardinality(S) < Limit THEN "walk" ELSE "idle"]
    /\ UNCHANGED <<artifacts, roots, wpc, op, candidates, bound, forfeited>>

\* Fault: the pre-filter keeps the files that have a row.
FaultStale == {s \in Shas : files[s] = "old" /\ s \in rows}

\* Files past the grace window that neither a row nor a root names.
Stale == {s \in Shas : files[s] = "old" /\ s \notin rows \union roots}

\* Pass 2, outside the lock: walk the directory up to the budget.
GcWalk(g, S) ==
    /\ gpc[g] = "walk"
    /\ Picks(S, Stale, budget[g])
    /\ candidates' = [candidates EXCEPT ![g] = S]
    /\ budget' = [budget EXCEPT ![g] = 0]
    /\ gpc' = [gpc EXCEPT ![g] = IF S = {} THEN "idle" ELSE "drop"]
    /\ UNCHANGED <<files, db, wpc, op, bound, forfeited>>

\* Fault: the walk's answer is not asked again under the lock.
FaultDeletable(g) == candidates[g]

\* The candidates that still have neither row nor root.
Deletable(g) == candidates[g] \ (rows \union roots)

\* Pass 2, under the lock.
GcFiles(g) ==
    /\ gpc[g] = "drop"
    /\ Delete(Deletable(g))
    /\ gpc' = [gpc EXCEPT ![g] = "idle"]
    /\ candidates' = [candidates EXCEPT ![g] = {}]
    /\ UNCHANGED <<db, wpc, op, budget, bound, forfeited>>

\* Lost inside one of the two transactions: it rolls back, the files S it had
\* unlinked are gone.
SweeperLost(g, S) ==
    /\ faults < MaxFaults
    /\ \/ gpc[g] = "idle" /\ S \subseteq OrphanRows
       \/ gpc[g] = "drop" /\ S \subseteq Deletable(g)
    /\ faults' = faults + 1
    /\ Delete(S)
    /\ gpc' = [gpc EXCEPT ![g] = "idle"]
    /\ candidates' = [candidates EXCEPT ![g] = {}]
    /\ UNCHANGED <<db, wpc, op, budget, writes, forfeited>>

----------------------------------------------------------------------------

FinishWrite(w) ==
    \/ Commit(w)
    \/ CommitFails(w)
    \/ ReputBlobs(w)
    \/ ReapCheck(w)
    \/ ReapDelete(w)

Sweep(g) == GcFiles(g) \/ \E S \in SUBSET Shas : GcRows(g, S) \/ GcWalk(g, S)

Next ==
    \/ \E s \in Shas : Age(s)
    \/ \E w \in Writers : \/ \E o \in Ops : BeginWrite(w, o)
                          \/ FinishWrite(w)
                          \/ ReputFails(w)
                          \/ WriterLost(w)
    \/ \E g \in Sweepers : Sweep(g) \/ \E S \in SUBSET Shas : SweeperLost(g, S)

\* A write that began ends, time passes, and the collector of the daemon
\* sweeps again and again.
Fairness ==
    /\ \A s \in Shas : WF_vars(Age(s))
    /\ \A w \in Writers : WF_vars(FinishWrite(w))
    /\ \A g \in Sweepers : WF_vars(Sweep(g))

Spec == Init /\ [][Next]_vars /\ Fairness

----------------------------------------------------------------------------
(* Properties.                                                             *)

\* A writer that has committed s will put its file again.
Owed(s) == \E w \in Writers : wpc[w] = "reput" /\ op[w].sha = s

\* Whatever references a blob finds its row, and its file unless the writer
\* that committed it is about to put it back.  The only ways to lose content
\* are a writer lost before its re-put and a failed import's own clean-up.
ContentSafe ==
    \A s \in Referenced : /\ s \in rows
                          /\ files[s] # "absent" \/ Owed(s) \/ s \in forfeited

\* store-writer.ts: the row never references missing content.
ContentPresent ==
    \A s \in Referenced : files[s] # "absent" \/ Owed(s)

\* Two plain writers of one scope: the first to commit keeps it, whichever
\* read the scope as free before.
FirstWriterWins ==
    [][\A c \in Scopes :
          artifacts[c] # None /\ artifacts'[c] # artifacts[c] =>
              \E w \in Writers : /\ wpc[w] = "commit" /\ wpc'[w] = "reput"
                                 /\ op[w].kind \in {"replace", "import"}
                                 /\ op[w].scope = c]_vars

Garbage(s) == (s \in rows \/ files[s] # "absent") /\ s \notin Referenced

\* A row or a file that nothing references does not stay: the sweeps, within
\* their limit, reclaim both, also after crashes.
Reclaims == \A s \in Shas : Garbage(s) ~> ~Garbage(s)
============================================================================
