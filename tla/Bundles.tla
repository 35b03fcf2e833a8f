------------------------------ MODULE Bundles -------------------------------
(***************************************************************************)
(* A run carried from one store to another as a .fragua bundle (packages/  *)
(* store/src/store-bundle-export.ts, store-bundle-import.ts, scrub/).      *)
(*                                                                         *)
(* An export filters the log, scrubs the credentials of that moment out of *)
(* every text and re-addresses the blobs it changes. An import classifies  *)
(* the run outside the write transaction and checks under the write lock   *)
(* that the row is still the one it classified; other imports may come in  *)
(* between. A content stands for its own sha: the credential it holds, or  *)
(* a plain text.                                                           *)
(***************************************************************************)
EXTENDS Integers, Sequences, FiniteSetsExt, SequencesExt

CONSTANTS Secrets,     \* credential values
          Importers,   \* processes that import into the target store
          Runs,        \* the runs considered: the events and artifacts one comes to
          MaxExports,  \* bound: bundles
          MaxRotations,\* bound: changes of the credentials
          RaceAttempts,\* IMPORT_RACE_ATTEMPTS
          None

VARIABLES run,        \* the run this is about
          log,        \* its events in its own store
          artifacts,  \* its artifacts, in the order of their keys
          creds,      \* credentials stored there
          rotations,
          reading,    \* the export under way: the events it has read
          bundles,    \* the bundles written so far
          row,        \* run_state of the run in the target store
          stored,     \* its events there
          blobRows,   \* blobs the target store knows of
          imp         \* each importer: where it is and what it classified

source == <<run, log, artifacts, creds, rotations>>
target == <<row, stored, blobRows>>
vars == <<source, reading, bundles, target, imp>>

\* genesis and facts move the run, an output is a fact whose struct was spilled to
\* a blob, an intent carries free text, a delta is what the transcript repeats.
Types == {"fact", "output", "intent", "delta"}
Redacted == "redacted"
Texts == Secrets \union {"plain", Redacted}
Events == [seq : Nat, type : Types, text : Texts]
Artifacts == [mime : {"text", "binary"}, sha : Texts]

\* A row of the target store, or None: it has never heard of the run.
Rows == [imported : BOOLEAN, version : Nat, next : Nat]

\* What an import found, and the row it found it in.
Plans == [mode : {"new", "identical", "extend"}, fence : Rows \union {None}]

\* What a run comes to, the attempts of an import, and a mark no credential is.
BundlesAssumption ==
    /\ Redacted \notin Secrets /\ None \notin Rows \union Plans
    /\ MaxExports \in Nat /\ MaxRotations \in Nat /\ RaceAttempts \in Nat \ {0}
    /\ \A r \in Runs : /\ r.events \in Seq(Types \X Texts)
                      /\ r.artifacts \in Seq({"text", "binary"} \X Texts)

Fact(e) == e.type \in {"fact", "output"}

\* deriveRunState: versions are the seqs of facts, next_seq leads every event.
Replay(events) ==
    [version |-> Max({0} \union {e.seq : e \in {x \in events : Fact(x)}}),
     next |-> Max({-1} \union {e.seq : e \in events}) + 1]

Init ==
    /\ run \in Runs /\ log = <<[seq |-> 0, type |-> "fact", text |-> "plain"]>>
    /\ artifacts = <<>> /\ creds = Secrets /\ rotations = 0
    /\ reading = None /\ bundles = <<>>
    \* the target has never heard of the run, or executes it itself
    /\ \/ row = None /\ stored = {}
       \/ row = [imported |-> FALSE, version |-> 0, next |-> 1] /\ stored = ToSet(log)
    /\ blobRows = {}
    /\ imp = [i \in Importers |-> None]

----------------------------------------------------------------------------
\* The run goes on

Emit ==
    /\ Len(log) <= Len(run.events)
    /\ LET e == run.events[Len(log)] IN log' = Append(log, [seq |-> Len(log), type |-> e[1], text |-> e[2]])
    /\ UNCHANGED <<run, artifacts, creds, rotations, reading, bundles, target, imp>>

RecordArtifact ==
    /\ Len(artifacts) < Len(run.artifacts)
    /\ LET a == run.artifacts[Len(artifacts) + 1] IN artifacts' = Append(artifacts, [mime |-> a[1], sha |-> a[2]])
    /\ UNCHANGED <<run, log, creds, rotations, reading, bundles, target, imp>>

Rotate(s) ==
    /\ rotations < MaxRotations /\ rotations' = rotations + 1
    /\ creds' = IF s \in creds THEN creds \ {s} ELSE creds \union {s}
    /\ UNCHANGED <<run, log, artifacts, reading, bundles, target, imp>>

----------------------------------------------------------------------------
\* Export

\* buildExportRegistry: every value a credential source of the store still holds.
ExportRegistry == creds

\* scrubText with the registry built from the credentials of the moment.
ScrubText(text) == IF text \in ExportRegistry THEN Redacted ELSE text

\* reCasMap: one entry per original blob, the first surface that names it decides
\* whether it is text. Artifacts come before the spilled outputs.
Recas(sha) ==
    IF \E k \in DOMAIN artifacts : /\ artifacts[k] = [mime |-> "binary", sha |-> sha]
                                  /\ \A j \in 1 .. k - 1 : artifacts[j].sha # sha
       THEN sha ELSE ScrubText(sha)

Blobs(events) ==
    {Recas(artifacts[k].sha) : k \in DOMAIN artifacts}
    \union {Recas(e.text) : e \in {x \in events : x.type = "output"}}

\* The reference a completed node keeps is left as it was.
FaultExported(e) == IF e.type = "intent" THEN [e EXCEPT !.text = ScrubText(@)] ELSE e

\* The payload of an exported event: free text is scrubbed, the reference to a
\* spilled struct follows the blob.
Exported(e) ==
    IF e.type = "output" THEN [e EXCEPT !.text = Recas(@)] ELSE [e EXCEPT !.text = ScrubText(@)]

\* The denylist: what the transcript repeats stays behind.
Retained(events) == {e \in events : e.type # "delta"}

\* Binary blobs are scanned, not changed.
LiveLiteralHit ==
    \E k \in DOMAIN artifacts : artifacts[k].mime = "binary" /\ Recas(artifacts[k].sha) \in ExportRegistry

ReadLog ==
    /\ reading = None /\ Len(bundles) < MaxExports
    /\ reading' = Retained(ToSet(log))
    /\ UNCHANGED <<source, bundles, target, imp>>

\* The members of a bundle, and what the store's credentials were at that moment.
Bundle(events) ==
    [events |-> {Exported(e) : e \in events},
     artifacts |-> {[artifacts[k] EXCEPT !.sha = Recas(@)] : k \in DOMAIN artifacts},
     blobs |-> Blobs(events), hit |-> LiveLiteralHit, creds |-> creds]

\* Credentials and artifacts are read after the events; the run may have moved on.
ExportRunBundle ==
    /\ reading # None
    /\ bundles' = Append(bundles, Bundle(reading))
    /\ reading' = None
    /\ UNCHANGED <<source, target, imp>>

----------------------------------------------------------------------------
\* Import

\* Every blob of the manifest is there and hashes to its name, every artifact names
\* one of them, the genesis is well formed; nothing has been written yet.
Verify(i, n) ==
    /\ imp[i] = None
    /\ {a.sha : a \in bundles[n].artifacts} \subseteq bundles[n].blobs
    /\ imp' = [imp EXCEPT ![i] = [pc |-> "classify", bundle |-> n, tries |-> 0, plan |-> None]]
    /\ UNCHANGED <<source, reading, bundles, target>>

\* The stored events reappear unchanged, and what is new comes after them.
Prefix(events) ==
    /\ stored \subseteq events
    /\ \A e \in events \ stored : \A s \in stored : s.seq < e.seq

Refuse(i) == imp' = [imp EXCEPT ![i].pc = "refused"]

ClassifyExistingRun(i) ==
    /\ imp[i] # None /\ imp[i].pc = "classify"
    /\ LET events == bundles[imp[i].bundle].events
           plan == [mode |-> IF row = None THEN "new" ELSE IF events = stored THEN "identical" ELSE "extend",
                    fence |-> row]
       IN IF row # None /\ (~row.imported \/ ~Prefix(events))
             THEN Refuse(i)
             ELSE imp' = [imp EXCEPT ![i].pc = "write", ![i].plan = plan]
    /\ UNCHANGED <<source, reading, bundles, target>>

\* The fence compares versions only.
FaultAssertImportFence(plan) ==
    IF plan.mode = "new" THEN row = None
    ELSE row # None /\ row.imported /\ row.version = plan.fence.version

\* Under the write lock: the row is still the one that was classified.
AssertImportFence(plan) ==
    IF plan.mode = "new" THEN row = None
    ELSE row # None /\ row.imported /\ row.version = plan.fence.version /\ row.next = plan.fence.next

\* One transaction: blobs, the row and its marker, the events.
WriteAll(i) ==
    /\ imp[i] # None /\ imp[i].pc = "write"
    /\ AssertImportFence(imp[i].plan)
    /\ LET b == bundles[imp[i].bundle] IN
       /\ blobRows' = blobRows \union b.blobs
       /\ row' = IF imp[i].plan.mode = "identical" THEN row
                 ELSE [imported |-> TRUE, version |-> Replay(b.events).version, next |-> Replay(b.events).next]
       \* INSERT OR IGNORE by seq
       /\ stored' = stored \union {e \in b.events : \A s \in stored : s.seq # e.seq}
    /\ imp' = [imp EXCEPT ![i] = None]
    /\ UNCHANGED <<source, reading, bundles>>

\* A race ends the import.
FaultRace(i) ==
    /\ imp[i] # None /\ imp[i].pc = "write"
    /\ ~AssertImportFence(imp[i].plan)
    /\ imp' = [imp EXCEPT ![i].tries = @ + 1, ![i].pc = "refused"]
    /\ UNCHANGED <<source, reading, bundles, target>>

\* ImportRaceError: classify again, a few times.
Race(i) ==
    /\ imp[i] # None /\ imp[i].pc = "write"
    /\ ~AssertImportFence(imp[i].plan)
    /\ imp' = [imp EXCEPT ![i].tries = @ + 1,
                          ![i].pc = IF imp[i].tries + 1 >= RaceAttempts THEN "refused" ELSE "classify"]
    /\ UNCHANGED <<source, reading, bundles, target>>

----------------------------------------------------------------------------
Next ==
    \/ Emit \/ RecordArtifact
    \/ \E s \in Secrets : Rotate(s)
    \/ ReadLog \/ ExportRunBundle
    \/ \E i \in Importers : \/ \E n \in DOMAIN bundles : Verify(i, n)
                            \/ ClassifyExistingRun(i) \/ WriteAll(i) \/ Race(i)

Spec == Init /\ [][Next]_vars

----------------------------------------------------------------------------
BundleSet == [events : SUBSET Events, artifacts : SUBSET Artifacts, blobs : SUBSET Texts,
              hit : BOOLEAN, creds : SUBSET Secrets]
Imports == [pc : {"classify", "write", "refused"}, bundle : DOMAIN bundles, tries : Nat, plan : Plans \union {None}]

TypeOK ==
    /\ run \in Runs /\ log \in Seq(Events) /\ artifacts \in Seq(Artifacts)
    /\ creds \subseteq Secrets /\ rotations \in 0 .. MaxRotations
    /\ reading \in {None} \union SUBSET Events
    /\ bundles \in Seq(BundleSet) /\ Len(bundles) <= MaxExports
    /\ row \in Rows \union {None} /\ stored \subseteq Events /\ blobRows \subseteq Texts
    /\ imp \in [Importers -> Imports \union {None}]

\* A bundle stands alone: every blob an event or an artifact names is in it, also
\* where scrubbing gave the blob another address; and no text of it holds a
\* credential stored when it was made, and no blob does unless the scan says so.
BundleStandsAlone ==
    \A n \in DOMAIN bundles :
        LET b == bundles[n] IN
        /\ {a.sha : a \in b.artifacts} \union {e.text : e \in {x \in b.events : x.type = "output"}} \subseteq b.blobs
        /\ \A e \in b.events : e.type = "intent" => e.text \notin b.creds
        /\ b.blobs \intersect b.creds # {} => b.hit

\* An imported run is one bundle's log and its replay, whatever other imports come
\* between the classification and the write, and a run the store executes itself
\* is never written into.
ImportedIsReplay ==
    row # None =>
        /\ Replay(stored) = [version |-> row.version, next |-> row.next]
        /\ row.imported => \E n \in DOMAIN bundles : stored = bundles[n].events
        /\ ~row.imported => stored = {log[1]}
        /\ row.imported => {e.text : e \in {x \in stored : x.type = "output"}} \subseteq blobRows

\* An import that was refused did not carry the stored log on, or lost every one
\* of its races: the loser of one ends as a no-op or as an extension.
RefusedForCause ==
    \A i \in Importers :
        imp[i] # None /\ imp[i].pc = "refused" =>
            ~row.imported \/ ~Prefix(bundles[imp[i].bundle].events) \/ imp[i].tries = RaceAttempts

\* What travels is complete and clean, what arrives is what was sent, and an import
\* is refused only for a reason.
BundleSound == BundleStandsAlone /\ ImportedIsReplay /\ RefusedForCause

\* A bundle of the same run made later can be imported over an earlier one. It
\* cannot when the credentials changed in between: the events scrub differently.
LaterExportLands ==
    \A i \in Importers :
        imp[i] # None /\ imp[i].pc = "refused" => ~row.imported \/ Len(bundles) = 1 \/ imp[i].bundle # Len(bundles)
=============================================================================
