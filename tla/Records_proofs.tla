---------------------------- MODULE Records_proofs ---------------------------
(***************************************************************************)
(* Proofs about what is kept of a run once it has left the engine: its     *)
(* checkout (Checkout), its bundle (Bundles) and the command that runs and *)
(* exports it unattended (Ci).                                             *)
(*                                                                         *)
(* Checkout.  For any number of runs and clients, one run at a time holds  *)
(* the operator's checkout, what a run starts from and records is its own, *)
(* and no work is lost before somebody decides about it.  Nearly           *)
(* everything the invariant says is about one run (Row).  A step of a      *)
(* fiber or a verb changes one row and nothing that clients share, so      *)
(* RunStep carries the rest over and each action owes the row it changed.  *)
(*                                                                         *)
(* Bundles.  For any secrets, importers and runs, what an export wrote     *)
(* stands alone, and an import leaves the log of one bundle.  The invariant *)
(* keeps, for an importer between its classification and its write, that   *)
(* the row has only grown since (Planned).                                 *)
(*                                                                         *)
(* Ci.  For any page size and length of the log, the exit code is that of  *)
(* the run's outcome and what is left behind is clean.  The invariant says *)
(* that the tailer has folded exactly what is behind its cursor (Followed).*)
(***************************************************************************)
EXTENDS Checkout, Integers, Sequences, FiniteSetTheorems, SequenceTheorems, WellFoundedInduction, TLAPS

----------------------------------------------------------------------------
(* The inductive invariant.                                                *)

Born(r) == run[r].status # "unborn"

\* A fiber works on a running run and settles an ended one; it has an
\* environment from the end of its provisioning to its dispose.
Fits(r) ==
    /\ fiber[r] \in {"boot", "on", "stepped"} <=> run[r].status = "running"
    /\ fiber[r] \in {"settle", "record", "dispose"} => Terminal(r)
    /\ fiber[r] = "boot" => ~InCheckout(r) /\ env[r] = None /\ wt[r] # None
    /\ fiber[r] \in {"on", "stepped", "record", "dispose"} => env[r] # None

\* Nothing is done for a run that is not born, no work before its start, no
\* start without a base.
Begun(r) ==
    /\ env[r] # None \/ wt[r] # None \/ run[r].started \/ run[r].base # None => Born(r)
    /\ run[r].started => run[r].base # None
    /\ work[r] > 0 => run[r].started
    /\ Born(r) /\ ~InCheckout(r) => run[r].base # None
    /\ InCheckout(r) /\ env[r] # None /\ run[r].status \in {"queued", "paused"} => run[r].base # None

\* Only an ended run is released or waits in the inbox.  One that frees its
\* checkout by itself before it settles has no environment to record.
Closed(r) ==
    /\ run[r].released => Terminal(r)
    /\ run[r].early => run[r].released
    /\ run[r].inbox # None => Terminal(r) /\ ~InCheckout(r) /\ fiber[r] \notin {"settle", "record"}
    /\ InCheckout(r) /\ run[r].released /\ ~run[r].early /\ fiber[r] \in {"settle", "record"} => env[r] = None

\* The work of a run is in its worktree until it is in its snapshot, and in
\* its snapshot until it is recorded.
Carried(r) ==
    /\ ~InCheckout(r) /\ wt[r] # None => Own(r) \subseteq wt[r].has
    /\ ~InCheckout(r) /\ ~Terminal(r) /\ work[r] > 0 => wt[r] # None
    /\ ~InCheckout(r) /\ env[r] # None /\ (fiber[r] # "none" \/ ~Terminal(r)) => wt[r] # None
    /\ fiber[r] = "record" => snap[r] # None /\ Own(r) \subseteq snap[r]
    /\ fiber[r] = "dispose" => run[r].recorded # None /\ Own(r) \subseteq run[r].recorded

\* DisposedIsRecorded and PendingIsThere, of one run.
Kept(r) ==
    /\ ~InCheckout(r) /\ work[r] > 0 /\ wt[r] = None =>
          (run[r].recorded # None /\ Own(r) \subseteq run[r].recorded) \/ run[r].gced
    /\ run[r].inbox = "pending" => (snap[r] # None /\ Own(r) \subseteq snap[r]) \/ run[r].dropped

Foreign(r, X) == \A n \in 1 .. MaxWork : <<r, n>> \notin X

\* No base holds a mark of its run, of work done or still to come.
Apart(r) ==
    /\ run[r].base # None => Foreign(r, run[r].base)
    /\ env[r] # None => Foreign(r, env[r])

\* What a checkout run finds beyond its base is its own work or landed late,
\* for as long as it holds the checkout, in its last snapshot and on record.
Effects(r) == InCheckout(r) =>
    /\ Own(r) \subseteq tree
    /\ ~run[r].released /\ run[r].base # None => tree \ run[r].base \subseteq Own(r) \cup late
    /\ ~run[r].released /\ env[r] # None => tree \ env[r] \subseteq Own(r) \cup late
    /\ fiber[r] = "record" /\ ~run[r].early => snap[r] \ env[r] \subseteq Own(r) \cup late
    /\ run[r].recorded # None /\ ~run[r].early => run[r].recorded \ run[r].against \subseteq Own(r) \cup late

\* Content holds no mark of work that was not done yet.
Real(X) == \A r \in Runs, n \in 1 .. MaxWork : <<r, n>> \in X => n <= work[r]

RealRow(r) ==
    /\ run[r].base # None => Real(run[r].base)
    /\ env[r] # None => Real(env[r])
    /\ snap[r] # None => Real(snap[r])
    /\ wt[r] # None => Real(wt[r].has)

Row(r) == Fits(r) /\ Begun(r) /\ Closed(r) /\ Carried(r) /\ Kept(r) /\ Apart(r)

\* A client that enqueues has a run of its own, not born; one that acts on the
\* inbox has an ended one; an accept that is not stale knows of no holder.
Call(c) ==
    /\ client[c].pc # "idle" => client[c].of \in Runs
    /\ client[c].pc \in {"checked", "captured"} =>
          ~Born(client[c].of) /\ \A d \in Clients \ {c} : client[d].of # client[c].of
    /\ client[c].pc \in {"landing", "landed", "dropped"} => run[client[c].of].inbox # None
    /\ client[c].pc = "landing" /\ ~client[c].stale => Holders = {}
    /\ Real(client[c].cap)

OneAtATime == \A r, s \in Holders : r = s

CheckoutInv ==
    /\ TypeOK
    /\ \A r \in Runs : Row(r) /\ Effects(r) /\ RealRow(r)
    /\ \A c \in Clients : Call(c)
    /\ Real(tree)
    /\ OneAtATime

----------------------------------------------------------------------------
(* Frames.                                                                 *)

\* Nothing of run s changes.
Still(s) ==
    /\ run'[s] = run[s] /\ wt'[s] = wt[s] /\ snap'[s] = snap[s]
    /\ fiber'[s] = fiber[s] /\ env'[s] = env[s] /\ work'[s] = work[s]

\* What Row says of a run depends on nothing but that run.
LEMMA RowFrame == ASSUME NEW s \in Runs, Row(s), Still(s) PROVE Row(s)'
<1>1. Own(s)' = Own(s)
  BY DEF Own, Still
<1>2. Terminal(s)' = Terminal(s) /\ InCheckout(s)' = InCheckout(s) /\ Born(s)' = Born(s)
  BY DEF Still, Terminal, InCheckout, Born
<1>3. Fits(s)' /\ Begun(s)' /\ Closed(s)'
  BY <1>2 DEF Row, Still, Fits, Begun, Closed
<1>4. Carried(s)' /\ Kept(s)'
  BY <1>1, <1>2 DEF Row, Still, Carried, Kept
<1>5. Apart(s)'
  BY DEF Row, Still, Apart, Foreign
<1> QED BY <1>3, <1>4, <1>5 DEF Row

\* Marks that land late are excused, so more of them do no harm.
LEMMA EffectsFrame ==
  ASSUME NEW s \in Runs, Effects(s), Still(s), tree' = tree, late \subseteq late'
  PROVE  Effects(s)'
<1>1. Own(s)' = Own(s) /\ InCheckout(s)' = InCheckout(s)
  BY DEF Own, Still, InCheckout
<1> QED BY <1>1 DEF Effects, Still

\* Work is never undone, so content that held no unmade mark holds none later.
LEMMA RealFrame ==
  ASSUME CheckoutAssumption, work \in [Runs -> 0 .. MaxWork], work' \in [Runs -> 0 .. MaxWork],
         \A s \in Runs : work[s] <= work'[s], NEW X, Real(X)
  PROVE  \A r \in Runs, n \in 1 .. MaxWork : <<r, n>> \in X => n <= work'[r]
<1> SUFFICES ASSUME NEW r \in Runs, NEW n \in 1 .. MaxWork, <<r, n>> \in X PROVE n <= work'[r]
  OBVIOUS
<1>1. n <= work[r] /\ work[r] <= work'[r] /\ work[r] \in Nat /\ work'[r] \in Nat /\ n \in Nat
  BY DEF Real, CheckoutAssumption
<1> QED BY <1>1

LEMMA RealRowFrame ==
  ASSUME CheckoutAssumption, work \in [Runs -> 0 .. MaxWork], work' \in [Runs -> 0 .. MaxWork],
         \A s \in Runs : work[s] <= work'[s], NEW s \in Runs, Still(s), RealRow(s)
  PROVE  RealRow(s)'
<1>1. ASSUME NEW X, Real(X) PROVE \A r \in Runs, n \in 1 .. MaxWork : <<r, n>> \in X => n <= work'[r]
  BY <1>1, RealFrame
<1>2. run'[s].base # None => Real(run[s].base)
  BY DEF RealRow, Still
<1> QED BY <1>1, <1>2 DEF RealRow, Still, Real

\* What the runs may become as far as clients can tell.
Steady(r) ==
    /\ Born(r)' = Born(r) /\ InCheckout(r)' = InCheckout(r)
    /\ run[r].released => run'[r].released
    /\ run[r].inbox # None => run'[r].inbox # None
    /\ work[r] <= work'[r]

LEMMA StillIsSteady ==
  ASSUME CheckoutAssumption, TypeOK, NEW r \in Runs, Still(r) PROVE Steady(r)
<1>1. work[r] \in 0 .. MaxWork
  BY DEF TypeOK
<1>2. work[r] <= work[r]
  BY <1>1 DEF CheckoutAssumption
<1> QED BY <1>2 DEF Still, Steady, Born, InCheckout

LEMMA HoldersFrame ==
  ASSUME \A s \in Runs : Steady(s) PROVE Holders' \subseteq Holders
<1> SUFFICES ASSUME NEW s \in Runs, Born(s)', InCheckout(s)', ~run'[s].released
             PROVE  Born(s) /\ InCheckout(s) /\ ~run[s].released
  BY DEF Holders, Born
<1> QED BY DEF Steady

\* A client that does not move itself keeps what it relies on.
LEMMA CallFrame ==
  ASSUME CheckoutAssumption, CheckoutInv, TypeOK', \A s \in Runs : Steady(s),
         NEW d \in Clients, client'[d] = client[d],
         client[d].pc \in {"checked", "captured"} => \A e \in Clients \ {d} :
              client'[e].of = client[e].of \/ client'[e].of # client[d].of
  PROVE  Call(d)'
<1>1. Call(d)
  BY DEF CheckoutInv
<1>2. \A s \in Runs : work[s] <= work'[s]
  BY DEF Steady
<1>3. Real(client[d].cap)'
  <2>1. work \in [Runs -> 0 .. MaxWork] /\ work' \in [Runs -> 0 .. MaxWork] /\ Real(client[d].cap)
    BY <1>1 DEF CheckoutInv, TypeOK, Call
  <2> QED BY <2>1, <1>2, RealFrame DEF Real
<1>4. client[d].pc # "idle" => client[d].of \in Runs
  BY <1>1 DEF Call
<1>5. client[d].pc \in {"checked", "captured"} =>
         ~Born(client[d].of)' /\ \A e \in Clients \ {d} : client'[e].of # client[d].of
  BY <1>1, <1>4 DEF Call, Steady
<1>6. client[d].pc \in {"landing", "landed", "dropped"} => run'[client[d].of].inbox # None
  BY <1>1, <1>4 DEF Call, Steady
<1>7. Holders' \subseteq Holders
  BY HoldersFrame
<1> QED BY <1>1, <1>3, <1>4, <1>5, <1>6, <1>7 DEF Call

\* A step of run r, in which it may change the operator's tree.
LEMMA TreeStep ==
  ASSUME CheckoutAssumption, CheckoutInv, NEW r \in Runs, \A s \in Runs \ {r} : Still(s),
         client' = client, Steady(r), TypeOK', Row(r)', RealRow(r)',
         \A s \in Runs : Effects(s)', Real(tree)'
  PROVE  CheckoutInv'
<1>1. work \in [Runs -> 0 .. MaxWork] /\ work' \in [Runs -> 0 .. MaxWork]
  BY DEF CheckoutInv, TypeOK
<1>2. \A s \in Runs : Steady(s)
  BY StillIsSteady DEF CheckoutInv
<1>3. \A s \in Runs : work[s] <= work'[s]
  BY <1>2 DEF Steady
<1>4. ASSUME NEW s \in Runs PROVE Row(s)' /\ RealRow(s)'
  <2>1. CASE s = r
    BY <2>1
  <2>2. CASE s # r
    BY <2>2, <1>1, <1>3, RowFrame, RealRowFrame DEF CheckoutInv
  <2> QED BY <2>1, <2>2
<1>5. \A c \in Clients : Call(c)'
  BY <1>2, CallFrame
<1>6. OneAtATime'
  BY <1>2, HoldersFrame DEF CheckoutInv, OneAtATime
<1> QED BY <1>4, <1>5, <1>6 DEF CheckoutInv

\* A step of run r alone, that leaves the other runs, the clients and the
\* operator's tree as they are.
Alone(r) ==
    /\ \A s \in Runs \ {r} : Still(s)
    /\ UNCHANGED <<client, tree, committed, late>>

LEMMA RunStep ==
  ASSUME CheckoutAssumption, CheckoutInv, NEW r \in Runs, Alone(r), Steady(r),
         TypeOK', Row(r)', Effects(r)', RealRow(r)'
  PROVE  CheckoutInv'
<1>1. work \in [Runs -> 0 .. MaxWork] /\ work' \in [Runs -> 0 .. MaxWork]
  BY DEF CheckoutInv, TypeOK
<1>2. \A s \in Runs : work[s] <= work'[s]
  BY StillIsSteady DEF CheckoutInv, Alone, Steady
<1>3. ASSUME NEW s \in Runs PROVE Effects(s)'
  <2>1. CASE s = r
    BY <2>1
  <2>2. CASE s # r
    BY <2>2, EffectsFrame DEF Alone, CheckoutInv
  <2> QED BY <2>1, <2>2
<1>4. Real(tree)'
  BY <1>1, <1>2, RealFrame DEF CheckoutInv, Alone, Real
<1> QED BY <1>3, <1>4, TreeStep DEF Alone

----------------------------------------------------------------------------
(* The initial states.                                                     *)

LEMMA InitCheckout == ASSUME CheckoutAssumption, Init PROVE CheckoutInv
<1>1. PICK plan \in RunPlans :
         run = [r \in Runs |-> [kind |-> plan[r], status |-> "unborn", base |-> None, head |-> {},
                                started |-> FALSE, released |-> FALSE, early |-> FALSE,
                                inbox |-> None, recorded |-> None, against |-> {}, dropped |-> FALSE, gced |-> FALSE]]
  BY DEF Init
<1>2. tree \in {{}, {<<0, 1>>}}
  BY DEF Init
<1>3. plan \in [Runs -> {"fresh", "dirty", "checkout"}]
  BY DEF CheckoutAssumption
<1>4. TypeOK
  <2>1. run \in [Runs -> RunRow]
    BY <1>1, <1>3 DEF RunRow, Content
  <2>2. client \in [Clients -> ClientState]
    BY DEF Init, Idle, ClientState, Content
  <2>3. tree \in Content /\ late \in Content /\ committed \subseteq tree
    BY <1>2 DEF Init, Content, Marks
  <2> QED BY <2>1, <2>2, <2>3 DEF Init, TypeOK, SnapshotTip, ProvisionedBase, CheckoutAssumption
<1>5. ASSUME NEW r \in Runs PROVE Row(r) /\ Effects(r) /\ RealRow(r)
  <2>1. /\ run[r].status = "unborn" /\ run[r].base = None /\ ~run[r].started /\ ~run[r].released
        /\ ~run[r].early /\ run[r].inbox = None /\ run[r].recorded = None
        /\ wt[r] = None /\ snap[r] = None /\ fiber[r] = "none" /\ env[r] = None /\ work[r] = 0
    BY <1>1 DEF Init
  <2>2. Own(r) = {}
    BY <2>1 DEF Own
  <2>3. Fits(r) /\ Begun(r) /\ Closed(r)
    BY <2>1 DEF Fits, Begun, Closed, Terminal, Born
  <2>4. Carried(r) /\ Kept(r) /\ Apart(r)
    BY <2>1, CheckoutAssumption DEF Carried, Kept, Apart, CheckoutAssumption
  <2>5. Effects(r) /\ RealRow(r)
    BY <2>1, <2>2 DEF Effects, RealRow
  <2> QED BY <2>3, <2>4, <2>5 DEF Row
<1>6. Real(tree)
  BY <1>2 DEF Real, CheckoutAssumption
<1>7. ASSUME NEW c \in Clients PROVE Call(c)
  BY DEF Init, Idle, Call, Real
<1>8. OneAtATime
  BY <1>1 DEF OneAtATime, Holders
<1> QED BY <1>4, <1>5, <1>6, <1>7, <1>8 DEF CheckoutInv

----------------------------------------------------------------------------
(* Provisioning.                                                           *)

\* The row after a change of status keeps every other column.
LEMMA StatusRow ==
  ASSUME TypeOK, NEW r \in Runs,
         NEW t \in {"queued", "running", "paused", "completed", "halted", "cancelled"},
         run' = [run EXCEPT ![r].status = t]
  PROVE  /\ run' \in [Runs -> RunRow]
         /\ \A s \in Runs \ {r} : run'[s] = run[s]
         /\ run'[r].status = t /\ run'[r].kind = run[r].kind /\ run'[r].base = run[r].base
         /\ run'[r].started = run[r].started /\ run'[r].released = run[r].released
         /\ run'[r].early = run[r].early /\ run'[r].inbox = run[r].inbox
         /\ run'[r].recorded = run[r].recorded /\ run'[r].against = run[r].against
         /\ run'[r].dropped = run[r].dropped /\ run'[r].gced = run[r].gced
<1>1. run[r] \in RunRow
  BY DEF TypeOK
<1> QED BY <1>1 DEF TypeOK, RunRow

\* A run that has no base yet has done no work, and nothing holds a mark of it.
LEMMA NothingDone ==
  ASSUME CheckoutAssumption, CheckoutInv, NEW r \in Runs, work[r] = 0 \/ run[r].base = None
  PROVE  work[r] = 0 /\ Own(r) = {} /\ \A X : Real(X) => Foreign(r, X)
<1>1. work[r] = 0
  BY DEF CheckoutInv, Row, Begun, TypeOK, CheckoutAssumption
<1>2. Own(r) = {}
  BY <1>1 DEF Own
<1>3. ASSUME NEW X, Real(X) PROVE Foreign(r, X)
  <2> SUFFICES ASSUME NEW n \in 1 .. MaxWork, <<r, n>> \in X PROVE FALSE
    BY DEF Foreign
  <2>1. n <= 0 /\ n \in Nat /\ n >= 1
    BY <1>1, <1>3 DEF Real, CheckoutAssumption
  <2> QED BY <2>1
<1> QED BY <1>1, <1>2, <1>3

LEMMA AttachStep == ASSUME CheckoutAssumption, CheckoutInv, NEW r \in Runs, Attach(r) PROVE CheckoutInv'
<1>1. TypeOK /\ Row(r) /\ Effects(r) /\ RealRow(r) /\ Real(tree)
  BY DEF CheckoutInv
<1>2. /\ run[r].status = "queued" /\ run[r].kind = "checkout" /\ fiber[r] = "none"
      /\ run' = [run EXCEPT ![r].status = "running"]
      /\ fiber' = [fiber EXCEPT ![r] = "on"]
      /\ env' = [env EXCEPT ![r] = IF @ # None THEN @ ELSE Adopted(r)]
      /\ UNCHANGED <<wt, snap, client, tree, committed, work, late>>
  BY DEF Attach, InCheckout, Claims, Move
<1>3. Adopted(r) \in Content /\ env'[r] \in Content /\ fiber'[r] = "on"
  BY <1>1, <1>2 DEF TypeOK, Adopted, RunRow, ProvisionedBase
<1>4. env'[r] # None
  BY <1>3 DEF CheckoutAssumption
<1>5. \/ env'[r] = env[r] /\ env[r] # None
      \/ env'[r] = run[r].base /\ run[r].base # None
      \/ env'[r] = tree /\ Own(r) = {} /\ Foreign(r, tree)
  BY <1>1, <1>2, NothingDone DEF Adopted, TypeOK
<1>6. TypeOK'
  BY <1>1, <1>2, <1>3, StatusRow DEF TypeOK, ProvisionedBase
<1>7. Fits(r)' /\ Begun(r)' /\ Closed(r)'
  BY <1>1, <1>2, <1>3, <1>4, StatusRow DEF Row, Fits, Begun, Closed, Terminal, InCheckout, Born
<1>8. Carried(r)' /\ Kept(r)'
  BY <1>1, <1>2, <1>3, StatusRow DEF Row, Carried, Kept, Terminal, InCheckout, Own
<1>9. Apart(r)'
  BY <1>1, <1>2, <1>5, StatusRow DEF Row, Apart, Foreign
<1>10. Effects(r)'
  BY <1>1, <1>2, <1>3, <1>5, StatusRow DEF Row, Effects, Closed, Terminal, InCheckout, Own
<1>11. RealRow(r)'
  BY <1>1, <1>2, <1>5, StatusRow DEF RealRow, Real
<1>12. Alone(r) /\ Steady(r)
  BY <1>1, <1>2, StatusRow DEF Alone, Still, Steady, Born, InCheckout, TypeOK, CheckoutAssumption
<1> QED BY <1>6, <1>7, <1>8, <1>9, <1>10, <1>11, <1>12, RunStep DEF Row

LEMMA AddWorktreeStep == ASSUME CheckoutAssumption, CheckoutInv, NEW r \in Runs, AddWorktree(r) PROVE CheckoutInv'
<1>1. TypeOK /\ Row(r) /\ Effects(r) /\ RealRow(r)
  BY DEF CheckoutInv
<1>2. /\ run[r].status = "queued" /\ run[r].kind # "checkout" /\ fiber[r] = "none"
      /\ env[r] = None /\ wt[r] = None
      /\ run' = [run EXCEPT ![r].status = "running"]
      /\ fiber' = [fiber EXCEPT ![r] = "boot"]
      /\ wt' = [wt EXCEPT ![r] = [has |-> run[r].base, boot |-> FALSE]]
      /\ UNCHANGED <<snap, env, client, tree, committed, work, late>>
  BY DEF AddWorktree, InCheckout, Claims, Move
<1>3. run[r].base \in Content /\ run[r].base # None
  BY <1>1, <1>2 DEF Row, Begun, Born, InCheckout, TypeOK, RunRow
<1>4. wt'[r] = [has |-> run[r].base, boot |-> FALSE] /\ wt'[r] \in Worktree /\ fiber'[r] = "boot"
  BY <1>1, <1>2, <1>3 DEF TypeOK, Worktree
<1>5. wt'[r] # None /\ wt'[r].has = run[r].base
  <2>1. wt'[r] \in Worktree
    BY <1>4
  <2>2. wt'[r] # None
    BY <2>1 DEF CheckoutAssumption
  <2> QED BY <1>4, <2>2
<1>6. work[r] = 0 /\ Own(r) = {}
  <2>1. ~(work[r] > 0)
    BY <1>1, <1>2 DEF Row, Carried, Terminal, InCheckout
  <2>2. work[r] \in 0 .. MaxWork
    BY <1>1 DEF TypeOK
  <2>3. work[r] = 0
    BY <2>1, <2>2 DEF CheckoutAssumption
  <2> QED BY <2>3, NothingDone
<1>7. TypeOK'
  BY <1>1, <1>2, <1>4, StatusRow DEF TypeOK
<1>8. Fits(r)' /\ Begun(r)' /\ Closed(r)'
  BY <1>1, <1>2, <1>4, <1>5, StatusRow DEF Row, Fits, Begun, Closed, Terminal, InCheckout, Born
<1>9. Carried(r)' /\ Kept(r)'
  BY <1>1, <1>2, <1>4, <1>5, <1>6, StatusRow DEF Row, Carried, Kept, Terminal, InCheckout, Own
<1>10. Apart(r)' /\ Effects(r)'
  BY <1>1, <1>2, StatusRow DEF Row, Apart, Foreign, Effects, InCheckout
<1>11. RealRow(r)'
  BY <1>1, <1>2, <1>3, <1>5, StatusRow DEF RealRow, Real
<1>12. Alone(r) /\ Steady(r)
  BY <1>1, <1>2, StatusRow DEF Alone, Still, Steady, Born, InCheckout, TypeOK, CheckoutAssumption
<1> QED BY <1>7, <1>8, <1>9, <1>10, <1>11, <1>12, RunStep DEF Row

LEMMA ReuseWorktreeStep == ASSUME CheckoutAssumption, CheckoutInv, NEW r \in Runs, ReuseWorktree(r) PROVE CheckoutInv'
<1>1. TypeOK /\ Row(r) /\ Effects(r) /\ RealRow(r)
  BY DEF CheckoutInv
<1>2. /\ run[r].status = "queued" /\ run[r].kind # "checkout" /\ fiber[r] = "none"
      /\ env[r] # None \/ wt[r] # None
      /\ run' = [run EXCEPT ![r].status = "running"]
      /\ fiber' = [fiber EXCEPT ![r] = "on"]
      /\ env' = [env EXCEPT ![r] = run[r].base]
      /\ UNCHANGED <<wt, snap, client, tree, committed, work, late>>
  BY DEF ReuseWorktree, InCheckout, Claims, Move
<1>3. run[r].base \in Content /\ run[r].base # None
  BY <1>1, <1>2 DEF Row, Begun, Born, InCheckout, TypeOK, RunRow
<1>4. env'[r] = run[r].base /\ fiber'[r] = "on"
  BY <1>1, <1>2 DEF TypeOK
<1>5. wt[r] # None
  BY <1>1, <1>2 DEF Row, Carried, Terminal, InCheckout
<1>6. TypeOK'
  BY <1>1, <1>2, <1>3, StatusRow DEF TypeOK, ProvisionedBase
<1>7. Fits(r)' /\ Begun(r)' /\ Closed(r)'
  BY <1>1, <1>2, <1>3, <1>4, StatusRow DEF Row, Fits, Begun, Closed, Terminal, InCheckout, Born
<1>8. Carried(r)' /\ Kept(r)'
  BY <1>1, <1>2, <1>4, <1>5, StatusRow DEF Row, Carried, Kept, Terminal, InCheckout, Own
<1>9. Apart(r)' /\ Effects(r)'
  BY <1>1, <1>2, <1>4, StatusRow DEF Row, Apart, Foreign, Effects, InCheckout
<1>10. RealRow(r)'
  BY <1>1, <1>2, <1>4, StatusRow DEF RealRow, Real
<1>11. Alone(r) /\ Steady(r)
  BY <1>1, <1>2, StatusRow DEF Alone, Still, Steady, Born, InCheckout, TypeOK, CheckoutAssumption
<1> QED BY <1>6, <1>7, <1>8, <1>9, <1>10, <1>11, RunStep DEF Row

LEMMA BootstrapStep == ASSUME CheckoutAssumption, CheckoutInv, NEW r \in Runs, Bootstrap(r) PROVE CheckoutInv'
<1>1. TypeOK /\ Row(r) /\ Effects(r) /\ RealRow(r)
  BY DEF CheckoutInv
<1>2. /\ fiber[r] = "boot" /\ fiber' = [fiber EXCEPT ![r] = "on"]
      /\ wt' = [wt EXCEPT ![r].boot = TRUE]
      /\ env' = [env EXCEPT ![r] = run[r].base]
      /\ UNCHANGED <<run, snap, client, tree, committed, work, late>>
  BY DEF Bootstrap, Move
<1>3. run[r].status = "running" /\ run[r].kind # "checkout" /\ wt[r] # None /\ wt[r] \in Worktree
  BY <1>1, <1>2 DEF Row, Fits, InCheckout, TypeOK
<1>4. run[r].base \in Content /\ run[r].base # None
  BY <1>1, <1>3 DEF Row, Begun, Born, InCheckout, TypeOK, RunRow
<1>5. wt'[r] \in Worktree /\ wt'[r].has = wt[r].has /\ env'[r] = run[r].base /\ fiber'[r] = "on"
  BY <1>1, <1>2, <1>3 DEF TypeOK, Worktree
<1>6. wt'[r] # None
  BY <1>5 DEF CheckoutAssumption
<1>7. TypeOK'
  BY <1>1, <1>2, <1>4, <1>5 DEF TypeOK, ProvisionedBase
<1>8. Fits(r)' /\ Begun(r)' /\ Closed(r)'
  BY <1>1, <1>2, <1>3, <1>4, <1>5, <1>6 DEF Row, Fits, Begun, Closed, Terminal, InCheckout, Born
<1>9. Carried(r)' /\ Kept(r)'
  BY <1>1, <1>2, <1>3, <1>5, <1>6 DEF Row, Carried, Kept, Terminal, InCheckout, Own
<1>10. Apart(r)' /\ Effects(r)'
  BY <1>1, <1>2, <1>3, <1>5 DEF Row, Apart, Foreign, Effects, InCheckout
<1>11. RealRow(r)'
  BY <1>1, <1>2, <1>3, <1>5 DEF RealRow, Real
<1>12. Alone(r) /\ Steady(r)
  BY <1>1, <1>2 DEF Alone, Still, Steady, Born, InCheckout, TypeOK, CheckoutAssumption
<1> QED BY <1>7, <1>8, <1>9, <1>10, <1>11, <1>12, RunStep DEF Row

LEMMA ProvisionFailsStep == ASSUME CheckoutAssumption, CheckoutInv, NEW r \in Runs, ProvisionFails(r) PROVE CheckoutInv'
<1>1. TypeOK /\ Row(r) /\ Effects(r) /\ RealRow(r) /\ run[r] \in RunRow
  BY DEF CheckoutInv, TypeOK
<1>2. /\ fiber[r] = "boot" \/ run[r].status = "queued"
      /\ fiber' = [fiber EXCEPT ![r] = "settle"]
      /\ run' = [run EXCEPT ![r].status = "halted", ![r].released = @ \/ run[r].base = None]
      /\ UNCHANGED <<wt, snap, env, client, tree, committed, work, late>>
  BY DEF ProvisionFails
<1>3. /\ run'[r].status = "halted" /\ run'[r].released = (run[r].released \/ run[r].base = None)
      /\ run'[r].kind = run[r].kind /\ run'[r].base = run[r].base /\ run'[r].started = run[r].started
      /\ run'[r].early = run[r].early /\ run'[r].inbox = run[r].inbox /\ run'[r].recorded = run[r].recorded
      /\ run'[r].against = run[r].against /\ run'[r].dropped = run[r].dropped /\ run'[r].gced = run[r].gced
      /\ fiber'[r] = "settle"
  BY <1>1, <1>2 DEF RunRow, TypeOK
<1>4. run' \in [Runs -> RunRow] /\ \A s \in Runs \ {r} : run'[s] = run[s]
  BY <1>1, <1>2 DEF RunRow, TypeOK
<1>5. run[r].status \in {"queued", "running"} /\ (run[r].status = "running" => fiber[r] = "boot")
  BY <1>1, <1>2 DEF Row, Fits
<1>6. TypeOK'
  BY <1>1, <1>2, <1>4 DEF TypeOK
<1>7. Fits(r)' /\ Begun(r)'
  BY <1>1, <1>2, <1>3, <1>5 DEF Row, Fits, Begun, Terminal, InCheckout, Born
<1>8. Closed(r)'
  BY <1>1, <1>2, <1>3, <1>5 DEF Row, Closed, Fits, Begun, Terminal, InCheckout
<1>9. Carried(r)' /\ Kept(r)'
  BY <1>1, <1>2, <1>3, <1>5 DEF Row, Carried, Kept, Fits, Terminal, InCheckout, Own
<1>10. Apart(r)'
  BY <1>1, <1>2, <1>3 DEF Row, Apart, Foreign
<1>11. Effects(r)'
  BY <1>1, <1>2, <1>3 DEF Row, Effects, InCheckout, Own
<1>12. RealRow(r)'
  BY <1>1, <1>2, <1>3 DEF RealRow, Real
<1>13. Alone(r)
  BY <1>1, <1>2, <1>4 DEF Alone, Still, TypeOK
<1>14. Steady(r)
  <2>1. work[r] <= work'[r]
    BY <1>1, <1>2 DEF TypeOK, CheckoutAssumption
  <2>2. run[r].released => run'[r].released
    BY <1>3
  <2>3. Born(r)' = Born(r) /\ InCheckout(r)' = InCheckout(r)
    BY <1>3, <1>5 DEF Born, InCheckout
  <2> QED BY <1>3, <2>1, <2>2, <2>3 DEF Steady
<1> QED BY <1>6, <1>7, <1>8, <1>9, <1>10, <1>11, <1>12, <1>13, <1>14, RunStep DEF Row

LEMMA StartStep == ASSUME CheckoutAssumption, CheckoutInv, NEW r \in Runs, Start(r) PROVE CheckoutInv'
<1>1. TypeOK /\ Row(r) /\ Effects(r) /\ RealRow(r) /\ run[r] \in RunRow
  BY DEF CheckoutInv, TypeOK
<1>2. /\ fiber[r] = "on"
      /\ run' = [run EXCEPT ![r].started = TRUE, ![r].base = StartBase(r)]
      /\ UNCHANGED <<wt, snap, fiber, env, client, tree, committed, work, late>>
  BY DEF Start
<1>3. run[r].status = "running" /\ env[r] # None
  BY <1>1, <1>2 DEF Row, Fits
<1>4. StartBase(r) \in Content /\ StartBase(r) # None
  BY <1>1, <1>3 DEF StartBase, TypeOK, RunRow, ProvisionedBase
<1>5. /\ run'[r].started = TRUE /\ run'[r].base = StartBase(r)
      /\ run'[r].kind = run[r].kind /\ run'[r].status = run[r].status /\ run'[r].released = run[r].released
      /\ run'[r].early = run[r].early /\ run'[r].inbox = run[r].inbox /\ run'[r].recorded = run[r].recorded
      /\ run'[r].against = run[r].against /\ run'[r].dropped = run[r].dropped /\ run'[r].gced = run[r].gced
  BY <1>1, <1>2 DEF RunRow, TypeOK
<1>6. run' \in [Runs -> RunRow] /\ \A s \in Runs \ {r} : run'[s] = run[s]
  BY <1>1, <1>2, <1>4 DEF RunRow, TypeOK
<1>7. TypeOK'
  BY <1>1, <1>2, <1>6 DEF TypeOK
<1>8. Fits(r)' /\ Begun(r)' /\ Closed(r)'
  BY <1>1, <1>2, <1>3, <1>4, <1>5 DEF Row, Fits, Begun, Closed, Terminal, InCheckout, Born
<1>9. Carried(r)' /\ Kept(r)'
  BY <1>1, <1>2, <1>5 DEF Row, Carried, Kept, Terminal, InCheckout, Own
<1>10. Apart(r)'
  BY <1>1, <1>2, <1>5 DEF Row, Apart, Foreign, StartBase
<1>11. Effects(r)'
  BY <1>1, <1>2, <1>3, <1>5 DEF Row, Effects, InCheckout, Own, StartBase
<1>12. RealRow(r)'
  BY <1>1, <1>2, <1>5 DEF RealRow, Real, StartBase
<1>13. Alone(r) /\ Steady(r)
  BY <1>1, <1>2, <1>3, <1>5, <1>6 DEF Alone, Still, Steady, Born, InCheckout, TypeOK, CheckoutAssumption
<1> QED BY <1>7, <1>8, <1>9, <1>10, <1>11, <1>12, <1>13, RunStep DEF Row

----------------------------------------------------------------------------
(* The turn loop.                                                          *)

\* A change of status alone, with a move of the fiber, owes only what Fits,
\* Begun, Closed and Carried say of it.
LEMMA StatusStep ==
  ASSUME CheckoutAssumption, CheckoutInv, NEW r \in Runs, Born(r),
         NEW t \in {"queued", "running", "paused", "completed", "halted", "cancelled"},
         NEW f \in {"none", "boot", "on", "stepped", "settle", "record", "dispose"},
         run' = [run EXCEPT ![r].status = t], fiber' = [fiber EXCEPT ![r] = f],
         UNCHANGED <<wt, snap, env, client, tree, committed, work, late>>,
         f # "record", f # "dispose",
         Fits(r)', Begun(r)', Closed(r)', Carried(r)'
  PROVE  CheckoutInv'
<1>1. TypeOK /\ Row(r) /\ Effects(r) /\ RealRow(r)
  BY DEF CheckoutInv
<1>2. fiber'[r] = f
  BY <1>1 DEF TypeOK
<1>3. TypeOK'
  BY <1>1, StatusRow DEF TypeOK
<1>4. Kept(r)'
  BY <1>1, StatusRow DEF Row, Kept, InCheckout, Own
<1>5. Apart(r)'
  BY <1>1, StatusRow DEF Row, Apart, Foreign
<1>6. Effects(r)'
  BY <1>1, <1>2, StatusRow DEF Effects, InCheckout, Own
<1>7. RealRow(r)'
  BY <1>1, StatusRow DEF RealRow, Real
<1>8. Alone(r)
  BY <1>1, StatusRow DEF Alone, Still, TypeOK
<1>9. Steady(r)
  <2>1. work[r] <= work'[r]
    BY <1>1 DEF TypeOK, CheckoutAssumption
  <2> QED BY <2>1, StatusRow, <1>1 DEF Steady, Born, InCheckout
<1> QED BY <1>3, <1>4, <1>5, <1>6, <1>7, <1>8, <1>9, RunStep DEF Row

LEMMA ParkStep == ASSUME CheckoutAssumption, CheckoutInv, NEW r \in Runs, Park(r) PROVE CheckoutInv'
<1>1. TypeOK /\ Row(r)
  BY DEF CheckoutInv
<1>2. /\ fiber[r] = "on" /\ run[r].started
      /\ run' = [run EXCEPT ![r].status = "paused"] /\ fiber' = [fiber EXCEPT ![r] = "none"]
      /\ UNCHANGED <<wt, snap, env, client, tree, committed, work, late>>
  BY DEF Park, Move
<1>3. fiber'[r] = "none" /\ run[r].status = "running"
  BY <1>1, <1>2 DEF Row, Fits, TypeOK
<1>4. Fits(r)' /\ Begun(r)' /\ Closed(r)'
  BY <1>1, <1>2, <1>3, StatusRow DEF Row, Fits, Begun, Closed, Terminal, InCheckout, Born
<1>5. Carried(r)'
  BY <1>1, <1>2, <1>3, StatusRow DEF Row, Carried, Terminal, InCheckout, Own
<1> QED BY <1>2, <1>3, <1>4, <1>5, StatusStep DEF Born

LEMMA ResumeStep == ASSUME CheckoutAssumption, CheckoutInv, NEW r \in Runs, Resume(r) PROVE CheckoutInv'
<1>1. TypeOK /\ Row(r)
  BY DEF CheckoutInv
<1>2. /\ run[r].status = "paused"
      /\ run' = [run EXCEPT ![r].status = "queued"]
      /\ UNCHANGED <<wt, snap, fiber, env, client, tree, committed, work, late>>
  BY DEF Resume
<1>3. fiber[r] = "none" /\ fiber' = [fiber EXCEPT ![r] = "none"]
  BY <1>1, <1>2 DEF Row, Fits, Terminal, TypeOK
<1>4. Fits(r)' /\ Begun(r)' /\ Closed(r)'
  BY <1>1, <1>2, <1>3, StatusRow DEF Row, Fits, Begun, Closed, Terminal, InCheckout, Born
<1>5. Carried(r)'
  BY <1>1, <1>2, <1>3, StatusRow DEF Row, Carried, Terminal, InCheckout, Own
<1> QED BY <1>2, <1>3, <1>4, <1>5, StatusStep DEF Born

LEMMA FinishStep ==
  ASSUME CheckoutAssumption, CheckoutInv, NEW r \in Runs, NEW t \in {"completed", "halted"}, Finish(r, t)
  PROVE  CheckoutInv'
<1>1. TypeOK /\ Row(r)
  BY DEF CheckoutInv
<1>2. /\ fiber[r] = "on"
      /\ run' = [run EXCEPT ![r].status = t] /\ fiber' = [fiber EXCEPT ![r] = "settle"]
      /\ UNCHANGED <<wt, snap, env, client, tree, committed, work, late>>
  BY DEF Finish, Move
<1>3. fiber'[r] = "settle" /\ run[r].status = "running"
  BY <1>1, <1>2 DEF Row, Fits, TypeOK
<1>4. Fits(r)' /\ Begun(r)' /\ Closed(r)'
  BY <1>1, <1>2, <1>3, StatusRow DEF Row, Fits, Begun, Closed, Terminal, InCheckout, Born
<1>5. Carried(r)'
  BY <1>1, <1>2, <1>3, StatusRow DEF Row, Carried, Terminal, InCheckout, Own
<1> QED BY <1>2, <1>3, <1>4, <1>5, StatusStep DEF Born

LEMMA CancelStep == ASSUME CheckoutAssumption, CheckoutInv, NEW r \in Runs, Cancel(r) PROVE CheckoutInv'
<1>1. TypeOK /\ Row(r) /\ Effects(r) /\ RealRow(r) /\ run[r] \in RunRow
  BY DEF CheckoutInv, TypeOK
<1>2. /\ run[r].status \in {"queued", "paused"} /\ fiber[r] = "none"
      /\ fiber' = [fiber EXCEPT ![r] = "settle"]
      /\ run' = [run EXCEPT ![r].status = "cancelled",
                            ![r].released = @ \/ (InCheckout(r) /\ run[r].base = None)]
      /\ UNCHANGED <<wt, snap, env, client, tree, committed, work, late>>
  BY DEF Cancel, Move
<1>3. /\ run'[r].status = "cancelled"
      /\ run'[r].released = (run[r].released \/ (InCheckout(r) /\ run[r].base = None))
      /\ run'[r].kind = run[r].kind /\ run'[r].base = run[r].base /\ run'[r].started = run[r].started
      /\ run'[r].early = run[r].early /\ run'[r].inbox = run[r].inbox /\ run'[r].recorded = run[r].recorded
      /\ run'[r].against = run[r].against /\ run'[r].dropped = run[r].dropped /\ run'[r].gced = run[r].gced
      /\ fiber'[r] = "settle"
  BY <1>1, <1>2 DEF RunRow, TypeOK
<1>4. run' \in [Runs -> RunRow] /\ \A s \in Runs \ {r} : run'[s] = run[s]
  <2>1. (run[r].released \/ (InCheckout(r) /\ run[r].base = None)) \in BOOLEAN
    BY <1>1 DEF RunRow
  <2> QED BY <1>1, <1>2, <2>1 DEF RunRow, TypeOK
<1>5. TypeOK'
  BY <1>1, <1>2, <1>4 DEF TypeOK
<1>6. Fits(r)' /\ Begun(r)'
  BY <1>1, <1>2, <1>3 DEF Row, Fits, Begun, Terminal, InCheckout, Born
<1>7. Closed(r)'
  BY <1>1, <1>2, <1>3 DEF Row, Closed, Begun, Terminal, InCheckout
<1>8. Carried(r)' /\ Kept(r)'
  BY <1>1, <1>2, <1>3 DEF Row, Carried, Kept, Terminal, InCheckout, Own
<1>9. Apart(r)'
  BY <1>1, <1>2, <1>3 DEF Row, Apart, Foreign
<1>10. Effects(r)'
  BY <1>1, <1>2, <1>3 DEF Row, Effects, InCheckout, Own
<1>11. RealRow(r)'
  BY <1>1, <1>2, <1>3 DEF RealRow, Real
<1>12. Alone(r)
  BY <1>1, <1>2, <1>4 DEF Alone, Still, TypeOK
<1>13. Steady(r)
  <2>1. work[r] <= work'[r]
    BY <1>1, <1>2 DEF TypeOK, CheckoutAssumption
  <2>2. Born(r)' = Born(r) /\ InCheckout(r)' = InCheckout(r)
    BY <1>2, <1>3 DEF Born, InCheckout
  <2> QED BY <1>3, <2>1, <2>2 DEF Steady
<1> QED BY <1>5, <1>6, <1>7, <1>8, <1>9, <1>10, <1>11, <1>12, <1>13, RunStep DEF Row

\* A snapshot or a move of the fiber that leaves the row, the directory and
\* the environment as they are.
LEMMA FiberStep ==
  ASSUME CheckoutAssumption, CheckoutInv, NEW r \in Runs,
         NEW f \in {"none", "boot", "on", "stepped", "settle", "record", "dispose"},
         NEW X \in Content \cup {None}, X # None => Real(X),
         fiber' = [fiber EXCEPT ![r] = f], snap' = [snap EXCEPT ![r] = X],
         UNCHANGED <<run, wt, env, client, tree, committed, work, late>>,
         Fits(r)', Closed(r)', Carried(r)', Kept(r)', Effects(r)'
  PROVE  CheckoutInv'
<1>1. TypeOK /\ Row(r) /\ RealRow(r)
  BY DEF CheckoutInv
<1>2. TypeOK'
  BY <1>1 DEF TypeOK, SnapshotTip
<1>3. Begun(r)' /\ Apart(r)'
  BY <1>1 DEF Row, Begun, Apart, Born, InCheckout, Foreign
<1>4. snap'[r] = X
  BY <1>1 DEF TypeOK
<1>5. RealRow(r)'
  BY <1>1, <1>4 DEF RealRow, Real
<1>6. Alone(r)
  BY <1>1 DEF Alone, Still, TypeOK
<1>7. Steady(r)
  BY <1>1 DEF Steady, TypeOK, Born, InCheckout, CheckoutAssumption
<1> QED BY <1>2, <1>3, <1>5, <1>6, <1>7, RunStep DEF Row

\* The directory of a run that has an environment holds all its work and no
\* mark of work that was not done.
LEMMA DirHolds ==
  ASSUME CheckoutAssumption, CheckoutInv, NEW r \in Runs, env[r] # None, fiber[r] # "none"
  PROVE  Dir(r) \in Content /\ Dir(r) # None /\ Own(r) \subseteq Dir(r) /\ Real(Dir(r))
<1>1. TypeOK /\ Row(r) /\ Effects(r) /\ RealRow(r) /\ Real(tree)
  BY DEF CheckoutInv
<1>2. CASE InCheckout(r)
  BY <1>1, <1>2 DEF Dir, TypeOK, Effects, CheckoutAssumption
<1>3. CASE ~InCheckout(r)
  <2>1. wt[r] # None
    BY <1>1, <1>3 DEF Row, Carried
  <2>2. wt[r] \in Worktree /\ Dir(r) = wt[r].has
    BY <1>1, <1>3, <2>1 DEF TypeOK, Dir
  <2> QED BY <1>1, <1>3, <2>1, <2>2 DEF Row, Carried, RealRow, Worktree, CheckoutAssumption
<1> QED BY <1>2, <1>3

LEMMA BoundaryStep == ASSUME CheckoutAssumption, CheckoutInv, NEW r \in Runs, Boundary(r) PROVE CheckoutInv'
<1>1. TypeOK /\ Row(r) /\ Effects(r) /\ RealRow(r)
  BY DEF CheckoutInv
<1>2. /\ fiber[r] = "stepped" /\ fiber' = [fiber EXCEPT ![r] = "on"]
      /\ snap' = [snap EXCEPT ![r] = Dir(r)] \/ snap' = snap
      /\ UNCHANGED <<run, wt, env, client, tree, committed, work, late>>
  BY DEF Boundary, Move
<1>3. fiber'[r] = "on" /\ env[r] # None /\ run[r].status = "running"
  BY <1>1, <1>2 DEF Row, Fits, TypeOK
<1>4. PICK X \in Content \cup {None} : snap' = [snap EXCEPT ![r] = X] /\ (X # None => Real(X))
  <2>1. CASE snap' = snap
    <3>1. snap' = [snap EXCEPT ![r] = snap[r]] /\ snap[r] \in Content \cup {None}
      BY <1>1, <2>1 DEF TypeOK, SnapshotTip
    <3> QED BY <3>1, <1>1 DEF RealRow
  <2>2. CASE snap' = [snap EXCEPT ![r] = Dir(r)]
    BY <1>2, <1>3, <2>2, DirHolds
  <2> QED BY <1>2, <2>1, <2>2
<1>5. Fits(r)' /\ Closed(r)'
  BY <1>1, <1>2, <1>3 DEF Row, Fits, Closed, Terminal, InCheckout
<1>6. Carried(r)'
  BY <1>1, <1>2, <1>3 DEF Row, Carried, Terminal, InCheckout, Own
<1>7. Kept(r)'
  BY <1>1, <1>2, <1>3, CheckoutAssumption DEF Row, Kept, Closed, Terminal, InCheckout, Own, CheckoutAssumption
<1>8. Effects(r)'
  BY <1>1, <1>2, <1>3 DEF Effects, InCheckout, Own
<1> QED BY <1>2, <1>4, <1>5, <1>6, <1>7, <1>8, FiberStep

----------------------------------------------------------------------------
(* Settling.                                                               *)

LEMMA SettleSkipsStep == ASSUME CheckoutAssumption, CheckoutInv, NEW r \in Runs, SettleSkips(r) PROVE CheckoutInv'
<1>1. TypeOK /\ Row(r) /\ Effects(r) /\ RealRow(r)
  BY DEF CheckoutInv
<1>2. /\ fiber[r] = "settle" /\ fiber' = [fiber EXCEPT ![r] = "none"] /\ env[r] = None
      /\ UNCHANGED <<run, wt, snap, env, client, tree, committed, work, late>>
  BY DEF SettleSkips, Move
<1>3. fiber'[r] = "none" /\ Terminal(r)
  BY <1>1, <1>2 DEF Row, Fits, TypeOK
<1>4. snap[r] \in Content \cup {None} /\ snap' = [snap EXCEPT ![r] = snap[r]] /\ (snap[r] # None => Real(snap[r]))
  BY <1>1, <1>2 DEF TypeOK, SnapshotTip, RealRow
<1>5. Fits(r)' /\ Closed(r)'
  BY <1>1, <1>2, <1>3 DEF Row, Fits, Closed, Terminal, InCheckout
<1>6. Carried(r)' /\ Kept(r)'
  BY <1>1, <1>2, <1>3 DEF Row, Carried, Kept, Terminal, InCheckout, Own
<1>7. Effects(r)'
  BY <1>1, <1>2, <1>3 DEF Effects, InCheckout, Own
<1> QED BY <1>2, <1>4, <1>5, <1>6, <1>7, FiberStep

LEMMA SettleCaptureStep == ASSUME CheckoutAssumption, CheckoutInv, NEW r \in Runs, SettleCapture(r) PROVE CheckoutInv'
<1>1. TypeOK /\ Row(r) /\ Effects(r) /\ RealRow(r)
  BY DEF CheckoutInv
<1>2. /\ fiber[r] = "settle" /\ fiber' = [fiber EXCEPT ![r] = "record"] /\ env[r] # None
      /\ snap' = [snap EXCEPT ![r] = Dir(r)]
      /\ UNCHANGED <<run, wt, env, client, tree, committed, work, late>>
  BY DEF SettleCapture, Move
<1>3. fiber'[r] = "record" /\ Terminal(r) /\ snap'[r] = Dir(r) /\ run[r].inbox = None
  BY <1>1, <1>2 DEF Row, Fits, Closed, TypeOK
<1>4. Dir(r) \in Content /\ Dir(r) # None /\ Own(r) \subseteq Dir(r) /\ Real(Dir(r))
  BY <1>2, DirHolds
<1>5. Fits(r)' /\ Closed(r)'
  BY <1>1, <1>2, <1>3 DEF Row, Fits, Closed, Terminal, InCheckout
<1>6. Carried(r)'
  BY <1>1, <1>2, <1>3, <1>4 DEF Row, Carried, Terminal, InCheckout, Own
<1>7. Kept(r)'
  BY <1>1, <1>2, <1>3, CheckoutAssumption DEF Row, Kept, InCheckout, Own, CheckoutAssumption
<1>8. Effects(r)'
  <2>1. InCheckout(r) /\ ~run[r].early => ~run[r].released /\ Dir(r) = tree
    BY <1>1, <1>2 DEF Row, Closed, Dir
  <2> QED BY <1>1, <1>2, <1>3, <2>1 DEF Effects, InCheckout, Own
<1> QED BY <1>2, <1>4, <1>5, <1>6, <1>7, <1>8, FiberStep

LEMMA SettleFailsStep == ASSUME CheckoutAssumption, CheckoutInv, NEW r \in Runs, SettleFails(r) PROVE CheckoutInv'
<1>1. TypeOK /\ Row(r) /\ Effects(r) /\ RealRow(r)
  BY DEF CheckoutInv
<1>2. /\ fiber[r] \in {"settle", "record"} /\ fiber' = [fiber EXCEPT ![r] = "none"] /\ env[r] # None
      /\ UNCHANGED <<run, wt, snap, env, client, tree, committed, work, late>>
  BY DEF SettleFails, AfterFailure
<1>3. fiber'[r] = "none" /\ Terminal(r)
  BY <1>1, <1>2 DEF Row, Fits, TypeOK
<1>4. snap[r] \in Content \cup {None} /\ snap' = [snap EXCEPT ![r] = snap[r]] /\ (snap[r] # None => Real(snap[r]))
  BY <1>1, <1>2 DEF TypeOK, SnapshotTip, RealRow
<1>5. Fits(r)' /\ Closed(r)'
  BY <1>1, <1>2, <1>3 DEF Row, Fits, Closed, Terminal, InCheckout
<1>6. Carried(r)' /\ Kept(r)'
  BY <1>1, <1>2, <1>3 DEF Row, Carried, Kept, Terminal, InCheckout, Own
<1>7. Effects(r)'
  BY <1>1, <1>2, <1>3 DEF Effects, InCheckout, Own
<1> QED BY <1>2, <1>4, <1>5, <1>6, <1>7, FiberStep

LEMMA SettleRecordStep == ASSUME CheckoutAssumption, CheckoutInv, NEW r \in Runs, SettleRecord(r) PROVE CheckoutInv'
<1>1. TypeOK /\ Row(r) /\ Effects(r) /\ RealRow(r) /\ run[r] \in RunRow
  BY DEF CheckoutInv, TypeOK
<1>2. /\ fiber[r] = "record" /\ fiber' = [fiber EXCEPT ![r] = "dispose"]
      /\ run' = [run EXCEPT ![r] = Recorded(r)]
      /\ UNCHANGED <<wt, snap, env, client, tree, committed, work, late>>
  BY DEF SettleRecord, Move
<1>3. fiber'[r] = "dispose" /\ Terminal(r) /\ env[r] # None /\ run[r].inbox = None
  BY <1>1, <1>2 DEF Row, Fits, Closed, TypeOK
<1>4. snap[r] # None /\ Own(r) \subseteq snap[r] /\ snap[r] \in Content /\ env[r] \in Content
  BY <1>1, <1>2, <1>3 DEF Row, Carried, TypeOK, SnapshotTip, ProvisionedBase
<1>5. /\ run'[r].recorded = snap[r] /\ run'[r].against = env[r]
      /\ run'[r].inbox = (IF InCheckout(r) \/ snap[r] = run[r].base THEN None ELSE "pending")
      /\ run'[r].released = (run[r].released \/ (InCheckout(r) /\ run[r].status = "completed"))
      /\ run'[r].kind = run[r].kind /\ run'[r].status = run[r].status /\ run'[r].base = run[r].base
      /\ run'[r].started = run[r].started /\ run'[r].early = run[r].early
      /\ run'[r].dropped = run[r].dropped /\ run'[r].gced = run[r].gced
  BY <1>1, <1>2 DEF RunRow, TypeOK, Recorded
<1>6. run' \in [Runs -> RunRow] /\ \A s \in Runs \ {r} : run'[s] = run[s]
  <2>1. (run[r].released \/ (InCheckout(r) /\ run[r].status = "completed")) \in BOOLEAN
    BY <1>1 DEF RunRow
  <2>2. (IF InCheckout(r) \/ snap[r] = run[r].base THEN None ELSE "pending") \in {None, "pending", "acted", "discarded"}
    OBVIOUS
  <2>3. Recorded(r) \in RunRow
    BY <1>1, <1>4, <2>1, <2>2 DEF RunRow, Recorded
  <2> QED BY <1>1, <1>2, <2>3 DEF TypeOK
<1>7. TypeOK'
  BY <1>1, <1>2, <1>6 DEF TypeOK
<1>8. Fits(r)' /\ Begun(r)'
  BY <1>1, <1>2, <1>3, <1>5 DEF Row, Fits, Begun, Terminal, InCheckout, Born
<1>9. Closed(r)'
  BY <1>1, <1>2, <1>3, <1>5 DEF Row, Closed, Terminal, InCheckout
<1>10. Carried(r)' /\ Kept(r)'
  BY <1>1, <1>2, <1>3, <1>4, <1>5 DEF Row, Carried, Kept, Terminal, InCheckout, Own
<1>11. Apart(r)'
  BY <1>1, <1>2, <1>5 DEF Row, Apart, Foreign
<1>12. Effects(r)'
  BY <1>1, <1>2, <1>3, <1>5 DEF Row, Effects, InCheckout, Own
<1>13. RealRow(r)'
  BY <1>1, <1>2, <1>5 DEF RealRow, Real
<1>14. Alone(r)
  BY <1>1, <1>2, <1>6 DEF Alone, Still, TypeOK
<1>15. Steady(r)
  <2>1. work[r] <= work'[r]
    BY <1>1, <1>2 DEF TypeOK, CheckoutAssumption
  <2>2. Born(r)' = Born(r) /\ InCheckout(r)' = InCheckout(r)
    BY <1>5 DEF Born, InCheckout
  <2> QED BY <1>3, <1>5, <2>1, <2>2 DEF Steady
<1> QED BY <1>7, <1>8, <1>9, <1>10, <1>11, <1>12, <1>13, <1>14, <1>15, RunStep DEF Row

LEMMA DisposeStep == ASSUME CheckoutAssumption, CheckoutInv, NEW r \in Runs, Dispose(r) PROVE CheckoutInv'
<1>1. TypeOK /\ Row(r) /\ Effects(r) /\ RealRow(r)
  BY DEF CheckoutInv
<1>2. /\ fiber[r] = "dispose" /\ fiber' = [fiber EXCEPT ![r] = "none"]
      /\ env' = [env EXCEPT ![r] = None] /\ wt' = [wt EXCEPT ![r] = None]
      /\ UNCHANGED <<run, snap, client, tree, committed, work, late>>
  BY DEF Dispose, Move
<1>3. fiber'[r] = "none" /\ env'[r] = None /\ wt'[r] = None /\ Terminal(r)
  BY <1>1, <1>2 DEF Row, Fits, TypeOK
<1>4. TypeOK'
  BY <1>1, <1>2 DEF TypeOK, ProvisionedBase
<1>5. Fits(r)' /\ Begun(r)' /\ Closed(r)'
  BY <1>1, <1>2, <1>3 DEF Row, Fits, Begun, Closed, Terminal, InCheckout, Born
<1>6. Carried(r)' /\ Kept(r)'
  BY <1>1, <1>2, <1>3 DEF Row, Carried, Kept, Terminal, InCheckout, Own
<1>7. Apart(r)'
  BY <1>1, <1>2, <1>3 DEF Row, Apart, Foreign
<1>8. Effects(r)'
  BY <1>1, <1>2, <1>3 DEF Effects, InCheckout, Own
<1>9. RealRow(r)'
  BY <1>1, <1>2, <1>3 DEF RealRow, Real
<1>10. Alone(r)
  BY <1>1, <1>2 DEF Alone, Still, TypeOK
<1>11. Steady(r)
  BY <1>1, <1>2 DEF Steady, Born, InCheckout, TypeOK, CheckoutAssumption
<1> QED BY <1>4, <1>5, <1>6, <1>7, <1>8, <1>9, <1>10, <1>11, RunStep DEF Row

----------------------------------------------------------------------------
(* Release and gc.                                                         *)

LEMMA ReleaseStep == ASSUME CheckoutAssumption, CheckoutInv, NEW r \in Runs, Release(r) PROVE CheckoutInv'
<1>1. TypeOK /\ Row(r) /\ Effects(r) /\ RealRow(r) /\ run[r] \in RunRow
  BY DEF CheckoutInv, TypeOK
<1>2. /\ InCheckout(r) /\ Terminal(r) /\ ~run[r].released
      /\ run' = [run EXCEPT ![r].released = TRUE, ![r].early = fiber[r] # "none"]
      /\ UNCHANGED <<wt, snap, fiber, env, client, tree, committed, work, late>>
  BY DEF Release
<1>3. /\ run'[r].released = TRUE /\ run'[r].early = (fiber[r] # "none")
      /\ run'[r].kind = run[r].kind /\ run'[r].status = run[r].status /\ run'[r].base = run[r].base
      /\ run'[r].started = run[r].started /\ run'[r].inbox = run[r].inbox /\ run'[r].recorded = run[r].recorded
      /\ run'[r].against = run[r].against /\ run'[r].dropped = run[r].dropped /\ run'[r].gced = run[r].gced
  BY <1>1, <1>2 DEF RunRow, TypeOK
<1>4. run' \in [Runs -> RunRow] /\ \A s \in Runs \ {r} : run'[s] = run[s]
  <2>1. (fiber[r] # "none") \in BOOLEAN
    OBVIOUS
  <2> QED BY <1>1, <1>2, <2>1 DEF RunRow, TypeOK
<1>5. TypeOK'
  BY <1>1, <1>2, <1>4 DEF TypeOK
<1>6. Fits(r)' /\ Begun(r)'
  BY <1>1, <1>2, <1>3 DEF Row, Fits, Begun, Terminal, InCheckout, Born
<1>7. Closed(r)'
  BY <1>1, <1>2, <1>3 DEF Row, Closed, Terminal, InCheckout
<1>8. Carried(r)' /\ Kept(r)'
  BY <1>1, <1>2, <1>3 DEF Row, Carried, Kept, Terminal, InCheckout, Own
<1>9. Apart(r)'
  BY <1>1, <1>2, <1>3 DEF Row, Apart, Foreign
<1>10. Effects(r)'
  BY <1>1, <1>2, <1>3 DEF Row, Effects, Closed, InCheckout, Own
<1>11. RealRow(r)'
  BY <1>1, <1>2, <1>3 DEF RealRow, Real
<1>12. Alone(r)
  BY <1>1, <1>2, <1>4 DEF Alone, Still, TypeOK
<1>13. Steady(r)
  <2>1. work[r] <= work'[r]
    BY <1>1, <1>2 DEF TypeOK, CheckoutAssumption
  <2>2. Born(r)' = Born(r) /\ InCheckout(r)' = InCheckout(r)
    BY <1>3 DEF Born, InCheckout
  <2> QED BY <1>3, <2>1, <2>2 DEF Steady
<1> QED BY <1>5, <1>6, <1>7, <1>8, <1>9, <1>10, <1>11, <1>12, <1>13, RunStep DEF Row

LEMMA GcStep == ASSUME CheckoutAssumption, CheckoutInv, NEW r \in Runs, Gc(r) PROVE CheckoutInv'
<1>1. TypeOK /\ Row(r) /\ Effects(r) /\ RealRow(r) /\ run[r] \in RunRow
  BY DEF CheckoutInv, TypeOK
<1>2. /\ Terminal(r) /\ run[r].inbox # "pending" /\ fiber[r] = "none"
      /\ run' = [run EXCEPT ![r].gced = TRUE]
      /\ snap' = [snap EXCEPT ![r] = None] /\ wt' = [wt EXCEPT ![r] = None]
      /\ UNCHANGED <<fiber, env, client, tree, committed, work, late>>
  BY DEF Gc, GcEligible
<1>3. /\ run'[r].gced = TRUE /\ snap'[r] = None /\ wt'[r] = None
      /\ run'[r].kind = run[r].kind /\ run'[r].status = run[r].status /\ run'[r].base = run[r].base
      /\ run'[r].started = run[r].started /\ run'[r].inbox = run[r].inbox /\ run'[r].recorded = run[r].recorded
      /\ run'[r].against = run[r].against /\ run'[r].released = run[r].released /\ run'[r].early = run[r].early
  BY <1>1, <1>2 DEF RunRow, TypeOK
<1>4. run' \in [Runs -> RunRow] /\ \A s \in Runs \ {r} : run'[s] = run[s]
  BY <1>1, <1>2 DEF RunRow, TypeOK
<1>5. TypeOK'
  BY <1>1, <1>2, <1>4 DEF TypeOK, SnapshotTip
<1>6. Fits(r)' /\ Begun(r)' /\ Closed(r)'
  BY <1>1, <1>2, <1>3 DEF Row, Fits, Begun, Closed, Terminal, InCheckout, Born
<1>7. Carried(r)' /\ Kept(r)'
  BY <1>1, <1>2, <1>3 DEF Row, Carried, Kept, Terminal, InCheckout, Own
<1>8. Apart(r)'
  BY <1>1, <1>2, <1>3 DEF Row, Apart, Foreign
<1>9. Effects(r)'
  BY <1>1, <1>2, <1>3 DEF Row, Effects, InCheckout, Own
<1>10. RealRow(r)'
  BY <1>1, <1>2, <1>3 DEF RealRow, Real
<1>11. Alone(r)
  BY <1>1, <1>2, <1>4 DEF Alone, Still, TypeOK
<1>12. Steady(r)
  <2>1. work[r] <= work'[r]
    BY <1>1, <1>2 DEF TypeOK, CheckoutAssumption
  <2>2. Born(r)' = Born(r) /\ InCheckout(r)' = InCheckout(r)
    BY <1>3 DEF Born, InCheckout
  <2> QED BY <1>3, <2>1, <2>2 DEF Steady
<1> QED BY <1>5, <1>6, <1>7, <1>8, <1>9, <1>10, <1>11, <1>12, RunStep DEF Row

----------------------------------------------------------------------------
(* The work of a step.                                                     *)

\* A step adds one mark, in the directory its run has.
LEMMA StepStep == ASSUME CheckoutAssumption, CheckoutInv, NEW r \in Runs, Step(r) PROVE CheckoutInv'
<1>1. TypeOK /\ Row(r) /\ Effects(r) /\ RealRow(r) /\ run[r] \in RunRow /\ Real(tree)
  BY DEF CheckoutInv, TypeOK
<1> DEFINE m == <<r, work[r] + 1>>
<1>2. /\ fiber[r] = "on" /\ fiber' = [fiber EXCEPT ![r] = "stepped"]
      /\ run[r].started /\ work[r] < MaxWork
      /\ work' = [work EXCEPT ![r] = work[r] + 1]
      /\ UNCHANGED <<run, snap, env, client, committed, late>>
      /\ InCheckout(r) => tree' = tree \cup {m} /\ wt' = wt
      /\ ~InCheckout(r) => wt' = [wt EXCEPT ![r].has = @ \cup {m}] /\ tree' = tree
  <2>1. work'[r] = work[r] + 1
    BY <1>1 DEF Step, TypeOK
  <2> QED BY <2>1 DEF Step, Move
<1>3. /\ work[r] \in 0 .. MaxWork /\ work[r] + 1 \in 1 .. MaxWork /\ work'[r] = work[r] + 1
      /\ work' \in [Runs -> 0 .. MaxWork] /\ \A s \in Runs \ {r} : work'[s] = work[s]
  BY <1>1, <1>2 DEF TypeOK, CheckoutAssumption
<1>4. m \in Marks
  BY <1>3 DEF Marks
<1>5. Own(r)' = Own(r) \cup {m} /\ \A s \in Runs \ {r} : Own(s)' = Own(s)
  <2>1. 1 .. work'[r] = (1 .. work[r]) \cup {work[r] + 1}
    BY <1>3 DEF CheckoutAssumption
  <2> QED BY <2>1, <1>3 DEF Own
<1>6. fiber'[r] = "stepped" /\ env[r] # None /\ run[r].status = "running" /\ ~run[r].released
  BY <1>1, <1>2 DEF Row, Fits, Closed, Terminal, TypeOK
<1>7. ASSUME NEW X, Real(X) PROVE \A s \in Runs, n \in 1 .. MaxWork : <<s, n>> \in X \cup {m} => n <= work'[s]
  <2> SUFFICES ASSUME NEW s \in Runs, NEW n \in 1 .. MaxWork, <<s, n>> \in X \cup {m} PROVE n <= work'[s]
    OBVIOUS
  <2>1. CASE <<s, n>> = m
    BY <2>1, <1>3
  <2>2. CASE <<s, n>> \in X
    <3>1. n <= work[s] /\ work[s] \in 0 .. MaxWork /\ n \in Nat
      BY <2>2, <1>1, <1>7 DEF Real, TypeOK, CheckoutAssumption
    <3> QED BY <3>1, <1>3 DEF CheckoutAssumption
  <2> QED BY <2>1, <2>2
<1>8. Real(tree)' /\ tree' \in Content /\ tree \subseteq tree'
  <2>1. tree' \subseteq tree \cup {m} /\ tree \subseteq tree'
    BY <1>2
  <2> QED BY <2>1, <1>1, <1>4, <1>7 DEF Real, TypeOK, Content
<1>9. /\ wt' \in [Runs -> Worktree \cup {None}]
      /\ \A s \in Runs \ {r} : wt'[s] = wt[s]
      /\ wt'[r] = None <=> wt[r] = None
      /\ wt[r] # None => wt[r].has \subseteq wt'[r].has /\ wt'[r].has \subseteq wt[r].has \cup {m}
      /\ ~InCheckout(r) => m \in wt'[r].has
  <2>1. CASE InCheckout(r)
    BY <2>1, <1>1, <1>2 DEF TypeOK
  <2>2. CASE ~InCheckout(r)
    <3>1. wt[r] # None /\ wt[r] \in Worktree
      BY <2>2, <1>1, <1>2, <1>6 DEF Row, Carried, TypeOK
    <3>2. wt'[r] = [wt[r] EXCEPT !.has = @ \cup {m}] /\ \A s \in Runs \ {r} : wt'[s] = wt[s]
      BY <2>2, <1>1, <1>2 DEF TypeOK
    <3>3. wt'[r].has = wt[r].has \cup {m} /\ wt'[r] \in Worktree
      BY <3>1, <3>2, <1>4 DEF Worktree, Content
    <3>4. wt'[r] # None
      BY <3>3 DEF CheckoutAssumption
    <3>5. wt' \in [Runs -> Worktree \cup {None}]
      BY <2>2, <3>3, <1>1, <1>2 DEF TypeOK
    <3> QED BY <3>1, <3>2, <3>3, <3>4, <3>5
  <2> QED BY <2>1, <2>2
<1> HIDE DEF m
<1>10. TypeOK'
  BY <1>1, <1>2, <1>3, <1>8, <1>9 DEF TypeOK
<1>11. Fits(r)' /\ Closed(r)'
  BY <1>1, <1>2, <1>6, <1>9 DEF Row, Fits, Closed, Terminal, InCheckout
<1>12. Begun(r)'
  BY <1>1, <1>2, <1>6, <1>9 DEF Row, Begun, InCheckout, Born
<1>13. Carried(r)'
  <2>1. ~InCheckout(r) => wt[r] # None
    BY <1>1, <1>6, <1>2 DEF Row, Carried
  <2>2. ~InCheckout(r) => Own(r) \cup {m} \subseteq wt'[r].has
    BY <2>1, <1>1, <1>9 DEF Row, Carried
  <2> QED BY <2>1, <2>2, <1>1, <1>2, <1>5, <1>6, <1>9 DEF Carried, InCheckout
<1>14. Kept(r)'
  <2>1. run[r].inbox = None
    BY <1>1, <1>6 DEF Row, Closed, Terminal
  <2>2. ~InCheckout(r) => wt[r] # None
    BY <1>1, <1>6, <1>2 DEF Row, Carried
  <2> QED BY <2>1, <2>2, <1>2, <1>9 DEF Kept, InCheckout, CheckoutAssumption
<1>15. Apart(r)'
  BY <1>1, <1>2 DEF Row, Apart, Foreign
<1>16. RealRow(r)'
  <2>1. ASSUME NEW X, Real(X) PROVE \A s \in Runs, n \in 1 .. MaxWork : <<s, n>> \in X => n <= work'[s]
    BY <2>1, <1>7
  <2>2. wt[r] # None => \A s \in Runs, n \in 1 .. MaxWork : <<s, n>> \in wt'[r].has => n <= work'[s]
    BY <1>1, <1>7, <1>9 DEF RealRow
  <2> QED BY <1>1, <1>2, <1>9, <2>1, <2>2 DEF RealRow, Real
<1>17. \A s \in Runs \ {r} : Still(s)
  BY <1>1, <1>2, <1>3, <1>9 DEF Still, TypeOK
<1>18. Steady(r)
  <2>1. work[r] <= work'[r]
    BY <1>3 DEF CheckoutAssumption
  <2> QED BY <1>2, <2>1 DEF Steady, Born, InCheckout
<1>19. ASSUME NEW s \in Runs PROVE Effects(s)'
  <2>1. CASE s = r
    <3>1. CASE InCheckout(r)
      BY <2>1, <3>1, <1>1, <1>2, <1>5, <1>6 DEF Effects, InCheckout
    <3>2. CASE ~InCheckout(r)
      BY <2>1, <3>2, <1>2 DEF Effects, InCheckout
    <3> QED BY <3>1, <3>2
  <2>2. CASE s # r /\ ~InCheckout(r)
    BY <2>2, <1>2, <1>17, EffectsFrame DEF CheckoutInv
  <2>3. CASE s # r /\ InCheckout(r) /\ InCheckout(s)
    <3>1. r \in Holders
      BY <2>3, <1>6 DEF Holders
    <3>2. s \notin Holders
      BY <3>1, <2>3 DEF CheckoutInv, OneAtATime
    <3>3. Born(s) => run[s].released
      BY <3>2, <2>3 DEF Holders, Born
    <3>4. run[s].released \/ (run[s].base = None /\ env[s] = None)
      BY <3>3 DEF CheckoutInv, Row, Begun
    <3>5. Effects(s) /\ Still(s) /\ Own(s)' = Own(s)
      BY <2>3, <1>5, <1>17 DEF CheckoutInv
    <3> QED BY <3>4, <3>5, <1>2, <1>8 DEF Effects, Still, InCheckout
  <2>4. CASE s # r /\ ~InCheckout(s)
    BY <2>4, <1>2 DEF Effects, InCheckout
  <2> QED BY <2>1, <2>2, <2>3, <2>4
<1> QED BY <1>2, <1>8, <1>10, <1>11, <1>12, <1>13, <1>14, <1>15, <1>16, <1>17, <1>18, <1>19, TreeStep DEF Row

----------------------------------------------------------------------------
(* Clients and the operator.                                               *)

\* What the entry k of client c has to say, all other clients being as they are.
Entry(c, k) ==
    /\ k \in ClientState /\ Real(k.cap)
    /\ IF k.pc = "idle" THEN k.of = None ELSE k.of \in Runs
    /\ k.pc \in {"checked", "captured"} => ~Born(k.of) /\ \A d \in Clients \ {c} : client[d].of # k.of
    /\ k.pc \in {"landing", "landed", "dropped"} => run[k.of].inbox # None
    /\ k.pc = "landing" /\ ~k.stale => Holders = {}

LEMMA IdleEntry == ASSUME CheckoutAssumption, NEW c PROVE Entry(c, Idle)
BY DEF Entry, Idle, ClientState, Content, Real

\* A step of client c: the runs stay what clients rely on, the entry is sound.
LEMMA ClientStep ==
  ASSUME CheckoutAssumption, CheckoutInv, TypeOK',
         \A s \in Runs : Steady(s) /\ Row(s)' /\ RealRow(s)' /\ Effects(s)', Real(tree)',
         NEW c \in Clients, NEW k, client' = [client EXCEPT ![c] = k], Entry(c, k)
  PROVE  CheckoutInv'
<1>1. client'[c] = k /\ \A d \in Clients \ {c} : client'[d] = client[d]
  BY DEF CheckoutInv, TypeOK
<1>2. Holders' \subseteq Holders
  BY HoldersFrame
<1>3. work \in [Runs -> 0 .. MaxWork] /\ work' \in [Runs -> 0 .. MaxWork] /\ \A s \in Runs : work[s] <= work'[s]
  BY DEF CheckoutInv, TypeOK, Steady
<1>4. Real(k.cap) /\ \A s \in Runs, n \in 1 .. MaxWork : <<s, n>> \in k.cap => n <= work'[s]
  BY <1>3, RealFrame DEF Entry
<1>5. Call(c)'
  BY <1>1, <1>2, <1>4 DEF Call, Entry, Real, Steady
<1>6. ASSUME NEW d \in Clients \ {c}, client[d].pc \in {"checked", "captured"} PROVE k.of # client[d].of
  <2>1. client[d].of \in Runs /\ ~Born(client[d].of)
    BY <1>6 DEF CheckoutInv, Call
  <2>2. CASE k.pc = "idle"
    BY <2>1, <2>2 DEF Entry, CheckoutAssumption
  <2>3. CASE k.pc \in {"checked", "captured"}
    BY <2>3 DEF Entry
  <2>4. CASE k.pc \in {"landing", "landed", "dropped"}
    <3>1. k.of \in Runs /\ run[k.of].inbox # None
      BY <2>4 DEF Entry
    <3>2. Terminal(k.of)
      BY <3>1 DEF CheckoutInv, Row, Closed
    <3> QED BY <2>1, <3>2 DEF Terminal, Born
  <2> QED BY <2>2, <2>3, <2>4 DEF Entry, ClientState
<1>7. ASSUME NEW d \in Clients PROVE Call(d)'
  <2>1. CASE d = c
    BY <2>1, <1>5
  <2>2. CASE d # c
    BY <2>2, <1>1, <1>6, CallFrame
  <2> QED BY <2>1, <2>2
<1>8. OneAtATime'
  BY <1>2 DEF CheckoutInv, OneAtATime
<1> QED BY <1>7, <1>8 DEF CheckoutInv

\* The same when nothing changes but clients.
LEMMA QuietStep ==
  ASSUME CheckoutAssumption, CheckoutInv, UNCHANGED <<run, wt, snap, fiber, env, work, tree, committed, late>>,
         NEW c \in Clients, NEW k, client' = [client EXCEPT ![c] = k], Entry(c, k)
  PROVE  CheckoutInv'
<1>1. \A s \in Runs : Still(s) /\ Steady(s)
  BY StillIsSteady DEF Still, CheckoutInv
<1>2. TypeOK'
  BY DEF CheckoutInv, TypeOK, Entry
<1>3. ASSUME NEW s \in Runs PROVE Row(s)' /\ RealRow(s)' /\ Effects(s)'
  <2>1. Row(s)' /\ Effects(s)'
    BY <1>1, RowFrame, EffectsFrame DEF CheckoutInv
  <2>2. RealRow(s)'
    BY DEF CheckoutInv, RealRow, Real
  <2> QED BY <2>1, <2>2
<1>4. Real(tree)'
  BY DEF CheckoutInv, Real
<1> QED BY <1>1, <1>2, <1>3, <1>4, ClientStep

LEMMA RunChecksStep ==
  ASSUME CheckoutAssumption, CheckoutInv, NEW c \in Clients, NEW r \in Runs, RunChecks(c, r) PROVE CheckoutInv'
<1> DEFINE k == [Idle EXCEPT !.pc = "checked", !.of = r]
<1>1. k \in ClientState /\ k.pc = "checked" /\ k.of = r /\ k.cap = {}
  BY DEF Idle, ClientState, Content
<1>2. client' = [client EXCEPT ![c] = k] /\ ~Born(r) /\ \A d \in Clients : client[d].of # r
  BY DEF RunChecks, Born
<1>3. UNCHANGED <<run, wt, snap, fiber, env, work, tree, committed, late>>
  BY DEF RunChecks
<1> HIDE DEF k
<1>4. Entry(c, k)
  BY <1>1, <1>2 DEF Entry, Real
<1> QED BY <1>2, <1>3, <1>4, QuietStep

LEMMA AcceptGateStep ==
  ASSUME CheckoutAssumption, CheckoutInv, NEW c \in Clients, NEW r \in Runs, AcceptGate(c, r) PROVE CheckoutInv'
<1> DEFINE k == [Idle EXCEPT !.pc = "landing", !.of = r]
<1>1. k \in ClientState /\ k.pc = "landing" /\ k.of = r /\ k.cap = {}
  BY DEF Idle, ClientState, Content
<1>2. client' = [client EXCEPT ![c] = k] /\ run[r].inbox # None /\ Holders = {}
  BY DEF AcceptGate, InInbox, CheckoutAssumption
<1>3. UNCHANGED <<run, wt, snap, fiber, env, work, tree, committed, late>>
  BY DEF AcceptGate
<1> HIDE DEF k
<1>4. Entry(c, k)
  BY <1>1, <1>2 DEF Entry, Real
<1> QED BY <1>2, <1>3, <1>4, QuietStep

LEMMA RunCapturesStep ==
  ASSUME CheckoutAssumption, CheckoutInv, NEW c \in Clients, RunCaptures(c) PROVE CheckoutInv'
<1> DEFINE X == IF run[client[c].of].kind = "dirty" THEN tree ELSE committed
<1> DEFINE k == [client[c] EXCEPT !.pc = "captured", !.cap = X]
<1>1. TypeOK /\ Call(c) /\ client[c] \in ClientState /\ Real(tree)
  BY DEF CheckoutInv, TypeOK
<1>2. client[c].pc = "checked" /\ client' = [client EXCEPT ![c] = k]
  BY <1>1 DEF RunCaptures, TypeOK
<1>3. X \in Content /\ Real(X)
  BY <1>1 DEF TypeOK, Content, Real
<1>4. UNCHANGED <<run, wt, snap, fiber, env, work, tree, committed, late>>
  BY DEF RunCaptures
<1> HIDE DEF X
<1>5. k \in ClientState /\ k.pc = "captured" /\ k.of = client[c].of /\ k.cap = X
  BY <1>1, <1>3 DEF ClientState
<1> HIDE DEF k
<1>6. Entry(c, k)
  BY <1>1, <1>2, <1>3, <1>5 DEF Entry, Call
<1> QED BY <1>2, <1>4, <1>6, QuietStep

LEMMA ClientDiesStep ==
  ASSUME CheckoutAssumption, CheckoutInv, NEW c \in Clients, ClientDies(c) PROVE CheckoutInv'
BY QuietStep, IdleEntry DEF ClientDies

\* Whatever an accept lands while a run holds the checkout is excused: the
\* accept asked before there was a holder, and is stale.
LEMMA LandStep == ASSUME CheckoutAssumption, CheckoutInv, NEW c \in Clients, Land(c) PROVE CheckoutInv'
<1> DEFINE r == client[c].of
<1>1. TypeOK /\ Call(c) /\ client[c] \in ClientState /\ Real(tree) /\ client[c].pc = "landing"
  BY DEF CheckoutInv, TypeOK, Land
<1>2. r \in Runs /\ run[r].inbox # None
  BY <1>1 DEF Call
<1>3. /\ UNCHANGED <<run, wt, snap, fiber, env, committed, work>>
      /\ late' = IF client[c].stale THEN late \cup (tree' \ tree) ELSE late
      /\ tree \subseteq tree' /\ (tree' = tree \/ (Lands(r) /\ tree' \subseteq tree \cup Effect(r)))
      /\ client' = [client EXCEPT ![c] = Idle] \/ client' = [client EXCEPT ![c].pc = "landed"]
  BY DEF Land
<1>4. tree' \in Content /\ Real(tree)'
  <2>1. CASE tree' = tree
    BY <2>1, <1>1, <1>3 DEF TypeOK, Real
  <2>2. CASE Lands(r) /\ tree' \subseteq tree \cup Effect(r)
    <3>1. snap[r] \in Content /\ Real(snap[r]) /\ Effect(r) \subseteq snap[r]
      BY <1>1, <1>2, <2>2 DEF Lands, CheckoutInv, RealRow, TypeOK, SnapshotTip, Effect
    <3> QED BY <3>1, <2>2, <1>1, <1>3 DEF Real, TypeOK, Content
  <2> QED BY <2>1, <2>2, <1>3
<1>5. late' \in Content /\ late \subseteq late' /\ (Holders # {} => tree' \ tree \subseteq late')
  <2>1. Holders # {} => client[c].stale
    BY <1>1 DEF Call
  <2> QED BY <2>1, <1>1, <1>3, <1>4 DEF TypeOK, Content
<1>6. PICK k : client' = [client EXCEPT ![c] = k] /\ Entry(c, k)
  <2>1. CASE client' = [client EXCEPT ![c] = Idle]
    BY <2>1, IdleEntry
  <2>2. CASE client' = [client EXCEPT ![c].pc = "landed"]
    <3> DEFINE k == [client[c] EXCEPT !.pc = "landed"]
    <3>1. client' = [client EXCEPT ![c] = k]
      BY <2>2, <1>1 DEF TypeOK
    <3>2. k \in ClientState /\ k.pc = "landed" /\ k.of = r /\ k.cap = client[c].cap
      BY <1>1 DEF ClientState
    <3> HIDE DEF k
    <3>3. Entry(c, k)
      BY <3>2, <1>1, <1>2 DEF Entry, Call
    <3> QED BY <3>1, <3>3
  <2> QED BY <1>3, <2>1, <2>2
<1>7. TypeOK'
  BY <1>1, <1>3, <1>4, <1>5, <1>6 DEF TypeOK, Entry
<1>8. \A s \in Runs : Still(s) /\ Steady(s)
  BY <1>1, <1>3, StillIsSteady DEF Still
<1>9. ASSUME NEW s \in Runs PROVE Row(s)' /\ RealRow(s)'
  <2>1. Row(s)'
    BY <1>8, RowFrame DEF CheckoutInv
  <2>2. RealRow(s)'
    BY <1>3 DEF CheckoutInv, RealRow, Real
  <2> QED BY <2>1, <2>2
<1>10. ASSUME NEW s \in Runs PROVE Effects(s)'
  <2>1. Effects(s) /\ Row(s) /\ Own(s)' = Own(s)
    BY <1>3 DEF CheckoutInv, Own
  <2>2. CASE s \in Holders
    BY <2>1, <2>2, <1>3, <1>5 DEF Effects, InCheckout
  <2>3. CASE s \notin Holders /\ InCheckout(s)
    <3>1. run[s].released \/ (run[s].base = None /\ env[s] = None)
      BY <2>1, <2>3 DEF Holders, Row, Begun, Born
    <3> QED BY <2>1, <2>3, <3>1, <1>3, <1>5 DEF Effects, InCheckout
  <2>4. CASE ~InCheckout(s)
    BY <2>4, <1>3 DEF Effects, InCheckout
  <2> QED BY <2>2, <2>3, <2>4
<1> QED BY <1>4, <1>6, <1>7, <1>8, <1>9, <1>10, ClientStep

LEMMA DiscardRefsStep ==
  ASSUME CheckoutAssumption, CheckoutInv, NEW c \in Clients, NEW r \in Runs, DiscardRefs(c, r) PROVE CheckoutInv'
<1> DEFINE k == [Idle EXCEPT !.pc = "dropped", !.of = r]
<1>1. TypeOK /\ Row(r) /\ Effects(r) /\ RealRow(r) /\ run[r] \in RunRow
  BY DEF CheckoutInv, TypeOK
<1>2. /\ Terminal(r) /\ ~InCheckout(r) /\ run[r].inbox \in {"pending", "acted"}
      /\ client' = [client EXCEPT ![c] = k]
      /\ snap' = [snap EXCEPT ![r] = None] /\ run' = [run EXCEPT ![r].dropped = TRUE]
      /\ UNCHANGED <<wt, fiber, env, tree, committed, work, late>>
  BY DEF DiscardRefs, InInbox
<1>3. k \in ClientState /\ k.pc = "dropped" /\ k.of = r /\ k.cap = {}
  BY DEF Idle, ClientState, Content
<1> HIDE DEF k
<1>4. run[r].inbox # None /\ fiber[r] # "record"
  BY <1>1, <1>2 DEF Row, Closed, CheckoutAssumption
<1>5. Entry(c, k)
  BY <1>3, <1>4 DEF Entry, Real
<1>6. /\ run'[r].dropped = TRUE /\ snap'[r] = None
      /\ run'[r].kind = run[r].kind /\ run'[r].status = run[r].status /\ run'[r].base = run[r].base
      /\ run'[r].started = run[r].started /\ run'[r].inbox = run[r].inbox /\ run'[r].recorded = run[r].recorded
      /\ run'[r].against = run[r].against /\ run'[r].released = run[r].released /\ run'[r].early = run[r].early
      /\ run'[r].gced = run[r].gced
  BY <1>1, <1>2 DEF RunRow, TypeOK
<1>7. run' \in [Runs -> RunRow] /\ \A s \in Runs \ {r} : run'[s] = run[s]
  BY <1>1, <1>2 DEF RunRow, TypeOK
<1>8. TypeOK'
  BY <1>1, <1>2, <1>5, <1>7 DEF TypeOK, SnapshotTip, Entry
<1>9. Row(r)'
  <2>1. Fits(r)' /\ Begun(r)' /\ Closed(r)'
    BY <1>1, <1>2, <1>6 DEF Row, Fits, Begun, Closed, Terminal, InCheckout, Born
  <2>2. Carried(r)' /\ Kept(r)'
    BY <1>1, <1>2, <1>4, <1>6 DEF Row, Carried, Kept, Terminal, InCheckout, Own
  <2>3. Apart(r)'
    BY <1>1, <1>2, <1>6 DEF Row, Apart, Foreign
  <2> QED BY <2>1, <2>2, <2>3 DEF Row
<1>10. Effects(r)' /\ RealRow(r)'
  BY <1>1, <1>2, <1>6 DEF Effects, InCheckout, RealRow, Real
<1>11. ASSUME NEW s \in Runs PROVE Steady(s) /\ Row(s)' /\ RealRow(s)' /\ Effects(s)'
  <2>1. CASE s = r
    <3>1. work[r] <= work'[r]
      BY <1>1, <1>2 DEF TypeOK, CheckoutAssumption
    <3>2. Steady(r)
      BY <3>1, <1>6 DEF Steady, Born, InCheckout
    <3> QED BY <2>1, <3>2, <1>9, <1>10
  <2>2. CASE s # r
    <3>1. Still(s) /\ tree' = tree /\ late \subseteq late' /\ Row(s) /\ Effects(s) /\ RealRow(s)
      BY <2>2, <1>1, <1>2, <1>7 DEF Still, TypeOK, CheckoutInv
    <3>2. Steady(s) /\ Row(s)' /\ Effects(s)'
      BY <3>1, <1>1, StillIsSteady, RowFrame, EffectsFrame
    <3>3. RealRow(s)'
      BY <3>1, <1>2 DEF RealRow, Real, Still
    <3> QED BY <3>2, <3>3
  <2> QED BY <2>1, <2>2
<1>12. Real(tree)'
  BY <1>2 DEF CheckoutInv, Real
<1> QED BY <1>2, <1>5, <1>8, <1>11, <1>12, ClientStep

LEMMA RecordActionStep ==
  ASSUME CheckoutAssumption, CheckoutInv, NEW c \in Clients, NEW r, r = client[c].of, RecordAction(c)
  PROVE  CheckoutInv'
<1> DEFINE i == IF run[r].inbox = "discarded" \/ client[c].pc = "dropped" THEN "discarded" ELSE "acted"
<1>1. client[c].pc \in {"landed", "dropped"} /\ r \in Runs /\ run[r].inbox # None
  BY DEF RecordAction, CheckoutInv, Call
<1>2. TypeOK /\ Row(r) /\ Effects(r) /\ RealRow(r) /\ run[r] \in RunRow
  BY <1>1 DEF CheckoutInv, TypeOK
<1>3. /\ run' = [run EXCEPT ![r].inbox = i] /\ client' = [client EXCEPT ![c] = Idle]
      /\ UNCHANGED <<wt, snap, fiber, env, tree, committed, work, late>>
  BY <1>2, <1>1 DEF RecordAction, TypeOK
<1>4. i \in {"discarded", "acted"}
  OBVIOUS
<1> HIDE DEF i
<1>5. /\ run'[r].inbox = i
      /\ run'[r].kind = run[r].kind /\ run'[r].status = run[r].status /\ run'[r].base = run[r].base
      /\ run'[r].started = run[r].started /\ run'[r].dropped = run[r].dropped /\ run'[r].recorded = run[r].recorded
      /\ run'[r].against = run[r].against /\ run'[r].released = run[r].released /\ run'[r].early = run[r].early
      /\ run'[r].gced = run[r].gced
  BY <1>1, <1>2, <1>3 DEF RunRow, TypeOK
<1>6. run' \in [Runs -> RunRow] /\ \A s \in Runs \ {r} : run'[s] = run[s]
  BY <1>2, <1>3, <1>4 DEF RunRow, TypeOK
<1>7. TypeOK'
  BY <1>2, <1>3, <1>6, IdleEntry DEF TypeOK, Entry
<1>8. Row(r)'
  <2>1. Fits(r)' /\ Begun(r)' /\ Closed(r)'
    BY <1>1, <1>2, <1>3, <1>5 DEF Row, Fits, Begun, Closed, Terminal, InCheckout, Born
  <2>2. Carried(r)' /\ Kept(r)'
    BY <1>2, <1>3, <1>4, <1>5 DEF Row, Carried, Kept, Terminal, InCheckout, Own
  <2>3. Apart(r)'
    BY <1>2, <1>3, <1>5 DEF Row, Apart, Foreign
  <2> QED BY <2>1, <2>2, <2>3 DEF Row
<1>9. Effects(r)' /\ RealRow(r)'
  <2>1. Effects(r)'
    BY <1>2, <1>3, <1>5 DEF Effects, InCheckout, Own
  <2>2. RealRow(r)'
    BY <1>2, <1>3, <1>5 DEF RealRow, Real
  <2> QED BY <2>1, <2>2
<1>10. ASSUME NEW s \in Runs PROVE Steady(s) /\ Row(s)' /\ RealRow(s)' /\ Effects(s)'
  <2>1. CASE s = r
    <3>1. work[r] <= work'[r]
      BY <1>1, <1>2, <1>3 DEF TypeOK, CheckoutAssumption
    <3>2. Steady(r)
      BY <3>1, <1>4, <1>5, CheckoutAssumption DEF Steady, Born, InCheckout, CheckoutAssumption
    <3> QED BY <2>1, <3>2, <1>8, <1>9
  <2>2. CASE s # r
    <3>1. Still(s) /\ tree' = tree /\ late \subseteq late' /\ Row(s) /\ Effects(s) /\ RealRow(s)
      BY <2>2, <1>3, <1>6 DEF Still, CheckoutInv
    <3>2. Steady(s) /\ Row(s)' /\ Effects(s)'
      BY <3>1, <1>2, StillIsSteady, RowFrame, EffectsFrame
    <3>3. RealRow(s)'
      BY <3>1, <1>3 DEF RealRow, Real, Still
    <3> QED BY <3>2, <3>3
  <2> QED BY <2>1, <2>2
<1>11. Real(tree)'
  BY <1>3 DEF CheckoutInv, Real
<1> QED BY <1>3, <1>7, <1>10, <1>11, IdleEntry, ClientStep

\* The second read of the holder, under the write lock, is what keeps holders
\* apart; it makes every accept under way stale.
LEMMA RunEnqueuesStep ==
  ASSUME CheckoutAssumption, CheckoutInv, NEW c \in Clients, NEW r, r = client[c].of, RunEnqueues(c)
  PROVE  CheckoutInv'
<1> DEFINE k == run[r].kind
<1> DEFINE b == IF k = "checkout" THEN None ELSE client[c].cap
<1> DEFINE q == IF k = "dirty" /\ client[c].cap = committed THEN "fresh" ELSE k
<1>1. /\ TypeOK /\ Call(c) /\ client[c] \in ClientState /\ client[c].pc = "captured"
  BY DEF CheckoutInv, TypeOK, RunEnqueues
<1>2. /\ r \in Runs /\ ~Born(r) /\ Real(client[c].cap) /\ \A d \in Clients \ {c} : client[d].of # r
  BY <1>1 DEF Call
<1>3. Row(r) /\ Effects(r) /\ RealRow(r) /\ run[r] \in RunRow /\ run[r].status = "unborn"
  BY <1>1, <1>2 DEF CheckoutInv, TypeOK, Born
<1>4. /\ run' = (IF ~MayEnqueue(k) THEN run
                 ELSE [run EXCEPT ![r].status = "queued", ![r].head = committed, ![r].base = b, ![r].kind = q])
      /\ client' = [d \in Clients |-> IF d = c THEN Idle
                                      ELSE [client[d] EXCEPT !.stale = @ \/ k = "checkout"]]
      /\ UNCHANGED <<wt, snap, fiber, env, tree, committed, work, late>>
  BY DEF RunEnqueues
<1>5. /\ env[r] = None /\ wt[r] = None /\ ~run[r].started /\ run[r].base = None
      /\ fiber[r] = "none" /\ ~run[r].released /\ ~run[r].early /\ run[r].inbox = None
  BY <1>1, <1>2, <1>3 DEF Row, Fits, Begun, Closed, Born, Terminal, TypeOK
<1>6. work[r] = 0 /\ Own(r) = {} /\ Foreign(r, client[c].cap)
  BY <1>2, <1>5, NothingDone
<1>7. /\ b \in Content \cup {None} /\ (b # None => b = client[c].cap) /\ (k # "checkout" => b # None)
      /\ k = "checkout" => b = None
      /\ q \in {"fresh", "dirty", "checkout"} /\ (q = "checkout" <=> k = "checkout")
  BY <1>1, <1>3 DEF ClientState, RunRow, CheckoutAssumption
<1> HIDE DEF k, b, q
<1>8. TypeOK'
  <2>1. run' \in [Runs -> RunRow]
    <3>1. committed \in Content
      BY <1>1 DEF TypeOK, Content
    <3>2. [run[r] EXCEPT !.status = "queued", !.head = committed, !.base = b, !.kind = q] \in RunRow
      BY <1>3, <1>7, <3>1 DEF RunRow
    <3>3. CASE MayEnqueue(k)
      <4>1. run' = [run EXCEPT ![r] = [run[r] EXCEPT !.status = "queued", !.head = committed,
                                                      !.base = b, !.kind = q]]
        BY <1>1, <1>2, <1>4, <3>3 DEF TypeOK
      <4> QED BY <1>1, <3>2, <4>1 DEF TypeOK
    <3>4. CASE ~MayEnqueue(k)
      BY <1>1, <1>4, <3>4 DEF TypeOK
    <3> QED BY <3>3, <3>4
  <2>2. ASSUME NEW d \in Clients PROVE client'[d] \in ClientState
    <3>1. client[d] \in ClientState /\ Idle \in ClientState
      BY <1>1, IdleEntry DEF TypeOK, Entry
    <3>2. (client[d].stale \/ k = "checkout") \in BOOLEAN
      BY <3>1 DEF ClientState
    <3> QED BY <1>4, <3>1, <3>2 DEF ClientState
  <2>3. client' \in [Clients -> ClientState]
    BY <1>4, <2>2
  <2> QED BY <1>1, <1>4, <2>1, <2>3 DEF TypeOK
<1>9. \A s \in Runs \ {r} : Still(s)
  BY <1>1, <1>4 DEF Still, TypeOK
<1>10. run'[r] = run[r] \/
          /\ MayEnqueue(k) /\ run'[r].status = "queued" /\ run'[r].base = b /\ run'[r].kind = q
          /\ run'[r].started = run[r].started /\ run'[r].released = run[r].released
          /\ run'[r].early = run[r].early /\ run'[r].inbox = run[r].inbox
          /\ run'[r].recorded = run[r].recorded /\ run'[r].against = run[r].against
          /\ run'[r].dropped = run[r].dropped /\ run'[r].gced = run[r].gced
  BY <1>1, <1>2, <1>3, <1>4 DEF TypeOK, RunRow
<1>11. run[r].kind = k /\ (InCheckout(r)' <=> InCheckout(r)) /\ (InCheckout(r) <=> k = "checkout")
  BY <1>7, <1>10 DEF InCheckout, k
<1>12. Row(r)' /\ Effects(r)' /\ RealRow(r)'
  <2>1. CASE run'[r] = run[r]
    <3>1. Still(r) /\ tree' = tree /\ late \subseteq late'
      BY <2>1, <1>4 DEF Still
    <3>2. Row(r)' /\ Effects(r)'
      BY <3>1, <1>2, <1>3, RowFrame, EffectsFrame
    <3> QED BY <3>2, <2>1, <1>3, <1>4 DEF RealRow, Real
  <2>2. CASE run'[r] # run[r]
    <3>6. /\ run'[r].status = "queued" /\ run'[r].base = b /\ ~run'[r].started /\ ~run'[r].released
          /\ ~run'[r].early /\ run'[r].inbox = None /\ fiber'[r] = "none"
          /\ env'[r] = None /\ wt'[r] = None /\ work'[r] = 0
      BY <2>2, <1>4, <1>5, <1>6, <1>10
    <3>7. InCheckout(r)' <=> k = "checkout"
      BY <1>11
    <3>8. ~(work'[r] > 0) /\ ~Terminal(r)' /\ Born(r)'
      BY <3>6 DEF Terminal, Born
    <3>9. Fits(r)'
      BY <3>6, <3>8 DEF Fits
    <3>10. Begun(r)'
      BY <3>6, <3>7, <3>8, <1>7 DEF Begun
    <3>11. Closed(r)'
      BY <3>6 DEF Closed
    <3>1. Fits(r)' /\ Begun(r)' /\ Closed(r)'
      BY <3>9, <3>10, <3>11
    <3>12. Carried(r)'
      BY <3>6, <3>8 DEF Carried
    <3>13. None # "pending"
      BY DEF CheckoutAssumption
    <3>2. Carried(r)' /\ Kept(r)'
      BY <3>6, <3>8, <3>12, <3>13 DEF Kept
    <3>3. Apart(r)'
      BY <2>2, <1>4, <1>5, <1>6, <1>7, <1>10 DEF Apart, Foreign
    <3>4. Effects(r)'
      BY <2>2, <1>3, <1>4, <1>5, <1>6, <1>7, <1>10, <1>11 DEF Effects, Own
    <3>5. RealRow(r)'
      BY <2>2, <1>2, <1>3, <1>4, <1>7, <1>10 DEF RealRow, Real
    <3> QED BY <3>1, <3>2, <3>3, <3>4, <3>5 DEF Row
  <2> QED BY <2>1, <2>2
<1>13. ASSUME NEW s \in Runs PROVE Row(s)' /\ Effects(s)' /\ RealRow(s)'
  <2>1. CASE s = r
    BY <2>1, <1>12
  <2>2. CASE s # r
    <3>1. Still(s) /\ tree' = tree /\ late \subseteq late' /\ Row(s) /\ Effects(s) /\ RealRow(s)
      BY <2>2, <1>4, <1>9 DEF CheckoutInv
    <3>2. Row(s)' /\ Effects(s)'
      BY <3>1, RowFrame, EffectsFrame
    <3>3. RealRow(s)'
      BY <3>1, <1>4 DEF RealRow, Real, Still
    <3> QED BY <3>2, <3>3
  <2> QED BY <2>1, <2>2
<1>14. Holders' \subseteq Holders \/ (k = "checkout" /\ Holders = {} /\ Holders' \subseteq {r})
  <2>1. ASSUME NEW s \in Holders', s # r PROVE s \in Holders
    BY <2>1, <1>9 DEF Holders, Still, InCheckout
  <2>2. ASSUME r \in Holders', r \notin Holders PROVE k = "checkout" /\ Holders = {}
    <3>1. run'[r] # run[r] /\ InCheckout(r)'
      BY <2>2 DEF Holders, InCheckout
    <3> QED BY <3>1, <1>10, <1>11 DEF MayEnqueue
  <2> QED BY <2>1, <2>2
<1>15. ASSUME NEW d \in Clients PROVE Call(d)'
  <2>1. CASE d = c
    <3>1. client'[c] = Idle
      BY <1>4
    <3> QED BY <2>1, <3>1 DEF Idle, Call, Real
  <2>2. CASE d # c
    <3>1. /\ client'[d].pc = client[d].pc /\ client'[d].of = client[d].of /\ client'[d].cap = client[d].cap
          /\ client'[d].stale = (client[d].stale \/ k = "checkout")
      BY <2>2, <1>1, <1>4 DEF TypeOK, ClientState
    <3>2. Call(d) /\ client[d].of # r
      BY <2>2, <1>2 DEF CheckoutInv
    <3>3. client[d].pc # "idle" => client[d].of \in Runs \ {r} /\ run'[client[d].of] = run[client[d].of]
      BY <3>2, <1>9 DEF Call, Still
    <3>4. \A e \in Clients \ {d} : client'[e].of \in {None, client[e].of}
      BY <1>1, <1>4 DEF TypeOK, ClientState, Idle
    <3>8. client[d].pc \in {"checked", "captured"} => ~Born(client[d].of)'
      BY <3>1, <3>2, <3>3 DEF Call, Born
    <3>9. ASSUME client[d].pc \in {"checked", "captured"}, NEW e \in Clients \ {d}
          PROVE  client'[e].of # client[d].of
      <4>1. client[d].of \in Runs /\ client[e].of # client[d].of
        BY <3>2, <3>9 DEF Call
      <4>2. client[d].of # None
        BY <4>1 DEF CheckoutAssumption
      <4> QED BY <3>4, <4>1, <4>2
    <3>5. client[d].pc \in {"checked", "captured"} =>
             ~Born(client[d].of)' /\ \A e \in Clients \ {d} : client'[e].of # client[d].of
      BY <3>8, <3>9
    <3>6. client[d].pc = "landing" /\ ~client'[d].stale => Holders' = {}
      BY <3>1, <3>2, <1>14 DEF Call
    <3>7. Real(client[d].cap)'
      BY <3>2, <3>1, <1>4 DEF Call, Real
    <3> QED BY <3>1, <3>2, <3>3, <3>5, <3>6, <3>7 DEF Call
  <2> QED BY <2>1, <2>2
<1>16. OneAtATime'
  BY <1>14 DEF CheckoutInv, OneAtATime
<1>17. Real(tree)'
  BY <1>4 DEF CheckoutInv, Real
<1> QED BY <1>8, <1>13, <1>15, <1>16, <1>17 DEF CheckoutInv


----------------------------------------------------------------------------
(* The daemon dies; the operator commits.                                  *)

\* A requeued run keeps its row but for the status, and no environment is in
\* the map of the next daemon.
LEMMA CrashStep == ASSUME CheckoutAssumption, CheckoutInv, Crash PROVE CheckoutInv'
<1>1. TypeOK /\ Real(tree)
  BY DEF CheckoutInv
<1>2. /\ fiber' = [s \in Runs |-> "none"] /\ env' = [s \in Runs |-> None]
      /\ run' = [s \in Runs |-> IF run[s].status = "running" THEN [run[s] EXCEPT !.status = "queued"] ELSE run[s]]
      /\ UNCHANGED <<wt, snap, client, tree, committed, work, late>>
  BY DEF Crash
<1>3. ASSUME NEW s \in Runs
      PROVE  /\ run'[s] \in RunRow
             /\ run'[s].status = (IF run[s].status = "running" THEN "queued" ELSE run[s].status)
             /\ run'[s].kind = run[s].kind /\ run'[s].base = run[s].base
             /\ run'[s].started = run[s].started /\ run'[s].released = run[s].released
             /\ run'[s].early = run[s].early /\ run'[s].inbox = run[s].inbox
             /\ run'[s].recorded = run[s].recorded /\ run'[s].against = run[s].against
             /\ run'[s].dropped = run[s].dropped /\ run'[s].gced = run[s].gced
  <2>1. run[s] \in RunRow
    BY <1>1 DEF TypeOK
  <2>2. CASE run[s].status = "running"
    <3>1. run'[s] = [run[s] EXCEPT !.status = "queued"]
      BY <1>2, <2>2
    <3> QED BY <2>1, <2>2, <3>1 DEF RunRow
  <2>3. CASE run[s].status # "running"
    <3>1. run'[s] = run[s]
      BY <1>2, <2>3
    <3> QED BY <2>1, <2>3, <3>1
  <2> QED BY <2>2, <2>3
<1>4. TypeOK'
  BY <1>1, <1>2, <1>3 DEF TypeOK, ProvisionedBase
<1>5. ASSUME NEW s \in Runs
      PROVE  /\ Born(s)' = Born(s) /\ InCheckout(s)' = InCheckout(s) /\ Terminal(s)' = Terminal(s)
             /\ Own(s)' = Own(s) /\ fiber'[s] = "none" /\ env'[s] = None
             /\ run'[s].status # "running" /\ wt'[s] = wt[s] /\ snap'[s] = snap[s] /\ work'[s] = work[s]
  BY <1>2, <1>3 DEF Born, InCheckout, Terminal, Own
<1>6. ASSUME NEW s \in Runs PROVE Row(s)'
  <2>1. Fits(s) /\ Begun(s) /\ Closed(s) /\ Carried(s) /\ Kept(s) /\ Apart(s)
    BY DEF CheckoutInv, Row
  <2>2. Fits(s)'
    BY <1>5 DEF Fits
  <2>3. Begun(s)'
    BY <1>3, <1>5, <2>1 DEF Begun
  <2>4. Closed(s)'
    BY <1>3, <1>5, <2>1 DEF Closed
  <2>5. Carried(s)'
    BY <1>3, <1>5, <2>1 DEF Carried
  <2>6. Kept(s)'
    BY <1>3, <1>5, <2>1 DEF Kept
  <2>7. Apart(s)'
    BY <1>3, <1>5, <2>1 DEF Apart, Foreign
  <2> QED BY <2>2, <2>3, <2>4, <2>5, <2>6, <2>7 DEF Row
<1>7. ASSUME NEW s \in Runs PROVE Effects(s)' /\ RealRow(s)'
  <2>1. Effects(s) /\ RealRow(s)
    BY DEF CheckoutInv
  <2>2. Effects(s)'
    BY <1>2, <1>3, <1>5, <2>1 DEF Effects
  <2>3. RealRow(s)'
    BY <1>2, <1>3, <1>5, <2>1 DEF RealRow, Real
  <2> QED BY <2>2, <2>3
<1>8. \A s \in Runs : Steady(s)
  BY <1>1, <1>3, <1>5 DEF Steady, TypeOK, CheckoutAssumption
<1>9. \A c \in Clients : Call(c)'
  BY <1>2, <1>4, <1>8, CallFrame
<1>10. OneAtATime'
  BY <1>8, HoldersFrame DEF CheckoutInv, OneAtATime
<1>11. Real(tree)'
  BY <1>1, <1>2 DEF Real
<1> QED BY <1>4, <1>6, <1>7, <1>9, <1>10, <1>11 DEF CheckoutInv

LEMMA OperatorCommitsStep ==
  ASSUME CheckoutAssumption, CheckoutInv, OperatorCommits PROVE CheckoutInv'
<1>1. committed' = tree /\ UNCHANGED <<run, wt, snap, fiber, env, client, tree, work, late>>
  BY DEF OperatorCommits
<1>2. TypeOK'
  BY <1>1 DEF CheckoutInv, TypeOK
<1>3. ASSUME NEW s \in Runs PROVE Row(s)' /\ Effects(s)' /\ RealRow(s)'
  <2>1. Row(s) /\ Effects(s) /\ RealRow(s) /\ Still(s)
    BY <1>1 DEF CheckoutInv, Still
  <2>2. Row(s)' /\ Effects(s)'
    BY <1>1, <2>1, RowFrame, EffectsFrame
  <2> QED BY <1>1, <2>1, <2>2 DEF RealRow, Real
<1>4. \A s \in Runs : Steady(s)
  BY <1>1, StillIsSteady DEF CheckoutInv, Still
<1>5. \A c \in Clients : Call(c)'
  BY <1>1, <1>2, <1>4, CallFrame
<1>6. OneAtATime' /\ Real(tree)'
  BY <1>1, <1>4, HoldersFrame DEF CheckoutInv, OneAtATime, Real
<1> QED BY <1>2, <1>3, <1>5, <1>6 DEF CheckoutInv


----------------------------------------------------------------------------
(* Theorems.                                                               *)

LEMMA StutterStep == ASSUME CheckoutAssumption, CheckoutInv, UNCHANGED vars PROVE CheckoutInv'
<1>1. /\ UNCHANGED <<run, wt, snap, fiber, env, client, tree, committed, work, late>>
      /\ \A s \in Runs : Still(s)
  BY DEF vars, Still
<1>2. TypeOK'
  BY <1>1 DEF CheckoutInv, TypeOK
<1>3. ASSUME NEW s \in Runs PROVE Row(s)' /\ Effects(s)' /\ RealRow(s)'
  BY <1>1, RowFrame, EffectsFrame DEF CheckoutInv, RealRow, Real
<1>4. \A s \in Runs : Steady(s)
  BY <1>1, StillIsSteady DEF CheckoutInv
<1>5. \A c \in Clients : Call(c)'
  BY <1>1, <1>2, <1>4, CallFrame
<1>6. OneAtATime' /\ Real(tree)'
  BY <1>1, <1>4, HoldersFrame DEF CheckoutInv, OneAtATime, Real
<1> QED BY <1>2, <1>3, <1>5, <1>6 DEF CheckoutInv

LEMMA FiberNext == ASSUME CheckoutAssumption, CheckoutInv, NEW r \in Runs, Fiber(r) PROVE CheckoutInv'
<1>1. CASE Attach(r)
  BY <1>1, AttachStep
<1>2. CASE AddWorktree(r)
  BY <1>2, AddWorktreeStep
<1>3. CASE ReuseWorktree(r)
  BY <1>3, ReuseWorktreeStep
<1>4. CASE Bootstrap(r)
  BY <1>4, BootstrapStep
<1>5. CASE Start(r)
  BY <1>5, StartStep
<1>6. CASE Step(r)
  BY <1>6, StepStep
<1>7. CASE Boundary(r)
  BY <1>7, BoundaryStep
<1>8. CASE SettleSkips(r)
  BY <1>8, SettleSkipsStep
<1>9. CASE SettleCapture(r)
  BY <1>9, SettleCaptureStep
<1>10. CASE SettleRecord(r)
  BY <1>10, SettleRecordStep
<1>11. CASE Dispose(r)
  BY <1>11, DisposeStep
<1> QED BY <1>1, <1>2, <1>3, <1>4, <1>5, <1>6, <1>7, <1>8, <1>9, <1>10, <1>11 DEF Fiber

LEMMA ClientNext ==
  ASSUME CheckoutAssumption, CheckoutInv, NEW c \in Clients,
         \/ RunCaptures(c) \/ RunEnqueues(c) \/ Land(c) \/ RecordAction(c) \/ ClientDies(c)
         \/ \E r \in Runs : RunChecks(c, r) \/ AcceptGate(c, r) \/ DiscardRefs(c, r)
  PROVE  CheckoutInv'
<1>1. CASE RunCaptures(c)
  BY <1>1, RunCapturesStep
<1>2. CASE RunEnqueues(c)
  BY <1>2, RunEnqueuesStep
<1>3. CASE Land(c)
  BY <1>3, LandStep
<1>4. CASE RecordAction(c)
  BY <1>4, RecordActionStep
<1>5. CASE ClientDies(c)
  BY <1>5, ClientDiesStep
<1>6. ASSUME NEW r \in Runs, RunChecks(c, r) \/ AcceptGate(c, r) \/ DiscardRefs(c, r)
      PROVE  CheckoutInv'
  BY <1>6, RunChecksStep, AcceptGateStep, DiscardRefsStep
<1> QED BY <1>1, <1>2, <1>3, <1>4, <1>5, <1>6

LEMMA CheckoutStep == ASSUME CheckoutAssumption, CheckoutInv, [Next]_vars PROVE CheckoutInv'
<1>1. ASSUME NEW c \in Clients,
             \/ RunCaptures(c) \/ RunEnqueues(c) \/ Land(c) \/ RecordAction(c) \/ ClientDies(c)
             \/ \E r \in Runs : RunChecks(c, r) \/ AcceptGate(c, r) \/ DiscardRefs(c, r)
      PROVE  CheckoutInv'
  BY <1>1, ClientNext
<1>2. ASSUME NEW r \in Runs, Fiber(r) PROVE CheckoutInv'
  BY <1>2, FiberNext
<1>3. ASSUME NEW r \in Runs, ProvisionFails(r) \/ Park(r) \/ Resume(r) \/ Cancel(r) PROVE CheckoutInv'
  BY <1>3, ProvisionFailsStep, ParkStep, ResumeStep, CancelStep
<1>4. ASSUME NEW r \in Runs, NEW s \in {"completed", "halted"}, Finish(r, s) PROVE CheckoutInv'
  BY <1>4, FinishStep
<1>5. ASSUME NEW r \in Runs, SettleFails(r) \/ Release(r) \/ Gc(r) PROVE CheckoutInv'
  BY <1>5, SettleFailsStep, ReleaseStep, GcStep
<1>6. CASE Crash
  BY <1>6, CrashStep
<1>7. CASE OperatorCommits
  BY <1>7, OperatorCommitsStep
<1>8. CASE UNCHANGED vars
  BY <1>8, StutterStep
<1> QED BY <1>1, <1>2, <1>3, <1>4, <1>5, <1>6, <1>7, <1>8 DEF Next

LEMMA CheckoutInvariant == ASSUME CheckoutAssumption PROVE Spec => []CheckoutInv
<1>1. Init => CheckoutInv
  BY InitCheckout
<1>2. CheckoutInv /\ [Next]_vars => CheckoutInv'
  BY CheckoutStep
<1> QED BY <1>1, <1>2, PTL DEF Spec

\* Every row of a run, worktree, snapshot, environment and call keeps its type,
\* and what HEAD holds is part of the operator's tree.
THEOREM CheckoutTypeCorrect == ASSUME CheckoutAssumption PROVE Spec => []TypeOK
<1>1. CheckoutInv => TypeOK
  BY DEF CheckoutInv
<1> QED BY <1>1, CheckoutInvariant, PTL

LEMMA OneHolderFollows == ASSUME CheckoutInv PROVE OneHolder
<1>1. CASE Holders = {}
  BY <1>1, FS_EmptySet DEF OneHolder
<1>2. CASE Holders # {}
  <2>1. PICK r \in Holders : TRUE
    BY <1>2
  <2>2. Holders = {r}
    BY <2>1 DEF CheckoutInv, OneAtATime
  <2>3. Cardinality({r}) = 1
    BY FS_Singleton
  <2> QED BY <2>2, <2>3 DEF OneHolder
<1> QED BY <1>1, <1>2

LEMMA OwnWorkOnlyFollows == ASSUME CheckoutAssumption, CheckoutInv PROVE OwnWorkOnly
<1>1. ASSUME NEW r \in Runs, NEW base \in {run[r].base, env[r]}, base # None
      PROVE  base \cap Own(r) = {}
  <2>1. Foreign(r, base) /\ work[r] \in 0 .. MaxWork
    BY <1>1 DEF CheckoutInv, Row, Apart, TypeOK
  <2>2. \A n \in 1 .. work[r] : n \in 1 .. MaxWork
    BY <2>1 DEF CheckoutAssumption
  <2> QED BY <2>1, <2>2 DEF Foreign, Own
<1>2. EffectIsOwn
  BY DEF CheckoutInv, Effects, EffectIsOwn
<1> QED BY <1>1, <1>2 DEF OwnWorkOnly, BaseFreeOfOwnWork

LEMMA WorkIsKeptFollows == ASSUME CheckoutInv PROVE WorkIsKept
<1>1. \A r \in Runs : Kept(r)
  BY DEF CheckoutInv, Row
<1> QED BY <1>1 DEF Kept, WorkIsKept, DisposedIsRecorded, PendingIsThere

\* Whatever crashes, re-attaches, accepts, discards, releases and gc passes
\* happen: one run at a time holds the operator's checkout, since enqueueRun
\* reads the holder again under the write lock; no base holds the work of its
\* run and a checkout run records its own effect, since attachCheckout adopts
\* the recorded base; and no work is lost before somebody decides about it,
\* since disposeTerminalWorktree is gated on the snapshot fact.
THEOREM CheckoutSafeHolds == ASSUME CheckoutAssumption PROVE Spec => []CheckoutSafe
<1>1. CheckoutInv => CheckoutSafe
  BY OneHolderFollows, OwnWorkOnlyFollows, WorkIsKeptFollows DEF CheckoutSafe
<1> QED BY <1>1, CheckoutInvariant, PTL

----------------------------------------------------------------------------
(* A run's bundles.                                                        *)

CONSTANTS Secrets, Importers, Exportable, MaxExports, MaxRotations, RaceAttempts
VARIABLES origin, log, artifacts, creds, rotations, reading, bundles, row, stored, blobRows, imp

B == INSTANCE Bundles WITH Runs <- Exportable, run <- origin

----------------------------------------------------------------------------
(* Bundles: the inductive invariant.                                       *)

\* Events are numbered along the log, and nothing has a later number.
Numbered(X) == \A e \in X : e.seq < Len(log)

Along ==
    /\ log # <<>> /\ log[1] = [seq |-> 0, type |-> "fact", text |-> "plain"]
    /\ \A k \in 1 .. Len(log) : log[k].seq < Len(log)
    /\ reading # None => Numbered(reading) /\ Len(bundles) < MaxExports
    /\ \A n \in 1 .. Len(bundles) : Numbered(bundles[n].events)
    /\ Numbered(stored)

\* An importer works from a row that has only grown since; one that has not
\* grown at all still holds what was classified.
Planned(i) ==
    LET events == bundles[imp[i].bundle].events
        fence == imp[i].plan.fence
    IN  /\ imp[i].plan # None
        /\ imp[i].plan.mode # "new" =>
              /\ row # None /\ row.imported /\ fence # None /\ fence.next <= row.next
              /\ fence.next = row.next => B!Prefix(events) /\ (imp[i].plan.mode = "identical" => events = stored)

Import(i) ==
    imp[i] # None =>
        /\ imp[i].pc # "refused" => imp[i].tries < RaceAttempts
        /\ imp[i].pc = "write" => Planned(i)
        /\ imp[i].pc = "refused" => row # None

BundlesInv ==
    /\ B!TypeOK /\ Along /\ B!BundleSound
    /\ row = None => stored = {}
    /\ \A i \in Importers : Import(i)

----------------------------------------------------------------------------
(* The greatest number of a set that has a bound.                          *)

LEMMA BoundedHasMax ==
  ASSUME NEW n \in Nat, NEW T \in SUBSET Nat, T # {}, \A x \in T : x < n
  PROVE  \E m \in T : \A x \in T : x <= m
<1> DEFINE D == {n - x : x \in T}
<1>1. D \in SUBSET Nat /\ D # {}
  <2>1. \A x \in T : x \in Int /\ n - x \in Nat
    OBVIOUS
  <2> QED BY <2>1
<1>2. PICK d \in D : \A y \in D : ~(<<y, d>> \in OpToRel(<, Nat))
  BY <1>1, NatLessThanWellFounded, WFMin
<1>3. ASSUME NEW y \in D PROVE ~(y < d)
  <2>1. y < d => <<y, d>> \in OpToRel(<, Nat)
    BY <1>1, Zenon DEF OpToRel
  <2> QED BY <1>2, <2>1
<1>4. PICK m \in T : d = n - m
  BY <1>2
<1>5. ASSUME NEW x \in T PROVE x <= m
  <2>1. ~(n - x < n - m)
    BY <1>3, <1>4
  <2> QED BY <2>1
<1> QED BY <1>5

LEMMA MaxIs ==
  ASSUME NEW n \in Nat, NEW T \in SUBSET Nat, \A x \in T : x < n, NEW b \in {-1, 0}
  PROVE  /\ B!Max({b} \union T) \in {b} \union T
         /\ \A x \in {b} \union T : x <= B!Max({b} \union T)
<1> DEFINE U == {b} \union T
<1>1. \E m \in U : \A x \in U : m >= x
  <2>1. CASE T = {}
    BY <2>1
  <2>2. CASE T # {}
    <3>1. PICK m \in T : \A x \in T : x <= m
      BY <2>2, BoundedHasMax, Zenon
    <3>2. m \in U /\ \A x \in U : m >= x
      BY <3>1
    <3> QED BY <3>2
  <2> QED BY <2>1, <2>2
<1>2. B!Max(U) = CHOOSE m \in U : \A x \in U : m >= x
  BY DEF B!Max
<1>3. B!Max(U) \in U /\ \A x \in U : B!Max(U) >= x
  BY <1>1, <1>2
<1> HIDE DEF U
<1>4. U \subseteq Int
  BY DEF U
<1> QED BY <1>3, <1>4 DEF U

\* What replays of two sets of events have in common.
NextOf(X) == B!Replay(X).next

LEMMA ReplayIs ==
  ASSUME NEW n \in Nat, NEW X \in SUBSET B!Events, \A e \in X : e.seq < n
  PROVE  /\ NextOf(X) \in Nat /\ B!Replay(X).version \in Nat
         /\ B!Replay(X) = [version |-> B!Replay(X).version, next |-> NextOf(X)]
         /\ \A e \in X : e.seq < NextOf(X)
         /\ X # {} => \E e \in X : NextOf(X) = e.seq + 1
         /\ X = {} => NextOf(X) = 0
<1> DEFINE F == {e.seq : e \in {x \in X : B!Fact(x)}}
           S == {e.seq : e \in X}
<1>1. \A e \in X : e.seq \in Nat
  BY DEF B!Events
<1>2. F \in SUBSET Nat /\ S \in SUBSET Nat /\ (\A x \in F : x < n) /\ (\A x \in S : x < n)
  BY <1>1
<1>3. B!Max({0} \union F) \in {0} \union F
  BY <1>2, MaxIs
<1>4. B!Max({-1} \union S) \in {-1} \union S /\ \A x \in {-1} \union S : x <= B!Max({-1} \union S)
  BY <1>2, MaxIs
<1>5. B!Replay(X) = [version |-> B!Max({0} \union F), next |-> B!Max({-1} \union S) + 1]
  BY DEF B!Replay
<1> DEFINE m == B!Max({-1} \union S)
<1>6. NextOf(X) = m + 1 /\ m \in {-1} \union S /\ \A x \in S : x <= m
  <2>1. B!Replay(X).next = m + 1
    BY <1>5
  <2>2. NextOf(X) = B!Replay(X).next
    BY DEF NextOf
  <2> HIDE DEF S
  <2>3. m \in {-1} \union S /\ \A x \in S : x <= m
    BY <1>4
  <2> QED BY <2>1, <2>2, <2>3
<1>7. B!Replay(X).version = B!Max({0} \union F)
  BY <1>5
<1> HIDE DEF m
<1>8. NextOf(X) \in Nat /\ (\A e \in X : e.seq < NextOf(X))
  BY <1>1, <1>6
<1>9. X # {} => m \in S
  BY <1>1, <1>6
<1>10. X # {} => \E e \in X : NextOf(X) = e.seq + 1
  BY <1>6, <1>9
<1>11. X = {} => NextOf(X) = 0
  BY <1>6
<1>12. B!Replay(X).version \in Nat
  BY <1>2, <1>3, <1>7
<1>13. B!Replay(X) = [version |-> B!Replay(X).version, next |-> NextOf(X)]
  BY <1>5, <1>7 DEF NextOf
<1> QED BY <1>8, <1>10, <1>11, <1>12, <1>13

\* A log that carries another one on has the later next number, or is the same.
LEMMA CarriesOn ==
  ASSUME NEW n \in Nat, NEW X \in SUBSET B!Events, \A e \in X : e.seq < n,
         NEW Y \in SUBSET B!Events, Y \subseteq X, NEW e \in X \ Y, \A s \in Y : s.seq < e.seq
  PROVE  NextOf(Y) < NextOf(X)
<1>1. e.seq \in Nat /\ e.seq < NextOf(X) /\ NextOf(X) \in Nat
  BY ReplayIs DEF B!Events
<1>2. \A x \in Y : x.seq < n /\ x.seq \in Nat
  BY DEF B!Events
<1>3. CASE Y = {}
  BY <1>1, <1>2, <1>3, ReplayIs
<1>4. CASE Y # {}
  <2>1. PICK s \in Y : NextOf(Y) = s.seq + 1
    BY <1>2, <1>4, ReplayIs
  <2> QED BY <1>1, <1>2, <2>1
<1> QED BY <1>3, <1>4

----------------------------------------------------------------------------
(* Bundles: the steps of the run that is exported.                         *)

LEMMA InitBundles == ASSUME B!BundlesAssumption, B!Init PROVE BundlesInv
<1> DEFINE g == [seq |-> 0, type |-> "fact", text |-> "plain"]
<1>1. log = <<g>> /\ log[1] = g /\ Len(log) = 1 /\ log # <<>>
  BY DEF B!Init
<1>2. g \in B!Events
  BY DEF B!Events, B!Types, B!Texts
<1>3. log \in Seq(B!Events)
  BY <1>1, <1>2
<1>4. bundles = <<>> /\ Len(bundles) = 0 /\ artifacts = <<>> /\ reading = None
  BY DEF B!Init
<1>6. \/ row = None /\ stored = {}
      \/ row = [imported |-> FALSE, version |-> 0, next |-> 1] /\ stored = {g}
  BY <1>1 DEF B!Init, B!ToSet
<1>16. [imported |-> FALSE, version |-> 0, next |-> 1] \in B!Rows
  BY DEF B!Rows
<1>7. B!TypeOK
  <2>1. artifacts \in Seq(B!Artifacts) /\ bundles \in Seq(B!BundleSet) /\ Len(bundles) <= MaxExports
    BY <1>4 DEF B!BundlesAssumption
  <2>2. imp \in [Importers -> B!Imports \union {None}]
    BY DEF B!Init
  <2>3. row \in B!Rows \union {None} /\ stored \subseteq B!Events
    <3>1. {g} \subseteq B!Events
      BY <1>2
    <3> HIDE DEF g
    <3> QED BY <1>6, <1>16, <3>1
  <2>4. /\ origin \in Exportable /\ creds \subseteq Secrets /\ rotations \in 0 .. MaxRotations
        /\ reading \in {None} \union SUBSET B!Events /\ blobRows \subseteq B!Texts
    BY <1>4 DEF B!Init, B!BundlesAssumption
  <2> QED BY <1>3, <2>1, <2>2, <2>3, <2>4 DEF B!TypeOK
<1>8. Along
  BY <1>1, <1>4, <1>6 DEF Along, Numbered
<1>9. \A i \in Importers : imp[i] = None
  BY DEF B!Init
<1>10. B!ImportedIsReplay
  <2> SUFFICES ASSUME row # None PROVE B!ImportedIsReplay
    BY DEF B!ImportedIsReplay
  <2>1. row = [imported |-> FALSE, version |-> 0, next |-> 1] /\ stored = {g}
    BY <1>6
  <2>2. B!Replay({g}) = [version |-> 0, next |-> 1]
    <3>1. {e.seq : e \in {x \in {g} : B!Fact(x)}} = {0}
      <4>1. B!Fact(g)
        BY DEF B!Fact
      <4>2. {x \in {g} : B!Fact(x)} = {g}
        BY <4>1, Zenon
      <4>3. g \in {x \in {g} : B!Fact(x)} /\ g.seq = 0 /\ \A y \in {x \in {g} : B!Fact(x)} : y = g
        BY <4>1
      <4> HIDE DEF g
      <4> QED BY <4>3
    <3>2. {e.seq : e \in {g}} = {0}
      OBVIOUS
    <3>3. B!Max({0} \union {0}) = 0 /\ B!Max({-1} \union {0}) = 0
      <4>0. {0} \in SUBSET Nat /\ \A x \in {0} : x < 1
        OBVIOUS
      <4>1. B!Max({0} \union {0}) \in {0} \union {0}
        <5>1. 0 \in {-1, 0} /\ 1 \in Nat
          OBVIOUS
        <5> QED BY <4>0, <5>1, MaxIs, Zenon
      <4>2. B!Max({-1} \union {0}) \in {-1} \union {0} /\ 0 <= B!Max({-1} \union {0})
        <5>1. -1 \in {-1, 0} /\ 1 \in Nat /\ 0 \in {-1} \union {0}
          OBVIOUS
        <5> QED BY <4>0, <5>1, MaxIs, Zenon
      <4> QED BY <4>1, <4>2
    <3> QED BY <3>1, <3>2, <3>3 DEF B!Replay
  <2> QED BY <1>1, <2>1, <2>2 DEF B!ImportedIsReplay
<1>11. B!BundleStandsAlone /\ B!RefusedForCause
  BY <1>4, <1>9 DEF B!BundleStandsAlone, B!RefusedForCause
<1>12. row = None => stored = {}
  BY <1>6, <1>16 DEF B!BundlesAssumption
<1>13. \A i \in Importers : Import(i)
  BY <1>9 DEF Import
<1> QED BY <1>7, <1>8, <1>10, <1>11, <1>12, <1>13 DEF BundlesInv, B!BundleSound

\* What a step of the run or of an export leaves alone keeps its facts.
LEMMA StillFits ==
  ASSUME BundlesInv, UNCHANGED <<row, stored, blobRows, imp>>, B!TypeOK', Along',
         Len(bundles) <= Len(bundles'), \A n \in 1 .. Len(bundles) : bundles'[n] = bundles[n],
         log'[1] = log[1], B!BundleStandsAlone'
  PROVE  BundlesInv'
<1>1. /\ DOMAIN bundles = 1 .. Len(bundles) /\ DOMAIN bundles' = 1 .. Len(bundles')
      /\ Len(bundles) \in Nat /\ Len(bundles') \in Nat
  BY DEF BundlesInv, B!TypeOK
<1>2. B!ImportedIsReplay'
  BY <1>1 DEF BundlesInv, B!BundleSound, B!ImportedIsReplay, B!Replay, B!Fact, B!Max
<1>3. \A i \in Importers : imp[i] # None => imp[i].bundle \in DOMAIN bundles
  BY DEF BundlesInv, B!TypeOK, B!Imports
<1>4. \A i \in Importers : imp[i] # None => bundles'[imp[i].bundle] = bundles[imp[i].bundle]
  BY <1>1, <1>3
<1>5. B!RefusedForCause'
  BY <1>4 DEF BundlesInv, B!BundleSound, B!RefusedForCause, B!Prefix
<1>6. ASSUME NEW i \in Importers PROVE Import(i)'
  <2>1. Import(i)
    BY DEF BundlesInv
  <2> QED BY <1>4, <2>1 DEF Import, Planned, B!Prefix
<1> QED BY <1>2, <1>5, <1>6 DEF BundlesInv, B!BundleSound

LEMMA AppendIs ==
  ASSUME NEW X, NEW s \in Seq(X), NEW x \in X
  PROVE  /\ Append(s, x) \in Seq(X) /\ Len(s) \in Nat /\ Len(Append(s, x)) = Len(s) + 1
         /\ DOMAIN s = 1 .. Len(s) /\ DOMAIN Append(s, x) = 1 .. Len(s) + 1
         /\ \A k \in 1 .. Len(s) : Append(s, x)[k] = s[k]
         /\ Append(s, x)[Len(s) + 1] = x
OBVIOUS

LEMMA Typed ==
  ASSUME BundlesInv
  PROVE  /\ Len(log) \in Nat /\ \A k \in 1 .. Len(log) : log[k] \in B!Events
         /\ Len(bundles) \in Nat /\ DOMAIN bundles = 1 .. Len(bundles)
         /\ \A n \in 1 .. Len(bundles) : bundles[n] \in B!BundleSet /\ bundles[n].events \in SUBSET B!Events
         /\ stored \in SUBSET B!Events
         /\ reading # None => reading \in SUBSET B!Events
<1>1. /\ log \in Seq(B!Events) /\ bundles \in Seq(B!BundleSet) /\ stored \in SUBSET B!Events
      /\ reading \in {None} \union SUBSET B!Events
  BY DEF BundlesInv, B!TypeOK
<1>2. reading # None => reading \in SUBSET B!Events
  BY <1>1, Zenon
<1>3. \A b \in B!BundleSet : b.events \in SUBSET B!Events
  BY DEF B!BundleSet
<1> QED BY <1>1, <1>2, <1>3

LEMMA EmitStep == ASSUME B!BundlesAssumption, BundlesInv, B!Emit PROVE BundlesInv'
<1> DEFINE e == origin.events[Len(log)]
           x == [seq |-> Len(log), type |-> e[1], text |-> e[2]]
<1>1. /\ Len(log) <= Len(origin.events) /\ log' = Append(log, x)
      /\ UNCHANGED <<origin, artifacts, creds, rotations, reading, bundles, row, stored, blobRows, imp>>
  BY DEF B!Emit, B!target
<1>2. log \in Seq(B!Events) /\ log # <<>> /\ Len(log) \in Nat \ {0}
  <2>1. log \in Seq(B!Events) /\ log # <<>>
    BY DEF BundlesInv, B!TypeOK, Along
  <2> QED BY <2>1, EmptySeq
<1>3. e \in B!Types \X B!Texts
  <2>1. origin.events \in Seq(B!Types \X B!Texts)
    BY DEF BundlesInv, B!TypeOK, B!BundlesAssumption
  <2> QED BY <1>1, <1>2, <2>1
<1>4. x \in B!Events
  BY <1>2, <1>3 DEF B!Events
<1> HIDE DEF e, x
<1>5. /\ log' \in Seq(B!Events) /\ Len(log') = Len(log) + 1 /\ log'[Len(log) + 1] = x
      /\ \A k \in 1 .. Len(log) : log'[k] = log[k]
  BY <1>1, <1>2, <1>4, AppendIs
<1>6. B!TypeOK'
  BY <1>1, <1>5 DEF BundlesInv, B!TypeOK, B!Imports
<1>7. x.seq = Len(log)
  BY DEF x
<1>8. \A X \in SUBSET B!Events : Numbered(X) => Numbered(X)'
  BY <1>2, <1>5 DEF Numbered, B!Events
<1>9. Along'
  <2>1. log' # <<>> /\ log'[1] = log[1]
    BY <1>2, <1>5
  <2>2. \A k \in 1 .. Len(log') : log'[k].seq < Len(log')
    <3>1. \A k \in 1 .. Len(log) : log[k].seq \in Nat /\ log[k].seq < Len(log)
      BY <1>2, Typed DEF BundlesInv, Along, B!Events
    <3> QED BY <1>2, <1>5, <1>7, <3>1
  <2> QED BY <1>1, <1>8, <2>1, <2>2, Typed DEF BundlesInv, Along
<1>10. B!BundleStandsAlone'
  BY <1>1 DEF BundlesInv, B!BundleSound, B!BundleStandsAlone
<1> QED BY <1>1, <1>2, <1>5, <1>6, <1>9, <1>10, StillFits DEF BundlesInv, B!TypeOK

LEMMA RecordArtifactStep == ASSUME B!BundlesAssumption, BundlesInv, B!RecordArtifact PROVE BundlesInv'
<1> DEFINE a == origin.artifacts[Len(artifacts) + 1]
           x == [mime |-> a[1], sha |-> a[2]]
<1>1. /\ Len(artifacts) < Len(origin.artifacts) /\ artifacts' = Append(artifacts, x)
      /\ UNCHANGED <<origin, log, creds, rotations, reading, bundles, row, stored, blobRows, imp>>
  BY DEF B!RecordArtifact, B!target
<1>2. artifacts \in Seq(B!Artifacts) /\ Len(artifacts) \in Nat
  BY DEF BundlesInv, B!TypeOK
<1>3. a \in {"text", "binary"} \X B!Texts
  <2>1. origin.artifacts \in Seq({"text", "binary"} \X B!Texts)
    BY DEF BundlesInv, B!TypeOK, B!BundlesAssumption
  <2> QED BY <1>1, <1>2, <2>1
<1>4. x \in B!Artifacts
  BY <1>3 DEF B!Artifacts
<1> HIDE DEF x
<1>5. artifacts' \in Seq(B!Artifacts)
  BY <1>1, <1>2, <1>4
<1>6. B!TypeOK'
  BY <1>1, <1>5 DEF BundlesInv, B!TypeOK, B!Imports
<1>7. Along'
  BY <1>1 DEF BundlesInv, Along, Numbered
<1>8. B!BundleStandsAlone'
  BY <1>1 DEF BundlesInv, B!BundleSound, B!BundleStandsAlone
<1> QED BY <1>1, <1>6, <1>7, <1>8, StillFits, Typed

LEMMA RotateStep ==
  ASSUME B!BundlesAssumption, BundlesInv, NEW s \in Secrets, B!Rotate(s) PROVE BundlesInv'
<1>1. /\ rotations < MaxRotations /\ rotations' = rotations + 1
      /\ creds' = IF s \in creds THEN creds \ {s} ELSE creds \union {s}
      /\ UNCHANGED <<origin, log, artifacts, reading, bundles, row, stored, blobRows, imp>>
  BY DEF B!Rotate, B!target
<1>2. creds' \subseteq Secrets /\ rotations' \in 0 .. MaxRotations
  BY <1>1 DEF BundlesInv, B!TypeOK, B!BundlesAssumption
<1>3. B!TypeOK'
  BY <1>1, <1>2 DEF BundlesInv, B!TypeOK, B!Imports
<1>4. Along'
  BY <1>1 DEF BundlesInv, Along, Numbered
<1>5. B!BundleStandsAlone'
  BY <1>1 DEF BundlesInv, B!BundleSound, B!BundleStandsAlone
<1> QED BY <1>1, <1>3, <1>4, <1>5, StillFits, Typed

LEMMA ReadLogStep == ASSUME B!BundlesAssumption, BundlesInv, B!ReadLog PROVE BundlesInv'
<1>1. /\ reading' = B!Retained(B!ToSet(log)) /\ Len(bundles) < MaxExports
      /\ UNCHANGED <<origin, log, artifacts, creds, rotations, bundles, row, stored, blobRows, imp>>
  BY DEF B!ReadLog, B!target, B!source
<1>2. DOMAIN log = 1 .. Len(log)
  BY DEF BundlesInv, B!TypeOK
<1>3. \A e \in reading' : \E k \in 1 .. Len(log) : e = log[k]
  BY <1>1, <1>2 DEF B!Retained, B!ToSet
<1>4. reading' \subseteq B!Events /\ Numbered(reading')
  BY <1>3, Typed DEF BundlesInv, Along, Numbered
<1>5. B!TypeOK'
  BY <1>1, <1>4 DEF BundlesInv, B!TypeOK, B!Imports
<1>6. Along'
  BY <1>1, <1>4 DEF BundlesInv, Along, Numbered
<1>7. B!BundleStandsAlone'
  BY <1>1 DEF BundlesInv, B!BundleSound, B!BundleStandsAlone
<1> QED BY <1>1, <1>5, <1>6, <1>7, StillFits, Typed

----------------------------------------------------------------------------
(* Bundles: the export.                                                    *)

LEMMA Scrubbed ==
  ASSUME B!BundlesAssumption, BundlesInv, NEW t \in B!Texts
  PROVE  B!ScrubText(t) \in B!Texts /\ B!ScrubText(t) \notin creds
<1>1. creds \subseteq Secrets /\ B!Redacted \notin creds /\ B!Redacted \in B!Texts
  BY DEF BundlesInv, B!TypeOK, B!BundlesAssumption, B!Texts
<1> QED BY <1>1 DEF B!ScrubText, B!ExportRegistry

\* A blob that still holds a credential is one a binary artifact named first, and
\* the scan finds it there.
LEMMA Readdressed ==
  ASSUME B!BundlesAssumption, BundlesInv, NEW t \in B!Texts
  PROVE  B!Recas(t) \in B!Texts /\ (B!Recas(t) \in creds => B!LiveLiteralHit)
<1>1. B!Recas(t) \in B!Texts
  BY Scrubbed DEF B!Recas
<1>2. ASSUME B!Recas(t) \in creds PROVE B!LiveLiteralHit
  <2>1. PICK k \in DOMAIN artifacts : artifacts[k] = [mime |-> "binary", sha |-> t] /\ B!Recas(t) = t
    BY <1>2, Scrubbed DEF B!Recas
  <2>2. artifacts[k].mime = "binary" /\ artifacts[k].sha = t
    BY <2>1
  <2> QED BY <1>2, <2>2 DEF B!LiveLiteralHit, B!ExportRegistry
<1> QED BY <1>1, <1>2

LEMMA ExportedIs ==
  ASSUME B!BundlesAssumption, BundlesInv, NEW e \in B!Events
  PROVE  /\ B!Exported(e) \in B!Events /\ B!Exported(e).seq = e.seq /\ B!Exported(e).type = e.type
         /\ e.type = "output" => B!Exported(e).text = B!Recas(e.text)
         /\ e.type # "output" => B!Exported(e).text \notin creds
<1>1. e.text \in B!Texts /\ B!Recas(e.text) \in B!Texts
  BY Readdressed DEF B!Events
<1>2. B!ScrubText(e.text) \in B!Texts /\ B!ScrubText(e.text) \notin creds
  BY <1>1, Scrubbed
<1>3. CASE e.type = "output"
  <2>1. B!Exported(e) = [e EXCEPT !.text = B!Recas(e.text)]
    BY <1>3 DEF B!Exported
  <2> QED BY <1>1, <1>3, <2>1 DEF B!Events
<1>4. CASE e.type # "output"
  <2>1. B!Exported(e) = [e EXCEPT !.text = B!ScrubText(e.text)]
    BY <1>4 DEF B!Exported
  <2> QED BY <1>2, <1>4, <2>1 DEF B!Events
<1> QED BY <1>3, <1>4

\* BundleStandsAlone, of one bundle.
StandsAlone(b) ==
    /\ {a.sha : a \in b.artifacts} \union {e.text : e \in {x \in b.events : x.type = "output"}} \subseteq b.blobs
    /\ \A e \in b.events : e.type = "intent" => e.text \notin b.creds
    /\ b.blobs \intersect b.creds # {} => b.hit

LEMMA BundleIs ==
  ASSUME B!BundlesAssumption, BundlesInv, reading # None
  PROVE  /\ B!Bundle(reading) \in B!BundleSet /\ StandsAlone(B!Bundle(reading))
         /\ Numbered(B!Bundle(reading).events)
<1> DEFINE evs == {B!Exported(e) : e \in reading}
           arts == {[artifacts[k] EXCEPT !.sha = B!Recas(@)] : k \in DOMAIN artifacts}
           blobs == B!Blobs(reading)
           b == B!Bundle(reading)
<1>1. b = [events |-> evs, artifacts |-> arts, blobs |-> blobs, hit |-> B!LiveLiteralHit, creds |-> creds]
  BY DEF B!Bundle
<1>2. reading \in SUBSET B!Events /\ Numbered(reading)
  BY Typed DEF BundlesInv, Along
<1>3. \A k \in DOMAIN artifacts : artifacts[k] \in B!Artifacts
  BY DEF BundlesInv, B!TypeOK
<1>4. \A k \in DOMAIN artifacts : artifacts[k].sha \in B!Texts /\ artifacts[k].mime \in {"text", "binary"}
  BY <1>3 DEF B!Artifacts
<1>5. evs \in SUBSET B!Events /\ Numbered(evs)
  BY <1>2, ExportedIs DEF Numbered
<1>6. \A k \in DOMAIN artifacts :
        /\ [artifacts[k] EXCEPT !.sha = B!Recas(@)] \in B!Artifacts
        /\ [artifacts[k] EXCEPT !.sha = B!Recas(@)].sha = B!Recas(artifacts[k].sha)
  BY <1>3, <1>4, Readdressed DEF B!Artifacts
<1>7. \A x \in blobs : \E t \in B!Texts : x = B!Recas(t)
  BY <1>2, <1>4 DEF B!Blobs, B!Events
<1>8. blobs \in SUBSET B!Texts /\ (blobs \intersect creds # {} => B!LiveLiteralHit)
  BY <1>7, Readdressed
<1>9. \A e \in evs : e.type = "output" => e.text \in blobs
  <2> SUFFICES ASSUME NEW e \in reading, B!Exported(e).type = "output" PROVE B!Exported(e).text \in blobs
    OBVIOUS
  <2>1. e.type = "output" /\ B!Exported(e).text = B!Recas(e.text)
    BY <1>2, ExportedIs
  <2> QED BY <2>1 DEF B!Blobs
<1>10. \A a \in arts : a.sha \in blobs
  BY <1>6 DEF B!Blobs
<1>11. \A e \in evs : e.type = "intent" => e.text \notin creds
  BY <1>2, ExportedIs
<1>12. B!LiveLiteralHit \in BOOLEAN /\ creds \in SUBSET Secrets
  BY DEF B!LiveLiteralHit, BundlesInv, B!TypeOK
<1>13. arts \in SUBSET B!Artifacts
  BY <1>6
<1> HIDE DEF evs, arts, blobs
<1>14. b \in B!BundleSet
  BY <1>1, <1>5, <1>8, <1>12, <1>13 DEF B!BundleSet
<1>15. StandsAlone(b)
  BY <1>1, <1>8, <1>9, <1>10, <1>11 DEF StandsAlone
<1> QED BY <1>1, <1>5, <1>14, <1>15

LEMMA StandEach ==
    /\ B!BundleStandsAlone <=> \A n \in DOMAIN bundles : StandsAlone(bundles[n])
    /\ B!BundleStandsAlone' <=> \A n \in DOMAIN bundles' : StandsAlone(bundles'[n])
BY DEF B!BundleStandsAlone, StandsAlone

LEMMA ExportStep == ASSUME B!BundlesAssumption, BundlesInv, B!ExportRunBundle PROVE BundlesInv'
<1>1. /\ reading # None /\ bundles' = Append(bundles, B!Bundle(reading)) /\ reading' = None
      /\ UNCHANGED <<origin, log, artifacts, creds, rotations, row, stored, blobRows, imp>>
  BY DEF B!ExportRunBundle, B!target, B!source
<1>2. bundles \in Seq(B!BundleSet)
  BY DEF BundlesInv, B!TypeOK
<1>3. /\ bundles' \in Seq(B!BundleSet) /\ Len(bundles) \in Nat /\ Len(bundles') = Len(bundles) + 1
      /\ DOMAIN bundles = 1 .. Len(bundles) /\ DOMAIN bundles' = 1 .. Len(bundles) + 1
      /\ \A n \in 1 .. Len(bundles) : bundles'[n] = bundles[n]
      /\ bundles'[Len(bundles) + 1] = B!Bundle(reading)
  BY <1>1, <1>2, BundleIs, AppendIs
<1>4. B!TypeOK'
  <2>1. Len(bundles') <= MaxExports
    BY <1>1, <1>3 DEF BundlesInv, Along, B!BundlesAssumption
  <2>2. B!Imports \subseteq B!Imports'
    BY <1>3 DEF B!Imports, B!Plans, B!Rows
  <2>3. imp' \in [Importers -> B!Imports' \union {None}]
    BY <1>1, <2>2 DEF BundlesInv, B!TypeOK
  <2> QED BY <1>1, <1>3, <2>1, <2>3 DEF BundlesInv, B!TypeOK
<1>5. Along'
  <2>1. \A n \in 1 .. Len(bundles') : Numbered(bundles'[n].events)
    BY <1>1, <1>3, BundleIs DEF BundlesInv, Along
  <2> QED BY <1>1, <2>1 DEF BundlesInv, Along, Numbered
<1>6. B!BundleStandsAlone'
  <2>1. \A n \in DOMAIN bundles' : StandsAlone(bundles'[n])
    BY <1>1, <1>3, BundleIs, StandEach DEF BundlesInv, B!BundleSound
  <2> QED BY <2>1, StandEach
<1> QED BY <1>1, <1>3, <1>4, <1>5, <1>6, StillFits

----------------------------------------------------------------------------
(* Bundles: the import.                                                    *)

\* A step of one importer that writes nothing.
LEMMA ImporterFits ==
  ASSUME BundlesInv, NEW i \in Importers, NEW x \in B!Imports, imp' = [imp EXCEPT ![i] = x],
         UNCHANGED <<origin, log, artifacts, creds, rotations, reading, bundles, row, stored, blobRows>>,
         Import(i)',
         x.pc = "refused" => ~row.imported \/ ~B!Prefix(bundles[x.bundle].events) \/ x.tries = RaceAttempts
  PROVE  BundlesInv'
<1>1. imp'[i] = x /\ \A j \in Importers : j # i => imp'[j] = imp[j]
  BY DEF BundlesInv, B!TypeOK
<1>2. B!TypeOK'
  BY DEF BundlesInv, B!TypeOK, B!Imports
<1>3. Along'
  BY DEF BundlesInv, Along, Numbered
<1>4. B!BundleStandsAlone' /\ B!ImportedIsReplay'
  BY DEF BundlesInv, B!BundleSound, B!BundleStandsAlone, B!ImportedIsReplay, B!Replay, B!Fact, B!Max
<1>5. B!RefusedForCause'
  BY <1>1 DEF BundlesInv, B!BundleSound, B!RefusedForCause, B!Prefix
<1>6. \A j \in Importers : Import(j)'
  <2> SUFFICES ASSUME NEW j \in Importers, j # i PROVE Import(j)'
    OBVIOUS
  <2> QED BY <1>1 DEF BundlesInv, Import, Planned, B!Prefix
<1> QED BY <1>2, <1>3, <1>4, <1>5, <1>6 DEF BundlesInv, B!BundleSound

LEMMA VerifyStep ==
  ASSUME B!BundlesAssumption, BundlesInv, NEW i \in Importers, NEW n \in DOMAIN bundles, B!Verify(i, n)
  PROVE  BundlesInv'
<1> DEFINE x == [pc |-> "classify", bundle |-> n, tries |-> 0, plan |-> None]
<1>1. /\ imp' = [imp EXCEPT ![i] = x]
      /\ UNCHANGED <<origin, log, artifacts, creds, rotations, reading, bundles, row, stored, blobRows>>
  BY DEF B!Verify, B!target, B!source
<1>2. x \in B!Imports
  BY DEF B!Imports
<1>3. imp'[i] = x
  BY <1>1 DEF BundlesInv, B!TypeOK
<1>4. Import(i)'
  BY <1>3 DEF Import, B!BundlesAssumption
<1> QED BY <1>1, <1>2, <1>4, ImporterFits

LEMMA ImportTyped ==
  ASSUME BundlesInv, NEW i \in Importers, imp[i] # None
  PROVE  /\ imp[i] \in B!Imports /\ imp[i].bundle \in 1 .. Len(bundles) /\ imp[i].tries \in Nat
         /\ bundles[imp[i].bundle] \in B!BundleSet
         /\ bundles[imp[i].bundle].events \in SUBSET B!Events /\ Numbered(bundles[imp[i].bundle].events)
<1>1. imp[i] \in B!Imports
  BY DEF BundlesInv, B!TypeOK
<1> QED BY <1>1, Typed DEF B!Imports, BundlesInv, Along

LEMMA ClassifyStep ==
  ASSUME B!BundlesAssumption, BundlesInv, NEW i \in Importers, B!ClassifyExistingRun(i) PROVE BundlesInv'
<1> DEFINE events == bundles[imp[i].bundle].events
           mode == IF row = None THEN "new" ELSE IF events = stored THEN "identical" ELSE "extend"
           plan == [mode |-> mode, fence |-> row]
           refuse == row # None /\ (~row.imported \/ ~B!Prefix(events))
           no == [imp[i] EXCEPT !.pc = "refused"]
           yes == [imp[i] EXCEPT !.pc = "write", !.plan = plan]
<1>1. /\ imp[i] # None /\ imp[i].pc = "classify"
      /\ imp' = [imp EXCEPT ![i] = IF refuse THEN no ELSE yes]
      /\ UNCHANGED <<origin, log, artifacts, creds, rotations, reading, bundles, row, stored, blobRows>>
  BY Zenon DEF B!ClassifyExistingRun, B!Refuse, B!target, B!source
<1>2. imp[i] \in B!Imports /\ Import(i) /\ row \in B!Rows \union {None}
  BY <1>1, ImportTyped DEF BundlesInv, B!TypeOK
<1>3. plan \in B!Plans
  BY <1>2 DEF B!Plans
<1>4. CASE refuse
  <2>1. no \in B!Imports /\ no.pc = "refused" /\ no.bundle = imp[i].bundle
    BY <1>2 DEF B!Imports
  <2>2. imp' = [imp EXCEPT ![i] = no] /\ imp'[i] = no
    BY <1>1, <1>4 DEF BundlesInv, B!TypeOK
  <2>3. Import(i)'
    BY <1>1, <1>4, <2>1, <2>2 DEF Import
  <2> QED BY <1>1, <1>4, <2>1, <2>2, <2>3, ImporterFits
<1>5. CASE ~refuse
  <2>1. /\ yes \in B!Imports /\ yes.pc = "write" /\ yes.bundle = imp[i].bundle
        /\ yes.plan = plan /\ yes.tries = imp[i].tries
    BY <1>2, <1>3 DEF B!Imports
  <2>2. imp' = [imp EXCEPT ![i] = yes] /\ imp'[i] = yes
    BY <1>1, <1>5 DEF BundlesInv, B!TypeOK
  <2>3. plan # None
    BY <1>3 DEF B!BundlesAssumption
  <2>4. /\ plan.fence = row /\ (row = None => plan.mode = "new")
        /\ row # None => row.imported /\ row.next <= row.next /\ B!Prefix(events)
                         /\ (plan.mode = "identical" => events = stored)
    BY <1>2, <1>5 DEF B!Rows
  <2>5. imp'[i].plan = plan /\ imp'[i].bundle = imp[i].bundle
    BY <2>1, <2>2
  <2> HIDE DEF plan, yes
  <2>7. bundles'[imp'[i].bundle].events = events /\ (B!Prefix(bundles[imp[i].bundle].events)' <=> B!Prefix(events))
    BY <1>1, <2>5 DEF B!Prefix
  <2>8. Planned(i)'
    BY <1>1, <2>3, <2>4, <2>5, <2>7 DEF Planned
  <2>9. Import(i)'
    BY <1>1, <1>2, <2>1, <2>2, <2>8 DEF Import
  <2> QED BY <1>1, <2>1, <2>2, <2>9, ImporterFits
<1> QED BY <1>4, <1>5

LEMMA RaceStep ==
  ASSUME B!BundlesAssumption, BundlesInv, NEW i \in Importers, B!Race(i) PROVE BundlesInv'
<1> DEFINE last == imp[i].tries + 1 >= RaceAttempts
           x == [imp[i] EXCEPT !.tries = @ + 1, !.pc = IF last THEN "refused" ELSE "classify"]
<1>1. /\ imp[i] # None /\ imp[i].pc = "write" /\ ~B!AssertImportFence(imp[i].plan)
      /\ imp' = [imp EXCEPT ![i] = x]
      /\ UNCHANGED <<origin, log, artifacts, creds, rotations, reading, bundles, row, stored, blobRows>>
  BY Zenon DEF B!Race, B!target, B!source
<1>2. imp[i] \in B!Imports /\ imp[i].tries \in Nat /\ imp[i].tries < RaceAttempts /\ Planned(i)
  BY <1>1, ImportTyped DEF BundlesInv, Import
<1>3. /\ x \in B!Imports /\ x.tries = imp[i].tries + 1
      /\ x.pc = IF last THEN "refused" ELSE "classify"
  <2> DEFINE p == IF last THEN "refused" ELSE "classify"
  <2>1. p \in {"refused", "classify"} /\ imp[i].tries + 1 \in Nat
    BY <1>2
  <2>2. x = [imp[i] EXCEPT !.tries = imp[i].tries + 1, !.pc = p]
    BY <1>2
  <2> HIDE DEF x, p
  <2>3. x \in B!Imports /\ x.tries = imp[i].tries + 1 /\ x.pc = p
    BY <1>2, <2>1, <2>2 DEF B!Imports
  <2> QED BY <2>3 DEF p
<1>4. RaceAttempts \in Nat
  BY DEF B!BundlesAssumption
<1>5. last => x.tries = RaceAttempts
  BY <1>2, <1>3, <1>4
<1>6. row # None
  BY <1>1, <1>2 DEF Planned, B!AssertImportFence
<1> HIDE DEF x
<1>7. imp'[i] = x
  BY <1>1 DEF BundlesInv, B!TypeOK
<1>8. Import(i)'
  BY <1>1, <1>2, <1>3, <1>4, <1>6, <1>7 DEF Import
<1> QED BY <1>1, <1>3, <1>5, <1>8, ImporterFits

\* What a write leaves is the bundle's log and its replay, and carries on what was
\* there.
LEMMA Written ==
  ASSUME B!BundlesAssumption, BundlesInv, NEW i \in Importers, B!WriteAll(i),
         NEW events, events = bundles[imp[i].bundle].events
  PROVE  /\ imp[i] # None /\ events \in SUBSET B!Events /\ Numbered(events) /\ B!Prefix(events)
         /\ stored' = events /\ row' \in B!Rows /\ row'.imported
         /\ B!Replay(events) = [version |-> row'.version, next |-> row'.next]
         /\ row # None => row.imported /\ row.next <= row'.next /\ (row.next = row'.next => events = stored)
<1> DEFINE plan == imp[i].plan
<1>1. /\ imp[i] # None /\ imp[i].pc = "write" /\ B!AssertImportFence(plan)
      /\ row' = IF plan.mode = "identical" THEN row
                ELSE [imported |-> TRUE, version |-> B!Replay(events).version, next |-> B!Replay(events).next]
      /\ stored' = stored \union {e \in events : \A s \in stored : s.seq # e.seq}
  BY DEF B!WriteAll
<1>2. /\ imp[i] \in B!Imports /\ events \in SUBSET B!Events /\ Numbered(events)
      /\ stored \in SUBSET B!Events /\ Numbered(stored) /\ Len(log) \in Nat
  BY <1>1, ImportTyped, Typed DEF BundlesInv, Along
<1>3. Planned(i) /\ plan \in B!Plans /\ plan.mode \in {"new", "identical", "extend"}
  <2>1. Planned(i)
    BY <1>1 DEF BundlesInv, Import
  <2>2. plan \in B!Plans
    BY <1>2, <2>1 DEF Planned, B!Imports
  <2> QED BY <2>1, <2>2 DEF B!Plans
<1>4. \/ row = None /\ plan.mode = "new"
      \/ row # None /\ row.imported /\ plan.mode # "new" /\ (plan.mode = "identical" => events = stored)
         /\ B!Prefix(events)
  <2>1. CASE plan.mode = "new"
    BY <1>1, <2>1 DEF B!AssertImportFence
  <2>2. CASE plan.mode # "new"
    <3>1. row # None /\ row.imported /\ row.next = plan.fence.next
      BY <1>1, <2>2 DEF B!AssertImportFence
    <3> QED BY <1>3, <2>2, <3>1 DEF Planned
  <2> QED BY <2>1, <2>2
<1>5. B!Prefix(events)
  <2>1. row = None => stored = {}
    BY DEF BundlesInv
  <2> QED BY <1>4, <2>1 DEF B!Prefix
<1>6. stored' = events
  <2>1. stored \subseteq events /\ \A e \in events \ stored : \A s \in stored : s.seq < e.seq
    BY <1>5 DEF B!Prefix
  <2>2. \A e \in events \ stored : \A s \in stored : s.seq # e.seq
    BY <1>2, <2>1 DEF B!Events
  <2> QED BY <1>1, <2>1, <2>2
<1>7. \A e \in events : e.seq < Len(log)
  BY <1>2 DEF Numbered
<1>8. \A e \in stored : e.seq < Len(log)
  BY <1>2 DEF Numbered
<1>9. row # None => B!Replay(stored) = [version |-> row.version, next |-> row.next]
  BY DEF BundlesInv, B!BundleSound, B!ImportedIsReplay
<1>10. /\ NextOf(events) \in Nat /\ B!Replay(events).version \in Nat
       /\ B!Replay(events) = [version |-> B!Replay(events).version, next |-> NextOf(events)]
  BY <1>2, <1>7, ReplayIs
<1>11. row' \in B!Rows /\ row'.imported /\ B!Replay(events) = [version |-> row'.version, next |-> row'.next]
  <2>1. CASE plan.mode = "identical"
    <3>1. row # None /\ row' = row /\ events = stored /\ row.imported
      BY <1>1, <1>4, <2>1
    <3>2. row \in B!Rows
      BY <3>1 DEF BundlesInv, B!TypeOK
    <3> QED BY <1>9, <3>1, <3>2
  <2>2. CASE plan.mode # "identical"
    <3>1. row' = [imported |-> TRUE, version |-> B!Replay(events).version, next |-> NextOf(events)]
      BY <1>1, <2>2 DEF NextOf
    <3> QED BY <1>10, <3>1 DEF B!Rows
  <2> QED BY <2>1, <2>2
<1>12. ASSUME row # None PROVE row.imported /\ row.next <= row'.next /\ (row.next = row'.next => events = stored)
  <2>1. row.imported /\ row.next = NextOf(stored) /\ row'.next = NextOf(events)
    BY <1>4, <1>9, <1>11, <1>12 DEF NextOf
  <2>2. CASE events = stored
    BY <1>10, <2>1, <2>2
  <2>3. CASE events # stored
    <3>1. stored \subseteq events /\ \A e \in events \ stored : \A s \in stored : s.seq < e.seq
      BY <1>5 DEF B!Prefix
    <3>2. PICK e \in events \ stored : TRUE
      BY <2>3, <3>1
    <3>3. NextOf(stored) < NextOf(events)
      BY <1>2, <1>7, <3>1, <3>2, CarriesOn
    <3>4. NextOf(stored) \in Nat
      BY <1>2, <1>8, ReplayIs
    <3> QED BY <1>10, <2>1, <3>3, <3>4
  <2> QED BY <2>2, <2>3
<1> QED BY <1>1, <1>2, <1>5, <1>6, <1>11, <1>12

LEMMA WriteAllStep ==
  ASSUME B!BundlesAssumption, BundlesInv, NEW i \in Importers, B!WriteAll(i) PROVE BundlesInv'
<1> DEFINE b == bundles[imp[i].bundle]
           events == b.events
<1>1. /\ blobRows' = blobRows \union b.blobs /\ imp' = [imp EXCEPT ![i] = None]
      /\ UNCHANGED <<origin, log, artifacts, creds, rotations, reading, bundles>>
  BY DEF B!WriteAll, B!source
<1>2. /\ imp[i] # None /\ events \in SUBSET B!Events /\ Numbered(events) /\ B!Prefix(events)
      /\ stored' = events /\ row' \in B!Rows /\ row'.imported
      /\ B!Replay(events) = [version |-> row'.version, next |-> row'.next]
      /\ row # None => row.imported /\ row.next <= row'.next /\ (row.next = row'.next => events = stored)
  BY Written
<1>3. /\ imp[i].bundle \in 1 .. Len(bundles) /\ DOMAIN bundles = 1 .. Len(bundles) /\ b \in B!BundleSet
      /\ b.blobs \in SUBSET B!Texts
  BY <1>2, ImportTyped, Typed DEF B!BundleSet
<1>4. StandsAlone(b)
  BY <1>3, StandEach DEF BundlesInv, B!BundleSound
<1> HIDE DEF b
<1>5. imp'[i] = None /\ \A j \in Importers : j # i => imp'[j] = imp[j]
  BY <1>1 DEF BundlesInv, B!TypeOK
<1>6. row' # None
  BY <1>2 DEF B!BundlesAssumption
<1>7. B!TypeOK'
  <2>1. imp' \in [Importers -> B!Imports \union {None}]
    BY <1>1 DEF BundlesInv, B!TypeOK
  <2>2. B!Imports' = B!Imports
    BY <1>1 DEF B!Imports, B!Plans, B!Rows
  <2> QED BY <1>1, <1>2, <1>3, <2>1, <2>2 DEF BundlesInv, B!TypeOK
<1>8. Along'
  BY <1>1, <1>2 DEF BundlesInv, Along, Numbered
<1>9. B!BundleStandsAlone'
  BY <1>1 DEF BundlesInv, B!BundleSound, B!BundleStandsAlone
<1>10. B!ImportedIsReplay'
  <2>1. {e.text : e \in {x \in events : x.type = "output"}} \subseteq blobRows'
    BY <1>1, <1>4 DEF StandsAlone
  <2>2. \E n \in DOMAIN bundles' : stored' = bundles'[n].events
    BY <1>1, <1>2, <1>3 DEF b
  <2>3. B!Replay(stored)' = [version |-> row'.version, next |-> row'.next]
    <3>1. B!Replay(stored)' = B!Replay(events)
      BY <1>2 DEF B!Replay, B!Fact, B!Max
    <3> QED BY <1>2, <3>1
  <2>4. {e.text : e \in {x \in stored' : x.type = "output"}} \subseteq blobRows'
    BY <1>2, <2>1
  <2> QED BY <1>2, <2>2, <2>3, <2>4 DEF B!ImportedIsReplay
<1>11. ASSUME NEW j \in Importers, imp'[j] # None
       PROVE  Import(j)' /\ (imp'[j].pc = "refused" =>
                ~row'.imported \/ ~B!Prefix(bundles[imp[j].bundle].events)' \/ imp'[j].tries = RaceAttempts)
  <2>1. j # i /\ imp'[j] = imp[j] /\ Import(j) /\ imp[j] # None
    BY <1>5, <1>11 DEF BundlesInv
  <2> DEFINE other == bundles[imp[j].bundle].events
  <2>2. stored \subseteq events /\ \A e \in events \ stored : \A s \in stored : s.seq < e.seq
    BY <1>2 DEF B!Prefix
  <2>3. other \in SUBSET B!Events
    BY <2>1, ImportTyped
  <2>4. ~B!Prefix(other) => ~B!Prefix(other)'
    BY <1>1, <1>2, <2>1, <2>2, <2>3 DEF B!Prefix
  <2>5. imp[j].pc = "refused" => ~B!Prefix(other) \/ imp[j].tries = RaceAttempts
    BY <1>2, <2>1 DEF BundlesInv, Import, B!BundleSound, B!RefusedForCause
  <2>6. imp[j].pc = "write" => Planned(j)'
    <3> SUFFICES ASSUME imp[j].pc = "write" PROVE Planned(j)'
      OBVIOUS
    <3>1. Planned(j) /\ imp[j].plan \in B!Plans /\ imp[j].plan # None
      <4>1. Planned(j) /\ imp[j] \in B!Imports
        BY <2>1, ImportTyped DEF Import
      <4> QED BY <4>1 DEF Planned, B!Imports
    <3>2. CASE imp[j].plan.mode = "new"
      BY <2>1, <3>1, <3>2 DEF Planned
    <3>3. CASE imp[j].plan.mode # "new"
      <4> DEFINE fence == imp[j].plan.fence
      <4>1. /\ row # None /\ row.imported /\ fence # None /\ fence.next <= row.next
            /\ fence.next = row.next => B!Prefix(other) /\ (imp[j].plan.mode = "identical" => other = stored)
        BY <3>1, <3>3 DEF Planned
      <4>2. fence.next \in Nat /\ row.next \in Nat /\ row'.next \in Nat
        BY <1>2, <3>1, <4>1 DEF BundlesInv, B!TypeOK, B!Plans, B!Rows
      <4>3. fence.next <= row'.next /\ (fence.next = row'.next => fence.next = row.next /\ stored' = stored)
        BY <1>2, <4>1, <4>2
      <4>4. stored' = stored => (B!Prefix(other)' <=> B!Prefix(other))
        BY <1>1, <2>1 DEF B!Prefix
      <4> QED BY <1>1, <1>2, <1>6, <2>1, <3>1, <4>1, <4>3, <4>4 DEF Planned
    <3> QED BY <3>2, <3>3
  <2> QED BY <1>6, <2>1, <2>4, <2>5, <2>6 DEF Import
<1>12. B!RefusedForCause'
  BY <1>1, <1>5, <1>11 DEF B!RefusedForCause
<1>13. \A j \in Importers : Import(j)'
  BY <1>11 DEF Import
<1> QED BY <1>6, <1>7, <1>8, <1>9, <1>10, <1>12, <1>13 DEF BundlesInv, B!BundleSound

LEMMA BundlesStep == ASSUME B!BundlesAssumption, BundlesInv, [B!Next]_(B!vars) PROVE BundlesInv'
<1>1. CASE B!Emit
  BY <1>1, EmitStep
<1>2. CASE B!RecordArtifact
  BY <1>2, RecordArtifactStep
<1>3. CASE \E s \in Secrets : B!Rotate(s)
  BY <1>3, RotateStep
<1>4. CASE B!ReadLog
  BY <1>4, ReadLogStep
<1>5. CASE B!ExportRunBundle
  BY <1>5, ExportStep
<1>6. ASSUME NEW i \in Importers, NEW n \in DOMAIN bundles, B!Verify(i, n) PROVE BundlesInv'
  BY <1>6, VerifyStep
<1>7. ASSUME NEW i \in Importers, B!ClassifyExistingRun(i) \/ B!WriteAll(i) \/ B!Race(i) PROVE BundlesInv'
  BY <1>7, ClassifyStep, WriteAllStep, RaceStep
<1>8. CASE UNCHANGED B!vars
  <2>1. UNCHANGED <<origin, log, artifacts, creds, rotations, reading, bundles, row, stored, blobRows, imp>>
    BY <1>8 DEF B!vars, B!source, B!target
  <2>2. B!TypeOK'
    BY <2>1 DEF BundlesInv, B!TypeOK, B!Imports
  <2>3. Along'
    BY <2>1 DEF BundlesInv, Along, Numbered
  <2>4. B!BundleStandsAlone'
    BY <2>1 DEF BundlesInv, B!BundleSound, B!BundleStandsAlone
  <2> QED BY <2>1, <2>2, <2>3, <2>4, StillFits, Typed
<1> QED BY <1>1, <1>2, <1>3, <1>4, <1>5, <1>6, <1>7, <1>8 DEF B!Next

LEMMA BundlesInvariant == ASSUME B!BundlesAssumption PROVE B!Spec => []BundlesInv
<1>1. B!Init => BundlesInv
  BY InitBundles
<1>2. BundlesInv /\ [B!Next]_(B!vars) => BundlesInv'
  BY BundlesStep
<1> QED BY <1>1, <1>2, PTL DEF B!Spec

\* Every event, artifact, bundle, row and import under way keeps its type.
THEOREM BundlesTypeCorrect == ASSUME B!BundlesAssumption PROVE B!Spec => []B!TypeOK
<1>1. BundlesInv => B!TypeOK
  BY DEF BundlesInv
<1> QED BY <1>1, BundlesInvariant, PTL

\* Whatever a run writes, whenever credentials change and however imports come in
\* between each other's classification and write: a bundle holds every blob it
\* names and no credential of its moment that the scan does not report, an
\* imported run is the log of one bundle and its replay, and an import is refused
\* only when it does not carry the stored log on or has lost every race.
THEOREM BundleSoundHolds == ASSUME B!BundlesAssumption PROVE B!Spec => []B!BundleSound
<1>1. BundlesInv => B!BundleSound
  BY DEF BundlesInv
<1> QED BY <1>1, BundlesInvariant, PTL

----------------------------------------------------------------------------
(* The unattended command.                                                 *)

CONSTANTS Batch, MaxLog
VARIABLES db, export, dest, held, given, others, status, told, driver, signal, tail, overran, phase, code

I == INSTANCE Ci WITH creds <- held, log <- told

----------------------------------------------------------------------------
(* fragua ci: the inductive invariant.                                     *)

Driving == driver \in {"loop", "turn"}

\* Where the command, its driver and the tailer stand together.
Abreast ==
    /\ phase = "seed" => (IF db = "existing" THEN held = {"own"} ELSE held = {})
    /\ phase \in {"seed", "enqueue"} => status = None /\ told = <<>> /\ driver = "off"
    /\ phase = "drive" => driver # "off"
    /\ Driving => phase = "drive"
    /\ tail.done => driver \in {"done", "threw"}
    /\ driver \in {"turn", "threw"} => status = "running"
    /\ driver \in {"loop", "done"} => status \in I!Rests \union {"queued"}
    /\ driver = "off" => status = None

\* The last entry of a kind among the first c of the log.
Places(k, c) == {n \in 1 .. c : told[n] # None /\ told[n].kind = k}
LastReason(k, c) == IF Places(k, c) = {} THEN None ELSE told[I!Max(Places(k, c))].reason

\* The tailer has seen what is behind its cursor, and the driver left it within
\* two pages of the end, unless it overran.
Followed ==
    /\ \A k \in I!Kinds : tail.seen[k] = LastReason(k, tail.cursor)
    /\ driver \in {"done", "threw"} /\ ~overran => Len(told) - tail.cursor <= 2 * Batch
    /\ tail.done /\ ~overran => tail.cursor = Len(told)

Outcome == I!ExitCode(status, IF I!KindOf(status) = None THEN None ELSE LastReason(I!KindOf(status), Len(told)))

\* The exit code is decided before the bundle is made, which may replace it.
Decided ==
    /\ phase \in {"seed", "enqueue", "drive", "export"} => code # I!ScrubLeak
    /\ phase \in {"export", "prune", "ended", "unpruned"} /\ status # None /\ ~signal /\ driver = "done" =>
          code = Outcome \/ code = I!ScrubLeak \/ overran

\* The store holds what the run was given until the bundle is made.
Holding ==
    /\ phase \in {"enqueue", "drive", "export"} => held = given
    /\ phase \in {"seed", "enqueue", "drive", "export"} => dest \in {None, I!Stale}
    /\ db = "existing" => held = {"own"}

CiInv == I!TypeOK /\ Abreast /\ Followed /\ Decided /\ Holding /\ I!EgressIsClean

----------------------------------------------------------------------------
(* What the tailer folds.                                                  *)

LEMMA MaxOf ==
  ASSUME NEW n \in Nat, NEW T \in SUBSET (1 .. n), T # {}
  PROVE  I!Max(T) \in T /\ \A x \in T : x <= I!Max(T)
<1>1. PICK m \in T : \A x \in T : x <= m
  <2>1. T \in SUBSET Nat /\ n + 1 \in Nat /\ \A x \in T : x < n + 1
    OBVIOUS
  <2> QED BY <2>1, BoundedHasMax
<1>2. I!Max(T) = CHOOSE x \in T : \A y \in T : x >= y
  BY DEF I!Max
<1>3. m \in T /\ \A y \in T : m >= y
  BY <1>1
<1>4. I!Max(T) \in T /\ \A y \in T : I!Max(T) >= y
  BY <1>2, <1>3
<1> QED BY <1>4

\* The greatest is the only one of its kind.
LEMMA MaxUnique ==
  ASSUME NEW n \in Nat, NEW T \in SUBSET (1 .. n), NEW m \in T, \A x \in T : x <= m
  PROVE  I!Max(T) = m
<1>1. I!Max(T) \in T /\ \A x \in T : x <= I!Max(T)
  <2>1. T # {}
    OBVIOUS
  <2> QED BY <2>1, MaxOf
<1>2. I!Max(T) \in 1 .. n /\ m \in 1 .. n /\ m <= I!Max(T) /\ I!Max(T) <= m
  BY <1>1
<1> QED BY <1>2

LEMMA MinOfTwo ==
  ASSUME NEW a \in Nat, NEW b \in Nat
  PROVE  I!Min({a, b}) = IF a <= b THEN a ELSE b
BY DEF I!Min

\* Folding the entries from c to d onto what was seen up to c is what is seen up to d.
LEMMA SeenMore ==
  ASSUME told \in Seq(I!Entries), NEW c \in 0 .. Len(told), NEW d \in c .. Len(told),
         NEW seen, \A k \in I!Kinds : seen[k] = LastReason(k, c), NEW k \in I!Kinds
  PROVE  I!Seen(seen, SubSeq(told, c + 1, d))[k] = LastReason(k, d)
<1> DEFINE s == SubSeq(told, c + 1, d)
           at == {n \in DOMAIN s : s[n] # None /\ s[n].kind = k}
<1>1. /\ Len(told) \in Nat /\ c \in Nat /\ d \in Nat /\ c <= d /\ d <= Len(told) /\ d - c \in Nat
      /\ Len(s) = d - c /\ DOMAIN s = 1 .. d - c /\ \A n \in 1 .. d - c : s[n] = told[c + n]
  OBVIOUS
<1>2. I!Seen(seen, s)[k] = IF at = {} THEN seen[k] ELSE s[I!Max(at)].reason
  BY DEF I!Seen
<1>3. \A n \in 1 .. d - c : n \in at <=> c + n \in Places(k, d)
  BY <1>1 DEF Places
<1>4. \A n \in 1 .. c : n \in Places(k, c) <=> n \in Places(k, d)
  BY <1>1 DEF Places
<1>5. at \in SUBSET (1 .. d - c) /\ Places(k, d) \in SUBSET (1 .. d) /\ Places(k, c) \in SUBSET (1 .. c)
  BY <1>1 DEF Places
<1>6. s[I!Max(at)] = told[c + I!Max(at)] \/ at = {}
  <2>1. at # {} => I!Max(at) \in at
    BY <1>1, <1>5, MaxOf
  <2> QED BY <1>1, <1>5, <2>1
<1> HIDE DEF s, at
<1>7. ASSUME at = {} PROVE I!Seen(seen, s)[k] = LastReason(k, d)
  <2>1. Places(k, d) = Places(k, c)
    <3>1. ASSUME NEW n \in Places(k, d) PROVE n \in Places(k, c)
      <4>1. n \in 1 .. d
        BY <1>5
      <4>2. ~(n > c)
        <5>1. n > c => n - c \in 1 .. d - c /\ c + (n - c) = n
          BY <1>1, <4>1
        <5> QED BY <1>3, <1>7, <3>1, <5>1
      <4>3. n \in 1 .. c
        BY <1>1, <4>1, <4>2
      <4> QED BY <1>4, <3>1, <4>3
    <3>2. ASSUME NEW n \in Places(k, c) PROVE n \in Places(k, d)
      BY <1>4, <1>5, <3>2
    <3> QED BY <3>1, <3>2
  <2> QED BY <1>2, <1>7, <2>1 DEF LastReason
<1>8. ASSUME at # {} PROVE I!Seen(seen, s)[k] = LastReason(k, d)
  <2> DEFINE m == I!Max(at)
  <2>1. m \in at /\ \A n \in at : n <= m
    BY <1>1, <1>5, <1>8, MaxOf
  <2>2. m \in 1 .. d - c /\ c + m \in Places(k, d)
    BY <1>3, <1>5, <2>1
  <2> HIDE DEF m
  <2>3. ASSUME NEW n \in Places(k, d) PROVE n <= c + m
    <3>1. n \in 1 .. d
      BY <1>5
    <3>2. CASE n <= c
      BY <1>1, <2>2, <3>1, <3>2
    <3>3. CASE n > c
      <4>1. n - c \in 1 .. d - c /\ c + (n - c) = n
        BY <1>1, <3>1, <3>3
      <4>2. n - c <= m
        BY <1>3, <2>1, <2>3, <4>1
      <4> QED BY <1>1, <2>2, <3>1, <4>2
    <3> QED BY <1>1, <3>1, <3>2, <3>3
  <2>4. I!Max(Places(k, d)) = c + m
    BY <1>1, <1>5, <2>2, <2>3, MaxUnique
  <2>5. Places(k, d) # {}
    BY <2>2
  <2> QED BY <1>2, <1>6, <1>8, <2>4, <2>5 DEF LastReason, m
<1> QED BY <1>7, <1>8 DEF s

----------------------------------------------------------------------------
(* fragua ci: the steps.                                                   *)

LEMMA InitCi == ASSUME I!CiAssumption, I!Init PROVE CiInv
<1>1. told = <<>> /\ Len(told) = 0 /\ told \in Seq(I!Entries)
  BY DEF I!Init
<1>2. /\ tail = [cursor |-> 0, seen |-> [k \in I!Kinds |-> None], done |-> FALSE]
      /\ driver = "off" /\ status = None /\ phase = "seed" /\ code = I!Usage /\ dest \in {None, I!Stale}
      /\ held = IF db = "existing" THEN {"own"} ELSE {}
  BY DEF I!Init
<1>3. I!TypeOK
  <2>1. tail \in [cursor : 0 .. Len(told), seen : [I!Kinds -> I!Reasons \union {None}], done : BOOLEAN]
    BY <1>1, <1>2
  <2>2. I!Stale \in I!Exports
    BY DEF I!Stale, I!Exports
  <2>3. /\ dest \in {None} \union I!Exports /\ held \subseteq I!Credentials /\ Len(told) <= MaxLog
        /\ others \in {None, "queued", "claimed"}
    BY <1>1, <1>2, <2>2 DEF I!Init, I!CiAssumption, I!Credentials
  <2> QED BY <1>1, <1>2, <2>1, <2>3 DEF I!TypeOK, I!Init
<1>4. Abreast
  BY <1>1, <1>2 DEF Abreast, Driving
<1>5. Followed
  <2>1. \A k \in I!Kinds : Places(k, 0) = {}
    BY DEF Places
  <2> QED BY <1>1, <1>2, <2>1 DEF Followed, LastReason
<1>6. Decided
  BY <1>2 DEF Decided, I!Usage, I!ScrubLeak
<1>7. Holding
  BY <1>2 DEF Holding
<1>8. I!EgressIsClean
  BY <1>2 DEF I!EgressIsClean, I!Usage, I!ScrubLeak
<1> QED BY <1>3, <1>4, <1>5, <1>6, <1>7, <1>8 DEF CiInv

LEMMA CiTyped ==
  ASSUME CiInv
  PROVE  /\ told \in Seq(I!Entries) /\ Len(told) \in Nat /\ tail.cursor \in 0 .. Len(told)
         /\ tail.seen \in [I!Kinds -> I!Reasons \union {None}] /\ tail.done \in BOOLEAN
BY DEF CiInv, I!TypeOK

\* The log and the cursor say what was seen.
LEMMA ReasonsStay ==
  ASSUME told' = told, tail' = tail, NEW k \in I!Kinds
  PROVE  LastReason(k, tail.cursor)' = LastReason(k, tail.cursor)
<1>1. Places(k, tail.cursor)' = Places(k, tail.cursor)
  BY DEF Places
<1>2. I!Max(Places(k, tail.cursor))' = I!Max(Places(k, tail.cursor))
  BY <1>1 DEF I!Max
<1> QED BY <1>1, <1>2 DEF LastReason

LEMMA SeedingSteps ==
  ASSUME I!CiAssumption, CiInv, I!RefuseAllowEnv \/ I!Seed \/ I!RefuseUsage PROVE CiInv'
<1>1. /\ UNCHANGED <<db, export, dest, others, status, told, driver, signal, tail, overran, code>>
      /\ phase \in {"seed", "enqueue"} /\ phase' \in {"ended", "enqueue", "export"}
  BY DEF I!RefuseAllowEnv, I!Seed, I!RefuseUsage, I!setup
<1>2. /\ held' \subseteq I!Credentials /\ given' \subseteq I!Credentials
      /\ phase' \in {"enqueue", "export"} => held' = given'
      /\ db = "existing" => held' = {"own"}
      /\ phase' = "ended" => (db # "existing" => held' = {})
  <2>1. CASE I!RefuseAllowEnv
    BY <2>1 DEF I!RefuseAllowEnv, I!setup, CiInv, I!TypeOK, Abreast, Holding
  <2>2. CASE I!Seed
    BY <2>2 DEF I!Seed, CiInv, I!TypeOK, Holding, I!Credentials, I!FromGlobal, I!FromEnv
  <2>3. CASE I!RefuseUsage
    BY <2>3 DEF I!RefuseUsage, I!setup, CiInv, I!TypeOK, Holding
  <2> QED BY <2>1, <2>2, <2>3
<1>3. I!TypeOK'
  BY <1>1, <1>2 DEF CiInv, I!TypeOK, I!Entries, I!Exports
<1>4. Abreast'
  BY <1>1 DEF CiInv, Abreast, Driving
<1>5. Followed'
  BY <1>1, ReasonsStay DEF CiInv, Followed
<1>6. Decided'
  BY <1>1 DEF CiInv, Decided, Abreast
<1>7. Holding'
  BY <1>1, <1>2 DEF CiInv, Holding
<1>8. I!EgressIsClean'
  <2>1. dest \in {None, I!Stale} /\ code # I!ScrubLeak
    BY <1>1 DEF CiInv, Holding, Decided
  <2> QED BY <1>1, <1>2, <2>1 DEF I!EgressIsClean
<1> QED BY <1>3, <1>4, <1>5, <1>6, <1>7, <1>8 DEF CiInv

LEMMA EnqueueCiStep == ASSUME I!CiAssumption, CiInv, I!Enqueue PROVE CiInv'
<1>1. /\ phase = "enqueue" /\ status' = "queued" /\ told' = <<None>> /\ driver' = "loop" /\ phase' = "drive"
      /\ UNCHANGED <<db, export, given, dest, held, others, signal, tail, overran, code>>
  BY DEF I!Enqueue, I!setup
<1>2. told = <<>> /\ Len(told) = 0 /\ tail.cursor = 0
  <2>1. told = <<>>
    BY <1>1 DEF CiInv, Abreast
  <2>2. Len(told) = 0
    BY <2>1
  <2> QED BY <2>1, <2>2, CiTyped
<1>3. told' \in Seq(I!Entries) /\ Len(told') = 1
  <2>1. None \in I!Entries
    BY DEF I!Entries
  <2> QED BY <1>1, <2>1
<1>4. I!TypeOK'
  <2>1. tail' \in [cursor : 0 .. Len(told'), seen : [I!Kinds -> I!Reasons \union {None}], done : BOOLEAN]
    <3>1. tail \in [cursor : 0 .. Len(told), seen : [I!Kinds -> I!Reasons \union {None}], done : BOOLEAN]
      BY DEF CiInv, I!TypeOK
    <3> QED BY <1>1, <1>2, <1>3, <3>1
  <2> QED BY <1>1, <1>3, <2>1 DEF CiInv, I!TypeOK, I!CiAssumption, I!Exports, I!Entries
<1>5. Abreast'
  BY <1>1 DEF CiInv, Abreast, Driving
<1>6. Followed'
  <2>1. \A k \in I!Kinds : Places(k, 0) = {} /\ Places(k, 0)' = {}
    BY DEF Places
  <2>2. \A k \in I!Kinds : tail.seen[k] = LastReason(k, 0)
    BY <1>2 DEF CiInv, Followed
  <2>3. \A k \in I!Kinds : tail'.seen[k] = LastReason(k, tail.cursor)'
    BY <1>1, <1>2, <2>1, <2>2 DEF LastReason
  <2>4. ~tail'.done /\ driver' = "loop"
    BY <1>1 DEF CiInv, Abreast
  <2> QED BY <1>1, <2>3, <2>4 DEF Followed
<1>7. Decided' /\ Holding'
  BY <1>1 DEF CiInv, Decided, Holding
<1>8. I!EgressIsClean'
  BY <1>1 DEF CiInv, I!EgressIsClean
<1> QED BY <1>4, <1>5, <1>6, <1>7, <1>8 DEF CiInv

\* A step of the driver between turns, or of a signal: the log and what the
\* tailer has of it stay.
LEMMA DriverFits ==
  ASSUME I!CiAssumption, CiInv, phase = "drive", ~tail.done, ~(driver = "off"),
         UNCHANGED <<db, export, given, dest, held, told, tail, phase, code>>,
         others' \in {None, "queued", "claimed"}, signal' \in BOOLEAN, overran' \in BOOLEAN,
         driver' \in {"loop", "turn", "done", "threw"},
         status' \in {"queued", "running"} \union I!Rests,
         driver' \in {"loop", "done"} => status' \in I!Rests \union {"queued"},
         driver' \in {"turn", "threw"} => status' = "running",
         driver' \in {"done", "threw"} /\ ~overran' => Len(told) - tail.cursor <= 2 * Batch
  PROVE  CiInv'
<1>1. I!TypeOK'
  BY DEF CiInv, I!TypeOK, I!Entries, I!Exports
<1>2. Abreast'
  BY DEF CiInv, Abreast, Driving
<1>3. Followed'
  BY ReasonsStay DEF CiInv, Followed
<1>4. Decided' /\ Holding'
  BY DEF CiInv, Decided, Holding
<1>5. I!EgressIsClean'
  BY DEF CiInv, I!EgressIsClean
<1> QED BY <1>1, <1>2, <1>3, <1>4, <1>5 DEF CiInv

LEMMA DriverSteps ==
  ASSUME I!CiAssumption, CiInv, I!Drive \/ I!Throws \/ I!CutShort \/ I!Signal PROVE CiInv'
<1> USE DEF I!setup, I!result
<1>1. Driving => phase = "drive" /\ ~tail.done /\ driver # "off"
  BY DEF CiInv, Abreast, Driving
<1>2. /\ others \in {None, "queued", "claimed"} /\ signal \in BOOLEAN /\ overran \in BOOLEAN
      /\ driver \in {"off", "loop", "turn", "done", "threw"}
  BY DEF CiInv, I!TypeOK
<1>3. /\ driver = "loop" => status \in I!Rests \union {"queued"}
      /\ status = None \/ status \in {"queued", "running"} \union I!Rests
  BY DEF CiInv, I!TypeOK, Abreast
<1>4. ASSUME driver = "loop" \/ driver = "turn",
             driver' \in {"done", "threw"}, overran' = (Len(told) - tail.cursor > 2 * Batch)
      PROVE  overran' \in BOOLEAN /\ (~overran' => Len(told) - tail.cursor <= 2 * Batch)
  <2>1. /\ Len(told) - tail.cursor \in Int /\ 2 * Batch \in Int
        /\ ~(Len(told) - tail.cursor > 2 * Batch) => Len(told) - tail.cursor <= 2 * Batch
    BY CiTyped DEF I!CiAssumption
  <2> DEFINE far == Len(told) - tail.cursor > 2 * Batch
  <2>2. overran' = far /\ far \in BOOLEAN /\ (~far => Len(told) - tail.cursor <= 2 * Batch)
    BY <1>4, <2>1
  <2> HIDE DEF far
  <2> QED BY <2>2
<1>5. CASE I!Interrupted \/ I!ClaimsOther \/ I!DriverStops
  <2>1. /\ driver = "loop" /\ driver' = "done" /\ overran' = (Len(told) - tail.cursor > 2 * Batch)
        /\ UNCHANGED <<db, export, given, dest, held, status, told, tail, signal, phase, code>>
        /\ others' = others \/ others' = "claimed"
    BY <1>5 DEF I!Interrupted, I!ClaimsOther, I!DriverStops, I!DriverDone
  <2> QED BY <1>1, <1>2, <1>3, <1>4, <2>1, DriverFits DEF Driving
<1>6. CASE I!Wake \/ I!ClaimAndDispatch \/ I!CutShort
  <2>1. /\ driver \in {"loop", "turn"}
        /\ \/ driver' = "loop" /\ status' = "queued"
           \/ driver' = "turn" /\ status' = "running"
        /\ UNCHANGED <<db, export, given, dest, held, others, told, tail, signal, overran, phase, code>>
    <3>1. CASE I!Wake
      BY <3>1 DEF I!Wake
    <3>2. CASE I!ClaimAndDispatch
      BY <3>2 DEF I!ClaimAndDispatch
    <3>3. CASE I!CutShort
      BY <3>3 DEF I!CutShort
    <3> QED BY <1>6, <3>1, <3>2, <3>3
  <2> QED BY <1>1, <1>2, <1>3, <2>1, DriverFits DEF Driving
<1>7. CASE I!Throws
  <2>1. /\ driver = "turn" /\ driver' = "threw" /\ overran' = (Len(told) - tail.cursor > 2 * Batch)
        /\ UNCHANGED <<db, export, given, dest, held, others, status, told, tail, signal, phase, code>>
    BY <1>7 DEF I!Throws
  <2>2. status = "running"
    BY <2>1 DEF CiInv, Abreast
  <2> QED BY <1>1, <1>2, <1>4, <2>1, <2>2, DriverFits DEF Driving
<1>8. CASE I!Signal
  <2>1. /\ phase = "drive" /\ signal' = TRUE
        /\ UNCHANGED <<db, export, given, dest, held, others, status, told, driver, tail, overran, phase, code>>
    BY <1>8 DEF I!Signal
  <2>2. I!TypeOK'
    BY <2>1 DEF CiInv, I!TypeOK, I!Entries, I!Exports
  <2>3. Abreast' /\ Decided' /\ Holding' /\ I!EgressIsClean'
    BY <2>1 DEF CiInv, Abreast, Driving, Decided, Holding, I!EgressIsClean
  <2>4. Followed'
    BY <2>1, ReasonsStay DEF CiInv, Followed
  <2> QED BY <2>2, <2>3, <2>4 DEF CiInv
<1> QED BY <1>5, <1>6, <1>7, <1>8 DEF I!Drive

\* The log grows while a turn is on: what was seen stays seen.
LEMMA LogGrows ==
  ASSUME I!CiAssumption, CiInv, driver = "turn", Len(told) < MaxLog,
         NEW e \in I!Entries, told' = Append(told, e),
         (driver' = "turn" /\ status' = status) \/ (driver' = "loop" /\ status' \in I!Rests),
         UNCHANGED <<db, export, given, dest, held, others, signal, tail, overran, phase, code>>
  PROVE  CiInv'
<1>1. /\ told' \in Seq(I!Entries) /\ Len(told) \in Nat /\ Len(told') = Len(told) + 1
      /\ \A n \in 1 .. Len(told) : told'[n] = told[n]
  BY CiTyped
<1>2. tail.cursor \in 0 .. Len(told) /\ tail.cursor \in 0 .. Len(told')
  BY <1>1, CiTyped
<1>3. phase = "drive" /\ ~tail.done /\ status = "running"
  BY DEF CiInv, Abreast, Driving
<1>4. I!TypeOK'
  <2>1. tail' \in [cursor : 0 .. Len(told'), seen : [I!Kinds -> I!Reasons \union {None}], done : BOOLEAN]
    <3>1. tail \in [cursor : 0 .. Len(told), seen : [I!Kinds -> I!Reasons \union {None}], done : BOOLEAN]
      BY DEF CiInv, I!TypeOK
    <3> QED BY <1>1, <1>2, <3>1
  <2>2. Len(told') <= MaxLog
    BY <1>1 DEF I!CiAssumption
  <2>3. status' \in {None, "queued", "running"} \union I!Rests
    BY <1>3
  <2> QED BY <1>1, <2>1, <2>2, <2>3 DEF CiInv, I!TypeOK, I!Entries, I!Exports
<1>5. Abreast'
  BY <1>1, <1>3 DEF CiInv, Abreast, Driving
<1>6. Followed'
  <2>1. \A k \in I!Kinds : Places(k, tail.cursor)' = Places(k, tail.cursor)
    BY <1>1, <1>2 DEF Places
  <2>2. ASSUME NEW k \in I!Kinds PROVE LastReason(k, tail.cursor)' = LastReason(k, tail.cursor)
    <3>1. CASE Places(k, tail.cursor) = {}
      BY <2>1, <3>1 DEF LastReason
    <3>2. CASE Places(k, tail.cursor) # {}
      <4>1. I!Max(Places(k, tail.cursor)) \in 1 .. tail.cursor
        <5>1. Places(k, tail.cursor) \in SUBSET (1 .. tail.cursor) /\ tail.cursor \in Nat
          BY <1>2 DEF Places
        <5> QED BY <3>2, <5>1, MaxOf
      <4>2. I!Max(Places(k, tail.cursor))' = I!Max(Places(k, tail.cursor))
        BY <2>1 DEF I!Max
      <4>3. told'[I!Max(Places(k, tail.cursor))] = told[I!Max(Places(k, tail.cursor))]
        BY <1>1, <1>2, <4>1
      <4> QED BY <2>1, <4>2, <4>3 DEF LastReason
    <3> QED BY <3>1, <3>2
  <2>3. \A k \in I!Kinds : tail'.seen[k] = LastReason(k, tail.cursor)'
    BY <2>2 DEF CiInv, Followed
  <2> QED BY <1>3, <2>3 DEF Followed
<1>7. Decided' /\ Holding'
  BY <1>3 DEF CiInv, Decided, Holding
<1>8. I!EgressIsClean'
  BY DEF CiInv, I!EgressIsClean
<1> QED BY <1>4, <1>5, <1>6, <1>7, <1>8 DEF CiInv

LEMMA TurnSteps ==
  ASSUME I!CiAssumption, CiInv, I!Work \/ \E s \in I!Rests, r \in I!Reasons : I!Rest(s, r) PROVE CiInv'
<1> USE DEF I!setup, I!result
<1>1. Len(told) \in Nat /\ MaxLog \in Nat
  BY CiTyped DEF I!CiAssumption
<1>2. CASE I!Work
  <2>1. None \in I!Entries
    BY DEF I!Entries
  <2>2. Len(told) < MaxLog
    BY <1>1, <1>2 DEF I!Work
  <2>3. /\ driver = "turn" /\ told' = Append(told, None) /\ driver' = "turn" /\ status' = status
        /\ UNCHANGED <<db, export, given, dest, held, others, signal, tail, overran, phase, code>>
    BY <1>2 DEF I!Work
  <2> QED BY <2>1, <2>2, <2>3, LogGrows
<1>3. ASSUME NEW s \in I!Rests, NEW r \in I!Reasons, I!Rest(s, r) PROVE CiInv'
  <2> DEFINE e == IF I!KindOf(s) = None THEN None ELSE [kind |-> I!KindOf(s), reason |-> r]
  <2>1. e \in I!Entries
    BY DEF I!Entries, I!KindOf, I!Kinds
  <2>2. /\ driver = "turn" /\ Len(told) < MaxLog /\ told' = Append(told, e) /\ driver' = "loop" /\ status' = s
        /\ UNCHANGED <<db, export, given, dest, held, others, signal, tail, overran, phase, code>>
    BY <1>3 DEF I!Rest
  <2> HIDE DEF e
  <2> QED BY <2>1, <2>2, LogGrows
<1> QED BY <1>2, <1>3

----------------------------------------------------------------------------
(* fragua ci: the tailer and the end of the command.                       *)

LEMMA ReadFits ==
  ASSUME I!CiAssumption, CiInv, phase = "drive", ~tail.done,
         NEW c \in tail.cursor .. Len(told), NEW last \in BOOLEAN, I!ReadTo(c, last),
         last => driver \in {"done", "threw"},
         last /\ ~overran => c = Len(told),
         UNCHANGED <<db, export, given, dest, held, others, status, told, driver, signal, overran, phase, code>>
  PROVE  CiInv'
<1> DEFINE seen == I!Seen(tail.seen, SubSeq(told, tail.cursor + 1, c))
<1>1. /\ tail' = [cursor |-> c, seen |-> seen, done |-> last] /\ told \in Seq(I!Entries)
      /\ tail.cursor \in 0 .. Len(told) /\ Len(told) \in Nat
  BY CiTyped DEF I!ReadTo
<1>2. \A k \in I!Kinds : seen[k] = LastReason(k, c)
  <2>1. \A k \in I!Kinds : tail.seen[k] = LastReason(k, tail.cursor)
    BY DEF CiInv, Followed
  <2> QED BY <1>1, <2>1, SeenMore
<1>3. \A k \in I!Kinds : LastReason(k, c) \in I!Reasons \union {None}
  <2> SUFFICES ASSUME NEW k \in I!Kinds, Places(k, c) # {} PROVE LastReason(k, c) \in I!Reasons \union {None}
    BY DEF LastReason
  <2>1. Places(k, c) \in SUBSET (1 .. c) /\ c \in Nat
    BY <1>1 DEF Places
  <2>2. I!Max(Places(k, c)) \in Places(k, c)
    BY <2>1, MaxOf
  <2>3. told[I!Max(Places(k, c))] # None /\ told[I!Max(Places(k, c))] \in I!Entries
    BY <1>1, <2>2 DEF Places
  <2> QED BY <2>3 DEF LastReason, I!Entries
<1>4. seen \in [I!Kinds -> I!Reasons \union {None}]
  <2>1. DOMAIN seen = I!Kinds /\ seen = [k \in I!Kinds |-> seen[k]]
    BY DEF I!Seen
  <2> HIDE DEF seen
  <2> QED BY <1>2, <1>3, <2>1
<1> HIDE DEF seen
<1>5. I!TypeOK'
  BY <1>1, <1>4 DEF CiInv, I!TypeOK, I!Entries, I!Exports
<1>6. Abreast'
  BY <1>1 DEF CiInv, Abreast, Driving
<1>7. Followed'
  <2>2. ASSUME NEW k \in I!Kinds PROVE tail'.seen[k] = LastReason(k, tail.cursor)'
    <3>1. Places(k, tail.cursor)' = Places(k, c)
      BY <1>1 DEF Places
    <3>2. I!Max(Places(k, tail.cursor))' = I!Max(Places(k, c))
      BY <3>1 DEF I!Max
    <3>3. LastReason(k, tail.cursor)' = LastReason(k, c)
      BY <3>1, <3>2 DEF LastReason
    <3> QED BY <1>1, <1>2, <3>3
  <2>3. Len(told) - tail.cursor <= 2 * Batch => Len(told) - c <= 2 * Batch
    BY <1>1 DEF I!CiAssumption
  <2> QED BY <1>1, <2>2, <2>3 DEF CiInv, Followed
<1>8. Decided' /\ Holding' /\ I!EgressIsClean'
  BY DEF CiInv, Decided, Holding, I!EgressIsClean
<1> QED BY <1>5, <1>6, <1>7, <1>8 DEF CiInv

LEMMA TailerSteps == ASSUME I!CiAssumption, CiInv, I!Poll \/ I!Drain PROVE CiInv'
<1> USE DEF I!setup, I!result
<1>1. Len(told) \in Nat /\ tail.cursor \in 0 .. Len(told) /\ 2 * Batch \in Nat
  BY CiTyped DEF I!CiAssumption
<1>2. CASE I!Poll
  <2>1. Len(told) \in tail.cursor .. Len(told)
    BY <1>1
  <2> QED BY <1>2, <2>1, ReadFits DEF I!Poll
<1>3. CASE I!Drain
  <2> DEFINE c == I!Min({Len(told), tail.cursor + 2 * Batch})
  <2>1. c = IF Len(told) <= tail.cursor + 2 * Batch THEN Len(told) ELSE tail.cursor + 2 * Batch
    BY <1>1, MinOfTwo
  <2>2. c \in tail.cursor .. Len(told)
    BY <1>1, <2>1
  <2>3. driver \in {"done", "threw"} /\ phase = "drive" /\ ~tail.done /\ I!ReadTo(c, TRUE)
    BY <1>3 DEF I!Drain
  <2>4. ~overran => c = Len(told)
    BY <1>1, <2>1, <2>3 DEF CiInv, Followed
  <2> HIDE DEF c
  <2> QED BY <1>3, <2>2, <2>3, <2>4, ReadFits DEF I!Drain
<1> QED BY <1>2, <1>3

LEMMA DecideStep == ASSUME I!CiAssumption, CiInv, I!Decide PROVE CiInv'
<1> USE DEF I!setup
<1> DEFINE r == IF I!KindOf(status) = None THEN None ELSE tail.seen[I!KindOf(status)]
<1>1. /\ phase = "drive" /\ tail.done /\ phase' = "export"
      /\ code' = IF driver = "threw" THEN I!Usage ELSE IF signal THEN I!Cancelled ELSE I!ExitCode(status, r)
      /\ UNCHANGED <<db, export, given, dest, held, others, status, told, driver, signal, tail, overran>>
  BY DEF I!Decide
<1>2. driver \in {"done", "threw"} /\ (driver = "done" => status \in I!Rests \union {"queued"})
  BY <1>1 DEF CiInv, Abreast
<1>3. I!KindOf(status) = None \/ I!KindOf(status) \in I!Kinds
  BY DEF I!KindOf, I!Kinds
<1>4. r \in I!Reasons \union {None}
  BY <1>3, CiTyped
<1>5. ~overran => r = IF I!KindOf(status) = None THEN None ELSE LastReason(I!KindOf(status), Len(told))
  BY <1>1, <1>3 DEF CiInv, Followed
<1> HIDE DEF r
<1>6. /\ \/ code' = I!Usage
         \/ code' = I!Cancelled
         \/ driver = "done" /\ code' = I!ExitCode(status, r)
      /\ driver = "done" /\ ~signal => code' = I!ExitCode(status, r)
  BY <1>1, <1>2
<1>7. driver = "done" => I!ExitCode(status, r) \in (I!Rests \union {"queued"}) \X (I!Reasons \union {None})
  BY <1>2, <1>4 DEF I!ExitCode
<1>8. I!TypeOK'
  BY <1>1, <1>6, <1>7 DEF CiInv, I!TypeOK, I!Entries, I!Exports
<1>9. code' # I!ScrubLeak
  BY <1>2, <1>6 DEF I!ExitCode, I!ScrubLeak, I!Usage, I!Cancelled, I!Rests
<1>10. Abreast' /\ Holding'
  BY <1>1, <1>2 DEF CiInv, Abreast, Holding, Driving
<1>11. Followed'
  BY <1>1, ReasonsStay DEF CiInv, Followed
<1>12. Decided'
  <2>1. driver = "done" /\ ~signal /\ ~overran => code' = Outcome
    BY <1>5, <1>6 DEF Outcome, I!ExitCode
  <2>2. Outcome' = Outcome
    BY <1>1 DEF Outcome, LastReason, Places, I!Max, I!ExitCode, I!KindOf
  <2> QED BY <1>1, <1>9, <2>1, <2>2 DEF Decided
<1>13. I!EgressIsClean'
  BY <1>1, <1>9 DEF CiInv, Holding, I!EgressIsClean
<1> QED BY <1>8, <1>10, <1>11, <1>12, <1>13 DEF CiInv

LEMMA ExportBundleStep == ASSUME I!CiAssumption, CiInv, I!ExportBundle PROVE CiInv'
<1> USE DEF I!setup
<1>1. /\ phase = "export" /\ phase' = "prune"
      /\ \/ dest' = dest /\ code' = code
         \/ I!Bundle.live /\ dest' = None /\ code' = I!ScrubLeak
         \/ ~I!Bundle.live /\ dest' = I!Bundle /\ code' = code
      /\ UNCHANGED <<db, export, given, held, others, status, told, driver, signal, tail, overran>>
  BY DEF I!ExportBundle
<1>2. I!Bundle = [needles |-> held, live |-> export.live /\ held # {}, old |-> FALSE]
  BY DEF I!Bundle
<1>3. held = given /\ dest \in {None, I!Stale} /\ code # I!ScrubLeak
  BY <1>1 DEF CiInv, Holding, Decided
<1>4. I!Bundle \in I!Exports
  BY <1>2 DEF CiInv, I!TypeOK, I!Exports
<1>5. I!TypeOK'
  BY <1>1, <1>4 DEF CiInv, I!TypeOK, I!Entries, I!Exports
<1>6. Abreast' /\ Holding'
  BY <1>1 DEF CiInv, Abreast, Holding, Driving
<1>7. Followed'
  BY <1>1, ReasonsStay DEF CiInv, Followed
<1>8. Decided'
  <2>1. Outcome' = Outcome
    BY <1>1 DEF Outcome, LastReason, Places, I!Max, I!ExitCode, I!KindOf
  <2> QED BY <1>1, <2>1 DEF CiInv, Decided
<1>9. I!EgressIsClean'
  <2>1. I!Bundle.needles = held /\ (I!Bundle.live <=> export.live /\ held # {})
    BY <1>2
  <2> QED BY <1>1, <1>3, <2>1 DEF I!EgressIsClean
<1> QED BY <1>5, <1>6, <1>7, <1>8, <1>9 DEF CiInv

LEMMA PruneStep == ASSUME I!CiAssumption, CiInv, I!Prune PROVE CiInv'
<1> USE DEF I!setup
<1>1. /\ phase = "prune"
      /\ \/ held' = (IF db = "existing" THEN held ELSE {}) /\ phase' = "ended"
         \/ db = "fresh" /\ phase' = "unpruned" /\ held' = held
      /\ UNCHANGED <<db, export, given, dest, others, status, told, driver, signal, tail, overran, code>>
  BY DEF I!Prune
<1>2. I!TypeOK'
  BY <1>1 DEF CiInv, I!TypeOK, I!Entries, I!Exports
<1>3. Abreast' /\ Holding'
  BY <1>1 DEF CiInv, Abreast, Holding, Driving
<1>4. Followed'
  BY <1>1, ReasonsStay DEF CiInv, Followed
<1>5. Decided'
  <2>1. Outcome' = Outcome
    BY <1>1 DEF Outcome, LastReason, Places, I!Max, I!ExitCode, I!KindOf
  <2> QED BY <1>1, <2>1 DEF CiInv, Decided
<1>6. I!EgressIsClean'
  BY <1>1 DEF CiInv, Holding, I!EgressIsClean
<1> QED BY <1>2, <1>3, <1>4, <1>5, <1>6 DEF CiInv

LEMMA CiStep == ASSUME I!CiAssumption, CiInv, [I!Next]_(I!vars) PROVE CiInv'
<1>1. CASE I!Drive \/ I!Throws \/ I!CutShort \/ I!Signal
  BY <1>1, DriverSteps
<1>2. CASE I!Work \/ \E s \in I!Rests, r \in I!Reasons : I!Rest(s, r)
  BY <1>2, TurnSteps
<1>3. CASE I!RefuseAllowEnv \/ I!Seed \/ I!RefuseUsage
  BY <1>3, SeedingSteps
<1>4. CASE I!Enqueue
  BY <1>4, EnqueueCiStep
<1>5. CASE I!Poll \/ I!Drain
  BY <1>5, TailerSteps
<1>6. CASE I!Decide
  BY <1>6, DecideStep
<1>7. CASE I!ExportBundle
  BY <1>7, ExportBundleStep
<1>8. CASE I!Prune
  BY <1>8, PruneStep
<1>9. CASE UNCHANGED I!vars
  <2>1. UNCHANGED <<db, export, given, dest, held, others, status, told, driver, signal, tail, overran, phase, code>>
    BY <1>9 DEF I!vars
  <2>2. I!TypeOK'
    BY <2>1 DEF CiInv, I!TypeOK, I!Entries, I!Exports
  <2>3. Abreast' /\ Holding' /\ I!EgressIsClean'
    BY <2>1 DEF CiInv, Abreast, Holding, Driving, I!EgressIsClean
  <2>4. Followed'
    BY <2>1, ReasonsStay DEF CiInv, Followed
  <2>5. Outcome' = Outcome
    BY <2>1 DEF Outcome, LastReason, Places, I!Max, I!ExitCode, I!KindOf
  <2>6. Decided'
    BY <2>1, <2>5 DEF CiInv, Decided
  <2> QED BY <2>2, <2>3, <2>4, <2>6 DEF CiInv
<1> QED BY <1>1, <1>2, <1>3, <1>4, <1>5, <1>6, <1>7, <1>8, <1>9 DEF I!Next, I!Turn, I!Command

LEMMA CiInvariant == ASSUME I!CiAssumption PROVE I!Spec => []CiInv
<1>1. I!Init => CiInv
  BY InitCi
<1>2. CiInv /\ [I!Next]_(I!vars) => CiInv'
  BY CiStep
<1> QED BY <1>1, <1>2, PTL DEF I!Spec

LEMMA CodeFollows == ASSUME CiInv PROVE I!CodeTellsOutcome
<1>1. told \in Seq(I!Entries) /\ DOMAIN told = 1 .. Len(told)
  BY CiTyped
<1>2. ASSUME NEW k \in I!Kinds PROVE I!Told[k] = LastReason(k, Len(told))
  <2>1. Places(k, Len(told)) = {n \in DOMAIN told : told[n] # None /\ told[n].kind = k}
    BY <1>1 DEF Places
  <2> QED BY <2>1 DEF I!Told, I!Seen, LastReason
<1>3. I!KindOf(status) = None \/ I!KindOf(status) \in I!Kinds
  BY DEF I!KindOf, I!Kinds
<1>4. Outcome = I!ExitCode(status, IF I!KindOf(status) = None THEN None ELSE I!Told[I!KindOf(status)])
  BY <1>2, <1>3 DEF Outcome
<1> QED BY <1>4 DEF CiInv, Decided, I!CodeTellsOutcome

\* Every part of the store, the log, the driver, the tailer and the command keeps
\* its type.
THEOREM CiTypeCorrect == ASSUME I!CiAssumption PROVE I!Spec => []I!TypeOK
<1>1. CiInv => I!TypeOK
  BY DEF CiInv
<1> QED BY <1>1, CiInvariant, PTL

\* For any page size and length of the log, however driver, tailer and signals
\* interleave: the exit code is that of the status and of the last reason of its
\* kind, unless the tailer was more than two pages behind; and what the command
\* leaves holds no credential the bundle was not scrubbed of.
THEOREM CiSoundHolds == ASSUME I!CiAssumption PROVE I!Spec => []I!CiSound
<1>1. CiInv => I!CiSound
  BY CodeFollows DEF CiInv, I!CiSound
<1> QED BY <1>1, CiInvariant, PTL
=============================================================================
