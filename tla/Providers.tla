----------------------------- MODULE Providers ------------------------------
(***************************************************************************)
(* Provider credentials and definitions, shared by a daemon, a server and  *)
(* command lines through two tables of the global store (packages/agent/   *)
(* src/credentials, packages/store/src/provider-*-queries.ts, packages/cli *)
(* /src/commands/providers*.ts, packages/server/src/routes/providers.ts).  *)
(*                                                                         *)
(* A credential write rebuilds the whole map: it reads every row, changes  *)
(* one, writes back every row it knows and deletes the ones it does not.   *)
(* Each row is a transaction of its own; an OAuth refresh awaits the token *)
(* endpoint between the read and the writes.                               *)
(***************************************************************************)
EXTENDS Naturals, FiniteSets, FiniteSetsExt

CONSTANTS Ids,        \* providers
          OAuth,      \* those with a login
          Procs,      \* processes with the store open
          Daemon,     \* the one that calls models and keeps a registry
          MaxWrites,  \* bound: values written
          MaxTime,    \* bound: milliseconds
          MaxFaults,  \* bound: failed exchanges and reads, and crashes
          None

ProvidersAssumption ==
    /\ IsFiniteSet(Ids) /\ OAuth \subseteq Ids /\ Daemon \in Procs
    /\ MaxWrites \in Nat /\ MaxFaults \in Nat

VARIABLES creds,     \* provider_credentials: each provider's row
          configs,   \* provider_config: each provider's row
          clock,     \* Date.now()
          flight,    \* each process: the credential operation under way
          edit,      \* each process: the definition it has read to edit
          backoff,   \* each process: a refresh failed within the window
          registry,  \* the daemon's models, their revision, a load under way,
                     \* and (history) whether the last load read no rows
          written,   \* values written so far
          faults,
          held,      \* history: credentials stored and not removed since
          stamped,   \* history: when a definition was last written
          tied       \* history: two definitions written in one millisecond

tables == <<creds, configs>>
history == <<held, stamped, tied>>
vars == <<tables, clock, flight, edit, backoff, registry, written, faults, history>>

Key(g) == [kind |-> "api_key", gen |-> g, expired |-> FALSE]
Token(g) == [kind |-> "oauth", gen |-> g, expired |-> FALSE]
Present(map) == {id \in Ids : map[id] # None}
Expired(map, id) == map[id] # None /\ map[id].expired

Write == written < MaxWrites /\ written' = written + 1

\* The watermark of the definitions: the newest row's time and the row count.
Revision ==
    [at |-> Max({0} \union {configs[id].at : id \in Present(configs)}), rows |-> Cardinality(Present(configs))]

\* The credential rows after a login with each OAuth provider.
LoggedIn == [id \in Ids |-> IF id \in OAuth THEN Token(0) ELSE None]

\* No custom provider is defined.
NoDefinitions == [id \in Ids |-> None]

\* loadModels takes the watermark before it reads the rows.
BeginLoad == [rev |-> Revision, rows |-> None, blind |-> FALSE]

\* The constructor: empty fields, and its own loadModels under way.
NewRegistry == [models |-> NoDefinitions, rev |-> [at |-> 0, rows |-> 0], load |-> BeginLoad, blind |-> FALSE]

Init ==
    /\ creds = LoggedIn
    /\ configs = NoDefinitions
    /\ clock = 1
    /\ flight = [p \in Procs |-> None] /\ edit = [p \in Procs |-> None]
    /\ backoff = [p \in Procs |-> FALSE]
    /\ registry = NewRegistry
    /\ written = 0 /\ faults = 0
    /\ held = OAuth /\ stamped = 0 /\ tied = FALSE

----------------------------------------------------------------------------
\* Credentials

\* applyDiff: upsert what the next map holds, then delete the rest of the base.
Diff(base, next, id, kind) ==
    [step |-> "rows", id |-> id, kind |-> kind, next |-> next,
     up |-> Present(next), del |-> Present(base) \ Present(next)]

\* persistProviderChange under withLock: the base is what was read.
Change(p, id, cred, kind) ==
    /\ flight[p] = None
    /\ flight' = [flight EXCEPT ![p] = Diff(creds, [creds EXCEPT ![id] = cred], id, kind)]

\* providers add, POST /providers/:name/credentials.
SetCredential(p, id) ==
    /\ Write
    /\ Change(p, id, Key(written'), "set")
    /\ UNCHANGED <<tables, clock, edit, backoff, registry, faults, history>>

\* The end of providers login.
Login(p, id) ==
    /\ id \in OAuth
    /\ Write
    /\ Change(p, id, Token(written'), "set")
    /\ UNCHANGED <<tables, clock, edit, backoff, registry, faults, history>>

\* providers logout, DELETE /providers/:name/credentials; rm takes the
\* definition with it.
RemoveCredential(p, id) ==
    /\ creds[id] # None
    /\ Write
    /\ \E kind \in {"logout", "rm"} : Change(p, id, None, kind)
    /\ held' = held \ {id}
    /\ UNCHANGED <<tables, clock, edit, backoff, registry, faults, stamped, tied>>

\* getApiKey of an expired token, outside the window of an earlier failure; the
\* refresh reads every row before it calls the endpoint.
BeginRefresh(p, id) ==
    /\ flight[p] = None
    /\ Expired(creds, id)
    /\ ~backoff[p]
    /\ flight' = [flight EXCEPT ![p] = [step |-> "exchange", id |-> id, snap |-> creds]]
    /\ UNCHANGED <<tables, clock, edit, backoff, registry, written, faults, history>>

Exchanging(p) == flight[p] # None /\ flight[p].step = "exchange"

\* The endpoint answers. The rows are read again, and the base of the deletions
\* is what is there now together with what was there then.
Exchange(p) ==
    /\ Exchanging(p)
    /\ LET f == flight[p]
           next == [f.snap EXCEPT ![f.id] = Token(written)]
           base == [id \in Ids |-> IF f.snap[id] # None THEN f.snap[id] ELSE creds[id]]
       IN flight' = [flight EXCEPT ![p] = Diff(base, next, f.id, "refresh")]
    /\ UNCHANGED <<tables, clock, edit, backoff, registry, written, faults, history>>

\* The catch of getApiKey: another process may have refreshed meanwhile.
GiveUp(p) ==
    /\ LET id == flight[p].id
           won == creds[id] # None /\ creds[id].kind = "oauth" /\ ~creds[id].expired
       IN backoff' = [backoff EXCEPT ![p] = ~won]
    /\ flight' = [flight EXCEPT ![p] = None]

\* The endpoint refuses, or stops answering.
ExchangeFails(p) ==
    /\ Exchanging(p)
    /\ faults < MaxFaults /\ faults' = faults + 1
    /\ \/ GiveUp(p)
       \/ flight' = [flight EXCEPT ![p].step = "hung"] /\ UNCHANGED backoff
    /\ UNCHANGED <<tables, clock, edit, registry, written, history>>

\* Only a provider whose refresh failed before gets a deadline.
FaultDeadline(p) ==
    /\ flight[p] # None /\ flight[p].step = "hung"
    /\ backoff[p]
    /\ GiveUp(p)
    /\ UNCHANGED <<tables, clock, edit, registry, written, faults, history>>

\* refreshWithDeadline: the signal unwinds a hung exchange as a failure.
Deadline(p) ==
    /\ flight[p] # None /\ flight[p].step = "hung"
    /\ GiveUp(p)
    /\ UNCHANGED <<tables, clock, edit, registry, written, faults, history>>

\* One row, one transaction; the upserts come first.
WriteRow(p) ==
    /\ flight[p] # None /\ flight[p].step = "rows"
    /\ LET f == flight[p] IN
       \/ \E id \in f.up :
            /\ creds' = [creds EXCEPT ![id] = f.next[id]]
            /\ flight' = [flight EXCEPT ![p].up = @ \ {id}]
            /\ held' = IF id = f.id /\ f.kind = "set" THEN held \union {id} ELSE held
       \/ /\ f.up = {}
          /\ \E id \in f.del :
               /\ creds' = [creds EXCEPT ![id] = None]
               /\ flight' = [flight EXCEPT ![p].del = @ \ {id}]
          /\ UNCHANGED held
    /\ UNCHANGED <<configs, clock, edit, backoff, registry, written, faults, stamped, tied>>

\* A refresh may have produced no key: the new token is kept all the same.
Finish(p) ==
    /\ flight[p] # None /\ flight[p].step = "rows" /\ flight[p].up = {} /\ flight[p].del = {}
    /\ LET f == flight[p] IN
       /\ configs' = IF f.kind = "rm" THEN [configs EXCEPT ![f.id] = None] ELSE configs
       /\ IF f.kind = "refresh"
             THEN \E noKey \in BOOLEAN : backoff' = [backoff EXCEPT ![p] = noKey]
             ELSE UNCHANGED backoff
    /\ flight' = [flight EXCEPT ![p] = None]
    /\ UNCHANGED <<creds, clock, edit, registry, written, faults, history>>

Expire(id) ==
    /\ creds[id] # None /\ creds[id].kind = "oauth" /\ ~creds[id].expired
    /\ Write
    /\ creds' = [creds EXCEPT ![id].expired = TRUE]
    /\ UNCHANGED <<configs, clock, flight, edit, backoff, registry, faults, history>>

WindowPasses(p) ==
    /\ backoff[p]
    /\ backoff' = [backoff EXCEPT ![p] = FALSE]
    /\ UNCHANGED <<tables, clock, flight, edit, registry, written, faults, history>>

----------------------------------------------------------------------------
\* Definitions

\* What is saved is an entry of a model provider, of a judge, or, from a build
\* with another schema, one that no longer validates.
Shapes == {"llm", "judge", "corrupt"}

UpsertConfig(id, shape) ==
    /\ Write
    /\ configs' = [configs EXCEPT ![id] = [gen |-> written', at |-> clock, shape |-> shape]]
    /\ tied' = (tied \/ stamped = clock) /\ stamped' = clock

\* providers add --custom.
AddCustom(p, id) ==
    /\ \E shape \in Shapes : UpsertConfig(id, shape)
    /\ UNCHANGED <<creds, clock, flight, edit, backoff, registry, faults, held>>

\* add-model, edit-model, rm-model: read the entry, refuse one that does not
\* validate, ask, and write the entry back.
BeginEdit(p, id) ==
    /\ edit[p] = None
    /\ configs[id] # None /\ configs[id].shape = "llm"
    /\ edit' = [edit EXCEPT ![p] = id]
    /\ UNCHANGED <<tables, clock, flight, backoff, registry, written, faults, history>>

CommitEdit(p) ==
    /\ edit[p] # None
    /\ UpsertConfig(edit[p], "llm")
    /\ edit' = [edit EXCEPT ![p] = None]
    /\ UNCHANGED <<creds, clock, flight, backoff, registry, faults, held>>

----------------------------------------------------------------------------
\* The daemon's registry

\* A judge's row is another registry's, and a corrupt row is skipped alone.
CustomModels(rows) ==
    [id \in Ids |-> IF rows[id] # None /\ rows[id].shape = "llm" THEN rows[id].gen ELSE None]

\* ensureFresh, at the start of every read.
EnsureFresh ==
    /\ registry.load = None
    /\ registry.rev # Revision
    /\ registry' = [registry EXCEPT !.load = BeginLoad]
    /\ UNCHANGED <<tables, clock, flight, edit, backoff, written, faults, history>>

Reading == registry.load # None /\ registry.load.rows = None

LoadRows ==
    /\ Reading
    /\ registry' = [registry EXCEPT !.load.rows = configs]
    /\ UNCHANGED <<tables, clock, flight, edit, backoff, written, faults, history>>

\* The read throws: loadCustomModels catches it and returns an empty set.
LoadFails ==
    /\ Reading
    /\ faults < MaxFaults /\ faults' = faults + 1
    /\ registry' = [registry EXCEPT !.load = [@ EXCEPT !.rows = NoDefinitions, !.blind = TRUE]]
    /\ UNCHANGED <<tables, clock, flight, edit, backoff, written, history>>

Loaded(rev) ==
    [models |-> CustomModels(registry.load.rows), rev |-> rev, load |-> None, blind |-> registry.load.blind]

\* The watermark is read once the rows are loaded.
FaultLoadModels ==
    /\ registry.load # None /\ registry.load.rows # None
    /\ registry' = Loaded(Revision)
    /\ UNCHANGED <<tables, clock, flight, edit, backoff, written, faults, history>>

\* The watermark is kept whatever the read returned.
LoadModels ==
    /\ registry.load # None /\ registry.load.rows # None
    /\ registry' = Loaded(registry.load.rev)
    /\ UNCHANGED <<tables, clock, flight, edit, backoff, written, faults, history>>

----------------------------------------------------------------------------
Tick ==
    /\ clock < MaxTime /\ clock' = clock + 1
    /\ UNCHANGED <<tables, flight, edit, backoff, registry, written, faults, history>>

\* A process ends in the middle; the daemon starts over with a fresh registry.
Crash(p) ==
    /\ faults < MaxFaults /\ faults' = faults + 1
    /\ flight' = [flight EXCEPT ![p] = None] /\ edit' = [edit EXCEPT ![p] = None]
    /\ backoff' = [backoff EXCEPT ![p] = FALSE]
    /\ registry' = IF p = Daemon THEN NewRegistry ELSE registry
    /\ UNCHANGED <<tables, clock, written, history>>

\* The daemon resolves a model's key for every call; a test of a provider does
\* the same from a command line.
Call == \E id \in OAuth : BeginRefresh(Daemon, id)
Test(p, id) == id \in OAuth /\ BeginRefresh(p, id)
Settle(p) == Exchange(p) \/ ExchangeFails(p) \/ Deadline(p) \/ WriteRow(p) \/ Finish(p)
Verb(p, id) ==
    \/ SetCredential(p, id) \/ Login(p, id) \/ RemoveCredential(p, id)
    \/ AddCustom(p, id) \/ BeginEdit(p, id) \/ Test(p, id)

Next ==
    \/ \E p \in Procs : Settle(p) \/ CommitEdit(p) \/ WindowPasses(p) \/ Crash(p)
    \/ \E p \in Procs \ {Daemon}, id \in Ids : Verb(p, id)
    \/ \E id \in Ids : Expire(id)
    \/ Call \/ EnsureFresh \/ LoadRows \/ LoadFails \/ LoadModels \/ Tick

\* The daemon calls models, an exchange ends by its deadline, a window passes.
Fairness ==
    /\ WF_vars(Call)
    /\ \A p \in Procs : WF_vars(Settle(p))
    /\ WF_vars(WindowPasses(Daemon))
Spec == Init /\ [][Next]_vars /\ Fairness

----------------------------------------------------------------------------
\* Credential rows, definition rows, their watermark, and the operations under way.
Creds == [Ids -> [kind : {"api_key", "oauth"}, gen : Nat, expired : BOOLEAN] \union {None}]
Configs == [Ids -> [gen : Nat, at : Nat, shape : Shapes] \union {None}]
Revisions == [at : Nat, rows : Nat]
Flights ==
    [step : {"exchange", "hung"}, id : Ids, snap : Creds] \union
    [step : {"rows"}, id : Ids, kind : {"set", "logout", "rm", "refresh"}, next : Creds,
     up : SUBSET Ids, del : SUBSET Ids]
Registry ==
    [models : [Ids -> Nat \union {None}], rev : Revisions,
     load : [rev : Revisions, rows : Configs \union {None}, blind : BOOLEAN] \union {None},
     blind : BOOLEAN]

\* Type invariant.
TypeOK ==
    /\ creds \in Creds /\ configs \in Configs
    /\ clock \in Nat /\ stamped \in Nat
    /\ flight \in [Procs -> Flights \union {None}]
    /\ edit \in [Procs -> Ids \union {None}] /\ backoff \in [Procs -> BOOLEAN]
    /\ registry \in Registry
    /\ written \in 0 .. MaxWrites /\ faults \in 0 .. MaxFaults
    /\ held \subseteq Ids /\ tied \in BOOLEAN

\* A registry that takes itself for current has every definition there is, as it
\* is: the watermark it keeps never covers a write that its load came too early to
\* read, although other processes write while it loads. Two definitions written
\* in one millisecond are an exception, and so is a load whose read threw.
RegistryCurrent ==
    registry.load = None /\ registry.rev = Revision /\ ~tied /\ ~registry.blind =>
        \A id \in Present(CustomModels(configs)) : registry.models[id] = CustomModels(configs)[id]

\* "A corrupt row is logged and skipped, sibling rows still load", and a registry
\* that is behind reloads at the next read. A read that throws loads no row and
\* leaves the watermark of the rows it did not get: nothing reloads until the next
\* write of a definition.
FailedReadIsRetried ==
    registry.load = None /\ registry.rev = Revision /\ registry.blind => Present(CustomModels(configs)) = {}

\* It has no others either. A definition added between the watermark and the rows
\* and removed again leaves the watermark as it was, so this is not what it does.
NoGhostModels ==
    registry.load = None /\ registry.rev = Revision /\ ~tied /\ ~registry.blind =>
        registry.models = CustomModels(configs)

\* An expired token is refreshed or gives way to another credential, although
\* an exchange fails, hangs or is overtaken by a write of the old map.
ExpiredIsRefreshed ==
    \A id \in OAuth : Expired(creds, id) ~> ~Expired(creds, id)

\* A credential that was stored stays until its removal is asked for, also when
\* it arrives while another process awaits a refresh.
ArrivalsStay == \A id \in held : creds[id] # None
=============================================================================
