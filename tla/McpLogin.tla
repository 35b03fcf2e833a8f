------------------------------ MODULE McpLogin ------------------------------
(***************************************************************************)
(* OAuth state of one remote MCP server: the row that `fragua mcp login`,  *)
(* `mcp logout`, the daemon's headless provider and a `fragua ci` copy     *)
(* share (packages/cli/src/commands/mcp.ts, packages/workspace/src/mcp/    *)
(* oauth.ts, packages/cli/src/mcp-oauth-store.ts).                         *)
(*                                                                         *)
(* The row holds the client registration, the tokens and, during a login,  *)
(* the CSRF state and the PKCE verifier. The provider library keeps a      *)
(* state and a verifier it finds and never removes them; it is external    *)
(* here. A login can be interrupted after any of its steps.                *)
(***************************************************************************)
EXTENDS Integers, FiniteSets

CONSTANTS Clients,   \* preset clients an operator may pass
          Genuine,   \* those among them the server knows
          MaxNonces, \* CSRF states and verifiers ever generated
          MaxGrants, \* refresh tokens ever issued
          None

VARIABLES row,       \* the stored blob, or None
          login,     \* the login command under way
          nonce,     \* CSRF states and verifiers generated so far
          grant,     \* the refresh token the server honours
          expired,   \* the access token in the row no longer serves
          copy,      \* the row of a ci run's store
          shown,     \* history: CSRF states earlier logins put before the operator
          completed, \* history: grants of logins that ran to their end
          code       \* exit code of the last login

vars == <<row, login, nonce, grant, expired, copy, shown, completed, code>>
history == <<shown, completed>>

\* Type invariant.
Nonces == 1 .. MaxNonces
Grants == 0 .. MaxGrants
TokenSets == [client : Clients \union {"registered"}, refresh : Grants \union {None}]
Rows == [client : Clients \union {"registered", None}, tokens : TokenSets \union {None},
         csrf : Nonces \union {None}, verifier : Nonces \union {None}]
Logins == [pc : {"idle", "connecting", "asked", "exchanged", "cleared"}, client : Clients \union {None},
           csrf : Nonces \union {None}, verifier : Nonces \union {None}]
TypeOK ==
    /\ row \in Rows \union {None} /\ copy \in Rows \union {None}
    /\ login \in Logins
    /\ nonce \in 0 .. MaxNonces /\ grant \in Grants /\ expired \in BOOLEAN
    /\ shown \subseteq Nonces /\ completed \subseteq Grants
    /\ code \in {None, 0, 1}

McpLoginAssumption ==
    /\ Genuine \subseteq Clients /\ MaxNonces \in Nat /\ MaxGrants \in Nat
    /\ None \notin Clients \union {"registered"} /\ None \notin Nat
    /\ None \notin TokenSets /\ None \notin Rows

Blank == [client |-> None, tokens |-> None, csrf |-> None, verifier |-> None]
Tokens(c, g) == [client |-> c, refresh |-> g]
AtRest == [pc |-> "idle", client |-> None, csrf |-> None, verifier |-> None]
\* parseOAuthBlob: an absent row reads as an empty state.
Blob == IF row = None THEN Blank ELSE row

Init ==
    /\ row = None /\ login = AtRest /\ nonce = 0 /\ grant = 0 /\ expired = FALSE
    /\ copy = None /\ shown = {} /\ completed = {} /\ code = None

----------------------------------------------------------------------------
\* clearTransientOAuthState: tokens and client registration stay.
FaultClearTransient(r) == r
ClearTransient(r) == IF r = None THEN None ELSE [r EXCEPT !.csrf = None, !.verifier = None]

\* persistClientInformation, for a preset client.
WithClient(r, c) == IF c = None THEN r ELSE [r EXCEPT !.client = c]

\* portableOAuthBlob: access token and client alone; nothing of an expired token.
FaultPortable == IF Blob.tokens = None \/ expired THEN None ELSE Blob
Portable ==
    IF Blob.tokens = None \/ expired THEN None
    ELSE [Blob EXCEPT !.csrf = None, !.verifier = None, !.tokens.refresh = None]

\* hasStoredTokens: what `mcp ls` reports; a row without tokens is not a login.
LoggedIn == Blob.tokens # None

----------------------------------------------------------------------------
\* The provider library

\* The client it acts as: a preset one, else the registered one.
ActsAs(r, preset) == IF preset # None THEN preset ELSE r.client
CanServe == Blob.tokens # None /\ ~expired
\* A silent refresh: the server wants the refresh token it issued last, from the
\* client it issued it to.
CanRefresh(preset) ==
    /\ Blob.tokens # None /\ expired /\ grant < MaxGrants
    /\ Blob.tokens.refresh = grant /\ ActsAs(Blob, preset) = Blob.tokens.client
Refresh ==
    /\ row' = [row EXCEPT !.tokens.refresh = grant + 1]
    /\ grant' = grant + 1 /\ expired' = FALSE
    /\ completed' = IF grant \in completed THEN completed \union {grant + 1} ELSE completed

\* An authorization begins: a client is registered unless there is one, a state is
\* generated unless the row has one, the verifier is always new.
Begun(preset) ==
    [Blob EXCEPT !.client = IF preset = None /\ @ = None THEN "registered" ELSE @,
                 !.csrf = IF @ = None THEN nonce + 1 ELSE @,
                 !.verifier = nonce + 1]
Begin(preset) == /\ nonce < MaxNonces /\ nonce' = nonce + 1 /\ row' = Begun(preset)

----------------------------------------------------------------------------
\* fragua mcp login

\* A server that is not found, not http or has static auth; an address that cannot be
\* resolved; plaintext to a remote host; a secret without an id; a busy callback port.
Refuse ==
    /\ login.pc = "idle" /\ code' = 1
    /\ UNCHANGED <<row, login, nonce, grant, expired, copy>> /\ UNCHANGED history

\* The login starts from fresh transients.
Start ==
    /\ login.pc = "idle" /\ code' = None
    /\ \E c \in Clients \union {None} : login' = [AtRest EXCEPT !.pc = "connecting", !.client = c]
    /\ row' = ClearTransient(row)
    /\ UNCHANGED <<nonce, grant, expired, copy>> /\ UNCHANGED history

\* The stored token still serves: the client the operator passed is not persisted.
AlreadyIn ==
    /\ login.pc = "connecting" /\ CanServe
    /\ login' = AtRest /\ code' = 0
    /\ UNCHANGED <<row, nonce, grant, expired, copy>> /\ UNCHANGED history

RefreshedIn ==
    /\ login.pc = "connecting" /\ CanRefresh(login.client)
    /\ Refresh
    /\ login' = AtRest /\ code' = 0
    /\ UNCHANGED <<nonce, copy, shown>>

\* The operator has to authorize: the state goes out with the browser.
AskOperator ==
    /\ login.pc = "connecting" /\ ~CanServe
    /\ Begin(login.client)
    /\ login' = [login EXCEPT !.pc = "asked", !.csrf = row'.csrf, !.verifier = row'.verifier]
    /\ UNCHANGED <<grant, expired, copy, code>> /\ UNCHANGED history

\* The callback brings the code; it is exchanged under the verifier now stored, and
\* the server refuses a client it does not know or a verifier it was not told.
Exchange ==
    /\ login.pc = "asked" /\ row # None /\ grant < MaxGrants
    /\ row.verifier = login.verifier
    /\ ActsAs(row, login.client) \in Genuine \union {"registered"}
    /\ row' = [row EXCEPT !.tokens = Tokens(ActsAs(row, login.client), grant + 1)]
    /\ grant' = grant + 1 /\ expired' = FALSE
    /\ login' = [login EXCEPT !.pc = "exchanged"]
    /\ UNCHANGED <<nonce, copy, code>> /\ UNCHANGED history

Clear ==
    /\ login.pc = "exchanged"
    /\ row' = ClearTransient(row)
    /\ login' = [login EXCEPT !.pc = "cleared"]
    /\ UNCHANGED <<nonce, grant, expired, copy, code>> /\ UNCHANGED history

\* Only now is a preset client known to be right and persisted.
Finish ==
    /\ login.pc = "cleared"
    /\ row' = WithClient(Blob, login.client)
    /\ login' = AtRest /\ code' = 0
    /\ completed' = completed \union {grant} /\ shown' = shown \union {login.csrf}
    /\ UNCHANGED <<nonce, grant, expired, copy>>

\* A timeout, a denial, a wrong state, a refused exchange; or the operator interrupts.
GiveUp ==
    /\ login.pc # "idle"
    /\ login' = AtRest /\ code' = 1
    /\ shown' = IF login.csrf # None THEN shown \union {login.csrf} ELSE shown
    /\ UNCHANGED <<row, nonce, grant, expired, copy, completed>>

\* fragua mcp logout
Logout ==
    /\ row # None /\ row' = None
    /\ UNCHANGED <<login, nonce, grant, expired, copy, code>> /\ UNCHANGED history

----------------------------------------------------------------------------
\* The daemon and `mcp check`: a provider that never opens a browser

HeadlessRefresh ==
    /\ CanRefresh(None) /\ Refresh
    /\ UNCHANGED <<login, nonce, copy, shown, code>>

\* No usable token: the flow begins, and throws where the browser would open. What
\* it wrote before stays in the row.
HeadlessThrows ==
    /\ ~CanServe /\ ~CanRefresh(None) /\ Begin(None)
    /\ UNCHANGED <<login, grant, expired, copy, code>> /\ UNCHANGED history

Expire ==
    /\ LoggedIn /\ ~expired /\ expired' = TRUE
    /\ UNCHANGED <<row, login, nonce, grant, copy, code>> /\ UNCHANGED history

\* fragua ci takes a copy into its own store, and may want to refresh it there.
CopyForCi ==
    /\ copy = None /\ Portable # None /\ copy' = Portable
    /\ UNCHANGED <<row, login, nonce, grant, expired, code>> /\ UNCHANGED history

\* The run ends with its store, after a refresh there if the copy could do one.
CiEnds ==
    /\ copy # None /\ copy' = None
    /\ grant' = IF copy.tokens.refresh = grant /\ grant < MaxGrants THEN grant + 1 ELSE grant
    /\ UNCHANGED <<row, login, nonce, expired, code>> /\ UNCHANGED history

Next ==
    \/ Refuse \/ Start \/ AlreadyIn \/ RefreshedIn \/ AskOperator \/ Exchange \/ Clear \/ Finish \/ GiveUp \/ Logout
    \/ HeadlessRefresh \/ HeadlessThrows \/ Expire \/ CopyForCi \/ CiEnds

Spec == Init /\ [][Next]_vars

----------------------------------------------------------------------------
(* A login never shows the operator a CSRF state that an earlier login, finished  *)
(* or interrupted, had shown (oauth.ts, clearTransientOAuthState).                *)
StateIsFresh == login.pc = "asked" => login.csrf \notin shown

(* The row never names a client the server does not know: neither a login that    *)
(* fails nor one that the stored token satisfied leaves the client the operator   *)
(* passed behind (mcp.ts, runLoginFlow).                                          *)
ClientIsProven == row # None => row.client \in Genuine \union {"registered", None}

(* The tokens a finished login left can be refreshed by the daemon, which knows   *)
(* the row alone: the refresh token is the one the server honours, a ci run does  *)
(* not use it up, and the client beside it is the one it was issued to.           *)
DaemonCanRefresh ==
    row # None /\ row.tokens # None /\ row.tokens.refresh \in completed =>
        row.tokens.refresh = grant /\ row.client = row.tokens.client

(* StateIsFresh, ClientIsProven and DaemonCanRefresh: what the row is good for. *)
LoginSound == StateIsFresh /\ ClientIsProven /\ DaemonCanRefresh
=============================================================================
