------------------------------- MODULE MCFeeds --------------------------------
(* The operator's side on small instances: the Home feed over all runs, one *)
(* run watched live, and the gates answered from the page and the command   *)
(* line. The constants of the configuration are those of Console.           *)
EXTENDS Console, Integers

VARIABLES
    part,   \* the component this behaviour runs
    gfClock, gfStamp, gfDb, gfLate, gfBehind, gfConn, gfClient, gfFeed,
    rsLog, rsTotal, rsConn, rsEs, rsSnap, rsReq, rsLive, rsMsgs, rsHeard

gfVars == <<
    gfClock, gfStamp, gfDb, gfLate, gfBehind, gfConn, gfClient, gfFeed>>
rsVars == <<
    rsLog, rsTotal, rsConn, rsEs, rsSnap, rsReq, rsLive, rsMsgs, rsHeard>>
allVars == <<part, gfVars, rsVars, vars>>

G == INSTANCE GlobalFeed WITH
         Writers <- {1, 2}, MaxTime <- 2, MaxEvents <- 2, BatchSize <- 1,
         BackfillMax <- 1, FeedMax <- 2, MaxBreaks <- 1, None <- None, clock <- gfClock,
         stamp <- gfStamp, db <- gfDb, late <- gfLate, behind <- gfBehind,
         conn <- gfConn, client <- gfClient, feed <- gfFeed

R == INSTANCE RunStream WITH
         MaxLog <- 2, BatchSize <- 1, MaxBreaks <- 1, MaxReads <- 2, MaxFetches <- 2,
         None <- None, log <- rsLog, total <- rsTotal, conn <- rsConn, es <- rsEs,
         snap <- rsSnap, req <- rsReq, live <- rsLive, msgs <- rsMsgs, heard <- rsHeard

ASSUME StreamAssumption == R!StreamAssumption

\* What a command line asks for beside answering a gate.
ConsoleVerbs == {[kind |-> "raise", arg |-> None, resume |-> TRUE]}

\* A gate, a plain step, a gate.
GatedFlow == <<{"y"}, {}, {"n"}>>

FeedsInit == part \in {"feed", "run", "console"} /\ G!Init /\ R!Init /\ Init

FeedsNext ==
    \/ part = "feed" /\ G!Next /\ UNCHANGED <<part, rsVars, vars>>
    \/ part = "run" /\ R!Next /\ UNCHANGED <<part, gfVars, vars>>
    \/ part = "console" /\ Next /\ UNCHANGED <<part, gfVars, rsVars>>

\* Each component's own fairness, while it is the one that runs.
FeedsFairness ==
    /\ WF_gfVars(part = "feed" /\ G!Serve)
    /\ WF_gfVars(part = "feed" /\ G!Connect)
    /\ WF_gfVars(part = "feed" /\ G!Boot)
    /\ WF_rsVars(part = "run" /\ R!Serve)
    /\ WF_rsVars(part = "run" /\ R!Connect)
    /\ WF_vars(part = "console" /\ Wake)
    /\ WF_vars(part = "console" /\ Turn)

FeedsSpec == FeedsInit /\ [][FeedsNext]_allVars /\ FeedsFairness

-------------------------------------------------------------------------------
\* The page catches up with what is committed ahead of the cursor, across
\* shared milliseconds, short pages and lost connections.
FeedComplete == part = "feed" => G!FeedComplete

\* Every cost the page knows of is shown once, or is one that the snapshot's
\* events cover and its row does not count yet, and no event below the newest
\* the page knows of was missed.
PageInStep == part = "run" => R!PageInStep

\* Every event reaches a page that stays subscribed, although the server
\* closes the stream of a settled run.
EventuallyHeard == part = "run" => R!EventuallyHeard

\* What was committed reaches the page that waits for it, and what the page answered
\* reaches the run: the two above and AnswerMovesRun.
FeedsProgress == FeedComplete /\ EventuallyHeard /\ AnswerMovesRun

===============================================================================
