----------------------------- MODULE Lifecycle -----------------------------
(***************************************************************************)
(* The process: a runtime that is built once and shared (runtime.ts), and   *)
(* the drain after a signal, which stops accepting, waits for the requests, *)
(* cuts them off at a deadline and then closes what the runtime holds       *)
(* (serve.ts, http/lifecycle.ts).                                           *)
(*                                                                         *)
(* `pending` is one variable that getRuntime, the failure of a build, the   *)
(* drain and the shutdown itself all write, with an await between what they *)
(* read and what they write.  A handler whose connection was cut goes on.   *)
(***************************************************************************)
EXTENDS Integers, FiniteSets

CONSTANTS
    Handlers,    \* requests, and what runs them
    MaxBuilds,   \* bound on how often a runtime is built
    NoRuntime    \* the value of `pending` when it is undefined

Builds == 1..MaxBuilds

ASSUME LifeAssumption == MaxBuilds \in Nat /\ NoRuntime \notin Builds

VARIABLES
    pending,     \* the promise getRuntime shares: a build, or NoRuntime
    build,       \* build[b]: "unused", "building", "failed", "open", "closing" or "closed"
    handler,     \* handler[r]: where the request is
    uses,        \* uses[r]: the build r waits for or has, or NoRuntime
    process,     \* the process: "up", "stopping", "release", "await", "close", "exited"
    shut,        \* the build the drain closes, or NoRuntime
    forced,      \* the deadline has cut the connections
    again        \* a second signal has ended the process

lifeVars == <<pending, build, handler, uses, process, shut, forced, again>>

Alive == process # "exited"
InFlight == {r \in Handlers : handler[r] \in {"begun", "waits", "has"}}

LifeInit ==
    /\ pending = NoRuntime
    /\ build = [b \in Builds |-> "unused"]
    /\ handler = [r \in Handlers |-> "new"]
    /\ uses = [r \in Handlers |-> NoRuntime]
    /\ process = "up" /\ shut = NoRuntime
    /\ forced = FALSE /\ again = FALSE

-----------------------------------------------------------------------------
(* Requests.                                                               *)

Accept(r) ==
    /\ process = "up" /\ handler[r] = "new"
    /\ handler' = [handler EXCEPT ![r] = "begun"]
    /\ UNCHANGED <<pending, build, uses, process, shut, forced, again>>

Shared == pending

\* getRuntime: pending ??= buildRuntime()
GetRuntime(r) ==
    /\ Alive /\ handler[r] = "begun"
    /\ handler' = [handler EXCEPT ![r] = "waits"]
    /\ IF Shared # NoRuntime
       THEN uses' = [uses EXCEPT ![r] = Shared] /\ UNCHANGED <<pending, build>>
       ELSE \E b \in Builds :
            /\ build[b] = "unused" /\ \A c \in Builds : c < b => build[c] # "unused"
            /\ build' = [build EXCEPT ![b] = "building"]
            /\ pending' = b
            /\ uses' = [uses EXCEPT ![r] = b]
    /\ UNCHANGED <<process, shut, forced, again>>

\* buildRuntime returns.
Built(b) ==
    /\ Alive /\ build[b] = "building"
    /\ build' = [build EXCEPT ![b] = "open"]
    /\ UNCHANGED <<pending, handler, uses, process, shut, forced, again>>

\* A step throws: the pools it had opened are closed, and the promise, whoever's
\* it is by now, is dropped so that the next request tries again.
BuildFails(b) ==
    /\ Alive /\ build[b] = "building"
    /\ build' = [build EXCEPT ![b] = "failed"]
    /\ pending' = NoRuntime
    /\ UNCHANGED <<handler, uses, process, shut, forced, again>>

\* The awaited promise settles; a failure is answered with an error.
Settle(r) ==
    /\ Alive /\ handler[r] = "waits" /\ build[uses[r]] # "building"
    /\ handler' = [handler EXCEPT ![r] = IF build[uses[r]] = "failed" THEN "done" ELSE "has"]
    /\ UNCHANGED <<pending, build, uses, process, shut, forced, again>>

\* The handler asks for the runtime once more, as server functions do.
AskAgain(r) ==
    /\ Alive /\ handler[r] = "has"
    /\ handler' = [handler EXCEPT ![r] = "begun"]
    /\ uses' = [uses EXCEPT ![r] = NoRuntime]
    /\ UNCHANGED <<pending, build, process, shut, forced, again>>

Finish(r) ==
    /\ Alive /\ handler[r] = "has"
    /\ handler' = [handler EXCEPT ![r] = "done"]
    /\ uses' = [uses EXCEPT ![r] = NoRuntime]
    /\ UNCHANGED <<pending, build, process, shut, forced, again>>

-----------------------------------------------------------------------------
(* The drain.                                                              *)

\* beginDraining and server.stop; requests not yet accepted never are.
Signal ==
    /\ process = "up"
    /\ process' = "stopping"
    /\ UNCHANGED <<pending, build, handler, uses, shut, forced, again>>

\* A second signal does not wait.
SignalAgain ==
    /\ process \notin {"up", "exited"}
    /\ process' = "exited" /\ again' = TRUE
    /\ UNCHANGED <<pending, build, handler, uses, shut, forced>>

\* Mutant: the wait for the requests has no deadline.
DeadlineMutant == FALSE

\* The timer, unless stopAccepting is done before.
Deadline == process = "stopping" /\ InFlight # {}

ForceClose ==
    /\ Deadline
    /\ forced' = TRUE
    /\ process' = "release"
    /\ UNCHANGED <<pending, build, handler, uses, shut, again>>

\* Mutant: the pool is released before the requests have ended.
StoppedMutant == process = "stopping"

\* server.stop() resolves when the requests in flight have ended.
Stopped == process = "stopping" /\ InFlight = {}

StopAccepting ==
    /\ Stopped
    /\ process' = "release"
    /\ UNCHANGED <<pending, build, handler, uses, shut, forced, again>>

\* shutdownRuntime takes the promise; what was never built is not built.
ReleaseRuntime ==
    /\ process = "release"
    /\ shut' = pending
    /\ pending' = NoRuntime
    /\ process' = IF pending = NoRuntime THEN "exited" ELSE "await"
    /\ UNCHANGED <<build, handler, uses, forced, again>>

\* It awaits the build; one that failed is nothing to close.
AwaitBuild ==
    /\ process = "await" /\ build[shut] # "building"
    /\ IF build[shut] = "open"
       THEN process' = "close" /\ build' = [build EXCEPT ![shut] = "closing"]
       ELSE process' = "exited" /\ UNCHANGED build
    /\ UNCHANGED <<pending, handler, uses, shut, forced, again>>

\* Runtime.shutdown has closed its pools and drops the promise, whoever's it is.
Close ==
    /\ process = "close"
    /\ build' = [build EXCEPT ![shut] = "closed"]
    /\ pending' = NoRuntime
    /\ process' = "exited"
    /\ UNCHANGED <<handler, uses, shut, forced, again>>

LifeNext ==
    \/ \E r \in Handlers : Accept(r) \/ GetRuntime(r) \/ Settle(r) \/ AskAgain(r) \/ Finish(r)
    \/ \E b \in Builds : Built(b) \/ BuildFails(b)
    \/ Signal \/ SignalAgain \/ ForceClose \/ StopAccepting \/ ReleaseRuntime \/ AwaitBuild \/ Close

\* A build ends, since its waits for locks do; the timer fires; the drain goes
\* on.  Nothing is assumed of the requests, nor that a signal comes.
LifeFairness ==
    /\ \A b \in Builds : WF_lifeVars(Built(b) \/ BuildFails(b))
    /\ WF_lifeVars(ForceClose \/ StopAccepting)
    /\ WF_lifeVars(ReleaseRuntime) /\ WF_lifeVars(AwaitBuild) /\ WF_lifeVars(Close)

LifeSpec == LifeInit /\ [][LifeNext]_lifeVars /\ LifeFairness

-----------------------------------------------------------------------------
(* Properties.                                                             *)

\* Every variable stays in its type; who waits for a runtime waits for one that
\* was built, and the promise is never a build that has not begun.
LifeTypeOK ==
    /\ pending \in Builds \cup {NoRuntime}
    /\ build \in [Builds -> {"unused", "building", "failed", "open", "closing", "closed"}]
    /\ handler \in [Handlers -> {"new", "begun", "waits", "has", "done"}]
    /\ uses \in [Handlers -> Builds \cup {NoRuntime}]
    /\ process \in {"up", "stopping", "release", "await", "close", "exited"}
    /\ shut \in Builds \cup {NoRuntime}
    /\ forced \in BOOLEAN /\ again \in BOOLEAN
    /\ pending # NoRuntime => build[pending] # "unused"
    /\ \A r \in Handlers : handler[r] \in {"waits", "has"} =>
        uses[r] # NoRuntime /\ build[uses[r]] # "unused"
    /\ process \in {"await", "close"} => shut # NoRuntime

Held == {b \in Builds : build[b] \in {"building", "open", "closing"}}

\* Two runtimes are never held at a time, however many requests ask at once and
\* however often a build has failed (getRuntime); the pools of one are open as
\* long as a request has it ("release before the in-flight requests have
\* finished and an orderly rollout becomes a burst of 500s"); and a process that
\* ends after one signal holds nothing and leaves no build half done.  Unless the
\* deadline cut requests off that went on (runDrain, shutdownRuntime).
PoolsLastAsLongAsTheRequests ==
    ~forced =>
        /\ \A b, c \in Held : b = c
        /\ \A r \in Handlers : handler[r] = "has" => build[uses[r]] = "open"
        /\ process = "exited" /\ ~again => Held = {}

\* After a signal the process ends, whether or not the requests do (runDrain).
DrainEnds == process = "stopping" ~> process = "exited"
=============================================================================
