----------------------------- MODULE Lifecycle -----------------------------
(***************************************************************************)
(* An application from Registry to the return of Start: its components,    *)
(* a server with its two goroutines and its requests, scheduled jobs, and  *)
(* the Loki log writer, whose channel every log line goes through and      *)
(* whose loop ends with the application's context.                         *)
(***************************************************************************)
EXTENDS Naturals, Sequences

CONSTANTS
    Components,   \* in the order of Registry: of "core", "db", "server" and "cron"
    Loki,         \* the logger writes to Loki
    LogCap,       \* the capacity of lokiWriter.ch
    MaxRequests   \* bound: requests and jobs in progress

LifecycleAssumption ==
    /\ Components \in Seq({"core", "db", "server", "cron"})
    /\ Loki \in BOOLEAN /\ LogCap \in Nat /\ MaxRequests \in Nat

VARIABLES
    pc,        \* where the main goroutine is
    at,        \* the component it registers or closes
    open,      \* the components that were started and not closed
    done,      \* the application's context is done
    shutdown,  \* the goroutine that waits for the context to shut the server down
    serve,     \* the goroutine that serves
    requests,  \* requests in progress
    jobs,      \* scheduled jobs in progress
    channel,   \* lines in lokiWriter.ch
    loop,      \* lokiWriter.loop runs
    timedOut   \* history: Start waited for ten seconds

main   == <<pc, at, open>>
server == <<shutdown, serve, requests>>
log    == <<channel, loop>>
vars   == <<main, done, server, jobs, log, timedOut>>
-----------------------------------------------------------------------------
Init ==
    /\ pc = "registry" /\ at = 1 /\ open = {} /\ done = FALSE
    /\ shutdown = "none" /\ serve = "none" /\ requests = 0 /\ jobs = 0
    /\ channel = 0 /\ loop = FALSE
    /\ timedOut = FALSE

\* A line is logged; with Loki its writer waits for room in the channel.
Logged ==
    /\ UNCHANGED loop
    /\ IF Loki THEN channel < LogCap /\ channel' = channel + 1 ELSE UNCHANGED channel

Running == pc \notin {"returned", "panicked"}

\* Registry starts the next component, and panics when that fails.
Registry ==
    /\ pc = "registry" /\ at <= Len(Components)
    /\ \/ /\ at' = at + 1
          /\ open' = open \cup {Components[at]}
          /\ loop' = (loop \/ (Loki /\ Components[at] = "core"))
          /\ shutdown' = IF Components[at] = "server" THEN "waiting" ELSE shutdown
          /\ serve' = IF Components[at] = "server" THEN "serving" ELSE serve
          /\ UNCHANGED pc
       \/ /\ pc' = "panicked"
          /\ UNCHANGED <<at, open, loop, shutdown, serve>>
    /\ UNCHANGED <<done, requests, jobs, channel, timedOut>>

Start ==
    /\ pc = "registry" /\ at > Len(Components)
    /\ Logged
    /\ pc' = "running"
    /\ UNCHANGED <<at, open, done, server, jobs, timedOut>>

\* A signal cancels the context; or it was done already.
Quit ==
    /\ pc = "running"
    /\ pc' = "stopping"
    /\ done' = TRUE
    /\ UNCHANGED <<at, open, server, jobs, log, timedOut>>

\* The caller of New cancels its context.
Cancel ==
    /\ Running /\ ~done
    /\ done' = TRUE
    /\ UNCHANGED <<main, server, jobs, log, timedOut>>

Stopping ==
    /\ pc = "stopping"
    /\ Logged
    /\ pc' = "closing"
    /\ at' = Len(Components)
    /\ UNCHANGED <<open, done, server, jobs, timedOut>>

\* CloseHandle of the components, the last one first: it closes the databases and stops
\* the scheduler, and nothing of a server.
CloseHandle ==
    /\ pc = "closing"
    /\ IF at = 0
       THEN pc' = "waiting" /\ UNCHANGED <<at, open>>
       ELSE /\ at' = at - 1
            /\ open' = open \ {Components[at]}
            /\ UNCHANGED pc
    /\ UNCHANGED <<done, server, jobs, log, timedOut>>

\* Mutant: the goroutine that shuts the server down is not one of gogo's.
GoroutinesServe == serve \notin {"serving"}

\* gogo.Wait
GoroutinesOver == serve \notin {"serving"} /\ shutdown \notin {"waiting", "closing", "closed"}

Waited ==
    /\ pc = "waiting" /\ GoroutinesOver
    /\ pc' = "stopped"
    /\ UNCHANGED <<at, open, done, server, jobs, log, timedOut>>

\* Mutant: Start waits for the goroutines without a timer.
TimedOutNever == FALSE /\ UNCHANGED vars

\* After ten seconds Start goes on all the same.
TimedOut ==
    /\ pc = "waiting" /\ ~GoroutinesOver
    /\ pc' = "stopped"
    /\ timedOut' = TRUE
    /\ UNCHANGED <<at, open, done, server, jobs, log>>

Return ==
    /\ pc = "stopped"
    /\ Logged
    /\ pc' = "returned"
    /\ UNCHANGED <<at, open, done, server, jobs, timedOut>>

\* The first goroutine of a server: Shutdown closes the listener, and waits for the
\* requests however long they take.
ShutdownCalled ==
    /\ Running /\ shutdown = "waiting" /\ done
    /\ Logged
    /\ shutdown' = "closing"
    /\ UNCHANGED <<main, done, serve, requests, jobs, timedOut>>

ListenerCloses ==
    /\ Running /\ shutdown = "closing"
    /\ shutdown' = "closed"
    /\ UNCHANGED <<main, done, serve, requests, jobs, log, timedOut>>

ShutdownReturns ==
    /\ Running /\ shutdown = "closed" /\ requests = 0
    /\ Logged
    /\ shutdown' = "over"
    /\ UNCHANGED <<main, done, serve, requests, jobs, timedOut>>

\* The second one: serving ends when the listener is closed, or fails; then the
\* application is cancelled.
ServeEnds ==
    /\ Running /\ serve = "serving"
    /\ \/ shutdown \in {"closed", "over"} /\ UNCHANGED log
       \/ Logged
    /\ serve' = "over"
    /\ done' = TRUE
    /\ UNCHANGED <<main, shutdown, requests, jobs, timedOut>>

Request ==
    /\ Running /\ serve = "serving" /\ shutdown \in {"waiting", "closing"}
    /\ requests < MaxRequests /\ requests' = requests + 1
    /\ UNCHANGED <<main, done, shutdown, serve, jobs, log, timedOut>>

\* The middleware logs each request when it is over.
RequestEnds ==
    /\ Running /\ requests > 0
    /\ Logged
    /\ requests' = requests - 1
    /\ UNCHANGED <<main, done, shutdown, serve, jobs, timedOut>>

\* A scheduled job logs its start; Stop of the scheduler does not wait for it.
Job ==
    /\ Running /\ "cron" \in open /\ jobs < MaxRequests
    /\ Logged
    /\ jobs' = jobs + 1
    /\ UNCHANGED <<main, done, server, timedOut>>

JobEnds ==
    /\ Running /\ jobs > 0
    /\ jobs' = jobs - 1
    /\ UNCHANGED <<main, done, server, log, timedOut>>

\* lokiWriter.loop sends a line, whether or not Loki takes it.
Send ==
    /\ Running /\ loop /\ channel > 0
    /\ channel' = channel - 1
    /\ UNCHANGED <<main, done, server, jobs, loop, timedOut>>

\* It ends with the context, whatever the channel holds.
LoopEnds ==
    /\ Running /\ loop /\ done
    /\ loop' = FALSE
    /\ UNCHANGED <<main, done, server, jobs, channel, timedOut>>

MainStep == Registry \/ Start \/ Quit \/ Stopping \/ CloseHandle \/ Waited \/ TimedOut \/ Return

Next ==
    \/ MainStep \/ Cancel
    \/ ShutdownCalled \/ ListenerCloses \/ ShutdownReturns \/ ServeEnds
    \/ Request \/ RequestEnds \/ Job \/ JobEnds \/ Send \/ LoopEnds

Spec == Init /\ [][Next]_vars
-----------------------------------------------------------------------------
\* Every variable holds a value of its type.
LifecycleTypeOK ==
    /\ pc \in {"registry", "running", "stopping", "closing", "waiting", "stopped", "returned", "panicked"}
    /\ at \in 0..(Len(Components) + 1) /\ open \subseteq {"core", "db", "server", "cron"}
    /\ done \in BOOLEAN
    /\ shutdown \in {"none", "waiting", "closing", "closed", "over"}
    /\ serve \in {"none", "serving", "over"}
    /\ requests \in 0..MaxRequests /\ jobs \in 0..MaxRequests
    /\ channel \in 0..LogCap /\ loop \in BOOLEAN /\ timedOut \in BOOLEAN

\* When Start returns before its ten seconds are over, every request was answered and
\* nothing serves any more, whether a signal, the caller's context or a failing server
\* stopped the application (Start, gogo.Wait, StartCancel).
AnsweredAtReturn ==
    pc = "returned" /\ ~timedOut => requests = 0 /\ serve # "serving"

\* Start returns when the context is done, whatever requests hang, unless Loki's channel
\* has run full after the loop that empties it has ended: then the next line that anyone
\* logs, Start's own among them, is waited for without end (Start, lokiWriter).
StartReturns ==
    (pc = "running" /\ done) ~> (pc = "returned" \/ (Loki /\ ~loop /\ channel = LogCap))
=============================================================================
