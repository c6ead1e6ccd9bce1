---------------------------- MODULE PackSession ----------------------------
(***************************************************************************)
(* PackSession.kt: one runtime session of a packaged pair. The session     *)
(* thread starts a server, a display and a client, waits for each, plays,  *)
(* disconnects, stops the server and validates its world; whatever fails,  *)
(* it closes what it started and writes one result. The processes live     *)
(* their own lives; ProcessTracker is how they are found and ended.        *)
(***************************************************************************)
EXTENDS Naturals, ProcessTracker

CONSTANTS Server, Client, Display,     \* roots
          Game, Player                 \* the JVMs of server and client

ASSUME SessionAssumption ==
    /\ Roots = {Server, Client, Display}
    /\ Server # Client /\ Client # Display /\ Server # Display
    /\ Game \in Procs /\ Line[Game] = {Server}
    /\ Player \in Procs /\ Line[Player] = {Client}

VARIABLES
    pc,                     \* of the session thread
    failed,                 \* its failure
    joined, disconnected, stopped,
    told,                   \* the console was sent "stop"
    world, link,            \* the server's world, the player's connection
    clean,                  \* the server exited with status zero
    status                  \* of run.json

flags == <<joined, disconnected, stopped, told>>
outside == <<world, link, clean>>
session == <<pc, failed, flags, status>>
vars == <<processes, trackers, session, outside>>

Init ==
    /\ TrackerInit
    /\ pc = "start" /\ failed = FALSE
    /\ joined = FALSE /\ disconnected = FALSE /\ stopped = FALSE /\ told = FALSE
    /\ world = "none" /\ link = "none" /\ clean = FALSE
    /\ status = "running"

-----------------------------------------------------------------------------
(* runLifecycle                                                            *)

At(from) == pc = from /\ UNCHANGED <<outside, status>>
Goto(next) == pc' = next /\ UNCHANGED failed
Fail == pc' = "close" /\ failed' = TRUE

Lifecycle == {"start", "ready", "display", "client", "join", "play", "left",
              "stopClient", "stopDisplay", "tell", "exit", "validate"}

\* A deadline passes, a check fails, a file cannot be written.
Trouble ==
    /\ pc \in Lifecycle /\ closing = NoRoot
    /\ At(pc) /\ Fail
    /\ UNCHANGED <<processes, trackers, flags>>

StartRoot(from, r, next) ==
    /\ At(from) /\ StartProcess(r) /\ Goto(next)
    /\ UNCHANGED flags

StartServer == StartRoot("start", Server, "ready")

AwaitServerReady ==
    /\ At("ready") /\ world # "none"
    /\ Goto("display")
    /\ UNCHANGED <<processes, trackers, flags>>

ConnectClient ==
    \/ StartRoot("display", Display, "client")
    \/ Live(Display) /\ StartRoot("client", Client, "join")

AwaitClientJoined ==
    /\ At("join") /\ Live(Client) /\ link = "up"
    /\ joined' = TRUE /\ Goto("play")
    /\ UNCHANGED <<processes, trackers, disconnected, stopped, told>>

\* ensureConnected
Connected ==
    /\ joined /\ ~disconnected /\ link = "up"
    /\ Live(Server) /\ Live(Client) /\ Live(Display)

\* Heartbeats, the itinerary of the tier, and the kick that ends it.
Play ==
    /\ At("play") /\ Connected
    /\ Goto("left")
    /\ UNCHANGED <<processes, trackers, flags>>

\* Variant: the client is left to the final cleanup.
LeaveClient ==
    /\ At("left") /\ link = "down"
    /\ disconnected' = TRUE /\ Goto("tell")
    /\ UNCHANGED <<processes, trackers, joined, stopped, told>>

DisconnectClient ==
    /\ At("left") /\ link = "down"
    /\ disconnected' = TRUE /\ Goto("stopClient")
    /\ UNCHANGED <<processes, trackers, joined, stopped, told>>

\* A close of disconnectClient: survivors fail the session.
StopRoot(from, r, next) ==
    /\ At(from)
    /\ \/ BeginStop(r) /\ UNCHANGED <<pc, failed>>
       \/ closing = r /\ EndStop /\ IF Survivors(r) = {} THEN Goto(next) ELSE Fail
    /\ UNCHANGED flags

CloseClientAndDisplay ==
    StopRoot("stopClient", Client, "stopDisplay") \/ StopRoot("stopDisplay", Display, "tell")

SendStop ==
    /\ At("tell") /\ disconnected /\ Live(Server)
    /\ told' = TRUE /\ Goto("exit")
    /\ UNCHANGED <<processes, trackers, joined, disconnected, stopped>>

\* Status zero and a save acknowledged after the stop was sent.
AwaitServerExit ==
    /\ At("exit") /\ ~Live(Server) /\ clean /\ world = "saved"
    /\ stopped' = TRUE /\ Goto("validate")
    /\ UNCHANGED <<processes, trackers, joined, disconnected, told>>

Validate ==
    /\ At("validate")
    /\ disconnected /\ stopped
    /\ Goto("close")
    /\ UNCHANGED <<processes, trackers, flags>>

-----------------------------------------------------------------------------
(* close and finish                                                        *)

\* A server that still runs is asked to save and stop, best effort.
Close ==
    /\ At("close")
    /\ IF ~stopped /\ Live(Server)
         THEN told' = TRUE /\ Goto("grace")
         ELSE UNCHANGED told /\ Goto("closeClient")
    /\ UNCHANGED <<processes, trackers, joined, disconnected, stopped>>

\* Variant: the wait for the server has no deadline.
GraceUnbounded ==
    /\ At("grace") /\ ~Live(Server)
    /\ Goto("closeClient")
    /\ UNCHANGED <<processes, trackers, flags>>

Grace ==
    /\ At("grace")
    /\ Goto("closeClient")
    /\ UNCHANGED <<processes, trackers, flags>>

\* Variant: the first failing resource ends the cleanup.
CloseUpToFailure(from, r, next) ==
    /\ At(from)
    /\ \/ ~Started(r) /\ Goto(next) /\ UNCHANGED <<processes, trackers>>
       \/ Started(r) /\ BeginStop(r) /\ UNCHANGED <<pc, failed>>
       \/ closing = r /\ EndStop /\ IF Survivors(r) = {}
                                      THEN Goto(next)
                                      ELSE failed' = TRUE /\ pc' = "finish"
    /\ UNCHANGED flags

\* Variant: a cleanup that fails does not fail the session.
CloseForgiving(from, r, next) ==
    /\ At(from)
    /\ \/ ~Started(r) /\ UNCHANGED <<processes, trackers>> /\ Goto(next)
       \/ Started(r) /\ BeginStop(r) /\ UNCHANGED <<pc, failed>>
       \/ closing = r /\ EndStop /\ Goto(next)
    /\ UNCHANGED flags

\* One resource of closeAll: its failure is kept and the next one is closed.
CloseRoot(from, r, next) ==
    /\ At(from)
    /\ \/ ~Started(r) /\ Goto(next) /\ UNCHANGED <<processes, trackers>>
       \/ Started(r) /\ BeginStop(r) /\ UNCHANGED <<pc, failed>>
       \/ closing = r /\ EndStop /\ pc' = next /\ failed' = (failed \/ Survivors(r) # {})
    /\ UNCHANGED flags

CloseAll ==
    \/ CloseRoot("closeClient", Client, "closeDisplay")
    \/ CloseRoot("closeDisplay", Display, "closeServer")
    \/ CloseRoot("closeServer", Server, "finish")

\* The inputs are hashed again, and the result of the session is written.
Finish ==
    /\ pc = "finish"
    /\ \E unchanged \in BOOLEAN : status' = IF failed \/ ~unchanged THEN "failed" ELSE "passed"
    /\ pc' = "done"
    /\ UNCHANGED <<processes, trackers, failed, flags, outside>>

\* The rounds of stop, on the session thread.
Stop ==
    /\ Terminate("ask") \/ Terminate("kill")
    /\ UNCHANGED <<session, outside>>

Session ==
    \/ StartServer \/ AwaitServerReady \/ ConnectClient \/ AwaitClientJoined \/ Play
    \/ DisconnectClient \/ CloseClientAndDisplay \/ SendStop \/ AwaitServerExit
    \/ Validate \/ Trouble \/ Close \/ Grace \/ CloseAll \/ Finish \/ Stop

-----------------------------------------------------------------------------
(* Processes, until run.json has its result.                               *)

Running == pc # "done" /\ UNCHANGED <<session, trackers>>

Forks == Running /\ (\E q \in Procs : Fork(q)) /\ UNCHANGED outside

\* A death nobody asked for, or that of a process that was signalled.
Dies(p) ==
    /\ Running /\ Die(p)
    /\ world' = IF p = Game /\ world = "open" THEN "lost" ELSE world
    /\ link' = IF p \in {Game, Player} /\ link = "up" THEN "down" ELSE link
    /\ UNCHANGED clean

GameOpens ==
    /\ Running /\ Live(Game) /\ world = "none"
    /\ world' = "open"
    /\ UNCHANGED <<processes, link, clean>>

\* Told on its console, the game saves and exits. What it does on a SIGTERM is
\* read by nobody: that is a death like any other.
GameSaves ==
    /\ Running /\ Die(Game)
    /\ world = "open" /\ told /\ Game \notin killed
    /\ world' = "saved"
    /\ link' = IF link = "up" THEN "down" ELSE link
    /\ UNCHANGED clean

\* The supervisor script exits with the status of the game.
ServerExits ==
    /\ Running /\ Die(Server) /\ life[Game] = "dead"
    /\ clean' = (world = "saved")
    /\ UNCHANGED <<world, link>>

PlayerMoves ==
    /\ Running
    /\ \/ Live(Player) /\ Live(Game) /\ world = "open" /\ link = "none" /\ link' = "up"
       \/ link = "up" /\ link' = "down"
    /\ UNCHANGED <<processes, world, clean>>

Trackers == pc # "done" /\ (\E r \in Roots : Observe(r)) /\ UNCHANGED <<session, outside>>

Next ==
    \/ Session \/ Trackers \/ Forks \/ (\E p \in Procs : Dies(p))
    \/ GameOpens \/ GameSaves \/ ServerExits \/ PlayerMoves

\* Every wait of the session thread has a deadline, so it goes on.
Spec == Init /\ [][Next]_vars /\ WF_vars(Session)

-----------------------------------------------------------------------------
(* Properties.                                                             *)

TypeOK ==
    /\ TrackerType
    /\ pc \in Lifecycle \cup {"close", "grace", "closeClient", "closeDisplay",
                              "closeServer", "finish", "done"}
    /\ {failed, joined, disconnected, stopped, told, clean} \subseteq BOOLEAN
    /\ world \in {"none", "open", "saved", "lost"} /\ link \in {"none", "up", "down"}
    /\ status \in {"running", "failed", "passed"}

\* A session that reports passed had its client join and leave, its server save
\* and exit on request, and no process it has seen is
\* left, whoever crashed, hung or outlived its parent (docs/testing.md:60).
PassedSession ==
    status = "passed" =>
        /\ joined /\ link = "down" /\ told /\ clean /\ world = "saved"
        /\ \A r \in Roots : Started(r) /\ Survivors(r) = {}

\* Client and display are gone before the server is told to stop (lines 475-494).
ClosedBeforeStop ==
    pc = "exit" => Survivors(Client) = {} /\ Survivors(Display) = {}

\* However the session failed, every tracker it started has been stopped when
\* the result is written (lines 526-536, ProcessCleanup.kt:62-71).
AllStopped == status # "running" => observed = {}

\* Every session writes its result, whatever its processes do.
SessionEnds == <>(status # "running")
=============================================================================
