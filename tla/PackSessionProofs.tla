------------------------- MODULE PackSessionProofs -------------------------
(***************************************************************************)
(* Proofs about a test session, for any processes it may come to have and  *)
(* any parentage among them: what a passing session shows, that client and *)
(* display are gone before the server is told to stop, and that every      *)
(* tracker has been stopped when the result is written.                    *)
(***************************************************************************)
EXTENDS PackSession, TLAPS

\* Positions of the session thread, from the last one backwards.
Stopped == {"validate"}
Told == Stopped \cup {"exit"}
Undisplayed == Told \cup {"tell"}
Left == Undisplayed \cup {"stopDisplay"}
Disconnected == Left \cup {"stopClient"}
Playing == Disconnected \cup {"play", "left"}
Connecting == Playing \cup {"join"}
Displayed == Connecting \cup {"client"}
Serving == Displayed \cup {"ready", "display"}
Cleanup == {"close", "grace", "closeClient", "closeDisplay", "closeServer", "finish", "done"}

\* A started process of which nothing that was seen is left.
Ended(r) == Started(r) /\ \A h \in handles[r] : life[h] = "dead"

\* A tracker holds only processes that have lived, and looks only for a root
\* that was started.
Traced ==
    /\ \A r \in Roots : \A h \in handles[r] : Started(h)
    /\ \A r \in observed : Started(r)

\* What the session thread has behind it at each of its positions.
Reached ==
    /\ pc \in Serving => Started(Server)
    /\ pc \in Displayed => Started(Display)
    /\ pc \in Connecting => Started(Client)
    /\ pc \in Playing => joined
    /\ pc \in Disconnected => disconnected
    /\ pc \in Left => Ended(Client)
    /\ pc \in Undisplayed => Ended(Display)
    /\ pc \in Told => told

\* What the world outside has behind it.
Witnessed ==
    /\ disconnected => link = "down"
    /\ stopped => life[Server] = "dead" /\ clean /\ world = "saved"

\* A cleanup without a failure comes after a whole session.
Unfailed ==
    /\ pc \in Cleanup /\ ~failed =>
           /\ joined /\ disconnected /\ told /\ stopped
           /\ Ended(Client) /\ Ended(Display)
    /\ pc \in {"finish", "done"} /\ ~failed => Ended(Server)

Closed ==
    /\ pc \in {"closeDisplay", "closeServer", "finish", "done"} => Client \notin observed
    /\ pc \in {"closeServer", "finish", "done"} => Display \notin observed
    /\ pc \in {"finish", "done"} => Server \notin observed

Reported ==
    /\ status # "running" => pc = "done"
    /\ status = "passed" => ~failed

SessionInv == TypeOK /\ Traced /\ Reached /\ Witnessed /\ Unfailed /\ Closed /\ Reported

-----------------------------------------------------------------------------
(* Lemmas.                                                                 *)

LEMMA SessionInit == Init => SessionInv
<1> SUFFICES ASSUME Init PROVE SessionInv
  OBVIOUS
<1>1. TypeOK
  <2>1. TrackerType
    BY TrackerAssumption DEF Init, TrackerInit, TrackerType
  <2>2. \A b \in {failed, joined, disconnected, stopped, told, clean} : b = FALSE
    BY Zenon DEF Init
  <2>3. {failed, joined, disconnected, stopped, told, clean} \subseteq BOOLEAN
    BY <2>2
  <2> QED
    BY <2>1, <2>3 DEF Init, TypeOK, Lifecycle
<1>2. Traced
  BY TrackerAssumption DEF Init, TrackerInit, Traced
<1>3. Reached /\ Witnessed /\ Unfailed /\ Closed /\ Reported
  BY DEF Init, Reached, Witnessed, Unfailed, Closed, Reported, Serving, Displayed,
         Connecting, Playing, Disconnected, Left, Undisplayed, Told, Stopped, Cleanup
<1> QED
  BY <1>1, <1>2, <1>3 DEF SessionInv

\* A look finds living processes, and none below dead ones.
LEMMA Looking ==
    ASSUME TypeOK, Traced, NEW r \in Roots
    PROVE  /\ Discovered(r) \in SUBSET Procs
           /\ \A h \in Discovered(r) : Started(h)
           /\ Ended(r) => Discovered(r) = handles[r]
BY TrackerAssumption
   DEF TypeOK, TrackerType, Traced, Discovered, Below, Live, Started, Ended

\* The steps of processes and trackers that a step of the session is made of.
TrackerStep ==
    \/ \E r \in Roots : StartProcess(r) \/ Observe(r) \/ BeginStop(r)
    \/ EndStop \/ Terminate("ask") \/ Terminate("kill")
    \/ (\E q \in Procs : Fork(q) \/ Die(q)) /\ UNCHANGED trackers
    \/ UNCHANGED <<processes, trackers>>

LEMMA StepsOfNext == [Next]_vars => TrackerStep
<1> SUFFICES ASSUME [Next]_vars PROVE TrackerStep
  OBVIOUS
<1>0. /\ Server \in Roots /\ Client \in Roots /\ Display \in Roots
      /\ Server \in Procs /\ Game \in Procs
  BY SessionAssumption, TrackerAssumption
<1>1. CASE UNCHANGED vars
  BY <1>1 DEF vars, TrackerStep
<1>2. CASE Session
  BY <1>0, <1>2
     DEF Session, StartServer, AwaitServerReady, ConnectClient, AwaitClientJoined, Play,
         DisconnectClient, CloseClientAndDisplay, SendStop, AwaitServerExit, Validate,
         Trouble, Close, Grace, CloseAll, Finish, Stop, StartRoot, StopRoot, CloseRoot,
         TrackerStep
<1>3. CASE Trackers
  BY <1>3 DEF Trackers, TrackerStep
<1>4. CASE Forks \/ \E p \in Procs : Dies(p)
  BY <1>4 DEF Forks, Dies, Running, TrackerStep
<1>5. CASE GameOpens \/ GameSaves \/ ServerExits \/ PlayerMoves
  BY <1>0, <1>5 DEF GameOpens, GameSaves, ServerExits, PlayerMoves, Running, TrackerStep
<1> QED
  BY <1>1, <1>2, <1>3, <1>4, <1>5 DEF Next

\* What a step does to processes and trackers, whichever it is.
LEMMA TrackerStepKeeps ==
    ASSUME TypeOK, Traced, TrackerStep
    PROVE  /\ TrackerType' /\ Traced'
           /\ \A p \in Procs : Started(p) => Started(p)'
           /\ \A p \in Procs : life[p] = "dead" => life'[p] = "dead"
           /\ \A r \in Roots : Ended(r) => Ended(r)'
<1> DEFINE Kept == /\ TrackerType' /\ Traced'
                   /\ \A p \in Procs : Started(p) => Started(p)'
                   /\ \A p \in Procs : life[p] = "dead" => life'[p] = "dead"
                   /\ \A r \in Roots : Ended(r) => Ended(r)'
<1> USE TrackerAssumption DEF TypeOK, TrackerType, Traced, Started, Ended
<1>1. ASSUME NEW r \in Roots, StartProcess(r) PROVE Kept
  BY <1>1 DEF StartProcess
<1>2. ASSUME NEW r \in Roots, Observe(r) PROVE Kept
  BY <1>2, Looking DEF Observe, processes
<1>3. ASSUME NEW r \in Roots, BeginStop(r) PROVE Kept
  BY <1>3 DEF BeginStop, processes
<1>4. CASE EndStop
  BY <1>4 DEF EndStop, processes
<1>5. ASSUME NEW how \in {"ask", "kill"}, Terminate(how) PROVE Kept
  <2>1. closing \in Roots
    BY <1>5 DEF Terminate
  <2>2. /\ handles' = [handles EXCEPT ![closing] = Discovered(closing)]
        /\ UNCHANGED <<life, observed, closing>>
        /\ killed' \subseteq killed \cup Discovered(closing)
        /\ stage' \in {"ask", "kill", "check"}
    BY <1>5, <2>1 DEF Terminate, NextStage
  <2> QED
    BY <2>1, <2>2, Looking
<1>6. ASSUME NEW q \in Procs, Fork(q) \/ Die(q), UNCHANGED trackers PROVE Kept
  BY <1>6 DEF Fork, Die, Live, trackers
<1>7. CASE UNCHANGED <<processes, trackers>>
  BY <1>7 DEF processes, trackers
<1> QED
  BY <1>1, <1>2, <1>3, <1>4, <1>5, <1>6, <1>7 DEF TrackerStep

-----------------------------------------------------------------------------
(* The invariant is inductive.                                             *)

LEMMA SessionStep == SessionInv /\ [Next]_vars => SessionInv'
<1> SUFFICES ASSUME SessionInv, [Next]_vars PROVE SessionInv'
  OBVIOUS
<1> USE DEF Serving, Displayed, Connecting, Playing, Disconnected, Left, Undisplayed, Told,
            Stopped, Cleanup
<1>a. /\ Server \in Roots /\ Client \in Roots /\ Display \in Roots
      /\ Server \in Procs /\ Client \in Procs /\ Display \in Procs
      /\ Server # Client /\ Client # Display /\ Server # Display
      /\ NoRoot \notin Roots
  BY SessionAssumption, TrackerAssumption
<1>b. /\ TrackerType' /\ Traced'
      /\ Started(Server) => Started(Server)'
      /\ Started(Client) => Started(Client)'
      /\ Started(Display) => Started(Display)'
      /\ life[Server] = "dead" => life'[Server] = "dead"
      /\ Ended(Server) => Ended(Server)'
      /\ Ended(Client) => Ended(Client)'
      /\ Ended(Display) => Ended(Display)'
  BY <1>a, StepsOfNext, TrackerStepKeeps DEF SessionInv
<1>c. TypeOK /\ Traced /\ Reached /\ Witnessed /\ Unfailed /\ Closed /\ Reported
  BY DEF SessionInv
<1> DEFINE Flags == /\ {failed, joined, disconnected, stopped, told, clean} \subseteq BOOLEAN
                    /\ world \in {"none", "open", "saved", "lost"}
                    /\ link \in {"none", "up", "down"}
                    /\ status \in {"running", "failed", "passed"}
                    /\ pc \in Lifecycle \cup Cleanup
<1>e. Flags
  BY <1>c DEF TypeOK
<1>f. SUFFICES Flags' /\ Reached' /\ Witnessed' /\ Unfailed' /\ Closed' /\ Reported'
  BY <1>b DEF SessionInv, TypeOK
<1> USE DEF Lifecycle
<1>1. CASE UNCHANGED <<session, outside, observed>>
  BY <1>1, <1>b, <1>c, <1>e
     DEF session, flags, outside, Reached, Witnessed, Unfailed, Closed, Reported
<1>2. CASE Forks \/ Trackers \/ (\E p \in Procs : Dies(p)) \/ GameOpens \/ PlayerMoves \/ GameSaves
  <2>1. UNCHANGED session /\ observed' = observed /\ clean' = clean
    BY <1>2 DEF Forks, Trackers, Dies, GameOpens, GameSaves, PlayerMoves, Running, trackers,
                outside, Observe
  <2>2. /\ world' \in {"none", "open", "saved", "lost"} /\ link' \in {"none", "up", "down"}
        /\ world = "saved" => world' = "saved"
        /\ link = "down" => link' = "down"
    BY <1>2, <1>e DEF Forks, Trackers, Dies, GameOpens, GameSaves, PlayerMoves, outside
  <2> QED
    BY <2>1, <2>2, <1>b, <1>c, <1>e
       DEF session, flags, Reached, Witnessed, Unfailed, Closed, Reported
<1>3. CASE ServerExits
  <2>1. /\ UNCHANGED session /\ observed' = observed /\ UNCHANGED <<world, link>>
        /\ clean' \in BOOLEAN /\ life[Server] = "live"
    BY <1>3 DEF ServerExits, Running, trackers, Die, Live
  <2> QED
    BY <2>1, <1>b, <1>c, <1>e
       DEF session, flags, Reached, Witnessed, Unfailed, Closed, Reported
<1>4. CASE Stop
  BY <1>4, <1>1 DEF Stop, Terminate
<1>5. CASE Trouble
  BY <1>5, <1>b, <1>c, <1>e
     DEF Trouble, At, Fail, flags, outside, trackers, Reached, Witnessed, Unfailed, Closed,
         Reported
<1>6. CASE StartServer \/ ConnectClient
  BY <1>6, <1>a, <1>b, <1>c, <1>e
     DEF StartServer, ConnectClient, StartRoot, StartProcess, At, Goto, flags, outside,
         Reached, Witnessed, Unfailed, Closed, Reported, Started, TypeOK, TrackerType
<1>7. CASE AwaitServerReady \/ Play
  BY <1>7, <1>b, <1>c, <1>e
     DEF AwaitServerReady, Play, Connected, At, Goto, flags, outside,
         trackers, Reached, Witnessed, Unfailed, Closed, Reported
<1>8. CASE AwaitClientJoined
  BY <1>8, <1>b, <1>c, <1>e
     DEF AwaitClientJoined, At, Goto, outside, trackers, Reached, Witnessed, Unfailed,
         Closed, Reported
<1>9. CASE DisconnectClient
  BY <1>9, <1>b, <1>c, <1>e
     DEF DisconnectClient, At, Goto, outside, trackers, Reached, Witnessed, Unfailed,
         Closed, Reported
<1>10. CASE CloseClientAndDisplay
  <2>1. ASSUME NEW r \in {Client, Display}, closing = r, EndStop, Survivors(r) = {},
               Started(r)
        PROVE  Ended(r)'
    BY <2>1, <1>a, <1>c DEF EndStop, processes, Survivors, Live, Started, Ended, Traced,
                            TypeOK, TrackerType
  <2>2. /\ UNCHANGED <<flags, outside, status>> /\ observed' \subseteq observed
        /\ pc \in {"stopClient", "stopDisplay"}
    BY <1>10, <1>a
       DEF CloseClientAndDisplay, StopRoot, BeginStop, EndStop, At, flags, outside
  <2>3. \/ pc' = pc /\ failed' = failed
        \/ pc' = "close" /\ failed' = TRUE
        \/ pc = "stopClient" /\ pc' = "stopDisplay" /\ failed' = failed /\ Ended(Client)'
        \/ pc = "stopDisplay" /\ pc' = "tell" /\ failed' = failed /\ Ended(Display)'
    BY <1>10, <2>1, <1>c DEF CloseClientAndDisplay, StopRoot, At, Goto, Fail, Reached
  <2> QED
    BY <2>2, <2>3, <1>b, <1>c, <1>e
       DEF flags, outside, Reached, Witnessed, Unfailed, Closed, Reported
<1>11. CASE SendStop
  BY <1>11, <1>b, <1>c, <1>e
     DEF SendStop, At, Goto, outside, trackers, Reached, Witnessed, Unfailed, Closed,
         Reported
<1>12. CASE AwaitServerExit
  <2>1. life[Server] = "dead"
    BY <1>12, <1>a, <1>c DEF AwaitServerExit, At, Live, Reached, Started, TypeOK, TrackerType
  <2> QED
    BY <2>1, <1>12, <1>b, <1>c, <1>e
       DEF AwaitServerExit, At, Goto, outside, trackers, Reached, Witnessed, Unfailed, Closed,
           Reported
<1>13. CASE Validate
  BY <1>13, <1>b, <1>c, <1>e
     DEF Validate, At, Goto, flags, outside, trackers, Reached, Witnessed, Unfailed, Closed,
         Reported
<1>14. CASE Close \/ Grace
  <2>1. /\ UNCHANGED <<joined, disconnected, stopped, outside, status, failed, trackers>>
        /\ told' \in BOOLEAN
        /\ pc \in {"close", "grace"} /\ pc' \in {"grace", "closeClient"}
    BY <1>14, <1>e DEF Close, Grace, At, Goto, flags
  <2>2. told => told'
    BY <1>14 DEF Close, Grace, flags
  <2>3. Flags'
    BY <2>1, <1>e DEF outside
  <2>4. Reached' /\ Witnessed' /\ Closed' /\ Reported'
    BY <2>1, <1>b, <1>c DEF outside, trackers, Reached, Witnessed, Closed, Reported
  <2>5. Unfailed'
    BY <2>2, <2>1, <1>b, <1>c, Zenon DEF Unfailed
  <2> QED
    BY <2>3, <2>4, <2>5
<1>15. CASE CloseAll
  <2>1. ASSUME closing = Server, EndStop, Survivors(Server) = {}, Started(Server)
        PROVE  Ended(Server)'
    BY <2>1, <1>a, <1>c DEF EndStop, processes, Survivors, Live, Started, Ended, Traced,
                            TypeOK, TrackerType
  <2>2. /\ UNCHANGED <<flags, outside, status>> /\ observed' \subseteq observed
        /\ pc \in {"closeClient", "closeDisplay", "closeServer"}
        /\ failed' \in BOOLEAN
    BY <1>15, <1>a, <1>e
       DEF CloseAll, CloseRoot, BeginStop, EndStop, At, Goto, flags, outside, trackers
  <2>3. pc' = pc => failed' = failed
    BY <1>15, <1>a DEF CloseAll, CloseRoot, At, Goto, BeginStop
  <2>4. ASSUME pc' # pc
        PROVE  \/ pc = "closeClient" /\ pc' = "closeDisplay" /\ Client \notin observed'
               \/ pc = "closeDisplay" /\ pc' = "closeServer" /\ Display \notin observed'
               \/ pc = "closeServer" /\ pc' = "finish" /\ Server \notin observed'
    BY <2>4, <1>15, <1>a, <1>c
       DEF CloseAll, CloseRoot, At, Goto, BeginStop, EndStop, trackers, Traced
  <2>5. failed => failed'
    BY <1>15 DEF CloseAll, CloseRoot, Goto
  <2>6. pc' = "finish" /\ ~failed' => Ended(Server)'
    <3> SUFFICES ASSUME pc' = "finish", ~failed' PROVE Ended(Server)'
      OBVIOUS
    <3>1. CASE ~Started(Server)
      <4>1. stopped
        BY <2>2, <2>5, <1>c, Zenon DEF Unfailed
      <4> QED
        BY <3>1, <4>1, <1>c DEF Witnessed, Started
    <3>2. CASE Started(Server)
      <4>1. closing = Server /\ EndStop /\ failed' = (failed \/ Survivors(Server) # {})
        BY <3>2, <2>2, <1>15 DEF CloseAll, CloseRoot, At, Goto
      <4>2. Survivors(Server) = {}
        BY <4>1, Zenon
      <4> QED
        BY <4>1, <4>2, <3>2, <2>1
    <3> QED
      BY <3>1, <3>2
  <2>7. Flags'
    BY <2>2, <2>3, <2>4, <1>e DEF flags, outside
  <2>8. Reached' /\ Witnessed' /\ Closed' /\ Reported'
    BY <2>2, <2>3, <2>4, <1>b, <1>c DEF flags, outside, Reached, Witnessed, Closed, Reported
  <2>9. Unfailed'
    BY <2>2, <2>3, <2>4, <2>5, <2>6, <1>b, <1>c DEF flags, Unfailed
  <2> QED
    BY <2>7, <2>8, <2>9
<1>16. CASE Finish
  BY <1>16, <1>b, <1>c, <1>e
     DEF Finish, flags, outside, trackers, Reached, Witnessed, Unfailed, Closed, Reported
<1> QED
  BY <1>1, <1>2, <1>3, <1>4, <1>5, <1>6, <1>7, <1>8, <1>9, <1>10, <1>11, <1>12,
     <1>13, <1>14, <1>15, <1>16
     DEF Next, Session, vars, trackers

-----------------------------------------------------------------------------
(* Theorems.                                                               *)

LEMMA SessionInvariant == Spec => []SessionInv
BY SessionInit, SessionStep, PTL DEF Spec

\* Every variable of the session keeps its type, and a tracker is between two
\* stages of a stop exactly while there is a root being stopped.
THEOREM SessionTypeCorrect == Spec => []TypeOK
<1>1. SessionInv => TypeOK
  BY DEF SessionInv
<1> QED
  BY <1>1, SessionInvariant, PTL

\* A session reports passed only after its client joined and left, its server
\* saved and exited on request, and no process it has seen is left, whatever
\* processes there are and whenever they fork, die or hang (PackSession.kt
\* 475-536).
THEOREM PassedSessionsWhole == Spec => []PassedSession
<1>1. SessionInv => PassedSession
  BY SessionAssumption
     DEF SessionInv, Reported, Unfailed, Witnessed, PassedSession, Cleanup, Ended, Survivors,
         Live
<1> QED
  BY <1>1, SessionInvariant, PTL

\* Client and display are gone before the server is told to stop, however they
\* take the signals (disconnectClient).
THEOREM ClientGoneFirst == Spec => []ClosedBeforeStop
<1>1. SessionInv => ClosedBeforeStop
  BY DEF SessionInv, Reached, ClosedBeforeStop, Left, Undisplayed, Told, Ended, Survivors, Live
<1> QED
  BY <1>1, SessionInvariant, PTL

\* Every tracker has been stopped when the result is written, although any of
\* the stops may have failed (closeAll).
THEOREM EveryTrackerStopped == Spec => []AllStopped
<1>1. SessionInv => AllStopped
  BY SessionAssumption DEF SessionInv, TypeOK, TrackerType, Reported, Closed, AllStopped
<1> QED
  BY <1>1, SessionInvariant, PTL
=============================================================================
