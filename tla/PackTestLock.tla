---------------------------- MODULE PackTestLock ----------------------------
(***************************************************************************)
(* pack-test-lock.main.kts: the fail-fast lock under which one test or     *)
(* release session runs at a time. A runner is a JVM that holds a kernel   *)
(* lock, publishes owner.json, runs a session and cleans up, on its main   *)
(* thread and again in a shutdown hook. A signal starts the hook while the *)
(* main thread goes on; a kill ends both, and never the session.           *)
(***************************************************************************)
EXTENDS Naturals

CONSTANTS Runners,     \* invocations of the script, each with its own token
          NoRunner,
          Faults,      \* what may befall a runner: "signal", "kill"
          MaxFaults    \* bound: faults in a run

ASSUME RunnerAssumption ==
    /\ NoRunner \notin Runners
    /\ Faults \subseteq {"signal", "kill"}
    /\ MaxFaults \in Nat

VARIABLES
    lock,       \* the runner whose JVM holds the kernel lock
    owner,      \* the runner whose token is in owner.json
    main, hook, \* per runner: its two threads
    cleaned,    \* per runner: the unsynchronized flag
    session,    \* per runner: the command it was given
    nested,     \* per session: the answer to a runner it starts in turn
    signalled, killed,
    faults

vars == <<lock, owner, main, hook, cleaned, session, nested,
          signalled, killed, faults>>

disturbances == <<signalled, killed, faults>>

struck == signalled \cup killed

-----------------------------------------------------------------------------

Init ==
    /\ lock = NoRunner /\ owner = NoRunner
    /\ main = [r \in Runners |-> "idle"]
    /\ hook = [r \in Runners |-> "unarmed"]
    /\ cleaned = [r \in Runners |-> FALSE]
    /\ session = [r \in Runners |-> "none"]
    /\ nested = [r \in Runners |-> "none"]
    /\ signalled = {} /\ killed = {} /\ faults = 0

Main(r, from, to) == main[r] = from /\ main' = [main EXCEPT ![r] = to]

\* Variant: the lock is free when nobody has published metadata.
TryMetadata(r) ==
    /\ \/ owner = NoRunner /\ lock' = r /\ Main(r, "idle", "locked")
       \/ owner # NoRunner /\ Main(r, "idle", "off") /\ UNCHANGED lock
    /\ UNCHANGED <<owner, hook, cleaned, session, nested, disturbances>>

\* A runner that finds the lock taken exits with status 75.
TryLock(r) ==
    /\ \/ lock = NoRunner /\ lock' = r /\ Main(r, "idle", "locked")
       \/ lock # NoRunner /\ Main(r, "idle", "off") /\ UNCHANGED lock
    /\ UNCHANGED <<owner, hook, cleaned, session, nested, disturbances>>

WriteOwner(r) ==
    /\ Main(r, "locked", "published")
    /\ owner' = r
    /\ UNCHANGED <<lock, hook, cleaned, session, nested, disturbances>>

ArmHook(r) ==
    /\ Main(r, "published", "armed")
    /\ hook' = [hook EXCEPT ![r] = "armed"]
    /\ UNCHANGED <<lock, owner, cleaned, session, nested, disturbances>>

\* runChild, which may fail to start the command.
StartSession(r) ==
    /\ \/ Main(r, "armed", "waiting") /\ session' = [session EXCEPT ![r] = "running"]
       \/ Main(r, "armed", "enter") /\ UNCHANGED session
    /\ UNCHANGED <<lock, owner, hook, cleaned, nested, disturbances>>

SessionEnds(r) ==
    /\ session[r] = "running"
    /\ session' = [session EXCEPT ![r] = "ended"]
    /\ UNCHANGED <<lock, owner, main, hook, cleaned, nested, disturbances>>

\* A runner started by the session, with the token it inherited: admitted if
\* the token is the one in owner.json, without a lock of its own.
Nest(r) ==
    /\ session[r] = "running" /\ nested[r] = "none"
    /\ nested' = [nested EXCEPT ![r] = IF owner = r THEN "admitted" ELSE "refused"]
    /\ UNCHANGED <<lock, owner, main, hook, cleaned, session, disturbances>>

AwaitSession(r) ==
    /\ session[r] = "ended"
    /\ Main(r, "waiting", "enter")
    /\ UNCHANGED <<lock, owner, hook, cleaned, session, nested, disturbances>>

\* The main thread has cleaned up and exits, which starts the hook unless a
\* signal has started it already.
Exit(r) ==
    /\ Main(r, "exit", "blocked")
    /\ hook' = [hook EXCEPT ![r] = IF @ = "armed" THEN "enter" ELSE @]
    /\ UNCHANGED <<lock, owner, cleaned, session, nested, disturbances>>

-----------------------------------------------------------------------------
(* cleanup, on either thread.                                              *)

Threads == {"main", "hook"}

Thread(r, t) == IF t = "main" THEN main[r] ELSE hook[r]

Step(r, t, from, to) ==
    /\ Thread(r, t) = from
    /\ IF t = "main"
         THEN main' = [main EXCEPT ![r] = to] /\ UNCHANGED hook
         ELSE hook' = [hook EXCEPT ![r] = to] /\ UNCHANGED main

\* Variant: the main thread returns and leaves the exit to the runtime.
EndAlike(t) == "ended"

End(t) == IF t = "main" THEN "exit" ELSE "ended"

\* The two threads of a signalled runner are not ordered: either may miss the
\* other's write of the flag. On a normal exit the main thread starts the hook.
EnterCleanup(r, t) ==
    /\ \/ /\ ~cleaned[r] \/ r \in signalled
          /\ Step(r, t, "enter", "test")
          /\ cleaned' = [cleaned EXCEPT ![r] = TRUE]
       \/ cleaned[r] /\ Step(r, t, "enter", End(t)) /\ UNCHANGED cleaned
    /\ UNCHANGED <<lock, owner, session, nested, disturbances>>

TestOwner(r, t) ==
    /\ Step(r, t, "test", IF owner = r THEN "delete" ELSE "release")
    /\ UNCHANGED <<lock, owner, cleaned, session, nested, disturbances>>

DeleteOwner(r, t) ==
    /\ Step(r, t, "delete", "release")
    /\ owner' = NoRunner
    /\ UNCHANGED <<lock, cleaned, session, nested, disturbances>>

FreeLock(r) == lock' = IF lock = r THEN NoRunner ELSE lock

ReleaseLock(r, t) ==
    /\ Step(r, t, "release", End(t))
    /\ FreeLock(r)
    /\ UNCHANGED <<owner, cleaned, session, nested, disturbances>>

\* Variant: the lock is given up first, the metadata after it.
CleanupReleasing(r, t) ==
    \/ EnterCleanup(r, t) \/ TestOwner(r, t)
    \/ /\ Step(r, t, "delete", "release") /\ FreeLock(r)
       /\ UNCHANGED <<owner, cleaned, session, nested, disturbances>>
    \/ /\ Step(r, t, "release", End(t)) /\ FreeLock(r)
       /\ owner' = NoRunner
       /\ UNCHANGED <<cleaned, session, nested, disturbances>>

Cleanup(r, t) ==
    EnterCleanup(r, t) \/ TestOwner(r, t) \/ DeleteOwner(r, t) \/ ReleaseLock(r, t)

-----------------------------------------------------------------------------
(* The JVM.                                                                *)

\* The end of a JVM ends both threads and, in the kernel, its lock.
Ends(r) ==
    /\ main' = [main EXCEPT ![r] = "off"]
    /\ hook' = [hook EXCEPT ![r] = "off"]
    /\ FreeLock(r)

\* It ends when its hook has.
Halt(r) ==
    /\ hook[r] = "ended"
    /\ Ends(r)
    /\ UNCHANGED <<owner, cleaned, session, nested, disturbances>>

Alive(r) == main[r] \notin {"idle", "off"}

Strike(r, fault) ==
    /\ fault \in Faults /\ Alive(r)
    /\ faults < MaxFaults /\ faults' = faults + 1
    /\ UNCHANGED <<owner, cleaned, session, nested>>

\* Until the hook is armed a signal ends the JVM at once.
Signal(r) ==
    /\ Strike(r, "signal")
    /\ signalled' = signalled \cup {r} /\ UNCHANGED killed
    /\ \/ hook[r] = "unarmed" /\ Ends(r)
       \/ hook[r] = "armed" /\ hook' = [hook EXCEPT ![r] = "enter"] /\ UNCHANGED <<lock, main>>

Kill(r) ==
    /\ Strike(r, "kill") /\ Ends(r)
    /\ killed' = killed \cup {r} /\ UNCHANGED signalled

-----------------------------------------------------------------------------

Run(r) ==
    \/ WriteOwner(r) \/ ArmHook(r) \/ StartSession(r) \/ AwaitSession(r) \/ Exit(r)
    \/ Halt(r)
    \/ \E t \in Threads : Cleanup(r, t)

Next == \E r \in Runners : TryLock(r) \/ Run(r) \/ SessionEnds(r) \/ Nest(r)
                            \/ Signal(r) \/ Kill(r)

Spec == Init /\ [][Next]_vars

-----------------------------------------------------------------------------
(* Properties.                                                             *)

TypeOK ==
    /\ lock \in Runners \cup {NoRunner} /\ owner \in Runners \cup {NoRunner}
    /\ main \in [Runners -> {"idle", "locked", "published", "armed", "waiting", "enter",
                             "test", "delete", "release", "exit", "blocked", "off"}]
    /\ hook \in [Runners -> {"unarmed", "armed", "enter", "test", "delete", "release",
                             "ended", "off"}]
    /\ cleaned \in [Runners -> BOOLEAN]
    /\ session \in [Runners -> {"none", "running", "ended"}]
    /\ nested \in [Runners -> {"none", "admitted", "refused"}]
    /\ signalled \subseteq Runners /\ killed \subseteq Runners /\ faults \in 0..MaxFaults

\* While its session runs, a runner no fault has struck holds the lock, whatever
\* befalls the others and whichever of their threads cleans up late (65-112):
\* so no two such sessions overlap.
SessionUnderLock == \A r \in Runners \ struck : session[r] = "running" => lock = r

\* owner.json never names an undisturbed runner that no longer holds the lock:
\* the state all24_launch_main.py:1231 refuses cannot come of a normal exit.
OwnerHoldsLock == \A r \in Runners \ struck : owner = r => lock = r

\* As long as no runner has been signalled, owner.json names the runner that
\* holds a session throughout it, so that no runner nested in it is refused,
\* whoever is killed (lines 57-61 and 98-104).
OwnerPublished ==
    signalled = {} => \A r \in Runners \ killed : session[r] = "running" => owner = r
=============================================================================
