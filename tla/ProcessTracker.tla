--------------------------- MODULE ProcessTracker ---------------------------
(***************************************************************************)
(* ProcessCleanup.kt: the processes a test session starts, their           *)
(* descendants, and the trackers that are to end all of them. A tracker    *)
(* keeps every descendant it has seen, since one whose parent has exited   *)
(* is found by nobody any more; it looks every 25 ms, and while it stops.  *)
(***************************************************************************)
CONSTANTS Procs,       \* every process a session may come to have
          Roots,       \* those a ManagedProcess starts
          NoRoot,
          Line         \* per process: its parent, the parent of that, ..., its root

ASSUME TrackerAssumption ==
    /\ Roots \subseteq Procs /\ NoRoot \notin Procs
    /\ Line \in [Procs -> SUBSET Procs]
    /\ \A p \in Procs : p \notin Line[p] /\ \A a \in Line[p] : Line[a] \subseteq Line[p]
    /\ \A r \in Roots : Line[r] = {}

VARIABLES
    life,               \* per process: "unborn", "live", "dead"
    killed,             \* processes sent SIGKILL
    handles,            \* per root: the processes its tracker has seen
    observed,           \* roots whose tracker still looks periodically
    closing, stage      \* the root being stopped, and where its stop is

processes == <<life, killed>>
trackers == <<handles, observed, closing, stage>>

TrackerInit ==
    /\ life = [p \in Procs |-> "unborn"] /\ killed = {}
    /\ handles = [r \in Roots |-> {}] /\ observed = {}
    /\ closing = NoRoot /\ stage = "idle"

Live(p) == life[p] = "live"
Started(r) == life[r] # "unborn"

-----------------------------------------------------------------------------
(* Processes.                                                              *)

\* The kernel's view: q is found below h as long as all between them live.
Below(q, h) ==
    /\ Live(q) /\ h \in Line[q] /\ Live(h)
    /\ \A a \in Line[q] : h \in Line[a] => Live(a)

Parent(q) == CHOOSE a \in Line[q] : Line[q] = Line[a] \cup {a}

Fork(q) ==
    /\ life[q] = "unborn" /\ q \notin Roots
    /\ Live(Parent(q)) /\ Parent(q) \notin killed
    /\ life' = [life EXCEPT ![q] = "live"]
    /\ UNCHANGED killed

Die(p) ==
    /\ Live(p)
    /\ life' = [life EXCEPT ![p] = "dead"]
    /\ UNCHANGED killed

-----------------------------------------------------------------------------
(* Trackers.                                                               *)

\* discover
Discovered(r) == handles[r] \cup {q \in Procs : \E h \in handles[r] : Below(q, h)}

\* ManagedProcess: the process and its tracker.
StartProcess(r) ==
    /\ life[r] = "unborn"
    /\ life' = [life EXCEPT ![r] = "live"]
    /\ handles' = [handles EXCEPT ![r] = {r}]
    /\ observed' = observed \cup {r}
    /\ UNCHANGED <<killed, closing, stage>>

Observe(r) ==
    /\ r \in observed
    /\ handles' = [handles EXCEPT ![r] = Discovered(r)]
    /\ UNCHANGED <<processes, observed, closing, stage>>

\* stop; a tracker may be stopped more than once.
BeginStop(r) ==
    /\ closing = NoRoot
    /\ closing' = r /\ stage' = "ask"
    /\ UNCHANGED <<processes, handles, observed>>

NextStage == [ask |-> "kill", kill |-> "check"]

\* One round of terminate: look, signal what lives, and go on when nothing
\* does or the deadline has passed. SIGTERM has no trace of its own: a process
\* may exit at any time, and may also ignore it.
Terminate(how) ==
    /\ stage = how
    /\ handles' = [handles EXCEPT ![closing] = Discovered(closing)]
    /\ LET alive == {h \in handles'[closing] : Live(h)} IN
         /\ killed' = IF how = "kill" THEN killed \cup alive ELSE killed
         /\ \/ stage' = NextStage[how]
            \/ alive # {} /\ stage' = how
    /\ UNCHANGED <<life, observed, closing>>

Survivors(r) == {h \in handles[r] : Live(h)}

\* Variant: survivors keep the monitor of the tracker.
EndStopHolding ==
    /\ stage = "check"
    /\ observed' = observed \ {closing}
    /\ stage' = "idle"
    /\ closing' = IF Survivors(closing) = {} THEN NoRoot ELSE closing
    /\ UNCHANGED <<processes, handles>>

\* The end of stop, with or without a ProcessCleanupException.
EndStop ==
    /\ stage = "check"
    /\ observed' = observed \ {closing}
    /\ closing' = NoRoot /\ stage' = "idle"
    /\ UNCHANGED <<processes, handles>>

TrackerType ==
    /\ life \in [Procs -> {"unborn", "live", "dead"}]
    /\ killed \subseteq Procs
    /\ handles \in [Roots -> SUBSET Procs] /\ observed \subseteq Roots
    /\ closing \in Roots \cup {NoRoot}
    /\ stage \in {"idle", "ask", "kill", "check"}
    /\ closing = NoRoot <=> stage = "idle"
=============================================================================
