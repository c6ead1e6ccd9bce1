------------------------ MODULE RecipeLoadingProofs ------------------------
(***************************************************************************)
(* What holds of every pack of scripts: what a script decided stands, and  *)
(* recipes that guard a gate keep it shut to whoever has not been where it *)
(* opens. RecipeRules and RecipeLoading declare no RECURSIVE operator.     *)
(***************************************************************************)
EXTENDS RecipeLoading, TLAPS

-----------------------------------------------------------------------------
(* Lemmas about the rules.                                                 *)

\* A rewritten route comes from a route that was not cut, of the same item
\* and origin.
LEMMA LeftFromNative ==
    ASSUME NEW rules, NEW routes, NEW n \in LeftBy(rules, routes)
    PROVE  \E m \in routes :
              /\ ~Cuts(rules, m)
              /\ n = Rewritten(rules, m)
              /\ \A r : IsAbout(r, n) <=> IsAbout(r, m)
<1>1. PICK m \in routes : ~Cuts(rules, m) /\ n = Rewritten(rules, m)
  BY DEF LeftBy
<1>2. n.out = m.out /\ n.from = m.from
  BY <1>1 DEF Rewritten
<1>3. \A r : IsAbout(r, n) <=> IsAbout(r, m)
  BY <1>2 DEF IsAbout
<1> QED
  BY <1>1, <1>3

\* Rewriting takes from a route only what an amendment of the script spares.
LEMMA RewritingSpares ==
    ASSUME NEW rules, NEW m, NEW x \in m.needs, x \notin Spared(rules)
    PROVE  x \in Rewritten(rules, m).needs
<1>1. Of(Amending(rules, m), {"amend"}) \subseteq Of(rules, {"amend"})
  BY DEF Of, Amending
<1>2. x \notin Spared(Amending(rules, m))
  BY <1>1 DEF Spared
<1> QED
  BY <1>2 DEF Rewritten

\* A script that does not cut the route gates it as it says.
LEMMA ScriptDecides ==
    ASSUME NEW rules, NEW m, ~Cuts(rules, m),
           NEW r \in Of(rules, {"remove", "remake", "require"}), IsAbout(r, m)
    PROVE  r.kind = "require" /\ r.needs \subseteq Rewritten(rules, m).needs
<1>1. r \in rules /\ r.kind \in {"remove", "remake", "require"}
  BY DEF Of
<1>2. r.kind \notin {"remove", "remake"}
  BY <1>1 DEF Cuts, Of
<1>3. r.kind = "require"
  BY <1>1, <1>2
<1>4. r \in {q \in Of(rules, {"require"}) : IsAbout(q, m)}
  BY <1>1, <1>3 DEF Of
<1>5. r.needs \subseteq Added(rules, m)
  BY <1>4 DEF Added
<1> QED
  BY <1>3, <1>5 DEF Rewritten

-----------------------------------------------------------------------------
(* Type correctness, with what holds until the recipes are loaded.         *)

Loading ==
    /\ world \in Worlds
    /\ scripts = Scripts[world]
    /\ ran \in 0 .. Len(scripts)
    /\ ~Loaded => visited = {} /\ held = Home

LEMMA LoadingStep == Loading /\ [Next]_vars => Loading'
<1> SUFFICES ASSUME Loading, [Next]_vars
             PROVE  Loading'
  OBVIOUS
<1> USE DEF Loading
<1>0. Len(scripts) \in Nat /\ DOMAIN scripts = 1 .. Len(scripts)
  BY ScriptsAssumption
<1>1. CASE RunScript
  BY <1>0, <1>1 DEF RunScript, Loaded, server, players
<1>2. CASE Craft
  BY <1>2 DEF Craft, Loaded, server
<1>3. CASE Visit
  BY <1>3 DEF Visit, Loaded, server
<1>4. CASE UNCHANGED vars
  BY <1>4 DEF vars, Loaded
<1> QED
  BY <1>1, <1>2, <1>3, <1>4 DEF Next

LEMMA LoadingInit == Init => Loading
  BY ScriptsAssumption DEF Init, Loading

LEMMA AlwaysLoading == Spec => []Loading
  BY LoadingInit, LoadingStep, PTL DEF Spec

\* What is made is the item of a route.
LEMMA CraftableFromRoutes == Craftable \subseteq {r.out : r \in Routes}
  BY DEF Craftable, MadeBy, Routes

\* TypeOK: players have only what they found where they have been, or what
\* some route makes.
THEOREM TypeCorrect == Spec => []TypeOK
<1>1. Init => TypeOK
  BY ScriptsAssumption DEF Init, TypeOK
<1>2. TypeOK /\ Loading /\ Loading' /\ [Next]_vars => TypeOK'
  <2> SUFFICES ASSUME TypeOK, Loading, Loading', [Next]_vars
               PROVE  TypeOK'
    OBVIOUS
  <2>1. CASE RunScript
    <3>1. held' = Home /\ visited' = visited
      BY <2>1 DEF RunScript, Loading, players
    <3> QED
      BY <2>1, <3>1 DEF TypeOK, Loading
  <2>2. CASE Craft
    <3>1. Routes' = Routes /\ UNCHANGED <<server, ran, visited>>
      BY <2>2 DEF Craft, Routes
    <3>2. held' \subseteq held \cup {r.out : r \in Routes}
      BY <2>2, CraftableFromRoutes DEF Craft
    <3> QED
      BY <3>1, <3>2 DEF TypeOK, server
  <2>3. CASE Visit
    <3>1. Routes' = Routes /\ UNCHANGED <<server, ran>>
      BY <2>3 DEF Visit, Routes
    <3>2. PICK s \in Sites \ visited :
             visited' = visited \cup {s} /\ held' = held \cup Finds[s]
      BY <2>3 DEF Visit
    <3>3. visited' \subseteq Sites
      BY <3>2 DEF TypeOK
    <3>4. FoundAt(visited') = FoundAt(visited) \cup Finds[s]
      BY <3>2 DEF FoundAt
    <3>5. held' \subseteq Home \cup FoundAt(visited') \cup {r.out : r \in Routes'}
      BY <3>1, <3>2, <3>4 DEF TypeOK
    <3> QED
      BY <3>1, <3>3, <3>5 DEF TypeOK, server
  <2>4. CASE UNCHANGED vars
    BY <2>4 DEF vars, TypeOK, Routes
  <2> QED
    BY <2>1, <2>2, <2>3, <2>4 DEF Next
<1> QED
  BY <1>1, <1>2, AlwaysLoading, PTL DEF Spec

-----------------------------------------------------------------------------
(* What a script decides stands.                                           *)

\* The next script leaves standing what those before it decided.
LEMMA ScriptsStandStep ==
    ASSUME NothingSpared, Loading, ScriptsStand, RunScript
    PROVE  ScriptsStand'
<1> DEFINE rules == scripts[ran + 1]
           Deciding == {"remove", "remake", "require"}
<1>1. /\ world \in Worlds /\ scripts = Scripts[world]
      /\ ran \in Nat /\ Len(scripts) \in Nat /\ ran + 1 \in DOMAIN scripts
      /\ DOMAIN scripts = 1 .. Len(scripts)
  BY ScriptsAssumption DEF Loading, RunScript, Loaded
<1>2. ran' = ran + 1 /\ scripts' = scripts /\ native' = LeftBy(rules, native)
  BY DEF RunScript, server
<1> HIDE DEF rules, Deciding
<1>3. SUFFICES ASSUME NEW i \in 1 .. (ran + 1), NEW r \in Of(scripts[i], Deciding),
                      NEW n \in LeftBy(rules, native), IsAbout(r, n)
               PROVE  r.kind = "require" /\ r.needs \subseteq n.needs
  BY <1>2 DEF ScriptsStand, Deciding
<1>4. PICK m \in native : /\ ~Cuts(rules, m)
                          /\ n = Rewritten(rules, m)
                          /\ IsAbout(r, m)
  BY <1>3, LeftFromNative
<1>5. CASE i = ran + 1
  <2>1. r \in Of(rules, Deciding)
    BY <1>3, <1>5 DEF rules
  <2> QED
    BY <2>1, <1>4, ScriptDecides DEF Deciding
<1>6. CASE i \in 1 .. ran
  <2>1. r.kind = "require" /\ r.needs \subseteq m.needs
    BY <1>3, <1>4, <1>6 DEF ScriptsStand, Deciding
  <2>2. r \in Of(Scripts[world][i], {"require"})
    BY <1>1, <1>3, <2>1 DEF Of
  <2>3. i \in DOMAIN Scripts[world] /\ ran + 1 \in DOMAIN Scripts[world]
    BY <1>1, <1>6
  <2>4. r.needs \cap Spared(Scripts[world][ran + 1]) = {}
    BY <1>1, <2>2, <2>3 DEF NothingSpared
  <2>5. r.needs \cap Spared(rules) = {}
    BY <1>1, <2>4 DEF rules
  <2>6. ASSUME NEW x \in r.needs
        PROVE  x \in n.needs
    <3>1. x \in m.needs /\ x \notin Spared(rules)
      BY <2>1, <2>5
    <3>2. x \in Rewritten(rules, m).needs
      BY <3>1, RewritingSpares
    <3> QED
      BY <3>2, <1>4
  <2> QED
    BY <2>1, <2>6
<1> QED
  BY <1>1, <1>3, <1>5, <1>6

\* ScriptsStand: of any scripts no amendment of which spares what a script
\* requires, in any order, a removal and a requirement stand for good.
THEOREM DecisionsStand ==
    ASSUME NothingSpared
    PROVE  Spec => []ScriptsStand
<1>1. Init => ScriptsStand
  BY SMT DEF Init, ScriptsStand
<1>2. Loading /\ ScriptsStand /\ [Next]_vars => ScriptsStand'
  <2> SUFFICES ASSUME Loading, ScriptsStand, [Next]_vars
               PROVE  ScriptsStand'
    OBVIOUS
  <2>1. CASE RunScript
    BY <2>1, ScriptsStandStep
  <2>2. CASE UNCHANGED <<scripts, ran, native>>
    BY <2>2 DEF ScriptsStand
  <2>3. Craft \/ Visit \/ UNCHANGED vars => UNCHANGED <<scripts, ran, native>>
    BY DEF Craft, Visit, vars, server
  <2> QED
    BY <2>1, <2>2, <2>3 DEF Next
<1> QED
  BY <1>1, <1>2, AlwaysLoading, PTL DEF Spec

-----------------------------------------------------------------------------
(* A guarded gate opens with a key or where one of its items is found.     *)

AllGuarded == \A gate \in Gates[world] : Guarded(gate.items, Guard(gate))

\* Routes are guarded once they are loaded, and stay so.
GateInv == GatesHold /\ (Loaded => AllGuarded)

\* When the recipes are loaded nothing changes them.
LEMMA RecipesStay ==
    ASSUME Loaded, [Next]_vars
    PROVE  Loaded' /\ Routes' = Routes /\ UNCHANGED <<world, scripts, ran, native, queued>>
<1>1. UNCHANGED <<world, scripts, ran, native, queued>>
  BY DEF Next, RunScript, Craft, Visit, vars, server
<1> QED
  BY <1>1 DEF Loaded, Routes

\* A round of crafting opens no gate that was shut.
LEMMA CraftOpensNoGate ==
    ASSUME NEW gate, Guarded(gate.items, Guard(gate)), Holds(gate), Craft
    PROVE  Holds(gate)'
<1>1. held' = held \cup Craftable /\ visited' = visited
  BY DEF Craft
<1>2. SUFFICES ASSUME held' \cap gate.items # {}
               PROVE  \/ held' \cap gate.keys # {}
                      \/ \E s \in visited : Finds[s] \cap gate.items # {}
  BY <1>1 DEF Holds
<1>3. CASE held \cap gate.items # {}
  BY <1>1, <1>3 DEF Holds
<1>4. CASE held \cap gate.items = {}
  <2>1. PICK r \in Routes : r.needs \subseteq held /\ r.out \in gate.items
    BY <1>1, <1>2, <1>4 DEF Craftable, MadeBy, Routes
  <2>2. r.needs \cap (gate.items \cup gate.keys) # {}
    BY <2>1 DEF Guarded, Guard
  <2> QED
    BY <1>1, <1>4, <2>1, <2>2
<1> QED
  BY <1>3, <1>4

\* No step opens a gate that loaded recipes guard.
LEMMA HoldsStep ==
    ASSUME NEW gate, Loading, Loading', Home \cap gate.items = {},
           Loaded => Guarded(gate.items, Guard(gate)), Holds(gate), [Next]_vars
    PROVE  Holds(gate)'
<1>1. CASE RunScript
  <2>1. held' = Home
    BY <1>1 DEF RunScript, Loading, players
  <2> QED
    BY <2>1 DEF Holds
<1>2. CASE Craft
  BY <1>2, CraftOpensNoGate DEF Craft
<1>3. CASE Visit
  <2>1. PICK s \in Sites \ visited :
           visited' = visited \cup {s} /\ held' = held \cup Finds[s]
    BY <1>3 DEF Visit
  <2> QED
    BY <2>1 DEF Holds
<1>4. CASE UNCHANGED vars
  BY <1>4 DEF vars, Holds
<1> QED
  BY <1>1, <1>2, <1>3, <1>4 DEF Next

\* GatesHold: whatever the scripts, if the recipes they leave guard a gate no
\* order of visits and crafting opens it but through its keys and its sites.
THEOREM GuardedGatesHold == Spec /\ []GatesGuarded => []GatesHold
<1>1. Init /\ GatesGuarded => GateInv
  <2>1. Init => Loading /\ held = Home /\ visited = {}
    BY LoadingInit DEF Init
  <2> QED
    BY <2>1, GatesAssumption DEF GatesGuarded, GateInv, AllGuarded, GatesHold, Holds, Loading
<1>2. Loading /\ Loading' /\ GatesGuarded' /\ GateInv /\ [Next]_vars => GateInv'
  <2> SUFFICES ASSUME Loading, Loading', GatesGuarded', GateInv, [Next]_vars
               PROVE  GateInv'
    OBVIOUS
  <2>1. world' = world
    BY DEF Next, RunScript, Craft, Visit, vars, server
  <2>2. ASSUME NEW gate \in Gates[world]
        PROVE  Holds(gate)'
    <3>1. Home \cap gate.items = {}
      BY GatesAssumption DEF Loading
    <3> QED
      BY <3>1, HoldsStep DEF GateInv, GatesHold, AllGuarded
  <2>3. CASE Loaded
    <3>1. Loaded' /\ Routes' = Routes
      BY <2>3, RecipesStay
    <3> QED
      BY <2>1, <2>2, <2>3, <3>1 DEF GateInv, GatesHold, AllGuarded, Guarded
  <2>4. CASE ~Loaded
    <3>1. visited' = {}
      BY <2>4 DEF Loading, Next, RunScript, Craft, Visit, vars, players
    <3> QED
      BY <2>1, <2>2, <3>1 DEF GateInv, GatesHold, AllGuarded, GatesGuarded
  <2> QED
    BY <2>3, <2>4
<1>3. GateInv => GatesHold
  BY DEF GateInv
<1> QED
  BY <1>1, <1>2, <1>3, AlwaysLoading, PTL DEF Spec

-----------------------------------------------------------------------------
(* Where the routes of a loaded world come from.                           *)

\* A native route goes back to one the pack came with, which no script has
\* cut; unless an amendment is about it, it needs what it did and what it was
\* given.
Descends(n, m) ==
    /\ n.out = m.out /\ n.from = m.from
    /\ \A i \in 1 .. ran : ~Cuts(scripts[i], m)
    /\ (\A i \in 1 .. ran : \A r \in Of(scripts[i], {"amend"}) : ~IsAbout(r, m)) =>
           m.needs \cup UNION {Added(scripts[i], m) : i \in 1 .. ran} \subseteq n.needs

\* A queued route is one the rules author, or the copy of a native one.
WrittenBy(rules, q) ==
    q \in Authored(rules) \/ \E c \in Of(rules, {"copy"}) : q.out \in c.outs

History ==
    /\ \A n \in native : \E m \in Native[world] : Descends(n, m)
    /\ \A m \in Native[world] :
          (\A i \in 1 .. ran : ~Cuts(scripts[i], m)) =>
              \E n \in native : n.out = m.out /\ n.from = m.from
    /\ \A q \in queued : \E i \in 1 .. ran : WrittenBy(scripts[i], q)
    /\ \A i \in 1 .. ran : Authored(scripts[i]) \subseteq queued

\* Cuts, additions and amendments look at the item and origin of a route.
LEMMA AboutTheSame ==
    ASSUME NEW n, NEW m, n.out = m.out, n.from = m.from, NEW rules
    PROVE  /\ \A r : IsAbout(r, n) <=> IsAbout(r, m)
           /\ Cuts(rules, n) <=> Cuts(rules, m)
           /\ Added(rules, n) = Added(rules, m)
<1>1. \A r : IsAbout(r, n) <=> IsAbout(r, m)
  BY DEF IsAbout
<1> QED
  BY <1>1 DEF Cuts, Added

\* A route that no amendment is about needs what it did and what is added.
LEMMA RewritingAdds ==
    ASSUME NEW rules, NEW m, \A r \in Of(rules, {"amend"}) : ~IsAbout(r, m)
    PROVE  m.needs \cup Added(rules, m) \subseteq Rewritten(rules, m).needs
<1>1. Amending(rules, m) = {}
  BY DEF Amending
<1>2. Spared(Amending(rules, m)) = {}
  BY <1>1 DEF Spared, Of
<1> QED
  BY <1>2 DEF Rewritten

\* The next script takes a native route on, if it leaves it.
LEMMA DescentGoesOn ==
    ASSUME Loading, ~Loaded, ran' = ran + 1, scripts' = scripts,
           NEW p, NEW m, Descends(p, m), ~Cuts(scripts[ran + 1], p),
           NEW n, n = Rewritten(scripts[ran + 1], p)
    PROVE  Descends(n, m)'
<1> DEFINE rules == scripts[ran + 1]
<1>1. 1 .. ran' = (1 .. ran) \cup {ran + 1}
  BY ScriptsAssumption DEF Loading, Loaded
<1>2. n.out = p.out /\ n.from = p.from /\ p.out = m.out /\ p.from = m.from
  BY DEF Rewritten, Descends
<1>3. ~Cuts(rules, m) /\ Added(rules, p) = Added(rules, m)
  BY <1>2, AboutTheSame
<1>4. \A i \in 1 .. ran' : ~Cuts(scripts[i], m)
  BY <1>1, <1>3 DEF Descends
<1>5. ASSUME \A i \in 1 .. ran' : \A r \in Of(scripts[i], {"amend"}) : ~IsAbout(r, m)
      PROVE  m.needs \cup UNION {Added(scripts[i], m) : i \in 1 .. ran'} \subseteq n.needs
  <2>1. m.needs \cup UNION {Added(scripts[i], m) : i \in 1 .. ran} \subseteq p.needs
    BY <1>1, <1>5 DEF Descends
  <2>2. \A r \in Of(rules, {"amend"}) : ~IsAbout(r, p)
    BY <1>1, <1>2, <1>5, AboutTheSame
  <2>3. p.needs \cup Added(rules, p) \subseteq n.needs
    BY <2>2, RewritingAdds
  <2>4. UNION {Added(scripts[i], m) : i \in 1 .. ran'}
            = (UNION {Added(scripts[i], m) : i \in 1 .. ran}) \cup Added(rules, m)
    BY <1>1
  <2> QED
    BY <1>3, <2>1, <2>3, <2>4
<1> QED
  BY <1>2, <1>4, <1>5 DEF Descends

\* What a script queues it authors or copies.
LEMMA QueuedIsWritten ==
    ASSUME NEW rules, NEW routes, NEW q \in QueuedBy(rules, routes)
    PROVE  WrittenBy(rules, q)
<1>1. CASE q \in Authored(rules)
  BY <1>1 DEF WrittenBy
<1>2. CASE q \notin Authored(rules)
  <2>1. PICK n \in routes : q \in Counterparts(rules, n)
    BY <1>2 DEF QueuedBy
  <2>2. PICK c \in Of(rules, {"copy"}) : IsAbout(c, n) /\ q.out = n.out
    BY <2>1 DEF Counterparts
  <2> QED
    BY <2>2 DEF WrittenBy, IsAbout
<1> QED
  BY <1>1, <1>2

LEMMA HistoryInit == Init => History
<1> SUFFICES ASSUME Init
             PROVE  History
  OBVIOUS
<1>1. ran = 0 /\ native = Native[world] /\ queued = {} /\ 1 .. ran = {}
  BY DEF Init
<1>2. \A n \in native : Descends(n, n)
  BY <1>1 DEF Descends
<1> QED
  BY <1>1, <1>2 DEF History

LEMMA HistoryStep == Loading /\ History /\ [Next]_vars => History'
<1> SUFFICES ASSUME Loading, History, [Next]_vars
             PROVE  History'
  OBVIOUS
<1>1. CASE RunScript
  <2> DEFINE rules == scripts[ran + 1]
  <2>1. /\ ~Loaded /\ ran' = ran + 1 /\ scripts' = scripts /\ world' = world
        /\ native' = LeftBy(rules, native)
        /\ queued' = queued \cup QueuedBy(rules, native)
    BY <1>1 DEF RunScript, server
  <2>2. 1 .. ran' = (1 .. ran) \cup {ran + 1}
    BY <2>1, ScriptsAssumption DEF Loading, Loaded
  <2>3. ASSUME NEW n \in native'
        PROVE  \E m \in Native[world'] : Descends(n, m)'
    <3>1. PICK p \in native : ~Cuts(rules, p) /\ n = Rewritten(rules, p)
      BY <2>1 DEF LeftBy
    <3>2. PICK m \in Native[world] : Descends(p, m)
      BY DEF History
    <3>3. Descends(n, m)'
      BY <2>1, <3>1, <3>2, DescentGoesOn
    <3> QED
      BY <2>1, <3>3
  <2>4. ASSUME NEW m \in Native[world'], \A i \in 1 .. ran' : ~Cuts(scripts'[i], m)
        PROVE  \E n \in native' : n.out = m.out /\ n.from = m.from
    <3>1. PICK p \in native : p.out = m.out /\ p.from = m.from
      BY <2>1, <2>2, <2>4 DEF History
    <3>2. ~Cuts(rules, p)
      BY <2>1, <2>2, <2>4, <3>1, AboutTheSame
    <3>3. Rewritten(rules, p) \in native'
      BY <2>1, <3>2 DEF LeftBy
    <3>4. Rewritten(rules, p).out = m.out /\ Rewritten(rules, p).from = m.from
      BY <3>1 DEF Rewritten
    <3> QED
      BY <3>3, <3>4
  <2>5. ASSUME NEW q \in queued'
        PROVE  \E i \in 1 .. ran' : WrittenBy(scripts'[i], q)
    <3>1. CASE q \in queued
      BY <2>1, <2>2, <3>1 DEF History
    <3>2. CASE q \in QueuedBy(rules, native)
      BY <2>1, <2>2, <3>2, QueuedIsWritten
    <3> QED
      BY <2>1, <3>1, <3>2
  <2>6. \A i \in 1 .. ran' : Authored(scripts'[i]) \subseteq queued'
    BY <2>1, <2>2 DEF History, QueuedBy
  <2> QED
    BY <2>3, <2>4, <2>5, <2>6 DEF History
<1>2. CASE UNCHANGED <<world, scripts, ran, native, queued>>
  BY <1>2 DEF History, Descends
<1>3. Craft \/ Visit \/ UNCHANGED vars => UNCHANGED <<world, scripts, ran, native, queued>>
  BY DEF Craft, Visit, vars, server
<1> QED
  BY <1>1, <1>2, <1>3 DEF Next

LEMMA AlwaysHistory == Spec => []History
  BY HistoryInit, HistoryStep, AlwaysLoading, PTL DEF Spec

-----------------------------------------------------------------------------
(* That a gate is guarded can be seen of the scripts one at a time.        *)

\* The rules author no route to the items past the guard, and copy none.
WritesGuarded(rules, items, guard) ==
    \A r \in rules : r.outs \cap items # {} =>
        /\ r.kind \in {"make", "remake"} => r.needs \cap guard # {}
        /\ r.kind # "copy"

\* Some script removes the native route, or it needs or is given something of
\* the guard and no amendment is about it.
GivenGuard(order, n, guard) ==
    \/ \E i \in DOMAIN order : Cuts(order[i], n)
    \/ /\ n.needs \cap guard # {} \/ \E i \in DOMAIN order : Added(order[i], n) \cap guard # {}
       /\ \A i \in DOMAIN order : \A r \in Of(order[i], {"amend"}) : ~IsAbout(r, n)

\* The scripts of a world seal the items off by the guard.
Sealed(w, items, guard) ==
    /\ \A i \in DOMAIN Scripts[w] : WritesGuarded(Scripts[w][i], items, guard)
    /\ \A n \in Native[w] : n.out \in items => GivenGuard(Scripts[w], n, guard)
    /\ \A r \in Kept : r.out \in items => r.needs \cap guard # {}

LEMMA SealedIsGuarded ==
    ASSUME Loading, History, Loaded, NEW items, NEW guard, Sealed(world, items, guard)
    PROVE  Guarded(items, guard)
<1>1. scripts = Scripts[world] /\ DOMAIN scripts = 1 .. ran
  BY ScriptsAssumption DEF Loading, Loaded
<1>2. ASSUME NEW n \in native, n.out \in items
      PROVE  n.needs \cap guard # {}
  <2>1. PICK m \in Native[world] : Descends(n, m)
    BY DEF History
  <2>2. GivenGuard(scripts, m, guard) /\ \A i \in DOMAIN scripts : ~Cuts(scripts[i], m)
    BY <1>1, <1>2, <2>1 DEF Sealed, Descends
  <2>3. \A i \in DOMAIN scripts : \A r \in Of(scripts[i], {"amend"}) : ~IsAbout(r, m)
    BY <2>2 DEF GivenGuard
  <2>4. m.needs \cup UNION {Added(scripts[i], m) : i \in DOMAIN scripts} \subseteq n.needs
    BY <1>1, <2>1, <2>3 DEF Descends
  <2> QED
    BY <2>2, <2>4 DEF GivenGuard
<1>3. ASSUME NEW q \in queued, q.out \in items
      PROVE  q.needs \cap guard # {}
  <2>1. PICK i \in DOMAIN scripts : WrittenBy(scripts[i], q)
    BY <1>1 DEF History
  <2>2. WritesGuarded(scripts[i], items, guard)
    BY <1>1 DEF Sealed
  <2>3. q \in Authored(scripts[i])
    BY <1>3, <2>1, <2>2 DEF WrittenBy, WritesGuarded, Of
  <2>4. PICK r \in Of(scripts[i], {"make", "remake"}) : q.out \in r.outs /\ q.needs = r.needs
    BY <2>3 DEF Authored
  <2> QED
    BY <1>3, <2>2, <2>4 DEF WritesGuarded, Of
<1> QED
  BY <1>2, <1>3 DEF Guarded, Routes, Sealed

\* The gates of every world are sealed off by their items and keys.
GatesSealed ==
    \A w \in Worlds : \A gate \in Gates[w] : Sealed(w, gate.items, Guard(gate))

\* GatesGuarded: of any scripts that seal the gates, each for itself, the
\* recipes they leave together guard them, whatever the scripts cut, amend
\* and copy of each other's work.
THEOREM SealedGatesGuarded ==
    ASSUME GatesSealed
    PROVE  Spec => []GatesGuarded
<1>1. Loading /\ History => GatesGuarded
  <2> SUFFICES ASSUME Loading, History, Loaded, NEW gate \in Gates[world]
               PROVE  Guarded(gate.items, Guard(gate))
    BY DEF GatesGuarded
  <2>1. Sealed(world, gate.items, Guard(gate))
    BY DEF GatesSealed, Loading
  <2> QED
    BY <2>1, SealedIsGuarded
<1> QED
  BY <1>1, AlwaysLoading, AlwaysHistory, PTL
=============================================================================
