--------------------------- MODULE MCPackSession ---------------------------
(* Values of the constants of PackSession for TLC. *)
EXTENDS PackSession, TLC

CONSTANTS server, game, helper, client, player, display

AllProcs == {server, game, helper, client, player, display}
AllRoots == {server, client, display}

\* The helper is forked by the game: the one that can outlive two ancestors.
Lines == game :> {server} @@ helper :> {game, server} @@ player :> {client}
         @@ [r \in AllRoots |-> {}]
=============================================================================
