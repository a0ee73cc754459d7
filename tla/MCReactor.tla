----------------------------- MODULE MCReactor ------------------------------
(* Values for the constants of Reactor.  Three connections are never       *)
(* needed: two are enough for a descriptor to be closed and given to       *)
(* another connection.                                                     *)
EXTENDS Reactor

Sym == Permutations(Conns)

OneFd   == {1}
TwoFds  == {1, 2}
NoFault == {}
Faults  == {"reset", "pipe", "wait"}
Resets  == {"reset"}
=============================================================================
