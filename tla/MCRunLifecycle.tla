--------------------------- MODULE MCRunLifecycle ---------------------------
(* Values of the constants for TLC. *)
EXTENDS RunLifecycle, FiniteSets, TLC

CONSTANT MaxInFlight   \* bound on the requests that are being served at once

MCSymmetry == Permutations(Workers)

InFlight ==
    Cardinality({w \in Workers : claim[w] # NoClaim})
    + Cardinality({n \in Attempts : beat[n]})
    + Cardinality({n \in Attempts : req[n].pc # "idle"})
    + (IF mon.pc = "idle" THEN 0 ELSE 1)
    + (IF pauser = 0 THEN 0 ELSE 1)

InFlightBounded == InFlight <= MaxInFlight
=============================================================================
