--------------------------- MODULE MCConfigJournal ---------------------------
(***************************************************************************)
(* Small instances of ConfigJournal.                                       *)
(*                                                                         *)
(* Java bodies: "plain" captures nothing sensitive; "spy" captures "ssn"   *)
(* and shares a rule name with "plain"; "other" shares a metric with       *)
(* "plain".  Collector documents: "east" and "west" have disjoint          *)
(* selectors, "all" overlaps both.                                         *)
(***************************************************************************)
EXTENDS ConfigJournal, TLC

MCCaptures == ("plain" :> {}) @@ ("spy" :> {"ssn"}) @@ ("other" :> {}) @@ ("small" :> {})
MCMetrics  == ("plain" :> {"m1"}) @@ ("spy" :> {"m2"}) @@ ("other" :> {"m1"}) @@ ("small" :> {})
MCRules    == ("plain" :> {"r1"}) @@ ("spy" :> {"r1"}) @@ ("other" :> {"r2"}) @@ ("small" :> {})
MCScope    == ("east" :> {"a1"}) @@ ("west" :> {"a2"}) @@ ("all" :> {"a1", "a2"})

HandlerSymmetry == Permutations(Handlers)

=============================================================================
