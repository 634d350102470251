---------------------------- MODULE MCEventIntake ----------------------------
(* Three descriptors of one job: one tenant's, another's that is switched    *)
(* off, and a public feed whose events name their tenant; batches that       *)
(* repeat an event, revise one, bring one without an id or nothing.          *)
EXTENDS EventIntake, TLC

Event(provider, id, content, org) ==
  [provider |-> provider, id |-> id, content |-> content, org |-> org]

Descriptor(org, provider) == [id |-> "feed", org |-> org, provider |-> provider]

MCEnabled == {Descriptor("o1", "ais"), Descriptor(None, "quakes")}

MCJobs == MCEnabled \cup {Descriptor("o2", "ais")}

MCBatches ==
  LET a == Event("ais", "e1", "x", None)
      b == Event("ais", "e1", "y", "o1")
      c == Event("ais", None, "x", None)
      p == Event("quakes", "e1", "x", "o1")
      q == Event("quakes", "e1", "x", "o2")
  IN {<<>>, <<a, b>>, <<c, a>>, <<p, q>>}

Symmetry == Permutations(Runs)
=============================================================================
