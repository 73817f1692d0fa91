----------------------------- MODULE MCOutputs -----------------------------
(* Instances of Outputs.tla for TLC. *)
EXTENDS Outputs

CONSTANTS v1, v2, a1, a2, i1, i2, o1, o2, c1, c2

Written(pins, commands, enabled, all) ==
  [pins |-> pins, execs |-> commands, enabled |-> enabled,
   all_outputs |-> all, all_workspaces |-> FALSE]

Pinned(app) == [app |-> app, icon |-> IF app = a1 THEN i1 ELSE i2]

(* One taskbar or one each; no pin, one, two of the same app; an output    *)
(* that is disabled.  A table of one command has no room for the other.    *)
MCConfigs ==
  { Written(<<>>, <<c1>>, {o1, o2}, FALSE),
    Written(<<Pinned(a1), Pinned(a1)>>, <<c2>>, {o1, o2}, TRUE),
    Written(<<Pinned(a1)>>, <<c2>>, {o2}, FALSE) }

(* Another app is pinned in the place of the first.                        *)
SwapConfigs ==
  { Written(<<Pinned(a1)>>, <<>>, {o1}, FALSE),
    Written(<<Pinned(a2)>>, <<>>, {o1}, FALSE) }
=============================================================================
