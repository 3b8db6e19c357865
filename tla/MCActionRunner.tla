--------------------------- MODULE MCActionRunner ---------------------------
(* ActionRunner for TLC: pairs of jobs over one cache.                      *)
(*  - two jobs that use the same action, and two that use different ones,   *)
(*    of which one has no action.yml at the root of its repository;         *)
(*  - a composite action that uses a JavaScript action, and a local one     *)
(*    that uses itself twice;                                               *)
(*  - one reference of every other kind.                                    *)
EXTENDS ActionRunner

Run(c) == [kind |-> "run", uses |-> None, coe |-> c]
Use(r, c) == [kind |-> "uses", uses |-> r, coe |-> c]
ADefinition(t, b, s, p) == [type |-> t, builtin |-> b, steps |-> s, post |-> p]
Simple(t) == ADefinition(t, "no", <<>>, FALSE)
Composite(s) == ADefinition("composite", "no", s, FALSE)

Defs == [setup    |-> ADefinition("js", "no", <<>>, TRUE),
         toolkit  |-> ADefinition("js", "no", <<>>, TRUE),
         output   |-> ADefinition("js", "no", <<>>, TRUE),
         comp     |-> Composite(<<Run(FALSE), Use("output", TRUE), Run(TRUE)>>),
         circle   |-> Composite(<<Run(TRUE), Use("circle", TRUE), Use("circle", FALSE)>>),
         cache    |-> ADefinition("js", "node", <<>>, TRUE),
         checkout |-> ADefinition("js", "checkout", <<>>, FALSE),
         docker   |-> Simple("docker"),
         unknown  |-> Simple("unknown"),
         invalid  |-> Simple("invalid")]

Remote == {"setup", "toolkit", "output", "cache"}
Root == {"setup", "output", "cache"}
Writers == {"comp", "output"}
ManifestStuck == [of : {"output"}, at : {"top", "sub"}, file : {"yml"}]

One(r, c, p) == [uses |-> r, coe |-> c, path |-> p]
Plain(r) == One(r, FALSE, "workspace")
Case(a, b, h) == [steps |-> [j \in Job |-> IF j = "j1" THEN a ELSE b], host |-> h]
Both == {"git", "node"}
Scenarios ==
  {Case(Plain("setup"), Plain("setup"), Both),
   Case(Plain("setup"), Plain("toolkit"), Both),
   Case(Plain("comp"), Plain("unknown"), Both),
   Case(Plain("comp"), Plain("invalid"), {}),
   Case(Plain("circle"), One("docker", TRUE, "workspace"), Both),
   Case(One("checkout", TRUE, "missing"), Plain("invalid"), Both),
   Case(One("checkout", FALSE, "existing"), Plain("unknown"), Both),
   Case(Plain("output"), One("cache", TRUE, "workspace"), {})}
TwoJobs == {"j1", "j2"}
=============================================================================
