----------------------------- MODULE MCTaskTree -----------------------------
(* One tree for TaskTree: a race between a try under a timeout, whose body
   has a timeout of its own, and a loop. *)
EXTENDS TaskTree

MCChildren ==
  [race    |-> <<"limit", "each">>,
   limit   |-> <<"attempt">>,
   attempt |-> <<"body", "catch">>,
   body    |-> <<"guard">>,
   guard   |-> <<"call">>,
   call    |-> <<>>,
   catch   |-> <<"handle">>,
   handle  |-> <<>>,
   each    |-> <<"wait">>,
   wait    |-> <<>>]
MCNodes == DOMAIN MCChildren

MCKind ==
  [race |-> "compete", limit |-> "base", attempt |-> "try", body |-> "list",
   guard |-> "base", call |-> "leaf", catch |-> "list", handle |-> "leaf",
   each |-> "for", wait |-> "leaf"]

OnBranch == {"race", "limit", "attempt"}
MCAbove ==
  [race |-> {}, limit |-> {"race"}, attempt |-> {"race", "limit"},
   body |-> OnBranch, guard |-> OnBranch \union {"body"},
   call |-> OnBranch \union {"body", "guard"},
   catch |-> OnBranch, handle |-> OnBranch \union {"catch"},
   each |-> {"race"}, wait |-> {"race", "each"}]

MCErrors == {"fault", "denied", "suspended", "timeout", "other"}
MCOutcomes ==
  [n \in MCNodes |-> CASE n = "call"   -> {"ok", "fault", "denied"}
                       [] n = "handle" -> {"ok", "fault"}
                       [] n = "wait"   -> {"ok", "suspended"}
                       [] OTHER        -> {}]
MCCatches == [n \in MCNodes |-> MCErrors \ {"denied"}]
MCAttemptLimit == [n \in MCNodes |-> 2]
MCHealLimit == [n \in MCNodes |-> 2]
=============================================================================
