--------------------------- MODULE MCResumableRun ---------------------------
(* Small documents for ResumableRun. *)
EXTENDS ResumableRun

Step(name) == Item(name, "step", <<>>)
Wait(name) == Item(name, "wait", <<>>)
Listen(name) == Item(name, "listen", <<>>)
Do(name, body) == Item(name, "do", body)

\* Tasks in list order: alone, around a timer, in a nested body, and a timer
\* as the first and as the last task.
MCSequential ==
  {<<Step("a"), Step("b"), Step("c")>>,
   <<Step("a"), Wait("pause"), Step("b")>>,
   <<Wait("pause"), Do("branch", <<"a", "b">>), Wait("again")>>,
   <<Do("branch", <<"a", "b", "c">>), Step("d")>>,
   <<Step("a"), Do("branch", <<"b", "c">>)>>}

\* Every other construct of the task list.
MCOther ==
  {<<Then(Step("a"), "c"), Step("b"), Step("c")>>,
   <<Step("a"), Then(Step("b"), "end"), Step("c")>>,
   <<[Item("choose", "switch", <<>>) EXCEPT !.routes = {"b", "c"}],
     Then(Step("b"), "end"), Step("c")>>,
   <<Step("a"), Step("b"), Listen("approval"), Step("c")>>,
   <<Item("each", "for", <<"a", "b">>), Step("c")>>,
   <<[Item("choose", "switch", <<>>) EXCEPT !.routes = {"b", "end"}, !.default = "c"],
     Step("b"), Step("c")>>,
   <<Item("race", "fork", <<"a", "b">>), Step("c")>>,
   <<Then(Item("race", "fork", <<"a", "b">>), "end"), Then(Step("c"), "exit"), Step("d")>>,
   <<[Item("attempt", "try", <<"a", "b">>) EXCEPT !.handler = <<"c", "d">>],
     Step("e")>>,
   <<Then(Step("b"), "a"), Item("race", "fork", <<"a", "c">>)>>,
   <<Step("a"), Then(Step("b"), "a"), Step("c")>>}

MCDocuments == MCSequential \union MCOther

\* Documents of which a resumed run executes what it should not: a task that
\* then passes over, and the tasks before a listen.
MCStray ==
  {<<Then(Step("a"), "c"), Step("b"), Step("c")>>,
   <<Step("a"), Step("b"), Listen("approval"), Step("c")>>}
=============================================================================
