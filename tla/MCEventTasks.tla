---------------------------- MODULE MCEventTasks ----------------------------
(* Two tasks share a broker: listens of every strategy next to a task that
   takes their events, and a schedule over a clock of its own. *)
EXTENDS EventTasks, TLC

CONSTANTS t1, t2

Event(type, key, tag) == [type |-> type, key |-> key, tag |-> tag]

MCValues == {"order", "paid", "k1", "k2", "new", "old"}
MCNames == {"n", "m"}

\* Two keys to correlate by, and tags, one of which is the key of another
\* event.
MCEvents ==
  {Event("order", "k1", "new"), Event("order", "k2", "old"),
   Event("paid", "k1", "new"), Event("paid", "k2", "k1")}

\* Rules that bind the name n: to the key or to the tag.
ByKey == <<Rule("n", "key", NoValue)>>
KeyIsK2 == <<Rule("n", "key", "k2")>>
ByTag == <<Rule("n", "tag", NoValue)>>
ByKeyNew == <<Rule("n", "key", NoValue), Rule("m", "tag", "new")>>
NewByKey == <<Rule("m", "tag", "new"), Rule("n", "key", NoValue)>>
Order == Filter("order", <<>>)
Paid == Filter("paid", <<>>)

Listens ==
  {Listening("one", <<Filter("paid", ByKeyNew)>>, Forever, FALSE, TRUE),
   Listening("any", <<Order, Paid>>, Forever, FALSE, FALSE),
   Listening("any", <<Filter("order", KeyIsK2), Filter(NoValue, ByTag)>>,
             Until("expression", <<>>, 2), FALSE, FALSE),
   Listening("any", <<Order>>, Until("one", <<Filter("paid", ByKey)>>, 0), TRUE, FALSE),
   Listening("any", <<>>, Until("any", <<Paid, Filter("order", NewByKey)>>, 0), FALSE, FALSE),
   Listening("any", <<Order>>, Until("all", <<Order, Paid>>, 0), FALSE, FALSE),
   Listening("all", <<Filter("order", ByKey), Filter("paid", ByTag)>>, Forever, TRUE, FALSE),
   Listening("all", <<>>, Forever, FALSE, FALSE)}

Timers == {Timer("cron", 0, 3), Timer("cron", 2, 3), Timer("every", 1, 3), Timer("after", 2, 3)}

\* Every listen next to a task that takes its events, or a schedule and a
\* subscription; the others of the tasks only once.
MCSetups ==
  {(t1 :> a) @@ (t2 :> OnEvent(1)) : a \in Listens}
    \union {(t1 :> Subscription("order")) @@ (t2 :> b) : b \in Timers \union {OnEvent(2)}}
    \union {(t1 :> Listening("all", <<Paid, Order>>, Forever, FALSE, FALSE)) @@
            (t2 :> Listening("any", <<Order>>, Until("one", <<Paid>>, 0), FALSE, FALSE))}
=============================================================================
