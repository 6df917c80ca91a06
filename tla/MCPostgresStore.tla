--------------------------- MODULE MCPostgresStore ---------------------------
(* Processes that migrate an empty or a half-migrated schema at once before
   they execute a run; two that execute one run or two, or resume them; and
   readers of a database that changes, by every kind of filter. *)
EXTENDS PostgresStore

CONSTANTS p1, p2, r1, r2, r3, s1, s2, w1, w2

Setup(version, stamps, workflow, migrating, runs, steps, workflows, reads, filter, most, faulty) ==
  [version |-> version, migrating |-> migrating, created |-> stamps,
   rows |-> [r \in Runs |-> IF stamps[r] = 0 THEN NoRow
                            ELSE [status |-> "pending", task |-> None, workflow |-> workflow[r]]],
   runs |-> runs, steps |-> steps, workflows |-> workflows, reads |-> reads, filter |-> filter,
   starts |-> most, faults |-> faulty]

Stamps(t1, t2, t3) == [r \in Runs |-> CASE r = r1 -> t1 [] r = r2 -> t2 [] r = r3 -> t3]
Empty == Stamps(0, 0, 0)
Same == [r \in Runs |-> w1]

Filter(status, workflow) == [status |-> status, workflow |-> workflow]
All == Filter(None, None)

MCSetups ==
  {Setup(v, Empty, Same, m, {r1}, Steps, {w1}, "none", All, 1, 2) : v \in {0, 2}, m \in {{p1}, {p1, p2}}}
    \union {Setup(Versions, Empty, Same, {}, {r1}, Steps, {w1}, "none", All, 2, 1),
            Setup(Versions, Empty, Same, {}, {r1}, {s1}, {w1}, "none", All, 3, 0),
            Setup(Versions, Stamps(1, 0, 0), Same, {}, {r1, r2}, {s1}, {w1}, "metrics", All, 2, 0)}
    \union {Setup(Versions, Stamps(1, 2, 0), Same, {}, {r1, r3}, {}, {w1}, "pages", f, 2, 0) :
              f \in {All, Filter("running", None), Filter("pending", None)}}
    \union {Setup(Versions, Stamps(1, 2, 0), [Same EXCEPT ![r2] = w2], {}, {r1, r3}, {}, Workflows,
                  "pages", Filter(None, w1), 2, 0)}
=============================================================================
