----------------------------- MODULE MCHttpPair -----------------------------
(* A request of every kind against one plain request. *)
EXTENDS HttpPair, TLC

CONSTANTS r1, r2

Kind(body, answer, parts, target, keep) ==
  [body |-> body, answer |-> answer, parts |-> parts, target |-> target, keep |-> keep]

Plain == Kind("none", "length", 2, "resource", TRUE)

Kinds ==
  {Plain,
   Kind("length", "chunked", 3, "resource", TRUE), Kind("chunked", "length", 3, "resource", FALSE),
   Kind("none", "http/1.0", 3, "resource", TRUE), Kind("none", "events", 3, "resource", FALSE),
   Kind("none", "malformed", 1, "resource", TRUE), Kind("none", "bad length", 2, "resource", TRUE),
   Kind("none", "length", 1, "throws", TRUE),
   Kind("length", "length", 1, "missing", TRUE), Kind("none", "length", 1, "bad", TRUE),
   Kind("none", "length", 1, "upgrade", TRUE)}

Uncalled == [Plain EXCEPT !.body = "uncalled"]

Scenario(first, second, n) == [kind |-> (r1 :> first) @@ (r2 :> second), faults |-> n]

MCScenarios ==
  {Scenario(k, Uncalled, 1) : k \in Kinds} \cup {Scenario(k, Plain, 0) : k \in Kinds}
    \cup {Scenario(Plain, Plain, 1)}

\* A response that is to end with its connection.
MCClosing == {Scenario(Kind("none", "close", 2, "resource", TRUE), Plain, 0)}

=============================================================================
