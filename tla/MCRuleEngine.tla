---------------------------- MODULE MCRuleEngine ----------------------------
(* Instances of RuleEngine for TLC. *)
EXTENDS RuleEngine

On(field, accepts) == [field |-> field, name |-> "", accepts |-> accepts, negate |-> FALSE]
CounterOver(n) == [field |-> "counter", name |-> "login", accepts |-> (n + 1)..CountMax, negate |-> FALSE]

Def(ph, action, when) ==
    [phase |-> ph, action |-> action, when |-> when, points |-> 1, counter |-> {}, ttl |-> 0]
Bump(ph, when, ttl) ==
    [phase |-> ph, action |-> "incr", when |-> when, points |-> 1, counter |-> {"login"}, ttl |-> ttl]

Post == On("path", {"login"})
NotPost == [Post EXCEPT !.negate = TRUE]

\* Brute-force protection, a bump in each phase.
Stateful == <<
    Bump("request", {Post}, 1),
    Def("request", "block", {CounterOver(1)}),
    Bump("response", {On("status", {401})}, 2) >>

\* Scoring, with an allow rule and a limiter between the scores.
Scoring == <<
    Def("request", "score", {Post}),
    Def("request", "allow", {On("arg", {"safe"})}),
    Def("request", "rate_limit", {NotPost}),
    Def("request", "log", {NotPost}),
    Def("request", "score", {On("arg", {"evil"})}),
    Def("response", "block", {On("status", {500})}) >>

\* Does not compile: a response rule that allows.
Broken == << Def("response", "allow", {On("status", {401})}) >>

MCFiles == {Stateful, Scoring, Broken}
MCCounter == {"login"}

Offer(path, args, status) == [path |-> {path}, arg |-> args, status |-> {status}]

MCFacts == {Offer("login", {"evil"}, 401), Offer("home", {"evil", "safe"}, 500)}

\* Evaluations are interchangeable, and so are clients.
MCSymmetry == Permutations(Task) \cup Permutations(IP)
=============================================================================
