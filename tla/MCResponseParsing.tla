-------------------------- MODULE MCResponseParsing --------------------------
(* Bounds: words of 3 bits, one policy with two rules, at most MaxUpdates  *)
(* updates drawn from MCUpdates.                                           *)
EXTENDS ResponseParsing

CONSTANT MaxUpdates

MCNames    == {NoName, "p", "r", "s"}
MCLeaves   == {"byte-count", "packet-count", "other"}
MCCounters == {"byte-count", "packet-count"}

Rule(r) == [policy |-> "p", rule |-> r]

Entry(l, v) == [x \in {l} |-> v]
Upd(p, val, e) == [has_path |-> TRUE, path |-> p, val |-> val, entries |-> e]

MCUpdates ==
  {Upd(NoNames, "proto", Entry("byte-count", v)) : v \in {3, 7, 8}}
    \cup {Upd(NoNames, "proto", Entry("packet-count", -3)),
          Upd(NoNames, "proto", Entry("other", 9)),
          Upd(Rule("r"), "json", [x \in MCCounters |-> 5]),
          Upd(Rule("s"), "json", Entry("byte-count", 7)),
          Upd(Rule(NoName), "json", Entry("packet-count", 2)),
          Upd(Rule("r"), "malformed", EmptyMap),
          Upd(NoNames, "none", EmptyMap),
          [Upd(Rule("r"), "json", Entry("byte-count", 1)) EXCEPT !.has_path = FALSE]}

MCPrefixes == {Rule("r"), Rule(NoName), NoNames}

(* One way to be wrong at a time for what comes before the updates. *)
MCResponses ==
  LET R(u, p, o, x, us) == [has_update |-> u, has_prefix |-> p, origin_ok |-> o,
                            prefix |-> x, updates |-> us]
  IN  {R(FALSE, FALSE, FALSE, NoNames, << >>),
       R(TRUE, FALSE, FALSE, NoNames, << >>),
       R(TRUE, TRUE, FALSE, Rule("r"), << >>),
       R(TRUE, TRUE, TRUE, Rule("r"), << >>)}
      \cup {R(TRUE, TRUE, TRUE, x, us) :
              x \in MCPrefixes,
              us \in UNION {[1 .. n -> MCUpdates] : n \in 1 .. MaxUpdates}}

=============================================================================
