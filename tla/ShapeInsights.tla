---------------------------- MODULE ShapeInsights ----------------------------
(***************************************************************************)
(* What the API answers of the shapes that a parent's rules and settings   *)
(* leave: the dry run of its rules, and the insights into a resize of one  *)
(* instance type.  It has its own copies of the filters of the executor,   *)
(* and they differ.                                                        *)
(***************************************************************************)
EXTENDS Resize

RulesFor(rules, action) == SetToSeq({r \in rules : r.action = action})

_find_matching(shapes, rule) == Filtered(shapes, {s \in ToSet(shapes) : s.name \in rule.names})

\* A shape that two rules allow is there twice.
process_allow_filters(shapes, rules) ==
  IF rules = << >> THEN shapes
  ELSE FlattenSeq([n \in DOMAIN rules |-> _find_matching(shapes, rules[n])])

process_exclude_filters(shapes, rules) ==
  Filtered(shapes, {s \in ToSet(shapes) : \A n \in DOMAIN rules : s.name \notin rules[n].names})

LeftByRules(shapes, rules) ==
  process_exclude_filters(process_allow_filters(shapes, RulesFor(rules, "allow")), RulesFor(rules, "deny"))

\* The dry run looks at the rules of the parent's cloud only.
dry_run(rules, cloud) == LeftByRules(Catalog, {r \in rules : r.cloud = cloud})

\* Mutant: the family of the current shape is looked for outside of its series.
get_same_family_Other(shapes, current) ==
  Filtered(shapes, {s \in ToSet(shapes) : s.family = current.family /\ s.series # current.series})

get_same_family(shapes, current) == Filtered(shapes, {s \in ToSet(shapes) : s.family = current.family})

get_same_series(shapes, current) == Filtered(shapes, {s \in ToSet(shapes) : s.series = current.series})

\* The shapes that the insights count as available, by the rules of every cloud.
available_shapes(q) ==
  LET current == Shape(q.current)
      fit     == LeftByRules(Catalog, q.rules)
      family  == IF q.forbid_change_family THEN get_same_family(fit, current) ELSE fit
  IN  IF q.forbid_change_series THEN get_same_series(family, current) ELSE family

-----------------------------------------------------------------------------
\* Rules of one cloud, none of which prioritizes shapes.
Plain(q) == \A r \in q.rules : r.cloud = q.cloud /\ r.action # "prioritize"

\* What an executor recommends passes the dry run, and was counted as available.  (With
\* rules, none of which prioritizes, all shapes have priority, and the executor forbids no
\* change of series or family, as the insights do.)  A SPLIT may keep the current shape.
Foreseen(q, shapes) ==
  Plain(q) =>
    \A s \in ToSet(shapes) : s.name # q.current =>
      /\ s \in ToSet(dry_run(q.rules, q.cloud))
      /\ q.rules = {} \/ others_allowed(q) => s \in ToSet(available_shapes(q))
=============================================================================
