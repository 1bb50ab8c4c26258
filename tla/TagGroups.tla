------------------------------ MODULE TagGroups ------------------------------
(***************************************************************************)
(* The members of a tag group (the tag r8s_group_id of an instance) are    *)
(* reported together: ResourceGroupService takes back what contradicts     *)
(* another member, and carries the change over to the history items.       *)
(*                                                                         *)
(* Reports are records in one function from resources: the service changes *)
(* them in place, whatever list it reached them through.                   *)
(***************************************************************************)
EXTENDS Integers, Sequences, FiniteSets, SequencesExt, FiniteSetsExt

Week == 7 * 24 * 60

Resizing == {"SCALE_UP", "SCALE_DOWN", "CHANGE_SHAPE", "SHUTDOWN"}

\* What a resource's report says: its actions, the minutes a week its schedule
\* runs (Week: it always runs, 0: it has no schedule), whether it lists shapes.
Report(actions, schedule, shapes) ==
  [actions |-> actions, schedule |-> schedule, shapes |-> shapes]

Has(report, actions) == \E a \in ToSet(report.actions) : a \in actions

Settled(report) == Has(report, {"NO_ACTION", "ERROR"})

Discarded(report) == [report EXCEPT !.actions = <<"NO_ACTION">>, !.shapes = FALSE]

\* Mutant: any resize is acceptable beside a SCALE_UP.
_filter_resize_All(reports, members) == reports

\* A SCALE_UP in the group takes back SCALE_DOWN and SHUTDOWN.  A report stays when
\* one of its actions is acceptable.
_filter_resize(reports, members) ==
  LET grown == \E r \in members : Has(reports[r], {"SCALE_UP"})
      acceptable == {"CHANGE_SHAPE"} \cup (IF grown THEN {"SCALE_UP"} ELSE {"SCALE_DOWN", "SHUTDOWN"})
  IN  [r \in DOMAIN reports |->
         IF r \in members /\ ~Has(reports[r], acceptable) THEN Discarded(reports[r]) ELSE reports[r]]

\* Of several schedules of their own, the ones that run less than 0.95 of the
\* longest are replaced by always-run.  NO_ACTION is written beside the schedule, into
\* the recommendation of the report: the report's own actions stay.
_filter_schedule(reports, members) ==
  LET custom  == {r \in members : reports[r].schedule \in 1..(Week - 1)}
      longest == Max({reports[r].schedule : r \in custom})
  IN  [r \in DOMAIN reports |->
         IF r \in custom /\ 100 * reports[r].schedule < 95 * longest
           THEN [reports[r] EXCEPT !.schedule = Week] ELSE reports[r]]

\* The reports after both filters; and how often each is written: once for each of
\* its actions that put it on a list.
_filter_group(reports) ==
  LET open == {r \in DOMAIN reports : ~Settled(reports[r])}
      On(kinds) == {r \in open : Has(reports[r], kinds)}
      Times(r) == Cardinality({k \in DOMAIN reports[r].actions :
                                 reports[r].actions[k] \in Resizing \cup {"SCHEDULE", "SPLIT"}})
  IN  [reports |-> _filter_schedule(_filter_resize(reports, On(Resizing)), On({"SCHEDULE"})),
       times   |-> [r \in DOMAIN reports |-> IF r \in open THEN Times(r) ELSE 1]]

\* What the LAST history item of a resource takes from its report.  (Its
\* recommendation and savings are taken as well.)
sync_history_item(item, report) == [item EXCEPT !.type = report.actions[1]]
=============================================================================
