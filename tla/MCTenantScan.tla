---------------------------- MODULE MCTenantScan ----------------------------
(* Two resources, in one tag group or not; with no resource groups, or with   *)
(* those by two tags and then a native one, which hold only the first.  The   *)
(* target timezone is the storage's, or ahead of it in the last setting.       *)
EXTENDS TenantScan

CONSTANTS r1, r2, t1, t2

MCResources == {r1, r2}
Together == <<"r8s_group_id", "g">>
Meta(tags) ==
  r1 :> [tags |-> <<<<"owner", NotAString>>, <<"owner", "a">>, <<"team", "b">>>> \o tags, arns |-> {"arn"}]
    @@ r2 :> [tags |-> <<<<"stage", "c">>, <<"owner", NotAString>>>> \o tags, arns |-> {}]
Native == [arns |-> {"arn"}, tags |-> {}]
Owner  == [arns |-> {}, tags |-> {"owner", "team"}]
Parent(scope, tenant, groups) == [scope |-> scope, tenant |-> tenant, groups |-> groups]
Setting(tags, parents, dojo, zone) ==
  [parents |-> parents, labels |-> Meta(tags), dojo |-> dojo, zone |-> zone]
MCSettings ==
  <<Setting(<< >>, <<Parent("ALL", t1, <<Native>>), Parent("SPECIFIC", t1, <<Native>>), Parent("SPECIFIC", t1, << >>)>>,
           "usable", 0),
    Setting(<<Together>>, <<Parent("SPECIFIC", t2, <<Native>>), Parent("ALL", t1, << >>)>>, "wrong_type", 0),
    Setting(<< >>, <<Parent("SPECIFIC", t2, <<Native>>), Parent("DISABLED", t1, <<Native>>)>>, "none", 0),
    Setting(<< >>, <<Parent("SPECIFIC", t2, << >>), Parent("ALL", t1, <<Owner, Native>>), Parent("ALL", t2, << >>)>>,
           "no_key", 1)>>
Kind(actions, schedule) ==
  Report(actions, schedule, \E a \in ToSet(actions) : a \in {"SCALE_UP", "SCALE_DOWN"})
MCAnswers ==
  {Kind(<<"SHUTDOWN">>, 0), Kind(<<"ERROR">>, 0),
   Kind(<<"SCHEDULE", "SCALE_UP">>, 6000), Kind(<<"SCHEDULE">>, 3000)}
=============================================================================
