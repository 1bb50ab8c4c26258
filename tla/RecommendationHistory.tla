------------------------ MODULE RecommendationHistory ------------------------
(***************************************************************************)
(* The history of the recommendations for ONE resource.  Executors extend  *)
(* or overwrite it, one action of a recommendation after the other, and    *)
(* users answer its records through the API.  Every call of the database   *)
(* is a step of its own: neither side locks anything.                      *)
(***************************************************************************)
EXTENDS Naturals, FiniteSets, Sequences, SequencesExt

CONSTANTS
  Jobs,         \* the jobs that scan the resource
  Users,        \* API requests that answer a recommendation
  Ids,          \* document ids
  Settings,     \* how a resource is used: whether its jobs overlap, and the
                \* lists of actions that get_general_action returns for it
  NoId

ASSUME NoIdAssumption == NoId \notin Ids

Actions == {"SCHEDULE", "SCALE_UP", "SCALE_DOWN", "CHANGE_SHAPE", "SPLIT", "SHUTDOWN", "NO_ACTION"}

ASSUME SettingsAssumption ==
  \A s \in Settings : s.overlap \in BOOLEAN /\ s.lists \subseteq Seq(Actions)

VARIABLES
  live,      \* ids of the documents
  gone,      \* ids of deleted documents
  doc,       \* id -> its fields; content is the action that the field
             \* "recommendation" was computed for, or a reference to a document
  recent,    \* the ids added this week, the latest added_at first
  pc,        \* where the job is
  actions,   \* the actions it recommends for the resource
  todo,      \* those create() has not come to
  found,     \* what _create_or_update_recent loaded and did not delete yet
  shadowed,  \* its loop has assigned the variable "recommendation"
  pending,   \* actions whose items are built and not inserted yet
  answering, \* the document that a user's request loaded
  setting    \* the setting of this resource; no step changes it

docVars == <<live, gone, doc, recent>>
jobVars == <<pc, actions, todo, found, shadowed, pending>>
vars    == <<docVars, jobVars, answering, setting>>

Init ==
  /\ live = {} /\ gone = {} /\ doc = << >> /\ recent = << >>
  /\ pc       = [j \in Jobs |-> "idle"]
  /\ actions  = [j \in Jobs |-> << >>]
  /\ todo     = [j \in Jobs |-> << >>]
  /\ found    = [j \in Jobs |-> << >>]
  /\ shadowed = [j \in Jobs |-> FALSE]
  /\ pending  = [j \in Jobs |-> << >>]
  /\ answering = [u \in Users |-> NoId]
  /\ setting \in Settings

-----------------------------------------------------------------------------
(* An executor: process_instance, create, batch_save                       *)

process_instance(j) ==
  /\ pc[j] = "idle"
  /\ setting.overlap \/ \A i \in Jobs : pc[i] \in {"idle", "saved", "failed"}
  /\ \E list \in setting.lists :
       /\ actions' = [actions EXCEPT ![j] = list]
       /\ todo'    = [todo EXCEPT ![j] = list]
  /\ pc' = [pc EXCEPT ![j] = "creating"]
  /\ UNCHANGED <<docVars, found, shadowed, pending, answering, setting>>

\* Mutant: answered documents are loaded as well.
get_recent_recommendation_Any(action) == ToSet(recent)

\* The documents of this week that nobody answered.  The type of the
\* recommendation does not restrict the query: it is written as an annotation,
\* not as an assignment.
get_recent_recommendation(action) == {d \in ToSet(recent) : ~doc[d].answered}

\* Documents as the query sorts them, the latest added_at first.
LatestFirst(docs) ==
  {list \in [1..Cardinality(docs) -> docs] :
     \A i, k \in DOMAIN list : i < k =>
       \E m, n \in DOMAIN recent : m < n /\ recent[m] = list[i] /\ recent[n] = list[k]}

\* The order of the others when d leaves it.
RecentWithout(d) ==
  IF d \in ToSet(recent)
    THEN RemoveAt(recent, CHOOSE n \in DOMAIN recent : recent[n] = d)
    ELSE recent

\* Nothing is found: a new item is built, in memory.
BuildItem(j) ==
  /\ pc[j] = "creating"
  /\ todo[j] # << >>
  /\ get_recent_recommendation(Head(todo[j])) = {}
  /\ pending' = [pending EXCEPT ![j] = Append(@, Head(todo[j]))]
  /\ todo'    = [todo EXCEPT ![j] = Tail(@)]
  /\ UNCHANGED <<docVars, pc, actions, found, shadowed, answering, setting>>

FindRecent(j) ==
  /\ pc[j] = "creating"
  /\ todo[j] # << >>
  /\ get_recent_recommendation(Head(todo[j])) # {}
  /\ \E list \in LatestFirst(get_recent_recommendation(Head(todo[j]))) :
       found' = [found EXCEPT ![j] = list]
  /\ shadowed' = [shadowed EXCEPT ![j] = FALSE]
  /\ pc' = [pc EXCEPT ![j] = "updating"]
  /\ UNCHANGED <<docVars, actions, todo, pending, answering, setting>>

\* "Deleting all except the most recent", one by one.  The loop's variable has
\* the name of the parameter that holds the new recommendation.
DeleteOlder(j) ==
  /\ pc[j] = "updating"
  /\ Len(found[j]) > 1
  /\ LET old == found[j][2] IN
       /\ live'   = live \ {old}
       /\ gone'   = gone \cup ({old} \cap live)
       /\ doc'    = [d \in live \ {old} |-> doc[d]]
       /\ recent' = RecentWithout(old)
  /\ found'    = [found EXCEPT ![j] = RemoveAt(@, 2)]
  /\ shadowed' = [shadowed EXCEPT ![j] = TRUE]
  /\ UNCHANGED <<pc, actions, todo, pending, answering, setting>>

\* Mutant: the update forgets the type.
UpdateRecent_KeepType(j) ==
  /\ pc[j] = "updating"
  /\ Len(found[j]) = 1
  /\ LET d == found[j][1]  a == Head(todo[j]) IN
       IF d \in live
         THEN /\ doc' = [doc EXCEPT ![d].job = j, ![d].content = a]
              /\ recent' = <<d>> \o RecentWithout(d)
         ELSE UNCHANGED <<doc, recent>>
  /\ todo'  = [todo EXCEPT ![j] = Tail(@)]
  /\ found' = [found EXCEPT ![j] = << >>]
  /\ pc'    = [pc EXCEPT ![j] = "creating"]
  /\ UNCHANGED <<live, gone, actions, shadowed, pending, answering, setting>>

\* The fields of the most recent one are replaced, added_at included; nothing
\* is written when it was deleted meanwhile.
UpdateRecent(j) ==
  /\ pc[j] = "updating"
  /\ Len(found[j]) = 1
  /\ LET d == found[j][1]  a == Head(todo[j]) IN
       IF d \in live
         THEN /\ doc' = [doc EXCEPT ![d] =
                           [type |-> a, job |-> j, answered |-> doc[d].answered,
                            content |-> IF shadowed[j] THEN "reference" ELSE a]]
              /\ recent' = <<d>> \o RecentWithout(d)
         ELSE UNCHANGED <<doc, recent>>
  /\ todo'  = [todo EXCEPT ![j] = Tail(@)]
  /\ found' = [found EXCEPT ![j] = << >>]
  /\ pc'    = [pc EXCEPT ![j] = "creating"]
  /\ UNCHANGED <<live, gone, actions, shadowed, pending, answering, setting>>

\* The ids for n new documents.
NewIds(n) == {ids \in [1..n -> Ids \ (live \cup gone)] : IsInjective(ids)}

\* Mutant: every action gets an item of its own, whatever was found.
batch_save_All(j) ==
  /\ pc[j] = "creating"
  /\ todo[j] = << >>
  /\ \E ids \in NewIds(Len(actions[j])) :
       /\ live'   = live \cup ToSet(ids)
       /\ doc'    = [d \in live \cup ToSet(ids) |->
                       IF d \in live THEN doc[d]
                       ELSE LET a == actions[j][CHOOSE i \in DOMAIN ids : ids[i] = d] IN
                            [type |-> a, job |-> j, content |-> a, answered |-> FALSE]]
       /\ recent' = Reverse(ids) \o recent
  /\ pending' = [pending EXCEPT ![j] = << >>]
  /\ pc' = [pc EXCEPT ![j] = "saved"]
  /\ UNCHANGED <<gone, actions, todo, found, shadowed, answering, setting>>

\* The new items are inserted (in one call; added_at grows in the order they
\* were built).  The updated ones are saved again, but the copy in memory has no
\* change to write.
batch_save(j) ==
  /\ pc[j] = "creating"
  /\ todo[j] = << >>
  /\ \E ids \in NewIds(Len(pending[j])) :
       /\ live'   = live \cup ToSet(ids)
       /\ doc'    = [d \in live \cup ToSet(ids) |->
                       IF d \in live THEN doc[d]
                       ELSE LET a == pending[j][CHOOSE i \in DOMAIN ids : ids[i] = d] IN
                            [type |-> a, job |-> j, content |-> a, answered |-> FALSE]]
       /\ recent' = Reverse(ids) \o recent
  /\ pending' = [pending EXCEPT ![j] = << >>]
  /\ pc' = [pc EXCEPT ![j] = "saved"]
  /\ UNCHANGED <<gone, actions, todo, found, shadowed, answering, setting>>

\* A call of the database raises, or the process dies: what was built is lost,
\* what was deleted or updated stays so.
CreateFails(j) ==
  /\ pc[j] \in {"creating", "updating"}
  /\ pc'      = [pc EXCEPT ![j] = "failed"]
  /\ found'   = [found EXCEPT ![j] = << >>]
  /\ pending' = [pending EXCEPT ![j] = << >>]
  /\ UNCHANGED <<docVars, actions, todo, shadowed, answering, setting>>

-----------------------------------------------------------------------------
(* Users, and the calendar                                                 *)

\* PATCH loads the latest document of this week that has the type asked for.
patch(u) ==
  /\ answering[u] = NoId
  /\ \E n \in DOMAIN recent :
       /\ \A m \in 1..(n - 1) : doc[recent[m]].type # doc[recent[n]].type
       /\ answering' = [answering EXCEPT ![u] = recent[n]]
  /\ UNCHANGED <<docVars, jobVars, setting>>

\* The feedback is saved under the id: on a deleted document that makes a new
\* one without a resource, which belongs to no history.
save_feedback(u) ==
  /\ answering[u] # NoId
  /\ doc' = IF answering[u] \in live THEN [doc EXCEPT ![answering[u]].answered = TRUE] ELSE doc
  /\ answering' = [answering EXCEPT ![u] = NoId]
  /\ UNCHANGED <<live, gone, recent, jobVars, setting>>

\* On Monday nothing is recent any more (_get_week_start_dt).
NewWeek ==
  /\ recent' = << >>
  /\ UNCHANGED <<live, gone, doc, jobVars, answering, setting>>

Next ==
  \/ \E j \in Jobs :
       \/ process_instance(j) \/ BuildItem(j) \/ FindRecent(j) \/ DeleteOlder(j)
       \/ UpdateRecent(j) \/ batch_save(j) \/ CreateFails(j)
  \/ \E u \in Users : patch(u) \/ save_feedback(u)
  \/ NewWeek

Spec == Init /\ [][Next]_vars

-----------------------------------------------------------------------------
\* The setting that the code is right for: jobs that do not overlap and recommend
\* one action each.
Simple == ~setting.overlap /\ \A list \in setting.lists : Len(list) <= 1

\* No job is about to change the document.
Unheld(d) == \A j \in Jobs : d \notin ToSet(found[j])

\* Users' answers outlive later recommendations: a document that was answered while
\* no job held it is never held, changed or deleted any more.  (One that a job loaded
\* before it was answered may still be overwritten, or deleted with its answer.)
AnsweredIsKept ==
  [][\A d \in live :
       doc[d].answered /\ Unheld(d) => d \in live' /\ doc'[d] = doc[d] /\ Unheld(d)']_vars

\* When a job has saved its items, each action it recommends is on record as its
\* own, if the setting is simple.
SimpleJobIsRecorded ==
  [][\A j \in Jobs : Simple /\ pc[j] # "saved" /\ pc'[j] = "saved" =>
       \A a \in ToSet(actions[j]) :
         \E d \in live' : doc'[d].type = a /\ doc'[d].job = j]_vars

\* "No recent '<type>' recommendation found for resource" (recommendation_history_service.py:110):
\* a type is looked for among the recent ones, so each action is on record.  In fact
\* any type is found, and the second action overwrites the record of the first.
SavedJobIsRecorded ==
  [][\A j \in Jobs : pc[j] # "saved" /\ pc'[j] = "saved" =>
       \A a \in ToSet(actions[j]) :
         \E d \in live' : doc'[d].type = a /\ doc'[d].job = j]_vars

\* In the simple setting two recent unanswered documents never coexist.  Nothing has
\* to be deleted then, and the recommendation in every document is the one for the
\* action that it names.  (When older documents were deleted, the most recent gets a
\* reference to a deleted document for its recommendation.)
OneUnanswered ==
  Simple => /\ \A d, e \in ToSet(recent) : ~doc[d].answered /\ ~doc[e].answered => d = e
            /\ \A d \in live : doc[d].content = doc[d].type
=============================================================================
