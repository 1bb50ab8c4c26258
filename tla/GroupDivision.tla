---------------------------- MODULE GroupDivision -----------------------------
(***************************************************************************)
(* Which resources of a tenant belong to the resource groups that its      *)
(* parent configures: by tags of theirs or by the native groups (ARNs) the *)
(* cloud lists them in.                                                    *)
(*                                                                         *)
(* Of a resource the meta tells [tags, arns], tags being a sequence of     *)
(* <<key, value>>; in labels[r] they are parsed.  A configured group is    *)
(* [arns, tags] with allowed ARNs, or if there are none allowed tag keys;  *)
(* its generated id is its place in the list here.                         *)
(***************************************************************************)
EXTENDS Naturals, Sequences, SequencesExt, Functions, TLC

NotAString == "not a string"

\* key -> value; of the tags with one key the last counts.
parse_tags(meta) ==
  FoldLeft(LAMBDA tags, tag : IF NotAString \in ToSet(tag) THEN tags ELSE (tag[1] :> tag[2]) @@ tags,
           << >>, meta.tags)

\* The tag group of a resource, if it is in one.
get_resource_group_id(label) ==
  IF "r8s_group_id" \in DOMAIN label.tags THEN {label.tags["r8s_group_id"]} ELSE {}

\* The value of each allowed key makes a group of its own; a resource with two of the
\* keys is in two groups.
divide_by_tag_keys(files, labels, keys) ==
  LET tags(r) == {<<k, labels[r].tags[k]>> : k \in keys \cap DOMAIN labels[r].tags}
  IN  [groups     |-> [tag \in UNION {tags(r) : r \in files} |-> {r \in files : tag \in tags(r)}],
       individual |-> {r \in files : tags(r) = {}}]

divide_by_native_resource_groups(files, labels, arns) ==
  LET related(r) == labels[r].arns \cap arns
  IN  [groups     |-> [arn \in UNION {related(r) : r \in files} |-> {r \in files : arn \in related(r)}],
       individual |-> {r \in files : related(r) = {}}]

divide(config, files, labels) ==
  IF config.arns # {} THEN divide_by_native_resource_groups(files, labels, config.arns)
  ELSE divide_by_tag_keys(files, labels, config.tags)

\* The files left after the first k configured groups: as soon as one matches a resource,
\* only the ones it matched are left, for the other groups and for the rest of the scan.
FilesLeft(configs, files, labels) ==
  LET left[k \in 0..Len(configs)] ==
        IF k = 0 THEN files
        ELSE LET division == divide(configs[k], left[k - 1], labels) IN
             IF DOMAIN division.groups = {} THEN left[k - 1] ELSE left[k - 1] \ division.individual
  IN  left

\* One configured group after the other.  The result: [files, groups], a group being
\* identified by <<number of the config, key>>.
DivideByConfigs(configs, files, labels) ==
  LET left == FilesLeft(configs, files, labels)
      found(k) == divide(configs[k], left[k - 1], labels).groups
  IN  [files  |-> left[Len(configs)],
       groups |-> [g \in UNION {{k} \X DOMAIN found(k) : k \in DOMAIN configs} |-> found(g[1])[g[2]]]]
=============================================================================
