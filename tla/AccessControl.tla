---------------------------- MODULE AccessControl ----------------------------
(***************************************************************************)
(* Who may do what with the API: users, roles and policies in MongoDB,     *)
(* sign-in and refresh tokens of the on-premises installation, the check   *)
(* of every request, and the command line client that stores the tokens.   *)
(*                                                                         *)
(* Every request is served by a thread of its own, so what it read may be  *)
(* old when it writes: a request is one action up to its last read and     *)
(* another for its write.  The requests of administrators are taken after  *)
(* their own permission check.  An id identifies a document: one that is   *)
(* deleted and created again under its name is another.                    *)
(***************************************************************************)
EXTENDS Integers, Sequences, FiniteSets

CONSTANTS
  Users, Passwords, Customer,   \* Customer: user -> the customer of its account
  Roles, Policies, Permissions,
  Clients,      \* configured command line clients
  Admins,       \* requests that administer users, roles and policies
  Admin, AdminRole, AdminPolicy, AdminPassword,   \* what init_system_user creates
  TokenLife,    \* EXPIRATION_IN_MINUTES
  RoleLife,     \* of the admin role
  MaxTime,      \* bound: the clock
  Budgets,      \* bound: [session, edit, call] requests of the three sorts
  None

ASSUME NamesAssumption ==
  /\ Admin \in Users /\ AdminRole \in Roles /\ AdminPolicy \in Policies
  /\ AdminPassword \in Passwords /\ Users \subseteq DOMAIN Customer
ASSUME TimesAssumption == TokenLife \in Nat /\ RoleLife \in Nat /\ MaxTime \in Nat
ASSUME NoneAssumption == None \notin [user : Users, version : Nat]

VARIABLES
  now,
  accounts,   \* user_id -> the documents of the collection with it, in order
  roles,      \* name -> None or [id, expiration, policies]
  policies,   \* name -> None or [id, permissions]
  ids,        \* how many roles and policies were created
  versions,   \* how many refresh token versions were generated
  config,     \* client -> the tokens it stores
  call,       \* client -> the request it waits for
  edit,       \* administrator's request -> what it has read and will write
  lost,       \* refresh tokens nobody has: in lost answers or overwritten
  could,      \* history: what a request might have found while it was served
  expires,    \* history: role -> the expiration last acknowledged
  left

vars == <<now, accounts, roles, policies, ids, versions, config, call, edit, lost,
          could, expires, left>>
directory == <<roles, policies, ids, expires>>
sessions  == <<versions, config, lost>>

Idle == [step |-> "none"]

TypeOK ==
  /\ now \in 0..MaxTime /\ versions \in Nat /\ ids \in Nat
  /\ \A u \in Users : \A k \in DOMAIN accounts[u] :
       /\ accounts[u][k].role \in Roles /\ accounts[u][k].password \in Passwords
       /\ accounts[u][k].version \in 0..versions
  /\ \A r \in Roles : roles[r] # None =>
       /\ roles[r].id \in 1..ids /\ roles[r].policies \subseteq Policies
       /\ roles[r].expiration \in Nat
  /\ \A p \in Policies : policies[p] # None =>
       policies[p].id \in 1..ids /\ policies[p].permissions \subseteq Permissions
  /\ \A c \in Clients :
       /\ config[c].access = None \/ config[c].access.user \in Users
       /\ config[c].refresh = None \/ config[c].refresh.version \in 1..versions
       /\ call[c].step \in {"none", "login", "answer", "role", "policies", "served"}
  /\ \A a \in Admins : edit[a].step \in {"none", "user", "role", "patch_role", "policy", "patch_policy"}

Init ==
  /\ now = 0 /\ ids = 2 /\ versions = 0
  /\ accounts = [u \in Users |->
       IF u = Admin THEN <<[role |-> AdminRole, password |-> AdminPassword, version |-> 0]>> ELSE << >>]
  /\ roles = [r \in Roles |->
       IF r = AdminRole THEN [id |-> 1, expiration |-> RoleLife, policies |-> {AdminPolicy}] ELSE None]
  /\ policies = [p \in Policies |->
       IF p = AdminPolicy THEN [id |-> 2, permissions |-> Permissions] ELSE None]
  /\ config = [c \in Clients |-> [access |-> None, refresh |-> None]]
  /\ call = [c \in Clients |-> Idle] /\ edit = [a \in Admins |-> Idle]
  /\ lost = {} /\ could = [c \in Clients |-> [listed |-> {}, held |-> {}]]
  /\ expires = [r \in Roles |-> IF r = AdminRole THEN RoleLife ELSE 0]
  /\ left \in Budgets

Spend(sort) == left[sort] > 0 /\ left' = [left EXCEPT ![sort] = @ - 1]

\* User.objects.get: the one document; several are an error that nobody handles.
Found(u) == Len(accounts[u]) = 1

\* What a request for `permission' with `role' can read now.
Readable(rs, ps, t, role, permission) ==
  [listed |-> IF rs[role] = None \/ (rs[role] # None /\ t >= rs[role].expiration) THEN {}
              ELSE rs[role].policies,
   held   |-> {p \in Policies : ps[p] # None /\ permission \in ps[p].permissions}]

InFlight(request) == request.step \in {"role", "policies", "served"}

Watch ==
  could' = [c \in Clients |->
    IF ~InFlight(call'[c]) THEN [listed |-> {}, held |-> {}]
    ELSE LET seen == Readable(roles', policies', now', call'[c].role, call'[c].permission) IN
         [listed |-> could[c].listed \cup seen.listed, held |-> could[c].held \cup seen.held]]

Tick ==
  /\ now < MaxTime /\ now' = now + 1
  /\ UNCHANGED <<accounts, directory, sessions, call, edit, left>>
  /\ Watch

-----------------------------------------------------------------------------
(* Sign-in and refresh                                                     *)

admin_initiate_auth(u, password) == Found(u) /\ accounts[u][1].password = password

SignIn(c, u, password) ==
  /\ call[c].step = "none" /\ Spend("session") /\ admin_initiate_auth(u, password)
  /\ call' = [call EXCEPT ![c] = [step |-> "login", user |-> u, old |-> 0]]
  /\ UNCHANGED <<now, accounts, directory, sessions, edit>>
  /\ Watch

decode_refresh_token(token) ==
  Found(token.user) /\ accounts[token.user][1].version = token.version

Refresh(c) ==
  /\ call[c].step = "none" /\ Spend("session")
  /\ config[c].refresh # None /\ decode_refresh_token(config[c].refresh)
  /\ call' = [call EXCEPT ![c] = [step |-> "login", user |-> config[c].refresh.user,
                                  old |-> config[c].refresh.version]]
  /\ UNCHANGED <<now, accounts, directory, sessions, edit>>
  /\ Watch

\* Mutant: the answer to a refresh repeats the version that it was asked with.
_generate_refresh_token_Decoded(c, version) ==
  [user |-> call[c].user, version |-> IF call[c].old = 0 THEN version ELSE call[c].old]

_generate_refresh_token(c, version) == [user |-> call[c].user, version |-> version]

_generate_access_token(c) == [user |-> call[c].user, exp |-> now + TokenLife]

update_latest_login(u, version) == [accounts EXCEPT ![u][1].version = version]

IssueTokens(c) ==
  /\ call[c].step = "login"
  /\ versions' = versions + 1
  /\ IF Found(call[c].user)
     THEN /\ accounts' = update_latest_login(call[c].user, versions + 1)
          /\ call' = [call EXCEPT ![c] = [
               step    |-> "answer",
               access  |-> _generate_access_token(c),
               refresh |-> _generate_refresh_token(c, versions + 1)]]
     ELSE /\ call' = [call EXCEPT ![c] = Idle]
          /\ UNCHANGED accounts
  /\ UNCHANGED <<now, directory, config, edit, lost, left>>
  /\ Watch

\* r8s login, r8s refresh: the client overwrites what it had stored.
SaveToken(c) ==
  /\ call[c].step = "answer"
  /\ config' = [config EXCEPT ![c] = [access |-> call[c].access, refresh |-> call[c].refresh]]
  /\ lost' = lost \cup ({config[c].refresh} \ {None})
  /\ call' = [call EXCEPT ![c] = Idle]
  /\ UNCHANGED <<now, accounts, directory, versions, edit, left>>
  /\ Watch

\* The connection breaks, or the client is killed before it has stored the answer.
LoseAnswer(c) ==
  /\ call[c].step = "answer"
  /\ lost' = lost \cup {call[c].refresh}
  /\ call' = [call EXCEPT ![c] = Idle]
  /\ UNCHANGED <<now, accounts, directory, versions, config, edit, left>>
  /\ Watch

-----------------------------------------------------------------------------
(* A request to the API                                                    *)

authorize(c) == config[c].access # None /\ now < config[c].access.exp

\* With is_allowed_to_access up to the name of the role.
Request(c, permission) ==
  /\ call[c].step = "none" /\ Spend("call")
  /\ authorize(c) /\ Found(config[c].access.user)
  /\ call' = [call EXCEPT ![c] = [step |-> "role", permission |-> permission,
                                  role |-> accounts[config[c].access.user][1].role]]
  /\ UNCHANGED <<now, accounts, directory, sessions, edit>>
  /\ Watch

\* Mutant: no look at the expiration.
is_role_expired_Never(role) == FALSE

is_role_expired(role) == now >= role.expiration

ReadRole(c) ==
  LET role == roles[call[c].role] IN
  /\ call[c].step = "role"
  /\ call' = [call EXCEPT ![c] =
       IF role = None \/ (role # None /\ is_role_expired(role)) THEN Idle
       ELSE [step |-> "policies", permission |-> call[c].permission, role |-> call[c].role,
             policies |-> role.policies]]
  /\ UNCHANGED <<now, accounts, directory, sessions, edit, left>>
  /\ Watch

\* policy_batch_get passes over the names without a policy.
ReadPolicies(c) ==
  LET found == {p \in call[c].policies : policies[p] # None} IN
  /\ call[c].step = "policies"
  /\ call' = [call EXCEPT ![c] =
       IF call[c].permission \in UNION {policies[p].permissions : p \in found}
       THEN [step |-> "served", permission |-> call[c].permission, role |-> call[c].role]
       ELSE Idle]
  /\ UNCHANGED <<now, accounts, directory, sessions, edit, left>>
  /\ Watch

ShowAnswer(c) ==
  /\ call[c].step = "served"
  /\ call' = [call EXCEPT ![c] = Idle]
  /\ UNCHANGED <<now, accounts, directory, sessions, edit, left>>
  /\ Watch

-----------------------------------------------------------------------------
(* Users                                                                   *)

SignUp(a, u, role) ==
  /\ edit[a].step = "none" /\ Spend("edit")
  /\ roles[role] # None /\ accounts[u] = << >>
  /\ edit' = [edit EXCEPT ![a] = [step |-> "user", user |-> u, role |-> role]]
  /\ UNCHANGED <<now, accounts, directory, sessions, call>>
  /\ Watch

\* sign_up adds a document: the collection has no unique index for user_id.  The
\* set_password that follows repeats the password.
SaveUser(a, password) ==
  /\ edit[a].step = "user"
  /\ accounts' = [accounts EXCEPT ![edit[a].user] =
       Append(@, [role |-> edit[a].role, password |-> password, version |-> 0])]
  /\ edit' = [edit EXCEPT ![a] = Idle]
  /\ UNCHANGED <<now, directory, sessions, call, left>>
  /\ Watch

_is_allowed_to_modify(by, u) ==
  IF Customer[by] = "admin" THEN Customer[u] # "admin"
  ELSE by = u \/ Customer[by] = Customer[u]

PatchUser(by, u, password) ==
  /\ Spend("edit") /\ Found(by) /\ Found(u) /\ _is_allowed_to_modify(by, u)
  /\ accounts' = [accounts EXCEPT ![u][1].password = password]
  /\ UNCHANGED <<now, directory, sessions, call, edit>>
  /\ Watch

-----------------------------------------------------------------------------
(* Roles                                                                   *)

Existing == {p \in Policies : policies[p] # None}

PostRole(a, role, expiration, listed) ==
  /\ edit[a].step = "none" /\ Spend("edit")
  /\ now <= expiration /\ roles[role] = None /\ listed \subseteq Existing
  /\ edit' = [edit EXCEPT ![a] = [step |-> "role", name |-> role, expiration |-> expiration,
                                  policies |-> listed]]
  /\ UNCHANGED <<now, accounts, directory, sessions, call>>
  /\ Watch

\* The name is unique: the second of two is refused by the database.
SaveRole(a) ==
  LET new == edit[a] IN
  /\ new.step = "role"
  /\ edit' = [edit EXCEPT ![a] = Idle]
  /\ IF roles[new.name] = None
     THEN /\ ids' = ids + 1
          /\ roles' = [roles EXCEPT ![new.name] =
               [id |-> ids + 1, expiration |-> new.expiration, policies |-> new.policies]]
          /\ expires' = [expires EXCEPT ![new.name] = new.expiration]
     ELSE UNCHANGED <<ids, roles, expires>>
  /\ UNCHANGED <<now, accounts, policies, sessions, call, left>>
  /\ Watch

\* expiration may be None; attach and detach may be empty.  A list that is the same
\* as before is written or not, as its order comes out.
PatchRole(a, role, expiration, attach, detach) ==
  LET old == roles[role].policies
      new == (old \cup attach) \ detach
  IN
  /\ edit[a].step = "none" /\ Spend("edit")
  /\ roles[role] # None /\ attach \subseteq Existing
  /\ expiration = None \/ (expiration # None /\ now <= expiration)
  /\ \E written \in {new} \cup (IF new = old THEN {None} ELSE {}) :
       edit' = [edit EXCEPT ![a] =
         [step |-> "patch_role", name |-> role, id |-> roles[role].id, expiration |-> expiration,
          policies |-> written, loaded |-> roles[role]]]
  /\ UNCHANGED <<now, accounts, directory, sessions, call>>
  /\ Watch

\* Mutant: the whole document as it was loaded, with the changes.
Changed_Whole(document, patch) ==
  [document EXCEPT !.expiration = IF patch.expiration = None THEN patch.loaded.expiration
                                  ELSE patch.expiration,
                   !.policies = IF patch.policies = None THEN patch.loaded.policies
                                ELSE patch.policies]

\* Mutant: an expiration that the request does not have is set too.
Changed_Unset(document, patch) ==
  [document EXCEPT !.expiration = patch.expiration,
                   !.policies   = IF patch.policies = None THEN @ ELSE patch.policies]

\* The database gets the fields that were set, not the document.
Changed(document, patch) ==
  [document EXCEPT !.expiration = IF patch.expiration = None THEN @ ELSE patch.expiration,
                   !.policies   = IF patch.policies = None THEN @ ELSE patch.policies]

\* If the role is gone, the save leaves a document without a name that nothing finds.
SavePatchedRole(a) ==
  LET patch == edit[a] IN
  /\ patch.step = "patch_role"
  /\ edit' = [edit EXCEPT ![a] = Idle]
  /\ IF roles[patch.name] # None /\ (roles[patch.name] # None => roles[patch.name].id = patch.id)
     THEN /\ roles' = [roles EXCEPT ![patch.name] = Changed(@, patch)]
          /\ expires' = [expires EXCEPT ![patch.name] =
               IF patch.expiration = None THEN @ ELSE patch.expiration]
     ELSE UNCHANGED <<roles, expires>>
  /\ UNCHANGED <<now, accounts, policies, ids, sessions, call, left>>
  /\ Watch

DeleteRole(role) ==
  /\ roles[role] # None /\ Spend("edit")
  /\ roles' = [roles EXCEPT ![role] = None]
  /\ UNCHANGED <<now, accounts, policies, ids, expires, sessions, call, edit>>
  /\ Watch

-----------------------------------------------------------------------------
(* Policies                                                                *)

PostPolicy(a, policy, permissions) ==
  /\ edit[a].step = "none" /\ Spend("edit") /\ policies[policy] = None
  /\ edit' = [edit EXCEPT ![a] = [step |-> "policy", name |-> policy, permissions |-> permissions]]
  /\ UNCHANGED <<now, accounts, directory, sessions, call>>
  /\ Watch

SavePolicy(a) ==
  LET new == edit[a] IN
  /\ new.step = "policy"
  /\ edit' = [edit EXCEPT ![a] = Idle]
  /\ IF policies[new.name] = None
     THEN /\ ids' = ids + 1
          /\ policies' = [policies EXCEPT ![new.name] = [id |-> ids + 1, permissions |-> new.permissions]]
     ELSE UNCHANGED <<ids, policies>>
  /\ UNCHANGED <<now, accounts, roles, expires, sessions, call, left>>
  /\ Watch

\* reset replaces the permissions; else some are attached, then some detached.
PatchPolicy(a, policy, reset, attach, detach) ==
  LET new == IF reset # {} THEN reset ELSE (policies[policy].permissions \cup attach) \ detach IN
  /\ edit[a].step = "none" /\ Spend("edit") /\ policies[policy] # None
  /\ reset \cup attach \cup detach # {}
  /\ edit' = [edit EXCEPT ![a] = [step |-> "patch_policy", name |-> policy,
                                  id |-> policies[policy].id, permissions |-> new]]
  /\ UNCHANGED <<now, accounts, directory, sessions, call>>
  /\ Watch

SavePatchedPolicy(a) ==
  LET patch == edit[a] IN
  /\ patch.step = "patch_policy"
  /\ edit' = [edit EXCEPT ![a] = Idle]
  /\ policies' = IF policies[patch.name] # None
                    /\ (policies[patch.name] # None => policies[patch.name].id = patch.id)
                 THEN [policies EXCEPT ![patch.name].permissions = patch.permissions]
                 ELSE policies
  /\ UNCHANGED <<now, accounts, roles, ids, expires, sessions, call, left>>
  /\ Watch

\* The roles that list the policy stay as they are.
DeletePolicy(policy) ==
  /\ policies[policy] # None /\ Spend("edit")
  /\ policies' = [policies EXCEPT ![policy] = None]
  /\ UNCHANGED <<now, accounts, roles, ids, expires, sessions, call, edit>>
  /\ Watch

-----------------------------------------------------------------------------
ClientStep(c) ==
  \/ \E u \in Users, w \in Passwords : SignIn(c, u, w)
  \/ Refresh(c) \/ IssueTokens(c) \/ SaveToken(c) \/ LoseAnswer(c)
  \/ \E permission \in Permissions : Request(c, permission)
  \/ ReadRole(c) \/ ReadPolicies(c) \/ ShowAnswer(c)

AdminStep(a) ==
  \/ \E u \in Users, r \in Roles : SignUp(a, u, r)
  \/ \E w \in Passwords : SaveUser(a, w)
  \/ \E r \in Roles, t \in 0..MaxTime + 1, ps \in SUBSET Policies : PostRole(a, r, t, ps)
  \/ \E r \in Roles, t \in 0..MaxTime + 1 \cup {None}, attach, detach \in SUBSET Policies :
       PatchRole(a, r, t, attach, detach)
  \/ SaveRole(a) \/ SavePatchedRole(a)
  \/ \E p \in Policies, granted \in SUBSET Permissions \ {{}} : PostPolicy(a, p, granted)
  \/ \E p \in Policies, reset, attach, detach \in SUBSET Permissions :
       PatchPolicy(a, p, reset, attach, detach)
  \/ SavePolicy(a) \/ SavePatchedPolicy(a)

Next ==
  \/ Tick
  \/ \E c \in Clients : ClientStep(c)
  \/ \E a \in Admins : AdminStep(a)
  \/ \E by, u \in Users, w \in Passwords : PatchUser(by, u, w)
  \/ \E r \in Roles : DeleteRole(r)
  \/ \E p \in Policies : DeletePolicy(p)

Spec == Init /\ [][Next]_vars

-----------------------------------------------------------------------------
\* However logins and refreshes of several clients meet, the one refresh token that
\* the server still accepts is with a client, on its way to one, or was lost: no
\* answer hands out a token that is dead while nobody has the live one.
NewestIsHeld ==
  \A u \in Users :
    Found(u) /\ accounts[u][1].version # 0 =>
      LET token == [user |-> u, version |-> accounts[u][1].version] IN
      \/ token \in lost
      \/ \E c \in Clients : config[c].refresh = token
                            \/ (call[c].step = "answer" /\ call[c].refresh = token)

\* A request is served only if, since it arrived, the user's role was there, not
\* expired, and listed a policy, and that policy held the permission: a role that
\* expired or was deleted before serves nothing, whatever the token says.
ServedWasGranted ==
  \A c \in Clients : call[c].step = "served" => could[c].listed \cap could[c].held # {}

\* Two patches of one role: a new list of policies never brings back an expiration
\* that another administrator has replaced meanwhile.
ExpirationIsKept ==
  \A r \in Roles : roles[r] # None => roles[r].expiration = expires[r]
=============================================================================
