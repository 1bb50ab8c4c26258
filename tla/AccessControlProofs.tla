------------------------ MODULE AccessControlProofs ------------------------
(***************************************************************************)
(* Proofs about AccessControl, for any users, roles, policies, permissions, *)
(* clients and administrators, and any budget of requests.                 *)
(*                                                                         *)
(* Types alone carry ExpirationIsKept and NewestIsHeld.  ServedWasGranted  *)
(* needs what a request has read so far: the policies it still has to look *)
(* at were listed by its role while it was served (Granted).               *)
(***************************************************************************)
EXTENDS AccessControl, SequenceTheorems, TLAPS

Account == [role : Roles, password : Passwords, version : Nat]
Role    == [id : Nat, expiration : Nat, policies : SUBSET Policies]
Policy  == [id : Nat, permissions : SUBSET Permissions]
Access  == [user : Users, exp : Nat]
Token   == [user : Users, version : Nat]

Calls ==
  {Idle}
  \cup [step : {"login"}, user : Users, old : Nat]
  \cup [step : {"answer"}, access : Access, refresh : Token]
  \cup [step : {"role", "served"}, permission : Permissions, role : Roles]
  \cup [step : {"policies"}, permission : Permissions, role : Roles, policies : SUBSET Policies]

EditOK(e) ==
  /\ e.step \in {"none", "user", "role", "patch_role", "policy", "patch_policy"}
  /\ e.step = "user" => e.user \in Users /\ e.role \in Roles
  /\ e.step = "role" =>
       e.name \in Roles /\ e.expiration \in Nat /\ e.policies \in SUBSET Policies
  /\ e.step = "patch_role" =>
       /\ e.name \in Roles /\ e.expiration \in Nat \cup {None}
       /\ e.policies \in (SUBSET Policies) \cup {None}
  /\ e.step \in {"policy", "patch_policy"} =>
       e.name \in Policies /\ e.permissions \in SUBSET Permissions

\* The types, in parts that change together.
CountersType  == now \in 0..MaxTime /\ ids \in Nat /\ versions \in Nat
AccountsType  == accounts \in [Users -> Seq(Account)]
DirectoryType ==
  /\ roles \in [Roles -> Role \cup {None}] /\ policies \in [Policies -> Policy \cup {None}]
  /\ expires \in [Roles -> Nat]
ConfigType == config \in [Clients -> [access : Access \cup {None}, refresh : Token \cup {None}]]
CallType   == call \in [Clients -> Calls]
EditType   == DOMAIN edit = Admins /\ \A a \in Admins : EditOK(edit[a])

\* Numbers were given out before they are used.
Versioned ==
  /\ \A u \in Users : \A k \in DOMAIN accounts[u] : accounts[u][k].version <= versions
  /\ \A c \in Clients :
       /\ config[c].refresh # None => config[c].refresh.version \in 1..versions
       /\ call[c].step = "answer" => call[c].refresh.version \in 1..versions

Identified ==
  /\ \A r \in Roles : roles[r] # None => roles[r].id \in 1..ids
  /\ \A p \in Policies : policies[p] # None => policies[p].id \in 1..ids

TypeInv ==
  CountersType /\ AccountsType /\ DirectoryType /\ ConfigType /\ CallType /\ EditType
  /\ Versioned /\ Identified

-----------------------------------------------------------------------------
(* Types                                                                   *)

\* The one document of a user, replaced.
LEMMA OneReplaced ==
  ASSUME NEW s \in Seq(Account), Len(s) = 1, NEW x \in Account
  PROVE  /\ [s EXCEPT ![1] = x] \in Seq(Account)
         /\ Len([s EXCEPT ![1] = x]) = 1
         /\ [s EXCEPT ![1] = x][1] = x
BY ExceptSeq

LEMMA TypeInit == Init => TypeInv
<1> SUFFICES ASSUME Init PROVE TypeInv
  OBVIOUS
<1>1. CountersType
  BY TimesAssumption DEF Init, CountersType
<1>2. AccountsType
  <2> DEFINE first == [role |-> AdminRole, password |-> AdminPassword, version |-> 0]
  <2>1. first \in Account
    BY NamesAssumption DEF Account
  <2>2. <<first>> \in Seq(Account) /\ << >> \in Seq(Account)
    BY <2>1
  <2>3. accounts = [u \in Users |-> IF u = Admin THEN <<first>> ELSE << >>]
    BY DEF Init
  <2> HIDE DEF first
  <2>4. QED
    BY <2>2, <2>3 DEF AccountsType
<1>3. DirectoryType
  BY NamesAssumption, TimesAssumption DEF Init, DirectoryType, Role, Policy
<1>4. ConfigType /\ CallType /\ EditType
  BY DEF Init, ConfigType, CallType, EditType, EditOK, Calls, Idle
<1>5. Versioned /\ Identified
  BY NamesAssumption DEF Init, Versioned, Identified, Idle
<1>6. QED
  BY <1>1, <1>2, <1>3, <1>4, <1>5 DEF TypeInv

LEMMA Kept ==
  /\ CountersType /\ UNCHANGED <<now, ids, versions>> => CountersType'
  /\ AccountsType /\ UNCHANGED accounts => AccountsType'
  /\ DirectoryType /\ UNCHANGED <<roles, policies, expires>> => DirectoryType'
  /\ ConfigType /\ UNCHANGED config => ConfigType'
  /\ CallType /\ UNCHANGED call => CallType'
  /\ EditType /\ UNCHANGED edit => EditType'
  /\ Versioned /\ UNCHANGED <<accounts, config, call, versions>> => Versioned'
  /\ Identified /\ UNCHANGED <<roles, policies, ids>> => Identified'
BY DEF CountersType, AccountsType, DirectoryType, ConfigType, CallType, EditType, Versioned,
       Identified

\* A request goes on, and is not answered yet.
LEMMA CallGoesOn ==
  ASSUME TypeInv, NEW c \in Clients, NEW x \in Calls, x.step # "answer",
         call' = [call EXCEPT ![c] = x], UNCHANGED <<accounts, config, versions>>
  PROVE  CallType' /\ Versioned'
BY DEF TypeInv, CallType, Versioned

LEMMA EditGoesOn ==
  ASSUME EditType, NEW a \in Admins, NEW x, EditOK(x), edit' = [edit EXCEPT ![a] = x]
  PROVE  EditType'
BY DEF EditType

\* What the record of a step holds.
LEMMA CallFields ==
  ASSUME CallType, NEW c \in Clients
  PROVE  /\ call[c].step = "login" => call[c].user \in Users
         /\ call[c].step = "answer" => call[c].access \in Access /\ call[c].refresh \in Token
         /\ call[c].step \in {"role", "served", "policies"} =>
              call[c].permission \in Permissions /\ call[c].role \in Roles
         /\ call[c].step = "policies" => call[c].policies \in SUBSET Policies
BY DEF CallType, Calls, Idle

LEMMA IdleType == Idle \in Calls /\ EditOK(Idle) /\ Idle.step = "none"
BY DEF Idle, Calls, EditOK

LEMMA TypeStep == TypeInv /\ [Next]_vars => TypeInv'
<1> SUFFICES ASSUME TypeInv, [Next]_vars PROVE TypeInv'
  OBVIOUS
<1>1. ASSUME Tick PROVE TypeInv'
  <2>1. CountersType'
    BY <1>1, TimesAssumption DEF Tick, TypeInv, CountersType, directory, sessions
  <2>2. UNCHANGED <<accounts, roles, policies, ids, expires, versions, config, call, edit>>
    BY <1>1 DEF Tick, directory, sessions
  <2>q. QED
    BY <2>1, <2>2, Kept DEF TypeInv
<1>2. ASSUME NEW c \in Clients, NEW u \in Users, NEW w \in Passwords, SignIn(c, u, w) PROVE TypeInv'
  <2>1. [step |-> "login", user |-> u, old |-> 0] \in Calls
    BY DEF Calls
  <2>2. UNCHANGED <<now, accounts, roles, policies, ids, expires, versions, config, edit>>
    BY <1>2 DEF SignIn, directory, sessions
  <2>3. CallType' /\ Versioned'
    BY <1>2, <2>1, <2>2, CallGoesOn DEF SignIn
  <2>q. QED
    BY <2>2, <2>3, Kept DEF TypeInv
<1>3. ASSUME NEW c \in Clients, Refresh(c) PROVE TypeInv'
  <2>1. config[c].refresh \in Token
    BY <1>3 DEF Refresh, TypeInv, ConfigType
  <2> DEFINE x == [step |-> "login", user |-> config[c].refresh.user,
                   old |-> config[c].refresh.version]
  <2>2. x \in Calls /\ x.step # "answer"
    BY <2>1 DEF Calls, Token
  <2>3. UNCHANGED <<now, accounts, roles, policies, ids, expires, versions, config, edit>>
    BY <1>3 DEF Refresh, directory, sessions
  <2>4. call' = [call EXCEPT ![c] = x]
    BY <1>3 DEF Refresh
  <2>5. CallType' /\ Versioned'
    BY <2>2, <2>3, <2>4, CallGoesOn
  <2>q. QED
    BY <2>3, <2>5, Kept DEF TypeInv
<1>4. ASSUME NEW c \in Clients, IssueTokens(c) PROVE TypeInv'
  <2> DEFINE u == call[c].user
  <2>1. u \in Users
    BY <1>4, CallFields DEF IssueTokens, TypeInv
  <2>2. UNCHANGED <<now, roles, policies, ids, expires, config, edit>> /\ versions' = versions + 1
    BY <1>4 DEF IssueTokens, directory
  <2>3. CountersType' /\ DirectoryType' /\ ConfigType' /\ EditType' /\ Identified'
    BY <2>2, Kept DEF TypeInv, CountersType
  <2>4. CASE Found(u)
    <3> DEFINE old == accounts[u][1]  new == [old EXCEPT !.version = versions + 1]
               x == [step    |-> "answer",
                     access  |-> _generate_access_token(c),
                     refresh |-> _generate_refresh_token(c, versions + 1)]
    <3>1. accounts[u] \in Seq(Account) /\ Len(accounts[u]) = 1 /\ old \in Account
      BY <2>1, <2>4 DEF Found, TypeInv, AccountsType
    <3>2. new \in Account /\ new.version = versions + 1
      <4>1. versions + 1 \in Nat
        BY DEF TypeInv, CountersType
      <4>2. old \in [role : Roles, password : Passwords, version : Nat]
        BY <3>1 DEF Account
      <4> HIDE DEF old
      <4>3. QED
        BY <4>1, <4>2 DEF Account
    <3>3. accounts' = [accounts EXCEPT ![u] = [@ EXCEPT ![1] = new]]
      BY <1>4, <2>4 DEF IssueTokens, update_latest_login
    <3> HIDE DEF new
    <3>4. /\ [accounts[u] EXCEPT ![1] = new] \in Seq(Account)
          /\ Len([accounts[u] EXCEPT ![1] = new]) = 1
          /\ [accounts[u] EXCEPT ![1] = new][1] = new
      BY <3>1, <3>2, OneReplaced
    <3>5. AccountsType'
      BY <3>3, <3>4, <2>1 DEF TypeInv, AccountsType
    <3>6. x \in Calls /\ x.step = "answer" /\ x.refresh = [user |-> u, version |-> versions + 1]
      BY <2>1, TimesAssumption DEF Calls, Access, Token, _generate_access_token,
           _generate_refresh_token, TypeInv, CountersType
    <3>7. call' = [call EXCEPT ![c] = x]
      BY <1>4, <2>4 DEF IssueTokens
    <3> HIDE DEF x, u
    <3>8. CallType'
      BY <3>6, <3>7 DEF TypeInv, CallType
    <3>9. \A v \in Users : \A k \in DOMAIN accounts'[v] : accounts'[v][k].version <= versions'
      <4> SUFFICES ASSUME NEW v \in Users, NEW k \in DOMAIN accounts'[v]
                   PROVE  accounts'[v][k].version <= versions'
        OBVIOUS
      <4>1. CASE v = u
        <5>1. accounts'[v] = [accounts[u] EXCEPT ![1] = new]
          BY <4>1, <2>1, <3>3 DEF TypeInv, AccountsType
        <5>2. k = 1
          BY <5>1, <3>1, <3>4
        <5>3. QED
          BY <5>1, <5>2, <3>2, <3>4, <2>2 DEF TypeInv, CountersType
      <4>2. CASE v # u
        <5>1. accounts'[v] = accounts[v] /\ accounts[v][k] \in Account
          BY <4>2, <3>3 DEF TypeInv, AccountsType
        <5>2. QED
          BY <5>1, <2>2 DEF TypeInv, CountersType, Versioned, Account
      <4>3. QED
        BY <4>1, <4>2
    <3>10. \A d \in Clients : call'[d].step = "answer" => call'[d].refresh.version \in 1..versions'
      BY <3>6, <3>7, <2>2 DEF TypeInv, CallType, CountersType, Versioned
    <3>11. \A d \in Clients : config'[d].refresh # None => config'[d].refresh.version \in 1..versions'
      BY <2>2 DEF TypeInv, CountersType, Versioned
    <3>12. QED
      BY <2>3, <3>5, <3>8, <3>9, <3>10, <3>11 DEF TypeInv, Versioned
  <2>5. CASE ~Found(u)
    <3>1. call' = [call EXCEPT ![c] = Idle] /\ UNCHANGED accounts
      BY <1>4, <2>5 DEF IssueTokens
    <3>2. CallType'
      BY <3>1, IdleType DEF TypeInv, CallType
    <3>3. \A v \in Users : \A k \in DOMAIN accounts[v] : accounts[v][k].version \in Nat
      <4> SUFFICES ASSUME NEW v \in Users, NEW k \in DOMAIN accounts[v]
                   PROVE  accounts[v][k].version \in Nat
        OBVIOUS
      <4>1. accounts[v] \in Seq(Account)
        BY DEF TypeInv, AccountsType
      <4>2. accounts[v][k] \in Account
        BY <4>1
      <4>3. QED
        BY <4>2 DEF Account
    <3>4. Versioned'
      BY <3>1, <3>3, <2>2, IdleType DEF TypeInv, CallType, Versioned, CountersType
    <3>5. QED
      BY <3>1, <3>2, <3>4, <2>3, Kept DEF TypeInv
  <2>6. QED
    BY <2>4, <2>5
<1>5. ASSUME NEW c \in Clients, SaveToken(c) PROVE TypeInv'
  <2> DEFINE x == [access |-> call[c].access, refresh |-> call[c].refresh]
  <2>1. call[c].step = "answer" /\ call[c].access \in Access /\ call[c].refresh \in Token
    BY <1>5, CallFields DEF SaveToken, TypeInv
  <2>2. config' = [config EXCEPT ![c] = x] /\ call' = [call EXCEPT ![c] = Idle]
        /\ UNCHANGED <<now, accounts, roles, policies, ids, expires, versions, edit>>
    BY <1>5 DEF SaveToken, directory
  <2>3. ConfigType'
    BY <2>1, <2>2 DEF TypeInv, ConfigType
  <2>4. CallType' /\ Versioned'
    BY <2>1, <2>2, IdleType DEF TypeInv, CallType, ConfigType, Versioned
  <2>q. QED
    BY <2>2, <2>3, <2>4, Kept DEF TypeInv
<1>6. ASSUME NEW c \in Clients, LoseAnswer(c) PROVE TypeInv'
  <2>1. UNCHANGED <<now, accounts, roles, policies, ids, expires, versions, config, edit>>
    BY <1>6 DEF LoseAnswer, directory
  <2>2. CallType' /\ Versioned'
    BY <1>6, <2>1, CallGoesOn, IdleType DEF LoseAnswer
  <2>q. QED
    BY <2>1, <2>2, Kept DEF TypeInv
<1>7. ASSUME NEW c \in Clients, NEW permission \in Permissions, Request(c, permission) PROVE TypeInv'
  <2> DEFINE u == config[c].access.user
             x == [step |-> "role", permission |-> permission, role |-> accounts[u][1].role]
  <2>1. u \in Users
    BY <1>7 DEF Request, authorize, TypeInv, ConfigType, Access
  <2>2. accounts[u][1] \in Account
    BY <1>7, <2>1 DEF Request, Found, TypeInv, AccountsType
  <2>3. x \in Calls /\ x.step # "answer"
    BY <2>2 DEF Calls, Account
  <2>4. call' = [call EXCEPT ![c] = x]
        /\ UNCHANGED <<now, accounts, roles, policies, ids, expires, versions, config, edit>>
    BY <1>7 DEF Request, directory, sessions
  <2> HIDE DEF x
  <2>5. CallType' /\ Versioned'
    BY <2>3, <2>4, CallGoesOn
  <2>q. QED
    BY <2>4, <2>5, Kept DEF TypeInv
<1>8. ASSUME NEW c \in Clients, ReadRole(c) PROVE TypeInv'
  <2> DEFINE r == call[c].role
             x == [step |-> "policies", permission |-> call[c].permission, role |-> r,
                   policies |-> roles[r].policies]
  <2>1. call[c].permission \in Permissions /\ r \in Roles
    BY <1>8, CallFields DEF ReadRole, TypeInv
  <2>2. roles[r] # None => x \in Calls /\ x.step # "answer"
    BY <2>1 DEF Calls, TypeInv, DirectoryType, Role
  <2>3. /\ call' = [call EXCEPT ![c] = Idle] \/ (roles[r] # None /\ call' = [call EXCEPT ![c] = x])
        /\ UNCHANGED <<now, accounts, roles, policies, ids, expires, versions, config, edit>>
    BY <1>8 DEF ReadRole, directory, sessions
  <2> HIDE DEF x
  <2>4. CallType' /\ Versioned'
    BY <2>2, <2>3, CallGoesOn, IdleType
  <2>q. QED
    BY <2>3, <2>4, Kept DEF TypeInv
<1>9. ASSUME NEW c \in Clients, ReadPolicies(c) PROVE TypeInv'
  <2> DEFINE x == [step |-> "served", permission |-> call[c].permission, role |-> call[c].role]
  <2>1. call[c].permission \in Permissions /\ call[c].role \in Roles
    BY <1>9, CallFields DEF ReadPolicies, TypeInv
  <2>2. x \in Calls /\ x.step # "answer"
    BY <2>1 DEF Calls
  <2>3. /\ call' = [call EXCEPT ![c] = Idle] \/ call' = [call EXCEPT ![c] = x]
        /\ UNCHANGED <<now, accounts, roles, policies, ids, expires, versions, config, edit>>
    BY <1>9 DEF ReadPolicies, directory, sessions
  <2> HIDE DEF x
  <2>4. CallType' /\ Versioned'
    BY <2>2, <2>3, CallGoesOn, IdleType
  <2>q. QED
    BY <2>3, <2>4, Kept DEF TypeInv
<1>10. ASSUME NEW c \in Clients, ShowAnswer(c) PROVE TypeInv'
  <2>1. UNCHANGED <<now, accounts, roles, policies, ids, expires, versions, config, edit>>
    BY <1>10 DEF ShowAnswer, directory, sessions
  <2>2. CallType' /\ Versioned'
    BY <1>10, <2>1, CallGoesOn, IdleType DEF ShowAnswer
  <2>q. QED
    BY <2>1, <2>2, Kept DEF TypeInv
<1>11. ASSUME NEW a \in Admins, NEW u \in Users, NEW r \in Roles, SignUp(a, u, r) PROVE TypeInv'
  <2>1. EditType'
    BY <1>11, EditGoesOn DEF SignUp, EditOK, TypeInv
  <2>2. UNCHANGED <<now, accounts, roles, policies, ids, expires, versions, config, call>>
    BY <1>11 DEF SignUp, directory, sessions
  <2>q. QED
    BY <2>1, <2>2, Kept DEF TypeInv
<1>12. ASSUME NEW a \in Admins, NEW w \in Passwords, SaveUser(a, w) PROVE TypeInv'
  <2> DEFINE u == edit[a].user
             new == [role |-> edit[a].role, password |-> w, version |-> 0]
  <2>1. u \in Users /\ edit[a].role \in Roles
    BY <1>12 DEF SaveUser, TypeInv, EditType, EditOK
  <2>2. new \in Account /\ new.version = 0
    BY <2>1 DEF Account
  <2>3. /\ accounts' = [accounts EXCEPT ![u] = Append(@, new)] /\ edit' = [edit EXCEPT ![a] = Idle]
        /\ UNCHANGED <<now, roles, policies, ids, expires, versions, config, call>>
    BY <1>12 DEF SaveUser, directory, sessions
  <2> HIDE DEF new
  <2>4. EditType'
    BY <2>3, EditGoesOn, IdleType DEF TypeInv
  <2>5. accounts[u] \in Seq(Account)
    BY <2>1 DEF TypeInv, AccountsType
  <2>6. AccountsType'
    BY <2>1, <2>2, <2>3, <2>5 DEF TypeInv, AccountsType
  <2>7. \A v \in Users : \A k \in DOMAIN accounts'[v] : accounts'[v][k].version <= versions'
    <3> SUFFICES ASSUME NEW v \in Users, NEW k \in DOMAIN accounts'[v]
                 PROVE  accounts'[v][k].version <= versions'
      OBVIOUS
    <3>1. CASE v = u
      <4>1. accounts'[v] = Append(accounts[u], new)
        BY <3>1, <2>1, <2>3 DEF TypeInv, AccountsType
      <4>2. accounts'[v][k] = new \/ (k \in DOMAIN accounts[u] /\ accounts'[v][k] = accounts[u][k])
        BY <4>1, <2>2, <2>5
      <4>3. QED
        BY <4>2, <2>1, <2>2, <2>3 DEF TypeInv, CountersType, Versioned
    <3>2. CASE v # u
      BY <3>2, <2>3 DEF TypeInv, AccountsType, Versioned
    <3>3. QED
      BY <3>1, <3>2
  <2>8. Versioned'
    BY <2>3, <2>7 DEF TypeInv, Versioned
  <2>q. QED
    BY <2>3, <2>4, <2>6, <2>8, Kept DEF TypeInv
<1>13. ASSUME NEW a \in Admins, NEW r \in Roles, NEW t \in 0..MaxTime + 1, NEW ps \in SUBSET Policies,
             PostRole(a, r, t, ps) PROVE TypeInv'
  <2>1. t \in Nat
    BY TimesAssumption
  <2>2. EditType'
    BY <1>13, <2>1, EditGoesOn DEF PostRole, EditOK, TypeInv
  <2>3. UNCHANGED <<now, accounts, roles, policies, ids, expires, versions, config, call>>
    BY <1>13 DEF PostRole, directory, sessions
  <2>q. QED
    BY <2>2, <2>3, Kept DEF TypeInv
<1>14. ASSUME NEW a \in Admins, NEW r \in Roles, NEW t \in 0..MaxTime + 1 \cup {None},
             NEW attach \in SUBSET Policies, NEW detach \in SUBSET Policies,
             PatchRole(a, r, t, attach, detach) PROVE TypeInv'
  <2>1. t \in Nat \cup {None}
    BY TimesAssumption
  <2>2. PICK written \in {(roles[r].policies \cup attach) \ detach} \cup {None} :
          edit' = [edit EXCEPT ![a] =
            [step |-> "patch_role", name |-> r, id |-> roles[r].id, expiration |-> t,
             policies |-> written, loaded |-> roles[r]]]
    BY <1>14 DEF PatchRole
  <2>3. roles[r].policies \in SUBSET Policies
    BY <1>14 DEF PatchRole, TypeInv, DirectoryType, Role
  <2>4. written \in (SUBSET Policies) \cup {None}
    BY <2>3
  <2>5. EditType'
    BY <2>1, <2>2, <2>4, EditGoesOn DEF EditOK, TypeInv
  <2>6. UNCHANGED <<now, accounts, roles, policies, ids, expires, versions, config, call>>
    BY <1>14 DEF PatchRole, directory, sessions
  <2>q. QED
    BY <2>5, <2>6, Kept DEF TypeInv
<1>15. ASSUME NEW a \in Admins, SaveRole(a) PROVE TypeInv'
  <2> DEFINE r == edit[a].name
             new == [id |-> ids + 1, expiration |-> edit[a].expiration,
                     policies |-> edit[a].policies]
  <2>1. r \in Roles /\ edit[a].expiration \in Nat /\ edit[a].policies \in SUBSET Policies
    BY <1>15 DEF SaveRole, TypeInv, EditType, EditOK
  <2>2. new \in Role /\ new.id = ids + 1
    BY <2>1 DEF Role, TypeInv, CountersType
  <2>3. /\ edit' = [edit EXCEPT ![a] = Idle]
        /\ UNCHANGED <<now, accounts, policies, versions, config, call>>
    BY <1>15 DEF SaveRole, sessions
  <2>4. \/ /\ ids' = ids + 1 /\ roles' = [roles EXCEPT ![r] = new]
           /\ expires' = [expires EXCEPT ![r] = edit[a].expiration]
        \/ UNCHANGED <<ids, roles, expires>>
    BY <1>15 DEF SaveRole
  <2> HIDE DEF new
  <2>5. EditType'
    BY <2>3, EditGoesOn, IdleType DEF TypeInv
  <2>6. CountersType'
    BY <2>3, <2>4 DEF TypeInv, CountersType
  <2>7. DirectoryType'
    BY <2>1, <2>2, <2>3, <2>4 DEF TypeInv, DirectoryType
  <2>8. Identified'
    BY <2>1, <2>2, <2>3, <2>4 DEF TypeInv, DirectoryType, CountersType, Identified, Role, Policy
  <2>q. QED
    BY <2>3, <2>5, <2>6, <2>7, <2>8, Kept DEF TypeInv
<1>16. ASSUME NEW a \in Admins, SavePatchedRole(a) PROVE TypeInv'
  <2> DEFINE r == edit[a].name  new == Changed(roles[r], edit[a])
  <2>1. /\ r \in Roles /\ edit[a].expiration \in Nat \cup {None}
        /\ edit[a].policies \in (SUBSET Policies) \cup {None}
    BY <1>16 DEF SavePatchedRole, TypeInv, EditType, EditOK
  <2>2. roles[r] # None => new \in Role /\ new.id = roles[r].id
    <3> SUFFICES ASSUME roles[r] # None PROVE new \in Role /\ new.id = roles[r].id
      OBVIOUS
    <3> DEFINE t  == IF edit[a].expiration = None THEN roles[r].expiration ELSE edit[a].expiration
               ps == IF edit[a].policies = None THEN roles[r].policies ELSE edit[a].policies
    <3>1. roles[r] \in Role
      BY <2>1 DEF TypeInv, DirectoryType
    <3>2. t \in Nat /\ ps \in SUBSET Policies
      BY <2>1, <3>1 DEF Role
    <3>3. new = [roles[r] EXCEPT !.expiration = t, !.policies = ps]
      BY DEF Changed
    <3> HIDE DEF t, ps, new
    <3>4. QED
      BY <3>1, <3>2, <3>3 DEF Role
  <2>3. /\ edit' = [edit EXCEPT ![a] = Idle]
        /\ UNCHANGED <<now, ids, accounts, policies, versions, config, call>>
    BY <1>16 DEF SavePatchedRole, sessions
  <2>4. \/ /\ roles[r] # None /\ roles' = [roles EXCEPT ![r] = new]
           /\ expires' = [expires EXCEPT ![r] =
                           IF edit[a].expiration = None THEN @ ELSE edit[a].expiration]
        \/ UNCHANGED <<roles, expires>>
    BY <1>16 DEF SavePatchedRole
  <2> HIDE DEF new
  <2>5. EditType'
    BY <2>3, EditGoesOn, IdleType DEF TypeInv
  <2>6. DirectoryType'
    BY <2>1, <2>2, <2>3, <2>4 DEF TypeInv, DirectoryType
  <2>7. Identified'
    BY <2>1, <2>2, <2>3, <2>4 DEF TypeInv, DirectoryType, Identified
  <2>q. QED
    BY <2>3, <2>5, <2>6, <2>7, Kept DEF TypeInv
<1>17. ASSUME NEW a \in Admins, NEW p \in Policies, NEW granted \in SUBSET Permissions, PostPolicy(a, p, granted) PROVE TypeInv'
  <2>1. EditType'
    BY <1>17, EditGoesOn DEF PostPolicy, EditOK, TypeInv
  <2>2. UNCHANGED <<now, accounts, roles, policies, ids, expires, versions, config, call>>
    BY <1>17 DEF PostPolicy, directory, sessions
  <2>q. QED
    BY <2>1, <2>2, Kept DEF TypeInv
<1>18. ASSUME NEW a \in Admins, NEW p \in Policies, NEW reset \in SUBSET Permissions,
             NEW attach \in SUBSET Permissions, NEW detach \in SUBSET Permissions,
             PatchPolicy(a, p, reset, attach, detach) PROVE TypeInv'
  <2> DEFINE new == IF reset # {} THEN reset ELSE (policies[p].permissions \cup attach) \ detach
             x == [step |-> "patch_policy", name |-> p, id |-> policies[p].id, permissions |-> new]
  <2>1. new \in SUBSET Permissions
    BY <1>18 DEF PatchPolicy, TypeInv, DirectoryType, Policy
  <2>2. /\ edit' = [edit EXCEPT ![a] = x]
        /\ UNCHANGED <<now, accounts, roles, policies, ids, expires, versions, config, call>>
    BY <1>18 DEF PatchPolicy, directory, sessions
  <2> HIDE DEF new
  <2>3. EditOK(x)
    BY <2>1 DEF EditOK
  <2>4. EditType'
    BY <2>2, <2>3, EditGoesOn DEF TypeInv
  <2>q. QED
    BY <2>2, <2>4, Kept DEF TypeInv
<1>19. ASSUME NEW a \in Admins, SavePolicy(a) PROVE TypeInv'
  <2> DEFINE p == edit[a].name  new == [id |-> ids + 1, permissions |-> edit[a].permissions]
  <2>1. p \in Policies /\ edit[a].permissions \in SUBSET Permissions
    BY <1>19 DEF SavePolicy, TypeInv, EditType, EditOK
  <2>2. new \in Policy /\ new.id = ids + 1
    BY <2>1 DEF Policy, TypeInv, CountersType
  <2>3. /\ edit' = [edit EXCEPT ![a] = Idle]
        /\ UNCHANGED <<now, accounts, roles, expires, versions, config, call>>
    BY <1>19 DEF SavePolicy, sessions
  <2>4. \/ ids' = ids + 1 /\ policies' = [policies EXCEPT ![p] = new]
        \/ UNCHANGED <<ids, policies>>
    BY <1>19 DEF SavePolicy
  <2> HIDE DEF new
  <2>5. EditType'
    BY <2>3, EditGoesOn, IdleType DEF TypeInv
  <2>6. CountersType'
    BY <2>3, <2>4 DEF TypeInv, CountersType
  <2>7. DirectoryType'
    BY <2>1, <2>2, <2>3, <2>4 DEF TypeInv, DirectoryType
  <2>8. Identified'
    BY <2>1, <2>2, <2>3, <2>4 DEF TypeInv, DirectoryType, CountersType, Identified, Role, Policy
  <2>q. QED
    BY <2>3, <2>5, <2>6, <2>7, <2>8, Kept DEF TypeInv
<1>20. ASSUME NEW a \in Admins, SavePatchedPolicy(a) PROVE TypeInv'
  <2> DEFINE p == edit[a].name  new == [policies[p] EXCEPT !.permissions = edit[a].permissions]
  <2>1. p \in Policies /\ edit[a].permissions \in SUBSET Permissions
    BY <1>20 DEF SavePatchedPolicy, TypeInv, EditType, EditOK
  <2>2. policies[p] # None => new \in Policy /\ new.id = policies[p].id
    BY <2>1 DEF Policy, TypeInv, DirectoryType
  <2>3. /\ edit' = [edit EXCEPT ![a] = Idle]
        /\ UNCHANGED <<now, ids, accounts, roles, expires, versions, config, call>>
    BY <1>20 DEF SavePatchedPolicy, sessions
  <2>4. \/ policies[p] # None /\ policies' = [policies EXCEPT ![p] = new]
        \/ UNCHANGED policies
    BY <1>20 DEF SavePatchedPolicy
  <2> HIDE DEF new
  <2>5. EditType'
    BY <2>3, EditGoesOn, IdleType DEF TypeInv
  <2>6. DirectoryType'
    BY <2>1, <2>2, <2>3, <2>4 DEF TypeInv, DirectoryType
  <2>7. Identified'
    BY <2>1, <2>2, <2>3, <2>4 DEF TypeInv, DirectoryType, Identified
  <2>q. QED
    BY <2>3, <2>5, <2>6, <2>7, Kept DEF TypeInv
<1>21. ASSUME NEW by \in Users, NEW u \in Users, NEW w \in Passwords, PatchUser(by, u, w) PROVE TypeInv'
  <2> DEFINE old == accounts[u][1]  new == [old EXCEPT !.password = w]
  <2>a. accounts[u] \in Seq(Account) /\ Len(accounts[u]) = 1
    BY <1>21 DEF PatchUser, Found, TypeInv, AccountsType
  <2>1. accounts[u] \in Seq(Account) /\ Len(accounts[u]) = 1 /\ old \in Account
    BY <2>a
  <2>2. new \in Account /\ new.version = old.version
    BY <2>1 DEF Account
  <2>3. /\ accounts' = [accounts EXCEPT ![u] = [@ EXCEPT ![1] = new]]
        /\ UNCHANGED <<now, roles, policies, ids, expires, versions, config, call, edit>>
    BY <1>21 DEF PatchUser, directory, sessions
  <2> HIDE DEF new
  <2>4. /\ [accounts[u] EXCEPT ![1] = new] \in Seq(Account)
        /\ Len([accounts[u] EXCEPT ![1] = new]) = 1
        /\ [accounts[u] EXCEPT ![1] = new][1] = new
    BY <2>1, <2>2, OneReplaced
  <2>5. AccountsType'
    BY <2>3, <2>4 DEF TypeInv, AccountsType
  <2>6. \A v \in Users : \A k \in DOMAIN accounts'[v] : accounts'[v][k].version <= versions'
    <3> SUFFICES ASSUME NEW v \in Users, NEW k \in DOMAIN accounts'[v]
                 PROVE  accounts'[v][k].version <= versions'
      OBVIOUS
    <3>1. CASE v = u
      <4>1. accounts'[v] = [accounts[u] EXCEPT ![1] = new]
        BY <3>1, <2>3 DEF TypeInv, AccountsType
      <4>2. k = 1 /\ 1 \in DOMAIN accounts[u]
        BY <4>1, <2>1, <2>4
      <4>3. QED
        BY <4>1, <4>2, <2>2, <2>3, <2>4 DEF TypeInv, Versioned
    <3>2. CASE v # u
      BY <3>2, <2>3 DEF TypeInv, AccountsType, Versioned
    <3>3. QED
      BY <3>1, <3>2
  <2>7. Versioned'
    BY <2>3, <2>6 DEF TypeInv, Versioned
  <2>q. QED
    BY <2>3, <2>5, <2>7, Kept DEF TypeInv
<1>22. ASSUME NEW r \in Roles, DeleteRole(r) PROVE TypeInv'
  <2>1. /\ roles' = [roles EXCEPT ![r] = None]
        /\ UNCHANGED <<now, accounts, policies, ids, expires, versions, config, call, edit>>
    BY <1>22 DEF DeleteRole, sessions
  <2>2. DirectoryType' /\ Identified'
    BY <2>1 DEF TypeInv, DirectoryType, Identified
  <2>q. QED
    BY <2>1, <2>2, Kept DEF TypeInv
<1>23. ASSUME NEW p \in Policies, DeletePolicy(p) PROVE TypeInv'
  <2>1. /\ policies' = [policies EXCEPT ![p] = None]
        /\ UNCHANGED <<now, accounts, roles, ids, expires, versions, config, call, edit>>
    BY <1>23 DEF DeletePolicy, sessions
  <2>2. DirectoryType' /\ Identified'
    BY <2>1 DEF TypeInv, DirectoryType, Identified
  <2>q. QED
    BY <2>1, <2>2, Kept DEF TypeInv
<1>24. CASE UNCHANGED vars
  BY <1>24, Kept DEF vars, directory, sessions, TypeInv
<1>25. QED
  BY <1>1, <1>2, <1>3, <1>4, <1>5, <1>6, <1>7, <1>8, <1>9, <1>10, <1>11, <1>12, <1>13, <1>14,
     <1>15, <1>16, <1>17, <1>18, <1>19, <1>20, <1>21, <1>22, <1>23, <1>24
     DEF Next, ClientStep, AdminStep

-----------------------------------------------------------------------------
(* Which steps change what                                                 *)

LEMMA ClientSteps ==
  ASSUME NEW c \in Clients, ClientStep(c)
  PROVE  /\ UNCHANGED <<now, roles, policies, ids, expires, edit>>
         /\ ~ IssueTokens(c) => UNCHANGED accounts
<1>1. ASSUME NEW u \in Users, NEW w \in Passwords, SignIn(c, u, w)
      PROVE  UNCHANGED <<now, accounts, roles, policies, ids, expires, edit>>
  BY <1>1 DEF SignIn, directory
<1>2. Refresh(c) => UNCHANGED <<now, accounts, roles, policies, ids, expires, edit>>
  BY DEF Refresh, directory
<1>3. IssueTokens(c) => UNCHANGED <<now, roles, policies, ids, expires, edit>>
  BY DEF IssueTokens, directory
<1>4. SaveToken(c) \/ LoseAnswer(c) => UNCHANGED <<now, accounts, roles, policies, ids, expires, edit>>
  BY DEF SaveToken, LoseAnswer, directory
<1>5. ASSUME NEW permission \in Permissions, Request(c, permission)
      PROVE  UNCHANGED <<now, accounts, roles, policies, ids, expires, edit>>
  BY <1>5 DEF Request, directory
<1>6. ReadRole(c) => UNCHANGED <<now, accounts, roles, policies, ids, expires, edit>>
  BY DEF ReadRole, directory
<1>7. ReadPolicies(c) => UNCHANGED <<now, accounts, roles, policies, ids, expires, edit>>
  BY DEF ReadPolicies, directory
<1>8. ShowAnswer(c) => UNCHANGED <<now, accounts, roles, policies, ids, expires, edit>>
  BY DEF ShowAnswer, directory
<1>9. QED
  BY <1>1, <1>2, <1>3, <1>4, <1>5, <1>6, <1>7, <1>8 DEF ClientStep

LEMMA AdminSteps ==
  ASSUME NEW a \in Admins, AdminStep(a)
  PROVE  /\ UNCHANGED <<now, config, call, lost>>
         /\ UNCHANGED accounts \/ \E w \in Passwords : SaveUser(a, w)
         /\ UNCHANGED <<roles, expires>> \/ SaveRole(a) \/ SavePatchedRole(a)
<1> DEFINE Same == UNCHANGED <<now, accounts, roles, expires, config, call, lost>>
<1>1. ASSUME NEW u \in Users, NEW r \in Roles, SignUp(a, u, r) PROVE Same
  BY <1>1 DEF SignUp, directory, sessions
<1>2. ASSUME NEW w \in Passwords, SaveUser(a, w)
      PROVE  UNCHANGED <<now, roles, expires, config, call, lost>>
  BY <1>2 DEF SaveUser, directory, sessions
<1>3. ASSUME NEW r \in Roles, NEW t \in 0..MaxTime + 1, NEW ps \in SUBSET Policies, PostRole(a, r, t, ps)
      PROVE  Same
  BY <1>3 DEF PostRole, directory, sessions
<1>4. ASSUME NEW r \in Roles, NEW t \in 0..MaxTime + 1 \cup {None}, NEW attach \in SUBSET Policies,
             NEW detach \in SUBSET Policies, PatchRole(a, r, t, attach, detach)
      PROVE  Same
  BY <1>4 DEF PatchRole, directory, sessions
<1>5. SaveRole(a) \/ SavePatchedRole(a) => UNCHANGED <<now, accounts, config, call, lost>>
  BY DEF SaveRole, SavePatchedRole, sessions
<1>6. ASSUME NEW p \in Policies, NEW granted \in SUBSET Permissions, PostPolicy(a, p, granted)
      PROVE  Same
  BY <1>6 DEF PostPolicy, directory, sessions
<1>7. ASSUME NEW p \in Policies, NEW reset \in SUBSET Permissions, NEW attach \in SUBSET Permissions,
             NEW detach \in SUBSET Permissions, PatchPolicy(a, p, reset, attach, detach)
      PROVE  Same
  BY <1>7 DEF PatchPolicy, directory, sessions
<1>8. SavePolicy(a) \/ SavePatchedPolicy(a) => Same
  BY DEF SavePolicy, SavePatchedPolicy, sessions
<1>9. QED
  BY <1>1, <1>2, <1>3, <1>4, <1>5, <1>6, <1>7, <1>8 DEF AdminStep

\* The other steps, by what they leave alone.
LEMMA OtherSteps ==
  /\ Tick => UNCHANGED <<accounts, roles, policies, expires, config, call, lost>>
  /\ \A by, u \in Users, w \in Passwords :
       PatchUser(by, u, w) => UNCHANGED <<now, roles, policies, expires, config, call, lost>>
  /\ \A r \in Roles :
       DeleteRole(r) => UNCHANGED <<now, accounts, policies, expires, config, call, lost>>
  /\ \A p \in Policies :
       DeletePolicy(p) => UNCHANGED <<now, accounts, roles, expires, config, call, lost>>
BY DEF Tick, PatchUser, DeleteRole, DeletePolicy, directory, sessions

-----------------------------------------------------------------------------
(* The theorems                                                            *)

\* Every variable keeps its type, and no version or id is used before it was given out.
THEOREM AccessTypeCorrect == Spec => []TypeOK
<1>1. TypeInv => TypeOK
  <2> SUFFICES ASSUME TypeInv PROVE TypeOK
    OBVIOUS
  <2>1. \A u \in Users : \A k \in DOMAIN accounts[u] :
          accounts[u][k] \in Account /\ accounts[u][k].version \in 0..versions
    <3> SUFFICES ASSUME NEW u \in Users, NEW k \in DOMAIN accounts[u]
                 PROVE  accounts[u][k] \in Account /\ accounts[u][k].version \in 0..versions
      OBVIOUS
    <3>1. accounts[u] \in Seq(Account)
      BY DEF TypeInv, AccountsType
    <3>2. accounts[u][k] \in Account
      BY <3>1
    <3>3. QED
      BY <3>2 DEF Account, TypeInv, CountersType, Versioned
  <2>2. \A r \in Roles : roles[r] # None => roles[r] \in Role /\ roles[r].id \in 1..ids
    BY DEF TypeInv, DirectoryType, Identified
  <2>3. \A p \in Policies : policies[p] # None => policies[p] \in Policy /\ policies[p].id \in 1..ids
    BY DEF TypeInv, DirectoryType, Identified
  <2>4. \A c \in Clients :
          /\ config[c].access = None \/ config[c].access.user \in Users
          /\ config[c].refresh = None \/ config[c].refresh.version \in 1..versions
    BY DEF TypeInv, ConfigType, Access, Versioned
  <2>5. \A c \in Clients :
          call[c].step \in {"none", "login", "answer", "role", "policies", "served"}
    BY DEF TypeInv, CallType, Calls, Idle
  <2>6. QED
    BY <2>1, <2>2, <2>3, <2>4, <2>5
       DEF TypeOK, TypeInv, CountersType, EditType, EditOK, Account, Role, Policy
<1>2. QED
  BY <1>1, TypeInit, TypeStep, PTL DEF Spec

LEMMA ExpirationStep == TypeInv /\ ExpirationIsKept /\ [Next]_vars => ExpirationIsKept'
<1> SUFFICES ASSUME TypeInv, ExpirationIsKept, [Next]_vars PROVE ExpirationIsKept'
  OBVIOUS
<1>1. CASE UNCHANGED <<roles, expires>>
  BY <1>1 DEF ExpirationIsKept
<1>2. ASSUME NEW a \in Admins, SaveRole(a) PROVE ExpirationIsKept'
  <2>1. edit[a].name \in Roles
    BY <1>2 DEF SaveRole, TypeInv, EditType, EditOK
  <2>2. QED
    BY <1>2, <2>1 DEF SaveRole, ExpirationIsKept, TypeInv, DirectoryType
<1>3. ASSUME NEW a \in Admins, SavePatchedRole(a) PROVE ExpirationIsKept'
  <2> DEFINE r == edit[a].name  new == Changed(roles[r], edit[a])
             t == IF edit[a].expiration = None THEN expires[r] ELSE edit[a].expiration
  <2>1. CASE UNCHANGED <<roles, expires>>
    BY <2>1 DEF ExpirationIsKept
  <2>2. CASE /\ roles[r] # None /\ roles' = [roles EXCEPT ![r] = new]
             /\ expires' = [expires EXCEPT ![r] = t]
    <3>1. r \in Roles /\ roles[r] \in Role /\ roles[r].expiration = expires[r]
      BY <1>3, <2>2 DEF SavePatchedRole, TypeInv, EditType, EditOK, DirectoryType, ExpirationIsKept
    <3>2. new.expiration = t
      BY <3>1 DEF Changed, Role
    <3> HIDE DEF new, t, r
    <3>3. QED
      BY <2>2, <3>1, <3>2 DEF ExpirationIsKept, TypeInv, DirectoryType
  <2>3. QED
    BY <1>3, <2>1, <2>2 DEF SavePatchedRole
<1>4. ASSUME NEW r \in Roles, DeleteRole(r) PROVE ExpirationIsKept'
  <2>1. roles' = [roles EXCEPT ![r] = None] /\ expires' = expires
    BY <1>4 DEF DeleteRole
  <2>2. QED
    BY <2>1 DEF ExpirationIsKept, TypeInv, DirectoryType
<1>5. CASE UNCHANGED vars
  BY <1>1, <1>5 DEF vars, directory
<1>6. QED
  BY <1>1, <1>2, <1>3, <1>4, <1>5, ClientSteps, AdminSteps, OtherSteps DEF Next

\* However administrators patch, delete and create a role at the same time, its
\* expiration is the last one that a request has set.
THEOREM ExpirationIsKeptTheorem == Spec => []ExpirationIsKept
<1>1. Init => ExpirationIsKept
  BY DEF Init, ExpirationIsKept
<1>2. QED
  BY <1>1, TypeInit, TypeStep, ExpirationStep, PTL DEF Spec

\* The token with the version that the server holds for u is in somebody's hands, or lost.
Held(u) ==
  LET token == [user |-> u, version |-> accounts[u][1].version] IN
  \/ token \in lost
  \/ \E c \in Clients : config[c].refresh = token
                        \/ (call[c].step = "answer" /\ call[c].refresh = token)

LEMMA HeldMeans ==
  NewestIsHeld <=> \A u \in Users : Found(u) /\ accounts[u][1].version # 0 => Held(u)
BY DEF NewestIsHeld, Held

\* A token stays with its holder as long as no client stores or loses an answer.
LEMMA HeldStays ==
  ASSUME CallType, NEW c \in Clients, call[c].step # "answer", NEW x, call' = [call EXCEPT ![c] = x],
         UNCHANGED <<config, lost>>, NEW u \in Users, accounts'[u] = accounts[u], Held(u)
  PROVE  Held(u)'
BY DEF Held, CallType

LEMMA NewestStep == TypeInv /\ NewestIsHeld /\ [Next]_vars => NewestIsHeld'
<1> SUFFICES ASSUME TypeInv, NewestIsHeld, [Next]_vars PROVE NewestIsHeld'
  OBVIOUS
<1>1. CASE UNCHANGED <<accounts, config, call, lost>>
  BY <1>1 DEF NewestIsHeld, Found
<1>2. ASSUME NEW c \in Clients, call[c].step # "answer", NEW x, call' = [call EXCEPT ![c] = x],
             UNCHANGED <<accounts, config, lost>>
      PROVE  NewestIsHeld'
  <2> SUFFICES ASSUME NEW u \in Users, Found(u)', (accounts[u][1].version # 0)'
               PROVE  Held(u)'
    BY DEF NewestIsHeld, Held
  <2>1. Held(u)
    BY <1>2, HeldMeans DEF Found
  <2>2. QED
    BY <1>2, <2>1, HeldStays DEF TypeInv
<1>3. ASSUME NEW c \in Clients, IssueTokens(c) PROVE NewestIsHeld'
  <2> DEFINE w == call[c].user
  <2>1. CASE ~Found(w)
    BY <1>2, <1>3, <2>1 DEF IssueTokens
  <2>2. CASE Found(w)
    <3> DEFINE new == [accounts[w][1] EXCEPT !.version = versions + 1]
               token == [user |-> w, version |-> versions + 1]
               x == [step |-> "answer", access |-> _generate_access_token(c), refresh |-> token]
    <3>1. w \in Users /\ call[c].step = "login"
      BY <1>3, CallFields DEF IssueTokens, TypeInv
    <3>2. accounts' = [accounts EXCEPT ![w] = [@ EXCEPT ![1] = new]]
      BY <1>3, <2>2 DEF IssueTokens, update_latest_login
    <3>3. call' = [call EXCEPT ![c] = x] /\ UNCHANGED <<config, lost>>
      BY <1>3, <2>2 DEF IssueTokens, _generate_refresh_token
    <3>4. accounts[w] \in Seq(Account) /\ Len(accounts[w]) = 1
      BY <2>2, <3>1 DEF Found, TypeInv, AccountsType
    <3>5. accounts[w][1] \in Account
      BY <3>4
    <3>6. new.version = versions + 1
      BY <3>5 DEF Account
    <3> SUFFICES ASSUME NEW u \in Users, Found(u)', (accounts[u][1].version # 0)'
                 PROVE  Held(u)'
      BY DEF NewestIsHeld, Held
    <3>7. CASE u = w
      <4>1. accounts'[w] = [accounts[w] EXCEPT ![1] = new]
        BY <3>1, <3>2 DEF TypeInv, AccountsType
      <4>2. accounts'[w][1] = new
        BY <3>4, <4>1
      <4>3. call'[c].step = "answer" /\ call'[c].refresh = token
        BY <3>3 DEF TypeInv, CallType
      <4> HIDE DEF new
      <4>4. QED
        BY <3>6, <3>7, <4>2, <4>3 DEF Held
    <3>8. CASE u # w
      <4>1. accounts'[u] = accounts[u]
        BY <3>2, <3>8 DEF TypeInv, AccountsType
      <4>2. Held(u)
        BY <4>1, HeldMeans DEF Found
      <4>3. QED
        BY <3>1, <3>3, <4>1, <4>2, HeldStays DEF TypeInv
    <3>9. QED
      BY <3>7, <3>8
  <2>3. QED
    BY <2>1, <2>2
<1>4. ASSUME NEW c \in Clients, SaveToken(c) \/ LoseAnswer(c) PROVE NewestIsHeld'
  <2> SUFFICES ASSUME NEW u \in Users, Found(u)', (accounts[u][1].version # 0)'
               PROVE  Held(u)'
    BY DEF NewestIsHeld, Held
  <2> DEFINE token == [user |-> u, version |-> accounts[u][1].version]
  <2>1. accounts' = accounts /\ call[c].step = "answer" /\ call' = [call EXCEPT ![c] = Idle]
    BY <1>4 DEF SaveToken, LoseAnswer
  <2>2. Held(u)
    BY <2>1, HeldMeans DEF Found
  <2>3. accounts[u][1] \in Account
    <3>1. accounts[u] \in Seq(Account) /\ Len(accounts[u]) = 1
      BY <2>1 DEF Found, TypeInv, AccountsType
    <3>2. QED
      BY <3>1
  <2>4. token # None
    BY <2>3, NoneAssumption DEF Account
  <2>5. CASE token \in lost
    BY <1>4, <2>1, <2>5 DEF Held, SaveToken, LoseAnswer
  <2>6. CASE call[c].refresh = token
    <3>1. SaveToken(c) => config'[c].refresh = token
      BY <2>6 DEF SaveToken, TypeInv, ConfigType
    <3>2. LoseAnswer(c) => token \in lost'
      BY <2>6 DEF LoseAnswer
    <3>3. QED
      BY <1>4, <2>1, <3>1, <3>2 DEF Held
  <2>7. CASE config[c].refresh = token
    <3>1. SaveToken(c) => token \in lost'
      BY <2>4, <2>7 DEF SaveToken
    <3>2. LoseAnswer(c) => config' = config
      BY DEF LoseAnswer
    <3>3. QED
      BY <1>4, <2>1, <2>7, <3>1, <3>2 DEF Held
  <2>8. ASSUME NEW d \in Clients, d # c,
               config[d].refresh = token \/ (call[d].step = "answer" /\ call[d].refresh = token)
        PROVE  Held(u)'
    <3>1. config'[d] = config[d] /\ call'[d] = call[d]
      BY <1>4, <2>1, <2>8 DEF SaveToken, LoseAnswer, TypeInv, ConfigType, CallType
    <3>2. QED
      BY <2>1, <2>8, <3>1 DEF Held
  <2>9. QED
    BY <2>2, <2>5, <2>6, <2>7, <2>8 DEF Held
<1>5. ASSUME NEW a \in Admins, NEW w \in Passwords, SaveUser(a, w) PROVE NewestIsHeld'
  <2> DEFINE v == edit[a].user
             new == [role |-> edit[a].role, password |-> w, version |-> 0]
  <2>1. v \in Users
    BY <1>5 DEF SaveUser, TypeInv, EditType, EditOK
  <2>2. accounts' = [accounts EXCEPT ![v] = Append(@, new)] /\ UNCHANGED <<config, call, lost>>
    BY <1>5 DEF SaveUser, sessions
  <2> SUFFICES ASSUME NEW u \in Users, Found(u)', (accounts[u][1].version # 0)'
               PROVE  Held(u)'
    BY DEF NewestIsHeld, Held
  <2>3. u # v
    <3> SUFFICES ASSUME u = v PROVE FALSE
      OBVIOUS
    <3>1. accounts[v] \in Seq(Account) /\ accounts'[v] = Append(accounts[v], new)
      BY <2>1, <2>2 DEF TypeInv, AccountsType
    <3> HIDE DEF new
    <3>2. Len(accounts[v]) = 0 /\ accounts'[v][1] = new
      BY <3>1 DEF Found
    <3>3. QED
      BY <3>2 DEF new
  <2>4. accounts'[u] = accounts[u]
    BY <2>2, <2>3 DEF TypeInv, AccountsType
  <2>5. Held(u)
    BY <2>4, HeldMeans DEF Found
  <2>6. QED
    BY <2>2, <2>4, <2>5 DEF Held
<1>6. ASSUME NEW by \in Users, NEW v \in Users, NEW w \in Passwords, PatchUser(by, v, w)
      PROVE  NewestIsHeld'
  <2> DEFINE new == [accounts[v][1] EXCEPT !.password = w]
  <2>1. accounts[v] \in Seq(Account) /\ Len(accounts[v]) = 1
    BY <1>6 DEF PatchUser, Found, TypeInv, AccountsType
  <2>2. accounts[v][1] \in Account
    BY <2>1
  <2>3. new.version = accounts[v][1].version
    BY <2>2 DEF Account
  <2>4. accounts' = [accounts EXCEPT ![v] = [@ EXCEPT ![1] = new]] /\ UNCHANGED <<config, call, lost>>
    BY <1>6 DEF PatchUser, sessions
  <2> HIDE DEF new
  <2>5. accounts'[v] = [accounts[v] EXCEPT ![1] = new]
    BY <2>4 DEF TypeInv, AccountsType
  <2>6. Len(accounts'[v]) = 1 /\ accounts'[v][1] = new
    BY <2>1, <2>5
  <2>7. \A u \in Users : u # v => accounts'[u] = accounts[u]
    BY <2>4 DEF TypeInv, AccountsType
  <2> SUFFICES ASSUME NEW u \in Users, Found(u)', (accounts[u][1].version # 0)'
               PROVE  Held(u)'
    BY DEF NewestIsHeld, Held
  <2>8. accounts'[u][1].version = accounts[u][1].version /\ Found(u)
    BY <2>1, <2>3, <2>6, <2>7 DEF Found
  <2>9. Held(u)
    BY <2>8, HeldMeans
  <2>10. QED
    BY <2>4, <2>8, <2>9 DEF Held
<1>7. ASSUME NEW c \in Clients, ClientStep(c) PROVE NewestIsHeld'
  <2>1. ASSUME NEW u \in Users, NEW w \in Passwords, SignIn(c, u, w) PROVE NewestIsHeld'
    BY <2>1, <1>2 DEF SignIn, sessions
  <2>2. ASSUME NEW permission \in Permissions, Request(c, permission) PROVE NewestIsHeld'
    BY <2>2, <1>2 DEF Request, sessions
  <2>3. Refresh(c) => NewestIsHeld'
    BY <1>2 DEF Refresh, sessions
  <2>4. ReadRole(c) => NewestIsHeld'
    BY <1>2 DEF ReadRole, sessions
  <2>5. ReadPolicies(c) => NewestIsHeld'
    BY <1>2 DEF ReadPolicies, sessions
  <2>6. ShowAnswer(c) => NewestIsHeld'
    BY <1>2 DEF ShowAnswer, sessions
  <2>7. QED
    BY <1>3, <1>4, <1>7, <2>1, <2>2, <2>3, <2>4, <2>5, <2>6 DEF ClientStep
<1>8. CASE UNCHANGED vars
  BY <1>1, <1>8 DEF vars, sessions
<1>9. QED
  BY <1>1, <1>5, <1>6, <1>7, <1>8, AdminSteps, OtherSteps DEF Next

\* The one refresh token that the server accepts for a user is never nowhere.
THEOREM NewestIsHeldTheorem == Spec => []NewestIsHeld
<1>1. Init => NewestIsHeld
  BY DEF Init, NewestIsHeld, Found
<1>2. QED
  BY <1>1, TypeInit, TypeStep, NewestStep, PTL DEF Spec

\* What a request has read of its role and policies was there while it was served.
Granted ==
  /\ DOMAIN could = Clients
  /\ \A c \in Clients : call[c].step = "policies" => call[c].policies \subseteq could[c].listed
  /\ ServedWasGranted

\* What could be found before can still have been found.
LEMMA WatchGrows ==
  ASSUME Watch, NEW c \in Clients, InFlight(call'[c])
  PROVE  /\ could[c].listed \subseteq could'[c].listed /\ could[c].held \subseteq could'[c].held
         /\ Readable(roles', policies', now', call'[c].role, call'[c].permission).listed
              \subseteq could'[c].listed
         /\ Readable(roles', policies', now', call'[c].role, call'[c].permission).held
              \subseteq could'[c].held
<1> DEFINE seen == Readable(roles', policies', now', call'[c].role, call'[c].permission)
<1>1. could'[c] = [listed |-> could[c].listed \cup seen.listed, held |-> could[c].held \cup seen.held]
  BY DEF Watch
<1> HIDE DEF seen
<1>2. could'[c].listed = could[c].listed \cup seen.listed
      /\ could'[c].held = could[c].held \cup seen.held
  BY <1>1
<1>3. QED
  BY <1>2 DEF seen

\* A client whose request stays where it was, or is no request to the API, keeps Granted.
LEMMA GrantedStays ==
  ASSUME Granted, Watch, NEW c \in Clients,
         call'[c] = call[c] \/ call'[c].step \notin {"policies", "served"}
  PROVE  /\ call'[c].step = "policies" => call'[c].policies \subseteq could'[c].listed
         /\ call'[c].step = "served" => could'[c].listed \cap could'[c].held # {}
BY WatchGrows DEF Granted, ServedWasGranted, InFlight

LEMMA WatchedStep ==
  ASSUME TypeInv, Granted, Watch, NEW c \in Clients, NEW x,
         call' = call \/ (call' = [call EXCEPT ![c] = x] /\ x.step \notin {"policies", "served"})
  PROVE  Granted'
<1>1. DOMAIN could' = Clients
  BY DEF Watch
<1>2. \A d \in Clients : call'[d] = call[d] \/ call'[d].step \notin {"policies", "served"}
  BY DEF TypeInv, CallType
<1>3. QED
  BY <1>1, <1>2, GrantedStays DEF Granted, ServedWasGranted

LEMMA GrantedStep == TypeInv /\ Granted /\ [Next]_vars => Granted'
<1> SUFFICES ASSUME TypeInv, Granted, [Next]_vars PROVE Granted'
  OBVIOUS
<1>1. ASSUME Watch, call' = call PROVE Granted'
  <2>1. \A d \in Clients : /\ call'[d].step = "policies" => call'[d].policies \subseteq could'[d].listed
                           /\ call'[d].step = "served" => could'[d].listed \cap could'[d].held # {}
    BY <1>1, GrantedStays
  <2>2. QED
    BY <1>1, <2>1 DEF Granted, ServedWasGranted, Watch
<1>2. ASSUME NEW c \in Clients, ReadRole(c) PROVE Granted'
  <2> DEFINE r == call[c].role
             x == [step |-> "policies", permission |-> call[c].permission, role |-> r,
                   policies |-> roles[r].policies]
  <2>1. Watch /\ UNCHANGED <<now, roles, policies>>
    BY <1>2 DEF ReadRole, directory
  <2>2. CASE call' = [call EXCEPT ![c] = Idle]
    BY <2>1, <2>2, WatchedStep, IdleType
  <2>3. CASE call' = [call EXCEPT ![c] = x] /\ roles[r] # None /\ ~is_role_expired(roles[r])
    <3>1. call'[c] = x /\ \A d \in Clients \ {c} : call'[d] = call[d]
      BY <2>3 DEF TypeInv, CallType
    <3>2. InFlight(call'[c]) /\ call'[c].role = r /\ call'[c].policies = roles[r].policies
      BY <3>1 DEF InFlight
    <3>3. Readable(roles', policies', now', r, call'[c].permission).listed = roles[r].policies
      BY <2>1, <2>3 DEF Readable, is_role_expired
    <3>4. call'[c].policies \subseteq could'[c].listed
      BY <2>1, <3>2, <3>3, WatchGrows
    <3>5. call'[c].step = "policies"
      BY <3>1
    <3>6. \A d \in Clients \ {c} :
            /\ call'[d].step = "policies" => call'[d].policies \subseteq could'[d].listed
            /\ call'[d].step = "served" => could'[d].listed \cap could'[d].held # {}
      BY <2>1, <3>1, GrantedStays
    <3>7. DOMAIN could' = Clients
      BY <2>1 DEF Watch
    <3>8. QED
      BY <3>4, <3>5, <3>6, <3>7 DEF Granted, ServedWasGranted
  <2>4. QED
    BY <1>2, <2>2, <2>3 DEF ReadRole
<1>3. ASSUME NEW c \in Clients, ReadPolicies(c) PROVE Granted'
  <2> DEFINE permission == call[c].permission
             x == [step |-> "served", permission |-> permission, role |-> call[c].role]
             found == {p \in call[c].policies : policies[p] # None}
  <2>1. Watch /\ UNCHANGED <<now, roles, policies>> /\ call[c].step = "policies"
    BY <1>3 DEF ReadPolicies, directory
  <2>2. CASE call' = [call EXCEPT ![c] = Idle]
    BY <2>1, <2>2, WatchedStep, IdleType
  <2>3. CASE /\ call' = [call EXCEPT ![c] = x]
             /\ permission \in UNION {policies[p].permissions : p \in found}
    <3>1. call'[c] = x /\ \A d \in Clients \ {c} : call'[d] = call[d]
      BY <2>3 DEF TypeInv, CallType
    <3>2. InFlight(call'[c]) /\ call'[c].permission = permission /\ call'[c].step = "served"
      BY <3>1 DEF InFlight
    <3>3. PICK p \in found : permission \in policies[p].permissions
      BY <2>3
    <3>4. p \in Policies /\ p \in could[c].listed /\ policies[p] # None
      BY <2>1, <3>3, CallFields DEF Granted, TypeInv
    <3>5. p \in Readable(roles', policies', now', call'[c].role, call'[c].permission).held
      BY <2>1, <3>2, <3>3, <3>4 DEF Readable
    <3>6. p \in could'[c].listed /\ p \in could'[c].held
      BY <2>1, <3>2, <3>4, <3>5, WatchGrows
    <3>7. \A d \in Clients \ {c} :
            /\ call'[d].step = "policies" => call'[d].policies \subseteq could'[d].listed
            /\ call'[d].step = "served" => could'[d].listed \cap could'[d].held # {}
      BY <2>1, <3>1, GrantedStays
    <3>8. DOMAIN could' = Clients
      BY <2>1 DEF Watch
    <3>9. QED
      BY <3>2, <3>6, <3>7, <3>8 DEF Granted, ServedWasGranted
  <2>4. QED
    BY <1>3, <2>2, <2>3 DEF ReadPolicies
<1>4. ASSUME NEW c \in Clients, ClientStep(c) PROVE Granted'
  <2>1. ASSUME NEW u \in Users, NEW w \in Passwords, SignIn(c, u, w) PROVE Granted'
    <3> DEFINE x == [step |-> "login", user |-> u, old |-> 0]
    <3>1. Watch /\ call' = [call EXCEPT ![c] = x] /\ x.step = "login"
      BY <2>1 DEF SignIn
    <3> HIDE DEF x
    <3>2. QED
      BY <3>1, WatchedStep
  <2>2. ASSUME NEW permission \in Permissions, Request(c, permission) PROVE Granted'
    <3> DEFINE x == [step |-> "role", permission |-> permission,
                     role |-> accounts[config[c].access.user][1].role]
    <3>1. Watch /\ call' = [call EXCEPT ![c] = x] /\ x.step = "role"
      BY <2>2 DEF Request
    <3> HIDE DEF x
    <3>2. QED
      BY <3>1, WatchedStep
  <2>3. Refresh(c) => Granted'
    BY WatchedStep DEF Refresh
  <2>4. IssueTokens(c) => Granted'
    BY WatchedStep, IdleType DEF IssueTokens
  <2>5. SaveToken(c) \/ LoseAnswer(c) => Granted'
    BY WatchedStep, IdleType DEF SaveToken, LoseAnswer
  <2>6. ShowAnswer(c) => Granted'
    BY WatchedStep, IdleType DEF ShowAnswer
  <2>7. QED
    BY <1>2, <1>3, <1>4, <2>1, <2>2, <2>3, <2>4, <2>5, <2>6 DEF ClientStep
<1>5. ASSUME NEW a \in Admins, AdminStep(a) PROVE Granted'
  <2>1. call' = call
    BY <1>5, AdminSteps
  <2>2. Watch
    BY <1>5 DEF AdminStep, SignUp, SaveUser, PostRole, PatchRole, SaveRole, SavePatchedRole,
         PostPolicy, PatchPolicy, SavePolicy, SavePatchedPolicy
  <2>3. QED
    BY <1>1, <2>1, <2>2
<1>6. ASSUME \/ Tick
             \/ \E by, u \in Users, w \in Passwords : PatchUser(by, u, w)
             \/ \E r \in Roles : DeleteRole(r)
             \/ \E p \in Policies : DeletePolicy(p)
      PROVE  Granted'
  <2>1. call' = call
    BY <1>6, OtherSteps
  <2>2. Watch
    BY <1>6 DEF Tick, PatchUser, DeleteRole, DeletePolicy
  <2>3. QED
    BY <1>1, <2>1, <2>2
<1>7. CASE UNCHANGED vars
  BY <1>7 DEF vars, Granted, ServedWasGranted
<1>8. QED
  BY <1>4, <1>5, <1>6, <1>7 DEF Next

\* Whoever edits users, roles and policies between the reads of a request: it is served
\* only by a role and a policy that were good at some moment while it was served.
THEOREM ServedWasGrantedTheorem == Spec => []ServedWasGranted
<1>1. Init => Granted
  BY DEF Init, Granted, ServedWasGranted, Idle
<1>2. Granted => ServedWasGranted
  BY DEF Granted
<1>3. QED
  BY <1>1, <1>2, TypeInit, TypeStep, GrantedStep, PTL DEF Spec
=============================================================================
