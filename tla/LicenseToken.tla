---------------------------- MODULE LicenseToken ----------------------------
(***************************************************************************)
(* How the API's workers and the executors authenticate at the License     *)
(* Manager (LM): the client key an administrator configures, the private   *)
(* key in SSM or Vault, the token signed with it, and the caches: the      *)
(* token's secret, shared by all processes, and in every process the       *)
(* settings and the secret as it first read them.                          *)
(*                                                                         *)
(* The unit of time is the half hour a token is kept for; a request is     *)
(* short against it.  One customer: every customer has its own secret.     *)
(***************************************************************************)
EXTENDS Integers, FiniteSets

CONSTANTS
  Workers, Executors,
  Kids,          \* key ids that LM delegates
  Keys,          \* private keys
  Improper,      \* a text that is no key
  TokenLifetime, \* lm_token_lifetime_minutes
  MaxTime,       \* bound: the clock
  Budgets,       \* bound: [settings, call, rotate, deaths]
  None

\* The secret is kept for one unit; a token that lives shorter would be sent expired.
ASSUME LifetimeAssumption == TokenLifetime \in Nat /\ TokenLifetime >= 1
ASSUME ProcessAssumption == Workers \cap Executors = {} /\ Improper \notin Keys

VARIABLES
  now,
  settings,    \* the documents of the collection, several may have one name
  ids,         \* how many documents were created
  vault,       \* kid -> the private key stored for it
  secret,      \* the token in SSM and when to stop using it
  registered,  \* LM: kid -> the key it verifies with
  cache,       \* process -> what it keeps for its life
  request,     \* process -> the request it works on
  outcome,     \* process -> how its last call to LM ended
  unsound,     \* history: kids whose key a request was about to delete or could not store
  left

vars == <<now, settings, ids, vault, secret, registered, cache, request, outcome, unsound, left>>

Processes == Workers \cup Executors
CacheLifetime == 1
AccessData == "ACCESS_DATA_LM"
ClientKey == "LM_CLIENT_KEY"

\* An algorithm taken apart; None is a text that cannot be.
Alg(key_std, hash_std) ==
  [key_type |-> "ECC", key_std |-> key_std, sig_scheme |-> "DSS", hash_type |-> "SHA", hash_std |-> hash_std]
Algs == {Alg("p521", "256"), Alg("p521", "384"), None}

_signature_scheme_reference ==
  {Alg(curve, mode) : curve \in {"p521", "p384", "p256", "p224"}, mode \in {"256", "512"}}

is_signature_scheme_accessible(alg) == alg \in _signature_scheme_reference

construct(alg, value) == IF alg.key_type = "ECC" /\ value \in Keys THEN value ELSE None

import_key(alg, value) ==
  IF alg # None /\ is_signature_scheme_accessible(alg) THEN construct(alg, value) ELSE None

get_key_data(kid) == vault[kid]

\* The executor's client asks the SSM client for get_secret_value, which only
\* SSMService has: an AttributeError.
executor_get_key_data(kid) == None

\* Everything that makes `sign' or its caller give up ends in no signature.
sign(alg, kid) ==
  IF alg # None /\ is_signature_scheme_accessible(alg) /\ get_key_data(kid) # None
  THEN construct(alg, get_key_data(kid)) ELSE None

executor_sign(alg, kid) ==
  IF alg # None /\ is_signature_scheme_accessible(alg) /\ executor_get_key_data(kid) # None
  THEN construct(alg, executor_get_key_data(kid)) ELSE None

Idle == [step |-> "none"]
Fresh == [access |-> None, key |-> None, secret |-> None]

Init ==
  /\ now = 0 /\ settings = {} /\ ids = 0 /\ secret = None /\ unsound = {}
  /\ vault = [kid \in Kids |-> None]
  /\ registered \in [Kids -> Keys \cup {None}]
  /\ cache = [p \in Processes |-> Fresh]
  /\ request = [p \in Processes |-> Idle]
  /\ outcome = [p \in Processes |-> None]
  /\ left \in Budgets

Spend(sort) == left[sort] > 0 /\ left' = [left EXCEPT ![sort] = @ - 1]

Documents(name) == {doc \in settings : doc.name = name}
TheOne(docs) == CHOOSE doc \in docs : TRUE

Goto(p, r) == request' = [request EXCEPT ![p] = r]
Answer(p) == Goto(p, Idle)
Free(w) == w \in Workers /\ request[w] = Idle

-----------------------------------------------------------------------------
(* Settings                                                                *)

Configuration == <<now, secret, registered, cache, outcome>>

\* Two documents of the name: MultipleObjectsReturned, which is not caught.
PostConfig(w) ==
  /\ Free(w) /\ Spend("settings")
  /\ IF Documents(AccessData) = {} THEN Goto(w, [step |-> "save_config"]) ELSE Answer(w)
  /\ UNCHANGED <<Configuration, settings, ids, vault, unsound>>

SaveConfig(w) ==
  /\ request[w].step = "save_config"
  /\ ids' = ids + 1
  /\ settings' = settings \cup {[id |-> ids + 1, name |-> AccessData]}
  /\ Answer(w) /\ UNCHANGED <<Configuration, vault, unsound, left>>

DeleteConfig(w) ==
  /\ Free(w) /\ Spend("settings")
  /\ LET docs == Documents(AccessData) IN
     IF Cardinality(docs) = 1 THEN Goto(w, [step |-> "delete_setting", id |-> TheOne(docs).id])
     ELSE Answer(w)
  /\ UNCHANGED <<Configuration, settings, ids, vault, unsound>>

DeleteSetting(w) ==
  /\ request[w].step = "delete_setting"
  /\ settings' = {doc \in settings : doc.id # request[w].id}
  /\ Answer(w) /\ UNCHANGED <<Configuration, ids, vault, unsound, left>>

\* Mutant: the setting first.
post_steps_Swapped == <<"save_key_setting", "store_key">>

\* The order in which POST writes.
post_steps == <<"store_key", "save_key_setting">>
NextStep(r) == IF r.step = post_steps[1] THEN [r EXCEPT !.step = post_steps[2]] ELSE Idle

PostKey(w) ==
  /\ Free(w) /\ Spend("settings")
  /\ \E kid \in Kids, alg \in Algs, value \in Keys \cup {Improper}, format \in {"PEM", None} :
       IF Documents(ClientKey) = {} /\ import_key(alg, value) # None
       THEN Goto(w, [step |-> post_steps[1], kid |-> kid, alg |-> alg, format |-> format,
                     key |-> import_key(alg, value)])
       ELSE Answer(w)
  /\ UNCHANGED <<Configuration, settings, ids, vault, unsound>>

\* Without a format the key is not exported; SSM may refuse it; nobody looks.  Vault
\* raises instead, which ends the request.
StoreKey(w) ==
  /\ request[w].step = "store_key"
  /\ LET r == request[w] IN
     \/ /\ \/ /\ r.format # None
              /\ vault' = [vault EXCEPT ![r.kid] = r.key] /\ UNCHANGED unsound
           \/ unsound' = unsound \cup {r.kid} /\ UNCHANGED vault
        /\ Goto(w, NextStep(r))
     \/ Answer(w) /\ UNCHANGED <<vault, unsound>>
  /\ UNCHANGED <<Configuration, settings, ids, left>>

SaveKeySetting(w) ==
  /\ request[w].step = "save_key_setting"
  /\ ids' = ids + 1
  /\ settings' = settings \cup
       {[id |-> ids + 1, name |-> ClientKey, kid |-> request[w].kid, alg |-> request[w].alg]}
  /\ Goto(w, NextStep(request[w])) /\ UNCHANGED <<Configuration, vault, unsound, left>>

DeleteKey(w) ==
  /\ Free(w) /\ Spend("settings")
  /\ \E kid \in Kids :
       LET docs == Documents(ClientKey) IN
       IF Cardinality(docs) = 1 /\ TheOne(docs).kid = kid
       THEN Goto(w, [step |-> "drop_key", kid |-> kid, id |-> TheOne(docs).id])
       ELSE Answer(w)
  /\ UNCHANGED <<Configuration, settings, ids, vault, unsound>>

DropKey(w) ==
  /\ request[w].step = "drop_key"
  /\ vault' = [vault EXCEPT ![request[w].kid] = None]
  /\ unsound' = unsound \cup {request[w].kid}
  /\ Goto(w, [step |-> "delete_setting", id |-> request[w].id])
  /\ UNCHANGED <<Configuration, settings, ids, left>>

-----------------------------------------------------------------------------
(* A call to LM                                                            *)

World == <<now, settings, ids, vault, registered, unsound>>

Keep(p, field, value) == cache' = [cache EXCEPT ![p][field] = value]
End(p, how) == outcome' = [outcome EXCEPT ![p] = how] /\ Answer(p)

\* SSMService keeps the first secret it finds for the life of the process.
get_secret_value(p) == IF cache[p].secret # None THEN cache[p].secret ELSE secret

\* Mutant: a token on the point of expiring is used.
is_expired_Late(expiration) == now > expiration

is_expired(expiration) == now >= expiration

_get_client_token(p) ==
  /\ request[p] = Idle /\ Spend("call")
  /\ LET kept == get_secret_value(p) IN
     /\ Keep(p, "secret", kept)
     /\ IF kept # None /\ ~is_expired(IF kept = None THEN 0 ELSE kept.expiration)
        THEN Goto(p, [step |-> "send", token |-> kept.token])
        ELSE Goto(p, [step |-> "client_key"])
  /\ UNCHANGED <<World, secret, outcome>>

\* What was found is never read again.
client_key_data(p) ==
  IF cache[p].key # None THEN cache[p].key
  ELSE LET doc == TheOne(Documents(ClientKey)) IN [kid |-> doc.kid, alg |-> doc.alg]

ReadClientKey(p) ==
  /\ request[p].step = "client_key"
  /\ IF cache[p].key = None /\ Cardinality(Documents(ClientKey)) # 1
     THEN End(p, [step |-> "no_key"]) /\ UNCHANGED cache
     ELSE Keep(p, "key", client_key_data(p)) /\ Goto(p, [step |-> "sign"]) /\ UNCHANGED outcome
  /\ UNCHANGED <<World, secret, left>>

_generate_client_token(p) ==
  /\ request[p].step = "sign"
  /\ LET kid == cache[p].key.kid
         alg == cache[p].key.alg
         key == IF p \in Executors THEN executor_sign(alg, kid) ELSE sign(alg, kid)
     IN IF key = None THEN End(p, [step |-> "not_signed", stored |-> vault[kid]])
        ELSE /\ Goto(p, [step |-> "put", token |-> [kid |-> kid, key |-> key, signed |-> now]])
             /\ UNCHANGED outcome
  /\ UNCHANGED <<World, secret, cache, left>>

PutSecret(p) ==
  /\ request[p].step = "put"
  /\ \/ /\ \/ secret' = [expiration |-> now + CacheLifetime, token |-> request[p].token]
           \/ UNCHANGED secret   \* SSM refused it
        /\ Goto(p, [step |-> "send", token |-> request[p].token]) /\ UNCHANGED outcome
     \/ End(p, [step |-> "not_kept"]) /\ UNCHANGED secret   \* Vault raised
  /\ UNCHANGED <<World, cache, left>>

Accepts(token) == registered[token.kid] = token.key /\ now < token.signed + TokenLifetime

\* What was found is never read again, nor is that nothing was.
access_data(p) ==
  IF cache[p].access # None THEN cache[p].access
  ELSE IF Documents(AccessData) = {} THEN "missing" ELSE "found"

_send_request(token) ==
  {[step |-> "no_answer"],
   [step |-> "sent", token |-> token, at |-> now, verifier |-> registered[token.kid],
    accepted |-> Accepts(token)]}

Send(p) ==
  /\ request[p].step = "send"
  /\ IF cache[p].access = None /\ Cardinality(Documents(AccessData)) > 1
     THEN End(p, [step |-> "no_address"]) /\ UNCHANGED cache
     ELSE /\ Keep(p, "access", access_data(p))
          /\ IF access_data(p) = "missing" THEN End(p, [step |-> "no_address"])
             ELSE \E answer \in _send_request(request[p].token) : End(p, answer)
  /\ UNCHANGED <<World, secret, left>>

-----------------------------------------------------------------------------
(* The rest of the world                                                   *)

\* Signing, storing and sending a token take no time.
Tick ==
  /\ now < MaxTime /\ now' = now + 1
  /\ \A p \in Processes : request[p].step \notin {"put", "send"}
  /\ UNCHANGED <<settings, ids, vault, secret, registered, cache, request, outcome, unsound, left>>

Rotate ==
  /\ Spend("rotate")
  /\ \E kid \in Kids, key \in Keys \cup {None} :
       key # registered[kid] /\ registered' = [registered EXCEPT ![kid] = key]
  /\ UNCHANGED <<now, settings, ids, vault, secret, cache, request, outcome, unsound>>

\* A worker is replaced or an executor ends, wherever it is, and another starts.
Restart(p) ==
  /\ Spend("deaths")
  /\ cache' = [cache EXCEPT ![p] = Fresh]
  /\ End(p, None)
  /\ UNCHANGED <<World, secret>>

Next ==
  \/ Tick \/ Rotate
  \/ \E p \in Processes : \/ Restart(p) \/ _get_client_token(p) \/ ReadClientKey(p)
                          \/ _generate_client_token(p) \/ PutSecret(p) \/ Send(p)
  \/ \E w \in Workers : \/ PostConfig(w) \/ SaveConfig(w) \/ DeleteConfig(w) \/ DeleteSetting(w)
                        \/ PostKey(w) \/ StoreKey(w) \/ SaveKeySetting(w) \/ DeleteKey(w) \/ DropKey(w)

Spec == Init /\ [][Next]_vars

-----------------------------------------------------------------------------

\* A token is sent only within the half hour after it was signed, by whichever
\* process and through whichever caches: a key that is deleted stops being used
\* by then, and LM refuses a token for its key, never for its age.
TokenIsUsedBriefly ==
  \A p \in Processes : outcome[p] # None /\ outcome[p].step = "sent" =>
    /\ outcome[p].at < outcome[p].token.signed + CacheLifetime
    /\ outcome[p].accepted <=> outcome[p].verifier = outcome[p].token.key

\* A client key that is configured has its private key in the store, wherever a
\* POST was interrupted, unless the POST could not store it or a DELETE had begun.
KeySettingHasKey ==
  \A doc \in Documents(ClientKey) : vault[doc.kid] # None \/ doc.kid \in unsound
=============================================================================
