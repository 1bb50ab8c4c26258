------------------------- MODULE LicenseTokenProofs -------------------------
(***************************************************************************)
(* Proofs about LicenseToken, for any number of workers, executors, keys   *)
(* and key ids, any lifetime of a token from one unit up and any bounds.   *)
(*                                                                         *)
(* TokenInv follows a token from its signature to LM: whatever secret or   *)
(* cache it goes through, the expiration that travels with it is one unit  *)
(* after its signature.  KeyInv follows a private key from the request     *)
(* that brings it to the setting that names it.                            *)
(***************************************************************************)
EXTENDS LicenseToken, FiniteSetTheorems, TLAPS

Token  == [kid : Kids, key : Keys, signed : Int]
Secret == {s \in [expiration : Int, token : Token] : s.expiration = s.token.signed + CacheLifetime}
Config == [id : Nat, name : {AccessData}]
KeySetting == [id : Nat, name : {ClientKey}, kid : Kids, alg : Algs]

KeyRequest(step) ==
  [step : {step}, kid : Kids, alg : Algs, format : {"PEM", None}, key : Keys \ {None}]

TypeInv ==
  /\ now \in Nat /\ ids \in Nat
  /\ settings \subseteq Config \cup KeySetting
  /\ vault \in [Kids -> Keys \cup {None}]
  /\ secret \in Secret \cup {None}
  /\ cache \in [Processes -> [access : {None, "found", "missing"},
                              key : [kid : Kids, alg : Algs] \cup {None},
                              secret : Secret \cup {None}]]
  /\ DOMAIN request = Processes
  /\ DOMAIN outcome = Processes
  /\ \A p \in Processes :
       /\ request[p].step = "sign" => cache[p].key \in [kid : Kids, alg : Algs]
       /\ request[p].step \in {"put", "send"} => request[p].token \in Token
       /\ request[p].step = "store_key" => request[p] \in KeyRequest("store_key")
       /\ request[p].step = "save_key_setting" => request[p] \in KeyRequest("save_key_setting")
       /\ request[p].step = "drop_key" => request[p].kid \in Kids

\* A token on its way was signed now: signing, storing and sending take no time.
TokenInv ==
  \A p \in Processes :
    /\ request[p].step = "put"  => request[p].token.signed = now
    /\ request[p].step = "send" => now < request[p].token.signed + CacheLifetime

KeyInv ==
  \A p \in Processes : request[p].step = "save_key_setting" =>
    vault[request[p].kid] # None \/ request[p].kid \in unsound

-----------------------------------------------------------------------------
(* Types                                                                   *)

LEMMA TypeInit == Init => TypeInv
BY DEF Init, TypeInv, Idle, Fresh

\* The second step of a POST has what the first one had.
LEMMA StepGoesOn ==
  ASSUME NEW r, r \in KeyRequest("store_key")
  PROVE  /\ NextStep(r) \in KeyRequest("save_key_setting")
         /\ NextStep(r).kid = r.kid /\ NextStep(r).step = "save_key_setting"
BY DEF KeyRequest, NextStep, post_steps

\* What a step does to the settings and the keys, as far as the types go.
LEMMA AdminTypes ==
  ASSUME TypeInv, NEW w \in Workers,
         \/ PostConfig(w) \/ SaveConfig(w) \/ DeleteConfig(w) \/ DeleteSetting(w)
         \/ PostKey(w) \/ StoreKey(w) \/ SaveKeySetting(w) \/ DeleteKey(w) \/ DropKey(w)
  PROVE  TypeInv'
<1> USE DEF TypeInv, Processes, Goto, Answer, Idle
<1>1. CASE PostConfig(w)
  BY <1>1 DEF PostConfig, Configuration
<1>2. CASE SaveConfig(w)
  BY <1>2 DEF SaveConfig, Configuration, Config
<1>3. CASE DeleteConfig(w)
  BY <1>3 DEF DeleteConfig, Configuration
<1>4. CASE DeleteSetting(w)
  BY <1>4 DEF DeleteSetting, Configuration
<1>5. CASE PostKey(w)
  <2>1. PICK kid \in Kids, alg \in Algs, value \in Keys \cup {Improper}, format \in {"PEM", None} :
          IF Documents(ClientKey) = {} /\ import_key(alg, value) # None
          THEN Goto(w, [step |-> post_steps[1], kid |-> kid, alg |-> alg, format |-> format,
                        key |-> import_key(alg, value)])
          ELSE Answer(w)
    BY <1>5 DEF PostKey
  <2>2. import_key(alg, value) # None => import_key(alg, value) \in Keys \ {None}
    BY DEF import_key, construct
  <2>3. QED
    BY <1>5, <2>1, <2>2 DEF PostKey, Configuration, post_steps, KeyRequest
<1>6. CASE StoreKey(w)
  <2>1. request[w] \in KeyRequest("store_key")
    BY <1>6 DEF StoreKey
  <2>2. request' = [request EXCEPT ![w] = NextStep(request[w])] \/ request' = [request EXCEPT ![w] = Idle]
    BY <1>6 DEF StoreKey
  <2>3. vault' \in [Kids -> Keys \cup {None}]
    BY <1>6, <2>1 DEF StoreKey, KeyRequest
  <2>4. UNCHANGED <<now, settings, ids, secret, registered, cache, outcome>>
    BY <1>6 DEF StoreKey, Configuration
  <2>5. QED
    BY <2>1, <2>2, <2>3, <2>4, StepGoesOn
<1>7. CASE SaveKeySetting(w)
  BY <1>7 DEF SaveKeySetting, Configuration, NextStep, post_steps, KeySetting, KeyRequest
<1>8. CASE DeleteKey(w)
  BY <1>8 DEF DeleteKey, Configuration
<1>9. CASE DropKey(w)
  BY <1>9 DEF DropKey, Configuration
<1>10. QED
  BY <1>1, <1>2, <1>3, <1>4, <1>5, <1>6, <1>7, <1>8, <1>9

LEMMA OneIsThere ==
  ASSUME NEW S, Cardinality(S) = 1
  PROVE  S # {}
<1> SUFFICES ASSUME S = {} PROVE FALSE
  OBVIOUS
<1>1. Cardinality({}) = 0
  BY FS_EmptySet
<1>2. Cardinality({}) = 1
  OBVIOUS
<1>3. QED
  BY <1>1, <1>2

LEMMA CallTypes ==
  ASSUME TypeInv, TokenInv, NEW p \in Processes,
         \/ _get_client_token(p) \/ ReadClientKey(p) \/ _generate_client_token(p)
         \/ PutSecret(p) \/ Send(p) \/ Restart(p)
  PROVE  TypeInv'
<1> USE DEF TypeInv, Goto, Answer, Idle, World, Keep, End
<1>1. CASE _get_client_token(p)
  BY <1>1 DEF _get_client_token, get_secret_value, Secret
<1>2. CASE ReadClientKey(p)
  <2>1. CASE cache[p].key = None /\ Cardinality(Documents(ClientKey)) # 1
    BY <1>2, <2>1 DEF ReadClientKey
  <2>2. CASE ~(cache[p].key = None /\ Cardinality(Documents(ClientKey)) # 1)
    <3>1. client_key_data(p) \in [kid : Kids, alg : Algs]
      <4>1. CASE cache[p].key # None
        BY <4>1 DEF client_key_data
      <4>2. CASE cache[p].key = None
        <5>1. Documents(ClientKey) # {}
          BY <2>2, <4>2, OneIsThere
        <5>2. TheOne(Documents(ClientKey)) \in KeySetting
          BY <5>1 DEF TheOne, Documents, Config, KeySetting, ClientKey, AccessData
        <5>3. QED
          BY <4>2, <5>2 DEF client_key_data, KeySetting
      <4>3. QED
        BY <4>1, <4>2
    <3>2. cache' = [cache EXCEPT ![p]["key"] = client_key_data(p)]
          /\ request' = [request EXCEPT ![p] = [step |-> "sign"]] /\ UNCHANGED outcome
      BY <1>2, <2>2 DEF ReadClientKey
    <3> HIDE DEF Keep, Goto
    <3>3. QED
      BY <1>2, <3>1, <3>2 DEF ReadClientKey
  <2>3. QED
    BY <2>1, <2>2
<1>3. CASE _generate_client_token(p)
  <2> DEFINE key == IF p \in Executors THEN executor_sign(cache[p].key.alg, cache[p].key.kid)
                    ELSE sign(cache[p].key.alg, cache[p].key.kid)
  <2>1. key # None => key \in Keys
    BY DEF sign, executor_sign, construct
  <2>2. QED
    BY <1>3, <2>1 DEF _generate_client_token, Token
<1>4. CASE PutSecret(p)
  <2>1. request[p].token \in Token /\ request[p].token.signed = now
    BY <1>4 DEF PutSecret, TokenInv
  <2>2. [expiration |-> now + CacheLifetime, token |-> request[p].token] \in Secret
    BY <2>1 DEF Secret, CacheLifetime
  <2>3. QED
    BY <1>4, <2>1, <2>2 DEF PutSecret
<1>5. CASE Send(p)
  BY <1>5 DEF Send, access_data
<1>6. CASE Restart(p)
  BY <1>6 DEF Restart, Fresh
<1>7. QED
  BY <1>1, <1>2, <1>3, <1>4, <1>5, <1>6

LEMMA TypeStep == TypeInv /\ TokenInv /\ [Next]_vars => TypeInv'
<1> SUFFICES ASSUME TypeInv, TokenInv, [Next]_vars PROVE TypeInv'
  OBVIOUS
<1>1. CASE Tick
  BY <1>1 DEF Tick, TypeInv
<1>2. CASE Rotate
  BY <1>2 DEF Rotate, TypeInv
<1>3. CASE UNCHANGED vars
  BY <1>3 DEF vars, TypeInv
<1>4. QED
  BY <1>1, <1>2, <1>3, AdminTypes, CallTypes DEF Next

-----------------------------------------------------------------------------
(* Tokens                                                                  *)

LEMMA TokenInit == Init => TokenInv /\ TokenIsUsedBriefly
BY DEF Init, TokenInv, TokenIsUsedBriefly, Idle

\* What the steps of a process mean for the tokens of all of them.
LEMMA OwnRequest ==
  ASSUME TypeInv, TokenInv, NEW p \in Processes, UNCHANGED now,
         \A q \in Processes \ {p} : request'[q] = request[q],
         request'[p].step = "put"  => request'[p].token.signed = now,
         request'[p].step = "send" => now < request'[p].token.signed + CacheLifetime
  PROVE  TokenInv'
BY DEF TokenInv

LEMMA TokenStep == TypeInv /\ TokenInv /\ [Next]_vars => TokenInv'
<1> SUFFICES ASSUME TypeInv, TokenInv, [Next]_vars PROVE TokenInv'
  OBVIOUS
<1> USE DEF Goto, Answer, Idle, World, Configuration, End
<1>1. CASE Tick
  BY <1>1 DEF Tick, TokenInv
<1>2. CASE Rotate
  BY <1>2 DEF Rotate, TokenInv
<1>3. CASE UNCHANGED vars
  BY <1>3 DEF vars, TokenInv
<1>4. ASSUME NEW w \in Workers,
             \/ PostConfig(w) \/ SaveConfig(w) \/ DeleteConfig(w) \/ DeleteSetting(w)
             \/ PostKey(w) \/ StoreKey(w) \/ SaveKeySetting(w) \/ DeleteKey(w) \/ DropKey(w)
      PROVE  TokenInv'
  <2>1. w \in Processes /\ DOMAIN request = Processes
    BY DEF Processes, TypeInv
  <2>2. UNCHANGED now
    BY <1>4 DEF PostConfig, SaveConfig, DeleteConfig, DeleteSetting, PostKey, StoreKey,
                SaveKeySetting, DeleteKey, DropKey
  <2>3. \A q \in Processes \ {w} : request'[q] = request[q]
    BY <1>4, <2>1 DEF PostConfig, SaveConfig, DeleteConfig, DeleteSetting, PostKey, StoreKey,
                      SaveKeySetting, DeleteKey, DropKey
  <2>4. request'[w].step \notin {"put", "send"}
    <3>1. CASE PostConfig(w) \/ SaveConfig(w) \/ DeleteConfig(w) \/ DeleteSetting(w)
      BY <3>1, <2>1 DEF PostConfig, SaveConfig, DeleteConfig, DeleteSetting
    <3>2. CASE PostKey(w) \/ DeleteKey(w) \/ DropKey(w)
      BY <3>2, <2>1 DEF PostKey, DeleteKey, DropKey, post_steps
    <3>3. CASE StoreKey(w)
      <4>1. request'[w] = NextStep(request[w]) \/ request'[w] = Idle
        BY <3>3, <2>1 DEF StoreKey
      <4>2. QED
        BY <4>1, <3>3, <2>1, StepGoesOn DEF StoreKey, TypeInv
    <3>4. CASE SaveKeySetting(w)
      BY <3>4, <2>1 DEF SaveKeySetting, NextStep, post_steps
    <3>5. QED
      BY <1>4, <3>1, <3>2, <3>3, <3>4
  <2>5. QED
    BY <2>1, <2>2, <2>3, <2>4, OwnRequest
<1>5. ASSUME NEW p \in Processes, _get_client_token(p) PROVE TokenInv'
  <2> DEFINE kept == get_secret_value(p)
  <2>1. UNCHANGED now /\ DOMAIN request = Processes
    BY <1>5 DEF _get_client_token, TypeInv
  <2>2. kept \in Secret \cup {None}
    BY DEF get_secret_value, TypeInv
  <2>3. ASSUME kept # None, ~is_expired(kept.expiration)
        PROVE  now < kept.token.signed + CacheLifetime
    BY <2>2, <2>3 DEF is_expired, Secret, TypeInv
  <2>4. /\ \A q \in Processes \ {p} : request'[q] = request[q]
        /\ \/ kept # None /\ ~is_expired(kept.expiration)
              /\ request'[p] = [step |-> "send", token |-> kept.token]
           \/ request'[p] = [step |-> "client_key"]
    BY <1>5, <2>1 DEF _get_client_token
  <2>5. QED
    BY <2>1, <2>3, <2>4, OwnRequest
<1>6. ASSUME NEW p \in Processes, ReadClientKey(p) \/ Send(p) \/ Restart(p) PROVE TokenInv'
  <2>1. UNCHANGED now /\ DOMAIN request = Processes
    BY <1>6 DEF ReadClientKey, Send, Restart, TypeInv
  <2>2. /\ \A q \in Processes \ {p} : request'[q] = request[q]
        /\ request'[p].step \notin {"put", "send"}
    BY <1>6, <2>1 DEF ReadClientKey, Send, Restart
  <2>3. QED
    BY <2>1, <2>2, OwnRequest
<1>7. ASSUME NEW p \in Processes, _generate_client_token(p) PROVE TokenInv'
  <2>1. UNCHANGED now /\ DOMAIN request = Processes
    BY <1>7 DEF _generate_client_token, TypeInv
  <2>2. /\ \A q \in Processes \ {p} : request'[q] = request[q]
        /\ request'[p].step # "send"
        /\ request'[p].step = "put" => request'[p].token.signed = now
    BY <1>7, <2>1 DEF _generate_client_token
  <2>3. QED
    BY <2>1, <2>2, OwnRequest
<1>8. ASSUME NEW p \in Processes, PutSecret(p) PROVE TokenInv'
  <2>1. UNCHANGED now /\ DOMAIN request = Processes
    BY <1>8 DEF PutSecret, TypeInv
  <2>2. /\ \A q \in Processes \ {p} : request'[q] = request[q]
        /\ \/ request'[p] = [step |-> "send", token |-> request[p].token]
           \/ request'[p] = Idle
    BY <1>8, <2>1 DEF PutSecret
  <2>3. now < request[p].token.signed + CacheLifetime
    BY <1>8 DEF PutSecret, TokenInv, TypeInv, CacheLifetime
  <2>4. QED
    BY <2>1, <2>2, <2>3, OwnRequest
<1>9. QED
  BY <1>1, <1>2, <1>3, <1>4, <1>5, <1>6, <1>7, <1>8 DEF Next

\* What the call of one process ends in.
LEMMA OwnOutcome ==
  ASSUME TokenIsUsedBriefly, NEW p \in Processes,
         \A q \in Processes \ {p} : outcome'[q] = outcome[q],
         outcome'[p] # None /\ outcome'[p].step = "sent" =>
           /\ outcome'[p].at < outcome'[p].token.signed + CacheLifetime
           /\ outcome'[p].accepted <=> outcome'[p].verifier = outcome'[p].token.key
  PROVE  TokenIsUsedBriefly'
BY DEF TokenIsUsedBriefly

LEMMA SentStep == TypeInv /\ TokenInv /\ TokenIsUsedBriefly /\ [Next]_vars => TokenIsUsedBriefly'
<1> SUFFICES ASSUME TypeInv, TokenInv, TokenIsUsedBriefly, [Next]_vars PROVE TokenIsUsedBriefly'
  OBVIOUS
<1>1. ASSUME UNCHANGED outcome PROVE TokenIsUsedBriefly'
  BY <1>1 DEF TokenIsUsedBriefly
<1>2. CASE Tick \/ Rotate \/ UNCHANGED vars
  BY <1>1, <1>2 DEF Tick, Rotate, vars
<1>3. ASSUME NEW w \in Workers,
             \/ PostConfig(w) \/ SaveConfig(w) \/ DeleteConfig(w) \/ DeleteSetting(w)
             \/ PostKey(w) \/ StoreKey(w) \/ SaveKeySetting(w) \/ DeleteKey(w) \/ DropKey(w)
      PROVE  TokenIsUsedBriefly'
  BY <1>1, <1>3 DEF PostConfig, SaveConfig, DeleteConfig, DeleteSetting, PostKey, StoreKey,
                    SaveKeySetting, DeleteKey, DropKey, Configuration
<1>4. ASSUME NEW p \in Processes, _get_client_token(p) PROVE TokenIsUsedBriefly'
  BY <1>1, <1>4 DEF _get_client_token
<1>5. ASSUME NEW p \in Processes,
             ReadClientKey(p) \/ _generate_client_token(p) \/ PutSecret(p) \/ Restart(p)
      PROVE  TokenIsUsedBriefly'
  <2>1. DOMAIN outcome = Processes
    BY DEF TypeInv
  <2>2. UNCHANGED outcome \/ \E how : /\ outcome' = [outcome EXCEPT ![p] = how]
                                      /\ how = None \/ how.step # "sent"
    BY <1>5 DEF ReadClientKey, _generate_client_token, PutSecret, Restart, End
  <2>3. QED
    BY <1>1, <2>1, <2>2, OwnOutcome
<1>6. ASSUME NEW p \in Processes, Send(p) PROVE TokenIsUsedBriefly'
  <2> DEFINE token == request[p].token
             sent == [step |-> "sent", token |-> token, at |-> now,
                      verifier |-> registered[token.kid], accepted |-> Accepts(token)]
  <2>1. DOMAIN outcome = Processes
    BY DEF TypeInv
  <2>2. token \in Token /\ now < token.signed + CacheLifetime
    BY <1>6 DEF Send, TypeInv, TokenInv
  <2>3. now < token.signed + TokenLifetime
    BY <2>2, LifetimeAssumption DEF TypeInv, Token, CacheLifetime
  <2>4. \E how : /\ outcome' = [outcome EXCEPT ![p] = how]
                 /\ how.step # "sent" \/ how = sent
    BY <1>6 DEF Send, End, _send_request
  <2>5. sent.accepted <=> sent.verifier = sent.token.key
    BY <2>3 DEF Accepts
  <2>6. sent.at < sent.token.signed + CacheLifetime
    BY <2>2
  <2> HIDE DEF sent
  <2>7. QED
    BY <2>1, <2>4, <2>5, <2>6, OwnOutcome
<1>7. QED
  BY <1>2, <1>3, <1>4, <1>5, <1>6 DEF Next

-----------------------------------------------------------------------------
(* Keys                                                                    *)

LEMMA KeyInit == Init => KeyInv /\ KeySettingHasKey
BY DEF Init, KeyInv, KeySettingHasKey, Documents, Idle

LEMMA KeyStep == TypeInv /\ KeyInv /\ KeySettingHasKey /\ [Next]_vars
                   => KeyInv' /\ KeySettingHasKey'
<1> SUFFICES ASSUME TypeInv, KeyInv, KeySettingHasKey, [Next]_vars
             PROVE  KeyInv' /\ KeySettingHasKey'
  OBVIOUS
<1> DEFINE Safe(kid) == vault[kid] # None \/ kid \in unsound
<1>1. \A doc \in settings : doc.name = ClientKey => Safe(doc.kid)
  BY DEF KeySettingHasKey, Documents
<1>a. ASSUME \A kid \in Kids : Safe(kid) => Safe(kid)',
             \A doc \in settings' : doc.name = ClientKey =>
               doc \in settings \/ (doc.kid \in Kids /\ Safe(doc.kid)),
             \A p \in Processes : request'[p].step = "save_key_setting" =>
               \/ request'[p] = request[p]
               \/ \E kid \in Kids : request'[p].kid = kid /\ Safe(kid)'
      PROVE  KeyInv' /\ KeySettingHasKey'
  <2>1. \A doc \in settings : doc.name = ClientKey => doc.kid \in Kids
    BY DEF TypeInv, Config, KeySetting, AccessData, ClientKey
  <2>2. KeySettingHasKey'
    BY <1>1, <1>a, <2>1 DEF KeySettingHasKey, Documents
  <2>3. KeyInv'
    BY <1>a DEF KeyInv, TypeInv, KeyRequest
  <2>4. QED
    BY <2>2, <2>3
<1> USE DEF Goto, Answer, Idle, World, Configuration, End
<1>2. CASE Tick \/ Rotate \/ UNCHANGED vars
  BY <1>2, <1>a DEF Tick, Rotate, vars
<1>3. ASSUME NEW w \in Workers,
             PostConfig(w) \/ DeleteConfig(w) \/ DeleteSetting(w) \/ DeleteKey(w)
      PROVE  KeyInv' /\ KeySettingHasKey'
  <2>1. UNCHANGED <<vault, unsound>> /\ settings' \subseteq settings
    BY <1>3 DEF PostConfig, DeleteConfig, DeleteSetting, DeleteKey
  <2>2. \A p \in Processes : request'[p].step = "save_key_setting" => request'[p] = request[p]
    BY <1>3 DEF PostConfig, DeleteConfig, DeleteSetting, DeleteKey, TypeInv
  <2>3. QED
    BY <2>1, <2>2, <1>a
<1>4. ASSUME NEW w \in Workers, SaveConfig(w) PROVE KeyInv' /\ KeySettingHasKey'
  BY <1>4, <1>a DEF SaveConfig, TypeInv, AccessData, ClientKey
<1>5. ASSUME NEW w \in Workers, PostKey(w) PROVE KeyInv' /\ KeySettingHasKey'
  <2>1. UNCHANGED <<vault, unsound, settings>>
    BY <1>5 DEF PostKey
  <2>2. \A p \in Processes : request'[p].step = "save_key_setting" => request'[p] = request[p]
    BY <1>5 DEF PostKey, post_steps, TypeInv
  <2>3. QED
    BY <2>1, <2>2, <1>a
<1>6. ASSUME NEW w \in Workers, StoreKey(w) PROVE KeyInv' /\ KeySettingHasKey'
  <2>1. UNCHANGED settings
    BY <1>6 DEF StoreKey
  <2>2. w \in Processes /\ request[w].kid \in Kids /\ request[w].key # None
    BY <1>6 DEF StoreKey, TypeInv, KeyRequest, Processes
  <2>3. \A kid \in Kids : Safe(kid) => Safe(kid)'
    BY <1>6, <2>2 DEF StoreKey, TypeInv
  <2>4. CASE request' = [request EXCEPT ![w] = Idle] /\ UNCHANGED <<vault, unsound>>
    BY <2>1, <2>2, <2>4, <1>a DEF TypeInv
  <2>5. CASE /\ request' = [request EXCEPT ![w] = NextStep(request[w])]
             /\ vault'[request[w].kid] # None \/ request[w].kid \in unsound'
    <3>1. request[w] \in KeyRequest("store_key")
      BY <1>6, <2>2 DEF StoreKey, TypeInv
    <3>2. request'[w].kid = request[w].kid
      BY <2>2, <2>5, <3>1, StepGoesOn DEF TypeInv
    <3>3. \A p \in Processes \ {w} : request'[p] = request[p]
      BY <2>5 DEF TypeInv
    <3>4. \E kid \in Kids : request'[w].kid = kid /\ Safe(kid)'
      BY <2>2, <2>5, <3>2
    <3> HIDE DEF Safe
    <3> QED
      BY <2>1, <2>3, <3>3, <3>4, <1>a
  <2> QED
    BY <1>6, <2>2, <2>4, <2>5 DEF StoreKey, TypeInv
<1>7. ASSUME NEW w \in Workers, SaveKeySetting(w) PROVE KeyInv' /\ KeySettingHasKey'
  <2>1. UNCHANGED <<vault, unsound>>
    BY <1>7 DEF SaveKeySetting
  <2>2. w \in Processes /\ request[w].kid \in Kids /\ Safe(request[w].kid)
    BY <1>7 DEF SaveKeySetting, TypeInv, KeyInv, KeyRequest, Processes
  <2>3. \A p \in Processes : request'[p].step = "save_key_setting" => request'[p] = request[p]
    BY <1>7 DEF SaveKeySetting, NextStep, post_steps, TypeInv
  <2>4. \A doc \in settings' : doc \in settings \/ doc.kid = request[w].kid
    BY <1>7 DEF SaveKeySetting
  <2>5. QED
    BY <2>1, <2>2, <2>3, <2>4, <1>a
<1>8. ASSUME NEW w \in Workers, DropKey(w) PROVE KeyInv' /\ KeySettingHasKey'
  <2>1. UNCHANGED settings
    BY <1>8 DEF DropKey
  <2>2. \A kid \in Kids : Safe(kid) => Safe(kid)'
    BY <1>8 DEF DropKey, TypeInv
  <2>3. \A p \in Processes : request'[p].step = "save_key_setting" => request'[p] = request[p]
    BY <1>8 DEF DropKey, TypeInv
  <2>4. QED
    BY <2>1, <2>2, <2>3, <1>a
<1>9. ASSUME NEW p \in Processes,
             \/ _get_client_token(p) \/ ReadClientKey(p) \/ _generate_client_token(p)
             \/ PutSecret(p) \/ Send(p) \/ Restart(p)
      PROVE  KeyInv' /\ KeySettingHasKey'
  <2>1. UNCHANGED <<vault, unsound, settings>>
    BY <1>9 DEF _get_client_token, ReadClientKey, _generate_client_token, PutSecret, Send, Restart
  <2>2. \A q \in Processes : request'[q].step = "save_key_setting" => request'[q] = request[q]
    BY <1>9 DEF _get_client_token, ReadClientKey, _generate_client_token, PutSecret, Send, Restart,
                TypeInv
  <2>3. QED
    BY <2>1, <2>2, <1>a
<1>10. QED
  BY <1>2, <1>3, <1>4, <1>5, <1>6, <1>7, <1>8, <1>9 DEF Next

-----------------------------------------------------------------------------
(* The theorems                                                            *)

LEMMA LicenseInvariant ==
  Spec => [](TypeInv /\ TokenInv /\ TokenIsUsedBriefly /\ KeyInv /\ KeySettingHasKey)
<1> DEFINE Inv == TypeInv /\ TokenInv /\ TokenIsUsedBriefly /\ KeyInv /\ KeySettingHasKey
<1>1. Init => Inv
  BY TypeInit, TokenInit, KeyInit
<1>2. Inv /\ [Next]_vars => Inv'
  BY TypeStep, TokenStep, SentStep, KeyStep
<1>3. QED
  BY <1>1, <1>2, PTL DEF Spec

\* No process sends a token later than half an hour after its signature, whichever
\* caches of _get_client_token and of SSMService it went through, and LM never
\* refuses one for its age.
THEOREM TokenIsUsedBrieflyTheorem == Spec => []TokenIsUsedBriefly
BY LicenseInvariant, PTL

\* The setting LM_CLIENT_KEY never names a key that a POST of it left unstored
\* without an error, wherever requests meet or processes die.
THEOREM KeySettingHasKeyTheorem == Spec => []KeySettingHasKey
BY LicenseInvariant, PTL
=============================================================================
