----------------------------- MODULE PayloadKeys -----------------------------
(***************************************************************************)
(* Encrypted snippets and the cache of derived keys of a client process    *)
(* (src/src/encryption.rs), which encrypts and decrypts one snippet at a   *)
(* time.  A key is the triple it is derived from: API key, salt and Argon2 *)
(* parameters; a ciphertext is opened by the key that sealed it and by no  *)
(* other.                                                                  *)
(***************************************************************************)
EXTENDS Naturals, FiniteSets

CONSTANTS ApiKey, Salt,
          KeySlots,  \* MAX_KEY_CACHE_SIZE
          Given,     \* payloads of other devices and builds
          MaxCalls   \* bound: encryptions and decryptions

VARIABLES apiKey,    \* of the settings
          derived,   \* KEY_CACHE: <<API key, salt, version>> |-> derived key
          payloads,  \* on the server
          syncing,   \* a sync holds its KeyCacheGuard
          batch,     \* the salt of its batch, or 0
          opened,    \* of the last decryption: API key, payload, result
          cryptions
keyVars == <<apiKey, derived, payloads, syncing, batch, opened, cryptions>>

\* argon2_params_for_version: both layouts, without and with a version, use
\* the same parameters; any other version is unsupported.
Supported == {0, 1}
Params(version) == IF version \in Supported THEN "current" ELSE "unknown"
DerivedKey == ApiKey \X Salt \X {"current"}
Payload == [version : 0..2, salt : Salt, sealed : ApiKey \X Salt \X {"current", "unknown"},
            long : BOOLEAN, intact : BOOLEAN]

\* What nobody has changed was sealed for the salt and the version it names.
ASSUME KeysAssumption ==
    /\ ApiKey # {} /\ 0 \notin Salt
    /\ KeySlots \in Nat \ {0} /\ MaxCalls \in Nat
    /\ Given # {} /\ Given \subseteq Payload
    /\ \A p \in Given : p.intact => /\ p.sealed[2] = p.salt
                                    /\ p.sealed[3] = Params(p.version)

NotOpened == [api |-> CHOOSE k \in ApiKey : TRUE, payload |-> CHOOSE p \in Given : TRUE,
              result |-> "none"]

KeysTypeOK ==
    /\ apiKey \in ApiKey /\ syncing \in BOOLEAN /\ batch \in Salt \cup {0}
    /\ DOMAIN derived \subseteq ApiKey \X Salt \X Supported
    /\ \A k \in DOMAIN derived : derived[k] \in DerivedKey
    /\ Cardinality(DOMAIN derived) <= KeySlots
    /\ payloads \subseteq Payload
    /\ opened \in [api : ApiKey, payload : Payload,
                   result : {"none", "text", "failed", "refused"}]
    /\ cryptions \in 0..MaxCalls

KeysInit ==
    /\ apiKey \in ApiKey /\ derived = [k \in {} |-> <<>>] /\ payloads = Given
    /\ syncing = FALSE /\ batch = 0 /\ opened = NotOpened /\ cryptions = 0
---------------------------------------------------------------------------
(* derive_key *)

\* Mutant: the salt is not part of the key, as a sync has one for its batch.
CacheKeyOfSync(salt, version) == <<apiKey, CHOOSE s \in Salt : TRUE, version>>
\* Two versions may use one salt with other parameters.
CacheKey(salt, version) == <<apiKey, salt, version>>
KeyFor(salt, version) ==
    LET k == CacheKey(salt, version)
    IN IF k \in DOMAIN derived THEN derived[k] ELSE <<apiKey, salt, Params(version)>>

\* A full cache loses half of its entries, any of them, before it takes one.
Evicted == IF Cardinality(DOMAIN derived) < KeySlots THEN {{}}
           ELSE {E \in SUBSET DOMAIN derived : Cardinality(E) = KeySlots \div 2}
Cached(salt, version) ==
    LET k == CacheKey(salt, version)
    IN IF k \in DOMAIN derived THEN UNCHANGED derived
       ELSE \E E \in Evicted :
              derived' = [j \in (DOMAIN derived \ E) \cup {k} |->
                          IF j = k THEN KeyFor(salt, version) ELSE derived[j]]
---------------------------------------------------------------------------
\* encrypt_snippets: a salt for the batch, that no other has.
StartSync == /\ ~syncing /\ syncing' = TRUE
             /\ batch' \in Salt \ {p.salt : p \in payloads}
             /\ UNCHANGED <<apiKey, derived, payloads, opened, cryptions>>
\* encrypt_with_salt
Encrypt == /\ syncing /\ cryptions < MaxCalls /\ cryptions' = cryptions + 1
           /\ payloads' = payloads \cup
                {[version |-> 1, salt |-> batch, sealed |-> KeyFor(batch, 1), long |-> TRUE,
                  intact |-> TRUE]}
           /\ Cached(batch, 1)
           /\ UNCHANGED <<apiKey, syncing, batch, opened>>

\* decrypt: from_base64 refuses what is of another version, or too short to
\* have a salt and a nonce; a changed or cut ciphertext fails to open.
Decrypt(p) ==
    /\ syncing /\ cryptions < MaxCalls /\ cryptions' = cryptions + 1
    /\ \/ /\ p.version \notin Supported \/ ~p.long
          /\ opened' = [api |-> apiKey, payload |-> p, result |-> "refused"]
          /\ UNCHANGED derived
       \/ /\ p.version \in Supported /\ p.long
          /\ opened' = [api |-> apiKey, payload |-> p,
                        result |-> IF p.intact /\ KeyFor(p.salt, p.version) = p.sealed
                                   THEN "text" ELSE "failed"]
          /\ Cached(p.salt, p.version)
    /\ UNCHANGED <<apiKey, payloads, syncing, batch>>

\* KeyCacheGuard
EndSync == /\ syncing /\ syncing' = FALSE /\ batch' = 0
           /\ derived' = [k \in {} |-> <<>>]
           /\ UNCHANGED <<apiKey, payloads, opened, cryptions>>
\* A registration.
NewKey == /\ ~syncing /\ apiKey' \in ApiKey \ {apiKey}
          /\ UNCHANGED <<derived, payloads, syncing, batch, opened, cryptions>>

KeysNext ==
    \/ StartSync \/ Encrypt \/ EndSync \/ NewKey
    \/ \E p \in payloads : Decrypt(p)
KeysSpec == KeysInit /\ [][KeysNext]_keyVars
---------------------------------------------------------------------------
\* encryption.rs: what is sealed here opens with the API key and with what the
\* payload itself says, wherever it is read; and a payload opens exactly if it
\* is whole, of a version this build reads, and was sealed with the API key.
OpensOwn ==
    /\ \A p \in payloads \ Given : p.sealed = <<p.sealed[1], p.salt, Params(p.version)>>
    /\ opened.result # "none" =>
         LET p == opened.payload
         IN opened.result = "text" <=> /\ p.long /\ p.intact /\ p.version \in Supported
                                       /\ p.sealed[1] = opened.api
=============================================================================
