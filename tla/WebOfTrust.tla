----------------------------- MODULE WebOfTrust -----------------------------
(***************************************************************************)
(* The web of trust of one client, pgp/web_of_trust.rs, with the two files  *)
(* it lives in (identity.json and wot.json: identity.rs, app.rs).           *)
(*                                                                          *)
(* A key is its fingerprint: add_key files an identity under the one it     *)
(* states and does not derive it again, so identities whose key and         *)
(* fingerprint disagree are outside the model.  A signature is who signed   *)
(* whom, the level as the byte that is stored, and whether the Ed25519      *)
(* check of it succeeds.  The code keeps signatures in a Vec; add_signature *)
(* refuses a second one for the same pair, so here they are a set.          *)
(* compute_trust_map is a loop over a HashMap: here one key is visited per  *)
(* step, in any order, and the callers wait until it is through.  A level   *)
(* that is not in the map counts as Unknown, so the map is a total function.*)
(***************************************************************************)
EXTENDS TrustLevels, FiniteSets

CONSTANTS OwnKey,        \* keys this client may generate for itself
          PeerKey,       \* keys of others
          Missing,       \* no key: the process is down, a file is unreadable
          SigLevel,      \* levels that signatures state: bytes
          ManualLevel,   \* levels the user sets by hand
          MaxSignatures, \* bound on the signatures held
          MaxEdits,      \* bound on the changes to the web
          MaxStops       \* bound on the ends of the process

Fingerprint == OwnKey \cup PeerKey

ASSUME MissingAssumption  == Missing \notin Fingerprint
ASSUME LevelAssumption    == SigLevel \subseteq 0 .. 255 /\ ManualLevel \subseteq TrustLevel
ASSUME WebBoundAssumption == {MaxSignatures, MaxEdits, MaxStops} \subseteq Nat

VARIABLES
    keys, signatures, own_fingerprints,
    manual_overrides,    \* the keys that have one, with their level
    trust_cache, cache_valid,
    computing,           \* compute_trust_map is under way, with its locals:
    trust, todo, changed,
    identity,            \* the client's key, Missing while the process is down
    identity_file, wot_file,
    generated,           \* keys generated so far
    edits, stops

web       == <<keys, signatures, own_fingerprints, manual_overrides>>
locals    == <<trust, todo, changed>>
files     == <<identity_file, wot_file, generated, stops>>
trustVars == <<keys, signatures, own_fingerprints, manual_overrides, trust_cache,
               cache_valid, computing, trust, todo, changed, identity,
               identity_file, wot_file, generated, edits, stops>>

TrustSignature == [signer : Fingerprint, subject : Fingerprint,
                   trust_level : SigLevel, good : BOOLEAN]

TrustMap == [Fingerprint -> TrustLevel]

Overrides == UNION {[K -> TrustLevel] : K \in SUBSET Fingerprint}

Saved == [keys : SUBSET Fingerprint, signatures : SUBSET TrustSignature,
          own_fingerprints : SUBSET OwnKey, manual_overrides : Overrides]

NoOverrides == [fp \in {} |-> Unknown]

NewWeb == [keys |-> {}, signatures |-> {}, own_fingerprints |-> {},
           manual_overrides |-> NoOverrides]

Unset == [fp \in Fingerprint |-> Unknown]

Running == identity # Missing /\ ~computing

\* What was computed no longer counts.
invalidate_cache ==
    /\ cache_valid' = FALSE
    /\ trust_cache' = Unset

\* The web in memory becomes w, with nothing computed yet.
Loaded(w) ==
    /\ keys' = w.keys
    /\ signatures' = w.signatures
    /\ own_fingerprints' = w.own_fingerprints
    /\ manual_overrides' = w.manual_overrides
    /\ invalidate_cache

TrustInit ==
    /\ keys = {} /\ signatures = {} /\ own_fingerprints = {}
    /\ manual_overrides = NoOverrides
    /\ trust_cache = Unset /\ cache_valid = FALSE
    /\ computing = FALSE
    /\ trust = Unset /\ todo = {} /\ changed = FALSE
    /\ identity = Missing
    /\ identity_file = Missing /\ wot_file = Missing
    /\ generated = {}
    /\ edits = 0 /\ stops = 0

---------------------------------------------------------------------------
(* The process starts and ends.                                             *)

\* What the file holds after the call: the write truncates in place, so one
\* that fails or is cut short leaves neither the old nor the new contents.
write_private_file(file, contents) == {file, Missing, contents}

\* Mutant: the saved web is taken as it is.
WithOwnKey_NotAgain(w, k) ==
    IF w = NewWeb THEN [w EXCEPT !.own_fingerprints = @ \cup {k}, !.keys = @ \cup {k}]
    ELSE w

\* add_own_key
WithOwnKey(w, k) ==
    [w EXCEPT !.own_fingerprints = @ \cup {k}, !.keys = @ \cup {k}]

\* AppState::new: Identity::load_or_generate, then the saved web or a new one.
Start ==
    /\ identity = Missing
    /\ \/ /\ identity_file # Missing
          /\ identity' = identity_file
          /\ UNCHANGED <<identity_file, generated>>
       \/ /\ identity_file = Missing
          /\ \E k \in OwnKey \ generated :
                /\ identity' = k
                /\ identity_file' \in write_private_file(identity_file, k)
                /\ generated' = generated \cup {k}
    /\ Loaded(WithOwnKey(IF wot_file = Missing THEN NewWeb ELSE wot_file, identity'))
    /\ UNCHANGED <<computing, locals, wot_file, edits, stops>>

\* The process ends, at any moment and in any way: the writes of Drop for
\* AppState are done, fail, or are never reached.
Stop ==
    /\ identity # Missing
    /\ stops < MaxStops
    /\ identity_file' \in write_private_file(identity_file, identity)
    /\ wot_file' \in write_private_file(wot_file,
                        [keys |-> keys, signatures |-> signatures,
                         own_fingerprints |-> own_fingerprints,
                         manual_overrides |-> manual_overrides])
    /\ identity' = Missing
    /\ Loaded(NewWeb)
    /\ computing' = FALSE
    /\ trust' = Unset /\ todo' = {} /\ changed' = FALSE
    /\ stops' = stops + 1
    /\ UNCHANGED <<generated, edits>>

\* The level of one signature in the file is changed while the process is down,
\* so that it no longer verifies.  Other damage is outside the model, such as a
\* line repeated in the file, which load would keep twice.
AlterFile(s, l) ==
    /\ identity = Missing /\ wot_file # Missing
    /\ edits < MaxEdits
    /\ s \in wot_file.signatures
    /\ wot_file' = [wot_file EXCEPT !.signatures =
                       (@ \ {s}) \cup {[s EXCEPT !.trust_level = l, !.good = FALSE]}]
    /\ edits' = edits + 1
    /\ UNCHANGED <<web, trust_cache, cache_valid, computing, locals, identity,
                   identity_file, generated, stops>>

---------------------------------------------------------------------------
(* Calls that change the web.                                               *)

Edit ==
    /\ Running
    /\ edits < MaxEdits
    /\ edits' = edits + 1
    /\ invalidate_cache
    /\ UNCHANGED <<computing, locals, identity, files>>

add_key(fp) ==
    /\ Running
    /\ keys' = keys \cup {fp}
    /\ invalidate_cache
    /\ UNCHANGED <<signatures, own_fingerprints, manual_overrides, computing, locals,
                   identity, files, edits>>

signature_is_valid(sig) == sig.signer \in keys /\ sig.good

add_signature(sig) ==
    /\ Cardinality(signatures) < MaxSignatures
    /\ {sig.signer, sig.subject} \subseteq keys
    /\ ~\E s \in signatures : s.signer = sig.signer /\ s.subject = sig.subject
    /\ signature_is_valid(sig)
    /\ Edit
    /\ signatures' = signatures \cup {sig}
    /\ UNCHANGED <<keys, own_fingerprints, manual_overrides>>

\* Mutant: the cache is kept.
remove_signature_KeepsCache(signer_fp, subject_fp) ==
    /\ Running
    /\ edits < MaxEdits
    /\ edits' = edits + 1
    /\ signatures' = {s \in signatures : s.signer # signer_fp \/ s.subject # subject_fp}
    /\ UNCHANGED <<keys, own_fingerprints, manual_overrides, trust_cache, cache_valid,
                   computing, locals, identity, files>>

remove_signature(signer_fp, subject_fp) ==
    /\ Edit
    /\ signatures' = {s \in signatures : s.signer # signer_fp \/ s.subject # subject_fp}
    /\ UNCHANGED <<keys, own_fingerprints, manual_overrides>>

set_manual_trust(fp, level) ==
    /\ Edit
    /\ manual_overrides' = [k \in DOMAIN manual_overrides \cup {fp} |->
                                IF k = fp THEN level ELSE manual_overrides[k]]
    /\ UNCHANGED <<keys, signatures, own_fingerprints>>

---------------------------------------------------------------------------
(* compute_trust_map.                                                       *)

\* Keys whose level the computation does not touch.
Fixed == own_fingerprints \cup DOMAIN manual_overrides

\* The map it starts from: an override goes before being our own.
Seed == [fp \in Fingerprint |->
            IF fp \in DOMAIN manual_overrides THEN manual_overrides[fp]
            ELSE IF fp \in own_fingerprints THEN Ultimate ELSE Unknown]

\* Mutant: whoever signs, the signature counts.
Gives_AnySigner(t, sig, l) == from_i32(sig.trust_level) >= l

\* What a signature gives its subject when levels are t: the smaller of its
\* own level and the signer's, so at least l when both are.
Gives(t, sig, l) == t[sig.signer] >= l /\ from_i32(sig.trust_level) >= l

\* The level of fp by the signatures sigs: one Full signature or two of any
\* weight make it Full, one makes it Marginal.
NewLevel(sigs, t, fp) ==
    LET some == {s \in sigs : s.subject = fp /\ Gives(t, s, Marginal)}
    IN  IF \/ \E s \in some : Gives(t, s, Full)
           \/ \E s1, s2 \in some : s1 # s2
        THEN Full
        ELSE IF some # {} THEN Marginal ELSE Unknown

\* Mutant: overridden keys are computed like the others.
Computed_Overridden == keys \ own_fingerprints

\* The keys that the loop does not skip.
Computed == keys \ Fixed

\* calculate_trust for a key that is neither ours nor overridden, when there
\* is no valid cache; otherwise it only reads.
calculate_trust(fp) ==
    /\ Running
    /\ fp \notin Fixed
    /\ ~cache_valid
    /\ computing' = TRUE
    /\ trust' = Seed
    /\ todo' = Computed
    /\ changed' = FALSE
    /\ UNCHANGED <<web, trust_cache, cache_valid, identity, files, edits>>

VisitKey(fp) ==
    /\ computing
    /\ fp \in todo
    /\ todo' = todo \ {fp}
    /\ trust' = [trust EXCEPT ![fp] =
                     NewLevel({s \in signatures : signature_is_valid(s)}, trust, fp)]
    /\ changed' = (changed \/ trust' # trust)
    /\ UNCHANGED <<web, trust_cache, cache_valid, computing, identity, files, edits>>

\* The pass is over and something changed: once more.
NextPass ==
    /\ computing /\ todo = {} /\ changed
    /\ todo' = Computed
    /\ changed' = FALSE
    /\ UNCHANGED <<web, trust_cache, cache_valid, computing, trust, identity, files, edits>>

\* The pass is over and nothing changed: the map becomes the cache.
EndOfComputation ==
    /\ computing /\ todo = {} /\ ~changed
    /\ trust_cache' = trust
    /\ cache_valid' = TRUE
    /\ computing' = FALSE
    /\ trust' = Unset
    /\ UNCHANGED <<web, todo, changed, identity, files, edits>>

---------------------------------------------------------------------------
\* trust_path finds a path from one of our keys to fp over signatures that
\* verify: fp is in every set that holds our keys and whom its members signed.
has_trust_path(fp) ==
    \A R \in SUBSET Fingerprint :
        /\ own_fingerprints \subseteq R
        /\ \A s \in signatures : signature_is_valid(s) /\ s.signer \in R => s.subject \in R
        => fp \in R

---------------------------------------------------------------------------
TrustNext ==
    \/ Start
    \/ Stop
    \/ NextPass
    \/ EndOfComputation
    \/ \E fp \in Fingerprint : calculate_trust(fp) \/ VisitKey(fp)
    \/ \E fp \in PeerKey : add_key(fp)
    \/ \E fp \in Fingerprint, l \in ManualLevel : set_manual_trust(fp, l)
    \/ \E sig \in TrustSignature : add_signature(sig)
    \/ \E a, b \in Fingerprint : remove_signature(a, b)
    \/ \E sig \in TrustSignature, l \in SigLevel : AlterFile(sig, l)

TrustSpec == TrustInit /\ [][TrustNext]_trustVars

---------------------------------------------------------------------------
\* The fields of WebOfTrust and what its files may hold.
TrustTypeOK ==
    /\ keys \subseteq Fingerprint /\ own_fingerprints \subseteq OwnKey
    /\ signatures \subseteq TrustSignature
    /\ manual_overrides \in Overrides
    /\ trust_cache \in TrustMap /\ cache_valid \in BOOLEAN
    /\ computing \in BOOLEAN
    /\ trust \in TrustMap /\ todo \subseteq Fingerprint /\ changed \in BOOLEAN
    /\ identity \in OwnKey \cup {Missing}
    /\ identity_file \in OwnKey \cup {Missing}
    /\ wot_file \in Saved \cup {Missing}
    /\ generated \subseteq OwnKey
    /\ edits \in 0 .. MaxEdits /\ stops \in 0 .. MaxStops

Verified == {s \in signatures : s.good}

\* t gives every key that is computed the level its signers have earned it
\* under t itself, and every other key the level it is set to.
Balanced(t) ==
    \A fp \in Fingerprint :
        t[fp] = IF fp \in keys \ Fixed THEN NewLevel(Verified, t, fp) ELSE Seed[fp]

\* t gives them no less than that.
Granting(t) ==
    \A fp \in Fingerprint : fp \in keys \ Fixed => NewLevel(Verified, t, fp) <= t[fp]

\* Maps that differ from the start of the computation on computed keys only.
Assignments ==
    {[fp \in Fingerprint |-> IF fp \in keys \ Fixed THEN u[fp] ELSE Seed[fp]] :
        u \in [Fingerprint -> Unknown .. Full]}

\* A valid cache agrees with the signatures that verify and is the least such map:
\* whatever order the keys were visited in, whatever was edited, saved, altered
\* and loaded before, no key is above what its signers earn it, keys that only
\* sign each other stay Unknown, and nothing stale is served
\* (web_of_trust.rs:230-236, 363-370).
CacheIsLeast ==
    cache_valid => /\ Balanced(trust_cache)
                   /\ \A t \in Assignments :
                         Granting(t) => \A fp \in Fingerprint : trust_cache[fp] <= t[fp]

\* "Levels only grow" while the map is computed (web_of_trust.rs:254-255): a
\* pass that changes something raises a level, so the loop comes to its end.
LevelsOnlyGrow ==
    [][computing /\ computing' => \A fp \in Fingerprint : trust[fp] <= trust'[fp]]_trustVars

\* A key that has earned trust without the user's overrides has a path of
\* signatures from one of our own keys to show (trust_path).
TrustHasPath ==
    cache_valid /\ DOMAIN manual_overrides = {} =>
        \A fp \in Fingerprint : trust_cache[fp] >= Marginal => has_trust_path(fp)

\* While the process runs its key is among its own, also after the identity
\* was lost and generated anew beside a saved web (app.rs:99-109).
OwnKeyRecognised ==
    identity # Missing => identity \in own_fingerprints /\ identity \in keys
===========================================================================
