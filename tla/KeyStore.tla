------------------------------ MODULE KeyStore ------------------------------
(***************************************************************************)
(* The two WireGuard key pairs between the gateway's VPN client and the    *)
(* core: ensure_keys and _ensure_pair of src/src/proxy-unifi, file by file,*)
(* under the three kinds of callers: rebuild_active_config, which has no   *)
(* transaction and goes on after a command that fails; an import or a      *)
(* change of a setting, which has one; and cmd_regen_keys, which removes   *)
(* all keys first. A file holds the pair that its half belongs to. A mv in *)
(* the key directory is taken to work.                                     *)
(***************************************************************************)
EXTENDS Naturals

CONSTANTS KeyStores,  \* what the key directory may hold at first
          NoKey,      \* no file, or an empty one
          NotAKey,    \* a file with something else in it
          AllPairs,   \* the pairs there can be
          FirstPairs, \* those that exist at first
          MaxCalls

KeyFiles == {"wg", "unifi", "xray"} \X {"private", "public"}
KeyPairs == {"wg", "unifi"}

ASSUME KeyStoresAssumption ==
    KeyStores \subseteq [KeyFiles -> FirstPairs \cup {NoKey, NotAKey}]
ASSUME PairsAssumption ==
    /\ FirstPairs \subseteq AllPairs /\ NoKey \notin AllPairs /\ NotAKey \notin AllPairs
    /\ NoKey # NotAKey /\ MaxCalls \in Nat

VARIABLES keys,     \* the pair that each file is of
          stage,    \* the step of the call, or "idle"
          caller,   \* who calls
          before,   \* the keys in the snapshot of its transaction
          ended,    \* how the last call ended
          known,    \* the pairs that the VPN client in UniFi was set up with (history)
          made,     \* the pairs that there have been
          calls

keyVars == <<keys, stage, caller, before, ended, known, made, calls>>

\* ensure_keys takes the names of the first versions over.
InUse(p) ==
    IF p = "wg" /\ keys[<<"wg", "private">>] = NoKey THEN keys[<<"xray", "private">>]
    ELSE keys[<<p, "private">>]

KeyInit ==
    /\ keys \in KeyStores
    /\ stage = "idle" /\ caller = "rebuild" /\ before = keys /\ ended = "none"
    /\ known = [p \in KeyPairs |-> IF InUse(p) = NotAKey THEN NoKey ELSE InUse(p)]
    /\ made = FirstPairs /\ calls = 0

CallBegins ==
    /\ stage = "idle" /\ calls < MaxCalls
    /\ caller' \in {"rebuild", "change", "regen"}
    /\ stage' = IF caller' = "regen" THEN "clear" ELSE "private name"
    /\ before' = keys /\ calls' = calls + 1 /\ ended' = "none"
    /\ UNCHANGED <<keys, known, made>>

\* A slip of ClearKeys: only the files of now.
ClearOwnKeys ==
    /\ stage = "clear" /\ stage' = "private name"
    /\ keys' = [f \in KeyFiles |-> IF f[1] \in KeyPairs THEN NoKey ELSE keys[f]]
    /\ UNCHANGED <<caller, before, ended, known, made, calls>>

\* rm -f "$WG_DIR"/*.key
ClearKeys ==
    /\ stage = "clear" /\ stage' = "private name"
    /\ keys' = [f \in KeyFiles |-> NoKey]
    /\ UNCHANGED <<caller, before, ended, known, made, calls>>

Migrate(half, from, to) ==
    /\ stage = from /\ stage' = to
    /\ keys' = IF keys[<<"xray", half>>] # NoKey /\ keys[<<"wg", half>>] = NoKey
               THEN [keys EXCEPT ![<<"wg", half>>] = keys[<<"xray", half>>],
                                 ![<<"xray", half>>] = NoKey]
               ELSE keys
    /\ UNCHANGED <<caller, before, ended, known, made, calls>>

\* A slip of Repairs: a public key that is there is taken for the right one.
RepairsIfMissing(p) ==
    LET private == keys[<<p, "private">>]
        public == keys[<<p, "public">>]
    IN /\ private \notin {NoKey, NotAKey}
       /\ keys' = [keys EXCEPT ![<<p, "public">>] = IF public = NoKey THEN private ELSE public]

\* The public half is derived from the private one. A private half that is none ends
\* the call.
Repairs(p) ==
    LET private == keys[<<p, "private">>]
    IN /\ private \notin {NoKey, NotAKey}
       /\ keys' = [keys EXCEPT ![<<p, "public">>] = private]

\* What wg genkey draws.
NewPair == CHOOSE pair \in AllPairs \ made : TRUE

\* A slip of Rotates: without its public half a private one counts as lost.
RotatesHalfPairs(p) ==
    /\ NoKey \in {keys[<<p, "private">>], keys[<<p, "public">>]} /\ AllPairs \ made # {}
    /\ made' = made \cup {NewPair}
    /\ keys' = [keys EXCEPT ![<<p, "private">>] = NewPair]

Rotates(p) ==
    /\ keys[<<p, "private">>] = NoKey /\ AllPairs \ made # {}
    /\ made' = made \cup {NewPair}
    /\ keys' = [keys EXCEPT ![<<p, "private">>] = NewPair]

\* Where errors do not end the call, a pair that cannot be made becomes two empty files.
RotatesInVain(p) ==
    /\ keys[<<p, "private">>] = NoKey /\ caller = "rebuild"
    /\ keys' = [keys EXCEPT ![<<p, "public">>] = NoKey]

EnsurePair(p, storing, to) ==
    /\ stage = p
    /\ \/ Repairs(p) /\ stage' = to /\ UNCHANGED made
       \/ Rotates(p) /\ stage' = storing
       \/ RotatesInVain(p) /\ stage' = to /\ UNCHANGED made
    /\ UNCHANGED <<caller, before, ended, known, calls>>

StorePublic(p, from, to) ==
    /\ stage = from /\ stage' = to
    /\ keys' = [keys EXCEPT ![<<p, "public">>] = keys[<<p, "private">>]]
    /\ UNCHANGED <<caller, before, ended, known, made, calls>>

\* The generators refuse an empty key. The user sees the pairs, and is told to set up
\* the VPN client again if they are new.
CallSucceeds ==
    /\ stage = "build" /\ stage' = "idle" /\ ended' = "ok"
    /\ NoKey \notin {keys[<<"wg", "private">>], keys[<<"unifi", "public">>]}
    /\ known' = [p \in KeyPairs |-> IF caller = "regen" \/ known[p] = NoKey
                                 THEN keys[<<p, "private">>] ELSE known[p]]
    /\ UNCHANGED <<keys, caller, before, made, calls>>

\* A command fails, a signal or a kill comes; what ran in a transaction is undone.
CallFails ==
    /\ stage # "idle" /\ stage' = "idle" /\ ended' = "failed"
    /\ keys' = IF caller = "rebuild" THEN keys ELSE before
    /\ UNCHANGED <<caller, before, known, made, calls>>

KeyNext ==
    \/ CallBegins \/ ClearKeys
    \/ Migrate("private", "private name", "public name") \/ Migrate("public", "public name", "wg")
    \/ EnsurePair("wg", "wg public", "unifi") \/ StorePublic("wg", "wg public", "unifi")
    \/ EnsurePair("unifi", "unifi public", "build") \/ StorePublic("unifi", "unifi public", "build")
    \/ CallSucceeds \/ CallFails

-----------------------------------------------------------------------------
(* Properties *)

\* The tunnel that was set up in UniFi goes on: whatever half of a pair is missing or
\* wrong, and wherever a call ends, its private keys are kept, under the names of now or
\* those of the first versions. (proxy-unifi:595-597, 606-608.)
KeysKept == stage = "idle" => \A p \in KeyPairs : known[p] # NoKey => InUse(p) = known[p]

\* After a call that went well both halves of both pairs belong together.
PairsMatch ==
    ended = "ok" => \A p \in KeyPairs : /\ keys[<<p, "private">>] \notin {NoKey, NotAKey}
                                     /\ keys[<<p, "public">>] = keys[<<p, "private">>]

\* New keys are new: none comes back, by whatever name it had.
RotationIsReal ==
    [][caller = "regen" /\ stage = "build" /\ ended' = "ok" =>
          \A p \in KeyPairs : known'[p] # known[p]]_keyVars

\* Keys change when the user asks for it, then all of them, and match always.
KeysAreRight == []KeysKept /\ []PairsMatch /\ RotationIsReal
=============================================================================
