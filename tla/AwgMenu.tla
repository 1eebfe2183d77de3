------------------------------ MODULE AwgMenu -------------------------------
(***************************************************************************)
(* The choice of an AmneziaWG profile from the menu of src/src/proxy-unifi *)
(* (awg_choose, awg_resolve, awg_select), which src/src/mkawg.py lists,    *)
(* picks and builds, while another session may rename, edit, delete and    *)
(* create profiles: the menu holds no lock while it waits for a number.    *)
(***************************************************************************)
EXTENDS Integers, Sequences, FiniteSets

CONSTANTS NumberOf, RangeOf, FlagOf, TagsOf, Keys, ZeroKey, HostsPorts, PrefixLists,
          MaxWord, MaxShort, MaxPacket, MaxPeers,   \* see AwgProfile
          Ids,         \* the profiles' ids, numbers here
          Names,       \* their names, in the order of the list
          Directories, \* the directories that another session changes
          Quiet,       \* the directories that nobody changes
          Edits,       \* what another session may write into a profile
          MaxChanges,  \* how often another session changes the directory
          Unpicked

Awg == INSTANCE AwgProfile

IsDirectory(d) ==
    /\ DOMAIN d \subseteq Ids
    /\ \A id \in DOMAIN d : /\ DOMAIN d[id] = {"name", "lines"}
                           /\ d[id].name \in Names /\ Awg!IsText(d[id].lines)

ASSUME IdsAssumption == /\ Ids \subseteq Nat /\ IsFiniteSet(Ids)
                        /\ Names \subseteq Nat /\ MaxChanges \in Nat
ASSUME TextsAssumption ==
    (\A d \in Directories \cup Quiet : IsDirectory(d)) /\ \A lines \in Edits : Awg!IsText(lines)
ASSUME RangesAssumption ==
    (\A text \in DOMAIN RangeOf : RangeOf[text] \in Int \X Int) /\ MaxWord \in Nat

VARIABLES dir,      \* the profiles: a function from ids to [name, lines]
          shown,    \* the directory when it was listed (history)
          map,      \* the ids listed, in their order: $RUN_DIR/awg-choice.map
          number,   \* what was typed
          selected, \* the id that awg_select activates
          endpoint, \* [lines, json]: the profile it is made of, and what the core gets
          changes

awgVars == <<dir, shown, map, number, selected, endpoint, changes>>

AwgInit ==
    /\ \/ dir \in Directories /\ changes = 0
       \/ dir \in Quiet /\ changes = MaxChanges
    /\ shown = Unpicked /\ map = Unpicked /\ number = 0 /\ selected = Unpicked /\ endpoint = Unpicked

\* awg_list with a map.
List ==
    /\ map = Unpicked
    /\ map' = Awg!Listed(dir)
    /\ shown' = dir
    /\ UNCHANGED <<dir, number, selected, endpoint, changes>>

\* A slip of Choose: the number is looked up in the directory as it is now.
ChooseByNumber(n) ==
    /\ map # Unpicked /\ number = 0 /\ n \in DOMAIN map
    /\ number' = n
    /\ LET now == Awg!Listed(dir)
       IN n \in DOMAIN now /\ Awg!Picked(dir, now[n]) # 0 /\ selected' = now[n]
    /\ UNCHANGED <<dir, shown, map, endpoint, changes>>

\* The number is looked up in the map, and its profile must be there still and be valid.
Choose(n) ==
    /\ map # Unpicked /\ number = 0 /\ n \in DOMAIN map
    /\ number' = n
    /\ Awg!Picked(dir, map[n]) # 0
    /\ selected' = map[n]
    /\ UNCHANGED <<dir, shown, map, endpoint, changes>>

\* awg_select has the lock and resolves the id again.
Select ==
    /\ selected # Unpicked /\ endpoint = Unpicked
    /\ Awg!Picked(dir, selected) # 0
    /\ endpoint' = [lines |-> dir[selected].lines, json |-> Awg!Endpoint(dir[selected].lines)]
    /\ UNCHANGED <<dir, shown, map, number, selected, changes>>

\* An id that is new, as uuid4 makes it.
Fresh(id) == id \notin DOMAIN dir /\ (shown # Unpicked => id \notin DOMAIN shown)

\* Another session: awg_commit_new, awg_commit_edit, awg_rename, awg_delete. The
\* editor may also be any other program, which leaves a profile that is not valid.
Change ==
    /\ changes < MaxChanges
    /\ changes' = changes + 1
    /\ \/ \E id \in {i \in Ids : Fresh(i)}, name \in Names, lines \in Edits :
            dir' = [i \in DOMAIN dir \cup {id} |->
                       IF i = id THEN [name |-> name, lines |-> lines] ELSE dir[i]]
       \/ \E id \in DOMAIN dir, lines \in Edits : dir' = [dir EXCEPT ![id].lines = lines]
       \/ \E id \in DOMAIN dir, name \in Names : dir' = [dir EXCEPT ![id].name = name]
       \/ \E id \in DOMAIN dir : dir' = [i \in DOMAIN dir \ {id} |-> dir[i]]
    /\ UNCHANGED <<shown, map, number, selected, endpoint>>

AwgNext == List \/ (map # Unpicked /\ \E n \in DOMAIN map : Choose(n)) \/ Select \/ Change
=============================================================================
