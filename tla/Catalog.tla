------------------------------ MODULE Catalog ------------------------------
(***************************************************************************)
(* The catalog of a subscription, as src/src/mksub.py keeps it, and        *)
(* cmd_match: which of its nodes, if any, a refresh may put in the place   *)
(* of the one that was selected.                                           *)
(***************************************************************************)
EXTENDS Naturals, Sequences, FiniteSets

CONSTANTS Nodes,    \* the nodes a provider may offer; a node's id is a hash of all it says
          Node,       \* what each says: its kind, scheme, label and server
          Blank,      \* a label or server that is empty
          Offers      \* the lists it may send, without the duplicates process_body drops

ASSUME NodesAssumption ==
    /\ \A p \in Nodes : {"kind", "scheme", "label", "server"} \subseteq DOMAIN Node[p]
    /\ \A l \in Offers : /\ l \in Seq(Nodes) /\ l # <<>>
                         /\ \A m, n \in DOMAIN l : l[m] = l[n] => m = n

\* A row keeps the verdict of the generators of the day it was fetched.
Fetched(list, good) == [n \in DOMAIN list |-> [id |-> list[n], ok |-> list[n] \in good]]

\* _load judges a JSON profile anew, a link keeps its verdict.
Recognized(row, good) == IF Node[row.id].kind = "pool" THEN row.id \in good ELSE row.ok

\* A slip of Score: a node of any label may follow.
ScoreAnyLabel(row, n, old) == 70 + (IF n = old.n THEN 5 ELSE 0)

\* How much the node in place n is like the selected one, old.
Score(row, n, old) ==
    LET new == Node[row.id]
        was == Node[old.id]
    IN 30 + (IF new.label # Blank /\ new.label = was.label THEN 40 ELSE 0)
          + (IF new.server # Blank /\ new.server = was.server THEN 30 ELSE 0)
          + (IF n = old.n THEN 5 ELSE 0)

\* The place of the node that replaces the selected one, or no place at all: the
\* node itself if it is still there, else the single best one, if it is good enough.
Match(cat, good, old) ==
    LET offered == {n \in DOMAIN cat : Recognized(cat[n], good)}
        itself == {n \in offered : cat[n].id = old.id}
        alike == {n \in offered : /\ Node[cat[n].id].kind = Node[old.id].kind
                                  /\ Node[cat[n].id].scheme = Node[old.id].scheme}
        best == {n \in alike : \A m \in alike :
                    Score(cat[m], m, old) <= Score(cat[n], n, old)}
    IN IF itself # {} THEN itself
       ELSE {n \in best : Cardinality(best) = 1 /\ Score(cat[n], n, old) >= 70}
=============================================================================
