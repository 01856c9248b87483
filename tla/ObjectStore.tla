----------------------------- MODULE ObjectStore -----------------------------
(***************************************************************************)
(* Abstract specification of what one object type's store promises the    *)
(* device (spec sections 3, 4.2, 4.3 step 6 and 4.3 step 7):               *)
(*   - the live objects form a finite map from instance number to name;    *)
(*   - a create adds one fresh instance with its default name, a delete    *)
(*     removes one, a cleanup removes them all;                            *)
(*   - a name write commits only a name that no other object of the device *)
(*     holds, and only when it differs from the current one;               *)
(*   - the device database revision grows by exactly one per object        *)
(*     created, deleted or renamed, and by nothing else.                   *)
(* The detailed module ColorTemperature is checked to implement this one.  *)
(***************************************************************************)
EXTENDS Naturals, FiniteSets

CONSTANTS
    Instances,        (* the instance numbers objects may have             *)
    Names,            (* the names a name write may commit                 *)
    Default_Name(_),  (* the name an object has before any name write      *)
    Other_Names       (* names held by objects of the device's other types *)

VARIABLES
    objects,          (* instance -> object name                           *)
    revision          (* the device database revision                      *)

vars == <<objects, revision>>

Init ==
    /\ objects = [i \in {} |-> Default_Name(i)]
    /\ revision = 0

(* The names every object of the device except instance i holds. *)
NamesOfOthers(i) ==
    Other_Names \cup { objects[j] : j \in DOMAIN objects \ {i} }

Create(i) ==
    /\ i \notin DOMAIN objects
    /\ objects' = [j \in DOMAIN objects \cup {i} |->
                      IF j = i THEN Default_Name(i) ELSE objects[j]]
    /\ revision' = revision + 1

Delete(i) ==
    /\ i \in DOMAIN objects
    /\ objects' = [j \in DOMAIN objects \ {i} |-> objects[j]]
    /\ revision' = revision + 1

Cleanup ==
    /\ objects' = [i \in {} |-> Default_Name(i)]
    /\ revision' = revision + Cardinality(DOMAIN objects)

Rename(i, n) ==
    /\ i \in DOMAIN objects
    /\ n # objects[i]
    /\ n \notin NamesOfOthers(i)
    /\ objects' = [objects EXCEPT ![i] = n]
    /\ revision' = revision + 1

Next ==
    \/ Cleanup
    \/ \E i \in Instances :
          \/ Create(i)
          \/ Delete(i)
          \/ \E n \in Names : Rename(i, n)

Spec == Init /\ [][Next]_vars

=============================================================================
