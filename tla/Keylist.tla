------------------------------- MODULE Keylist -------------------------------
(***************************************************************************)
(* The ordered key list (OS_Keylist, bacnet/basic/sys/keylist.h) that      *)
(* backs every object type's instance table.  Its implementation is not    *)
(* part of the source tree under src/, so these operators are written from *)
(* the specification of the Keyed Object Store (spec section 4.2): the     *)
(* list is a sequence of [key, data] nodes kept in ascending key order.    *)
(*                                                                         *)
(* A list is a sequence of records [key |-> k, data |-> d]; NULL stands    *)
(* for an absent data pointer.  Indices given to and returned by the C     *)
(* functions are 0-based, the sequence is 1-based.                         *)
(***************************************************************************)
LOCAL INSTANCE Naturals
LOCAL INSTANCE Sequences
LOCAL INSTANCE SequencesExt
LOCAL INSTANCE FiniteSetsExt

CONSTANT NULL

(* The set of keys held by list. *)
Keylist_Keys(list) == { list[i].key : i \in DOMAIN list }

(* Keylist_Count: the number of nodes. *)
Keylist_Count(list) == Len(list)

(* Keylist_Data: the data stored under key, or NULL when key is absent. *)
Keylist_Data(list, key) ==
    IF key \in Keylist_Keys(list)
    THEN (CHOOSE n \in ToSet(list) : n.key = key).data
    ELSE NULL

(* Keylist_Index: the 0-based position of key; Keylist_Count when absent  *)
(* (the value Color_Temperature_Instance_To_Index documents).             *)
Keylist_Index(list, key) ==
    IF key \in Keylist_Keys(list)
    THEN (CHOOSE i \in DOMAIN list : list[i].key = key) - 1
    ELSE Len(list)

(* Keylist_Key: the key at a 0-based index < Keylist_Count. *)
Keylist_Key(list, index) == list[index + 1].key

(* Keylist_Data_Add: insert a node so that keys stay in ascending order.  *)
(* The node goes after every node with a smaller key.                     *)
Keylist_Data_Add(list, key, data) ==
    LET pos == Cardinality({ k \in Keylist_Keys(list) : k < key }) + 1
    IN  InsertAt(list, pos, [key |-> key, data |-> data])

(* Keylist_Data_Delete: the list without the node of key (unchanged when  *)
(* key is absent).                                                        *)
Keylist_Data_Delete(list, key) ==
    SelectSeq(list, LAMBDA n : n.key # key)

(* Keylist_Data_Pop: the list without its last node. *)
Keylist_Data_Pop(list) == Front(list)

(* Keylist_Next_Empty_Key: the lowest key >= key that no node holds.      *)
(* Among key .. key + Count at least one key is free.                     *)
Keylist_Next_Empty_Key(list, key) ==
    Min({ k \in key .. key + Len(list) : k \notin Keylist_Keys(list) })

=============================================================================
