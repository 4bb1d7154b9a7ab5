------------------------------ MODULE Library ------------------------------
(***************************************************************************)
(* What the video component promises: a video is listed only once its file *)
(* is completely stored, stored files and listed videos stay, and the      *)
(* number of views of a listed video grows by one at a time.  VideoLibrary *)
(* implements it.                                                          *)
(***************************************************************************)
EXTENDS Naturals

CONSTANT Ids          \* video identities (uuid primary keys)

VARIABLES stored,     \* ids whose file is complete
          listed,     \* ids a reader can find
          views       \* views[id]: the download counter

vars == <<stored, listed, views>>

Init == /\ stored = {}
        /\ listed = {}
        /\ views = [id \in Ids |-> 0]

Store(id) == stored' = stored \cup {id} /\ UNCHANGED <<listed, views>>

List(id) == /\ id \in stored \ listed
            /\ listed' = listed \cup {id}
            /\ UNCHANGED <<stored, views>>

View(id) == /\ id \in listed
            /\ views' = [views EXCEPT ![id] = @ + 1]
            /\ UNCHANGED <<stored, listed>>

Next == \E id \in Ids : Store(id) \/ List(id) \/ View(id)

Spec == Init /\ [][Next]_vars
=============================================================================
