------------------------------ MODULE TopMirror ------------------------------
(***************************************************************************)
(* What images/protected-publish promises of the top-level mirror of a     *)
(* protected ref: good binaries only, each hash published once and for     *)
(* all, and an index that lists what was there when it was rebuilt.        *)
(***************************************************************************)
CONSTANTS Hashes,   \* spec hashes
          Good,     \* the binaries that may be published
          None      \* "not published"

VARIABLES binary,   \* binary[h]: what the top-level mirror serves for h
          index     \* the hashes listed by its index

vars == <<binary, index>>

Published == {h \in Hashes : binary[h] # None}

Init == binary = [h \in Hashes |-> None] /\ index = {}

Publish(h) ==
    /\ binary[h] = None
    /\ \E b \in Good : binary' = [binary EXCEPT ![h] = b]
    /\ UNCHANGED index

Reindex == index' = Published /\ UNCHANGED binary

Next == Reindex \/ \E h \in Hashes : Publish(h)

Spec == Init /\ [][Next]_vars
=============================================================================
