---------------------------- MODULE BufferOwners ----------------------------
(***************************************************************************)
(* What a CBufferManager promises its callers.  Every reference a caller   *)
(* holds is to one buffer, and was obtained by an allocation or by AddRef  *)
(* from another one; a buffer is allocated only while nobody holds a        *)
(* reference to it, so no two owners ever share one without AddRef.         *)
(***************************************************************************)
CONSTANTS
    Buffers,      \* addresses of buffers
    References,   \* names of the references callers may hold at one time
    NULL

VARIABLES
    owner,        \* the buffer a reference is to, NULL if it is not in use
    obtained      \* how it was obtained: "alloc", "addref", or "not"

Init ==
    /\ owner = [r \in References |-> NULL]
    /\ obtained = [r \in References |-> "not"]

Unreferenced(b) == \A r \in References : owner[r] # b

Alloc(r, b) ==
    /\ owner[r] = NULL
    /\ Unreferenced(b)
    /\ owner' = [owner EXCEPT ![r] = b]
    /\ obtained' = [obtained EXCEPT ![r] = "alloc"]

AddRef(r, s) ==
    /\ owner[r] = NULL /\ owner[s] # NULL
    /\ owner' = [owner EXCEPT ![r] = owner[s]]
    /\ obtained' = [obtained EXCEPT ![r] = "addref"]

Release(r) ==
    /\ owner[r] # NULL
    /\ owner' = [owner EXCEPT ![r] = NULL]
    /\ obtained' = [obtained EXCEPT ![r] = "not"]

Next == \E r \in References : \/ \E b \in Buffers : Alloc(r, b)
                              \/ \E s \in References : AddRef(r, s)
                              \/ Release(r)

Spec == Init /\ [][Next]_<<owner, obtained>>
=============================================================================
