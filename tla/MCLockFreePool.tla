---------------------------- MODULE MCLockFreePool ----------------------------
(* LockFreePool with a few nodes and threads. *)
EXTENDS LockFreePool

CONSTANTS a, b, f,   \* threads
          w          \* a word of user data

==============================================================================
