---------------------------- MODULE LockPromise ----------------------------
(***************************************************************************)
(* What a reference-counted lock promises its users: one of them at a time *)
(* is inside, and the lock exists from its creation until it has no user   *)
(* left, when it goes for good.                                            *)
(***************************************************************************)
CONSTANTS
  Threads,  (* The users of the lock.                                      *)
  Nobody    (* Not a thread: the inside of a lock that nobody holds.       *)

VARIABLES
  exists,   (* "not yet", "yes" or "no more"                               *)
  users,    (* The threads that rely on the lock.                          *)
  inside    (* The thread that holds it.                                   *)

promiseVars == <<exists, users, inside>>

PromiseInit == exists = "not yet" /\ users = {} /\ inside = Nobody

Create ==
  /\ exists = "not yet"
  /\ exists' \in {"yes", "no more"}
  /\ UNCHANGED <<users, inside>>

Join(t) ==
  /\ exists = "yes"
  /\ t \notin users
  /\ users' = users \union {t}
  /\ UNCHANGED <<exists, inside>>

Enter(t) ==
  /\ exists = "yes"
  /\ t \in users
  /\ inside = Nobody
  /\ inside' = t
  /\ UNCHANGED <<exists, users>>

Yield(t) ==
  /\ exists = "yes"
  /\ inside = t
  /\ inside' = Nobody
  /\ UNCHANGED <<exists, users>>

Leave(t) ==
  /\ t \in users
  /\ inside # t
  /\ users' = users \ {t}
  /\ UNCHANGED <<exists, inside>>

Destroy ==
  /\ exists = "yes"
  /\ users = {}
  /\ inside = Nobody
  /\ exists' = "no more"
  /\ UNCHANGED <<users, inside>>

PromiseNext ==
  \/ Create \/ Destroy
  \/ \E t \in Threads : Join(t) \/ Enter(t) \/ Yield(t) \/ Leave(t)

PromiseSpec == PromiseInit /\ [][PromiseNext]_promiseVars
=============================================================================
