------------------------------ MODULE PagePool ------------------------------
(***************************************************************************)
(* What any KV-cache layout promises about its pages (the KvCache          *)
(* interface of include/serving/kv_cache.hpp), without saying how: a page  *)
(* is free, or held by requests, or kept for reuse by the prefix cache, or *)
(* both.  A request only ever gets pages that are free or that are kept;   *)
(* a page is only evicted when nobody holds it; and a request that leaves  *)
(* gives back all it held.                                                 *)
(*                                                                         *)
(* PagedKvCache and ContiguousKvCache each implement this specification.   *)
(***************************************************************************)
CONSTANTS
  Request,   \* the requests that may hold pages
  Page       \* the physical pages

VARIABLES
  holders,   \* the requests that hold each page
  kept       \* the pages that the prefix cache keeps

poolVars == <<holders, kept>>

Unheld == {p \in Page : holders[p] = {}}

Init ==
  /\ holders = [p \in Page |-> {}]
  /\ kept = {}

Evictable == kept \cap Unheld

\* One call for request r (admit or append_tokens): it evicts some pages that
\* are kept but not held, shares some of the pages that stay kept, and takes
\* some of those that are free now.
Acquire(r) ==
  \E evicted \in SUBSET Evictable :
    LET staying == kept \ evicted
    IN  \E shared \in SUBSET staying, taken \in SUBSET (Unheld \ staying) :
          /\ kept' = staying
          /\ holders' = [p \in Page |->
                           IF p \in shared \cup taken THEN holders[p] \cup {r}
                           ELSE holders[p]]

\* A page that r holds is kept for others (cache_completed_prompt_block).
Keep(r, p) ==
  /\ r \in holders[p]
  /\ kept' = kept \cup {p}
  /\ UNCHANGED holders

\* r leaves (release).
GiveBack(r) ==
  /\ holders' = [p \in Page |-> holders[p] \ {r}]
  /\ UNCHANGED kept

Next ==
  \E r \in Request :
    \/ Acquire(r)
    \/ \E p \in Page : Keep(r, p)
    \/ GiveBack(r)

Spec == Init /\ [][Next]_poolVars

-----------------------------------------------------------------------------
(* Properties *)

\* A page that two requests hold is in the prefix cache: there is no other way
\* for two requests to come by the same page, and it stays there while they
\* hold it.
SharedPagesAreKept ==
  \A p \in Page : \A q, r \in holders[p] : q # r => p \in kept
=============================================================================
