------------------------- MODULE ContiguousKvCache -------------------------
(***************************************************************************)
(* The baseline allocator of src/kv_cache.cpp: class ContiguousKvCache,    *)
(* which reserves one physical run for prompt and max_new_tokens at        *)
(* admission, with the part of each RequestRuntime its methods use and the *)
(* order in which the simulator may call them.                             *)
(*                                                                         *)
(* Abstractions.                                                           *)
(*  - Only the length of a prompt matters here (`size').                   *)
(*  - cache_completed_prompt_block does nothing and has no step; a release *)
(*    that follows the last token is part of the step of that token.       *)
(*  - An admit that finds no run (TemporarilyUnavailable) changes nothing   *)
(*    and has no step.                                                     *)
(*  - append_tokens never returns false (AppendsAlwaysFit); its failure,   *)
(*    which the caller turns into an exception or a rejection, has no      *)
(*    step: a state in which it would happen is a deadlock.                *)
(*  - Entries of a block table are numbered from 1.                        *)
(***************************************************************************)
EXTENDS Integers, Sequences, FiniteSets, BlockArithmetic

CONSTANTS
  Request,        \* the requests of the workload
  PromptSizes,    \* the prompt lengths they may have
  MaxNewTokens,   \* max_new_tokens of every request
  BlockTokens,    \* ModelConfig::block_tokens
  TotalBlocks     \* ModelConfig::total_blocks

ASSUME PromptSizesAssumption == PromptSizes \subseteq Nat
ASSUME SizesAssumption ==
  /\ MaxNewTokens \in Nat \ {0}
  /\ BlockTokens \in Nat \ {0}
  /\ TotalBlocks \in Nat \ {0}

VARIABLES
  owned,    \* Block::owned
  used,     \* Block::used_tokens
  size,     \* prompt_tokens() of each request
  table,    \* block_table
  stored,   \* stored_tokens
  status    \* where the request stands (phase; Active is Prefill or Decode)

vars == <<owned, used, size, table, stored, status>>

Block == 0 .. TotalBlocks - 1

Phases == {"Queued", "Active", "Finished", "Rejected"}

TotalTokens(r) == size[r] + MaxNewTokens

\* Mutant of Needed: the last, partial block is not counted.
NeededWhole(r) == TotalTokens(r) \div BlockTokens

Needed(r)      == CeilDiv(TotalTokens(r), BlockTokens)

-----------------------------------------------------------------------------

Init ==
  /\ owned = [b \in Block |-> FALSE]
  /\ used = [b \in Block |-> 0]
  /\ size \in [Request -> PromptSizes]
  /\ table = [r \in Request |-> <<>>]
  /\ stored = [r \in Request |-> 0]
  /\ status = [r \in Request |-> "Queued"]

-----------------------------------------------------------------------------
(* admit *)

\* Mutant of IsFreeRun: the block after the run is not looked at.
IsAlmostFreeRun(b, n) ==
  b + n <= TotalBlocks /\ \A c \in b .. b + n - 2 : ~owned[c]

IsFreeRun(b, n) ==
  b + n <= TotalBlocks /\ \A c \in b .. b + n - 1 : ~owned[c]

AdmitImpossible(r) ==
  /\ status[r] = "Queued"
  /\ Needed(r) > TotalBlocks
  /\ status' = [status EXCEPT ![r] = "Rejected"]
  /\ UNCHANGED <<owned, used, size, table, stored>>

\* The first run that is long enough is taken, from its first block.
Admit(r) ==
  /\ status[r] = "Queued"
  /\ \E b \in Block :
       /\ IsFreeRun(b, Needed(r))
       /\ \A c \in 0 .. b - 1 : ~IsFreeRun(c, Needed(r))
       /\ owned' = [c \in Block |-> owned[c] \/ c \in b .. b + Needed(r) - 1]
       /\ table' = [table EXCEPT ![r] = [i \in 1 .. Needed(r) |-> b + i - 1]]
  /\ status' = [status EXCEPT ![r] = "Active"]
  /\ UNCHANGED <<used, size, stored>>

\* The caller gives up on a request it has not admitted (TTFT SLO).
Expire(r) ==
  /\ status[r] = "Queued"
  /\ status' = [status EXCEPT ![r] = "Rejected"]
  /\ UNCHANGED <<owned, used, size, table, stored>>

-----------------------------------------------------------------------------
(* append_tokens and release *)

AppendFits(r, n) == stored[r] + n <= Len(table[r]) * BlockTokens

\* Entry i of the table, holding token offsets from (i-1)*BlockTokens on, after
\* all tokens up to the given count were stored.
FilledTo(i, count) == Least(BlockTokens, count - (i - 1) * BlockTokens)

WrittenEntries(r, n) == stored[r] \div BlockTokens + 1 .. CeilDiv(stored[r] + n, BlockTokens)

UsedAfter(r, n) ==
  [b \in Block |->
     IF \E i \in WrittenEntries(r, n) : table[r][i] = b
     THEN LET i == CHOOSE i \in WrittenEntries(r, n) : table[r][i] = b
          IN  Greatest(used[b], FilledTo(i, stored[r] + n))
     ELSE used[b]]

Prefill(r, n) ==
  /\ status[r] = "Active" /\ stored[r] + n <= size[r]
  /\ AppendFits(r, n)
  /\ used' = UsedAfter(r, n)
  /\ stored' = [stored EXCEPT ![r] = @ + n]
  /\ UNCHANGED <<owned, size, table, status>>

Decode(r) ==
  /\ status[r] = "Active" /\ stored[r] >= size[r]
  /\ stored[r] + 1 < TotalTokens(r)
  /\ AppendFits(r, 1)
  /\ used' = UsedAfter(r, 1)
  /\ stored' = [stored EXCEPT ![r] = @ + 1]
  /\ UNCHANGED <<owned, size, table, status>>

Blocks(r) == {table[r][i] : i \in DOMAIN table[r]}

\* The last token: the caller releases the request, and every block of its
\* table is reset.
DecodeLast(r) ==
  /\ status[r] = "Active" /\ stored[r] >= size[r]
  /\ AppendFits(r, 1)
  /\ owned' = [b \in Block |-> owned[b] /\ b \notin Blocks(r)]
  /\ used' = [b \in Block |-> IF b \in Blocks(r) THEN 0 ELSE UsedAfter(r, 1)[b]]
  /\ table' = [table EXCEPT ![r] = <<>>]
  /\ stored' = [stored EXCEPT ![r] = @ + 1]
  /\ status' = [status EXCEPT ![r] = "Finished"]
  /\ UNCHANGED size

-----------------------------------------------------------------------------
(* The specification *)

Terminated ==
  /\ \A r \in Request : status[r] \in {"Finished", "Rejected"}
  /\ UNCHANGED vars

Next ==
  \/ \E r \in Request :
       \/ AdmitImpossible(r) \/ Admit(r) \/ Expire(r)
       \/ \E n \in 1 .. size[r] : Prefill(r, n)
       \/ Decode(r) \/ DecodeLast(r)
  \/ Terminated

Spec == Init /\ [][Next]_vars

-----------------------------------------------------------------------------
(* stats *)

\* Mutant of FreeRunAt: an owned block does not end the run.
FreeRunUnbroken ==
  LET run[b \in Block] ==
        (IF owned[b] THEN 0 ELSE 1) + IF b = 0 THEN 0 ELSE run[b - 1]
  IN  run

\* The loop over the blocks: current_free_run at each block, 0 where it is owned.
FreeRunAt ==
  LET run[b \in Block] ==
        IF owned[b] THEN 0 ELSE 1 + IF b = 0 THEN 0 ELSE run[b - 1]
  IN  run

LargestFreeRun ==
  LET lengths == {FreeRunAt[b] : b \in Block}
  IN  CHOOSE n \in lengths : \A m \in lengths : m <= n

-----------------------------------------------------------------------------
(* Properties *)

\* Every variable has its type; a block never counts more tokens than it has
\* room for.
TypeOK ==
  /\ owned \in [Block -> BOOLEAN]
  /\ used \in [Block -> 0 .. BlockTokens]
  /\ size \in [Request -> PromptSizes]
  /\ table \in [Request -> Seq(Block)]
  /\ stored \in [Request -> Nat]
  /\ status \in [Request -> Phases]

\* The blocks of a request are one physical run that is long enough for all it
\* may ever store; only active requests have one.
IsRun(t) == \A i \in DOMAIN t : t[i] = t[1] + i - 1
RunsInShape ==
  \A r \in Request :
    /\ status[r] = "Queued" => stored[r] = 0
    /\ IF status[r] = "Active"
       THEN Len(table[r]) = Needed(r) /\ IsRun(table[r]) /\ stored[r] < TotalTokens(r)
       ELSE table[r] = <<>>

\* No block is in two runs, and a block is owned exactly when it is in one:
\* first fit never overlaps two runs and a release frees what was taken
\* (kv_cache.cpp:273-291, 317-324).
RunsAreDisjoint ==
  \A q, r \in Request : q # r => Blocks(q) \cap Blocks(r) = {}
OwnedIsInARun ==
  \A b \in Block : owned[b] <=> \E r \in Request : b \in Blocks(r)
OwnershipExact == RunsAreDisjoint /\ OwnedIsInARun

\* append_tokens never fails after admission, in prefill or in decode: the whole
\* sequence was reserved ("Contiguous allocation reserves one physical run for
\* prompt plus max_new_tokens at admission", README.md:218-219), so that the
\* loop of kv_cache.cpp:297-310 never stops half way with tokens stored.
AppendsAlwaysFit ==
  \A r \in Request : status[r] = "Active" =>
    \A n \in 1 .. TotalTokens(r) - stored[r] : AppendFits(r, n)

\* The allocator is a page pool: what it grants was free, and what a request
\* leaves is free again.
Holding == [b \in Block |-> {r \in Request : b \in Blocks(r)}]
Pool == INSTANCE PagePool WITH Page <- Block, holders <- Holding, kept <- {}
ImplementsPool == Pool!Spec

\* The inductive invariant of ContiguousKvCache_proofs.
ContiguousInv == TypeOK /\ RunsInShape /\ OwnershipExact

\* Admission and the fragmentation metric agree: a request finds a run exactly
\* when it needs no more than the largest free run that stats() reports
\* (kv_cache.cpp:273-291 and 330-343).
AdmitsWhatTheLargestRunHolds ==
  \A r \in Request :
    (\E b \in Block : IsFreeRun(b, Needed(r))) <=> Needed(r) <= LargestFreeRun
=============================================================================
