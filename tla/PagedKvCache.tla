---------------------------- MODULE PagedKvCache ----------------------------
(***************************************************************************)
(* The paged KV-cache allocator of src/kv_cache.cpp: class PagedKvCache,   *)
(* together with the part of each RequestRuntime that its methods read and *)
(* write, and the order in which the simulator may call them.              *)
(*                                                                         *)
(* Every action is one call of a method of the KvCache interface, with     *)
(* what the caller does to the request before it makes another call.  A    *)
(* handler of the caller that makes several calls (a prefill append, then  *)
(* one caching call per block it completed; a last decode append, then a   *)
(* release) leaves the calls it still owes in `calls', and no other call   *)
(* is made before they are.                                                *)
(*                                                                         *)
(* Abstractions.                                                           *)
(*  - The 64-bit hash of a prompt block is the sequence of its tokens: the *)
(*    hash function reads nothing else, and two contents never collide.    *)
(*  - Block::last_used is compared and never otherwise read, and every     *)
(*    write of it takes a fresh value of clock_; `older' is the order of   *)
(*    those values (blocks never touched all hold 0 and are not ordered).  *)
(*  - prefetched_tokens and generated_tokens are stored_tokens split at    *)
(*    the end of the prompt, see Prefetched and Generated.                 *)
(*  - Entries of a block table are numbered from 1.                        *)
(***************************************************************************)
EXTENDS Integers, Sequences, FiniteSets, BlockArithmetic

CONSTANTS
  Request,              \* the requests of the workload
  Token,                \* the tokens of prompts
  Prompts,              \* the prompts (sequences of tokens) they may carry
  MaxNewTokens,         \* max_new_tokens of every request
  BlockTokens,          \* ModelConfig::block_tokens
  TotalBlocks,          \* ModelConfig::total_blocks
  PrefixCacheEnabled    \* ServiceConfig::prefix_cache_enabled

ASSUME RequestAssumption == IsFiniteSet(Request)
ASSUME PromptsAssumption == Prompts \subseteq Seq(Token)
ASSUME SizesAssumption ==
  /\ MaxNewTokens \in Nat \ {0}
  /\ BlockTokens \in Nat \ {0}
  /\ TotalBlocks \in Nat \ {0}
ASSUME PrefixCacheAssumption == PrefixCacheEnabled \in BOOLEAN

VARIABLES
  free,         \* free_block_ids_: a stack, popped from its end
  refs,         \* Block::request_refs
  used,         \* Block::used_tokens
  pinned,       \* Block::cache_pinned
  older,        \* the order of Block::last_used
  cacheIndex,   \* cache_index_
  reserved,     \* reserved_unmaterialized_
  prompt,       \* spec.prompt_tokens of each request
  table,        \* block_table
  stored,       \* stored_tokens
  hitTokens,    \* prefix_hit_tokens
  promised,     \* reserved_blocks
  status,       \* where the request stands (phase, see Phases)
  calls         \* the calls the handler in progress still has to make

cacheVars   == <<free, refs, used, pinned, older, cacheIndex, reserved>>
requestVars == <<prompt, table, stored, hitTokens, promised, status>>
vars        == <<cacheVars, requestVars, calls>>

-----------------------------------------------------------------------------
(* Values *)

Block   == 0 .. TotalBlocks - 1
NoBlock == -1

\* "Active" is Prefill while the prompt is not stored, then Decode.
Phases == {"Queued", "Active", "Finished", "Rejected"}

\* The content of the i-th block of a prompt, which is what is hashed.
BlockContent(p, i) == SubSeq(p, (i - 1) * BlockTokens + 1, i * BlockTokens)
Contents ==
  UNION {{BlockContent(p, i) : i \in 1 .. Len(p) \div BlockTokens} : p \in Prompts}

\* A workload is finite.
ASSUME ContentsAssumption == IsFiniteSet(Contents)

CacheCall(r, i) == [op |-> "cache", request |-> r, block |-> i]
ReleaseCall(r)  == [op |-> "release", request |-> r, block |-> 0]
Calls == [op : {"cache", "release"}, request : Request, block : Nat]

PromptBlocks(r)         == CeilDiv(Len(prompt[r]), BlockTokens)
CompletePromptBlocks(r) == Len(prompt[r]) \div BlockTokens
Prefetched(r)           == Least(stored[r], Len(prompt[r]))
Generated(r)            == stored[r] - Prefetched(r)
IsPrefilling(r)         == status[r] = "Active" /\ stored[r] < Len(prompt[r])
IsDecoding(r)           == status[r] = "Active" /\ stored[r] >= Len(prompt[r])

-----------------------------------------------------------------------------
(* Eviction *)

\* Mutant of Idle: the request_refs == 0 test of the eviction loop is dropped.
IdleIgnoringRefs == {h \in Contents : cacheIndex[h] # NoBlock}

\* Cache entries whose block no request references: what may be evicted.
Idle == {h \in Contents : cacheIndex[h] # NoBlock /\ refs[cacheIndex[h]] = 0}

\* Mutant of CanEnsure: capacity is compared without what is reserved.
CanEnsureUnreserved(blocks) == Len(free) + Cardinality(Idle) >= blocks

CanEnsure(blocks) == Len(free) + Cardinality(Idle) >= reserved + blocks

\* How many entries ensure_capacity evicts before it stops: as many as are
\* missing, or all of them when that is not enough.
EvictionCount(blocks) ==
  Least(Monus(reserved + blocks, Len(free)), Cardinality(Idle))

\* The orders in which that many entries can be evicted, the least recently
\* used of those that are left each time.
Evictions(blocks) ==
  {o \in [1 .. EvictionCount(blocks) -> Idle] :
     \A i \in DOMAIN o :
       /\ \A j \in DOMAIN o : i # j => o[i] # o[j]
       /\ \A h \in Idle \ {o[j] : j \in 1 .. i - 1} :
            <<cacheIndex[h], cacheIndex[o[i]]>> \notin older}

\* Mutants of IndexAfter: an eviction forgets to erase the entry, or clears the
\* whole index.
IndexNotErased(o) == cacheIndex
IndexCleared(o) == [h \in Contents |-> IF o = <<>> THEN cacheIndex[h] ELSE NoBlock]

\* What the entries evicted in the order o leave behind.
EvictedBlocks(o) == {cacheIndex[o[i]] : i \in DOMAIN o}
FreeAfter(o)     == free \o [i \in DOMAIN o |-> cacheIndex[o[i]]]
UsedAfter(o)     == [b \in Block |-> IF b \in EvictedBlocks(o) THEN 0 ELSE used[b]]
PinnedAfter(o)   == [b \in Block |-> pinned[b] /\ b \notin EvictedBlocks(o)]
IndexAfter(o)    ==
  [h \in Contents |-> IF \E i \in DOMAIN o : o[i] = h THEN NoBlock ELSE cacheIndex[h]]

\* An ensure_capacity that fails has evicted every idle entry all the same.
FailedEnsure(blocks) ==
  /\ ~CanEnsure(blocks)
  /\ \E o \in Evictions(blocks) :
       /\ free' = FreeAfter(o)
       /\ used' = UsedAfter(o)
       /\ pinned' = PinnedAfter(o)
       /\ cacheIndex' = IndexAfter(o)
  /\ UNCHANGED <<refs, older, reserved>>

\* The order of last_used after the blocks of a sequence were touched in turn.
LastTouch(touches) ==
  [b \in Block |-> CHOOSE i \in 0 .. Len(touches) :
                     /\ i > 0 => touches[i] = b
                     /\ \A j \in i + 1 .. Len(touches) : touches[j] # b]
Touched(touches) ==
  LET at == LastTouch(touches)
  IN  {e \in Block \X Block :
         IF at[e[1]] = 0 /\ at[e[2]] = 0 THEN e \in older ELSE at[e[1]] < at[e[2]]}

-----------------------------------------------------------------------------
(* The initial state: an empty cache and a workload of arbitrary prompts. *)

Init ==
  /\ free = [i \in 1 .. TotalBlocks |-> TotalBlocks - i]
  /\ refs = [b \in Block |-> 0]
  /\ used = [b \in Block |-> 0]
  /\ pinned = [b \in Block |-> FALSE]
  /\ older = {}
  /\ cacheIndex = [h \in Contents |-> NoBlock]
  /\ reserved = 0
  /\ prompt \in [Request -> Prompts]
  /\ table = [r \in Request |-> <<>>]
  /\ stored = [r \in Request |-> 0]
  /\ hitTokens = [r \in Request |-> 0]
  /\ promised = [r \in Request |-> 0]
  /\ status = [r \in Request |-> "Queued"]
  /\ calls = <<>>

-----------------------------------------------------------------------------
(* admit *)

IsHit(r, i) ==
  LET b == cacheIndex[BlockContent(prompt[r], i)]
  IN  b # NoBlock /\ pinned[b]

\* The lookup stops at the first complete block that is not cached.
IsHitRun(r, hits) ==
  IF PrefixCacheEnabled
  THEN /\ \A i \in 1 .. hits : IsHit(r, i)
       /\ hits < CompletePromptBlocks(r) => ~IsHit(r, hits + 1)
  ELSE hits = 0

\* Mutants of HitRefs and HitTokens: a hit forgets its reference, or leaves the
\* last token of the prefix to be computed again.
HitRefsForgotten(r, hits, b) == 0
HitTokensLessOne(hits) == IF hits = 0 THEN 0 ELSE hits * BlockTokens - 1

HitBlocks(r, hits) == [i \in 1 .. hits |-> cacheIndex[BlockContent(prompt[r], i)]]

HitRefs(r, hits, b) == Cardinality({i \in 1 .. hits : HitBlocks(r, hits)[i] = b})
HitTokens(hits) == hits * BlockTokens

AdmitImpossible(r) ==
  /\ calls = <<>> /\ status[r] = "Queued"
  /\ PromptBlocks(r) > TotalBlocks
  /\ status' = [status EXCEPT ![r] = "Rejected"]
  /\ UNCHANGED <<cacheVars, prompt, table, stored, hitTokens, promised, calls>>

\* The caller gives up on requests it has not admitted, without a call.
Expire(S) ==
  /\ calls = <<>>
  /\ S # {} /\ \A r \in S : status[r] = "Queued"
  /\ status' = [r \in Request |-> IF r \in S THEN "Rejected" ELSE status[r]]
  /\ UNCHANGED <<cacheVars, prompt, table, stored, hitTokens, promised, calls>>

\* The blocks that hit are looked up before the eviction that makes room for
\* the others, and are not looked at again before they are referenced.
Admit(r, hits) ==
  /\ calls = <<>> /\ status[r] = "Queued"
  /\ PromptBlocks(r) <= TotalBlocks
  /\ IsHitRun(r, hits)
  /\ CanEnsure(PromptBlocks(r) - hits)
  /\ \E o \in Evictions(PromptBlocks(r) - hits) :
       /\ free' = FreeAfter(o)
       /\ used' = UsedAfter(o)
       /\ pinned' = PinnedAfter(o)
       /\ cacheIndex' = IndexAfter(o)
  /\ refs' = [b \in Block |-> refs[b] + HitRefs(r, hits, b)]
  /\ older' = Touched(HitBlocks(r, hits))
  /\ reserved' = reserved + PromptBlocks(r) - hits
  /\ table' = [table EXCEPT ![r] =
                 [i \in 1 .. PromptBlocks(r) |->
                    IF i <= hits THEN HitBlocks(r, hits)[i] ELSE NoBlock]]
  /\ hitTokens' = [hitTokens EXCEPT ![r] = HitTokens(hits)]
  /\ stored' = [stored EXCEPT ![r] = HitTokens(hits)]
  /\ promised' = [promised EXCEPT ![r] = PromptBlocks(r) - hits]
  /\ status' = [status EXCEPT ![r] = "Active"]
  /\ UNCHANGED <<prompt, calls>>

AdmitTemporarilyUnavailable(r, hits) ==
  /\ calls = <<>> /\ status[r] = "Queued"
  /\ PromptBlocks(r) <= TotalBlocks
  /\ IsHitRun(r, hits)
  /\ FailedEnsure(PromptBlocks(r) - hits)
  /\ UNCHANGED <<requestVars, calls>>

-----------------------------------------------------------------------------
(* append_tokens *)

NeededBlocks(r, n) == CeilDiv(stored[r] + n, BlockTokens)
\* Mutant of GrowthBlocks: growth counted from the prompt, not from the table.
GrowthFromPrompt(r, n) == Monus(NeededBlocks(r, n), PromptBlocks(r))
GrowthBlocks(r, n) == Monus(NeededBlocks(r, n), Len(table[r]))

\* Mutant of AppendFits: a sequence may exceed the whole cache.
AppendFitsUnbounded(r, n) ==
  /\ n <= Len(prompt[r]) + MaxNewTokens - stored[r]
  /\ CanEnsure(GrowthBlocks(r, n))

\* When append_tokens(r, n) returns true.
AppendFits(r, n) ==
  /\ n <= Len(prompt[r]) + MaxNewTokens - stored[r]
  /\ NeededBlocks(r, n) <= TotalBlocks
  /\ CanEnsure(GrowthBlocks(r, n))

\* The entries of the table that n more tokens are written to, and those of
\* them that have no block yet.
WrittenEntries(r, n) == stored[r] \div BlockTokens + 1 .. NeededBlocks(r, n)
MissingEntries(r, n) ==
  {i \in WrittenEntries(r, n) : i <= Len(table[r]) => table[r][i] = NoBlock}

\* Mutant of PoppedFor: blocks are read at the bottom of the stack.
PoppedFromBottom(r, n, i, stack) ==
  stack[Cardinality({j \in MissingEntries(r, n) : j <= i})]

\* Each missing entry takes the last block of the free list it finds.
PoppedFor(r, n, i, stack) ==
  stack[Len(stack) + 1 - Cardinality({j \in MissingEntries(r, n) : j <= i})]

TableAfter(r, n, stack) ==
  [i \in 1 .. Len(table[r]) + GrowthBlocks(r, n) |->
     IF i \in MissingEntries(r, n) THEN PoppedFor(r, n, i, stack)
     ELSE IF i <= Len(table[r]) THEN table[r][i] ELSE NoBlock]

AppendTokens(r, n) ==
  /\ AppendFits(r, n)
  /\ \E o \in Evictions(GrowthBlocks(r, n)) :
       LET stack   == FreeAfter(o)
           missing == MissingEntries(r, n)
           after   == TableAfter(r, n, stack)
           first   == stored[r] \div BlockTokens
           last    == NeededBlocks(r, n)
           filled  == (stored[r] + n) - (last - 1) * BlockTokens
       IN  /\ free' = SubSeq(stack, 1, Len(stack) - Cardinality(missing))
           /\ table' = [table EXCEPT ![r] = after]
           /\ refs' = [b \in Block |-> IF \E i \in missing : after[i] = b THEN 1 ELSE refs[b]]
           /\ used' = [b \in Block |->
                IF \E i \in WrittenEntries(r, n) \ {last} : after[i] = b THEN BlockTokens
                ELSE IF after[last] = b THEN Greatest(filled, UsedAfter(o)[b])
                ELSE UsedAfter(o)[b]]
           /\ older' = Touched([k \in 1 .. last - first |-> after[first + k]])
           /\ pinned' = PinnedAfter(o)
           /\ cacheIndex' = IndexAfter(o)
           /\ LET kept == Least(promised[r], Cardinality(missing))
              IN  /\ promised' = [promised EXCEPT ![r] = @ - kept]
                  /\ reserved' = reserved - kept
  /\ stored' = [stored EXCEPT ![r] = @ + n]
  /\ UNCHANGED <<prompt, hitTokens>>

\* A prefill chunk; complete_iteration then offers every block of the prompt
\* that the chunk completed to the prefix cache.
AppendPrefill(r, n) ==
  /\ calls = <<>> /\ IsPrefilling(r)
  /\ stored[r] + n <= Len(prompt[r])
  /\ AppendTokens(r, n)
  /\ LET first == stored[r] \div BlockTokens
         end   == (stored[r] + n) \div BlockTokens
     IN  calls' = [k \in 1 .. end - first |-> CacheCall(r, first + k)]
  /\ UNCHANGED status

\* A decode token.  The caller releases the request when it was the last one,
\* which only the caller knows (actual_output_tokens <= max_new_tokens).
AppendDecode(r, last) ==
  /\ calls = <<>> /\ IsDecoding(r)
  /\ AppendTokens(r, 1)
  /\ Generated(r) + 1 = MaxNewTokens => last
  /\ status' = IF last THEN [status EXCEPT ![r] = "Finished"] ELSE status
  /\ calls' = IF last THEN <<ReleaseCall(r)>> ELSE <<>>

\* A decode token that needs a page when none can be had: the request is
\* rejected in mid-decode.  Nothing is evicted when the sequence would exceed
\* the whole cache.
GrowthExhausted(r) ==
  /\ calls = <<>> /\ IsDecoding(r)
  /\ ~AppendFits(r, 1)
  /\ IF NeededBlocks(r, 1) > TotalBlocks
     THEN UNCHANGED cacheVars
     ELSE FailedEnsure(GrowthBlocks(r, 1))
  /\ status' = [status EXCEPT ![r] = "Rejected"]
  /\ calls' = <<ReleaseCall(r)>>
  /\ UNCHANGED <<prompt, table, stored, hitTokens, promised>>

-----------------------------------------------------------------------------
(* cache_completed_prompt_block *)

\* Without the prefix cache the call returns at once; a content that is already
\* cached, in this block or in another, is only touched.
CacheRefresh ==
  /\ calls # <<>> /\ Head(calls).op = "cache"
  /\ LET r == Head(calls).request
         h == BlockContent(prompt[r], Head(calls).block)
     IN  IF PrefixCacheEnabled
         THEN cacheIndex[h] # NoBlock /\ older' = Touched(<<cacheIndex[h]>>)
         ELSE UNCHANGED older
  /\ calls' = Tail(calls)
  /\ UNCHANGED <<free, refs, used, pinned, cacheIndex, reserved, requestVars>>

CacheInsert ==
  /\ calls # <<>> /\ Head(calls).op = "cache"
  /\ PrefixCacheEnabled
  /\ LET r == Head(calls).request
         h == BlockContent(prompt[r], Head(calls).block)
         b == table[r][Head(calls).block]
     IN  /\ cacheIndex[h] = NoBlock
         /\ pinned' = [pinned EXCEPT ![b] = TRUE]
         /\ cacheIndex' = [cacheIndex EXCEPT ![h] = b]
         /\ older' = Touched(<<b>>)
  /\ calls' = Tail(calls)
  /\ UNCHANGED <<free, refs, used, reserved, requestVars>>

-----------------------------------------------------------------------------
(* release *)

Occurrences(r, b, i) == Cardinality({j \in 1 .. i : table[r][j] = b})

\* Mutant of FreedEntries: a release frees only blocks that had no reference
\* before it.
FreedOnlyUnreferenced(r) ==
  {i \in DOMAIN table[r] :
     table[r][i] # NoBlock /\ ~pinned[table[r][i]] /\ refs[table[r][i]] = 0}

\* The entries whose turn in the loop finds no reference left and no pin.
FreedEntries(r) ==
  {i \in DOMAIN table[r] :
     LET b == table[r][i]
     IN  b # NoBlock /\ ~pinned[b] /\ Occurrences(r, b, i) >= refs[b]}

InOrder(S) ==
  {o \in [1 .. Cardinality(S) -> S] : \A i, j \in DOMAIN o : i < j => o[i] < o[j]}

Release ==
  /\ calls # <<>> /\ Head(calls).op = "release"
  /\ LET r == Head(calls).request
         freed == {table[r][i] : i \in FreedEntries(r)}
     IN  /\ \E o \in InOrder(FreedEntries(r)) :
              free' = free \o [k \in DOMAIN o |-> table[r][o[k]]]
         /\ refs' = [b \in Block |->
                       Monus(refs[b], Occurrences(r, b, Len(table[r])))]
         /\ used' = [b \in Block |-> IF b \in freed THEN 0 ELSE used[b]]
         /\ reserved' = reserved - promised[r]
         /\ promised' = [promised EXCEPT ![r] = 0]
         /\ table' = [table EXCEPT ![r] = <<>>]
  /\ calls' = Tail(calls)
  /\ UNCHANGED <<pinned, older, cacheIndex, prompt, stored, hitTokens, status>>

-----------------------------------------------------------------------------
(* The specification *)

AdmitCall(r) ==
  \/ AdmitImpossible(r)
  \/ \E hits \in 0 .. CompletePromptBlocks(r) :
       \/ Admit(r, hits)
       \/ AdmitTemporarilyUnavailable(r, hits)

AppendCall(r) ==
  \/ \E n \in 1 .. Len(prompt[r]) : AppendPrefill(r, n)
  \/ \E last \in BOOLEAN : AppendDecode(r, last)
  \/ GrowthExhausted(r)

\* The run ends when every request is finished or rejected.
Terminated ==
  /\ calls = <<>>
  /\ \A r \in Request : status[r] \in {"Finished", "Rejected"}
  /\ UNCHANGED vars

Next ==
  \/ \E r \in Request : AdmitCall(r) \/ AppendCall(r)
  \/ \E S \in SUBSET Request : Expire(S)
  \/ CacheRefresh \/ CacheInsert
  \/ Release
  \/ Terminated

Spec == Init /\ [][Next]_vars

-----------------------------------------------------------------------------
(* KvCache::stats, as far as the properties below read it *)

ActiveBlocks    == {b \in Block : refs[b] > 0}
CachedBlocks    == {b \in Block : pinned[b]}
AllocatedBlocks == ActiveBlocks \cup CachedBlocks

\* The entries of a block table, and of all tables, that name a page or wait for
\* one (NoBlock).
EntriesIn(t, b) == {i \in DOMAIN t : t[i] = b}
EntriesOf(tables, b) ==
  {e \in Request \X (1 .. TotalBlocks) :
     e[2] \in DOMAIN tables[e[1]] /\ tables[e[1]][e[2]] = b}

FreePages  == {free[i] : i \in DOMAIN free}
Held(r)    == {table[r][i] : i \in DOMAIN table[r]} \ {NoBlock}
Holders(b) == EntriesOf(table, b)

-----------------------------------------------------------------------------
(* Properties *)

\* Every variable has its type; in particular a page never counts more tokens
\* than it has room for (kv_cache.cpp:121) and a table never has more entries
\* than the cache has blocks (kv_cache.cpp:26 and 90).
TypeOK ==
  /\ free \in Seq(Block)
  /\ refs \in [Block -> Nat]
  /\ used \in [Block -> 0 .. BlockTokens]
  /\ pinned \in [Block -> BOOLEAN]
  /\ older \subseteq Block \X Block
  /\ cacheIndex \in [Contents -> Block \cup {NoBlock}]
  /\ reserved \in Nat
  /\ prompt \in [Request -> Prompts]
  /\ table \in [Request -> Seq(Block \cup {NoBlock})]
  /\ \A r \in Request : Len(table[r]) <= TotalBlocks
  /\ stored \in [Request -> Nat]
  /\ hitTokens \in [Request -> Nat]
  /\ promised \in [Request -> Nat]
  /\ status \in [Request -> Phases]
  /\ calls \in Seq(Calls)

\* The entries that wait for their page.
WaitingIn(t)           == EntriesIn(t, NoBlock)
WaitingEntries(tables) == EntriesOf(tables, NoBlock)

\* reserved_unmaterialized_ is exactly the number of block-table entries that
\* still wait for their page, over all requests, each request's share is its
\* reserved_blocks, and the free list always holds a page for each of them:
\* neither decode growth, nor another admission, nor an eviction in between can
\* take a page that admission promised to a prompt (kv_cache.cpp:70, 97, 112).
ReservationsHonoured ==
  /\ reserved = Cardinality(WaitingEntries(table))
  /\ \A r \in Request : promised[r] = Cardinality(WaitingIn(table[r]))
  /\ reserved <= Len(free)

\* A prefill chunk of an admitted request never fails, whatever ran since its
\* admission, and never pops an empty free list: "KV cache ran out of reserved
\* blocks during prefill" (simulator.cpp:290-293) is unreachable.
PrefillNeverFails ==
  \A r \in Request : IsPrefilling(r) =>
    \A n \in 1 .. Len(prompt[r]) - stored[r] :
      /\ AppendFits(r, n)
      /\ GrowthBlocks(r, n) = 0
      /\ Cardinality(MissingEntries(r, n)) <= Len(free)

\* Why the two above hold: a table has its pages in front and waits for the
\* rest, it never reaches beyond the prompt before the prompt is stored nor
\* beyond the stored tokens afterwards, and the blocks offered to the prefix
\* cache have their page (so kv_cache.cpp:131 and 135 never return early).
HasShape(r) ==
  LET full == CeilDiv(stored[r], BlockTokens)
  IN  /\ \A i \in DOMAIN table[r] : table[r][i] = NoBlock <=> i > full
      /\ Len(table[r]) = Greatest(full, PromptBlocks(r))
      /\ promised[r] = Len(table[r]) - full
IsEmptyHanded(r) == table[r] = <<>> /\ promised[r] = 0

RequestInShape(r) ==
  /\ status[r] = "Queued" => IsEmptyHanded(r)
  /\ status[r] = "Active" => HasShape(r)
  /\ IsEmptyHanded(r) \/ HasShape(r)
CallInShape(call) ==
  \/ /\ call.op = "cache" /\ status[call.request] = "Active"
     /\ call.block \in 1 .. CeilDiv(stored[call.request], BlockTokens)
  \/ /\ call.op = "release" /\ Len(calls) = 1
     /\ status[call.request] \in {"Finished", "Rejected"}

TablesInShape ==
  /\ \A r \in Request : RequestInShape(r)
  /\ \A k \in DOMAIN calls : CallInShape(calls[k])

\* Their inductive invariant in PagedKvCache_proofs.
ReservationInv ==
  /\ TypeOK
  /\ TablesInShape
  /\ reserved = Cardinality(WaitingEntries(table))
  /\ reserved <= Len(free)

\* No page is ever lost: each one is on the free list, in the table of a
\* request, or reachable for eviction through the cache index.
NoBlockLost ==
  \A b \in Block :
    \/ b \in FreePages
    \/ \E r \in Request : b \in Held(r)
    \/ \E h \in Contents : cacheIndex[h] = b

\* A cache that nobody uses any more takes any prompt that it can hold at all: what
\* the requests before left behind (promises, references, entries that cannot be
\* evicted) never makes admit answer TemporarilyUnavailable when nobody is left to
\* release anything (kv_cache.cpp:62, 150-175; the loop counts on it at
\* simulator.cpp:88-94).
NobodyActive == \A r \in Request : status[r] # "Active"
DrainedCacheAdmits ==
  (NobodyActive /\ calls = <<>>) =>
    \A r \in Request : PromptBlocks(r) <= TotalBlocks => CanEnsure(PromptBlocks(r))

\* Pages are conserved (stats(): allocated_blocks and the free list partition
\* the cache): the free list names no page twice, and names exactly the pages
\* that no request references and the prefix cache does not hold.
PagesConserved ==
  /\ \A i, j \in DOMAIN free : free[i] = free[j] => i = j
  /\ FreePages = Block \ AllocatedBlocks

\* request_refs is the number of block-table entries that name the page.
RefsCountHolders == \A b \in Block : refs[b] = Cardinality(Holders(b))

\* Appending never writes to a page that another entry names or that the prefix
\* cache can hand out: "mutable shared tail blocks and Copy-on-Write are not
\* modeled" (README.md:226) because they cannot be needed.
AppendsWritePrivatePages ==
  [][\A r \in Request : (status[r] = "Active" /\ stored'[r] > stored[r]) =>
       \A i \in stored[r] \div BlockTokens + 1 .. CeilDiv(stored'[r], BlockTokens) :
         /\ ~pinned'[table'[r][i]]
         /\ \A q \in Request : \A k \in DOMAIN table'[q] :
              table'[q][k] = table'[r][i] => q = r /\ k = i]_vars

\* A page the cache index offers for some content holds that content: whenever
\* a request has it as a completed block of its prompt, the block of the prompt
\* is the indexed content.
CachedPagesMatch ==
  \A h \in Contents, r \in Request :
    \A i \in 1 .. Least(Len(table[r]), CompletePromptBlocks(r)) :
      (cacheIndex[h] # NoBlock /\ cacheIndex[h] = table[r][i] /\ i * BlockTokens <= stored[r])
        => BlockContent(prompt[r], i) = h

\* The allocator is a page pool (PagePool): the pages a request comes by were
\* free, or are shared out of the prefix cache and stay in it; an evicted page
\* had no holder; and a released request keeps nothing.
PoolHolders == [b \in Block |-> {r \in Request : b \in Held(r)}]
Pool == INSTANCE PagePool WITH Page <- Block, holders <- PoolHolders, kept <- CachedBlocks
ImplementsPool == Pool!Spec

\* A prefix hit is a hit on a prefix: the tokens a request does not compute
\* again (prefix_hit_tokens, "block-level prefix caching", README.md:7) were
\* stored, in this order and from the start, for another request.
HitsArePrefixes ==
  \A r \in Request : hitTokens[r] > 0 =>
    \E q \in Request \ {r} :
      /\ stored[q] >= hitTokens[r] /\ Len(prompt[q]) >= hitTokens[r]
      /\ SubSeq(prompt[q], 1, hitTokens[r]) = SubSeq(prompt[r], 1, hitTokens[r])

\* A page the prefix cache gives up, and that the same call does not hand out
\* again as a fresh page, is referenced by no request: "Prefix cache entries are
\* evicted by LRU only when no active request references the page"
\* (README.md:227).
EvictsUnreferenced ==
  \A b \in Block : (pinned[b] /\ ~pinned'[b] /\ b \in FreePages') => refs'[b] = 0
EvictedPagesAreUnreferenced == [][EvictsUnreferenced]_vars

-----------------------------------------------------------------------------
(* The inductive invariants of PagedKvCache_proofs *)

\* The blocks that are offered to the prefix cache are complete blocks of a
\* prompt that are stored to their end.
IsCompleted(r, i) == i <= CompletePromptBlocks(r) /\ i * BlockTokens <= stored[r]

CallsAreCompleted ==
  \A k \in DOMAIN calls :
    calls[k].op = "cache" => IsCompleted(calls[k].request, calls[k].block)

\* Why no page is lost: a page that a release does not free is referenced by
\* somebody else or still indexed.
RefsHaveHolders == \A b \in Block : refs[b] <= Cardinality(Holders(b))
PinnedPagesAreIndexed ==
  \A b \in Block : pinned[b] => \E h \in Contents : cacheIndex[h] = b

LossInv ==
  /\ ReservationInv
  /\ CallsAreCompleted
  /\ NoBlockLost
  /\ RefsHaveHolders
  /\ PinnedPagesAreIndexed

\* A request that is over holds nothing, or is about to be released.
ReleasesAreOwed ==
  \A r \in Request : status[r] \in {"Finished", "Rejected"} =>
    IsEmptyHanded(r) \/ \E k \in DOMAIN calls : calls[k] = ReleaseCall(r)

\* Why pages are conserved: the index and cache_pinned tell the same, and only
\* pages that the prefix cache holds are named twice, by completed blocks.
IndexIsExact ==
  /\ \A g, h \in Contents :
       (cacheIndex[g] = cacheIndex[h] /\ cacheIndex[g] # NoBlock) => g = h
  /\ \A b \in Block : pinned[b] <=> \E h \in Contents : cacheIndex[h] = b
SharedEntriesArePinned ==
  \A q, r \in Request : \A i \in DOMAIN table[q], k \in DOMAIN table[r] :
    (table[q][i] = table[r][k] /\ table[q][i] # NoBlock /\ ~(q = r /\ i = k))
      => pinned[table[q][i]]
PinnedEntriesAreCompleted ==
  \A r \in Request : \A i \in DOMAIN table[r] :
    (table[r][i] # NoBlock /\ pinned[table[r][i]]) => IsCompleted(r, i)

PagesInv ==
  /\ ReservationInv
  /\ CallsAreCompleted
  /\ PagesConserved
  /\ RefsCountHolders
  /\ CachedPagesMatch
  /\ IndexIsExact
  /\ SharedEntriesArePinned
  /\ PinnedEntriesAreCompleted

\* A page that is in use or cached stores a token: pages are only taken to be
\* written to, so that a cache with pages in it is never all waste.
PagesStoreTokens == \A b \in AllocatedBlocks : used[b] > 0
=============================================================================
