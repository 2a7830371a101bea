------------------------------ MODULE Scheduler ------------------------------
(***************************************************************************)
(* Sequences and the foreground-first scheduler (src/solort/core/          *)
(* sequence.py, scheduler.py): which live sequence the next batch is for,  *)
(* whether that batch prefills a chunk of its prompt or decodes, and what  *)
(* the batch leaves behind in the sequence.  The module has no next-state  *)
(* relation of its own: RuntimeCore calls these operations (Runtime.tla).  *)
(***************************************************************************)
EXTENDS Integers, Sequences

CONSTANTS Req,           \* requests; each becomes one sequence
          Kind,          \* Kind[r]: its task_kind
          MaxNewTokens,  \* MaxNewTokens[r]: its max_new_tokens
          ChunkTokens    \* max_prefill_chunk_tokens

TaskKind == {"foreground", "background", "branch", "cache_maintenance"}

ASSUME SchedulerAssumption ==
  /\ Kind \in [Req -> TaskKind]
  /\ MaxNewTokens \in [Req -> Nat \ {0}]
  /\ ChunkTokens \in Nat \ {0}

VARIABLES status,                \* status[r], "none" before add_request
          created_ts,            \* created_ts[r]: its place in the arrival order
          clock,                 \* the next creation time
          input_ids,             \* input_ids[r]: the prompt tokens
          num_cached_tokens,     \* prompt tokens found in the prefix cache
          num_scheduled_tokens,  \* prompt tokens prefilled
          generated              \* generated[r]: len(output_ids)

schedulerVars == <<status, created_ts, clock, input_ids, num_cached_tokens,
                   num_scheduled_tokens, generated>>

Status == {"none", "waiting", "running", "finished", "cancelled"}

SchedulerInit ==
  /\ status = [r \in Req |-> "none"]
  /\ created_ts = [r \in Req |-> 0]
  /\ clock = 1
  /\ input_ids = [r \in Req |-> <<>>]
  /\ num_cached_tokens = [r \in Req |-> 0]
  /\ num_scheduled_tokens = [r \in Req |-> 0]
  /\ generated = [r \in Req |-> 0]

-----------------------------------------------------------------------------
Terminal(r) == status[r] \in {"finished", "cancelled"}

\* (Slips that the checks must notice stand before the definition they
\* alter; nothing else uses them.)

\* Slip: only FINISHED counts as terminal when candidates are collected.
LiveOrCancelled == {r \in Req : status[r] \in {"waiting", "running", "cancelled"}}

Live == {r \in Req : status[r] \in {"waiting", "running"}}

PromptTokens(r) == Len(input_ids[r])

PrefilledTokens(r) == num_cached_tokens[r] + num_scheduled_tokens[r]

PrefillComplete(r) == PrefilledTokens(r) >= PromptTokens(r)

\* The size of the next prefill chunk of r.
Chunk(r) == LET remaining == PromptTokens(r) - PrefilledTokens(r)
            IN  IF remaining <= ChunkTokens THEN remaining ELSE ChunkTokens

\* Slip: a background decode goes behind foreground prefill.
BackgroundDecodeLast(r) ==
  CASE PrefillComplete(r) /\ Kind[r] = "foreground" -> 0
    [] PrefillComplete(r) /\ Kind[r] # "foreground" -> 2
    [] ~ PrefillComplete(r) /\ Kind[r] = "background" -> 3
    [] OTHER -> 1

\* SchedulerPriority: FOREGROUND_DECODE 0, FOREGROUND_PREFILL 1,
\* BRANCH_DECODE 2, BACKGROUND_PREFILL 3, CACHE_MAINTENANCE 4.
EffectivePriority(r) ==
  CASE Kind[r] = "cache_maintenance"                       -> 4
    [] Kind[r] = "branch" /\ PrefillComplete(r)            -> 2
    [] Kind[r] \in {"foreground", "background"} /\ PrefillComplete(r) -> 0
    [] Kind[r] = "background" /\ ~ PrefillComplete(r)      -> 3
    [] OTHER                                               -> 1

\* Slip: the youngest first.
PrecedesLastIn(r, t) ==
  \/ EffectivePriority(r) < EffectivePriority(t)
  \/ EffectivePriority(r) = EffectivePriority(t) /\ created_ts[r] > created_ts[t]

Precedes(r, t) ==
  \/ EffectivePriority(r) < EffectivePriority(t)
  \/ /\ EffectivePriority(r) = EffectivePriority(t)
     /\ created_ts[r] < created_ts[t]

\* _select_next_sequence picks r.
IsNext(r) == r \in Live /\ \A t \in Live \ {r} : Precedes(r, t)

-----------------------------------------------------------------------------
\* A new sequence for the tokens ids, hit of which the prefix cache has.
AddSequence(r, ids, hit) ==
  /\ status' = [status EXCEPT ![r] = "waiting"]
  /\ created_ts' = [created_ts EXCEPT ![r] = clock]
  /\ clock' = clock + 1
  /\ input_ids' = [input_ids EXCEPT ![r] = ids]
  /\ num_cached_tokens' = [num_cached_tokens EXCEPT ![r] = hit]
  /\ UNCHANGED <<num_scheduled_tokens, generated>>

\* cancel of a sequence that is known and not terminal.
CancelSequence(r) ==
  /\ r \in Live
  /\ status' = [status EXCEPT ![r] = "cancelled"]
  /\ UNCHANGED <<created_ts, clock, input_ids, num_cached_tokens, num_scheduled_tokens,
                 generated>>

\* build_next_batch marks the sequence running; a batch that fails in the
\* executor leaves only that behind.
MarkRunning(r) ==
  /\ status' = [status EXCEPT ![r] = "running"]
  /\ UNCHANGED <<created_ts, clock, input_ids, num_cached_tokens, num_scheduled_tokens,
                 generated>>

\* A prefill batch from build_next_batch to postprocess_batch.
PrefillChunk(r) ==
  /\ ~ PrefillComplete(r)
  /\ status' = [status EXCEPT ![r] = "running"]
  /\ num_scheduled_tokens' = [num_scheduled_tokens EXCEPT ![r] = @ + Chunk(r)]
  /\ UNCHANGED <<created_ts, clock, input_ids, num_cached_tokens, generated>>

\* Slip: max_new_tokens is only looked at after the whole burst.
KeptAll(r, n) == n

\* The loop over n samples breaks after the one that reaches max_new_tokens.
Kept(r, n) == LET room == MaxNewTokens[r] - generated[r]
              IN  IF n <= room THEN n ELSE IF room < 1 THEN 1 ELSE room

\* A decode batch that appends n samples; stopped: the last one ends the
\* sequence by itself.
DecodeTokens(r, n, stopped) ==
  /\ PrefillComplete(r)
  /\ generated' = [generated EXCEPT ![r] = @ + n]
  /\ status' = [status EXCEPT
                  ![r] = IF stopped \/ generated[r] + n >= MaxNewTokens[r]
                           THEN "finished" ELSE "running"]
  /\ UNCHANGED <<created_ts, clock, input_ids, num_cached_tokens, num_scheduled_tokens>>
=============================================================================
