------------------------- MODULE GraphExecutorProofs -------------------------
(***************************************************************************)
(* The CUDA-graph executors, for every set of requests, array length,      *)
(* bucket, chunk and number of drafts: no write leaves the arrays, the     *)
(* reply is the target model's own, and, because at most one sequence is   *)
(* in its decode phase, every token is chosen from the K/V of the          *)
(* sequence's own text although the arrays are shared.                     *)
(***************************************************************************)
EXTENDS GraphExecutor, SequenceTheorems, FiniteSetTheorems, TLAPS

KVToken == (Req \cup {"padding", "refused", "zero"}) \X Nat
Reads == UNION {[0 .. n -> KVToken] : n \in Slot}
Chosen == [token : KVToken, read : Reads]

TypeInv ==
  /\ status \in [Req -> Status]
  /\ input_ids \in [Req -> Seq(KVToken)]
  /\ num_cached_tokens = [r \in Req |-> 0]
  /\ num_scheduled_tokens \in [Req -> Nat]
  /\ generated \in [Req -> Nat]
  /\ kc \in [Slot -> KVToken]
  /\ draft_kc \in [Slot -> KVToken]
  /\ chosen \in [Req -> Seq(Chosen)]

Sent(r) == status[r] # "none"

\* What has been counted and chosen for r: nothing before the prompt is
\* complete, then one token more than was put out until the pending one is.
CountsOK(r) ==
  /\ PrefilledTokens(r) <= PromptTokens(r)
  /\ IF Sent(r) THEN PromptTokens(r) > 0
                ELSE PromptTokens(r) = 0 /\ num_scheduled_tokens[r] = 0
  /\ ~ (Sent(r) /\ PrefillComplete(r)) => generated[r] = 0 /\ chosen[r] = <<>>
  /\ Sent(r) /\ PrefillComplete(r) =>
       Len(chosen[r]) = IF generated[r] = 0 THEN 1 ELSE generated[r]
  /\ r \in Live => generated[r] < MaxNewTokens[r]

TargetsOK(r) ==
  \A j \in 1 .. Len(chosen[r]) : chosen[r][j].token = Token(r, PromptTokens(r) + j)

RepliesInv == TypeInv /\ \A r \in Req : CountsOK(r) /\ TargetsOK(r)

\* A step of r is no concern of the other sequences.
OthersSame(r) ==
  \A t \in Req \ {r} : /\ status'[t] = status[t] /\ input_ids'[t] = input_ids[t]
                       /\ num_scheduled_tokens'[t] = num_scheduled_tokens[t]
                       /\ generated'[t] = generated[t] /\ chosen'[t] = chosen[t]

-----------------------------------------------------------------------------
(* Numbers, tokens and arrays *)

LEMMA Numbers ==
  ASSUME TypeInv, NEW r \in Req
  PROVE  /\ PromptTokens(r) \in Nat /\ generated[r] \in Nat /\ Position(r) \in Nat
         /\ PrefilledTokens(r) = num_scheduled_tokens[r] /\ PrefilledTokens(r) \in Nat
         /\ Len(chosen[r]) \in Nat /\ MaxNewTokens[r] \in Nat /\ MaxLen \in Nat \ {0}
         /\ DecodeChunk \in Nat \ {0} /\ SpecTokens \in Nat
<1>1. input_ids[r] \in Seq(KVToken) /\ chosen[r] \in Seq(Chosen)
  BY DEF TypeInv
<1>2. Len(input_ids[r]) \in Nat /\ Len(chosen[r]) \in Nat
  BY <1>1, LenProperties
<1>3. /\ generated[r] \in Nat /\ num_scheduled_tokens[r] \in Nat /\ num_cached_tokens[r] = 0
      /\ MaxNewTokens[r] \in Nat
  BY SchedulerAssumption DEF TypeInv
<1> QED
  BY <1>2, <1>3, GraphAssumption DEF PromptTokens, PrefilledTokens, Position

LEMMA Tokens ==
  /\ \A r \in Req, i \in Nat : Token(r, i) \in KVToken
  /\ Padding \in KVToken /\ Refused \in KVToken /\ Zero \in KVToken
BY DEF Token, Padding, Refused, Zero, KVToken

LEMMA WrittenFacts ==
  ASSUME NEW cache, NEW new
  PROVE  /\ DOMAIN Written(cache, new) = DOMAIN cache \cup DOMAIN new
         /\ \A x \in DOMAIN new : Written(cache, new)[x] = new[x]
         /\ \A x \in DOMAIN cache \ DOMAIN new : Written(cache, new)[x] = cache[x]
BY DEF Written

\* A pass that stays within the array leaves an array.
LEMMA WrittenType ==
  ASSUME NEW cache \in [Slot -> KVToken], NEW new,
         DOMAIN new \subseteq Slot, \A x \in DOMAIN new : new[x] \in KVToken
  PROVE  Written(cache, new) \in [Slot -> KVToken]
<1>1. DOMAIN cache \cup DOMAIN new = Slot
  OBVIOUS
<1>2. \A x \in Slot : (IF x \in DOMAIN new THEN new[x] ELSE cache[x]) \in KVToken
  OBVIOUS
<1> QED
  BY <1>1, <1>2 DEF Written

LEMMA AttendedType ==
  ASSUME NEW cache \in [Slot -> KVToken], NEW n \in Slot
  PROVE  /\ Attended(cache, n) \in Reads
         /\ DOMAIN Attended(cache, n) = 0 .. n
         /\ \A x \in 0 .. n : Attended(cache, n)[x] = cache[x]
<1>1. n \in Nat /\ 0 .. n \subseteq Slot
  BY GraphAssumption DEF Slot
<1>2. Attended(cache, n) \in [0 .. n -> KVToken]
  BY <1>1 DEF Attended
<1> QED
  BY <1>1, <1>2 DEF Attended, Reads

LEMMA OthersKeep ==
  ASSUME TypeInv, NEW r \in Req, OthersSame(r), UNCHANGED num_cached_tokens,
         NEW t \in Req \ {r}, CountsOK(t), TargetsOK(t)
  PROVE  CountsOK(t)' /\ TargetsOK(t)'
<1>1. /\ PromptTokens(t)' = PromptTokens(t) /\ PrefilledTokens(t)' = PrefilledTokens(t)
      /\ Sent(t)' <=> Sent(t)
      /\ t \in Live' <=> t \in Live
  BY DEF OthersSame, PromptTokens, PrefilledTokens, Sent, Live
<1>2. chosen'[t] = chosen[t] /\ generated'[t] = generated[t]
      /\ num_scheduled_tokens'[t] = num_scheduled_tokens[t]
  BY DEF OthersSame
<1>3. PrefillComplete(t)' <=> PrefillComplete(t)
  BY <1>1 DEF PrefillComplete
<1>4. CountsOK(t)'
  BY <1>1, <1>2, <1>3 DEF CountsOK
<1>5. TargetsOK(t)'
  BY <1>1, <1>2 DEF TargetsOK
<1> QED
  BY <1>4, <1>5

-----------------------------------------------------------------------------
(* The reply is the target's: one step *)

\* What the steps other than a decode pass do to r itself.
StepOK(r) ==
  /\ TypeInv' /\ OthersSame(r) /\ UNCHANGED num_cached_tokens
  /\ CountsOK(r)' /\ TargetsOK(r)'

LEMMA ArriveOK ==
  ASSUME RepliesInv, NEW r \in Req, Arrive(r)
  PROVE  StepOK(r) /\ ~ PrefillComplete(r)'
<1> DEFINE ids == [i \in 1 .. PromptLen[r] |-> Token(r, i)]
<1>1. /\ status[r] = "none" /\ status' = [status EXCEPT ![r] = "waiting"]
      /\ input_ids' = [input_ids EXCEPT ![r] = ids]
      /\ num_cached_tokens' = [num_cached_tokens EXCEPT ![r] = 0]
      /\ UNCHANGED <<num_scheduled_tokens, generated, kc, draft_kc, chosen>>
  BY DEF Arrive, AddSequence, graphVars
<1>2. TypeInv /\ CountsOK(r) /\ TargetsOK(r)
  BY DEF RepliesInv
<1>3. PromptLen[r] \in Nat \ {0}
  BY GraphAssumption
<1>4. ids \in Seq(KVToken) /\ Len(ids) = PromptLen[r]
  <2>1. \A i \in 1 .. PromptLen[r] : Token(r, i) \in KVToken
    BY <1>3, Tokens
  <2> QED
    BY <1>3, <2>1
<1> HIDE DEF ids
<1>5. /\ status' \in [Req -> Status] /\ input_ids' \in [Req -> Seq(KVToken)]
      /\ num_cached_tokens' = num_cached_tokens
  BY <1>1, <1>2, <1>4 DEF TypeInv, Status
<1>6. TypeInv'
  BY <1>1, <1>2, <1>5 DEF TypeInv
<1>7. OthersSame(r)
  BY <1>1, <1>2 DEF OthersSame, TypeInv
<1>8. /\ PromptTokens(r)' = PromptLen[r] /\ PrefilledTokens(r)' = 0
      /\ generated'[r] = 0 /\ chosen'[r] = <<>> /\ status'[r] = "waiting"
  <2>1. /\ input_ids'[r] = ids /\ num_scheduled_tokens'[r] = 0 /\ num_cached_tokens'[r] = 0
        /\ generated'[r] = 0 /\ chosen'[r] = <<>> /\ status'[r] = "waiting"
    BY <1>1, <1>2 DEF CountsOK, Sent, TypeInv
  <2> QED
    BY <1>4, <2>1 DEF PromptTokens, PrefilledTokens
<1>9. ~ PrefillComplete(r)'
  BY <1>3, <1>8 DEF PrefillComplete
<1>10. CountsOK(r)'
  BY <1>3, <1>8, <1>9, SchedulerAssumption DEF CountsOK, Sent
<1>11. TargetsOK(r)'
  <2>1. Len(chosen'[r]) = 0
    BY <1>8, EmptySeq
  <2> QED
    BY <2>1 DEF TargetsOK
<1> QED
  BY <1>5, <1>6, <1>7, <1>9, <1>10, <1>11 DEF StepOK

\* A cancel, and a pass that raises, change no more than the status.
LEMMA StatusOK ==
  ASSUME RepliesInv, NEW r \in Req, Cancel(r) \/ (IsNext(r) /\ Raises(r))
  PROVE  StepOK(r) /\ (Sent(r) /\ r \in Live) /\ UNCHANGED <<input_ids, num_scheduled_tokens,
                                                             generated, kc, draft_kc, chosen>>
<1>1. /\ r \in Live
      /\ \E new \in {"cancelled", "running"} : status' = [status EXCEPT ![r] = new]
      /\ UNCHANGED <<input_ids, num_cached_tokens, num_scheduled_tokens, generated,
                     kc, draft_kc, chosen>>
  BY DEF Cancel, CancelSequence, IsNext, Raises, MarkRunning, graphVars
<1>2. TypeInv /\ CountsOK(r) /\ TargetsOK(r)
  BY DEF RepliesInv
<1>3. TypeInv' /\ OthersSame(r)
  BY <1>1, <1>2 DEF TypeInv, Status, OthersSame
<1>4. /\ PromptTokens(r)' = PromptTokens(r) /\ PrefilledTokens(r)' = PrefilledTokens(r)
      /\ Sent(r)' /\ Sent(r)
      /\ PrefillComplete(r)' <=> PrefillComplete(r)
  BY <1>1, <1>2 DEF PromptTokens, PrefilledTokens, Sent, PrefillComplete, Live, TypeInv
<1>5. CountsOK(r)'
  <2>1. r \in Live' => r \in Live
    BY <1>1
  <2>2. /\ generated'[r] = generated[r] /\ chosen'[r] = chosen[r]
        /\ num_scheduled_tokens'[r] = num_scheduled_tokens[r]
    BY <1>1
  <2> QED
    BY <1>2, <1>4, <2>1, <2>2, Zenon DEF CountsOK
<1>6. TargetsOK(r)'
  BY <1>1, <1>2, <1>4 DEF TargetsOK
<1>7. StepOK(r)
  BY <1>1, <1>3, <1>5, <1>6, Zenon DEF StepOK
<1> QED
  BY <1>1, <1>4, <1>7

\* DecodeTokens, for the counters.
LEMMA DecodedCounters ==
  ASSUME RepliesInv, NEW r \in Live, NEW m \in Nat \ {0}, NEW stopped, DecodeTokens(r, m, stopped)
  PROVE  /\ status' \in [Req -> Status] /\ generated' \in [Req -> Nat]
         /\ generated'[r] = generated[r] + m
         /\ UNCHANGED <<input_ids, num_cached_tokens, num_scheduled_tokens>>
         /\ \A t \in Req \ {r} : status'[t] = status[t] /\ generated'[t] = generated[t]
         /\ Sent(r) /\ Sent(r)' /\ PrefillComplete(r) /\ PrefillComplete(r)'
         /\ PromptTokens(r)' = PromptTokens(r)
         /\ status'[r] \in {"running", "finished"}
         /\ r \in Live' => generated'[r] < MaxNewTokens[r]
<1>1. /\ r \in Req /\ generated[r] + m \in Nat /\ generated[r] \in Nat /\ MaxNewTokens[r] \in Nat
      /\ TypeInv
  BY Numbers DEF RepliesInv, Live
<1>2. /\ PrefillComplete(r) /\ generated' = [generated EXCEPT ![r] = generated[r] + m]
      /\ status' = [status EXCEPT ![r] = IF stopped \/ generated[r] + m >= MaxNewTokens[r]
                                           THEN "finished" ELSE "running"]
      /\ UNCHANGED <<input_ids, num_cached_tokens, num_scheduled_tokens>>
  BY DEF DecodeTokens
<1>3. /\ status' \in [Req -> Status] /\ generated' \in [Req -> Nat]
      /\ generated'[r] = generated[r] + m
      /\ status'[r] \in {"running", "finished"}
      /\ status'[r] = "running" => ~ (generated[r] + m >= MaxNewTokens[r])
      /\ \A t \in Req \ {r} : status'[t] = status[t] /\ generated'[t] = generated[t]
  BY <1>1, <1>2 DEF TypeInv, Status
<1>4. Sent(r) /\ Sent(r)' /\ PromptTokens(r)' = PromptTokens(r) /\ PrefillComplete(r)'
  BY <1>2, <1>3 DEF Sent, Live, PromptTokens, PrefillComplete, PrefilledTokens
<1>5. r \in Live' => generated'[r] < MaxNewTokens[r]
  BY <1>1, <1>3 DEF Live
<1> QED
  BY <1>2, <1>3, <1>4, <1>5

LEMMA EmitOK ==
  ASSUME RepliesInv, NEW r \in Req, IsNext(r), EmitPending(r)
  PROVE  /\ StepOK(r)
         /\ UNCHANGED <<input_ids, kc, draft_kc, chosen>>
         /\ generated[r] = 0 /\ generated'[r] = 1 /\ PrefillComplete(r) /\ r \in Live
<1>1. r \in Live /\ TypeInv /\ CountsOK(r) /\ TargetsOK(r)
  BY DEF RepliesInv, IsNext
<1>2. PICK stopped \in BOOLEAN : DecodeTokens(r, 1, stopped)
  BY DEF EmitPending
<1>3. UNCHANGED <<kc, draft_kc, chosen>> /\ Len(chosen[r]) > generated[r]
  BY DEF EmitPending, graphVars, Pending
<1>4. /\ status' \in [Req -> Status] /\ generated' \in [Req -> Nat]
      /\ generated'[r] = generated[r] + 1
      /\ UNCHANGED <<input_ids, num_cached_tokens, num_scheduled_tokens>>
      /\ \A t \in Req \ {r} : status'[t] = status[t] /\ generated'[t] = generated[t]
      /\ Sent(r) /\ Sent(r)' /\ PrefillComplete(r) /\ PrefillComplete(r)'
      /\ PromptTokens(r)' = PromptTokens(r)
      /\ r \in Live' => generated'[r] < MaxNewTokens[r]
  BY <1>1, <1>2, DecodedCounters
<1>5. TypeInv' /\ OthersSame(r)
  BY <1>1, <1>3, <1>4 DEF TypeInv, OthersSame
<1>6. generated[r] = 0 /\ generated'[r] = 1 /\ Len(chosen[r]) = 1
  <2>1. r \in Req /\ generated[r] \in Nat
    BY <1>1, Numbers
  <2>2. Len(chosen[r]) = IF generated[r] = 0 THEN 1 ELSE generated[r]
    BY <1>1, <1>4, Zenon DEF CountsOK
  <2> QED
    BY <1>3, <1>4, <2>1, <2>2
<1>7. CountsOK(r)'
  BY <1>1, <1>3, <1>4, <1>6 DEF CountsOK, PrefilledTokens
<1>8. TargetsOK(r)'
  BY <1>1, <1>3, <1>4 DEF TargetsOK
<1> QED
  BY <1>1, <1>3, <1>4, <1>5, <1>6, <1>7, <1>8 DEF StepOK

-----------------------------------------------------------------------------
(* Prefill *)

\* A chunk that leaves the prompt incomplete only counts; the one that
\* completes it fills the start of the arrays and chooses the first token.
LEMMA PrefillOK ==
  ASSUME RepliesInv, NEW r \in Req, IsNext(r), Prefill(r)
  PROVE  /\ StepOK(r) /\ UNCHANGED <<input_ids, generated>> /\ generated[r] = 0
         /\ ~ PrefillComplete(r)
         /\ PrefillComplete(r)' =>
              /\ PromptTokens(r) - 1 \in Slot
              /\ chosen'[r] = <<Choice(Token(r, PromptTokens(r) + 1),
                                       Attended(kc', PromptTokens(r) - 1))>>
              /\ \A x \in 0 .. PromptTokens(r) - 1 :
                   /\ kc'[x] = Token(r, x + 1)
                   /\ SpecTokens > 0 => draft_kc'[x] = Token(r, x + 1)
<1>1. r \in Live /\ TypeInv /\ CountsOK(r) /\ TargetsOK(r)
  BY DEF RepliesInv, IsNext
<1>2. /\ ~ PrefillComplete(r)
      /\ status' = [status EXCEPT ![r] = "running"]
      /\ num_scheduled_tokens' = [num_scheduled_tokens EXCEPT
                                    ![r] = num_scheduled_tokens[r] + Chunk(r)]
      /\ UNCHANGED <<input_ids, num_cached_tokens, generated>>
  BY DEF Prefill, PrefillChunk
<1>3. /\ PromptTokens(r) \in Nat /\ num_scheduled_tokens[r] \in Nat
      /\ PrefilledTokens(r) = num_scheduled_tokens[r]
      /\ MaxLen \in Nat \ {0} /\ MaxNewTokens[r] \in Nat
  BY <1>1, Numbers
<1>4. Chunk(r) \in Nat /\ num_scheduled_tokens[r] + Chunk(r) <= PromptTokens(r)
  BY <1>2, <1>3, SchedulerAssumption DEF Chunk, PrefillComplete
<1>5. Sent(r) /\ Sent(r)' /\ PromptTokens(r)' = PromptTokens(r)
  BY <1>1, <1>2 DEF Sent, Live, TypeInv, PromptTokens
<1>6. generated[r] = 0 /\ chosen[r] = <<>> /\ PromptTokens(r) > 0
  BY <1>1, <1>2, <1>5 DEF CountsOK
<1>7. PrefilledTokens(r)' = num_scheduled_tokens[r] + Chunk(r)
  <2>1. num_scheduled_tokens'[r] = num_scheduled_tokens[r] + Chunk(r) /\ num_cached_tokens'[r] = 0
    BY <1>1, <1>2 DEF TypeInv
  <2> QED
    BY <1>3, <1>4, <2>1 DEF PrefilledTokens
<1>8. /\ status' \in [Req -> Status] /\ num_scheduled_tokens' \in [Req -> Nat]
      /\ \A t \in Req \ {r} : /\ status'[t] = status[t]
                              /\ num_scheduled_tokens'[t] = num_scheduled_tokens[t]
  BY <1>1, <1>2, <1>3, <1>4 DEF TypeInv, Status
<1>9. CASE ~ PrefillComplete(r)'
  <2>1. UNCHANGED <<kc, draft_kc, chosen>>
    BY <1>9 DEF Prefill, graphVars
  <2>2. TypeInv' /\ OthersSame(r)
    BY <1>1, <1>2, <1>8, <2>1 DEF TypeInv, OthersSame
  <2>3. CountsOK(r)'
    BY <1>2, <1>4, <1>5, <1>6, <1>7, <1>9, <2>1, SchedulerAssumption DEF CountsOK
  <2>4. TargetsOK(r)'
    BY <1>1, <1>5, <2>1 DEF TargetsOK
  <2> QED
    BY <1>2, <1>6, <1>9, <2>2, <2>3, <2>4 DEF StepOK
<1>10. CASE PrefillComplete(r)'
  <2> DEFINE last == PromptTokens(r) - 1
             read == Attended(kc', last)
             first == Choice(Token(r, PromptTokens(r) + 1), read)
  <2>1. PICK b \in PreBuckets :
          /\ PromptTokens(r) < MaxLen
          /\ IsBucket(b, r)
          /\ kc' = Written(kc, PaddedPrompt(r, b))
          /\ draft_kc' = IF SpecTokens > 0 THEN Written(draft_kc, PaddedPrompt(r, b)) ELSE draft_kc
          /\ chosen' = [chosen EXCEPT ![r] = <<first>>]
    BY <1>10 DEF Prefill
  <2>2. b \in Nat /\ PromptTokens(r) <= b /\ b <= MaxLen
    BY <1>3, <2>1, GraphAssumption DEF IsBucket
  <2>3. /\ DOMAIN PaddedPrompt(r, b) = 0 .. b - 1 /\ 0 .. b - 1 \subseteq Slot
        /\ \A x \in 0 .. b - 1 : PaddedPrompt(r, b)[x] \in KVToken
        /\ \A x \in 0 .. last : PaddedPrompt(r, b)[x] = Token(r, x + 1) /\ x \in 0 .. b - 1
    <3>1. 0 .. b - 1 \subseteq Slot
      BY <1>3, <2>2 DEF Slot
    <3>2. \A x \in 0 .. b - 1 : Token(r, x + 1) \in KVToken /\ Padding \in KVToken
      BY <2>2, Tokens
    <3>3. /\ DOMAIN PaddedPrompt(r, b) = 0 .. b - 1
          /\ \A x \in 0 .. b - 1 : PaddedPrompt(r, b)[x] =
               IF x < PromptTokens(r) THEN Token(r, x + 1) ELSE Padding
      BY DEF PaddedPrompt
    <3>4. \A x \in 0 .. last : x \in 0 .. b - 1 /\ x < PromptTokens(r)
      BY <1>3, <2>2
    <3> QED
      BY <3>1, <3>2, <3>3, <3>4, Zenon
  <2>4. kc' \in [Slot -> KVToken] /\ draft_kc' \in [Slot -> KVToken]
    BY <1>1, <2>1, <2>3, WrittenType DEF TypeInv
  <2>5. ASSUME NEW x \in 0 .. last
        PROVE  /\ kc'[x] = Token(r, x + 1)
               /\ SpecTokens > 0 => draft_kc'[x] = Token(r, x + 1)
    <3>1. x \in DOMAIN PaddedPrompt(r, b) /\ PaddedPrompt(r, b)[x] = Token(r, x + 1)
      BY <2>3
    <3>2. \A y \in DOMAIN PaddedPrompt(r, b) :
            Written(kc, PaddedPrompt(r, b))[y] = PaddedPrompt(r, b)[y]
      BY WrittenFacts
    <3>3. \A y \in DOMAIN PaddedPrompt(r, b) :
            Written(draft_kc, PaddedPrompt(r, b))[y] = PaddedPrompt(r, b)[y]
      BY WrittenFacts
    <3>4. /\ Written(kc, PaddedPrompt(r, b))[x] = Token(r, x + 1)
          /\ Written(draft_kc, PaddedPrompt(r, b))[x] = Token(r, x + 1)
      BY <3>1, <3>2, <3>3
    <3> QED
      BY <2>1, <3>4
  <2>6. last \in Slot
    BY <1>3, <1>6, <2>1 DEF Slot
  <2>7. first \in Chosen /\ first.token = Token(r, PromptTokens(r) + 1)
    <3>1. read \in Reads
      BY <2>4, <2>6, AttendedType
    <3>2. Token(r, PromptTokens(r) + 1) \in KVToken
      BY <1>3, Tokens
    <3> QED
      BY <3>1, <3>2 DEF Choice, Chosen
  <2> HIDE DEF last, read, first
  <2>8. /\ chosen' \in [Req -> Seq(Chosen)] /\ chosen'[r] = <<first>>
        /\ Len(chosen'[r]) = 1 /\ chosen'[r][1] = first
        /\ \A t \in Req \ {r} : chosen'[t] = chosen[t]
    <3>1. <<first>> \in Seq(Chosen) /\ Len(<<first>>) = 1 /\ <<first>>[1] = first
      BY <2>7
    <3> QED
      BY <1>1, <2>1, <3>1 DEF TypeInv
  <2>9. TypeInv' /\ OthersSame(r)
    BY <1>1, <1>2, <1>8, <2>4, <2>8 DEF TypeInv, OthersSame
  <2>10. CountsOK(r)'
    <3>1. generated'[r] = 0 /\ 0 < MaxNewTokens[r]
      BY <1>2, <1>6, SchedulerAssumption
    <3> QED
      BY <1>4, <1>5, <1>6, <1>7, <1>10, <2>8, <3>1 DEF CountsOK
  <2>11. TargetsOK(r)'
    BY <1>5, <2>7, <2>8 DEF TargetsOK
  <2>12. StepOK(r)
    BY <1>2, <2>9, <2>10, <2>11 DEF StepOK
  <2> QED
    BY <1>2, <1>6, <2>5, <2>6, <2>8, <2>12 DEF last, read, first
<1> QED
  BY <1>9, <1>10

-----------------------------------------------------------------------------
(* A decode pass *)

\* The tokens of a pass are those the target would choose one after another.
NextText(r, tokens) ==
  /\ tokens \in Seq(KVToken)
  /\ \A j \in 1 .. Len(tokens) : tokens[j] = Token(r, Position(r) + j)
  /\ Position(r) + Len(tokens) - 1 \in Slot

\* Whatever a stop token or the budget leaves of them is appended.
LEMMA ConcludeOK ==
  ASSUME RepliesInv, NEW r \in Live, ~ Pending(r), NEW tokens, NextText(r, tokens),
         Conclude(r, tokens),
         kc' \in [Slot -> KVToken], draft_kc' \in [Slot -> KVToken]
  PROVE  /\ StepOK(r) /\ UNCHANGED input_ids /\ PromptTokens(r)' = PromptTokens(r)
         /\ generated[r] > 0 /\ Len(chosen[r]) = generated[r] /\ PrefillComplete(r)
         /\ \E m \in 1 .. Len(tokens) :
              /\ generated'[r] = generated[r] + m
              /\ Len(chosen'[r]) = generated[r] + m
              /\ \A j \in 1 .. generated[r] : chosen'[r][j] = chosen[r][j]
              /\ \A j \in 1 .. m :
                   chosen'[r][generated[r] + j].read = Attended(kc', Position(r) + j - 1)
<1>1. r \in Req /\ TypeInv /\ CountsOK(r) /\ TargetsOK(r) /\ tokens \in Seq(KVToken)
  BY DEF RepliesInv, Live, NextText
<1>2. Len(tokens) \in Nat
  BY <1>1, LenProperties
<1> DEFINE texts(m) == [j \in 1 .. m |-> Choice(tokens[j], Attended(kc', Position(r) + j - 1))]
<1>0. 1 .. Kept(r, Len(tokens)) \subseteq 1 .. Len(tokens)
  <2>1. generated[r] < MaxNewTokens[r]
    BY <1>1 DEF CountsOK
  <2>2. generated[r] \in Nat /\ MaxNewTokens[r] \in Nat
    BY <1>1, Numbers
  <2> QED
    BY <1>2, <2>1, <2>2 DEF Kept
<1>3. PICK m \in 1 .. Len(tokens), stopped \in BOOLEAN :
        /\ DecodeTokens(r, m, stopped)
        /\ chosen' = [chosen EXCEPT ![r] = chosen[r] \o texts(m)]
  BY <1>0 DEF Conclude
<1>4. m \in Nat \ {0} /\ m <= Len(tokens)
  BY <1>2
<1>5. /\ status' \in [Req -> Status] /\ generated' \in [Req -> Nat]
      /\ generated'[r] = generated[r] + m
      /\ UNCHANGED <<input_ids, num_cached_tokens, num_scheduled_tokens>>
      /\ \A t \in Req \ {r} : status'[t] = status[t] /\ generated'[t] = generated[t]
      /\ Sent(r) /\ Sent(r)' /\ PrefillComplete(r) /\ PrefillComplete(r)'
      /\ PromptTokens(r)' = PromptTokens(r)
      /\ r \in Live' => generated'[r] < MaxNewTokens[r]
  BY <1>3, <1>4, DecodedCounters
<1>6. /\ Position(r) \in Nat /\ PromptTokens(r) \in Nat /\ generated[r] \in Nat
      /\ Position(r) = PromptTokens(r) + generated[r]
  BY <1>1, Numbers DEF Position
<1>7. generated[r] > 0 /\ Len(chosen[r]) = generated[r]
  <2>1. Len(chosen[r]) = IF generated[r] = 0 THEN 1 ELSE generated[r]
    BY <1>1, <1>5, Zenon DEF CountsOK
  <2>2. ~ (Len(chosen[r]) > generated[r])
    BY DEF Pending
  <2> QED
    BY <1>6, <2>1, <2>2
<1>8. ASSUME NEW j \in 1 .. m
      PROVE  /\ tokens[j] = Token(r, Position(r) + j)
             /\ Choice(tokens[j], Attended(kc', Position(r) + j - 1)) \in Chosen
  <2>1. j \in 1 .. Len(tokens) /\ Position(r) + j - 1 \in Slot
    <3>1. j \in Nat /\ 1 <= j /\ j <= Len(tokens) /\ j \in 1 .. Len(tokens)
      BY <1>2, <1>4
    <3>2. Position(r) + Len(tokens) - 1 <= MaxLen - 1 /\ MaxLen \in Nat
      BY <1>2, <1>6, GraphAssumption DEF NextText, Slot
    <3> QED
      BY <1>2, <1>6, <3>1, <3>2, SMTT(30) DEF Slot
  <2>2. Attended(kc', Position(r) + j - 1) \in Reads
    BY <2>1, AttendedType
  <2>3. tokens[j] \in KVToken
    BY <1>1, <2>1, ElementOfSeq
  <2> QED
    BY <2>1, <2>2, <2>3 DEF Choice, Chosen, NextText
<1>9. /\ texts(m) \in Seq(Chosen) /\ Len(texts(m)) = m
      /\ \A j \in 1 .. m : /\ texts(m)[j].token = Token(r, Position(r) + j)
                           /\ texts(m)[j].read = Attended(kc', Position(r) + j - 1)
  BY <1>4, <1>8 DEF Choice
<1> HIDE DEF texts
<1>10. chosen[r] \in Seq(Chosen)
  BY <1>1 DEF TypeInv
<1>11. /\ chosen[r] \o texts(m) \in Seq(Chosen)
       /\ Len(chosen[r] \o texts(m)) = generated[r] + m
       /\ \A j \in 1 .. generated[r] + m :
            (chosen[r] \o texts(m))[j] = IF j <= generated[r] THEN chosen[r][j]
                                                             ELSE texts(m)[j - generated[r]]
  <2>1. \A a, b \in Seq(Chosen) :
          /\ a \o b \in Seq(Chosen) /\ Len(a \o b) = Len(a) + Len(b)
          /\ \A j \in 1 .. Len(a) + Len(b) :
               (a \o b)[j] = IF j <= Len(a) THEN a[j] ELSE b[j - Len(a)]
    BY ConcatProperties
  <2>2. /\ chosen[r] \o texts(m) \in Seq(Chosen)
        /\ Len(chosen[r] \o texts(m)) = Len(chosen[r]) + Len(texts(m))
        /\ \A j \in 1 .. Len(chosen[r]) + Len(texts(m)) :
             (chosen[r] \o texts(m))[j] =
               IF j <= Len(chosen[r]) THEN chosen[r][j] ELSE texts(m)[j - Len(chosen[r])]
    BY <1>9, <1>10, <2>1, Zenon
  <2> QED
    BY <1>7, <1>9, <2>2, Zenon
<1>12. /\ chosen' \in [Req -> Seq(Chosen)] /\ chosen'[r] = chosen[r] \o texts(m)
       /\ \A t \in Req \ {r} : chosen'[t] = chosen[t]
  BY <1>1, <1>3, <1>11 DEF TypeInv
<1>13. TypeInv' /\ OthersSame(r)
  BY <1>1, <1>5, <1>12 DEF TypeInv, OthersSame
<1>14. CountsOK(r)'
  <2>1. Len(chosen'[r]) = generated'[r] /\ generated'[r] > 0
    BY <1>4, <1>5, <1>6, <1>7, <1>11, <1>12
  <2>2. PrefilledTokens(r)' = PrefilledTokens(r) /\ PrefilledTokens(r) <= PromptTokens(r)
    BY <1>1, <1>5 DEF PrefilledTokens, CountsOK
  <2>3. PromptTokens(r)' > 0
    BY <1>1, <1>5 DEF CountsOK
  <2> QED
    BY <1>5, <2>1, <2>2, <2>3 DEF CountsOK
<1>15. ASSUME NEW j \in 1 .. m
       PROVE  /\ chosen'[r][generated[r] + j] = texts(m)[j]
              /\ generated[r] + j \in 1 .. generated[r] + m
  <2>1. generated[r] + j \in 1 .. generated[r] + m /\ ~ (generated[r] + j <= generated[r])
        /\ (generated[r] + j) - generated[r] = j
    BY <1>4, <1>6
  <2> QED
    BY <1>11, <1>12, <2>1
<1>16. ASSUME NEW j \in 1 .. generated[r] PROVE chosen'[r][j] = chosen[r][j]
  <2>1. j \in 1 .. generated[r] + m /\ j <= generated[r]
    BY <1>4, <1>6
  <2> QED
    BY <1>11, <1>12, <2>1
<1>17. Len(chosen'[r]) = generated[r] + m
  BY <1>11, <1>12
<1>18. TargetsOK(r)'
  <2>1. ASSUME NEW j \in 1 .. generated[r] + m
        PROVE  chosen'[r][j].token = Token(r, PromptTokens(r) + j)
    <3>1. CASE j <= generated[r]
      <4>1. j \in 1 .. Len(chosen[r]) /\ chosen'[r][j] = chosen[r][j]
        BY <1>6, <1>7, <1>16, <3>1
      <4> QED
        BY <1>1, <4>1 DEF TargetsOK
    <3>2. CASE j > generated[r]
      <4>1. PICK i \in 1 .. m : j = generated[r] + i
        <5>1. j - generated[r] \in 1 .. m /\ j = generated[r] + (j - generated[r])
          BY <1>4, <1>6, <3>2
        <5> QED
          BY <5>1
      <4>2. chosen'[r][j] = texts(m)[i] /\ Position(r) + i = PromptTokens(r) + j
        BY <1>4, <1>6, <1>15, <4>1
      <4> QED
        BY <1>9, <4>2
    <3> QED
      BY <1>4, <1>6, <3>1, <3>2
  <2> QED
    BY <1>5, <1>17, <2>1 DEF TargetsOK
<1>19. StepOK(r)
  BY <1>5, <1>13, <1>14, <1>18 DEF StepOK
<1> QED
  BY <1>4, <1>5, <1>7, <1>9, <1>15, <1>16, <1>17, <1>19

\* What the arrays hold after a pass that put out some of `tokens`: the text
\* before them as it was, then theirs.
PassWrote(r, tokens) ==
  /\ kc' \in [Slot -> KVToken] /\ draft_kc' \in [Slot -> KVToken]
  /\ \A x \in 0 .. Position(r) - 1 : kc'[x] = kc[x] /\ draft_kc'[x] = draft_kc[x]
  /\ \A x \in Position(r) .. Position(r) + Len(tokens) - 1 :
       /\ kc'[x] = Token(r, x)
       /\ Speculates(r) => draft_kc'[x] = Token(r, x)

\* A chunk of the decode graph.
LEMMA DecodeWrites ==
  ASSUME RepliesInv, NEW r \in Live, Position(r) < MaxLen, Decode(r), ~ Speculates(r)
  PROVE  \E tokens : NextText(r, tokens) /\ Conclude(r, tokens) /\ PassWrote(r, tokens)
<1> DEFINE p == Position(r)
           c == ChunkLength(r)
           new == [x \in p .. p + c - 1 |-> Token(r, x)]
           tokens == [j \in 1 .. c |-> Token(r, p + j)]
<1>1. /\ r \in Req /\ TypeInv /\ p \in Nat /\ generated[r] \in Nat /\ MaxNewTokens[r] \in Nat
      /\ MaxLen \in Nat \ {0} /\ DecodeChunk \in Nat \ {0} /\ generated[r] < MaxNewTokens[r]
  BY Numbers DEF RepliesInv, CountsOK, Live
<1>2. c \in Nat /\ c >= 1 /\ p + c - 1 <= MaxLen - 1
  BY <1>1 DEF ChunkLength, Least
<1>3. kc' = Written(kc, new) /\ Conclude(r, tokens) /\ draft_kc' = draft_kc
  BY DEF Decode
<1> HIDE DEF c, p
<1>4. tokens \in Seq(KVToken) /\ Len(tokens) = c /\ \A j \in 1 .. c : tokens[j] = Token(r, p + j)
  <2>1. \A j \in 1 .. c : Token(r, p + j) \in KVToken
    BY <1>1, <1>2, Tokens
  <2> QED
    BY <1>2, <2>1
<1>5. /\ DOMAIN new = p .. p + c - 1 /\ DOMAIN new \subseteq Slot
      /\ \A x \in DOMAIN new : new[x] = Token(r, x) /\ new[x] \in KVToken
  <2>1. \A x \in p .. p + c - 1 : x \in Nat /\ x <= MaxLen - 1 /\ Token(r, x) \in KVToken
    BY <1>1, <1>2, Tokens
  <2> QED
    BY <1>1, <2>1 DEF Slot
<1> HIDE DEF new, tokens
<1>6. kc' \in [Slot -> KVToken] /\ draft_kc' \in [Slot -> KVToken]
  BY <1>1, <1>3, <1>5, WrittenType DEF TypeInv
<1>7. p + c - 1 \in Slot
  BY <1>1, <1>2 DEF Slot
<1>8. NextText(r, tokens)
  BY <1>4, <1>7 DEF NextText, p
<1>9. ASSUME NEW x \in 0 .. p - 1 PROVE kc'[x] = kc[x]
  <2>1. x \in DOMAIN kc \ DOMAIN new
    <3>1. x \in Slot /\ ~ (x \in p .. p + c - 1)
      BY <1>1, <1>2 DEF Slot
    <3> QED
      BY <1>1, <1>5, <3>1 DEF TypeInv
  <2> QED
    BY <1>3, <2>1, WrittenFacts
<1>10. ASSUME NEW x \in p .. p + c - 1 PROVE kc'[x] = Token(r, x)
  <2>1. x \in DOMAIN new /\ new[x] = Token(r, x)
    BY <1>5
  <2>2. \A y \in DOMAIN new : Written(kc, new)[y] = new[y]
    BY WrittenFacts
  <2> QED
    BY <1>3, <2>1, <2>2
<1>11. PassWrote(r, tokens)
  BY <1>3, <1>4, <1>6, <1>9, <1>10 DEF PassWrote, p
<1> QED
  BY <1>3, <1>8, <1>11

\* The drafts that the target agrees with are those it would choose itself:
\* it never gets as far as a draft that merely agrees after a wrong one.
LEMMA AgreedAreRight ==
  ASSUME NEW r \in Req, Position(r) \in Nat, NEW right \in 0 .. SpecTokens
  PROVE  Agreed(DraftVec(r, right), Verified(r, right)) = right
<1> DEFINE drafts == DraftVec(r, right)
           targets == Verified(r, right)
           agreeing == {i \in DOMAIN drafts : \A j \in 1 .. i : drafts[j] = targets[j]}
<1>1. SpecTokens \in Nat /\ right \in Nat /\ right <= SpecTokens
  BY GraphAssumption
<1>2. DOMAIN drafts = 1 .. SpecTokens
  BY DEF DraftVec
<1>3. ASSUME NEW j \in 1 .. right PROVE j \in 1 .. SpecTokens /\ drafts[j] = targets[j]
  <2>1. /\ j \in 1 .. SpecTokens /\ j \in 1 .. SpecTokens + 1
        /\ j <= right /\ j <= right + 1
    BY <1>1
  <2> QED
    BY <2>1 DEF DraftVec, Verified
<1>4. ASSUME right < SpecTokens PROVE drafts[right + 1] # targets[right + 1]
  <2>1. /\ right + 1 \in 1 .. SpecTokens /\ right + 1 \in 1 .. SpecTokens + 1
        /\ ~ (right + 1 <= right)
    BY <1>1, <1>4
  <2>2. drafts[right + 1] = Refused /\ targets[right + 1] = Token(r, Position(r) + (right + 1))
    BY <2>1 DEF DraftVec, Verified
  <2>3. Position(r) + (right + 1) # 0
    BY <1>1
  <2> QED
    BY <2>2, <2>3 DEF Refused, Token
<1> HIDE DEF drafts, targets
<1>5. agreeing = 1 .. right
  <2>1. ASSUME NEW i \in 1 .. SpecTokens, i > right PROVE i \notin agreeing
    <3>1. right < SpecTokens /\ right + 1 \in 1 .. i
      BY <1>1, <2>1
    <3> QED
      BY <1>4, <3>1
  <2>2. ASSUME NEW i \in 1 .. right PROVE i \in agreeing
    <3>1. \A j \in 1 .. i : j \in 1 .. right
      BY <1>1
    <3> QED
      BY <1>2, <1>3, <3>1
  <2>3. \A i \in 1 .. SpecTokens : i > right \/ i \in 1 .. right
    BY <1>1
  <2>4. agreeing \subseteq 1 .. right
    BY <1>2, <2>1, <2>3
  <2> QED
    BY <2>2, <2>4
<1>6. Cardinality(1 .. right) = right
  BY <1>1, FS_Interval
<1> QED
  BY <1>5, <1>6 DEF Agreed, drafts, targets

\* A speculative round.
LEMMA SpecRoundWrites ==
  ASSUME RepliesInv, NEW r \in Live, Speculates(r), SpecRound(r)
  PROVE  \E tokens : NextText(r, tokens) /\ Conclude(r, tokens) /\ PassWrote(r, tokens)
<1> DEFINE p == Position(r)
<1>1. /\ r \in Req /\ TypeInv /\ p \in Nat /\ SpecTokens \in Nat /\ SpecTokens > 0
      /\ MaxLen \in Nat \ {0} /\ p + SpecTokens + 2 < MaxLen
  BY Numbers DEF RepliesInv, Live, Speculates, SpecRoundFits
<1>2. PICK right \in 0 .. SpecTokens :
        LET drafts == DraftVec(r, right)
            targets == Verified(r, right)
            accepted == Agreed(drafts, targets)
        IN  /\ kc' = Written(kc, Fed(r, drafts, p + SpecTokens))
            /\ draft_kc' = Written(draft_kc, Fed(r, drafts, DraftReach(r, accepted)))
            /\ Conclude(r, SubSeq(drafts, 1, accepted) \o <<targets[accepted + 1]>>)
  BY DEF SpecRound
<1> DEFINE drafts == DraftVec(r, right)
           targets == Verified(r, right)
           tokens == SubSeq(drafts, 1, right) \o <<targets[right + 1]>>
<1>3. Agreed(drafts, targets) = right /\ right \in Nat /\ right <= SpecTokens
  BY <1>1, AgreedAreRight
<1>4. /\ kc' = Written(kc, Fed(r, drafts, p + SpecTokens))
      /\ draft_kc' = Written(draft_kc, Fed(r, drafts, DraftReach(r, right)))
      /\ Conclude(r, tokens)
  BY <1>2, <1>3
<1>5. /\ \A j \in 1 .. SpecTokens : drafts[j] \in KVToken
      /\ \A j \in 1 .. right : drafts[j] = Token(r, p + j) /\ drafts[j] \in KVToken
      /\ targets[right + 1] = Token(r, p + (right + 1)) /\ targets[right + 1] \in KVToken
  <2>1. \A j \in 1 .. SpecTokens + 1 : Token(r, p + j) \in KVToken
    BY <1>1, Tokens
  <2>2. Refused \in KVToken
    BY Tokens
  <2>3. \A j \in 1 .. SpecTokens : drafts[j] = IF j <= right THEN Token(r, p + j) ELSE Refused
    BY DEF DraftVec
  <2>4. right + 1 \in 1 .. SpecTokens + 1 /\ right + 1 <= right + 1
    BY <1>1, <1>3
  <2>5. targets[right + 1] = Token(r, p + (right + 1))
    BY <2>4 DEF Verified
  <2>6. \A j \in 1 .. SpecTokens : j \in 1 .. SpecTokens + 1
    BY <1>1
  <2>7. \A j \in 1 .. right : j \in 1 .. SpecTokens /\ j <= right
    BY <1>1, <1>3
  <2> HIDE DEF drafts, targets, p
  <2> QED
    BY <2>1, <2>2, <2>3, <2>4, <2>5, <2>6, <2>7, Zenon
<1> HIDE DEF drafts, targets, p
<1>6. /\ tokens \in Seq(KVToken) /\ Len(tokens) = right + 1
      /\ \A j \in 1 .. right + 1 : tokens[j] = Token(r, p + j)
  <2> DEFINE front == SubSeq(drafts, 1, right)
             end == <<targets[right + 1]>>
  <2>1. /\ front \in Seq(KVToken) /\ Len(front) = right
        /\ \A i \in 1 .. right : front[i] = drafts[i]
    BY <1>3, <1>5, SubSeqProperties
  <2>2. end \in Seq(KVToken) /\ Len(end) = 1 /\ end[1] = targets[right + 1]
    BY <1>5
  <2> HIDE DEF front, end
  <2>3. /\ front \o end \in Seq(KVToken) /\ Len(front \o end) = right + 1
        /\ \A i \in 1 .. right + 1 :
             (front \o end)[i] = IF i <= right THEN front[i] ELSE end[i - right]
    <3>1. \A a, b \in Seq(KVToken) :
            /\ a \o b \in Seq(KVToken) /\ Len(a \o b) = Len(a) + Len(b)
            /\ \A i \in 1 .. Len(a) + Len(b) :
                 (a \o b)[i] = IF i <= Len(a) THEN a[i] ELSE b[i - Len(a)]
      BY ConcatProperties
    <3>2. /\ front \o end \in Seq(KVToken) /\ Len(front \o end) = Len(front) + Len(end)
          /\ \A i \in 1 .. Len(front) + Len(end) :
               (front \o end)[i] = IF i <= Len(front) THEN front[i] ELSE end[i - Len(front)]
      BY <2>1, <2>2, <3>1, Zenon
    <3> QED
      BY <2>1, <2>2, <3>2, Zenon
  <2>4. ASSUME NEW j \in 1 .. right + 1 PROVE (front \o end)[j] = Token(r, p + j)
    <3>1. CASE j <= right
      <4>1. j \in 1 .. right
        BY <1>3, <3>1
      <4>2. (front \o end)[j] = front[j]
        BY <2>3, <3>1
      <4> QED
        BY <1>5, <2>1, <4>1, <4>2
    <3>2. CASE j = right + 1
      <4>1. ~ (j <= right) /\ j - right = 1
        BY <1>3, <3>2
      <4>2. (front \o end)[j] = end[1]
        BY <2>3, <4>1
      <4> QED
        BY <1>5, <2>2, <3>2, <4>2
    <3>3. j <= right \/ j = right + 1
      BY <1>3
    <3> QED
      BY <3>1, <3>2, <3>3, Zenon
  <2> QED
    BY <2>3, <2>4 DEF front, end
<1> HIDE DEF tokens
<1>7. ASSUME NEW last \in Nat, p <= last, last <= p + SpecTokens
      PROVE  /\ DOMAIN Fed(r, drafts, last) = p .. last
             /\ p .. last \subseteq Slot
             /\ \A x \in p .. last : Fed(r, drafts, last)[x] \in KVToken
             /\ \A x \in p .. last : x <= p + right => Fed(r, drafts, last)[x] = Token(r, x)
  <2>1. p .. last \subseteq Slot
    BY <1>1, <1>7 DEF Slot
  <2>2. /\ DOMAIN Fed(r, drafts, last) = p .. last
        /\ \A x \in p .. last :
             Fed(r, drafts, last)[x] = IF x = p THEN Token(r, x) ELSE drafts[x - p]
    BY DEF Fed, p
  <2>3. ASSUME NEW x \in p .. last
        PROVE  /\ Fed(r, drafts, last)[x] \in KVToken
               /\ x <= p + right => Fed(r, drafts, last)[x] = Token(r, x)
    <3>1. CASE x = p
      BY <1>1, <2>2, <3>1, Tokens
    <3>2. CASE x # p
      <4>1. /\ x - p \in 1 .. SpecTokens /\ p + (x - p) = x
            /\ x <= p + right => x - p \in 1 .. right
        BY <1>1, <1>3, <1>7, <3>2
      <4>2. Fed(r, drafts, last)[x] = drafts[x - p]
        BY <2>2, <3>2
      <4>3. drafts[x - p] \in KVToken
        BY <1>5, <4>1
      <4>4. x <= p + right => drafts[x - p] = Token(r, x)
        BY <1>5, <4>1
      <4> QED
        BY <4>2, <4>3, <4>4
    <3> QED
      BY <3>1, <3>2
  <2> QED
    BY <2>1, <2>2, <2>3
<1>8. /\ p + SpecTokens \in Nat /\ p <= p + SpecTokens
      /\ DraftReach(r, right) \in Nat /\ p <= DraftReach(r, right)
      /\ DraftReach(r, right) <= p + SpecTokens /\ p + right <= DraftReach(r, right)
  BY <1>1, <1>3 DEF DraftReach, p
<1>9. ASSUME NEW last \in Nat, p <= last, last <= p + SpecTokens, p + right <= last,
             NEW cache \in [Slot -> KVToken]
      PROVE  /\ Written(cache, Fed(r, drafts, last)) \in [Slot -> KVToken]
             /\ \A x \in 0 .. p - 1 : Written(cache, Fed(r, drafts, last))[x] = cache[x]
             /\ \A x \in p .. p + right : Written(cache, Fed(r, drafts, last))[x] = Token(r, x)
  <2> DEFINE new == Fed(r, drafts, last)
  <2>1. /\ DOMAIN new = p .. last /\ p .. last \subseteq Slot
        /\ \A x \in p .. last : new[x] \in KVToken
        /\ \A x \in p .. last : x <= p + right => new[x] = Token(r, x)
    BY <1>7, <1>9
  <2> HIDE DEF new
  <2>2. Written(cache, new) \in [Slot -> KVToken]
    BY <1>9, <2>1, WrittenType
  <2>3. ASSUME NEW x \in 0 .. p - 1 PROVE Written(cache, new)[x] = cache[x]
    <3>1. x \in Slot /\ x \notin p .. last
      BY <1>1 DEF Slot
    <3>2. x \in DOMAIN cache \ DOMAIN new
      BY <1>9, <2>1, <3>1
    <3>3. \A y \in DOMAIN cache \ DOMAIN new : Written(cache, new)[y] = cache[y]
      BY WrittenFacts
    <3> QED
      BY <3>2, <3>3
  <2>4. ASSUME NEW x \in p .. p + right PROVE Written(cache, new)[x] = Token(r, x)
    <3>1. x \in p .. last /\ x <= p + right
      BY <1>1, <1>3, <1>9
    <3>2. x \in DOMAIN new /\ new[x] = Token(r, x)
      BY <2>1, <3>1
    <3>3. \A y \in DOMAIN new : Written(cache, new)[y] = new[y]
      BY WrittenFacts
    <3> QED
      BY <3>2, <3>3
  <2> QED
    BY <2>2, <2>3, <2>4 DEF new
<1>10. /\ kc' \in [Slot -> KVToken]
       /\ \A x \in 0 .. p - 1 : kc'[x] = kc[x]
       /\ \A x \in p .. p + right : kc'[x] = Token(r, x)
  <2>1. kc \in [Slot -> KVToken] /\ p + right <= p + SpecTokens /\ p + SpecTokens <= p + SpecTokens
    BY <1>1, <1>3 DEF TypeInv
  <2> QED
    BY <1>4, <1>8, <1>9, <2>1
<1>11. /\ draft_kc' \in [Slot -> KVToken]
       /\ \A x \in 0 .. p - 1 : draft_kc'[x] = draft_kc[x]
       /\ \A x \in p .. p + right : draft_kc'[x] = Token(r, x)
  <2>1. draft_kc \in [Slot -> KVToken]
    BY <1>1 DEF TypeInv
  <2> QED
    BY <1>4, <1>8, <1>9, <2>1
<1>12. p + Len(tokens) - 1 = p + right /\ p + right \in Slot
  BY <1>1, <1>3, <1>6 DEF Slot
<1>13. NextText(r, tokens)
  BY <1>6, <1>12 DEF NextText, p
<1>14. PassWrote(r, tokens)
  BY <1>10, <1>11, <1>12 DEF PassWrote, p
<1> QED
  BY <1>4, <1>13, <1>14

LEMMA PassWrites ==
  ASSUME RepliesInv, NEW r \in Live, DecodePass(r)
  PROVE  /\ ~ Pending(r)
         /\ \E tokens : NextText(r, tokens) /\ Conclude(r, tokens) /\ PassWrote(r, tokens)
BY DecodeWrites, SpecRoundWrites DEF DecodePass

-----------------------------------------------------------------------------
(* The reply is the target's, and no write leaves the arrays *)

\* One batch of r, whichever it is.
LEMMA BatchOK ==
  ASSUME RepliesInv, NEW r \in Req, Batch(r)
  PROVE  StepOK(r)
<1>1. IsNext(r) /\ r \in Live
  BY DEF Batch, IsNext
<1>2. CASE Prefill(r)
  BY <1>1, <1>2, PrefillOK
<1>3. CASE EmitPending(r)
  BY <1>1, <1>3, EmitOK
<1>4. CASE DecodePass(r)
  <2>1. ~ Pending(r)
    BY <1>1, <1>4, PassWrites
  <2>2. PICK tokens : NextText(r, tokens) /\ Conclude(r, tokens) /\ PassWrote(r, tokens)
    BY <1>1, <1>4, PassWrites
  <2>3. kc' \in [Slot -> KVToken] /\ draft_kc' \in [Slot -> KVToken]
    BY <2>2 DEF PassWrote
  <2> QED
    BY <1>1, <2>1, <2>2, <2>3, ConcludeOK
<1>5. CASE Raises(r)
  BY <1>1, <1>5, StatusOK
<1> QED
  BY <1>2, <1>3, <1>4, <1>5 DEF Batch

LEMMA RepliesStart == Init => RepliesInv
<1> SUFFICES ASSUME Init PROVE RepliesInv
  OBVIOUS
<1>1. Zero \in KVToken /\ <<>> \in Seq(KVToken) /\ <<>> \in Seq(Chosen) /\ Len(<<>>) = 0
  BY Tokens
<1>2. TypeInv
  BY <1>1 DEF Init, SchedulerInit, TypeInv, Status
<1>3. ASSUME NEW r \in Req PROVE CountsOK(r) /\ TargetsOK(r)
  <2>1. /\ status[r] = "none" /\ input_ids[r] = <<>> /\ num_scheduled_tokens[r] = 0
        /\ num_cached_tokens[r] = 0 /\ generated[r] = 0 /\ chosen[r] = <<>>
    BY DEF Init, SchedulerInit
  <2>2. PromptTokens(r) = 0 /\ PrefilledTokens(r) = 0 /\ ~ Sent(r) /\ r \notin Live
    BY <1>1, <2>1 DEF PromptTokens, PrefilledTokens, Sent, Live
  <2> QED
    BY <1>1, <2>1, <2>2 DEF CountsOK, TargetsOK
<1> QED
  BY <1>2, <1>3 DEF RepliesInv

LEMMA StepKeeps ==
  ASSUME RepliesInv, NEW r \in Req, StepOK(r)
  PROVE  RepliesInv'
<1>1. TypeInv /\ TypeInv' /\ OthersSame(r) /\ UNCHANGED num_cached_tokens
      /\ CountsOK(r)' /\ TargetsOK(r)'
  BY DEF RepliesInv, StepOK
<1>2. ASSUME NEW t \in Req \ {r} PROVE CountsOK(t)' /\ TargetsOK(t)'
  <2>1. CountsOK(t) /\ TargetsOK(t)
    BY DEF RepliesInv
  <2> QED
    BY <1>1, <2>1, OthersKeep
<1> QED
  BY <1>1, <1>2, Zenon DEF RepliesInv

LEMMA RepliesStep == RepliesInv /\ [Next]_vars => RepliesInv'
<1> SUFFICES ASSUME RepliesInv, [Next]_vars PROVE RepliesInv'
  OBVIOUS
<1>1. CASE UNCHANGED vars
  BY <1>1 DEF vars, schedulerVars, graphVars, RepliesInv, TypeInv, CountsOK, TargetsOK,
              PromptTokens, PrefilledTokens, PrefillComplete, Sent, Live
<1>2. ASSUME NEW r \in Req, Arrive(r) \/ Cancel(r) \/ Batch(r) PROVE RepliesInv'
  <2>1. StepOK(r)
    BY <1>2, ArriveOK, StatusOK, BatchOK
  <2> QED
    BY <2>1, StepKeeps
<1> QED
  BY <1>1, <1>2 DEF Next

LEMMA RepliesAlways == Spec => []RepliesInv
<1> QED
  BY RepliesStart, RepliesStep, PTL DEF Spec

\* The K/V arrays keep their size: no prefill, no chunk of the decode graph,
\* no verification and no pass of the draft model writes past their end, for
\* every length, bucket, chunk and number of drafts.
THEOREM WritesStayInside == Spec => []WritesFit
<1>1. RepliesInv => WritesFit
  BY DEF RepliesInv, TypeInv, WritesFit
<1> QED
  BY <1>1, RepliesAlways, PTL

\* Every token chosen for a sequence is the one the target model alone would
\* have chosen there, speculative rounds included.
THEOREM RepliesAreTargets == Spec => []ReplyIsTargets
<1>1. RepliesInv => ReplyIsTargets
  BY DEF RepliesInv, TargetsOK, ReplyIsTargets
<1> QED
  BY <1>1, RepliesAlways, PTL

-----------------------------------------------------------------------------
(* What the passes read *)

\* Requests come as foreground or background ones.
TwoKinds == \A r \in Req : Kind[r] \in {"foreground", "background"}

Decoding(r) == r \in Live /\ PrefillComplete(r)

\* The decode phase is taken by turns: a decode goes before any prefill.
OneDecodes == \A r, t \in Req : Decoding(r) /\ Decoding(t) => r = t

\* The K/V that belongs at position x of r.
TextAt(r, x) == Token(r, IF x < PromptTokens(r) THEN x + 1 ELSE x)

\* The arrays hold the text of the sequence that decodes.
ArraysOK(r) ==
  Decoding(r) =>
    \A x \in 0 .. Position(r) - 1 \ {PromptTokens(r)} :
      /\ kc[x] = TextAt(r, x)
      /\ Speculates(r) => draft_kc[x] = TextAt(r, x)

ReadsOK(r) ==
  \A j \in 1 .. Len(chosen[r]) :
    /\ DOMAIN chosen[r][j].read =
         0 .. (IF j = 1 THEN PromptTokens(r) - 1 ELSE PromptTokens(r) + j - 1)
    /\ \A x \in DOMAIN chosen[r][j].read \ {PromptTokens(r)} :
         chosen[r][j].read[x] = TextAt(r, x)

ReadsInv == RepliesInv /\ OneDecodes /\ \A r \in Req : ArraysOK(r) /\ ReadsOK(r)

\* A step of r that leaves r as it should be and the arrays to whoever else
\* decodes.
TurnOK(r) ==
  /\ StepOK(r) /\ ArraysOK(r)' /\ ReadsOK(r)'
  /\ \A t \in Req \ {r} : Decoding(t) => ~ Decoding(r)' /\ UNCHANGED <<kc, draft_kc>>

LEMMA DecodeGoesFirst ==
  ASSUME TwoKinds, NEW r \in Req, NEW t \in Req \ {r}, IsNext(r), Decoding(t)
  PROVE  PrefillComplete(r)
<1> SUFFICES ASSUME ~ PrefillComplete(r) PROVE FALSE
  OBVIOUS
<1>1. Kind[r] \in {"foreground", "background"} /\ Kind[t] \in {"foreground", "background"}
  BY DEF TwoKinds
<1>2. EffectivePriority(t) = 0
  BY <1>1 DEF EffectivePriority, Decoding
<1>3. EffectivePriority(r) \in {1, 3}
  BY <1>1 DEF EffectivePriority
<1>4. Precedes(r, t)
  BY DEF IsNext, Decoding
<1> QED
  BY <1>2, <1>3, <1>4 DEF Precedes

\* With the text of r in place, a step that changes neither it nor the arrays
\* keeps it there.
LEMMA QuietTurn ==
  ASSUME ReadsInv, NEW r \in Req, StepOK(r),
         UNCHANGED <<input_ids, kc, draft_kc, chosen>>,
         Decoding(r)' => Decoding(r),
         generated'[r] = generated[r] \/ (generated[r] = 0 /\ generated'[r] = 1)
  PROVE  TurnOK(r)
<1>1. TypeInv /\ ArraysOK(r) /\ ReadsOK(r) /\ OneDecodes
  BY DEF ReadsInv, RepliesInv
<1>2. PromptTokens(r)' = PromptTokens(r) /\ PromptTokens(r) \in Nat /\ generated[r] \in Nat
      /\ Position(r) = PromptTokens(r) + generated[r]
      /\ Position(r)' = PromptTokens(r) + generated'[r]
      /\ MaxLen \in Nat /\ SpecTokens \in Nat
  BY <1>1, Numbers DEF PromptTokens, Position
<1>3. Speculates(r)' => Speculates(r)
  BY <1>2 DEF Speculates, SpecRoundFits
<1>4. ArraysOK(r)'
  <2>1. ASSUME Decoding(r)', NEW x \in 0 .. Position(r)' - 1 \ {PromptTokens(r)'}
        PROVE  /\ kc'[x] = TextAt(r, x)'
               /\ Speculates(r)' => draft_kc'[x] = TextAt(r, x)'
    <3>1. x \in 0 .. Position(r) - 1 \ {PromptTokens(r)}
      BY <1>2, <2>1
    <3>2. kc[x] = TextAt(r, x) /\ (Speculates(r) => draft_kc[x] = TextAt(r, x))
      BY <1>1, <2>1, <3>1 DEF ArraysOK
    <3>3. TextAt(r, x)' = TextAt(r, x)
      BY <1>2 DEF TextAt, Token
    <3> QED
      BY <1>3, <3>2, <3>3
  <2> QED
    BY <2>1 DEF ArraysOK
<1>5. ReadsOK(r)'
  BY <1>1, <1>2 DEF ReadsOK, TextAt, Token
<1>6. \A t \in Req \ {r} : Decoding(t) => ~ Decoding(r)' /\ UNCHANGED <<kc, draft_kc>>
  BY <1>1 DEF OneDecodes
<1> QED
  BY <1>4, <1>5, <1>6 DEF TurnOK

LEMMA ArriveTurn ==
  ASSUME ReadsInv, NEW r \in Req, Arrive(r)
  PROVE  TurnOK(r)
<1>1. RepliesInv /\ OneDecodes /\ CountsOK(r)
  BY DEF ReadsInv, RepliesInv
<1>2. StepOK(r) /\ ~ PrefillComplete(r)' /\ UNCHANGED <<kc, draft_kc, chosen>> /\ ~ Sent(r)
  BY <1>1, ArriveOK DEF Arrive, graphVars, Sent
<1>3. ~ Decoding(r)' /\ ArraysOK(r)'
  BY <1>2 DEF Decoding, ArraysOK
<1>4. chosen'[r] = <<>>
  BY <1>1, <1>2 DEF CountsOK
<1>5. ReadsOK(r)'
  <2>1. Len(chosen'[r]) = 0
    BY <1>4, EmptySeq
  <2> QED
    BY <2>1 DEF ReadsOK
<1> QED
  BY <1>2, <1>3, <1>5 DEF TurnOK

LEMMA PrefillTurn ==
  ASSUME TwoKinds, ReadsInv, NEW r \in Req, IsNext(r), Prefill(r)
  PROVE  TurnOK(r)
<1>1. RepliesInv /\ TypeInv
  BY DEF ReadsInv, RepliesInv
<1> DEFINE last == PromptTokens(r) - 1
<1>2. /\ StepOK(r) /\ UNCHANGED <<input_ids, generated>> /\ generated[r] = 0
      /\ ~ PrefillComplete(r)
      /\ PrefillComplete(r)' =>
           /\ last \in Slot
           /\ chosen'[r] = <<Choice(Token(r, PromptTokens(r) + 1), Attended(kc', last))>>
           /\ \A x \in 0 .. last :
                /\ kc'[x] = Token(r, x + 1)
                /\ SpecTokens > 0 => draft_kc'[x] = Token(r, x + 1)
  BY <1>1, PrefillOK
<1>3. /\ PromptTokens(r)' = PromptTokens(r) /\ PromptTokens(r) \in Nat /\ MaxLen \in Nat
      /\ Position(r)' = PromptTokens(r)
  <2>1. PromptTokens(r)' = PromptTokens(r) /\ PromptTokens(r) \in Nat /\ MaxLen \in Nat
    BY <1>1, <1>2, Numbers DEF PromptTokens
  <2> QED
    BY <1>2, <2>1 DEF Position
<1>4. \A t \in Req \ {r} : ~ Decoding(t)
  BY <1>2, DecodeGoesFirst
<1>5. CASE PrefillComplete(r)'
  <2> DEFINE first == Choice(Token(r, PromptTokens(r) + 1), Attended(kc', last))
  <2>1. kc' \in [Slot -> KVToken] /\ last \in Slot
    BY <1>2, <1>5 DEF StepOK, TypeInv
  <2>2. /\ Len(chosen'[r]) = 1 /\ chosen'[r][1] = first
        /\ first.read = Attended(kc', last)
    <3>1. chosen'[r] = <<first>>
      BY <1>2, <1>5
    <3>2. first.read = Attended(kc', last)
      BY DEF Choice
    <3> HIDE DEF first
    <3> QED
      BY <3>1, <3>2
  <2>3. /\ DOMAIN first.read = 0 .. last
        /\ \A x \in 0 .. last : first.read[x] = kc'[x]
    BY <2>1, <2>2, AttendedType
  <2> HIDE DEF first
  <2>4. ASSUME NEW x \in 0 .. last
        PROVE  /\ kc'[x] = TextAt(r, x)'
               /\ SpecTokens > 0 => draft_kc'[x] = TextAt(r, x)'
    <3>1. TextAt(r, x)' = Token(r, x + 1)
      BY <1>3 DEF TextAt, Token
    <3> QED
      BY <1>2, <1>5, <3>1
  <2> HIDE DEF last
  <2>5. ReadsOK(r)'
    <3>1. ASSUME NEW j \in 1 .. Len(chosen'[r])
          PROVE  /\ DOMAIN chosen'[r][j].read =
                      0 .. (IF j = 1 THEN PromptTokens(r)' - 1 ELSE PromptTokens(r)' + j - 1)
                 /\ \A x \in DOMAIN chosen'[r][j].read \ {PromptTokens(r)'} :
                      chosen'[r][j].read[x] = TextAt(r, x)'
      <4>1. j = 1 /\ chosen'[r][j] = first
        BY <2>2
      <4> QED
        BY <1>3, <2>3, <2>4, <4>1 DEF last
    <3> QED
      BY <3>1 DEF ReadsOK
  <2>6. ArraysOK(r)'
    <3>1. \A x \in 0 .. Position(r)' - 1 \ {PromptTokens(r)'} : x \in 0 .. last
      BY <1>3 DEF last
    <3>2. Speculates(r)' => SpecTokens > 0
      BY DEF Speculates
    <3> QED
      BY <2>4, <3>1, <3>2 DEF ArraysOK
  <2>7. \A t \in Req \ {r} : Decoding(t) => ~ Decoding(r)' /\ UNCHANGED <<kc, draft_kc>>
    BY <1>4
  <2> QED
    BY <1>2, <2>5, <2>6, <2>7 DEF TurnOK
<1>6. CASE ~ PrefillComplete(r)'
  <2>1. UNCHANGED <<input_ids, kc, draft_kc, chosen>>
    BY <1>2, <1>6 DEF Prefill, graphVars
  <2>2. StepOK(r) /\ generated'[r] = generated[r] /\ (Decoding(r)' => Decoding(r))
    BY <1>2, <1>6 DEF Decoding
  <2> QED
    BY <2>1, <2>2, QuietTurn
<1> QED
  BY <1>5, <1>6

LEMMA PassTurn ==
  ASSUME ReadsInv, NEW r \in Live, DecodePass(r)
  PROVE  TurnOK(r)
<1>1. /\ r \in Req /\ RepliesInv /\ TypeInv /\ ArraysOK(r) /\ ReadsOK(r) /\ OneDecodes
      /\ ~ Pending(r)
  BY PassWrites DEF ReadsInv, RepliesInv, Live
<1> DEFINE p == Position(r)
           g == generated[r]
           prompt == PromptTokens(r)
<1>2. PICK tokens : NextText(r, tokens) /\ Conclude(r, tokens) /\ PassWrote(r, tokens)
  BY <1>1, PassWrites
<1>3. /\ kc' \in [Slot -> KVToken] /\ draft_kc' \in [Slot -> KVToken]
      /\ \A x \in 0 .. p - 1 : kc'[x] = kc[x] /\ draft_kc'[x] = draft_kc[x]
      /\ \A x \in p .. p + Len(tokens) - 1 :
           kc'[x] = Token(r, x) /\ (Speculates(r) => draft_kc'[x] = Token(r, x))
  BY <1>2 DEF PassWrote
<1>4. /\ StepOK(r) /\ UNCHANGED input_ids /\ prompt' = prompt
      /\ g > 0 /\ Len(chosen[r]) = g /\ PrefillComplete(r)
      /\ \E m \in 1 .. Len(tokens) :
           /\ generated'[r] = g + m
           /\ Len(chosen'[r]) = g + m
           /\ \A j \in 1 .. g : chosen'[r][j] = chosen[r][j]
           /\ \A j \in 1 .. m : chosen'[r][g + j].read = Attended(kc', p + j - 1)
  BY <1>1, <1>2, <1>3, ConcludeOK
<1>5. PICK m \in 1 .. Len(tokens) :
        /\ generated'[r] = g + m
        /\ Len(chosen'[r]) = g + m
        /\ \A j \in 1 .. g : chosen'[r][j] = chosen[r][j]
        /\ \A j \in 1 .. m : chosen'[r][g + j].read = Attended(kc', p + j - 1)
  BY <1>4
<1>6. /\ g \in Nat /\ prompt \in Nat /\ p = prompt + g /\ MaxLen \in Nat /\ SpecTokens \in Nat
  BY <1>1, Numbers DEF Position
<1>7. /\ Len(tokens) \in Nat /\ m \in Nat /\ 1 <= m /\ m <= Len(tokens)
      /\ p + Len(tokens) - 1 <= MaxLen - 1
  <2>1. Len(tokens) \in Nat /\ p + Len(tokens) - 1 \in Slot
    BY <1>2, LenProperties DEF NextText
  <2> QED
    BY <1>5, <1>6, <2>1 DEF Slot
<1>8. Position(r)' = p + m
  BY <1>4, <1>5, <1>6, <1>7 DEF Position
<1> HIDE DEF p, g, prompt
<1>9. ASSUME NEW x PROVE TextAt(r, x)' = TextAt(r, x)
  BY <1>4 DEF TextAt, Token, prompt
<1>10. ASSUME NEW x \in 0 .. p + m - 1, x # prompt
       PROVE  /\ kc'[x] = TextAt(r, x)
              /\ Speculates(r) => draft_kc'[x] = TextAt(r, x)
  <2>1. CASE x < p
    <3>1. x \in 0 .. p - 1
      BY <1>6, <1>7, <2>1
    <3>2. x \in 0 .. Position(r) - 1 \ {PromptTokens(r)} /\ Decoding(r)
      BY <1>4, <1>10, <3>1 DEF p, prompt, Decoding
    <3>3. kc[x] = TextAt(r, x) /\ (Speculates(r) => draft_kc[x] = TextAt(r, x))
      BY <1>1, <3>2 DEF ArraysOK
    <3> QED
      BY <1>3, <3>1, <3>3
  <2>2. CASE x >= p
    <3>1. x \in p .. p + Len(tokens) - 1 /\ ~ (x < prompt)
      BY <1>6, <1>7, <2>2
    <3>2. TextAt(r, x) = Token(r, x)
      BY <3>1 DEF TextAt, prompt
    <3> QED
      BY <1>3, <3>1, <3>2
  <2> QED
    BY <1>6, <1>7, <2>1, <2>2
<1>11. ArraysOK(r)'
  <2>1. Speculates(r)' => Speculates(r)
    BY <1>6, <1>7, <1>8 DEF Speculates, SpecRoundFits, p
  <2>2. ASSUME NEW x \in 0 .. Position(r)' - 1 \ {PromptTokens(r)'}
        PROVE  kc'[x] = TextAt(r, x)' /\ (Speculates(r)' => draft_kc'[x] = TextAt(r, x)')
    <3>1. x \in 0 .. p + m - 1 /\ x # prompt
      <4>1. PromptTokens(r)' = prompt
        BY <1>4 DEF prompt
      <4> QED
        BY <1>6, <1>7, <1>8, <2>2, <4>1
    <3> QED
      BY <1>9, <1>10, <2>1, <3>1
  <2> QED
    BY <2>2 DEF ArraysOK
<1>12. ASSUME NEW j \in 1 .. g + m
       PROVE  /\ DOMAIN chosen'[r][j].read =
                   0 .. (IF j = 1 THEN PromptTokens(r)' - 1 ELSE PromptTokens(r)' + j - 1)
              /\ \A x \in DOMAIN chosen'[r][j].read \ {PromptTokens(r)'} :
                   chosen'[r][j].read[x] = TextAt(r, x)'
  <2>1. CASE j <= g
    <3>1. j \in 1 .. g /\ j \in 1 .. Len(chosen[r])
      BY <1>4, <1>6, <1>7, <2>1 DEF g
    <3>2. chosen'[r][j] = chosen[r][j]
      BY <1>5, <3>1
    <3>3. PromptTokens(r)' = PromptTokens(r)
      BY <1>4 DEF prompt
    <3> QED
      BY <1>1, <1>9, <3>1, <3>2, <3>3 DEF ReadsOK
  <2>2. CASE j > g
    <3>1. PICK i \in 1 .. m : j = g + i
      <4>1. j - g \in 1 .. m /\ j = g + (j - g)
        BY <1>6, <1>7, <2>2
      <4> QED
        BY <4>1
    <3>2. /\ p + i - 1 = prompt + j - 1 /\ p + i - 1 \in Slot /\ j # 1
          /\ 0 .. p + i - 1 \subseteq 0 .. p + m - 1
      <4>1. i \in Nat /\ 1 <= i /\ i <= m /\ g >= 1
        BY <1>4, <1>6, <1>7
      <4> QED
        BY <1>6, <1>7, <3>1, <4>1 DEF Slot
    <3>3. /\ DOMAIN Attended(kc', p + i - 1) = 0 .. p + i - 1
          /\ \A x \in 0 .. p + i - 1 : Attended(kc', p + i - 1)[x] = kc'[x]
      BY <1>3, <3>2, AttendedType
    <3>4. chosen'[r][j].read = Attended(kc', p + i - 1)
      BY <1>5, <3>1
    <3>5. PromptTokens(r)' = prompt
      BY <1>4 DEF prompt
    <3>6. \A x \in 0 .. p + i - 1 : x # prompt => kc'[x] = TextAt(r, x)'
      BY <1>9, <1>10, <3>2
    <3> QED
      BY <3>2, <3>3, <3>4, <3>5, <3>6
  <2> QED
    BY <1>6, <1>7, <2>1, <2>2
<1>13. ReadsOK(r)'
  BY <1>5, <1>12 DEF ReadsOK
<1>14. \A t \in Req \ {r} : ~ Decoding(t)
  BY <1>1, <1>4 DEF OneDecodes, Decoding
<1> QED
  BY <1>4, <1>11, <1>13, <1>14 DEF TurnOK

LEMMA BatchTurn ==
  ASSUME TwoKinds, ReadsInv, NEW r \in Req, Batch(r)
  PROVE  TurnOK(r)
<1>1. IsNext(r) /\ r \in Live /\ RepliesInv
  BY DEF Batch, IsNext, ReadsInv
<1>2. CASE Prefill(r)
  BY <1>1, <1>2, PrefillTurn
<1>3. CASE EmitPending(r)
  <2>1. /\ StepOK(r) /\ UNCHANGED <<input_ids, kc, draft_kc, chosen>>
        /\ generated[r] = 0 /\ generated'[r] = 1 /\ PrefillComplete(r) /\ r \in Live
    BY <1>1, <1>3, EmitOK
  <2> QED
    BY <2>1, QuietTurn DEF Decoding
<1>4. CASE DecodePass(r)
  BY <1>1, <1>4, PassTurn
<1>5. CASE Raises(r)
  <2>1. /\ StepOK(r) /\ r \in Live
        /\ UNCHANGED <<input_ids, num_scheduled_tokens, generated, kc, draft_kc, chosen>>
    BY <1>1, <1>5, StatusOK
  <2>2. Decoding(r)' => Decoding(r)
    BY <2>1 DEF Decoding, StepOK, PrefillComplete, PrefilledTokens, PromptTokens
  <2> QED
    BY <2>1, <2>2, QuietTurn
<1> QED
  BY <1>2, <1>3, <1>4, <1>5 DEF Batch

LEMMA CancelTurn ==
  ASSUME ReadsInv, NEW r \in Req, Cancel(r)
  PROVE  TurnOK(r)
<1>1. /\ StepOK(r) /\ r \in Live
      /\ UNCHANGED <<input_ids, num_scheduled_tokens, generated, kc, draft_kc, chosen>>
  BY StatusOK DEF ReadsInv
<1>2. Decoding(r)' => Decoding(r)
  BY <1>1 DEF Decoding, StepOK, PrefillComplete, PrefilledTokens, PromptTokens
<1> QED
  BY <1>1, <1>2, QuietTurn

\* A turn of r leaves everyone's text in place.
LEMMA TurnKeeps ==
  ASSUME ReadsInv, NEW r \in Req, TurnOK(r)
  PROVE  ReadsInv'
<1>1. /\ RepliesInv /\ RepliesInv' /\ OneDecodes /\ StepOK(r) /\ OthersSame(r)
      /\ UNCHANGED num_cached_tokens
  BY StepKeeps DEF ReadsInv, TurnOK, StepOK
<1>2. ASSUME NEW t \in Req \ {r}
      PROVE  /\ Decoding(t)' <=> Decoding(t)
             /\ PromptTokens(t)' = PromptTokens(t) /\ Position(t)' = Position(t)
             /\ chosen'[t] = chosen[t]
  BY <1>1 DEF OthersSame, Decoding, Live, PrefillComplete, PrefilledTokens, PromptTokens, Position
<1>3. OneDecodes'
  <2>1. ASSUME NEW s \in Req, NEW t \in Req, Decoding(s)', Decoding(t)' PROVE s = t
    <3>1. CASE s # r /\ t # r
      BY <1>1, <1>2, <2>1, <3>1 DEF OneDecodes
    <3>2. CASE s = r /\ t # r
      BY <1>2, <2>1, <3>2 DEF TurnOK
    <3>3. CASE s # r /\ t = r
      BY <1>2, <2>1, <3>3 DEF TurnOK
    <3> QED
      BY <3>1, <3>2, <3>3
  <2> QED
    BY <2>1 DEF OneDecodes
<1>4. ASSUME NEW t \in Req \ {r} PROVE ArraysOK(t)' /\ ReadsOK(t)'
  <2>1. ArraysOK(t) /\ ReadsOK(t)
    BY DEF ReadsInv
  <2>2. \A x : TextAt(t, x)' = TextAt(t, x)
    BY <1>2 DEF TextAt, Token
  <2>3. Speculates(t)' <=> Speculates(t)
    BY <1>2 DEF Speculates, SpecRoundFits
  <2>4. Decoding(t)' => UNCHANGED <<kc, draft_kc>>
    BY <1>2 DEF TurnOK
  <2>5. ArraysOK(t)'
    BY <1>2, <2>1, <2>2, <2>3, <2>4 DEF ArraysOK
  <2>6. ReadsOK(t)'
    BY <1>2, <2>1, <2>2 DEF ReadsOK
  <2> QED
    BY <2>5, <2>6
<1>5. ArraysOK(r)' /\ ReadsOK(r)'
  BY DEF TurnOK
<1> QED
  BY <1>1, <1>3, <1>4, <1>5, Zenon DEF ReadsInv

LEMMA ReadsStart == Init => ReadsInv
<1> SUFFICES ASSUME Init PROVE ReadsInv
  OBVIOUS
<1>1. RepliesInv
  BY RepliesStart
<1>2. ASSUME NEW r \in Req PROVE ~ Decoding(r) /\ ReadsOK(r)
  <2>1. status[r] = "none" /\ chosen[r] = <<>>
    BY DEF Init, SchedulerInit
  <2>2. Len(chosen[r]) = 0
    BY <2>1, EmptySeq
  <2> QED
    BY <2>1, <2>2 DEF Decoding, Live, ReadsOK
<1> QED
  BY <1>1, <1>2 DEF ReadsInv, OneDecodes, ArraysOK

LEMMA ReadsStep == TwoKinds /\ ReadsInv /\ [Next]_vars => ReadsInv'
<1> SUFFICES ASSUME TwoKinds, ReadsInv, [Next]_vars PROVE ReadsInv'
  OBVIOUS
<1>1. CASE UNCHANGED vars
  <2>1. RepliesInv'
    BY <1>1, RepliesStep DEF ReadsInv
  <2>2. UNCHANGED <<status, input_ids, num_cached_tokens, num_scheduled_tokens, generated,
                    kc, draft_kc, chosen>>
    BY <1>1 DEF vars, schedulerVars, graphVars
  <2>3. \A r \in Req : /\ Decoding(r)' <=> Decoding(r)
                       /\ PromptTokens(r)' = PromptTokens(r) /\ Position(r)' = Position(r)
                       /\ \A x : TextAt(r, x)' = TextAt(r, x)
    BY <2>2 DEF Decoding, Live, PrefillComplete, PrefilledTokens, PromptTokens, Position,
                TextAt, Token
  <2>4. OneDecodes'
    BY <2>3 DEF ReadsInv, OneDecodes
  <2>5. ASSUME NEW r \in Req PROVE ArraysOK(r)' /\ ReadsOK(r)'
    <3>1. ArraysOK(r) /\ ReadsOK(r)
      BY DEF ReadsInv
    <3>2. Speculates(r)' <=> Speculates(r)
      BY <2>3 DEF Speculates, SpecRoundFits
    <3>3. ArraysOK(r)'
      BY <2>2, <2>3, <3>1, <3>2 DEF ArraysOK
    <3>4. ReadsOK(r)'
      BY <2>2, <2>3, <3>1 DEF ReadsOK
    <3> QED
      BY <3>3, <3>4
  <2> QED
    BY <2>1, <2>4, <2>5, Zenon DEF ReadsInv
<1>2. ASSUME NEW r \in Req, Arrive(r) \/ Cancel(r) \/ Batch(r) PROVE ReadsInv'
  <2>1. TurnOK(r)
    BY <1>2, ArriveTurn, CancelTurn, BatchTurn
  <2> QED
    BY <2>1, TurnKeeps
<1> QED
  BY <1>1, <1>2 DEF Next

\* One set of arrays for all sequences is enough: under the scheduler's order
\* every token of every reply is chosen from the K/V of the sequence's own
\* earlier tokens, whatever arrives, is cancelled or raises in between.
THEOREM OwnTokensOnly ==
  ASSUME TwoKinds
  PROVE  Spec => []AttendsOwnTokens
<1>1. ReadsInv => AttendsOwnTokens
  BY DEF ReadsInv, ReadsOK, TextAt, AttendsOwnTokens
<1> QED
  BY <1>1, ReadsStart, ReadsStep, PTL DEF Spec

\* The draft model has the K/V of the whole accepted text whenever a
\* speculative round is about to start.
THEOREM DraftsFollow ==
  ASSUME TwoKinds
  PROVE  Spec => []DraftFollows
<1>1. ReadsInv => DraftFollows
  <2>1. \A r \in Live : r \in Req
    BY DEF Live
  <2> QED
    BY <2>1 DEF ReadsInv, ArraysOK, Decoding, TextAt, DraftFollows
<1> QED
  BY <1>1, ReadsStart, ReadsStep, PTL DEF Spec
=============================================================================
