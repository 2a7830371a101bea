---------------------------- MODULE RuntimeProofs ----------------------------
(***************************************************************************)
(* Proofs about the runtime, for every set of requests, every prompt and   *)
(* every setting.                                                          *)
(***************************************************************************)
EXTENDS RuntimeProperties, SequenceTheorems, TLAPS

-----------------------------------------------------------------------------
(* What the operations return *)

\* The words of a history are as many as its entries.
LEMMA TokenizeType ==
  ASSUME NEW h \in Seq(Text)
  PROVE  Tokenize(h) \in Seq(Word) /\ Len(Tokenize(h)) = Len(h)
<1>1. Len(h) \in Nat /\ \A i \in 1 .. Len(h) : h[i] \in Text
  BY LenProperties, ElementOfSeq
<1>2. \A i \in 1 .. Len(h) : h[i].word \in Word
  BY <1>1 DEF Text
<1> QED
  BY <1>1, <1>2 DEF Tokenize

\* A message has the words of the prompt, or of the reply so far.
LEMMA MessageTypes ==
  ASSUME TypeOK, NEW r \in Req
  PROVE  /\ UserMessage(r) \in Seq(Text)
         /\ Len(UserMessage(r)) = Len(Prompt[r])
         /\ Len(Prompt[r]) \in Nat \ {0}
         /\ AssistantMessage(r) \in Seq(Text)
<1>1. Prompt[r] \in Seq(Word) /\ Prompt[r] # <<>> /\ response_text[r] \in Seq(Word)
  BY RuntimeAssumption DEF TypeOK, ReplyTypeOK
<1>2. /\ Len(Prompt[r]) \in Nat \ {0}
      /\ \A i \in 1 .. Len(Prompt[r]) : Prompt[r][i] \in Word
  BY <1>1, LenProperties, ElementOfSeq, EmptySeq
<1>3. /\ Len(response_text[r]) \in Nat
      /\ \A i \in 1 .. Len(response_text[r]) : response_text[r][i] \in Word
  BY <1>1, LenProperties, ElementOfSeq
<1>4. UserMessage(r) \in Seq(Text) /\ Len(UserMessage(r)) = Len(Prompt[r])
  BY <1>2 DEF UserMessage, Text
<1>5. AssistantMessage(r) \in Seq(Text)
  BY <1>3 DEF AssistantMessage, Text
<1> QED
  BY <1>2, <1>4, <1>5

LEMMA SchedulerNumbers ==
  ASSUME SchedulerTypeOK, NEW r \in Req
  PROVE  /\ PromptTokens(r) \in Nat
         /\ PrefilledTokens(r) \in Nat
         /\ PrefillComplete(r) <=> PrefilledTokens(r) = PromptTokens(r)
         /\ Chunk(r) \in Nat
         /\ ~ PrefillComplete(r) => /\ Chunk(r) > 0
                                    /\ PrefilledTokens(r) + Chunk(r) <= PromptTokens(r)
<1>1. PromptTokens(r) \in Nat /\ PrefilledTokens(r) \in Nat
  BY LenProperties DEF SchedulerTypeOK, PromptTokens, PrefilledTokens
<1>2. PrefilledTokens(r) <= PromptTokens(r)
  BY DEF SchedulerTypeOK
<1> QED
  BY <1>1, <1>2, SchedulerAssumption DEF PrefillComplete, Chunk

LEMMA BatchTokensType ==
  ASSUME SchedulerTypeOK, NEW r \in Req
  PROVE  BatchTokens(r) \in Nat /\ Reach(r) \subseteq Nat
<1>1. BatchTokens(r) \in Nat
  BY SchedulerNumbers DEF BatchTokens, SchedulerTypeOK
<1>2. Drafts(r) \subseteq Nat
  BY RuntimeAssumption DEF Drafts
<1>3. PromptTokens(r) + generated[r] \in Nat
  BY SchedulerNumbers DEF SchedulerTypeOK
<1> QED
  BY <1>1, <1>2, <1>3 DEF Reach

\* ensure_capacity takes pages from the pool for one block table.
LEMMA EnsureCapacityType ==
  ASSUME KVTypeOK, NEW q \in Req, NEW n \in Nat, KV!EnsureCapacity(q, n)
  PROVE  KVTypeOK'
<1> DEFINE m == KV!Missing(q, n)
<1>1. m \in Int
  BY LenProperties, RuntimeAssumption DEF KVTypeOK, KV!Missing, KV!PagesRequired
<1>2. CASE m <= 0
  BY <1>2 DEF KVTypeOK, KV!EnsureCapacity, KV!Pool!TypeOK, KV!poolVars
<1>3. CASE m > 0
  <2> DEFINE granted == KV!Pool!Granted(m)
             rest == SubSeq(free_pages, m + 1, Len(free_pages))
  <2>1. /\ m \in Nat /\ m <= Len(free_pages) /\ Len(free_pages) \in Nat
        /\ free_pages \in Seq(KV!Pool!Page)
        /\ \A i \in 1 .. Len(free_pages) : free_pages[i] \in KV!Pool!Page
    BY <1>1, <1>3, LenProperties, ElementOfSeq
       DEF KV!EnsureCapacity, KV!Pool!Alloc, KVTypeOK, KV!Pool!TypeOK
  <2>2. granted \in Seq(KV!Pool!Page) /\ KV!Pool!Elements(granted) \subseteq KV!Pool!Page
    <3>1. granted \in Seq(KV!Pool!Page)
      BY <2>1, SubSeqProperties DEF KV!Pool!Granted
    <3> QED
      BY <3>1, ElementOfSeq DEF KV!Pool!Elements
  <2>3. rest \in Seq(KV!Pool!Page)
    BY <2>1, SubSeqProperties
  <2>4. block_table' \in [Req -> Seq(KV!Pool!Page)]
    <3>1. block_table[q] \o granted \in Seq(KV!Pool!Page)
      BY <2>2, ConcatProperties DEF KVTypeOK
    <3> QED
      BY <1>3, <3>1 DEF KVTypeOK, KV!EnsureCapacity
  <2>5. KV!Pool!TypeOK'
    <3>1. KV!Pool!Alloc(m)
      BY <1>1, <1>3 DEF KV!EnsureCapacity
    <3> HIDE DEF m
    <3>2. free_pages' \in Seq(KV!Pool!Page) /\ used_pages' \subseteq KV!Pool!Page
      BY <2>2, <2>3, <3>1 DEF KV!Pool!Alloc, KVTypeOK, KV!Pool!TypeOK
    <3>3. ref_count' \in [KV!Pool!Page -> Nat]
      BY <3>1 DEF KV!Pool!Alloc, KVTypeOK, KV!Pool!TypeOK
    <3> QED
      BY <3>2, <3>3 DEF KVTypeOK, KV!Pool!TypeOK
  <2> QED
    BY <2>4, <2>5 DEF KVTypeOK
<1> QED
  BY <1>1, <1>2, <1>3

-----------------------------------------------------------------------------
(* What a step of the runtime does to the scheduler *)

\* The scheduler on its own: a request with a prompt arrives, at most as much
\* of it cached as there is; a live sequence is cancelled; the next sequence
\* is only marked, prefills a chunk or decodes.
Arrives(r) ==
  /\ status[r] = "none"
  /\ \E ids \in Seq(Word), hit \in Nat : /\ hit <= Len(ids)
                                         /\ Len(ids) > 0
                                         /\ ~ SupportsPrefixCache => hit = 0
                                         /\ AddSequence(r, ids, hit)

Works(q) ==
  /\ IsNext(q)
  /\ \/ MarkRunning(q)
     \/ PrefillChunk(q)
     \/ \E n \in 1 .. MaxBurst, stopped \in BOOLEAN :
          generated[q] + n <= MaxNewTokens[q] /\ DecodeTokens(q, n, stopped)

SchedulerNext ==
  \/ \E r \in Req : Arrives(r) \/ CancelSequence(r) \/ Works(r)
  \/ UNCHANGED schedulerVars

LEMMA StartFromArrives ==
  ASSUME TypeOK, NEW r \in Req, NEW ids \in Seq(Word), Len(ids) > 0,
         status[r] = "none", StartFrom(r, ids)
  PROVE  Arrives(r)
<1>1. ASSUME NEW h \in Prefix!Handle, Prefix!IsMatch(h, ids), SupportsPrefixCache,
             AddSequence(r, ids, Len(entry[h].token_ids))
      PROVE  Arrives(r)
  <2>1. entry[h] \in Entry
    BY <1>1, ElementOfSeq DEF TypeOK, PrefixTypeOK, Prefix!Handle
  <2>2. Len(entry[h].token_ids) \in Nat
    BY <2>1, LenProperties DEF Entry
  <2>3. Len(entry[h].token_ids) <= Len(ids)
    BY <1>1 DEF Prefix!IsMatch, Prefix!Candidates, Prefix!IsPrefixOf
  <2> QED
    BY <1>1, <2>2, <2>3 DEF Arrives
<1>2. ASSUME AddSequence(r, ids, 0) PROVE Arrives(r)
  BY <1>2, LenProperties DEF Arrives
<1> QED
  BY <1>1, <1>2 DEF StartFrom

LEMMA AddRequestArrives ==
  ASSUME TypeOK, NEW r \in Req, AddRequest(r)
  PROVE  Arrives(r)
<1> DEFINE history == messages[SessionOf[r]] \o UserMessage(r)
<1>1. messages[SessionOf[r]] \in Seq(Text)
  BY RuntimeAssumption DEF TypeOK, ReplyTypeOK
<1>2. /\ history \in Seq(Text)
      /\ Len(history) = Len(messages[SessionOf[r]]) + Len(UserMessage(r))
  BY <1>1, MessageTypes, ConcatProperties
<1>3. Len(messages[SessionOf[r]]) \in Nat
  BY <1>1, LenProperties
<1>4. Len(history) > 0
  BY <1>2, <1>3, MessageTypes
<1>5. StartFrom(r, Tokenize(history)) /\ status[r] = "none"
  BY DEF AddRequest
<1> HIDE DEF history
<1>6. Tokenize(history) \in Seq(Word) /\ Len(Tokenize(history)) > 0
  BY <1>2, <1>4, TokenizeType
<1> QED
  BY <1>5, <1>6, StartFromArrives

\* The loop over the samples keeps at least one of them, and no more than fit.
LEMMA BurstKept ==
  ASSUME SchedulerTypeOK, NEW q \in Live, NEW burst \in 1 .. MaxBurst
  PROVE  /\ Kept(q, burst) \in 1 .. MaxBurst
         /\ generated[q] + Kept(q, burst) <= MaxNewTokens[q]
<1>1. q \in Req /\ generated[q] \in Nat /\ MaxNewTokens[q] \in Nat /\ MaxBurst \in Nat
  BY SchedulerAssumption, RuntimeAssumption DEF Live, SchedulerTypeOK
<1>2. generated[q] < MaxNewTokens[q]
  BY DEF Live, Terminal, SchedulerTypeOK
<1> QED
  BY <1>1, <1>2 DEF Kept

\* A decode batch that keeps n samples, of which those that v lists have text.
Keeps(r, q, n, stopped, v) ==
  LET texts == [i \in DOMAIN v |-> <<q, generated[q] + v[i]>>]
  IN  /\ DecodeTokens(q, n, stopped)
      /\ \E count \in Reach(q) : /\ PromptTokens(q) + generated[q] + n - 1 <= count
                                /\ Reserve(q, count)
      /\ response_text' = [response_text EXCEPT ![q] = @ \o texts]
      /\ metrics' = [metrics EXCEPT !.tokens_generated = @ + n]
      /\ Deliver(r, q, texts)
      /\ UNCHANGED <<prefixVars, cache_handle>>

LEMMA DecodeKeeps ==
  ASSUME SchedulerTypeOK, NEW r \in Req, NEW q \in Live, Decode(r, q)
  PROVE  \E n \in 1 .. MaxBurst : /\ generated[q] + n <= MaxNewTokens[q]
                                  /\ \E stopped \in BOOLEAN : \E v \in Voiced(n) :
                                       Keeps(r, q, n, stopped, v)
<1>1. PICK burst \in 1 .. MaxBurst :
        \E stopped \in BOOLEAN : \E v \in Voiced(Kept(q, burst)) :
          Keeps(r, q, Kept(q, burst), stopped, v)
  BY DEF Decode, Keeps
<1>2. Kept(q, burst) \in 1 .. MaxBurst /\ generated[q] + Kept(q, burst) <= MaxNewTokens[q]
  BY BurstKept
<1> QED
  BY <1>1, <1>2

LEMMA TurnWorks ==
  ASSUME SchedulerTypeOK, NEW r \in Req, Turn(r)
  PROVE  \E q \in Req : Works(q)
<1>1. PICK q \in Req : IsNext(q) /\ (Prefill(r, q) \/ Decode(r, q) \/ Fail(r, q))
  BY DEF Turn, Drives
<1>2. CASE Decode(r, q)
  <2>1. q \in Live
    BY <1>1 DEF IsNext
  <2>2. PICK n \in 1 .. MaxBurst : /\ generated[q] + n <= MaxNewTokens[q]
                                   /\ \E stopped \in BOOLEAN : \E v \in Voiced(n) :
                                        Keeps(r, q, n, stopped, v)
    BY <1>2, <2>1, DecodeKeeps
  <2>3. PICK stopped \in BOOLEAN : \E v \in Voiced(n) : Keeps(r, q, n, stopped, v)
    BY <2>2
  <2>4. DecodeTokens(q, n, stopped)
    BY <2>3 DEF Keeps
  <2> QED
    BY <1>1, <2>2, <2>4 DEF Works
<1>3. CASE Prefill(r, q) \/ Fail(r, q)
  BY <1>1, <1>3 DEF Prefill, Fail, Works
<1> QED
  BY <1>1, <1>2, <1>3

LEMMA SchedulerSteps == TypeOK /\ [Next]_vars => SchedulerNext
<1> SUFFICES ASSUME TypeOK, [Next]_vars PROVE SchedulerNext
  OBVIOUS
<1>1. ASSUME NEW r \in Req, AddRequest(r) PROVE SchedulerNext
  BY <1>1, AddRequestArrives DEF SchedulerNext
<1>2. ASSUME NEW r \in Req, Cancel(r) PROVE SchedulerNext
  BY <1>2 DEF Cancel, SchedulerNext
<1>3. ASSUME NEW r \in Req, Turn(r) PROVE SchedulerNext
  BY <1>3, TurnWorks DEF TypeOK, SchedulerNext
<1>4. ASSUME NEW r \in Req, Yield(r) \/ Finish(r) \/ Disconnect(r) PROVE SchedulerNext
  BY <1>4 DEF Yield, Finish, Disconnect, SchedulerNext
<1>5. ASSUME NEW s \in Session, CancelBySession(s) PROVE SchedulerNext
  BY <1>2, <1>5 DEF CancelBySession
<1>6. ASSUME UNCHANGED vars PROVE SchedulerNext
  BY <1>6 DEF vars, SchedulerNext
<1> QED
  BY <1>1, <1>2, <1>3, <1>4, <1>5, <1>6 DEF Next, LoopStep, CancelById

-----------------------------------------------------------------------------
(* The scheduler's invariants *)

\* A request that has not been sent has left no trace; one that has, arrived
\* before now, and has a prompt.
Arrivals ==
  \A r \in Req :
    IF Added(r)
      THEN created_ts[r] < clock /\ PromptTokens(r) > 0
      ELSE num_scheduled_tokens[r] = 0 /\ num_cached_tokens[r] = 0 /\ generated[r] = 0

LEMMA InitScheduler == Init => SchedulerTypeOK /\ Arrivals
<1> SUFFICES ASSUME Init PROVE SchedulerTypeOK /\ Arrivals
  OBVIOUS
<1>1. \A r \in Req : MaxNewTokens[r] \in Nat \ {0} /\ Len(<<>>) = 0 /\ <<>> \in Seq(Word)
  BY SchedulerAssumption, EmptySeq
<1> QED
  BY <1>1 DEF Init, SchedulerInit, SchedulerTypeOK, Arrivals, Added, Status, PrefilledTokens,
              PromptTokens

LEMMA SchedulerTypeStep ==
  ASSUME SchedulerTypeOK, Arrivals, SchedulerNext
  PROVE  SchedulerTypeOK' /\ Arrivals'
<1> USE DEF SchedulerTypeOK, Arrivals, Added, PromptTokens, PrefilledTokens, Terminal
<1>1. ASSUME NEW r \in Req, Arrives(r) PROVE SchedulerTypeOK' /\ Arrivals'
  <2>1. PICK ids \in Seq(Word), hit \in Nat :
          hit <= Len(ids) /\ Len(ids) > 0 /\ AddSequence(r, ids, hit)
    BY <1>1 DEF Arrives
  <2>2. status[r] = "none" /\ Len(ids) \in Nat
    BY <1>1, LenProperties DEF Arrives
  <2>3. \A t \in Req \ {r} : /\ status'[t] = status[t] /\ created_ts'[t] = created_ts[t]
                              /\ input_ids'[t] = input_ids[t]
                              /\ num_cached_tokens'[t] = num_cached_tokens[t]
    BY <2>1 DEF AddSequence
  <2>4. /\ status'[r] = "waiting" /\ created_ts'[r] = clock /\ clock' = clock + 1
        /\ input_ids'[r] = ids /\ num_cached_tokens'[r] = hit
        /\ UNCHANGED <<num_scheduled_tokens, generated>>
    BY <2>1 DEF AddSequence
  <2>5. /\ status' \in [Req -> Status] /\ created_ts' \in [Req -> Nat]
        /\ input_ids' \in [Req -> Seq(Word)] /\ num_cached_tokens' \in [Req -> Nat]
    BY <2>1 DEF AddSequence, Status
  <2>6. num_scheduled_tokens[r] = 0 /\ generated[r] = 0
    BY <2>2
  <2>7. ASSUME NEW t \in Req
        PROVE  /\ (PrefilledTokens(t) <= PromptTokens(t))'
               /\ (Added(t) => created_ts[t] < clock /\ PromptTokens(t) > 0)'
               /\ (~ Added(t) => num_scheduled_tokens[t] = 0 /\ num_cached_tokens[t] = 0
                                 /\ generated[t] = 0)'
    <3>1. CASE t = r
      <4>1. /\ (PrefilledTokens(t))' = hit
            /\ (PromptTokens(t))' = Len(ids)
            /\ Added(t)' /\ created_ts'[t] < clock'
        <5>1. num_scheduled_tokens'[t] = 0
          BY <2>4, <2>6, <3>1
        <5> QED
          BY <2>4, <3>1, <5>1
      <4> QED
        BY <2>1, <4>1
    <3>2. CASE t # r
      <4>1. /\ (PrefilledTokens(t))' = PrefilledTokens(t)
            /\ (PromptTokens(t))' = PromptTokens(t)
            /\ Added(t)' <=> Added(t)
        BY <2>3, <2>4, <3>2
      <4> HIDE DEF PromptTokens, PrefilledTokens, Added
      <4> QED
        BY <2>3, <2>4, <3>2, <4>1
    <3> QED
      BY <3>1, <3>2
  <2>8. \A t \in Req : Terminal(t)' \/ generated'[t] < MaxNewTokens[t]
    <3>1. MaxNewTokens[r] \in Nat \ {0} /\ generated'[r] = 0
      BY <2>4, <2>6, SchedulerAssumption
    <3> SUFFICES ASSUME NEW t \in Req \ {r}
                 PROVE  Terminal(t)' \/ generated'[t] < MaxNewTokens[t]
      BY <3>1
    <3>2. status'[t] = status[t] /\ generated'[t] = generated[t]
      BY <2>3, <2>4
    <3>3. Terminal(t) \/ generated[t] < MaxNewTokens[t]
      OBVIOUS
    <3> QED
      BY <3>2, <3>3
  <2>9. SchedulerTypeOK' /\ Arrivals'
    <3> HIDE DEF PromptTokens, PrefilledTokens, Added, Terminal
    <3> QED
      BY <2>4, <2>5, <2>7, <2>8
  <2> QED
    BY <2>9
<1>2. ASSUME NEW r \in Req, r \in Live, status' \in [Req -> Status],
             \A t \in Req \ {r} : status'[t] = status[t],
             status'[r] # "none",
             UNCHANGED <<created_ts, clock, input_ids, num_cached_tokens,
                         num_scheduled_tokens, generated>>
      PROVE  SchedulerTypeOK' /\ Arrivals'
  BY <1>2 DEF Live
<1>3. ASSUME NEW r \in Req, CancelSequence(r) PROVE SchedulerTypeOK' /\ Arrivals'
  BY <1>2, <1>3 DEF CancelSequence, Status
<1>4. ASSUME NEW q \in Req, IsNext(q), MarkRunning(q) PROVE SchedulerTypeOK' /\ Arrivals'
  BY <1>2, <1>4 DEF MarkRunning, IsNext, Status
<1>5. ASSUME NEW q \in Req, IsNext(q), PrefillChunk(q) PROVE SchedulerTypeOK' /\ Arrivals'
  <2>1. Chunk(q) \in Nat /\ PrefilledTokens(q) + Chunk(q) <= PromptTokens(q)
    BY <1>5, SchedulerNumbers DEF PrefillChunk
  <2>2. /\ num_scheduled_tokens' \in [Req -> Nat] /\ status' \in [Req -> Status]
        /\ num_scheduled_tokens'[q] = num_scheduled_tokens[q] + Chunk(q)
        /\ status[q] # "none" /\ status'[q] # "none"
        /\ \A t \in Req \ {q} : /\ status'[t] = status[t]
                                /\ num_scheduled_tokens'[t] = num_scheduled_tokens[t]
        /\ UNCHANGED <<created_ts, clock, input_ids, num_cached_tokens, generated>>
    <3> HIDE DEF PromptTokens, PrefilledTokens
    <3> QED
      BY <1>5, <2>1 DEF PrefillChunk, IsNext, Live, Status
  <2>3. ASSUME NEW t \in Req PROVE (PrefilledTokens(t) <= PromptTokens(t))'
    <3>1. CASE t = q
      BY <2>1, <2>2, <3>1
    <3>2. CASE t # q
      BY <2>2, <3>2
    <3> QED
      BY <3>1, <3>2
  <2>4. \A t \in Req : Terminal(t)' \/ generated'[t] < MaxNewTokens[t]
    BY <1>5, <2>2 DEF IsNext, Live
  <2>5. SchedulerTypeOK' /\ Arrivals'
    <3>1. SchedulerTypeOK'
      <4> HIDE DEF PromptTokens, PrefilledTokens, Terminal
      <4> QED
        BY <2>2, <2>3, <2>4
    <3>2. Arrivals'
      BY <2>2
    <3> QED
      BY <3>1, <3>2
  <2> QED
    BY <2>5
<1>6. ASSUME NEW q \in Req, IsNext(q), NEW n \in 1 .. MaxBurst, NEW stopped \in BOOLEAN,
             generated[q] + n <= MaxNewTokens[q], DecodeTokens(q, n, stopped)
      PROVE  SchedulerTypeOK' /\ Arrivals'
  <2>1. n \in Nat
    BY RuntimeAssumption
  <2>2. MaxNewTokens[q] \in Nat
    BY SchedulerAssumption
  <2> QED
    BY <1>6, <2>1, <2>2, SMTT(30) DEF DecodeTokens, IsNext, Live, Status, Terminal
<1>7. ASSUME UNCHANGED schedulerVars PROVE SchedulerTypeOK' /\ Arrivals'
  BY <1>7 DEF schedulerVars
<1> QED
  BY <1>1, <1>3, <1>4, <1>5, <1>6, <1>7 DEF SchedulerNext, Works

-----------------------------------------------------------------------------
(* Types of the two caches *)

LEMMA KVUnchanged == KVTypeOK /\ UNCHANGED kvVars => KVTypeOK'
BY DEF KVTypeOK, KV!Pool!TypeOK, kvVars

LEMMA ReserveType ==
  ASSUME KVTypeOK, NEW q \in Req, NEW n \in Nat, Reserve(q, n)
  PROVE  KVTypeOK'
BY EnsureCapacityType, KVUnchanged DEF Reserve

LEMMA EntryCounted ==
  ASSUME NEW e \in Entry, NEW n \in Nat
  PROVE  [e EXCEPT !.ref_count = n] \in Entry
<1>1. ASSUME NEW A, NEW B, NEW C,
             NEW x \in [token_ids : A, pages : B, ref_count : Nat, pinned : C]
      PROVE  [x EXCEPT !.ref_count = n] \in
               [token_ids : A, pages : B, ref_count : Nat, pinned : C]
  OBVIOUS
<1> QED
  BY <1>1 DEF Entry

LEMMA HitType ==
  ASSUME PrefixTypeOK, NEW r \in Req, NEW h \in Prefix!Handle, Prefix!Hit(h),
         cache_handle' = [cache_handle EXCEPT ![r] = h]
  PROVE  PrefixTypeOK'
<1>1. entry \in Seq(Entry) /\ h \in 1 .. Len(entry) /\ entry[h] \in Entry
  BY ElementOfSeq DEF PrefixTypeOK, Prefix!Handle
<1>2. entry' = [entry EXCEPT ![h] = [entry[h] EXCEPT !.ref_count = @ + 1]]
  BY DEF Prefix!Hit
<1>3. [entry[h] EXCEPT !.ref_count = @ + 1] \in Entry
  <2>1. entry[h].ref_count + 1 \in Nat
    BY <1>1 DEF Entry
  <2> QED
    BY <1>1, <2>1, EntryCounted
<1>4. entry' \in Seq(Entry) /\ Len(entry') = Len(entry)
  BY <1>1, <1>2, <1>3, ExceptSeq
<1>5. UNCHANGED cached /\ cache_handle' \in [Req -> Prefix!Handle \cup {Prefix!NoEntry}]
  BY DEF PrefixTypeOK, Prefix!Hit
<1> QED
  BY <1>4, <1>5 DEF PrefixTypeOK, Prefix!Handle

LEMMA ReleaseType ==
  ASSUME PrefixTypeOK, NEW r \in Req, ReleaseHandle(r), UNCHANGED cache_handle
  PROVE  PrefixTypeOK'
<1> DEFINE h == cache_handle[r]
<1>1. CASE h = Prefix!NoEntry
  BY <1>1 DEF ReleaseHandle, PrefixTypeOK, prefixVars, Prefix!Handle
<1>2. CASE h # Prefix!NoEntry
  <2>1. entry \in Seq(Entry) /\ h \in 1 .. Len(entry) /\ entry[h] \in Entry
    <3>1. h \in Prefix!Handle
      BY <1>2 DEF PrefixTypeOK
    <3> HIDE DEF h
    <3> QED
      BY <3>1, ElementOfSeq DEF PrefixTypeOK, Prefix!Handle
  <2> DEFINE released == [entry[h] EXCEPT !.ref_count = IF @ = 0 THEN 0 ELSE @ - 1]
  <2>2. entry' = [entry EXCEPT ![h] = released] /\ UNCHANGED cached
    BY <1>2 DEF ReleaseHandle, Prefix!ReleaseEntry
  <2>3. released \in Entry
    <3>1. (IF entry[h].ref_count = 0 THEN 0 ELSE entry[h].ref_count - 1) \in Nat
      BY <2>1 DEF Entry
    <3> QED
      BY <2>1, <3>1, EntryCounted
  <2>4. entry' \in Seq(Entry) /\ Len(entry') = Len(entry)
    BY <2>1, <2>2, <2>3, ExceptSeq
  <2> QED
    BY <2>2, <2>4 DEF PrefixTypeOK, Prefix!Handle
<1> QED
  BY <1>1, <1>2

LEMMA InsertType ==
  ASSUME PrefixTypeOK, NEW q \in Req,
         NEW tokens \in Seq(Word), NEW pages \in Seq(KV!Pool!Page),
         Prefix!Insert(tokens, pages, TRUE),
         cache_handle' = [cache_handle EXCEPT ![q] = Len(entry')]
  PROVE  PrefixTypeOK'
<1> DEFINE new == [token_ids |-> tokens, pages |-> pages, ref_count |-> 0, pinned |-> TRUE]
<1>1. new \in Entry /\ entry \in Seq(Entry) /\ Len(entry) \in Nat
  BY LenProperties DEF Entry, PrefixTypeOK
<1>2. entry' = Append(entry, new)
  BY DEF Prefix!Insert, Prefix!Extended
<1>3. entry' \in Seq(Entry) /\ Len(entry') = Len(entry) + 1
  BY <1>1, <1>2, AppendProperties
<1>4. cached' \subseteq cached \cup {Len(entry) + 1}
  BY DEF Prefix!Insert, Prefix!Added, Prefix!EvictedFrom
<1> QED
  BY <1>1, <1>3, <1>4 DEF PrefixTypeOK, Prefix!Handle

LEMMA PrefixUnchanged ==
  PrefixTypeOK /\ UNCHANGED <<prefixVars, cache_handle>> => PrefixTypeOK'
BY DEF PrefixTypeOK, prefixVars, Prefix!Handle

LEMMA CacheTypeStep ==
  ASSUME TypeOK, [Next]_vars
  PROVE  KVTypeOK' /\ PrefixTypeOK'
<1> USE DEF TypeOK
<1>1. ASSUME NEW r \in Req, AddRequest(r) PROVE KVTypeOK' /\ PrefixTypeOK'
  <2> DEFINE ids == Tokenize(messages[SessionOf[r]] \o UserMessage(r))
  <2>1. StartFrom(r, ids) /\ UNCHANGED <<free_pages, used_pages, ref_count>>
    BY <1>1 DEF AddRequest
  <2> HIDE DEF ids
  <2>2. ASSUME NEW h \in Prefix!Handle, Prefix!Hit(h),
               block_table' = [block_table EXCEPT ![r] = entry[h].pages],
               cache_handle' = [cache_handle EXCEPT ![r] = h]
        PROVE  KVTypeOK' /\ PrefixTypeOK'
    <3>1. entry[h] \in Entry
      BY ElementOfSeq DEF PrefixTypeOK, Prefix!Handle
    <3>2. entry[h].pages \in Seq(KV!Pool!Page)
      BY <3>1 DEF Entry
    <3>3. KVTypeOK'
      BY <2>1, <2>2, <3>2 DEF KVTypeOK, KV!Pool!TypeOK
    <3> QED
      BY <2>2, <3>3, HitType
  <2>3. ASSUME UNCHANGED <<prefixVars, block_table, cache_handle>>
        PROVE  KVTypeOK' /\ PrefixTypeOK'
    BY <2>1, <2>3, KVUnchanged, PrefixUnchanged DEF kvVars
  <2> QED
    BY <2>1, <2>2, <2>3 DEF StartFrom
<1>2. ASSUME NEW r \in Req, FinishSequence(r) PROVE KVTypeOK' /\ PrefixTypeOK'
  BY <1>2, KVUnchanged, ReleaseType DEF FinishSequence
<1>3. ASSUME NEW r \in Req, NEW q \in Req, Prefill(r, q) PROVE KVTypeOK' /\ PrefixTypeOK'
  <2>1. KVTypeOK'
    BY <1>3, ReserveType, BatchTokensType DEF Prefill
  <2>2. input_ids[q] \in Seq(Word) /\ block_table'[q] \in Seq(KV!Pool!Page)
    BY <2>1 DEF SchedulerTypeOK, KVTypeOK
  <2>3. PrefixTypeOK'
    BY <1>3, <2>2, InsertType, PrefixUnchanged DEF Prefill
  <2> QED
    BY <2>1, <2>3
<1>4. ASSUME NEW r \in Req, NEW q \in Req, Decode(r, q) \/ Fail(r, q)
      PROVE  KVTypeOK' /\ PrefixTypeOK'
  BY <1>4, ReserveType, BatchTokensType, KVUnchanged, PrefixUnchanged DEF Decode, Fail
<1>5. ASSUME UNCHANGED <<kvVars, prefixVars, cache_handle>> PROVE KVTypeOK' /\ PrefixTypeOK'
  BY <1>5, KVUnchanged, PrefixUnchanged
<1>6. ASSUME NEW r \in Req, Turn(r) PROVE KVTypeOK' /\ PrefixTypeOK'
  BY <1>3, <1>4, <1>6 DEF Turn
<1>7. ASSUME NEW r \in Req, Cancel(r) \/ Finish(r) PROVE KVTypeOK' /\ PrefixTypeOK'
  BY <1>2, <1>7 DEF Cancel, Finish
<1>8. ASSUME NEW r \in Req, Yield(r) \/ Disconnect(r) PROVE KVTypeOK' /\ PrefixTypeOK'
  BY <1>5, <1>8 DEF Yield, Disconnect
<1>9. ASSUME UNCHANGED vars PROVE KVTypeOK' /\ PrefixTypeOK'
  BY <1>5, <1>9 DEF vars
<1> QED
  BY <1>1, <1>6, <1>7, <1>8, <1>9 DEF Next, LoopStep, CancelById, CancelBySession

-----------------------------------------------------------------------------
(* Types of what the loops and the sessions keep *)

\* A loop that is yielding has something to yield.
YieldsSomething == \A r \in Req : loop[r] = "yielding" => pending[r] # <<>>

Replies == ReplyTypeOK /\ YieldsSomething

LEMMA RepliesUnchanged ==
  Replies /\ UNCHANGED <<sessionVars, replyVars, loopVars, metrics>> => Replies'
BY DEF Replies, ReplyTypeOK, YieldsSomething, sessionVars, replyVars, loopVars

LEMMA MetricsCounted ==
  ASSUME NEW m \in Metrics, NEW n \in Nat
  PROVE  /\ [m EXCEPT !.requests_started = @ + n] \in Metrics
         /\ [m EXCEPT !.requests_finished = @ + n] \in Metrics
         /\ [m EXCEPT !.tokens_generated = @ + n] \in Metrics
<1>1. /\ m.requests_started + n \in Nat
      /\ m.requests_finished + n \in Nat
      /\ m.tokens_generated + n \in Nat
  BY DEF Metrics
<1>2. ASSUME NEW k \in Nat
      PROVE  /\ [m EXCEPT !.requests_started = k] \in Metrics
             /\ [m EXCEPT !.requests_finished = k] \in Metrics
             /\ [m EXCEPT !.tokens_generated = k] \in Metrics
  BY DEF Metrics
<1> QED
  BY <1>1, <1>2

LEMMA AddRequestReplies ==
  ASSUME TypeOK, Replies, NEW r \in Req, AddRequest(r)
  PROVE  Replies'
<1> DEFINE s == SessionOf[r]
           history == messages[s] \o UserMessage(r)
<1>1. s \in Session
  BY RuntimeAssumption
<1>2. history \in Seq(Text)
  BY <1>1, MessageTypes, ConcatProperties DEF Replies, ReplyTypeOK
<1>3. messages' = [messages EXCEPT ![s] = history]
  BY DEF AddRequest
<1> HIDE DEF history
<1>4. messages' \in [Session -> Seq(Text)]
  BY <1>2, <1>3 DEF Replies, ReplyTypeOK
<1>5. metrics' \in Metrics
  BY MetricsCounted DEF AddRequest, Replies, ReplyTypeOK
<1> QED
  BY <1>1, <1>4, <1>5
     DEF AddRequest, Replies, ReplyTypeOK, YieldsSomething, LoopState, replyVars

LEMMA FinishSequenceTypes ==
  ASSUME TypeOK, NEW r \in Req, FinishSequence(r)
  PROVE  /\ messages' \in [Session -> Seq(Text)]
         /\ active_sequence_id' \in [Session -> Req \cup {NoReq}]
         /\ active_by_session' \in [Session -> Req \cup {NoReq}]
         /\ response_appended' \in [Req -> BOOLEAN]
         /\ metrics' \in Metrics
         /\ UNCHANGED <<response_text, pending, streamed>>
<1> USE DEF TypeOK, ReplyTypeOK
<1>1. SessionOf[r] \in Session
  BY RuntimeAssumption
<1>2. /\ active_sequence_id' \in [Session -> Req \cup {NoReq}]
      /\ active_by_session' \in [Session -> Req \cup {NoReq}]
  BY <1>1 DEF FinishSequence, ForgetActive
<1>3. metrics' \in Metrics
  BY MetricsCounted, ZenonT(30) DEF FinishSequence
<1>4. messages[SessionOf[r]] \o AssistantMessage(r) \in Seq(Text)
  BY <1>1, MessageTypes, ConcatProperties
<1>5. \/ UNCHANGED <<messages, response_appended>>
      \/ /\ messages' = [messages EXCEPT
                          ![SessionOf[r]] = messages[SessionOf[r]] \o AssistantMessage(r)]
         /\ response_appended' = [response_appended EXCEPT ![r] = TRUE]
  BY DEF FinishSequence, AppendReply
<1>6. messages' \in [Session -> Seq(Text)] /\ response_appended' \in [Req -> BOOLEAN]
  BY <1>4, <1>5
<1> QED
  BY <1>2, <1>3, <1>6 DEF FinishSequence

LEMMA CancelReplies ==
  ASSUME TypeOK, Replies, NEW r \in Req, Cancel(r) \/ Finish(r)
  PROVE  Replies'
<1>1. FinishSequence(r) /\ (UNCHANGED loop \/ loop' = [loop EXCEPT ![r] = "done"])
  BY DEF Cancel, Finish
<1>2. loop' \in [Req -> LoopState] /\ \A t \in Req : loop'[t] \in {loop[t], "done"}
  BY <1>1 DEF Replies, ReplyTypeOK, LoopState
<1> QED
  BY <1>1, <1>2, FinishSequenceTypes DEF Replies, ReplyTypeOK, YieldsSomething

LEMMA DecodeReplies ==
  ASSUME TypeOK, Replies, NEW r \in Req, NEW q \in Live, Decode(r, q),
         UNCHANGED <<sessionVars, response_appended, streamed>>
  PROVE  Replies'
<1>1. PICK n \in 1 .. MaxBurst :
        \E stopped \in BOOLEAN : \E v \in Voiced(n) : Keeps(r, q, n, stopped, v)
  BY DecodeKeeps DEF TypeOK
<1> PICK stopped \in BOOLEAN : \E v \in Voiced(n) : Keeps(r, q, n, stopped, v)
  BY <1>1
<1> PICK v \in Voiced(n) : Keeps(r, q, n, stopped, v)
  OBVIOUS
<1> DEFINE texts == [i \in DOMAIN v |-> <<q, generated[q] + v[i]>>]
<1>2. n \in Nat /\ generated[q] \in Nat /\ q \in Req
  BY RuntimeAssumption DEF TypeOK, SchedulerTypeOK, Live
<1>3. PICK k \in Nat : v \in [1 .. k -> 1 .. n]
  BY <1>2 DEF Voiced
<1>4. texts \in Seq(Word)
  BY <1>2, <1>3 DEF Word
<1>5. /\ response_text' = [response_text EXCEPT ![q] = response_text[q] \o texts]
      /\ metrics' = [metrics EXCEPT !.tokens_generated = metrics.tokens_generated + n]
      /\ Deliver(r, q, texts)
  BY DEF Keeps
<1> HIDE DEF texts
<1>6. response_text' \in [Req -> Seq(Word)]
  <2>1. response_text[q] \o texts \in Seq(Word)
    BY <1>2, <1>4, ConcatProperties DEF Replies, ReplyTypeOK
  <2> QED
    BY <1>5, <2>1 DEF Replies, ReplyTypeOK
<1>7. metrics' \in Metrics
  <2>1. metrics \in Metrics
    BY DEF Replies, ReplyTypeOK
  <2>2. [metrics EXCEPT !.tokens_generated = metrics.tokens_generated + n] \in Metrics
    BY <1>2, <2>1, MetricsCounted
  <2> QED
    BY <1>5, <2>2
<1>8. /\ loop' \in [Req -> LoopState] /\ pending' \in [Req -> Seq(Word)]
      /\ YieldsSomething'
  <2>1. CASE q = r /\ texts # <<>>
    <3>1. /\ loop' = [loop EXCEPT ![r] = "yielding"]
          /\ pending' = [pending EXCEPT ![r] = texts]
      BY <1>5, <2>1 DEF Deliver
    <3> QED
      BY <1>4, <2>1, <3>1 DEF Replies, ReplyTypeOK, YieldsSomething, LoopState
  <2>2. CASE UNCHANGED <<loop, pending>>
    BY <2>2 DEF Replies, ReplyTypeOK, YieldsSomething
  <2> QED
    BY <1>5, <2>1, <2>2 DEF Deliver
<1> QED
  BY <1>6, <1>7, <1>8 DEF Replies, ReplyTypeOK, sessionVars

LEMMA TurnReplies ==
  ASSUME TypeOK, Replies, NEW r \in Req, Turn(r)
  PROVE  Replies'
<1>1. PICK q \in Live : Prefill(r, q) \/ Decode(r, q) \/ Fail(r, q)
  BY DEF Turn, Drives, IsNext
<1>2. UNCHANGED <<sessionVars, response_appended, streamed>>
  BY DEF Turn
<1>3. CASE Prefill(r, q)
  BY <1>2, <1>3, RepliesUnchanged DEF Prefill, replyVars, loopVars
<1>4. CASE Decode(r, q)
  BY <1>2, <1>4, DecodeReplies
<1>5. CASE Fail(r, q)
  BY <1>2, <1>5 DEF Fail, Replies, ReplyTypeOK, YieldsSomething, LoopState, sessionVars
<1> QED
  BY <1>1, <1>3, <1>4, <1>5

LEMMA YieldReplies ==
  ASSUME Replies, NEW r \in Req, Yield(r)
  PROVE  Replies'
<1>1. pending[r] \in Seq(Word) /\ pending[r] # <<>>
  BY DEF Yield, Replies, ReplyTypeOK, YieldsSomething
<1>2. Head(pending[r]) \in Word /\ Tail(pending[r]) \in Seq(Word)
  BY <1>1, HeadTailProperties
<1>3. Append(streamed[r], Head(pending[r])) \in Seq(Word)
  BY <1>2, AppendProperties DEF Replies, ReplyTypeOK
<1>4. streamed' \in [Req -> Seq(Word)] /\ pending' \in [Req -> Seq(Word)]
  BY <1>2, <1>3 DEF Yield, Replies, ReplyTypeOK
<1>5. loop' \in [Req -> LoopState] /\ YieldsSomething'
  BY DEF Yield, Replies, ReplyTypeOK, YieldsSomething, LoopState
<1> QED
  BY <1>4, <1>5 DEF Yield, Replies, ReplyTypeOK, sessionVars, replyVars

-----------------------------------------------------------------------------
(* Type correctness *)

\* TypeOK is not inductive as it stands: a request that arrives must not have
\* been scheduled before, and a loop that yields must have a text to yield.
TypeInv == TypeOK /\ Arrivals /\ YieldsSomething

LEMMA InitTypeInv == Init => TypeInv
<1> SUFFICES ASSUME Init PROVE TypeInv
  OBVIOUS
<1>1. SchedulerTypeOK /\ Arrivals
  BY InitScheduler
<1>2. \A S : <<>> \in Seq(S)
  BY EmptySeq
<1>3. ReplyTypeOK /\ YieldsSomething
  <2>1. metrics \in Metrics
    BY DEF Init, Metrics
  <2> QED
    BY <1>2, <2>1 DEF Init, ReplyTypeOK, YieldsSomething, LoopState
<1>4. KVTypeOK
  <2>1. [i \in 1 .. NumPages |-> i - 1] \in Seq(KV!Pool!Page)
    BY RuntimeAssumption DEF KV!Pool!Page
  <2> QED
    BY <1>2, <2>1 DEF Init, KVTypeOK, KV!Pool!Init, KV!Pool!TypeOK
<1>5. PrefixTypeOK
  BY <1>2 DEF Init, PrefixTypeOK, Prefix!PCInit
<1> QED
  BY <1>1, <1>3, <1>4, <1>5 DEF TypeInv, TypeOK

LEMMA NextTypeInv == TypeInv /\ [Next]_vars => TypeInv'
<1> SUFFICES ASSUME TypeInv, [Next]_vars PROVE TypeInv'
  OBVIOUS
<1>1. TypeOK /\ Arrivals /\ Replies /\ SchedulerTypeOK
  BY DEF TypeInv, TypeOK, Replies
<1>2. SchedulerTypeOK' /\ Arrivals'
  BY <1>1, SchedulerSteps, SchedulerTypeStep
<1>3. KVTypeOK' /\ PrefixTypeOK'
  BY <1>1, CacheTypeStep
<1>4. Replies'
  <2>1. ASSUME NEW r \in Req, Disconnect(r) PROVE Replies'
    BY <1>1, <2>1 DEF Disconnect, Replies, ReplyTypeOK, YieldsSomething, LoopState,
                      sessionVars, replyVars
  <2>2. ASSUME UNCHANGED vars PROVE Replies'
    BY <1>1, <2>2, RepliesUnchanged DEF vars
  <2> QED
    BY <1>1, <2>1, <2>2, AddRequestReplies, CancelReplies, TurnReplies, YieldReplies
       DEF Next, LoopStep, CancelById, CancelBySession
<1> QED
  BY <1>2, <1>3, <1>4 DEF TypeInv, TypeOK, Replies

\* Every variable of the runtime keeps its type: no request generates more
\* than max_new_tokens, none is prefilled beyond its prompt, every page in a
\* block table and every prefix cache handle exists.
THEOREM TypeCorrect == Spec => []TypeOK
<1>1. Spec => []TypeInv
  BY InitTypeInv, NextTypeInv, PTL DEF Spec
<1>2. TypeInv => TypeOK
  BY DEF TypeInv
<1> QED
  BY <1>1, <1>2, PTL

-----------------------------------------------------------------------------
(* One sequence decodes at a time *)

\* What the static-cache executors rely on without saying so: no branch and no
\* maintenance requests, and no prefix cache.
SingleStream ==
  /\ \A r \in Req : Kind[r] \in {"foreground", "background"}
  /\ ~ SupportsPrefixCache

NothingCached == \A r \in Req : num_cached_tokens[r] = 0

\* The next sequence is not about to prefill while another one decodes: a
\* decode has priority 0, a prefill 1 or 3.
LEMMA DecodeGoesFirst ==
  ASSUME SingleStream, NEW q \in Req, IsNext(q), NEW t \in Req, DecodePhase(t), t # q
  PROVE  PrefillComplete(q)
<1> SUFFICES ASSUME ~ PrefillComplete(q) PROVE FALSE
  OBVIOUS
<1>1. EffectivePriority(t) = 0
  BY DEF EffectivePriority, DecodePhase, SingleStream
<1>2. EffectivePriority(q) \in {1, 3}
  BY DEF EffectivePriority, SingleStream
<1>3. Precedes(q, t)
  BY DEF IsNext, DecodePhase, Live
<1> QED
  BY <1>1, <1>2, <1>3 DEF Precedes

\* A step of the scheduler puts at most the next sequence, which must have
\* been prefilling, into its decode phase.
LEMMA DecodePhaseSteps ==
  ASSUME TypeInv, SingleStream, NothingCached, SchedulerNext
  PROVE  /\ NothingCached'
         /\ \/ \A t \in Req : DecodePhase(t)' => DecodePhase(t)
            \/ \E q \in Req : /\ IsNext(q) /\ ~ PrefillComplete(q)
                              /\ \A t \in Req \ {q} : DecodePhase(t)' => DecodePhase(t)
<1> DEFINE Goal == /\ NothingCached'
                   /\ \/ \A t \in Req : DecodePhase(t)' => DecodePhase(t)
                      \/ \E q \in Req : /\ IsNext(q) /\ ~ PrefillComplete(q)
                                        /\ \A t \in Req \ {q} : DecodePhase(t)' => DecodePhase(t)
<1> USE DEF NothingCached, DecodePhase, Live, PrefillComplete, PrefilledTokens, PromptTokens
<1>1. ASSUME NEW r \in Req, Arrives(r) PROVE Goal
  <2>1. PICK ids \in Seq(Word), hit \in Nat : /\ Len(ids) > 0 /\ hit = 0
                                             /\ AddSequence(r, ids, hit)
    BY <1>1 DEF Arrives, SingleStream
  <2>2. ASSUME NEW t \in Req \ {r} PROVE DecodePhase(t)' => DecodePhase(t)
    BY <2>1 DEF AddSequence, TypeInv, TypeOK, SchedulerTypeOK
  <2>3. ~ DecodePhase(r)'
    <3>1. num_scheduled_tokens[r] = 0
      BY <1>1 DEF Arrives, TypeInv, Arrivals, Added
    <3>2. /\ num_cached_tokens'[r] = 0 /\ num_scheduled_tokens'[r] = 0
          /\ input_ids'[r] = ids
      BY <2>1, <3>1 DEF AddSequence, TypeInv, TypeOK, SchedulerTypeOK
    <3> QED
      BY <2>1, <3>2, LenProperties
  <2>4. NothingCached'
    BY <2>1 DEF AddSequence, TypeInv, TypeOK, SchedulerTypeOK
  <2> QED
    BY <2>2, <2>3, <2>4
<1>2. ASSUME UNCHANGED <<input_ids, num_cached_tokens, num_scheduled_tokens>>,
             \A t \in Req : t \in Live' => t \in Live
      PROVE  Goal
  BY <1>2
<1>3. ASSUME NEW r \in Req, CancelSequence(r) PROVE Goal
  BY <1>2, <1>3 DEF CancelSequence, TypeInv, TypeOK, SchedulerTypeOK
<1>4. ASSUME NEW q \in Req, IsNext(q), MarkRunning(q) PROVE Goal
  BY <1>2, <1>4 DEF MarkRunning, IsNext, TypeInv, TypeOK, SchedulerTypeOK
<1>5. ASSUME NEW q \in Req, IsNext(q), PrefillChunk(q) PROVE Goal
  BY <1>5 DEF PrefillChunk, TypeInv, TypeOK, SchedulerTypeOK
<1>6. ASSUME NEW q \in Req, IsNext(q), NEW n \in 1 .. MaxBurst, NEW stopped \in BOOLEAN,
             DecodeTokens(q, n, stopped)
      PROVE  Goal
  BY <1>2, <1>6 DEF DecodeTokens, IsNext, TypeInv, TypeOK, SchedulerTypeOK
<1>7. ASSUME UNCHANGED schedulerVars PROVE Goal
  BY <1>2, <1>7 DEF schedulerVars
<1> QED
  BY <1>1, <1>3, <1>4, <1>5, <1>6, <1>7 DEF SchedulerNext, Works

\* Whatever the loops, cancels and disconnects do, no sequence enters its
\* decode phase while another one is in it.
THEOREM OneDecoding ==
  ASSUME SingleStream PROVE Spec => []AtMostOneDecoding
<1> DEFINE Inv == TypeInv /\ NothingCached /\ AtMostOneDecoding
<1>1. Init => Inv
  <2> SUFFICES ASSUME Init PROVE NothingCached /\ AtMostOneDecoding
    BY InitTypeInv
  <2> QED
    BY DEF Init, SchedulerInit, NothingCached, AtMostOneDecoding, DecodePhase, Live
<1>2. Inv /\ [Next]_vars => Inv'
  <2> SUFFICES ASSUME Inv, [Next]_vars PROVE NothingCached' /\ AtMostOneDecoding'
    BY NextTypeInv
  <2>1. SchedulerNext
    BY SchedulerSteps DEF TypeInv
  <2>2. CASE \A t \in Req : DecodePhase(t)' => DecodePhase(t)
    BY <2>1, <2>2, DecodePhaseSteps DEF AtMostOneDecoding
  <2>3. CASE \E q \in Req : /\ IsNext(q) /\ ~ PrefillComplete(q)
                            /\ \A t \in Req \ {q} : DecodePhase(t)' => DecodePhase(t)
    <3>1. PICK q \in Req : /\ IsNext(q) /\ ~ PrefillComplete(q)
                           /\ \A t \in Req \ {q} : DecodePhase(t)' => DecodePhase(t)
      BY <2>3
    <3>2. \A t \in Req \ {q} : ~ DecodePhase(t)'
      BY <3>1, DecodeGoesFirst
    <3> QED
      BY <2>1, <3>2, DecodePhaseSteps DEF AtMostOneDecoding
  <2> QED
    BY <2>1, <2>2, <2>3, DecodePhaseSteps
<1>3. Inv => AtMostOneDecoding
  OBVIOUS
<1> HIDE DEF Inv
<1> QED
  BY <1>1, <1>2, <1>3, PTL DEF Spec

-----------------------------------------------------------------------------
(* Foreground requests are served in the order in which they came *)

\* No foreground sequence is selected while an earlier one is live that has
\* held it back so far: it has not been prefilled, so it has no priority over
\* the earlier one, and it is younger.
LEMMA EarlierGoesFirst ==
  ASSUME TypeInv, NothingCached, NEW q \in Req, IsNext(q), NEW r \in Live,
         Kind[q] = "foreground", Kind[r] = "foreground", created_ts[r] < created_ts[q],
         num_scheduled_tokens[q] = 0
  PROVE  FALSE
<1>1. ~ PrefillComplete(q)
  <2>1. Added(q)
    BY DEF IsNext, Live, Added
  <2>2. PromptTokens(q) > 0 /\ PromptTokens(q) \in Nat
    BY <2>1, LenProperties DEF TypeInv, TypeOK, SchedulerTypeOK, Arrivals, PromptTokens
  <2> QED
    BY <2>2 DEF PrefillComplete, PrefilledTokens, NothingCached
<1>2. r \in Req /\ r # q /\ created_ts[r] \in Nat /\ created_ts[q] \in Nat
  BY DEF Live, TypeInv, TypeOK, SchedulerTypeOK
<1>3. EffectivePriority(q) = 1 /\ EffectivePriority(r) \in {0, 1}
  BY <1>1 DEF EffectivePriority
<1>4. Precedes(q, r)
  BY <1>2 DEF IsNext
<1> QED
  BY <1>2, <1>3, <1>4 DEF Precedes

LEMMA InOrderStep ==
  ASSUME TypeInv, NothingCached, ForegroundInOrder, SchedulerNext
  PROVE  ForegroundInOrder'
<1> SUFFICES ASSUME NEW r \in Live', NEW t \in Live',
                    Kind[r] = "foreground", Kind[t] = "foreground",
                    created_ts'[r] < created_ts'[t]
             PROVE  num_scheduled_tokens'[t] = 0 /\ generated'[t] = 0
  BY DEF ForegroundInOrder
<1> USE DEF TypeInv, TypeOK, SchedulerTypeOK
<1>1. r \in Req /\ t \in Req
  BY DEF Live
<1>2. ASSUME NEW x \in Req, Arrives(x)
      PROVE  num_scheduled_tokens'[t] = 0 /\ generated'[t] = 0
  <2>1. PICK ids \in Seq(Word), hit \in Nat : AddSequence(x, ids, hit)
    BY <1>2 DEF Arrives
  <2>2. /\ created_ts'[x] = clock
        /\ \A y \in Req \ {x} : created_ts'[y] = created_ts[y] /\ status'[y] = status[y]
        /\ UNCHANGED <<num_scheduled_tokens, generated>>
    BY <2>1 DEF AddSequence
  <2>3. CASE t = x
    BY <1>2, <2>2, <2>3 DEF Arrives, Arrivals, Added
  <2>4. CASE t # x
    <3>1. t \in Live /\ created_ts[t] < clock
      BY <1>1, <2>2, <2>4 DEF Live, Arrivals, Added
    <3>2. r # x
      BY <1>1, <2>2, <2>4, <3>1
    <3>3. r \in Live /\ created_ts[r] < created_ts[t]
      BY <1>1, <2>2, <2>4, <3>2 DEF Live
    <3> QED
      BY <2>2, <3>1, <3>3 DEF ForegroundInOrder
  <2> QED
    BY <2>3, <2>4
<1>3. ASSUME NEW q \in Req, Works(q)
      PROVE  num_scheduled_tokens'[t] = 0 /\ generated'[t] = 0
  <2>1. UNCHANGED <<created_ts>> /\ IsNext(q)
    BY <1>3 DEF Works, MarkRunning, PrefillChunk, DecodeTokens
  <2>2. \A y \in Req \ {q} : /\ status'[y] = status[y]
                            /\ num_scheduled_tokens'[y] = num_scheduled_tokens[y]
                            /\ generated'[y] = generated[y]
    BY <1>3 DEF Works, MarkRunning, PrefillChunk, DecodeTokens
  <2>3. r \in Live /\ t \in Live
    BY <1>1, <2>1, <2>2 DEF Live, IsNext
  <2>4. num_scheduled_tokens[t] = 0 /\ generated[t] = 0
    BY <2>1, <2>3 DEF ForegroundInOrder
  <2>5. t # q
    BY <1>1, <2>1, <2>3, <2>4, EarlierGoesFirst
  <2> QED
    BY <1>1, <2>2, <2>4, <2>5
<1>4. ASSUME UNCHANGED <<created_ts, num_scheduled_tokens, generated>>, Live' \subseteq Live
      PROVE  num_scheduled_tokens'[t] = 0 /\ generated'[t] = 0
  BY <1>4 DEF ForegroundInOrder
<1>5. ASSUME NEW x \in Req, CancelSequence(x)
      PROVE  num_scheduled_tokens'[t] = 0 /\ generated'[t] = 0
  BY <1>4, <1>5 DEF CancelSequence, Live
<1>6. ASSUME UNCHANGED schedulerVars
      PROVE  num_scheduled_tokens'[t] = 0 /\ generated'[t] = 0
  BY <1>4, <1>6 DEF schedulerVars, Live
<1> QED
  BY <1>2, <1>3, <1>5, <1>6 DEF SchedulerNext

LEMMA NothingCachedStep ==
  ASSUME TypeInv, ~ SupportsPrefixCache, NothingCached, SchedulerNext
  PROVE  NothingCached'
<1>1. ASSUME NEW x \in Req, Arrives(x) PROVE NothingCached'
  BY <1>1 DEF Arrives, AddSequence, NothingCached, TypeInv, TypeOK, SchedulerTypeOK
<1> QED
  BY <1>1 DEF SchedulerNext, Works, CancelSequence, MarkRunning, PrefillChunk, DecodeTokens,
              NothingCached, schedulerVars

\* Without a prefix cache, a foreground request gets neither prefill nor
\* decode work while an earlier foreground request is live, whoever drives the
\* batches and whatever background and branch requests there are.
THEOREM InOrderOfArrival ==
  ASSUME ~ SupportsPrefixCache PROVE Spec => []ForegroundInOrder
<1> DEFINE Inv == TypeInv /\ NothingCached /\ ForegroundInOrder
<1>1. Init => Inv
  <2> SUFFICES ASSUME Init PROVE NothingCached /\ ForegroundInOrder
    BY InitTypeInv
  <2> QED
    BY DEF Init, SchedulerInit, NothingCached, ForegroundInOrder, Live
<1>2. Inv /\ [Next]_vars => Inv'
  BY NextTypeInv, SchedulerSteps, InOrderStep, NothingCachedStep DEF TypeInv
<1>3. Inv => ForegroundInOrder
  OBVIOUS
<1> HIDE DEF Inv
<1> QED
  BY <1>1, <1>2, <1>3, PTL DEF Spec

-----------------------------------------------------------------------------
(* Ended means ended *)

\* No step of any loop, selected before or after a cancel, changes the status,
\* the tokens or the text of a sequence that has been cancelled or has finished.
THEOREM NeverRevived == Spec => TerminalIsFinal
<1>1. TypeInv /\ [Next]_vars => [EndedUnchanged]_vars
  <2> SUFFICES ASSUME TypeInv, Next, NEW r \in Req, Terminal(r)
               PROVE  /\ status'[r] = status[r]
                      /\ generated'[r] = generated[r]
                      /\ response_text'[r] = response_text[r]
    BY DEF EndedUnchanged
  <2> USE DEF TypeInv, TypeOK, SchedulerTypeOK, Terminal
  <2>1. SchedulerNext
    BY SchedulerSteps
  <2>2. status'[r] = status[r] /\ generated'[r] = generated[r]
    <3>1. ASSUME NEW x \in Req, Arrives(x)
          PROVE  status'[r] = status[r] /\ generated'[r] = generated[r]
      BY <3>1 DEF Arrives, AddSequence
    <3>2. ASSUME NEW x \in Req, CancelSequence(x) \/ Works(x)
          PROVE  status'[r] = status[r] /\ generated'[r] = generated[r]
      BY <3>2 DEF CancelSequence, Works, IsNext, Live, MarkRunning, PrefillChunk,
                  DecodeTokens
    <3> QED
      BY <2>1, <3>1, <3>2 DEF SchedulerNext, schedulerVars
  <2>3. ASSUME NEW x \in Req, NEW q \in Req, IsNext(q), Decode(x, q)
        PROVE  response_text'[r] = response_text[r]
    BY <2>3 DEF Decode, IsNext, Live, ReplyTypeOK
  <2>4. response_text'[r] = response_text[r]
    BY <2>3 DEF Next, AddRequest, CancelById, CancelBySession, Cancel, FinishSequence,
                LoopStep, Turn, Drives, Prefill, Fail, Yield, Finish, Disconnect, replyVars
  <2> QED
    BY <2>2, <2>4
<1>2. Spec => []TypeInv
  BY InitTypeInv, NextTypeInv, PTL DEF Spec
<1> QED
  BY <1>1, <1>2, PTL DEF Spec, TerminalIsFinal
=============================================================================
