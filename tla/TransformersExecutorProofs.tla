--------------------- MODULE TransformersExecutorProofs ---------------------
(***************************************************************************)
(* Proofs about TransformersExecutor.tla, for any requests, any pool, any  *)
(* drafts and any number of passes that raise:                             *)
(*   - every step is a step of the paged KV cache that its protocol allows,*)
(*     or leaves the cache alone: so the executor has its properties;      *)
(*   - block tables cover the text and stay within the need;               *)
(*   - replies end once;                                                   *)
(*   - the draft model's cache follows the text;                           *)
(*   - tokens are the target model's own until its cache is first harmed;  *)
(*   - the slots of a block table hold rows of the text, in its context    *)
(*     until the first harm;                                               *)
(*   - the deltas of the detokenizer add up to the decoding of the reply;  *)
(*   - types.                                                              *)
(* The parts come in this order, each with the invariant it needs.         *)
(***************************************************************************)
EXTENDS TransformersExecutor, PagedKVCacheProofs, FiniteSetTheorems, WellFoundedInduction

-----------------------------------------------------------------------------
(* The invariant: the counts that are passed to the cache *)

Fields == {"past", "prefilled", "pending", "generated", "out", "finished",
           "draft_past", "draft_cached"}

\* One request's state, as far as it decides about pages.
StateOK(r) ==
  /\ DOMAIN state[r] = Fields
  /\ state[r].prefilled \in Nat /\ state[r].prefilled <= PromptLen[r]
  /\ state[r].pending \in Token \cup {NoToken}
  /\ state[r].generated \in Seq(Token)
  /\ Len(state[r].generated) <= MaxNewTokens[r]
  /\ ~ state[r].finished => Len(state[r].generated) < MaxNewTokens[r]

\* The request of the batch can go on.
InDecode(r) == r \in Owner /\ state[r].prefilled = PromptLen[r] /\ ~ state[r].finished

Judged(step, r, drafts, targets) ==
  [step |-> step, req |-> r, drafts |-> drafts, targets |-> targets]

TurnOK ==
  \/ turn = NoTurn
  \/ \E r \in Owner : turn = [step |-> "reserved", req |-> r] /\ InDecode(r)
  \/ \E r \in Owner, drafts, targets \in Seq(Token), step \in {"validated", "rejected"} :
       /\ turn = Judged(step, r, drafts, targets)
       /\ InDecode(r)
       /\ Len(targets) = Len(drafts) + 1
       /\ Len(drafts) <= Remaining(r)

CountsOK == /\ DOMAIN state = Owner
            /\ \A r \in Owner : StateOK(r)
            /\ TurnOK

-----------------------------------------------------------------------------
(* The operators *)

LEMMA Constants ==
  /\ KVAssumption
  /\ \A r \in Owner : PromptLen[r] \in Nat \ {0} /\ MaxNewTokens[r] \in Nat \ {0}
  /\ SpecTokens \in Nat /\ ChunkTokens \in Nat \ {0} /\ PageSize \in Nat \ {0}
BY ExecutorAssumption, PageSizeAssumption DEF KVAssumption

LEMMA SmallerFacts ==
  ASSUME NEW a \in Int, NEW b \in Int
  PROVE  Smaller(a, b) \in Int /\ Smaller(a, b) <= a /\ Smaller(a, b) <= b
         /\ (Smaller(a, b) = a \/ Smaller(a, b) = b)
BY DEF Smaller

\* A prefix of a sequence, and its length.
LEMMA PrefixFacts ==
  ASSUME NEW s \in Seq(Token), NEW n \in 0 .. Len(s)
  PROVE  SubSeq(s, 1, n) \in Seq(Token) /\ Len(SubSeq(s, 1, n)) = n
<1>1. Len(s) \in Nat /\ n \in Nat
  BY LenProperties
<1>2. \A i \in 1 .. n : s[i] \in Token
  BY <1>1, ElementOfSeq
<1> QED
  BY <1>1, <1>2, SubSeqProperties

LEMMA UpTo ==
  ASSUME NEW n \in Nat
  PROVE  IsFiniteSet(1 .. n) /\ Cardinality(1 .. n) = n
<1>1. 1 \in Int /\ n \in Int
  OBVIOUS
<1>2. IsFiniteSet(1 .. n) /\ Cardinality(1 .. n) = IF 1 > n THEN 0 ELSE n - 1 + 1
  BY <1>1, FS_Interval, Zenon
<1> QED
  BY <1>2

\* A burst is cut where the budget ends, and at least its first token is put out.
LEMMA PutFacts ==
  ASSUME NEW r \in Owner, NEW generated \in Seq(Token), NEW tokens \in Seq(Token),
         Len(generated) < MaxNewTokens[r]
  PROVE  /\ Put(r, generated, tokens) \in Seq(Token)
         /\ Len(Put(r, generated, tokens)) <= Len(tokens)
         /\ Len(generated) + Len(Put(r, generated, tokens)) <= MaxNewTokens[r]
<1> DEFINE ends(i) == Len(generated) + i >= MaxNewTokens[r] \/ Ends(r, tokens[i])
           S == {i \in 1 .. Len(tokens) : \A j \in 1 .. i - 1 : ~ ends(j)}
           left == MaxNewTokens[r] - Len(generated)
<1>1. Len(generated) \in Nat /\ Len(tokens) \in Nat /\ MaxNewTokens[r] \in Nat /\ left \in Nat \ {0}
  BY LenProperties, Constants
<1>2. S \subseteq 1 .. Len(tokens)
  OBVIOUS
<1>3. S \subseteq 1 .. left
  <2> SUFFICES ASSUME NEW i \in S PROVE i \in 1 .. left
    BY Zenon
  <2>1. i \in 1 .. Len(tokens) /\ \A j \in 1 .. i - 1 : ~ ends(j)
    OBVIOUS
  <2>2. ends(left)
    BY <1>1
  <2> HIDE DEF ends, left
  <2>3. left \notin 1 .. i - 1
    BY <2>1, <2>2
  <2> QED
    BY <1>1, <2>1, <2>3
<1> HIDE DEF S, left
<1>4. /\ Cardinality(S) \in Nat
      /\ Cardinality(S) <= Len(tokens)
      /\ Cardinality(S) <= left
  <2>1. IsFiniteSet(1 .. Len(tokens)) /\ Cardinality(1 .. Len(tokens)) = Len(tokens)
    BY <1>1, UpTo
  <2>2. IsFiniteSet(1 .. left) /\ Cardinality(1 .. left) = left
    BY <1>1, UpTo
  <2>3. IsFiniteSet(S) /\ Cardinality(S) <= Cardinality(1 .. Len(tokens))
    BY <1>2, <2>1, FS_Subset
  <2>4. Cardinality(S) <= Cardinality(1 .. left)
    BY <1>3, <2>2, FS_Subset
  <2> QED
    BY <2>1, <2>2, <2>3, <2>4, FS_CardinalityType
<1>5. Put(r, generated, tokens) = SubSeq(tokens, 1, Cardinality(S))
  BY DEF Put, S
<1>6. Cardinality(S) \in 0 .. Len(tokens)
  BY <1>1, <1>4
<1>7. SubSeq(tokens, 1, Cardinality(S)) \in Seq(Token) /\ Len(SubSeq(tokens, 1, Cardinality(S))) = Cardinality(S)
  BY <1>6, PrefixFacts
<1> QED
  BY <1>1, <1>4, <1>5, <1>7 DEF left

\* A burst appends what is put out of it, and touches nothing else that counts.
LEMMA AppendFacts ==
  ASSUME NEW r \in Owner, NEW s, DOMAIN s = Fields, s.generated \in Seq(Token),
         Len(s.generated) < MaxNewTokens[r], NEW tokens \in Seq(Token)
  PROVE  LET u == AppendTokens(r, s, tokens)
         IN /\ DOMAIN u = Fields
            /\ u.prefilled = s.prefilled /\ u.pending = s.pending
            /\ u.generated \in Seq(Token)
            /\ Len(u.generated) <= MaxNewTokens[r]
            /\ Len(u.generated) <= Len(s.generated) + Len(tokens)
            /\ Len(u.generated) >= Len(s.generated)
            /\ ~ u.finished => Len(u.generated) < MaxNewTokens[r]
<1> DEFINE put == Put(r, s.generated, tokens)
           u == AppendTokens(r, s, tokens)
<1>1. /\ DOMAIN u = Fields
      /\ u.prefilled = s.prefilled /\ u.pending = s.pending
      /\ u.generated = s.generated \o put
      /\ Full(r, s.generated \o put) => u.finished
  BY DEF AppendTokens, Fields
<1>2. /\ put \in Seq(Token) /\ Len(put) <= Len(tokens)
      /\ Len(s.generated) + Len(put) <= MaxNewTokens[r]
  BY PutFacts
<1> HIDE DEF put, u
<1>3. s.generated \o put \in Seq(Token) /\ Len(s.generated \o put) = Len(s.generated) + Len(put)
  BY <1>2, ConcatProperties
<1>4. Len(s.generated) \in Nat /\ Len(put) \in Nat /\ Len(tokens) \in Nat /\ MaxNewTokens[r] \in Nat
  BY <1>2, LenProperties, Constants
<1>5. ~ u.finished => Len(u.generated) < MaxNewTokens[r]
  BY <1>1, <1>3, <1>4 DEF Full
<1> QED
  BY <1>1, <1>2, <1>3, <1>4, <1>5 DEF u

\* Drafts are tokens, no more of them than the budget has left.
LEMMA DraftFacts ==
  ASSUME NEW r \in Owner, StateOK(r), ~ state[r].finished, NEW drafts \in Drafts(r)
  PROVE  drafts \in Seq(Token) /\ Len(drafts) \in Nat /\ Len(drafts) <= Remaining(r)
<1>1. Remaining(r) \in Nat /\ TokenCount(r) \in Nat
  BY LenProperties, Constants DEF Remaining, StateOK, TokenCount
<1>2. DraftCount(r) \in Int /\ DraftCount(r) <= Remaining(r)
  BY <1>1, Constants DEF DraftCount, Smaller
<1>3. PICK n \in Nat : /\ n <= DraftCount(r)
                       /\ drafts \in [1 .. n -> {Wrong} \cup {TokenCount(r) + i - 1 : i \in 1 .. n}]
  <2>1. DraftCount(r) \in Nat
    BY <1>1, Constants DEF DraftCount, Smaller
  <2> QED
    BY <2>1 DEF Drafts
<1>4. {Wrong} \cup {TokenCount(r) + i - 1 : i \in 1 .. n} \subseteq Token
  BY <1>1 DEF Wrong, Token
<1>5. drafts \in [1 .. n -> Token]
  BY <1>3, <1>4
<1>6. drafts \in Seq(Token) /\ Len(drafts) = n
  BY <1>5, SeqDef, LenProperties
<1> QED
  BY <1>1, <1>2, <1>3, <1>6

\* The accepted drafts are a number of drafts.
LEMMA AcceptedFacts ==
  ASSUME NEW drafts \in Seq(Token), NEW targets \in Seq(Token)
  PROVE  Accepted(drafts, targets) \in 0 .. Len(drafts)
<1> DEFINE S == {i \in 1 .. Len(drafts) : \A j \in 1 .. i : drafts[j] = targets[j]}
<1>1. S \subseteq 1 .. Len(drafts) /\ Len(drafts) \in Nat
  BY LenProperties
<1> HIDE DEF S
<1>2. IsFiniteSet(1 .. Len(drafts)) /\ Cardinality(1 .. Len(drafts)) = Len(drafts)
  BY <1>1, UpTo
<1>3. IsFiniteSet(S) /\ Cardinality(S) <= Len(drafts)
  BY <1>1, <1>2, FS_Subset
<1>4. Cardinality(S) \in Nat
  BY <1>3, FS_CardinalityType
<1> QED
  BY <1>1, <1>3, <1>4 DEF Accepted, S

-----------------------------------------------------------------------------
(* What a state and a turn give *)

\* A step that sets one request's state leaves the others'.
LEMMA OtherStates ==
  ASSUME CountsOK, NEW r \in Owner, NEW s, state' = [state EXCEPT ![r] = s]
  PROVE  /\ DOMAIN state' = Owner
         /\ state'[r] = s
         /\ \A q \in Owner \ {r} : StateOK(q)'
<1>1. /\ DOMAIN state' = Owner /\ state'[r] = s
      /\ \A q \in Owner \ {r} : state'[q] = state[q]
  BY DEF CountsOK
<1> QED
  BY <1>1 DEF CountsOK, StateOK

LEMMA NoTurnOK == turn' = NoTurn => TurnOK'
BY DEF TurnOK

LEMMA ReservedFacts ==
  ASSUME CountsOK, NEW r \in Owner, Reserved(r)
  PROVE  StateOK(r) /\ InDecode(r)
<1>1. turn # NoTurn /\ turn.step = "reserved" /\ turn.req = r
  BY DEF Reserved, NoTurn
<1>2. PICK q \in Owner : turn = [step |-> "reserved", req |-> q] /\ InDecode(q)
  BY <1>1 DEF CountsOK, TurnOK, Judged
<1>3. q = r
  BY <1>1, <1>2
<1> QED
  BY <1>2, <1>3 DEF CountsOK

LEMMA JudgedFacts ==
  ASSUME CountsOK, NEW r \in Owner, NEW step \in {"validated", "rejected"}, InStep(r, step)
  PROVE  /\ StateOK(r) /\ InDecode(r)
         /\ turn = Judged(step, r, turn.drafts, turn.targets)
         /\ turn.drafts \in Seq(Token) /\ turn.targets \in Seq(Token)
         /\ Len(turn.targets) = Len(turn.drafts) + 1
         /\ Len(turn.drafts) <= Remaining(r)
<1>1. turn # NoTurn /\ turn.step # "reserved" /\ turn.step = step /\ turn.req = r
  BY DEF InStep, NoTurn
<1>2. PICK q \in Owner, drafts, targets \in Seq(Token), other \in {"validated", "rejected"} :
        /\ turn = Judged(other, q, drafts, targets)
        /\ InDecode(q)
        /\ Len(targets) = Len(drafts) + 1
        /\ Len(drafts) <= Remaining(q)
  BY <1>1 DEF CountsOK, TurnOK
<1>3. other = step /\ q = r /\ turn.drafts = drafts /\ turn.targets = targets
  BY <1>1, <1>2 DEF Judged
<1> QED
  BY <1>2, <1>3 DEF CountsOK

LEMMA CountFacts ==
  ASSUME NEW r \in Owner, StateOK(r)
  PROVE  /\ Len(state[r].generated) \in Nat
         /\ TokenCount(r) = PromptLen[r] + Len(state[r].generated)
         /\ Remaining(r) = MaxNewTokens[r] - Len(state[r].generated)
         /\ TokenCount(r) \in Nat \ {0} /\ Remaining(r) \in Nat
BY LenProperties, Constants DEF StateOK, TokenCount, Remaining

-----------------------------------------------------------------------------
(* The steps *)

\* A pass that raises changes nothing that counts.
LEMMA PassRaisesStep ==
  ASSUME CountsOK, NEW r \in Owner, NEW start, NEW fed, PassRaises(r, start, fed)
  PROVE  CountsOK'
<1>1. TurnOK'
  BY NoTurnOK DEF PassRaises
<1>2. CASE state' = state
  BY <1>1, <1>2 DEF CountsOK, StateOK
<1>3. CASE state' = [state EXCEPT ![r] = Extended(r, fed)]
  <2>2. /\ DOMAIN state' = Owner
        /\ state'[r] = Extended(r, fed)
        /\ \A q \in Owner \ {r} : StateOK(q)'
    BY <1>3, OtherStates
  <2>3. StateOK(r)'
    BY <2>2 DEF CountsOK, StateOK, Fields, Extended
  <2> QED
    BY <1>1, <2>2, <2>3 DEF CountsOK
<1> QED
  BY <1>2, <1>3 DEF PassRaises

LEMMA ChunkFacts ==
  ASSUME CountsOK, NEW r \in Owner, PrefillBatch(r)
  PROVE  /\ StateOK(r) /\ turn = NoTurn
         /\ state[r].prefilled + Chunk(r) \in Nat
         /\ state[r].prefilled + Chunk(r) <= PromptLen[r]
         /\ Grow(r, state[r].prefilled + Chunk(r))
<1>1. StateOK(r) /\ turn = NoTurn /\ Grow(r, state[r].prefilled + Chunk(r))
  BY DEF CountsOK, PrefillBatch
<1>2. state[r].prefilled \in Nat /\ state[r].prefilled <= PromptLen[r]
      /\ PromptLen[r] \in Nat /\ ChunkTokens \in Nat
  BY <1>1, Constants DEF StateOK
<1> QED
  BY <1>1, <1>2 DEF Chunk, Smaller

LEMMA PrefillStep ==
  ASSUME CountsOK, NEW r \in Owner, Prefill(r)
  PROVE  CountsOK' /\ KVNext
<1> DEFINE done == state[r].prefilled + Chunk(r)
<1>1. PrefillBatch(r)
  BY DEF Prefill
<1>2. /\ StateOK(r) /\ turn = NoTurn
      /\ done \in Nat /\ done <= PromptLen[r] /\ Grow(r, done)
  BY <1>1, ChunkFacts
<1>3. PICK t \in Chosen(state[r].past, ChunkOf(r), Chunk(r), done) :
        state' = [state EXCEPT ![r].past = @ \o ChunkOf(r),
                               ![r].prefilled = done,
                               ![r].pending = IF done = PromptLen[r] THEN t ELSE @]
  BY DEF Prefill
<1>4. t \in Token
  BY <1>2 DEF Chosen, Wrong, Token
<1> DEFINE s == [state[r] EXCEPT !.past = @ \o ChunkOf(r), !.prefilled = done,
                                 !.pending = IF done = PromptLen[r] THEN t ELSE @]
<1>5. state' = [state EXCEPT ![r] = s]
  BY <1>3
<1>6. /\ DOMAIN s = Fields /\ s.prefilled = done /\ s.pending \in Token \cup {NoToken}
      /\ s.generated = state[r].generated /\ s.finished = state[r].finished
  BY <1>2, <1>4 DEF StateOK, Fields
<1> HIDE DEF s, done
<1>7. DOMAIN state' = Owner /\ state'[r] = s /\ \A q \in Owner \ {r} : StateOK(q)'
  BY <1>5, OtherStates
<1>8. StateOK(r)'
  BY <1>2, <1>6, <1>7 DEF StateOK
<1>9. TurnOK'
  BY <1>2, NoTurnOK DEF Prefill
<1> QED
  BY <1>2, <1>7, <1>8, <1>9 DEF CountsOK, KVNext

LEMMA PrefillRaisesStep ==
  ASSUME CountsOK, NEW r \in Owner, PrefillRaises(r)
  PROVE  CountsOK' /\ KVNext
BY ChunkFacts, PassRaisesStep DEF PrefillRaises, KVNext

LEMMA ReserveStep ==
  ASSUME CountsOK, NEW r \in Owner, Reserve(r)
  PROVE  CountsOK' /\ KVNext
<1>1. StateOK(r) /\ TokenCount(r) + 1 \in Nat
  BY CountFacts DEF CountsOK
<1>2. Grow(r, TokenCount(r) + 1) /\ state' = state /\ turn' = [step |-> "reserved", req |-> r]
  BY DEF Reserve
<1>3. InDecode(r)'
  BY <1>2 DEF Reserve, InDecode
<1>4. TurnOK'
  BY <1>2, <1>3 DEF TurnOK
<1> QED
  BY <1>1, <1>2, <1>4 DEF CountsOK, StateOK, KVNext

\* Appending a burst to a state that differs from state[r] only in its cache.
LEMMA AppendStep ==
  ASSUME CountsOK, NEW r \in Owner, InDecode(r), NEW s, DOMAIN s = Fields,
         s.prefilled = state[r].prefilled, s.pending \in Token \cup {NoToken},
         s.generated = state[r].generated, NEW tokens \in Seq(Token),
         state' = [state EXCEPT ![r] = AppendTokens(r, s, tokens)], turn' = NoTurn
  PROVE  CountsOK'
<1> DEFINE u == AppendTokens(r, s, tokens)
<1>1. StateOK(r) /\ ~ state[r].finished
  BY DEF CountsOK, InDecode
<1>2. s.generated \in Seq(Token) /\ Len(s.generated) < MaxNewTokens[r]
  BY <1>1 DEF StateOK
<1>3. /\ DOMAIN u = Fields
      /\ u.prefilled = s.prefilled /\ u.pending = s.pending
      /\ u.generated \in Seq(Token) /\ Len(u.generated) <= MaxNewTokens[r]
      /\ ~ u.finished => Len(u.generated) < MaxNewTokens[r]
  BY <1>2, AppendFacts
<1> HIDE DEF u
<1>4. DOMAIN state' = Owner /\ state'[r] = u /\ \A q \in Owner \ {r} : StateOK(q)'
  BY OtherStates DEF u
<1>5. StateOK(r)'
  BY <1>1, <1>3, <1>4 DEF StateOK
<1> QED
  BY <1>4, <1>5, NoTurnOK DEF CountsOK

LEMMA OneToken == \A t \in Token : <<t>> \in Seq(Token) /\ Len(<<t>>) = 1
OBVIOUS

LEMMA EmitPendingStep ==
  ASSUME CountsOK, NEW r \in Owner, EmitPending(r)
  PROVE  CountsOK' /\ UNCHANGED kvVars
<1> DEFINE s == [state[r] EXCEPT !.pending = NoToken]
<1>1. StateOK(r) /\ InDecode(r)
  BY ReservedFacts DEF EmitPending
<1>2. /\ DOMAIN s = Fields /\ s.prefilled = state[r].prefilled
      /\ s.pending \in Token \cup {NoToken} /\ s.generated = state[r].generated
  BY <1>1 DEF StateOK, Fields, NoToken
<1>3. <<state[r].pending>> \in Seq(Token)
  BY <1>1, OneToken DEF StateOK, EmitPending, HasPending
<1>4. /\ state' = [state EXCEPT ![r] = AppendTokens(r, s, <<state[r].pending>>)]
      /\ turn' = NoTurn /\ UNCHANGED kvVars
  BY DEF EmitPending
<1> HIDE DEF s
<1> QED
  BY <1>1, <1>2, <1>3, <1>4, AppendStep

LEMMA DecodeNextStep ==
  ASSUME CountsOK, NEW r \in Owner, DecodeNext(r)
  PROVE  CountsOK' /\ KVNext
<1> DEFINE s == Extended(r, <<LastToken(r)>>)
<1>1. StateOK(r) /\ InDecode(r)
  BY ReservedFacts DEF DecodeNext, DecodeBatch
<1>2. TokenCount(r) \in Nat
  BY <1>1, CountFacts
<1>3. KVNext
  BY <1>2 DEF DecodeNext, KVNext
<1>4. PICK t \in Chosen(state[r].past, <<LastToken(r)>>, 1, TokenCount(r)) :
        state' = [state EXCEPT ![r] = AppendTokens(r, s, <<t>>)]
  BY DEF DecodeNext
<1>5. <<t>> \in Seq(Token)
  BY <1>2 DEF Chosen, Wrong, Token
<1>6. /\ DOMAIN s = Fields /\ s.prefilled = state[r].prefilled
      /\ s.pending \in Token \cup {NoToken} /\ s.generated = state[r].generated
  BY <1>1 DEF StateOK, Fields, Extended
<1>7. turn' = NoTurn
  BY DEF DecodeNext
<1> HIDE DEF s
<1> QED
  BY <1>1, <1>3, <1>4, <1>5, <1>6, <1>7, AppendStep

LEMMA DecodeRaisesStep ==
  ASSUME CountsOK, NEW r \in Owner, DecodeRaises(r)
  PROVE  CountsOK' /\ KVNext
<1>1. StateOK(r)
  BY DEF CountsOK
<1> QED
  BY <1>1, CountFacts, PassRaisesStep DEF DecodeRaises, KVNext

\* A step that only touches the caches of r.
LEMMA CachesStep ==
  ASSUME CountsOK, NEW r \in Owner, NEW s, state' = [state EXCEPT ![r] = s],
         DOMAIN s = Fields, s.prefilled = state[r].prefilled, s.pending = state[r].pending,
         s.generated = state[r].generated, s.finished = state[r].finished
  PROVE  /\ DOMAIN state' = Owner /\ \A q \in Owner : StateOK(q)'
         /\ InDecode(r) => InDecode(r)'
         /\ Remaining(r)' = Remaining(r)
<1>1. DOMAIN state' = Owner /\ state'[r] = s /\ \A q \in Owner \ {r} : StateOK(q)'
  BY OtherStates
<1>2. StateOK(r)'
  BY <1>1 DEF CountsOK, StateOK
<1> QED
  BY <1>1, <1>2 DEF InDecode, Remaining

\* What a raise leaves of the draft model's cache, and of draft_cached_len.
LeftBy(r, cache, n) ==
  \/ /\ cache = Kept(r) \/ (Kept(r) # <<>> /\ cache = Advanced(r))
     /\ n = Smaller(state[r].draft_cached, TokenCount(r) - 1)
  \/ \E drafts \in Drafts(r) : \E k \in 0 .. Len(drafts) - 1 :
       /\ cache = Advanced(r) \o SubSeq(drafts, 1, k)
       /\ n \in TokenCount(r) .. TokenCount(r) + k

WithDraft(r, cache, n) == [state[r] EXCEPT !.draft_past = cache, !.draft_cached = n]

LEMMA DraftRaisesLeaves ==
  ASSUME CountsOK, NEW r \in Owner, DraftRaises(r)
  PROVE  \E cache, n : LeftBy(r, cache, n) /\ state' = [state EXCEPT ![r] = WithDraft(r, cache, n)]
<1>1. CASE AdvanceRaises(r)
  <2>1. PICK cache \in {Kept(r)} \cup (IF Kept(r) = <<>> THEN {} ELSE {Advanced(r)}) :
          state' = [state EXCEPT ![r].draft_past = cache,
                                 ![r].draft_cached = Smaller(@, TokenCount(r) - 1)]
    BY <1>1 DEF AdvanceRaises
  <2> DEFINE n == Smaller(state[r].draft_cached, TokenCount(r) - 1)
  <2>2. LeftBy(r, cache, n)
    BY DEF LeftBy
  <2>3. state' = [state EXCEPT ![r] = WithDraft(r, cache, n)]
    BY <2>1 DEF WithDraft, CountsOK, StateOK, Fields
  <2> QED
    BY <2>2, <2>3
<1>2. CASE ProposalRaises(r)
  <2>1. PICK drafts \in Drafts(r) : \E fed \in 0 .. Len(drafts) - 1 :
          \E k \in fed .. Smaller(fed + 1, Len(drafts) - 1) :
            state' = [state EXCEPT ![r].draft_past = Advanced(r) \o SubSeq(drafts, 1, k),
                                   ![r].draft_cached = TokenCount(r) + fed]
    BY <1>2 DEF ProposalRaises
  <2>2. PICK fed \in 0 .. Len(drafts) - 1 :
          \E k \in fed .. Smaller(fed + 1, Len(drafts) - 1) :
            state' = [state EXCEPT ![r].draft_past = Advanced(r) \o SubSeq(drafts, 1, k),
                                   ![r].draft_cached = TokenCount(r) + fed]
    BY <2>1
  <2>3. PICK k \in fed .. Smaller(fed + 1, Len(drafts) - 1) :
          state' = [state EXCEPT ![r].draft_past = Advanced(r) \o SubSeq(drafts, 1, k),
                                 ![r].draft_cached = TokenCount(r) + fed]
    BY <2>2
  <2> DEFINE cache == Advanced(r) \o SubSeq(drafts, 1, k)
             n == TokenCount(r) + fed
  <2>4. state' = [state EXCEPT ![r] = WithDraft(r, cache, n)]
    BY <2>3 DEF WithDraft, CountsOK, StateOK, Fields
  <2>5. StateOK(r) /\ InDecode(r)
    BY ReservedFacts DEF DraftRaises
  <2>6. Len(drafts) \in Nat /\ TokenCount(r) \in Nat
    BY <2>5, DraftFacts, CountFacts DEF InDecode
  <2>7. k \in 0 .. Len(drafts) - 1 /\ n \in TokenCount(r) .. TokenCount(r) + k
    BY <2>6 DEF Smaller
  <2>8. LeftBy(r, cache, n)
    BY <2>7, Zenon DEF LeftBy
  <2> QED
    BY <2>4, <2>8
<1> QED
  BY <1>1, <1>2 DEF DraftRaises

LEMMA WithDraftFacts ==
  ASSUME CountsOK, NEW r \in Owner, NEW cache, NEW n
  PROVE  /\ DOMAIN WithDraft(r, cache, n) = Fields
         /\ WithDraft(r, cache, n).prefilled = state[r].prefilled
         /\ WithDraft(r, cache, n).pending = state[r].pending
         /\ WithDraft(r, cache, n).generated = state[r].generated
         /\ WithDraft(r, cache, n).finished = state[r].finished
         /\ WithDraft(r, cache, n).out = state[r].out
         /\ WithDraft(r, cache, n).past = state[r].past
         /\ WithDraft(r, cache, n).draft_past = cache
         /\ WithDraft(r, cache, n).draft_cached = n
BY DEF CountsOK, StateOK, Fields, WithDraft

LEMMA DraftRaisesStep ==
  ASSUME CountsOK, NEW r \in Owner, DraftRaises(r)
  PROVE  CountsOK' /\ UNCHANGED kvVars
<1>1. PICK cache, n : state' = [state EXCEPT ![r] = WithDraft(r, cache, n)]
  BY DraftRaisesLeaves
<1> DEFINE s == WithDraft(r, cache, n)
<1>3. /\ DOMAIN s = Fields /\ s.prefilled = state[r].prefilled /\ s.pending = state[r].pending
      /\ s.generated = state[r].generated /\ s.finished = state[r].finished
  BY WithDraftFacts
<1>4. state' = [state EXCEPT ![r] = s]
  BY <1>1
<1> HIDE DEF s
<1>2. DOMAIN state' = Owner /\ \A q \in Owner : StateOK(q)'
  BY <1>3, <1>4, CachesStep
<1> QED
  BY <1>2, NoTurnOK DEF DraftRaises, CountsOK

\* What a round has done to the state of r once the drafts are there.
LEMMA DraftedFacts ==
  ASSUME CountsOK, NEW r \in Owner, NEW drafts
  PROVE  LET s == Drafted(r, drafts)
         IN /\ DOMAIN s = Fields
            /\ s.prefilled = state[r].prefilled /\ s.pending = state[r].pending
            /\ s.generated = state[r].generated /\ s.finished = state[r].finished
BY DEF CountsOK, StateOK, Fields, Drafted

LEMMA RoundOverdrawsStep ==
  ASSUME CountsOK, NEW r \in Owner, RoundOverdraws(r)
  PROVE  CountsOK' /\ UNCHANGED kvVars
<1>1. PICK drafts \in Drafts(r) : state' = [state EXCEPT ![r] = Drafted(r, drafts)]
  BY DEF RoundOverdraws
<1>2. DOMAIN state' = Owner /\ \A q \in Owner : StateOK(q)'
  BY <1>1, DraftedFacts, CachesStep
<1> QED
  BY <1>2, NoTurnOK DEF RoundOverdraws, CountsOK

LEMMA ValidateStep ==
  ASSUME CountsOK, NEW r \in Owner, Validate(r)
  PROVE  CountsOK' /\ KVNext
<1>1. StateOK(r) /\ InDecode(r)
  BY ReservedFacts DEF Validate, SpecBatch
<1>2. PICK drafts \in Drafts(r) :
        LET fed == <<LastToken(r)>> \o drafts
            new == TokenCount(r)
        IN /\ Begin(r, new + Len(drafts))
           /\ state' = [state EXCEPT ![r] = [Drafted(r, drafts) EXCEPT !.past = @ \o fed]]
           /\ \E targets \in [1 .. Len(fed) -> {Wrong} \cup {new + i - 1 : i \in 1 .. Len(fed)}] :
                turn' = [step |-> "validated", req |-> r, drafts |-> drafts, targets |-> targets]
  BY DEF Validate
<1>3. drafts \in Seq(Token) /\ Len(drafts) \in Nat /\ Len(drafts) <= Remaining(r)
  BY <1>1, DraftFacts DEF InDecode
<1>4. TokenCount(r) \in Nat
  BY <1>1, CountFacts
<1>5. Len(<<LastToken(r)>> \o drafts) = Len(drafts) + 1
  <2>1. <<LastToken(r)>> \in Seq({LastToken(r)} \cup Token) /\ Len(<<LastToken(r)>>) = 1
    OBVIOUS
  <2>2. drafts \in Seq({LastToken(r)} \cup Token)
    BY <1>3, SeqMonotonic, Zenon
  <2>3. Len(<<LastToken(r)>> \o drafts) = 1 + Len(drafts)
    BY <2>1, <2>2, ConcatProperties
  <2> QED
    BY <1>3, <2>3
<1>6. PICK targets \in [1 .. Len(drafts) + 1 -> {Wrong} \cup {TokenCount(r) + i - 1 : i \in 1 .. Len(drafts) + 1}] :
        turn' = Judged("validated", r, drafts, targets)
  BY <1>2, <1>5 DEF Judged
<1>7. targets \in Seq(Token) /\ Len(targets) = Len(drafts) + 1
  <2>1. {Wrong} \cup {TokenCount(r) + i - 1 : i \in 1 .. Len(drafts) + 1} \subseteq Token
    BY <1>3, <1>4 DEF Wrong, Token
  <2>2. targets \in [1 .. Len(drafts) + 1 -> Token] /\ Len(drafts) + 1 \in Nat
    BY <1>3, <2>1
  <2> QED
    BY <2>2, SeqDef, LenProperties
<1> DEFINE s == [Drafted(r, drafts) EXCEPT !.past = @ \o (<<LastToken(r)>> \o drafts)]
<1>8. state' = [state EXCEPT ![r] = s]
  BY <1>2
<1>9. /\ DOMAIN s = Fields /\ s.prefilled = state[r].prefilled /\ s.pending = state[r].pending
      /\ s.generated = state[r].generated /\ s.finished = state[r].finished
  BY DraftedFacts DEF Fields
<1> HIDE DEF s
<1>10. /\ DOMAIN state' = Owner /\ \A q \in Owner : StateOK(q)'
       /\ InDecode(r)' /\ Remaining(r)' = Remaining(r)
  BY <1>1, <1>8, <1>9, CachesStep
<1>11. TurnOK'
  BY <1>3, <1>6, <1>7, <1>10 DEF TurnOK
<1>12. KVNext
  <2>1. TokenCount(r) + Len(drafts) \in Nat /\ Begin(r, TokenCount(r) + Len(drafts))
    BY <1>2, <1>3, <1>4
  <2> QED
    BY <2>1 DEF KVNext
<1> QED
  BY <1>10, <1>11, <1>12 DEF CountsOK

LEMMA ValidateRaisesStep ==
  ASSUME CountsOK, NEW r \in Owner, ValidateRaises(r)
  PROVE  CountsOK' /\ KVNext
<1>1. StateOK(r) /\ InDecode(r)
  BY ReservedFacts DEF ValidateRaises, SpecBatch
<1>2. PICK drafts \in Drafts(r) :
        /\ Grow(r, TokenCount(r) + Len(drafts))
        /\ turn' = NoTurn
        /\ \/ state' = [state EXCEPT ![r] = Drafted(r, drafts)]
           \/ state' = [state EXCEPT ![r] = [Drafted(r, drafts) EXCEPT
                                               !.past = @ \o (<<LastToken(r)>> \o drafts)]]
  BY DEF ValidateRaises
<1>3. TokenCount(r) + Len(drafts) \in Nat
  BY <1>1, DraftFacts, CountFacts DEF InDecode
<1> DEFINE s == [Drafted(r, drafts) EXCEPT !.past = @ \o (<<LastToken(r)>> \o drafts)]
<1>4. /\ DOMAIN s = Fields /\ s.prefilled = state[r].prefilled /\ s.pending = state[r].pending
      /\ s.generated = state[r].generated /\ s.finished = state[r].finished
  BY DraftedFacts DEF Fields
<1>5. \/ state' = [state EXCEPT ![r] = Drafted(r, drafts)]
      \/ state' = [state EXCEPT ![r] = s]
  BY <1>2
<1> HIDE DEF s
<1>6. DOMAIN state' = Owner /\ \A q \in Owner : StateOK(q)'
  BY <1>4, <1>5, DraftedFacts, CachesStep
<1> QED
  BY <1>2, <1>3, <1>6, NoTurnOK DEF CountsOK, KVNext

LEMMA AcceptAllStep ==
  ASSUME CountsOK, NEW r \in Owner, AcceptAll(r)
  PROVE  CountsOK' /\ KVNext
<1>1. /\ StateOK(r) /\ InDecode(r)
      /\ turn.drafts \in Seq(Token) /\ turn.targets \in Seq(Token)
      /\ Len(turn.targets) = Len(turn.drafts) + 1
  BY JudgedFacts DEF AcceptAll
<1> DEFINE tokens == Append(turn.drafts, Last(turn.targets))
<1>2. tokens \in Seq(Token)
  <2>1. Len(turn.targets) \in Nat /\ Len(turn.drafts) \in Nat
    BY <1>1, LenProperties
  <2>2. Len(turn.targets) \in 1 .. Len(turn.targets)
    BY <1>1, <2>1
  <2>3. Last(turn.targets) \in Token
    BY <1>1, <2>2, ElementOfSeq DEF Last
  <2> QED
    BY <1>1, <2>3, AppendProperties
<1>3. /\ state' = [state EXCEPT ![r] = AppendTokens(r, state[r], tokens)]
      /\ turn' = NoTurn /\ Commit(r)
  BY DEF AcceptAll
<1> HIDE DEF tokens
<1> DEFINE s == state[r]
<1>4. /\ DOMAIN s = Fields /\ s.prefilled = state[r].prefilled
      /\ s.pending \in Token \cup {NoToken} /\ s.generated = state[r].generated
  BY <1>1 DEF StateOK
<1>5. state' = [state EXCEPT ![r] = AppendTokens(r, s, tokens)]
  BY <1>3
<1> HIDE DEF s
<1>6. CountsOK'
  BY <1>1, <1>2, <1>3, <1>4, <1>5, AppendStep
<1> QED
  BY <1>3, <1>6 DEF KVNext

LEMMA RejectStep ==
  ASSUME CountsOK, NEW r \in Owner, Reject(r)
  PROVE  CountsOK' /\ KVNext
<1>1. /\ InDecode(r)
      /\ turn = Judged("validated", r, turn.drafts, turn.targets)
      /\ turn.drafts \in Seq(Token) /\ turn.targets \in Seq(Token)
      /\ Len(turn.targets) = Len(turn.drafts) + 1
      /\ Len(turn.drafts) <= Remaining(r)
  BY JudgedFacts DEF Reject
<1>2. state' = state /\ turn' = [turn EXCEPT !.step = "rejected"] /\ Rollback(r)
  BY DEF Reject
<1>3. turn' = Judged("rejected", r, turn.drafts, turn.targets)
  BY <1>1, <1>2 DEF Judged
<1>4. InDecode(r)' /\ Remaining(r)' = Remaining(r)
  BY <1>1, <1>2 DEF InDecode, Remaining
<1>5. TurnOK'
  BY <1>1, <1>3, <1>4 DEF TurnOK
<1> QED
  BY <1>2, <1>5 DEF CountsOK, StateOK, KVNext

\* What is fed again and what is put out then: the accepted drafts and one more.
LEMMA ReplayFacts ==
  ASSUME CountsOK, NEW r \in Owner, InStep(r, "rejected")
  PROVE  LET n == Accepted(turn.drafts, turn.targets)
         IN /\ StateOK(r) /\ InDecode(r)
            /\ n \in Nat /\ n <= Remaining(r)
            /\ Len(ReplayFed(r)) = n + 1
            /\ Corrected(turn.drafts, turn.targets) \in Seq(Token)
            /\ Len(Corrected(turn.drafts, turn.targets)) = n + 1
<1> DEFINE n == Accepted(turn.drafts, turn.targets)
           kept == SubSeq(turn.drafts, 1, n)
<1>1. /\ StateOK(r) /\ InDecode(r)
      /\ turn.drafts \in Seq(Token) /\ turn.targets \in Seq(Token)
      /\ Len(turn.targets) = Len(turn.drafts) + 1
      /\ Len(turn.drafts) <= Remaining(r)
  BY JudgedFacts
<1>2. n \in 0 .. Len(turn.drafts)
  BY <1>1, AcceptedFacts
<1> HIDE DEF n
<1>3. Len(turn.drafts) \in Nat /\ Len(turn.targets) \in Nat /\ Remaining(r) \in Nat
  BY <1>1, LenProperties, CountFacts
<1>4. kept \in Seq(Token) /\ Len(kept) = n
  BY <1>1, <1>2, PrefixFacts
<1>5. turn.targets[n + 1] \in Token
  <2>1. n + 1 \in 1 .. Len(turn.targets)
    BY <1>1, <1>2, <1>3
  <2> QED
    BY <1>1, <2>1, ElementOfSeq
<1>6. ReplayFed(r) = <<LastToken(r)>> \o kept /\ Corrected(turn.drafts, turn.targets) = Append(kept, turn.targets[n + 1])
  BY DEF ReplayFed, Corrected, n
<1> HIDE DEF kept
<1>7. Append(kept, turn.targets[n + 1]) \in Seq(Token) /\ Len(Append(kept, turn.targets[n + 1])) = n + 1
  BY <1>4, <1>5, AppendProperties
<1>8. Len(<<LastToken(r)>> \o kept) = n + 1
  <2>1. <<LastToken(r)>> \in Seq({LastToken(r)} \cup Token) /\ Len(<<LastToken(r)>>) = 1
    OBVIOUS
  <2>2. kept \in Seq({LastToken(r)} \cup Token)
    BY <1>4, SeqMonotonic, Zenon
  <2>3. Len(<<LastToken(r)>> \o kept) = 1 + Len(kept)
    BY <2>1, <2>2, ConcatProperties
  <2> QED
    BY <1>2, <1>4, <2>3
<1> QED
  BY <1>1, <1>2, <1>3, <1>6, <1>7, <1>8 DEF n

LEMMA ReplayCount ==
  ASSUME CountsOK, NEW r \in Owner, InStep(r, "rejected")
  PROVE  TokenCount(r) - 1 + Len(ReplayFed(r)) \in Nat
BY ReplayFacts, CountFacts

LEMMA ReplayStep ==
  ASSUME CountsOK, NEW r \in Owner, Replay(r)
  PROVE  CountsOK' /\ KVNext
<1> DEFINE tokens == Corrected(turn.drafts, turn.targets)
           s == Extended(r, ReplayFed(r))
<1>1. /\ InStep(r, "rejected") /\ Grow(r, TokenCount(r) - 1 + Len(ReplayFed(r)))
      /\ state' = [state EXCEPT ![r] = AppendTokens(r, s, tokens)]
      /\ turn' = NoTurn
  BY DEF Replay, ReplayBatch
<1>2. StateOK(r) /\ InDecode(r) /\ tokens \in Seq(Token)
  BY <1>1, ReplayFacts
<1>3. KVNext
  BY <1>1, ReplayCount DEF KVNext
<1>4. /\ DOMAIN s = Fields /\ s.prefilled = state[r].prefilled
      /\ s.pending \in Token \cup {NoToken} /\ s.generated = state[r].generated
  BY <1>2 DEF StateOK, Fields, Extended
<1> HIDE DEF s, tokens
<1> QED
  BY <1>1, <1>2, <1>3, <1>4, AppendStep

LEMMA ReplayRaisesStep ==
  ASSUME CountsOK, NEW r \in Owner, ReplayRaises(r)
  PROVE  CountsOK' /\ KVNext
<1>1. /\ InStep(r, "rejected") /\ Grow(r, TokenCount(r) - 1 + Len(ReplayFed(r)))
      /\ turn' = NoTurn
      /\ state' = state \/ state' = [state EXCEPT ![r] = Extended(r, ReplayFed(r))]
  BY DEF ReplayRaises, ReplayBatch
<1>2. KVNext
  BY <1>1, ReplayCount DEF KVNext
<1> DEFINE s == Extended(r, ReplayFed(r))
<1>3. /\ DOMAIN s = Fields /\ s.prefilled = state[r].prefilled /\ s.pending = state[r].pending
      /\ s.generated = state[r].generated /\ s.finished = state[r].finished
  BY DEF CountsOK, StateOK, Fields, Extended
<1>4. state' = state \/ state' = [state EXCEPT ![r] = s]
  BY <1>1
<1> HIDE DEF s
<1>5. CASE state' = state
  BY <1>1, <1>2, <1>5, NoTurnOK DEF CountsOK, StateOK
<1>6. CASE state' = [state EXCEPT ![r] = s]
  <2>1. DOMAIN state' = Owner /\ \A q \in Owner : StateOK(q)'
    BY <1>3, <1>6, CachesStep
  <2> QED
    BY <1>1, <1>2, <2>1, NoTurnOK DEF CountsOK
<1> QED
  BY <1>4, <1>5, <1>6

-----------------------------------------------------------------------------
(* The executor keeps to the protocol of the cache *)

LEMMA InitCounts == Init => CountsOK /\ KVInit
<1> SUFFICES ASSUME Init PROVE CountsOK /\ KVInit
  OBVIOUS
<1>1. KVInit /\ state = [r \in Owner |-> NewState] /\ turn = NoTurn
  BY DEF Init
<1>2. ASSUME NEW r \in Owner PROVE StateOK(r)
  <2>1. <<>> \in Seq(Token) /\ Len(<<>>) = 0
    OBVIOUS
  <2>2. /\ DOMAIN NewState = Fields /\ NewState.prefilled = 0 /\ NewState.pending = NoToken
        /\ NewState.generated = <<>>
    BY DEF NewState, Fields
  <2>3. state[r] = NewState
    BY <1>1
  <2>4. PromptLen[r] \in Nat \ {0} /\ MaxNewTokens[r] \in Nat \ {0}
    BY Constants, Zenon
  <2>5. DOMAIN state[r] = Fields /\ state[r].prefilled = 0 /\ state[r].pending = NoToken
    BY <2>2, <2>3
  <2>6. state[r].generated \in Seq(Token) /\ Len(state[r].generated) = 0
    BY <2>1, <2>2, <2>3
  <2>7. NoToken \in Token \cup {NoToken}
    BY DEF NoToken
  <2> QED
    BY <2>4, <2>5, <2>6, <2>7 DEF StateOK
<1> QED
  BY <1>1, <1>2 DEF CountsOK, TurnOK

LEMMA StepCounts == CountsOK /\ [Next]_vars => CountsOK' /\ [KVNext]_kvVars
<1> SUFFICES ASSUME CountsOK, [Next]_vars PROVE CountsOK' /\ [KVNext]_kvVars
  OBVIOUS
<1>1. ASSUME UNCHANGED vars PROVE CountsOK' /\ UNCHANGED kvVars
  BY <1>1 DEF vars, execVars, CountsOK, StateOK, TurnOK, InDecode, Remaining
<1>2. ASSUME FreePage PROVE CountsOK' /\ KVNext
  BY <1>2 DEF FreePage, execVars, CountsOK, StateOK, TurnOK, InDecode, Remaining, KVNext
<1>3. ASSUME NEW r \in Owner, Prefill(r) \/ PrefillRaises(r) \/ Reserve(r) PROVE CountsOK' /\ KVNext
  BY <1>3, PrefillStep, PrefillRaisesStep, ReserveStep
<1>4. ASSUME NEW r \in Owner, EmitPending(r) \/ DraftRaises(r) \/ RoundOverdraws(r)
      PROVE  CountsOK' /\ UNCHANGED kvVars
  BY <1>4, EmitPendingStep, DraftRaisesStep, RoundOverdrawsStep
<1>5. ASSUME NEW r \in Owner, DecodeNext(r) \/ DecodeRaises(r) \/ Validate(r) \/ ValidateRaises(r)
      PROVE  CountsOK' /\ KVNext
  BY <1>5, DecodeNextStep, DecodeRaisesStep, ValidateStep, ValidateRaisesStep
<1>6. ASSUME NEW r \in Owner, AcceptAll(r) \/ Reject(r) \/ Replay(r) \/ ReplayRaises(r)
      PROVE  CountsOK' /\ KVNext
  BY <1>6, AcceptAllStep, RejectStep, ReplayStep, ReplayRaisesStep
<1> QED
  BY <1>1, <1>2, <1>3, <1>4, <1>5, <1>6 DEF Next

\* The executor uses the paged KV cache by its protocol: no block table grows while
\* its append transaction is open, and only an open transaction is rolled back,
\* also when passes raise, drafts are refused or the pool runs dry.
THEOREM UsesCacheByProtocol == Spec => KVSpec
<1>1. Init => CountsOK /\ KVInit
  BY InitCounts
<1>2. CountsOK /\ [Next]_vars => CountsOK' /\ [KVNext]_kvVars
  BY StepCounts
<1> QED
  BY <1>1, <1>2, PTL DEF Spec, KVSpec

\* No pass of the executor, complete or broken off, leaks a KV page or puts one
\* into two block tables.
THEOREM ExecutorOwnsPagesOnce == Spec => []PagesOwnedOnce
BY UsesCacheByProtocol, OwnedOnce, Constants, PTL

\* After a refused draft the sequence has the block table from before the round.
THEOREM ExecutorRollsBackExactly == Spec => RollbackIsExact
BY UsesCacheByProtocol, ExactRollback, Constants, PTL

-----------------------------------------------------------------------------
(***************************************************************************)
(* How long the block tables are, for all lengths, budgets, page sizes and *)
(* schedules: a table covers the text that has been through the target     *)
(* model, and never more pages than the prompt and the budget need         *)
(* (TablesWithinNeed).                                                     *)
(*                                                                         *)
(* TablesWithinNeed is not inductive.  What is missing is why the table    *)
(* covers a burst that is put out without another pass: the batch has      *)
(* reserved one token, the round has opened a transaction for its drafts.  *)
(* And a rollback must leave enough, so the transaction's original length  *)
(* must cover the text, which does not grow while it is open.              *)
(***************************************************************************)
Need(r) == PagesRequired(PromptLen[r] + MaxNewTokens[r])

Within(r) == /\ PagesRequired(FedLen(r)) <= Len(block_table[r])
             /\ Len(block_table[r]) <= Need(r)

\* What the batch, or the open transaction, has made room for.
Room(r) ==
  /\ Reserved(r) => PagesRequired(TokenCount(r) + 1) <= Len(block_table[r])
  /\ InStep(r, "validated") =>
       PagesRequired(TokenCount(r) + Len(turn.drafts)) <= Len(block_table[r])

TxnCovers(r) ==
  txn[r].open => /\ InStep(r, "validated")
                 /\ PagesRequired(FedLen(r)) <= txn[r].original_block_len

TableOK(r) == Within(r) /\ Room(r) /\ TxnCovers(r)

TablesOK == CountsOK /\ KVInv /\ \A r \in Owner : TableOK(r)

-----------------------------------------------------------------------------
(* Pages *)

\* ensure_capacity makes a table as long as it must be, and no longer.
LEMMA GrownTable ==
  ASSUME KVInv, NEW r \in Owner, NEW n \in Nat, freeing = <<>>, Fits(r, n), EnsureCapacity(r, n)
  PROVE  /\ Len(block_table'[r]) \in Nat
         /\ Len(block_table'[r]) >= Len(block_table[r])
         /\ Len(block_table'[r]) >= PagesRequired(n)
         /\ Len(block_table'[r]) = Len(block_table[r]) \/ Len(block_table'[r]) = PagesRequired(n)
         /\ \A q \in Owner \ {r} : block_table'[q] = block_table[q]
<1> DEFINE m == Missing(r, n)
           granted == Pool!Granted(m)
<1>1. /\ block_table \in [Owner -> Seq(Page)] /\ Len(block_table[r]) \in Nat
      /\ PagesRequired(n) \in Nat /\ m = PagesRequired(n) - Len(block_table[r])
  BY PagesType, TableFacts DEF KVInv, Tables, Missing
<1>2. CASE m <= 0
  BY <1>1, <1>2 DEF EnsureCapacity
<1>3. CASE m > 0
  <2>1. m \in Nat /\ Pool!Alloc(m) /\ block_table' = [block_table EXCEPT ![r] = @ \o granted]
    BY <1>1, <1>3 DEF EnsureCapacity
  <2>2. granted \in Seq(Page) /\ Len(granted) = m
    BY <2>1, AllocFacts, Constants DEF KVInv
  <2> HIDE DEF m, granted
  <2>3. Len(block_table[r] \o granted) = Len(block_table[r]) + m
    <3>1. block_table[r] \in Seq(Page)
      BY <1>1
    <3> QED
      BY <2>2, <3>1, ConcatProperties
  <2> QED
    BY <1>1, <1>3, <2>1, <2>3
<1> QED
  BY <1>1, <1>2, <1>3

\* Grow, for a count within the need of r.
LEMMA GrowTable ==
  ASSUME KVInv, NEW r \in Owner, NEW n \in Nat, Grow(r, n),
         n <= PromptLen[r] + MaxNewTokens[r], Within(r)
  PROVE  /\ Len(block_table'[r]) \in Nat
         /\ Len(block_table'[r]) >= Len(block_table[r])
         /\ Len(block_table'[r]) >= PagesRequired(n)
         /\ Len(block_table'[r]) <= Need(r)
         /\ \A q \in Owner \ {r} : block_table'[q] = block_table[q]
         /\ txn' = txn /\ ~ txn[r].open
<1>1. PagesRequired(n) <= Need(r)
  BY PagesMonotonic, Constants DEF Need
<1>2. freeing = <<>> /\ Fits(r, n) /\ EnsureCapacity(r, n) /\ txn' = txn /\ ~ txn[r].open
  BY DEF Grow, Idle
<1>3. /\ Len(block_table'[r]) \in Nat
      /\ Len(block_table'[r]) >= Len(block_table[r])
      /\ Len(block_table'[r]) >= PagesRequired(n)
      /\ Len(block_table'[r]) = Len(block_table[r]) \/ Len(block_table'[r]) = PagesRequired(n)
      /\ \A q \in Owner \ {r} : block_table'[q] = block_table[q]
  BY <1>2, GrownTable
<1> QED
  BY <1>1, <1>2, <1>3 DEF Within

-----------------------------------------------------------------------------
(* The text that has been fed *)

LEMMA FedFacts ==
  ASSUME NEW r \in Owner, StateOK(r)
  PROVE  FedLen(r) \in Nat /\ FedLen(r) <= PromptLen[r] + MaxNewTokens[r]
<1>1. /\ Len(state[r].generated) \in Nat /\ TokenCount(r) = PromptLen[r] + Len(state[r].generated)
      /\ TokenCount(r) \in Nat \ {0} /\ PromptLen[r] \in Nat /\ MaxNewTokens[r] \in Nat
  BY CountFacts, Constants
<1> QED
  BY <1>1, SMTT(20) DEF FedLen, StateOK

\* A step that leaves the reply and the prefill of r alone.
LEMMA FedSame ==
  ASSUME NEW r \in Owner, state'[r].generated = state[r].generated,
         state'[r].prefilled = state[r].prefilled
  PROVE  FedLen(r)' = FedLen(r) /\ TokenCount(r)' = TokenCount(r)
BY DEF FedLen, TokenCount

\* A burst of tokens feeds all but the last of them.
LEMMA FedBurst ==
  ASSUME CountsOK, NEW r \in Owner, InDecode(r), NEW s, DOMAIN s = Fields,
         s.prefilled = state[r].prefilled, s.generated = state[r].generated,
         NEW tokens \in Seq(Token), Len(tokens) >= 1,
         state' = [state EXCEPT ![r] = AppendTokens(r, s, tokens)]
  PROVE  /\ FedLen(r)' \in Nat
         /\ FedLen(r)' <= TokenCount(r) + Len(tokens) - 1
         /\ \A q \in Owner \ {r} : state'[q] = state[q]
<1> DEFINE u == AppendTokens(r, s, tokens)
<1>1. StateOK(r) /\ s.generated \in Seq(Token) /\ Len(s.generated) < MaxNewTokens[r]
      /\ state[r].prefilled = PromptLen[r]
  BY DEF CountsOK, StateOK, InDecode
<1>2. /\ u.prefilled = PromptLen[r] /\ u.generated \in Seq(Token)
      /\ Len(u.generated) <= Len(state[r].generated) + Len(tokens)
  BY <1>1, AppendFacts
<1> HIDE DEF u
<1>3. state'[r] = u /\ \A q \in Owner \ {r} : state'[q] = state[q]
  BY DEF CountsOK, u
<1>4. /\ Len(state[r].generated) \in Nat /\ TokenCount(r) = PromptLen[r] + Len(state[r].generated)
      /\ PromptLen[r] \in Nat \ {0} /\ Len(u.generated) \in Nat /\ Len(tokens) \in Nat
  BY <1>1, <1>2, CountFacts, Constants, LenProperties
<1>5. FedLen(r)' = IF u.generated = <<>> THEN PromptLen[r] ELSE (PromptLen[r] + Len(u.generated)) - 1
  <2>1. FedLen(r)' = IF state'[r].generated = <<>> THEN state'[r].prefilled
                     ELSE (PromptLen[r] + Len(state'[r].generated)) - 1
    BY DEF FedLen, TokenCount
  <2>2. state'[r].generated = u.generated /\ state'[r].prefilled = PromptLen[r]
    BY <1>2, <1>3
  <2> QED
    BY <2>1, <2>2, Zenon
<1> QED
  BY <1>2, <1>3, <1>4, <1>5, SMTT(20)

-----------------------------------------------------------------------------
(* The steps *)

\* The turn is that of r, or nobody's: the other requests have no transaction.
Acts(r) == turn = NoTurn \/ turn.req = r

\* A step of r alone keeps what holds of the others.
LEMMA OthersKeep ==
  ASSUME TablesOK, NEW r \in Owner, Acts(r), turn' = NoTurn \/ turn'.req = r,
         NEW q \in Owner \ {r}, state'[q] = state[q], block_table'[q] = block_table[q],
         txn'[q] = txn[q]
  PROVE  TableOK(q)'
<1>1. TableOK(q)
  BY DEF TablesOK
<1>2. FedLen(q)' = FedLen(q)
  BY FedSame
<1>3. ~ Reserved(q)' /\ ~ InStep(q, "validated")'
  BY DEF Reserved, InStep, NoTurn
<1>4. ~ txn[q].open
  BY <1>1 DEF TableOK, TxnCovers, InStep, Acts, NoTurn
<1> QED
  BY <1>1, <1>2, <1>3, <1>4 DEF TableOK, Within, Room, TxnCovers, Need

\* A step of r that ends its turn.
LEMMA TurnEnds ==
  ASSUME TablesOK, NEW r \in Owner, Acts(r), turn' = NoTurn, ~ txn'[r].open,
         \A q \in Owner \ {r} : /\ state'[q] = state[q]
                                /\ block_table'[q] = block_table[q]
                                /\ txn'[q] = txn[q],
         PagesRequired(FedLen(r)') <= Len(block_table'[r]),
         Len(block_table'[r]) <= Need(r)
  PROVE  \A q \in Owner : TableOK(q)'
<1>1. \A q \in Owner \ {r} : TableOK(q)'
  BY OthersKeep
<1>2. Within(r)'
  BY DEF Within, Need
<1>3. Room(r)' /\ TxnCovers(r)'
  BY DEF Room, TxnCovers, Reserved, InStep, NoTurn
<1> QED
  BY <1>1, <1>2, <1>3 DEF TableOK

\* A pass of r with room for n tokens, after which no more than n are fed or as
\* many as before.
LEMMA PassTables ==
  ASSUME TablesOK, NEW r \in Owner, Acts(r), turn' = NoTurn, NEW n \in Nat, Grow(r, n),
         n <= PromptLen[r] + MaxNewTokens[r],
         \A q \in Owner \ {r} : state'[q] = state[q],
         FedLen(r)' \in Nat, FedLen(r)' <= n \/ FedLen(r)' = FedLen(r)
  PROVE  \A q \in Owner : TableOK(q)'
<1>1. KVInv /\ Within(r) /\ StateOK(r)
  BY DEF TablesOK, TableOK, CountsOK
<1>2. /\ Len(block_table'[r]) \in Nat
      /\ Len(block_table'[r]) >= Len(block_table[r])
      /\ Len(block_table'[r]) >= PagesRequired(n)
      /\ Len(block_table'[r]) <= Need(r)
      /\ \A q \in Owner \ {r} : block_table'[q] = block_table[q]
      /\ txn' = txn /\ ~ txn[r].open
  BY <1>1, GrowTable
<1>3. PagesRequired(FedLen(r)') <= Len(block_table'[r])
  <2>1. CASE FedLen(r)' <= n
    <3>1. /\ PagesRequired(FedLen(r)') <= PagesRequired(n)
          /\ PagesRequired(FedLen(r)') \in Nat /\ PagesRequired(n) \in Nat
      BY <2>1, PagesMonotonic, PagesType
    <3> QED
      BY <1>2, <3>1
  <2>2. CASE FedLen(r)' = FedLen(r)
    <3>1. PagesRequired(FedLen(r)) \in Nat /\ Len(block_table[r]) \in Nat
      BY <1>1, FedFacts, PagesType, TableFacts DEF KVInv
    <3> QED
      BY <1>1, <1>2, <2>2, <3>1 DEF Within
  <2> QED
    BY <2>1, <2>2
<1> QED
  BY <1>2, <1>3, TurnEnds

LEMMA PrefillTables ==
  ASSUME TablesOK, NEW r \in Owner, Prefill(r) \/ PrefillRaises(r), CountsOK'
  PROVE  \A q \in Owner : TableOK(q)'
<1> DEFINE n == state[r].prefilled + Chunk(r)
<1>1. /\ StateOK(r) /\ turn = NoTurn /\ turn' = NoTurn
      /\ n \in Nat /\ n <= PromptLen[r] /\ Grow(r, n)
  BY ChunkFacts DEF TablesOK, Prefill, PrefillRaises, PassRaises
<1>2. /\ \A q \in Owner \ {r} : state'[q] = state[q]
      /\ state'[r].generated = state[r].generated
      /\ state'[r].prefilled = n \/ state'[r].prefilled = state[r].prefilled
  <2>1. CASE Prefill(r)
    <3>1. PICK t : state' = [state EXCEPT ![r].past = @ \o ChunkOf(r),
                                          ![r].prefilled = n,
                                          ![r].pending = IF n = PromptLen[r] THEN t ELSE @]
      BY <2>1 DEF Prefill
    <3> DEFINE s == [state[r] EXCEPT !.past = @ \o ChunkOf(r), !.prefilled = n,
                                     !.pending = IF n = PromptLen[r] THEN t ELSE @]
    <3>2. state' = [state EXCEPT ![r] = s]
      BY <3>1
    <3>3. s.prefilled = n /\ s.generated = state[r].generated
      BY <1>1 DEF StateOK, Fields
    <3> HIDE DEF s, n
    <3> QED
      BY <3>2, <3>3 DEF TablesOK, CountsOK
  <2>2. CASE PrefillRaises(r)
    BY <1>1, <2>2 DEF PrefillRaises, PassRaises, Extended, TablesOK, CountsOK, StateOK, Fields
  <2> QED
    BY <2>1, <2>2
<1> HIDE DEF n
<1>3. FedLen(r)' = n \/ FedLen(r)' = FedLen(r)
  BY <1>2 DEF FedLen, TokenCount
<1>4. FedLen(r) \in Nat /\ n <= PromptLen[r] + MaxNewTokens[r]
  BY <1>1, FedFacts, Constants
<1> QED
  BY <1>1, <1>2, <1>3, <1>4, PassTables DEF Acts

LEMMA ReserveTables ==
  ASSUME TablesOK, NEW r \in Owner, Reserve(r)
  PROVE  \A q \in Owner : TableOK(q)'
<1>1. /\ turn = NoTurn /\ turn' = [step |-> "reserved", req |-> r] /\ state' = state
      /\ Grow(r, TokenCount(r) + 1)
      /\ StateOK(r) /\ ~ state[r].finished /\ Within(r) /\ KVInv
  BY DEF Reserve, TablesOK, TableOK, CountsOK
<1>2. /\ TokenCount(r) + 1 \in Nat /\ TokenCount(r) + 1 <= PromptLen[r] + MaxNewTokens[r]
  BY <1>1, CountFacts, Constants, SMTT(20) DEF StateOK
<1>3. /\ Len(block_table'[r]) \in Nat
      /\ Len(block_table'[r]) >= Len(block_table[r])
      /\ Len(block_table'[r]) >= PagesRequired(TokenCount(r) + 1)
      /\ Len(block_table'[r]) <= Need(r)
      /\ \A q \in Owner \ {r} : block_table'[q] = block_table[q]
      /\ txn' = txn /\ ~ txn[r].open
  BY <1>1, <1>2, GrowTable
<1>4. \A q \in Owner \ {r} : TableOK(q)'
  BY <1>1, <1>3, OthersKeep DEF Acts
<1>5. FedLen(r)' = FedLen(r) /\ TokenCount(r)' = TokenCount(r)
  BY <1>1, FedSame
<1>6. PagesRequired(FedLen(r)) \in Nat /\ Len(block_table[r]) \in Nat /\ PagesRequired(TokenCount(r) + 1) \in Nat
  BY <1>1, <1>2, FedFacts, PagesType, TableFacts DEF KVInv
<1>7. Within(r)'
  BY <1>1, <1>3, <1>5, <1>6 DEF Within, Need
<1>8. Room(r)'
  BY <1>1, <1>3, <1>5, <1>6 DEF Room, InStep
<1>9. TxnCovers(r)'
  BY <1>3 DEF TxnCovers
<1> QED
  BY <1>4, <1>7, <1>8, <1>9 DEF TableOK

LEMMA EmitTables ==
  ASSUME TablesOK, NEW r \in Owner, EmitPending(r)
  PROVE  \A q \in Owner : TableOK(q)'
<1> DEFINE s == [state[r] EXCEPT !.pending = NoToken]
           tokens == <<state[r].pending>>
<1>1. CountsOK /\ KVInv /\ TableOK(r) /\ Reserved(r) /\ StateOK(r) /\ InDecode(r)
  BY ReservedFacts DEF TablesOK, EmitPending
<1>2. DOMAIN s = Fields /\ s.prefilled = state[r].prefilled /\ s.generated = state[r].generated
  BY <1>1 DEF StateOK, Fields
<1>3. tokens \in Seq(Token) /\ Len(tokens) = 1 /\ Len(tokens) >= 1
  BY <1>1, OneToken DEF StateOK, EmitPending, HasPending
<1>4. /\ state' = [state EXCEPT ![r] = AppendTokens(r, s, tokens)]
      /\ turn' = NoTurn /\ block_table' = block_table /\ txn' = txn
  BY DEF EmitPending, kvVars
<1> HIDE DEF s, tokens
<1>5. /\ FedLen(r)' \in Nat
      /\ FedLen(r)' <= TokenCount(r) + Len(tokens) - 1
      /\ \A q \in Owner \ {r} : state'[q] = state[q]
  BY <1>1, <1>2, <1>3, <1>4, FedBurst
<1>6. TokenCount(r) \in Nat /\ TokenCount(r) + 1 \in Nat /\ FedLen(r)' <= TokenCount(r) + 1
  BY <1>1, <1>3, <1>5, CountFacts
<1>7. PagesRequired(FedLen(r)') <= Len(block_table[r]) /\ Len(block_table[r]) <= Need(r)
  <2>1. PagesRequired(FedLen(r)') <= PagesRequired(TokenCount(r) + 1)
    BY <1>5, <1>6, PagesMonotonic
  <2>2. PagesRequired(FedLen(r)') \in Nat /\ PagesRequired(TokenCount(r) + 1) \in Nat
    BY <1>5, <1>6, PagesType
  <2>3. PagesRequired(TokenCount(r) + 1) <= Len(block_table[r]) /\ Len(block_table[r]) <= Need(r)
    BY <1>1 DEF TableOK, Room, Within
  <2>4. Len(block_table[r]) \in Nat
    BY <1>1, TableFacts DEF KVInv
  <2> QED
    BY <2>1, <2>2, <2>3, <2>4
<1>8. ~ txn[r].open /\ Acts(r)
  BY <1>1 DEF TableOK, TxnCovers, InStep, Reserved, Acts
<1> QED
  BY <1>4, <1>5, <1>7, <1>8, TurnEnds

LEMMA DecodeTables ==
  ASSUME TablesOK, NEW r \in Owner, DecodeNext(r) \/ DecodeRaises(r)
  PROVE  \A q \in Owner : TableOK(q)'
<1>1. /\ CountsOK /\ Reserved(r) /\ StateOK(r) /\ InDecode(r) /\ turn' = NoTurn
      /\ Grow(r, TokenCount(r))
  BY ReservedFacts DEF TablesOK, DecodeNext, DecodeRaises, DecodeBatch, PassRaises
<1>2. Acts(r)
  BY <1>1 DEF Reserved, Acts
<1>3. TokenCount(r) \in Nat /\ TokenCount(r) <= PromptLen[r] + MaxNewTokens[r]
  BY <1>1, CountFacts, Constants DEF StateOK
<1>4. /\ \A q \in Owner \ {r} : state'[q] = state[q]
      /\ FedLen(r)' \in Nat
      /\ FedLen(r)' <= TokenCount(r) \/ FedLen(r)' = FedLen(r)
  <2>1. CASE DecodeNext(r)
    <3> DEFINE s == Extended(r, <<LastToken(r)>>)
    <3>1. PICK t \in Chosen(state[r].past, <<LastToken(r)>>, 1, TokenCount(r)) :
            state' = [state EXCEPT ![r] = AppendTokens(r, s, <<t>>)]
      BY <2>1 DEF DecodeNext
    <3>2. <<t>> \in Seq(Token) /\ Len(<<t>>) = 1 /\ Len(<<t>>) >= 1
      BY <1>3 DEF Chosen, Wrong, Token
    <3>3. DOMAIN s = Fields /\ s.prefilled = state[r].prefilled /\ s.generated = state[r].generated
      BY <1>1 DEF StateOK, Fields, Extended
    <3> HIDE DEF s
    <3>4. /\ FedLen(r)' \in Nat
          /\ FedLen(r)' <= TokenCount(r) + Len(<<t>>) - 1
          /\ \A q \in Owner \ {r} : state'[q] = state[q]
      BY <1>1, <3>1, <3>2, <3>3, FedBurst
    <3> QED
      BY <1>3, <3>2, <3>4
  <2>2. CASE DecodeRaises(r)
    <3>1. /\ \A q \in Owner \ {r} : state'[q] = state[q]
          /\ state'[r].generated = state[r].generated /\ state'[r].prefilled = state[r].prefilled
      BY <1>1, <2>2 DEF DecodeRaises, PassRaises, Extended, CountsOK, StateOK, Fields
    <3> QED
      BY <1>1, <3>1, FedSame, FedFacts
  <2> QED
    BY <2>1, <2>2
<1> QED
  BY <1>1, <1>2, <1>3, <1>4, PassTables

\* A round, or a batch, of r that only changes its caches and ends.
LEMMA QuietTables ==
  ASSUME TablesOK, NEW r \in Owner, Reserved(r), turn' = NoTurn, UNCHANGED kvVars,
         NEW s, state' = [state EXCEPT ![r] = s],
         s.prefilled = state[r].prefilled, s.generated = state[r].generated
  PROVE  \A q \in Owner : TableOK(q)'
<1>1. /\ state'[r] = s /\ \A q \in Owner \ {r} : state'[q] = state[q]
      /\ block_table' = block_table /\ txn' = txn /\ TableOK(r)
  BY DEF TablesOK, CountsOK, kvVars
<1>2. FedLen(r)' = FedLen(r)
  BY <1>1, FedSame
<1>3. ~ txn[r].open /\ Acts(r)
  BY <1>1 DEF TableOK, TxnCovers, InStep, Reserved, Acts
<1> QED
  BY <1>1, <1>2, <1>3, TurnEnds DEF TableOK, Within

LEMMA DraftRaisesTables ==
  ASSUME TablesOK, NEW r \in Owner, DraftRaises(r) \/ RoundOverdraws(r)
  PROVE  \A q \in Owner : TableOK(q)'
<1>1. Reserved(r) /\ turn' = NoTurn /\ UNCHANGED kvVars /\ StateOK(r)
  BY DEF DraftRaises, RoundOverdraws, SpecBatch, TablesOK, CountsOK
<1>2. CASE DraftRaises(r)
  <2>1. PICK cache, n : state' = [state EXCEPT ![r] = WithDraft(r, cache, n)]
    BY <1>2, DraftRaisesLeaves DEF TablesOK
  <2> DEFINE s == WithDraft(r, cache, n)
  <2>2. s.prefilled = state[r].prefilled /\ s.generated = state[r].generated
    BY WithDraftFacts DEF TablesOK
  <2>3. state' = [state EXCEPT ![r] = s]
    BY <2>1
  <2> HIDE DEF s
  <2> QED
    BY <1>1, <2>2, <2>3, QuietTables
<1>3. CASE RoundOverdraws(r)
  <2>1. PICK drafts \in Drafts(r) : state' = [state EXCEPT ![r] = Drafted(r, drafts)]
    BY <1>3 DEF RoundOverdraws
  <2> QED
    BY <1>1, <2>1, DraftedFacts, QuietTables DEF TablesOK
<1> QED
  BY <1>2, <1>3

\* Room for the drafts is within the need.
LEMMA DraftRoom ==
  ASSUME NEW r \in Owner, StateOK(r), InDecode(r), NEW drafts \in Drafts(r)
  PROVE  /\ TokenCount(r) + Len(drafts) \in Nat
         /\ TokenCount(r) + Len(drafts) <= PromptLen[r] + MaxNewTokens[r]
<1>1. Len(drafts) \in Nat /\ Len(drafts) <= Remaining(r)
  BY DraftFacts DEF InDecode
<1>2. /\ Len(state[r].generated) \in Nat
      /\ TokenCount(r) = PromptLen[r] + Len(state[r].generated)
      /\ Remaining(r) = MaxNewTokens[r] - Len(state[r].generated)
      /\ PromptLen[r] \in Nat /\ MaxNewTokens[r] \in Nat
  BY CountFacts, Constants
<1> QED
  BY <1>1, <1>2, SMTT(30)

LEMMA ValidateRaisesTables ==
  ASSUME TablesOK, NEW r \in Owner, ValidateRaises(r)
  PROVE  \A q \in Owner : TableOK(q)'
<1>1. CountsOK /\ Reserved(r) /\ StateOK(r) /\ InDecode(r)
  BY ReservedFacts DEF ValidateRaises, SpecBatch, TablesOK
<1>2. PICK drafts \in Drafts(r) :
        /\ Grow(r, TokenCount(r) + Len(drafts))
        /\ turn' = NoTurn
        /\ \/ state' = [state EXCEPT ![r] = Drafted(r, drafts)]
           \/ state' = [state EXCEPT ![r] = [Drafted(r, drafts) EXCEPT
                                               !.past = @ \o (<<LastToken(r)>> \o drafts)]]
  BY DEF ValidateRaises
<1> DEFINE n == TokenCount(r) + Len(drafts)
           s == [Drafted(r, drafts) EXCEPT !.past = @ \o (<<LastToken(r)>> \o drafts)]
<1>3. n \in Nat /\ n <= PromptLen[r] + MaxNewTokens[r]
  BY <1>1, DraftRoom
<1>4. s.prefilled = state[r].prefilled /\ s.generated = state[r].generated
  BY <1>1, DraftedFacts DEF Fields
<1>5. state' = [state EXCEPT ![r] = Drafted(r, drafts)] \/ state' = [state EXCEPT ![r] = s]
  BY <1>2
<1>6. Grow(r, n)
  BY <1>2
<1> HIDE DEF n, s
<1>7. /\ \A q \in Owner \ {r} : state'[q] = state[q]
      /\ state'[r].generated = state[r].generated /\ state'[r].prefilled = state[r].prefilled
  BY <1>1, <1>4, <1>5, DraftedFacts DEF CountsOK
<1>8. FedLen(r)' = FedLen(r) /\ FedLen(r) \in Nat
  BY <1>1, <1>7, FedSame, FedFacts
<1>9. Acts(r)
  BY <1>1 DEF Acts, Reserved
<1> QED
  BY <1>2, <1>3, <1>6, <1>7, <1>8, <1>9, PassTables

LEMMA ValidateTables ==
  ASSUME TablesOK, NEW r \in Owner, Validate(r)
  PROVE  \A q \in Owner : TableOK(q)'
<1>1. CountsOK /\ KVInv /\ Within(r) /\ Reserved(r) /\ StateOK(r) /\ InDecode(r)
  BY ReservedFacts DEF Validate, SpecBatch, TablesOK, TableOK
<1>2. PICK drafts \in Drafts(r) :
        /\ Begin(r, TokenCount(r) + Len(drafts))
        /\ state' = [state EXCEPT ![r] = [Drafted(r, drafts) EXCEPT
                                            !.past = @ \o (<<LastToken(r)>> \o drafts)]]
        /\ \E targets : turn' = Judged("validated", r, drafts, targets)
  BY DEF Validate, Judged
<1> DEFINE n == TokenCount(r) + Len(drafts)
           s == [Drafted(r, drafts) EXCEPT !.past = @ \o (<<LastToken(r)>> \o drafts)]
<1>3. n \in Nat /\ n <= PromptLen[r] + MaxNewTokens[r]
  BY <1>1, DraftRoom
<1>4. s.prefilled = state[r].prefilled /\ s.generated = state[r].generated
  BY <1>1, DraftedFacts DEF Fields
<1>5. state' = [state EXCEPT ![r] = s] /\ Begin(r, n)
  BY <1>2
<1> HIDE DEF s
<1>6. /\ \A q \in Owner \ {r} : state'[q] = state[q]
      /\ state'[r].generated = state[r].generated /\ state'[r].prefilled = state[r].prefilled
  BY <1>1, <1>4, <1>5 DEF CountsOK
<1>7. FedLen(r)' = FedLen(r) /\ FedLen(r) \in Nat /\ TokenCount(r)' = TokenCount(r)
  BY <1>1, <1>6, FedSame, FedFacts
<1>8. /\ turn'.step = "validated" /\ turn'.req = r /\ turn'.drafts = drafts
  BY <1>2 DEF Judged
<1> HIDE DEF n
<1>9. /\ Len(block_table'[r]) \in Nat
      /\ Len(block_table'[r]) >= Len(block_table[r])
      /\ Len(block_table'[r]) >= PagesRequired(n)
      /\ Len(block_table'[r]) = Len(block_table[r]) \/ Len(block_table'[r]) = PagesRequired(n)
      /\ \A q \in Owner \ {r} : block_table'[q] = block_table[q]
  BY <1>1, <1>3, <1>5, GrownTable DEF Begin, Idle
<1>10. /\ PagesRequired(n) <= Need(r) /\ PagesRequired(n) \in Nat
       /\ PagesRequired(FedLen(r)) \in Nat /\ Len(block_table[r]) \in Nat
  <2>1. PromptLen[r] + MaxNewTokens[r] \in Nat
    BY Constants
  <2>2. PagesRequired(n) <= Need(r)
    BY <1>3, <2>1, PagesMonotonic DEF Need
  <2>3. Len(block_table[r]) \in Nat
    BY <1>1, TableFacts DEF KVInv
  <2> QED
    BY <1>3, <1>7, <2>2, <2>3, PagesType
<1>11. Within(r)'
  BY <1>1, <1>7, <1>9, <1>10 DEF Within, Need
<1>12. Room(r)'
  BY <1>7, <1>8, <1>9 DEF Room, Reserved, n
<1>13. /\ txn'[r].original_block_len = Len(block_table[r])
       /\ \A q \in Owner \ {r} : txn'[q] = txn[q]
  BY <1>1, <1>5 DEF Begin, OriginalLen, KVInv, TxnType
<1>14. TxnCovers(r)'
  BY <1>1, <1>7, <1>8, <1>13 DEF TxnCovers, InStep, Within
<1>15. \A q \in Owner \ {r} : TableOK(q)'
  BY <1>1, <1>6, <1>8, <1>9, <1>13, OthersKeep DEF Acts, Reserved
<1> QED
  BY <1>11, <1>12, <1>14, <1>15 DEF TableOK

LEMMA AcceptAllTables ==
  ASSUME TablesOK, NEW r \in Owner, AcceptAll(r)
  PROVE  \A q \in Owner : TableOK(q)'
<1> DEFINE tokens == Append(turn.drafts, Last(turn.targets))
           s == state[r]
<1>1. /\ CountsOK /\ KVInv /\ TableOK(r) /\ StateOK(r) /\ InDecode(r) /\ InStep(r, "validated")
      /\ turn.drafts \in Seq(Token) /\ turn.targets \in Seq(Token)
      /\ Len(turn.targets) = Len(turn.drafts) + 1
  BY JudgedFacts DEF AcceptAll, TablesOK
<1>2. Len(turn.drafts) \in Nat /\ tokens \in Seq(Token) /\ Len(tokens) = Len(turn.drafts) + 1
  <2>1. Len(turn.targets) \in Nat /\ Len(turn.drafts) \in Nat
    BY <1>1, LenProperties
  <2>2. Len(turn.targets) \in 1 .. Len(turn.targets)
    BY <1>1, <2>1
  <2>3. Last(turn.targets) \in Token
    BY <1>1, <2>2, ElementOfSeq DEF Last
  <2> QED
    BY <1>1, <2>1, <2>3, AppendProperties
<1>3. /\ state' = [state EXCEPT ![r] = AppendTokens(r, s, tokens)]
      /\ turn' = NoTurn /\ txn' = [txn EXCEPT ![r] = NoTxn] /\ block_table' = block_table
  BY DEF AcceptAll, Commit
<1>4. DOMAIN s = Fields /\ s.prefilled = state[r].prefilled /\ s.generated = state[r].generated
  BY <1>1 DEF StateOK
<1>5. Len(tokens) >= 1
  BY <1>2
<1> HIDE DEF s, tokens
<1>6. /\ FedLen(r)' \in Nat
      /\ FedLen(r)' <= TokenCount(r) + Len(tokens) - 1
      /\ \A q \in Owner \ {r} : state'[q] = state[q]
  BY <1>1, <1>2, <1>3, <1>4, <1>5, FedBurst
<1>7. /\ TokenCount(r) + Len(turn.drafts) \in Nat
      /\ FedLen(r)' <= TokenCount(r) + Len(turn.drafts)
  BY <1>1, <1>2, <1>6, CountFacts
<1>8. PagesRequired(FedLen(r)') <= Len(block_table[r]) /\ Len(block_table[r]) <= Need(r)
  <2>1. /\ PagesRequired(FedLen(r)') <= PagesRequired(TokenCount(r) + Len(turn.drafts))
    BY <1>6, <1>7, PagesMonotonic
  <2>2. /\ PagesRequired(FedLen(r)') \in Nat
        /\ PagesRequired(TokenCount(r) + Len(turn.drafts)) \in Nat
    BY <1>6, <1>7, PagesType
  <2>3. /\ PagesRequired(TokenCount(r) + Len(turn.drafts)) <= Len(block_table[r])
        /\ Len(block_table[r]) <= Need(r)
    BY <1>1 DEF TableOK, Room, Within
  <2>4. Len(block_table[r]) \in Nat
    BY <1>1, TableFacts DEF KVInv
  <2> QED
    BY <2>1, <2>2, <2>3, <2>4
<1>9. /\ ~ txn'[r].open
      /\ \A q \in Owner \ {r} : txn'[q] = txn[q]
  BY <1>1, <1>3 DEF KVInv, TxnType, NoTxn
<1>10. Acts(r)
  BY <1>1 DEF InStep, Acts
<1> QED
  BY <1>3, <1>6, <1>8, <1>9, <1>10, TurnEnds

LEMMA RejectTables ==
  ASSUME TablesOK, NEW r \in Owner, Reject(r)
  PROVE  \A q \in Owner : TableOK(q)'
<1>1. /\ KVInv /\ TableOK(r) /\ StateOK(r) /\ InStep(r, "validated")
      /\ turn = Judged("validated", r, turn.drafts, turn.targets)
  BY JudgedFacts DEF Reject, TablesOK, CountsOK
<1>2. /\ state' = state /\ turn' = [turn EXCEPT !.step = "rejected"]
      /\ Rollback(r) /\ txn[r].open
      /\ txn' = [txn EXCEPT ![r] = NoTxn]
  BY DEF Reject, Rollback
<1>3. turn'.step = "rejected" /\ turn'.req = r
  BY <1>1, <1>2 DEF Judged
<1>4. block_table' = [block_table EXCEPT ![r] = txn[r].before]
  BY <1>1, <1>2, RollbackStep
<1> DEFINE len == txn[r].original_block_len
           table == block_table[r]
<1>5. /\ table \in Seq(Page) /\ Len(table) \in Nat
      /\ len \in 0 .. Len(table) /\ txn[r].before = SubSeq(table, 1, len)
      /\ \A i \in 1 .. len : table[i] \in Page
  BY <1>1, <1>2, TableFacts DEF KVInv, Tables, TxnHolds
<1> HIDE DEF len, table
<1>6. Len(SubSeq(table, 1, len)) = len
  BY <1>5, SubSeqProperties
<1>7. Len(block_table'[r]) = len /\ \A q \in Owner \ {r} : block_table'[q] = block_table[q]
  BY <1>1, <1>4, <1>5, <1>6 DEF KVInv, Tables
<1>8. PagesRequired(FedLen(r)) <= len
  BY <1>1, <1>2 DEF TableOK, TxnCovers, len
<1>9. FedLen(r)' = FedLen(r)
  BY <1>2, FedSame
<1>10. Within(r)'
  <2>1. Need(r) \in Nat /\ Len(table) <= Need(r)
    <3>1. PromptLen[r] + MaxNewTokens[r] \in Nat
      BY Constants
    <3>2. Need(r) \in Nat
      BY <3>1, PagesType DEF Need
    <3> QED
      BY <1>1, <3>2, Zenon DEF TableOK, Within, table
  <2> QED
    BY <1>5, <1>7, <1>8, <1>9, <2>1 DEF Within, Need
<1>11. Room(r)'
  BY <1>3 DEF Room, Reserved, InStep
<1>12. /\ ~ txn'[r].open
       /\ \A q \in Owner \ {r} : txn'[q] = txn[q]
  BY <1>1, <1>2 DEF KVInv, TxnType, NoTxn
<1>13. TxnCovers(r)'
  BY <1>12 DEF TxnCovers
<1>14. \A q \in Owner \ {r} : TableOK(q)'
  BY <1>1, <1>2, <1>3, <1>7, <1>12, OthersKeep DEF Acts, InStep
<1> QED
  BY <1>10, <1>11, <1>13, <1>14 DEF TableOK

\* A burst of k tokens, k - 1 of them within what remains, ends inside the request's limit.
LEMMA BurstFits ==
  ASSUME NEW count \in Nat \ {0}, NEW prompt \in Nat, NEW limit \in Nat, NEW made \in Nat,
         NEW k \in Int, NEW left, count = prompt + made, left = limit - made,
         k >= 1, k - 1 <= left
  PROVE  count + k - 1 \in Nat /\ count + k - 1 <= prompt + limit
OBVIOUS

LEMMA ReplayTables ==
  ASSUME TablesOK, NEW r \in Owner, Replay(r) \/ ReplayRaises(r)
  PROVE  \A q \in Owner : TableOK(q)'
<1> DEFINE n == TokenCount(r) - 1 + Len(ReplayFed(r))
           tokens == Corrected(turn.drafts, turn.targets)
           s == Extended(r, ReplayFed(r))
<1>1. CountsOK /\ InStep(r, "rejected") /\ Grow(r, n) /\ turn' = NoTurn
  BY DEF Replay, ReplayRaises, ReplayBatch, TablesOK
<1>2. /\ StateOK(r) /\ InDecode(r) /\ tokens \in Seq(Token)
      /\ Len(tokens) \in Nat /\ Len(tokens) >= 1 /\ Len(tokens) - 1 <= Remaining(r)
      /\ Len(ReplayFed(r)) = Len(tokens)
  BY <1>1, ReplayFacts
<1>3. DOMAIN s = Fields /\ s.prefilled = state[r].prefilled /\ s.generated = state[r].generated
  BY <1>2 DEF StateOK, Fields, Extended
<1>4. /\ TokenCount(r) \in Nat \ {0} /\ TokenCount(r) = PromptLen[r] + Len(state[r].generated)
      /\ Remaining(r) = MaxNewTokens[r] - Len(state[r].generated)
      /\ Len(state[r].generated) \in Nat /\ PromptLen[r] \in Nat /\ MaxNewTokens[r] \in Nat
  BY <1>2, CountFacts, Constants
<1>5. n = TokenCount(r) + Len(tokens) - 1 /\ n \in Nat /\ n <= PromptLen[r] + MaxNewTokens[r]
  <2> HIDE DEF tokens, s
  <2>1. TokenCount(r) \in Int /\ Len(ReplayFed(r)) \in Int /\ Remaining(r) \in Int
    BY <1>2, <1>4
  <2>2. Len(tokens) \in Int /\ n = TokenCount(r) + Len(tokens) - 1
    BY <1>2, <2>1
  <2> HIDE DEF n
  <2>3. Len(tokens) >= 1 /\ Len(tokens) - 1 <= Remaining(r)
    BY <1>2
  <2> QED
    BY <1>4, <2>2, <2>3, BurstFits
<1>6. CASE Replay(r)
  <2>1. state' = [state EXCEPT ![r] = AppendTokens(r, s, tokens)]
    BY <1>6 DEF Replay
  <2> HIDE DEF n, s, tokens
  <2>2. /\ FedLen(r)' \in Nat
        /\ FedLen(r)' <= TokenCount(r) + Len(tokens) - 1
        /\ \A q \in Owner \ {r} : state'[q] = state[q]
    BY <1>1, <1>2, <1>3, <2>1, FedBurst
  <2>3. Acts(r)
    BY <1>1 DEF InStep, Acts
  <2> QED
    BY <1>1, <1>5, <2>2, <2>3, PassTables
<1>7. CASE ReplayRaises(r)
  <2>1. state' = state \/ state' = [state EXCEPT ![r] = s]
    BY <1>7 DEF ReplayRaises
  <2> HIDE DEF n, s, tokens
  <2>2. /\ \A q \in Owner \ {r} : state'[q] = state[q]
        /\ state'[r].generated = state[r].generated /\ state'[r].prefilled = state[r].prefilled
    BY <1>1, <1>3, <2>1 DEF CountsOK
  <2>3. FedLen(r)' = FedLen(r) /\ FedLen(r) \in Nat
    BY <1>2, <2>2, FedSame, FedFacts
  <2>4. Acts(r)
    BY <1>1 DEF InStep, Acts
  <2> QED
    BY <1>1, <1>5, <2>2, <2>3, <2>4, PassTables
<1> QED
  BY <1>6, <1>7

-----------------------------------------------------------------------------
(* All steps *)

LEMMA InitTables == Init => TablesOK
<1> SUFFICES ASSUME Init PROVE TablesOK
  OBVIOUS
<1>1. CountsOK /\ KVInv
  BY InitCounts, InitInv, Constants
<1>2. ASSUME NEW r \in Owner PROVE TableOK(r)
  <2>1. /\ block_table[r] = <<>> /\ ~ txn[r].open /\ turn = NoTurn /\ state[r] = NewState
    BY DEF Init, KVInit, NoTxn
  <2>2. FedLen(r) = 0 /\ Len(block_table[r]) = 0
    BY <2>1, EmptySeq DEF FedLen, NewState
  <2>3. Need(r) \in Nat /\ PagesRequired(FedLen(r)) = 0
    BY <2>2, PagesType, Constants DEF Need, PagesRequired
  <2>4. Within(r)
    BY <2>2, <2>3 DEF Within
  <2>5. Room(r) /\ TxnCovers(r)
    BY <2>1 DEF Room, TxnCovers, Reserved, InStep, NoTurn
  <2> QED
    BY <2>4, <2>5 DEF TableOK
<1> QED
  BY <1>1, <1>2 DEF TablesOK

\* A step that leaves the executor and the tables alone.
LEMMA SameTables ==
  ASSUME TablesOK, UNCHANGED <<block_table, txn, execVars>>
  PROVE  \A q \in Owner : TableOK(q)'
BY DEF TablesOK, TableOK, Within, Room, TxnCovers, FedLen, TokenCount, Reserved, InStep, Need, execVars

LEMMA StepTables == TablesOK /\ [Next]_vars => TablesOK'
<1> SUFFICES ASSUME TablesOK, [Next]_vars PROVE TablesOK'
  OBVIOUS
<1>1. CountsOK' /\ KVInv'
  <2>1. CountsOK' /\ [KVNext]_kvVars
    BY StepCounts DEF TablesOK
  <2> QED
    BY <2>1, StepInv, Constants DEF TablesOK
<1>2. ASSUME UNCHANGED vars \/ FreePage PROVE \A q \in Owner : TableOK(q)'
  BY <1>2, SameTables DEF vars, kvVars, FreePage, FreeStep
<1>3. ASSUME NEW r \in Owner,
             Prefill(r) \/ PrefillRaises(r) \/ Reserve(r) \/ EmitPending(r) \/ DecodeNext(r) \/ DecodeRaises(r)
      PROVE  \A q \in Owner : TableOK(q)'
  BY <1>1, <1>3, PrefillTables, ReserveTables, EmitTables, DecodeTables
<1>4. ASSUME NEW r \in Owner,
             DraftRaises(r) \/ RoundOverdraws(r) \/ Validate(r) \/ ValidateRaises(r)
      PROVE  \A q \in Owner : TableOK(q)'
  BY <1>4, DraftRaisesTables, ValidateTables, ValidateRaisesTables
<1>5. ASSUME NEW r \in Owner, AcceptAll(r) \/ Reject(r) \/ Replay(r) \/ ReplayRaises(r)
      PROVE  \A q \in Owner : TableOK(q)'
  BY <1>5, AcceptAllTables, RejectTables, ReplayTables
<1> QED
  BY <1>1, <1>2, <1>3, <1>4, <1>5 DEF Next, TablesOK

\* A block table covers the text, and never holds more pages than the prompt and
\* the budget can need: whatever the drafts, after rollbacks and broken-off rounds.
THEOREM TablesStayWithinNeed == Spec => []TablesWithinNeed
<1>1. TablesOK => TablesWithinNeed
  BY DEF TablesOK, TableOK, Within, Need, CountsOK, TablesWithinNeed
<1> QED
  BY <1>1, InitTables, StepTables, PTL DEF Spec

-----------------------------------------------------------------------------
(***************************************************************************)
(* What the steps do to the state of a request, field by field: the        *)
(* arguments about the reply, the caches and the slots start from here.    *)
(***************************************************************************)

\* The step is one of r, and leaves the other requests alone.
StepOf(r) == /\ \A q \in Owner \ {r} : state'[q] = state[q]
             /\ turn' = NoTurn \/ turn'.req = r

\* The reply of r, and what decides how it goes on, stay.
SameReply(r) ==
  /\ state'[r].prefilled = state[r].prefilled
  /\ state'[r].pending = state[r].pending
  /\ state'[r].generated = state[r].generated
  /\ state'[r].out = state[r].out
  /\ state'[r].finished = state[r].finished

SameDraft(r) ==
  /\ state'[r].draft_past = state[r].draft_past
  /\ state'[r].draft_cached = state[r].draft_cached

\* A burst of tokens is put out.
Burst(r, tokens) ==
  LET put == Put(r, state[r].generated, tokens)
      generated == state[r].generated \o put
  IN /\ state'[r].generated = generated
     /\ state'[r].finished = (Full(r, generated) \/ Ends(r, Last(put)))
     /\ state'[r].out = AppendTokens(r, state[r], tokens).out
     /\ state'[r].prefilled = state[r].prefilled
     /\ turn' = NoTurn

LEMMA OneState ==
  ASSUME CountsOK, NEW r \in Owner, NEW s, state' = [state EXCEPT ![r] = s]
  PROVE  state'[r] = s /\ \A q \in Owner \ {r} : state'[q] = state[q]
BY DEF CountsOK

LEMMA BurstDoes ==
  ASSUME CountsOK, NEW r \in Owner, NEW s, DOMAIN s = Fields,
         s.generated = state[r].generated, s.out = state[r].out,
         s.prefilled = state[r].prefilled, NEW tokens,
         state' = [state EXCEPT ![r] = AppendTokens(r, s, tokens)], turn' = NoTurn
  PROVE  /\ StepOf(r) /\ Burst(r, tokens)
         /\ state'[r].past = s.past /\ state'[r].pending = s.pending
         /\ state'[r].draft_past = s.draft_past /\ state'[r].draft_cached = s.draft_cached
<1> DEFINE u == AppendTokens(r, s, tokens)
           v == AppendTokens(r, state[r], tokens)
           put == Put(r, s.generated, tokens)
<1>1. /\ u.generated = s.generated \o put
      /\ u.finished = (Full(r, s.generated \o put) \/ Ends(r, Last(put)))
      /\ u.past = s.past /\ u.pending = s.pending /\ u.prefilled = s.prefilled
      /\ u.draft_past = s.draft_past /\ u.draft_cached = s.draft_cached
  BY DEF AppendTokens, Fields
<1>2. u.out = v.out
  <2>1. DOMAIN state[r] = Fields
    BY DEF CountsOK, StateOK
  <2> QED
    BY <2>1 DEF AppendTokens, Fields
<1> HIDE DEF u, v, put
<1>3. state'[r] = u /\ \A q \in Owner \ {r} : state'[q] = state[q]
  BY OneState DEF u
<1> QED
  BY <1>1, <1>2, <1>3 DEF StepOf, Burst, u, v, put

LEMMA PrefillDoes ==
  ASSUME CountsOK, NEW r \in Owner, Prefill(r)
  PROVE  /\ StepOf(r) /\ SameDraft(r) /\ turn = NoTurn /\ turn' = NoTurn
         /\ state'[r].generated = state[r].generated
         /\ state'[r].out = state[r].out /\ state'[r].finished = state[r].finished
         /\ state'[r].past = state[r].past \o ChunkOf(r)
         /\ state'[r].prefilled = state[r].prefilled + Chunk(r)
         /\ state[r].prefilled < PromptLen[r]
         /\ \E t \in Chosen(state[r].past, ChunkOf(r), Chunk(r), state[r].prefilled + Chunk(r)) :
              state'[r].pending = IF state[r].prefilled + Chunk(r) = PromptLen[r]
                                    THEN t ELSE state[r].pending
<1> DEFINE done == state[r].prefilled + Chunk(r)
<1>1. PICK t \in Chosen(state[r].past, ChunkOf(r), Chunk(r), done) :
        state' = [state EXCEPT ![r].past = @ \o ChunkOf(r),
                               ![r].prefilled = done,
                               ![r].pending = IF done = PromptLen[r] THEN t ELSE @]
  BY DEF Prefill
<1> DEFINE s == [state[r] EXCEPT !.past = @ \o ChunkOf(r), !.prefilled = done,
                                 !.pending = IF done = PromptLen[r] THEN t ELSE @]
<1>2. state' = [state EXCEPT ![r] = s]
  BY <1>1
<1>3. /\ s.past = state[r].past \o ChunkOf(r) /\ s.prefilled = done
      /\ s.pending = IF done = PromptLen[r] THEN t ELSE state[r].pending
      /\ s.generated = state[r].generated /\ s.out = state[r].out /\ s.finished = state[r].finished
      /\ s.draft_past = state[r].draft_past /\ s.draft_cached = state[r].draft_cached
  BY DEF CountsOK, StateOK, Fields
<1> HIDE DEF s
<1>4. state'[r] = s /\ \A q \in Owner \ {r} : state'[q] = state[q]
  BY <1>2, OneState
<1>5. turn = NoTurn /\ turn' = turn /\ state[r].prefilled < PromptLen[r]
  BY DEF Prefill, PrefillBatch
<1> QED
  BY <1>1, <1>3, <1>4, <1>5 DEF StepOf, SameDraft

\* A step of r that changes at most its cache of the target model.
LEMMA ExtendedDoes ==
  ASSUME CountsOK, NEW r \in Owner, NEW fed, turn' = NoTurn,
         state' = state \/ state' = [state EXCEPT ![r] = Extended(r, fed)]
  PROVE  /\ StepOf(r) /\ SameReply(r) /\ SameDraft(r) /\ turn' = NoTurn
         /\ \/ state'[r].past = state[r].past /\ state' = state
            \/ state'[r].past = state[r].past \o fed
<1>1. CASE state' = state
  BY <1>1 DEF StepOf, SameReply, SameDraft
<1>2. CASE state' = [state EXCEPT ![r] = Extended(r, fed)]
  <2>1. state'[r] = Extended(r, fed) /\ \A q \in Owner \ {r} : state'[q] = state[q]
    BY <1>2, OneState
  <2>2. DOMAIN state[r] = Fields
    BY DEF CountsOK, StateOK
  <2> QED
    BY <2>1, <2>2 DEF StepOf, SameReply, SameDraft, Extended, Fields
<1> QED
  BY <1>1, <1>2

\* Of a pass that raises nothing stays, or its rows, or its rows and the longer cache.
LEMMA PassRaisesDoes ==
  ASSUME CountsOK, NEW r \in Owner, NEW start, NEW fed, PassRaises(r, start, fed)
  PROVE  /\ StepOf(r) /\ SameReply(r) /\ SameDraft(r) /\ turn' = NoTurn
         /\ \/ state' = state /\ slots' = slots /\ exact' = exact /\ clean' = clean
            \/ /\ state' = state /\ exact' = exact /\ clean' = clean
               /\ Mirror(r, start, fed)
            \/ /\ state'[r].past = state[r].past \o fed
               /\ Mirror(r, start, fed)
               /\ Harm(r)
<1>1. /\ turn' = NoTurn
      /\ \/ state' = state /\ slots' = slots /\ exact' = exact /\ clean' = clean
         \/ state' = state /\ exact' = exact /\ clean' = clean /\ Mirror(r, start, fed)
         \/ state' = [state EXCEPT ![r] = Extended(r, fed)] /\ Mirror(r, start, fed) /\ Harm(r)
  BY DEF PassRaises
<1>2. CASE /\ state' = state /\ exact' = exact /\ clean' = clean
           /\ slots' = slots \/ Mirror(r, start, fed)
  BY <1>1, <1>2 DEF StepOf, SameReply, SameDraft
<1>3. CASE state' = [state EXCEPT ![r] = Extended(r, fed)] /\ Mirror(r, start, fed) /\ Harm(r)
  <2>1. /\ StepOf(r) /\ SameReply(r) /\ SameDraft(r)
    BY <1>1, <1>3, ExtendedDoes
  <2>2. state'[r] = Extended(r, fed) /\ DOMAIN state[r] = Fields
    BY <1>3, OneState DEF CountsOK, StateOK
  <2>3. state'[r].past = state[r].past \o fed
    BY <2>2 DEF Extended, Fields
  <2> QED
    BY <1>1, <1>3, <2>1, <2>3
<1> QED
  BY <1>1, <1>2, <1>3

LEMMA EmitDoes ==
  ASSUME CountsOK, NEW r \in Owner, EmitPending(r)
  PROVE  /\ StepOf(r) /\ Burst(r, <<state[r].pending>>) /\ SameDraft(r)
         /\ state'[r].past = state[r].past /\ state'[r].pending = NoToken
<1> DEFINE s == [state[r] EXCEPT !.pending = NoToken]
<1>1. /\ DOMAIN s = Fields /\ s.generated = state[r].generated /\ s.out = state[r].out
      /\ s.prefilled = state[r].prefilled /\ s.past = state[r].past /\ s.pending = NoToken
      /\ s.draft_past = state[r].draft_past /\ s.draft_cached = state[r].draft_cached
  BY DEF CountsOK, StateOK, Fields
<1>2. /\ state' = [state EXCEPT ![r] = AppendTokens(r, s, <<state[r].pending>>)]
      /\ turn' = NoTurn
  BY DEF EmitPending
<1> HIDE DEF s
<1> QED
  BY <1>1, <1>2, BurstDoes DEF SameDraft

\* A pass that feeds the cache and puts tokens out.
LEMMA PassDoes ==
  ASSUME CountsOK, NEW r \in Owner, NEW fed, NEW tokens, turn' = NoTurn,
         state' = [state EXCEPT ![r] = AppendTokens(r, Extended(r, fed), tokens)]
  PROVE  /\ StepOf(r) /\ Burst(r, tokens) /\ SameDraft(r)
         /\ state'[r].past = state[r].past \o fed /\ state'[r].pending = state[r].pending
<1> DEFINE s == Extended(r, fed)
<1>1. /\ DOMAIN s = Fields /\ s.generated = state[r].generated /\ s.out = state[r].out
      /\ s.prefilled = state[r].prefilled
      /\ s.past = state[r].past \o fed /\ s.pending = state[r].pending
      /\ s.draft_past = state[r].draft_past /\ s.draft_cached = state[r].draft_cached
  BY DEF CountsOK, StateOK, Fields, Extended
<1> HIDE DEF s
<1> QED
  BY <1>1, BurstDoes DEF SameDraft, s

LEMMA DecodeDoes ==
  ASSUME CountsOK, NEW r \in Owner, DecodeNext(r)
  PROVE  \E t \in Chosen(state[r].past, <<LastToken(r)>>, 1, TokenCount(r)) :
           /\ StepOf(r) /\ Burst(r, <<t>>) /\ SameDraft(r)
           /\ state'[r].past = state[r].past \o <<LastToken(r)>>
           /\ state'[r].pending = state[r].pending
<1>1. PICK t \in Chosen(state[r].past, <<LastToken(r)>>, 1, TokenCount(r)) :
        state' = [state EXCEPT ![r] = AppendTokens(r, Extended(r, <<LastToken(r)>>), <<t>>)]
  BY DEF DecodeNext
<1>2. turn' = NoTurn
  BY DEF DecodeNext
<1> QED
  BY <1>1, <1>2, PassDoes

LEMMA AcceptDoes ==
  ASSUME CountsOK, NEW r \in Owner, AcceptAll(r)
  PROVE  /\ StepOf(r) /\ Burst(r, Append(turn.drafts, Last(turn.targets))) /\ SameDraft(r)
         /\ state'[r].past = state[r].past /\ state'[r].pending = state[r].pending
<1>1. /\ state' = [state EXCEPT ![r] = AppendTokens(r, state[r], Append(turn.drafts, Last(turn.targets)))]
      /\ turn' = NoTurn
  BY DEF AcceptAll
<1>2. DOMAIN state[r] = Fields
  BY DEF CountsOK, StateOK
<1> QED
  BY <1>1, <1>2, BurstDoes DEF SameDraft

LEMMA ReplayDoes ==
  ASSUME CountsOK, NEW r \in Owner, Replay(r)
  PROVE  /\ StepOf(r) /\ Burst(r, Corrected(turn.drafts, turn.targets)) /\ SameDraft(r)
         /\ state'[r].past = state[r].past \o ReplayFed(r) /\ state'[r].pending = state[r].pending
<1>1. /\ state' = [state EXCEPT ![r] = AppendTokens(r, Extended(r, ReplayFed(r)),
                                                    Corrected(turn.drafts, turn.targets))]
      /\ turn' = NoTurn
  BY DEF Replay
<1> QED
  BY <1>1, PassDoes

LEMMA ReplayRaisesDoes ==
  ASSUME CountsOK, NEW r \in Owner, ReplayRaises(r)
  PROVE  /\ StepOf(r) /\ SameReply(r) /\ SameDraft(r) /\ turn' = NoTurn /\ Harm(r)
         /\ \/ state' = state /\ slots' = slots
            \/ Mirror(r, TokenCount(r) - 1, ReplayFed(r))
<1>1. /\ turn' = NoTurn /\ Harm(r)
      /\ \/ state' = state /\ slots' = slots
         \/ /\ state' = [state EXCEPT ![r] = Extended(r, ReplayFed(r))]
            /\ Mirror(r, TokenCount(r) - 1, ReplayFed(r))
  BY DEF ReplayRaises
<1> QED
  BY <1>1, ExtendedDoes

LEMMA DraftRaisesDoes ==
  ASSUME CountsOK, NEW r \in Owner, DraftRaises(r)
  PROVE  /\ StepOf(r) /\ SameReply(r) /\ turn' = NoTurn
         /\ state'[r].past = state[r].past
         /\ LeftBy(r, state'[r].draft_past, state'[r].draft_cached)
<1>1. PICK cache, n : LeftBy(r, cache, n) /\ state' = [state EXCEPT ![r] = WithDraft(r, cache, n)]
  BY DraftRaisesLeaves
<1>2. state'[r] = WithDraft(r, cache, n) /\ \A q \in Owner \ {r} : state'[q] = state[q]
  BY <1>1, OneState
<1>3. turn' = NoTurn
  BY DEF DraftRaises
<1> QED
  BY <1>1, <1>2, <1>3, WithDraftFacts DEF StepOf, SameReply

\* The draft model has proposed `drafts` and its cache was cropped again.
DraftedBy(r, drafts) ==
  /\ SameReply(r)
  /\ state'[r].draft_past = Cropped(Advanced(r) \o Front(drafts), TokenCount(r))
  /\ state'[r].draft_cached = TokenCount(r)

LEMMA DraftedDoes ==
  ASSUME CountsOK, NEW r \in Owner, NEW drafts, NEW fed,
         \/ state' = [state EXCEPT ![r] = Drafted(r, drafts)]
         \/ state' = [state EXCEPT ![r] = [Drafted(r, drafts) EXCEPT !.past = @ \o fed]]
  PROVE  /\ \A q \in Owner \ {r} : state'[q] = state[q]
         /\ DraftedBy(r, drafts)
         /\ state' = [state EXCEPT ![r] = Drafted(r, drafts)] => state'[r].past = state[r].past
         /\ state' = [state EXCEPT ![r] = [Drafted(r, drafts) EXCEPT !.past = @ \o fed]] =>
              state'[r].past = state[r].past \o fed
<1> DEFINE s == Drafted(r, drafts)
           u == [s EXCEPT !.past = @ \o fed]
<1>1. /\ DOMAIN s = Fields
      /\ s.prefilled = state[r].prefilled /\ s.pending = state[r].pending
      /\ s.generated = state[r].generated /\ s.finished = state[r].finished
      /\ s.out = state[r].out /\ s.past = state[r].past
      /\ s.draft_past = Cropped(Advanced(r) \o Front(drafts), TokenCount(r))
      /\ s.draft_cached = TokenCount(r)
  BY DEF CountsOK, StateOK, Fields, Drafted
<1> HIDE DEF s
<1>2. /\ u.prefilled = s.prefilled /\ u.pending = s.pending
      /\ u.generated = s.generated /\ u.finished = s.finished
      /\ u.out = s.out /\ u.past = s.past \o fed
      /\ u.draft_past = s.draft_past /\ u.draft_cached = s.draft_cached
  BY <1>1 DEF Fields
<1> HIDE DEF u
<1>3. /\ state' = [state EXCEPT ![r] = s] => state'[r] = s
      /\ state' = [state EXCEPT ![r] = u] => state'[r] = u
  BY OneState
<1>4. state'[r] = s \/ state'[r] = u
  BY <1>3 DEF s, u
<1>5. \A q \in Owner \ {r} : state'[q] = state[q]
  BY OneState
<1> QED
  BY <1>1, <1>2, <1>3, <1>4, <1>5 DEF DraftedBy, SameReply, s, u

\* A round comes at least as far as the drafts.
LEMMA RoundDoes ==
  ASSUME CountsOK, NEW r \in Owner, Validate(r) \/ ValidateRaises(r) \/ RoundOverdraws(r)
  PROVE  /\ StepOf(r) /\ SpecBatch(r)
         /\ \E drafts \in Drafts(r) : DraftedBy(r, drafts)
<1>1. PICK drafts \in Drafts(r) :
        \/ state' = [state EXCEPT ![r] = Drafted(r, drafts)]
        \/ state' = [state EXCEPT ![r] = [Drafted(r, drafts) EXCEPT
                                            !.past = @ \o (<<LastToken(r)>> \o drafts)]]
  BY DEF Validate, ValidateRaises, RoundOverdraws
<1> DEFINE fed == <<LastToken(r)>> \o drafts
<1>2. \/ state' = [state EXCEPT ![r] = Drafted(r, drafts)]
      \/ state' = [state EXCEPT ![r] = [Drafted(r, drafts) EXCEPT !.past = @ \o fed]]
  BY <1>1
<1> HIDE DEF fed
<1>3. DraftedBy(r, drafts) /\ \A q \in Owner \ {r} : state'[q] = state[q]
  BY <1>2, DraftedDoes
<1>4. SpecBatch(r) /\ (turn' = NoTurn \/ turn'.req = r)
  <2>1. ASSUME Validate(r) PROVE SpecBatch(r) /\ turn'.req = r
    <3>1. \E targets : \E d : turn' = Judged("validated", r, d, targets)
      BY <2>1 DEF Validate, Judged
    <3> QED
      BY <2>1, <3>1 DEF Validate, Judged
  <2>2. ASSUME ValidateRaises(r) \/ RoundOverdraws(r) PROVE SpecBatch(r) /\ turn' = NoTurn
    BY <2>2 DEF ValidateRaises, RoundOverdraws
  <2> QED
    BY <2>1, <2>2
<1> QED
  BY <1>3, <1>4 DEF StepOf

-----------------------------------------------------------------------------
(* Bursts *)

\* A set of numbers that has all smaller ones is 1 .. k.
LEMMA InitialSegment ==
  ASSUME NEW m \in Nat, NEW S, S \subseteq 1 .. m, \A i \in S : 1 .. i \subseteq S
  PROVE  /\ Cardinality(S) \in Nat /\ Cardinality(S) <= m
         /\ S = 1 .. Cardinality(S)
<1> DEFINE k == Cardinality(S)
<1>1. IsFiniteSet(S) /\ k \in Nat /\ k <= m
  <2>1. IsFiniteSet(1 .. m) /\ Cardinality(1 .. m) = m
    BY UpTo
  <2>2. IsFiniteSet(S) /\ k <= Cardinality(1 .. m)
    BY <2>1, FS_Subset
  <2> QED
    BY <2>1, <2>2, FS_CardinalityType
<1> HIDE DEF k
<1>2. S = 1 .. k
  <2>1. IsFiniteSet(1 .. k) /\ Cardinality(1 .. k) = k
    BY <1>1, UpTo
  <2>2. \A i \in S : i <= k
    <3> SUFFICES ASSUME NEW i \in S PROVE i <= k
      OBVIOUS
    <3>1. i \in Nat
      OBVIOUS
    <3>2. IsFiniteSet(1 .. i) /\ Cardinality(1 .. i) = i
      BY <3>1, UpTo
    <3>3. Cardinality(1 .. i) <= Cardinality(S)
      BY <1>1, FS_Subset
    <3> QED
      BY <3>2, <3>3 DEF k
  <2>3. S \subseteq 1 .. k
    BY <1>1, <2>2
  <2> QED
    BY <1>1, <2>1, <2>3, FS_Subset DEF k
<1> QED
  BY <1>1, <1>2 DEF k

\* Put cuts a burst after the first token that ends the reply, and nowhere else.
LEMMA PutEnds ==
  ASSUME NEW r \in Owner, NEW generated \in Seq(Token), Len(generated) < MaxNewTokens[r],
         NEW tokens \in Seq(Token), Len(tokens) >= 1
  PROVE  \E k \in 1 .. Len(tokens) :
           /\ Put(r, generated, tokens) = SubSeq(tokens, 1, k)
           /\ \A j \in 1 .. k - 1 : /\ Len(generated) + j < MaxNewTokens[r]
                                    /\ ~ Ends(r, tokens[j])
           /\ k < Len(tokens) => \/ Len(generated) + k >= MaxNewTokens[r]
                                 \/ Ends(r, tokens[k])
<1> DEFINE ends(i) == Len(generated) + i >= MaxNewTokens[r] \/ Ends(r, tokens[i])
           S == {i \in 1 .. Len(tokens) : \A j \in 1 .. i - 1 : ~ ends(j)}
           k == Cardinality(S)
<1>1. Len(generated) \in Nat /\ Len(tokens) \in Nat /\ MaxNewTokens[r] \in Nat
  BY LenProperties, Constants
<1>2. Put(r, generated, tokens) = SubSeq(tokens, 1, k)
  BY DEF Put
<1>3. \A j \in Nat : ~ ends(j) => Len(generated) + j < MaxNewTokens[r] /\ ~ Ends(r, tokens[j])
  BY <1>1
<1>4. \A j \in Nat : ends(j) => Len(generated) + j >= MaxNewTokens[r] \/ Ends(r, tokens[j])
  OBVIOUS
<1> HIDE DEF ends
<1>5. S \subseteq 1 .. Len(tokens) /\ 1 \in S
  BY <1>1
<1>6. \A i \in S : 1 .. i \subseteq S
  <2> SUFFICES ASSUME NEW i \in S, NEW j \in 1 .. i PROVE j \in S
    BY Zenon
  <2>1. i \in 1 .. Len(tokens) /\ \A h \in 1 .. i - 1 : ~ ends(h)
    OBVIOUS
  <2>2. j \in 1 .. Len(tokens) /\ \A h \in 1 .. j - 1 : h \in 1 .. i - 1
    BY <1>1, <2>1
  <2> QED
    BY <2>1, <2>2
<1>7. \A j \in 1 .. Len(tokens) : j \in S <=> \A h \in 1 .. j - 1 : ~ ends(h)
  OBVIOUS
<1> HIDE DEF S
<1>8. k \in Nat /\ k <= Len(tokens) /\ S = 1 .. k
  BY <1>1, <1>5, <1>6, InitialSegment
<1> HIDE DEF k
<1>9. k \in Nat \ {0}
  BY <1>5, <1>8
<1>10. k \in 1 .. Len(tokens)
  BY <1>8, <1>9
<1>11. \A j \in 1 .. k - 1 : j \in Nat /\ ~ ends(j)
  BY <1>7, <1>8, <1>10
<1>12. k < Len(tokens) => ends(k)
  <2> SUFFICES ASSUME k < Len(tokens) PROVE ends(k)
    OBVIOUS
  <2>1. k + 1 \in 1 .. Len(tokens) /\ k + 1 \notin S /\ (k + 1) - 1 = k
    BY <1>1, <1>8
  <2>2. PICK h \in 1 .. (k + 1) - 1 : ends(h)
    BY <1>7, <2>1
  <2>3. h \in 1 .. k /\ (h = k \/ h \in 1 .. k - 1)
    BY <1>8, <2>1, <2>2
  <2> QED
    BY <1>11, <2>2, <2>3
<1>13. \A j \in 1 .. k - 1 : Len(generated) + j < MaxNewTokens[r] /\ ~ Ends(r, tokens[j])
  BY <1>3, <1>11
<1>14. k < Len(tokens) => Len(generated) + k >= MaxNewTokens[r] \/ Ends(r, tokens[k])
  BY <1>4, <1>8, <1>12
<1> QED
  BY <1>2, <1>10, <1>13, <1>14

\* After a burst: k of its tokens follow the reply so far, no one of them but the
\* last ends it, and the rest of the burst is dropped only when the reply has ended.
BurstOf(r, tokens, k) ==
  LET old == Len(state[r].generated)
  IN /\ state'[r].generated \in Seq(Token)
     /\ Len(state'[r].generated) = old + k
     /\ \A i \in 1 .. old : state'[r].generated[i] = state[r].generated[i]
     /\ \A j \in 1 .. k : state'[r].generated[old + j] = tokens[j]
     /\ \A j \in 1 .. k - 1 : old + j < MaxNewTokens[r] /\ ~ Ends(r, tokens[j])
     /\ state'[r].finished = (old + k >= MaxNewTokens[r] \/ Ends(r, tokens[k]))
     /\ k < Len(tokens) => state'[r].finished

LEMMA BurstFacts ==
  ASSUME CountsOK, NEW r \in Owner, InDecode(r), NEW tokens \in Seq(Token), Len(tokens) >= 1,
         Burst(r, tokens)
  PROVE  \E k \in 1 .. Len(tokens) : BurstOf(r, tokens, k)
<1> DEFINE generated == state[r].generated
           old == Len(generated)
           put == Put(r, generated, tokens)
<1>1. /\ generated \in Seq(Token) /\ old \in Nat /\ old < MaxNewTokens[r]
      /\ Len(tokens) \in Nat
  BY LenProperties DEF CountsOK, StateOK, InDecode
<1>2. PICK k \in 1 .. Len(tokens) :
        /\ put = SubSeq(tokens, 1, k)
        /\ \A j \in 1 .. k - 1 : old + j < MaxNewTokens[r] /\ ~ Ends(r, tokens[j])
        /\ k < Len(tokens) => old + k >= MaxNewTokens[r] \/ Ends(r, tokens[k])
  BY <1>1, PutEnds
<1>3. k \in Nat /\ k \in 0 .. Len(tokens)
  BY <1>1
<1>4. put \in Seq(Token) /\ Len(put) = k /\ \A j \in 1 .. k : put[j] = tokens[j]
  <2>1. put \in Seq(Token) /\ Len(put) = k
    BY <1>2, <1>3, PrefixFacts
  <2>2. \A j \in 1 .. k : tokens[j] \in Token
    BY <1>1, <1>3, ElementOfSeq
  <2> QED
    BY <1>1, <1>2, <1>3, <2>1, <2>2, SubSeqProperties
<1>5. /\ state'[r].generated = generated \o put
      /\ state'[r].finished = (Full(r, generated \o put) \/ Ends(r, Last(put)))
  BY DEF Burst
<1>6. /\ generated \o put \in Seq(Token)
      /\ Len(generated \o put) = old + k
      /\ \A i \in 1 .. old + k :
           (generated \o put)[i] = IF i <= old THEN generated[i] ELSE put[i - old]
  BY <1>1, <1>4, ConcatElements
<1>7. Last(put) = tokens[k]
  BY <1>3, <1>4 DEF Last
<1> HIDE DEF put
<1>8. \A i \in 1 .. old : (generated \o put)[i] = generated[i]
  BY <1>1, <1>3, <1>6
<1>9. \A j \in 1 .. k : (generated \o put)[old + j] = tokens[j]
  <2> SUFFICES ASSUME NEW j \in 1 .. k PROVE (generated \o put)[old + j] = tokens[j]
    OBVIOUS
  <2>1. old + j \in 1 .. old + k /\ ~ (old + j <= old) /\ (old + j) - old = j
    BY <1>1, <1>3
  <2> QED
    BY <1>4, <1>6, <2>1
<1>10. Full(r, generated \o put) = (old + k >= MaxNewTokens[r])
  BY <1>6 DEF Full
<1>11. /\ state'[r].finished = (old + k >= MaxNewTokens[r] \/ Ends(r, tokens[k]))
       /\ k < Len(tokens) => state'[r].finished
  BY <1>2, <1>5, <1>7, <1>10, Zenon
<1>12. /\ state'[r].generated \in Seq(Token)
       /\ Len(state'[r].generated) = old + k
       /\ \A i \in 1 .. old : state'[r].generated[i] = generated[i]
       /\ \A j \in 1 .. k : state'[r].generated[old + j] = tokens[j]
  BY <1>5, <1>6, <1>8, <1>9, Zenon
<1>13. BurstOf(r, tokens, k)
  BY <1>2, <1>11, <1>12, Zenon DEF BurstOf
<1> QED
  BY <1>13

\* What each step that puts tokens out puts out.
LEMMA EmitTokens ==
  ASSUME CountsOK, NEW r \in Owner, EmitPending(r)
  PROVE  /\ InDecode(r) /\ state[r].pending \in Token
         /\ <<state[r].pending>> \in Seq(Token) /\ Len(<<state[r].pending>>) = 1
<1>1. StateOK(r) /\ InDecode(r) /\ HasPending(r)
  BY ReservedFacts DEF EmitPending
<1>2. state[r].pending \in Token
  BY <1>1 DEF StateOK, HasPending
<1> QED
  BY <1>1, <1>2, OneToken

LEMMA DecodeTokens ==
  ASSUME CountsOK, NEW r \in Owner, DecodeNext(r),
         NEW t \in Chosen(state[r].past, <<LastToken(r)>>, 1, TokenCount(r))
  PROVE  InDecode(r) /\ t \in Token /\ <<t>> \in Seq(Token) /\ Len(<<t>>) = 1
<1>1. StateOK(r) /\ InDecode(r)
  BY ReservedFacts DEF DecodeNext, DecodeBatch
<1>2. TokenCount(r) \in Nat
  BY <1>1, CountFacts
<1>3. t \in Token
  BY <1>2 DEF Chosen, Wrong, Token
<1> QED
  BY <1>1, <1>3, OneToken

LEMMA AcceptTokens ==
  ASSUME CountsOK, NEW r \in Owner, InStep(r, "validated")
  PROVE  LET tokens == Append(turn.drafts, Last(turn.targets))
         IN /\ InDecode(r)
            /\ Len(turn.drafts) \in Nat
            /\ tokens \in Seq(Token) /\ Len(tokens) = Len(turn.drafts) + 1
            /\ \A i \in 1 .. Len(turn.drafts) : tokens[i] = turn.drafts[i]
            /\ tokens[Len(turn.drafts) + 1] = turn.targets[Len(turn.drafts) + 1]
<1>1. /\ InDecode(r)
      /\ turn.drafts \in Seq(Token) /\ turn.targets \in Seq(Token)
      /\ Len(turn.targets) = Len(turn.drafts) + 1
  BY JudgedFacts
<1>2. Len(turn.targets) \in Nat /\ Len(turn.drafts) \in Nat
  BY <1>1, LenProperties
<1>3. Len(turn.targets) \in 1 .. Len(turn.targets)
  BY <1>1, <1>2
<1>4. Last(turn.targets) \in Token /\ Last(turn.targets) = turn.targets[Len(turn.drafts) + 1]
  BY <1>1, <1>3, ElementOfSeq DEF Last
<1> QED
  BY <1>1, <1>2, <1>4, AppendProperties

LEMMA ReplayTokens ==
  ASSUME CountsOK, NEW r \in Owner, InStep(r, "rejected")
  PROVE  LET tokens == Corrected(turn.drafts, turn.targets)
             n == Accepted(turn.drafts, turn.targets)
         IN /\ InDecode(r) /\ n \in Nat /\ n <= Len(turn.drafts)
            /\ tokens \in Seq(Token) /\ Len(tokens) = n + 1
            /\ \A i \in 1 .. n : tokens[i] = turn.drafts[i]
            /\ tokens[n + 1] = turn.targets[n + 1]
<1> DEFINE n == Accepted(turn.drafts, turn.targets)
           kept == SubSeq(turn.drafts, 1, n)
<1>1. /\ InDecode(r)
      /\ turn.drafts \in Seq(Token) /\ turn.targets \in Seq(Token)
      /\ Len(turn.targets) = Len(turn.drafts) + 1
  BY JudgedFacts
<1>2. n \in 0 .. Len(turn.drafts) /\ Len(turn.drafts) \in Nat /\ n \in Nat /\ n <= Len(turn.drafts)
  <2>1. n \in 0 .. Len(turn.drafts) /\ Len(turn.drafts) \in Nat
    BY <1>1, AcceptedFacts, LenProperties
  <2> HIDE DEF n
  <2> QED
    BY <2>1
<1> HIDE DEF n
<1>3. kept \in Seq(Token) /\ Len(kept) = n /\ \A i \in 1 .. n : kept[i] = turn.drafts[i]
  <2>1. kept \in Seq(Token) /\ Len(kept) = n
    BY <1>1, <1>2, PrefixFacts
  <2>2. \A i \in 1 .. n : turn.drafts[i] \in Token
    BY <1>1, <1>2, ElementOfSeq
  <2> QED
    BY <1>1, <1>2, <2>1, <2>2, SubSeqProperties
<1> HIDE DEF kept
<1>4. turn.targets[n + 1] \in Token
  <2>1. n + 1 \in 1 .. Len(turn.targets)
    BY <1>1, <1>2
  <2> QED
    BY <1>1, <2>1, ElementOfSeq
<1>5. Corrected(turn.drafts, turn.targets) = Append(kept, turn.targets[n + 1])
  BY DEF Corrected, n, kept
<1>6. /\ Append(kept, turn.targets[n + 1]) \in Seq(Token)
      /\ Len(Append(kept, turn.targets[n + 1])) = n + 1
      /\ \A i \in 1 .. n : Append(kept, turn.targets[n + 1])[i] = turn.drafts[i]
      /\ Append(kept, turn.targets[n + 1])[n + 1] = turn.targets[n + 1]
  BY <1>2, <1>3, <1>4, AppendProperties
<1> QED
  BY <1>1, <1>2, <1>5, <1>6 DEF n

-----------------------------------------------------------------------------
(* The end of a reply *)

ReplyStays(r) == /\ state'[r].generated = state[r].generated
                 /\ state'[r].finished = state[r].finished
                 /\ state'[r].out = state[r].out

\* A step leaves the reply of r as it is, or puts a burst out.
ReplyGrows(r) == \E tokens \in Seq(Token) : /\ Len(tokens) >= 1
                                            /\ InDecode(r) /\ Burst(r, tokens)

LEMMA ReplySteps ==
  ASSUME CountsOK, [Next]_vars
  PROVE  \A q \in Owner : ReplyStays(q) \/ ReplyGrows(q)
<1>1. ASSUME state' = state PROVE \A q \in Owner : ReplyStays(q)
  BY <1>1 DEF ReplyStays
<1>2. ASSUME NEW r \in Owner, StepOf(r), ReplyStays(r) \/ ReplyGrows(r)
      PROVE  \A q \in Owner : ReplyStays(q) \/ ReplyGrows(q)
  BY <1>2 DEF StepOf, ReplyStays
<1>3. ASSUME NEW r \in Owner, StepOf(r), SameReply(r)
      PROVE  \A q \in Owner : ReplyStays(q) \/ ReplyGrows(q)
  BY <1>2, <1>3 DEF SameReply, ReplyStays
<1>4. ASSUME UNCHANGED vars \/ FreePage PROVE \A q \in Owner : ReplyStays(q)
  BY <1>1, <1>4 DEF vars, execVars, FreePage
<1>5. ASSUME NEW r \in Owner, Prefill(r) PROVE \A q \in Owner : ReplyStays(q) \/ ReplyGrows(q)
  BY <1>2, <1>5, PrefillDoes DEF ReplyStays
<1>6. ASSUME NEW r \in Owner, PrefillRaises(r) \/ DecodeRaises(r)
      PROVE  \A q \in Owner : ReplyStays(q) \/ ReplyGrows(q)
  BY <1>3, <1>6, PassRaisesDoes DEF PrefillRaises, DecodeRaises
<1>7. ASSUME NEW r \in Owner, Reserve(r) \/ Reject(r) PROVE \A q \in Owner : ReplyStays(q)
  BY <1>1, <1>7 DEF Reserve, Reject
<1>8. ASSUME NEW r \in Owner, EmitPending(r) PROVE \A q \in Owner : ReplyStays(q) \/ ReplyGrows(q)
  <2>1. StepOf(r) /\ Burst(r, <<state[r].pending>>) /\ InDecode(r)
        /\ <<state[r].pending>> \in Seq(Token) /\ Len(<<state[r].pending>>) >= 1
    BY <1>8, EmitDoes, EmitTokens
  <2> QED
    BY <1>2, <2>1, Zenon DEF ReplyGrows
<1>9. ASSUME NEW r \in Owner, DecodeNext(r) PROVE \A q \in Owner : ReplyStays(q) \/ ReplyGrows(q)
  <2>1. PICK t \in Chosen(state[r].past, <<LastToken(r)>>, 1, TokenCount(r)) :
          StepOf(r) /\ Burst(r, <<t>>)
    BY <1>9, DecodeDoes
  <2>2. InDecode(r) /\ <<t>> \in Seq(Token) /\ Len(<<t>>) >= 1
    BY <1>9, DecodeTokens
  <2> QED
    BY <1>2, <2>1, <2>2, Zenon DEF ReplyGrows
<1>10. ASSUME NEW r \in Owner, DraftRaises(r) PROVE \A q \in Owner : ReplyStays(q) \/ ReplyGrows(q)
  BY <1>3, <1>10, DraftRaisesDoes
<1>11. ASSUME NEW r \in Owner, Validate(r) \/ ValidateRaises(r) \/ RoundOverdraws(r)
       PROVE  \A q \in Owner : ReplyStays(q) \/ ReplyGrows(q)
  BY <1>3, <1>11, RoundDoes DEF DraftedBy
<1>12. ASSUME NEW r \in Owner, AcceptAll(r) PROVE \A q \in Owner : ReplyStays(q) \/ ReplyGrows(q)
  <2> DEFINE tokens == Append(turn.drafts, Last(turn.targets))
  <2>1. StepOf(r) /\ Burst(r, tokens)
    BY <1>12, AcceptDoes
  <2>2. InDecode(r) /\ tokens \in Seq(Token) /\ Len(tokens) >= 1
    BY <1>12, AcceptTokens DEF AcceptAll
  <2> QED
    BY <1>2, <2>1, <2>2, Zenon DEF ReplyGrows
<1>13. ASSUME NEW r \in Owner, Replay(r) PROVE \A q \in Owner : ReplyStays(q) \/ ReplyGrows(q)
  <2> DEFINE tokens == Corrected(turn.drafts, turn.targets)
  <2>1. StepOf(r) /\ Burst(r, tokens)
    BY <1>13, ReplayDoes
  <2>2. InDecode(r) /\ tokens \in Seq(Token) /\ Len(tokens) >= 1
    BY <1>13, ReplayTokens DEF Replay, ReplayBatch
  <2> QED
    BY <1>2, <2>1, <2>2, Zenon DEF ReplyGrows
<1>14. ASSUME NEW r \in Owner, ReplayRaises(r) PROVE \A q \in Owner : ReplyStays(q) \/ ReplyGrows(q)
  BY <1>3, <1>14, ReplayRaisesDoes
<1> QED
  BY <1>4, <1>5, <1>6, <1>7, <1>8, <1>9, <1>10, <1>11, <1>12, <1>13, <1>14 DEF Next

\* EndsOnce, for one request.
EndOK(r) ==
  LET generated == state[r].generated
  IN /\ \A i \in 1 .. Len(generated) - 1 : ~ Ends(r, generated[i])
     /\ state[r].finished <=> generated # <<>> /\ (Full(r, generated) \/ Ends(r, Last(generated)))

LEMMA GrowthEnds ==
  ASSUME CountsOK, NEW r \in Owner, EndOK(r), ReplyGrows(r)
  PROVE  EndOK(r)'
<1> DEFINE old == Len(state[r].generated)
           new == state'[r].generated
<1>1. InDecode(r) /\ state[r].generated \in Seq(Token) /\ old \in Nat
  BY LenProperties DEF ReplyGrows, CountsOK, StateOK
<1>2. PICK tokens \in Seq(Token) : Len(tokens) >= 1 /\ Burst(r, tokens)
  BY DEF ReplyGrows
<1>3. PICK k \in 1 .. Len(tokens) : BurstOf(r, tokens, k)
  BY <1>1, <1>2, BurstFacts
<1>4. k \in Nat \ {0}
  BY <1>2, LenProperties
<1>5. /\ new \in Seq(Token) /\ Len(new) = old + k
      /\ \A i \in 1 .. old : new[i] = state[r].generated[i]
      /\ \A j \in 1 .. k : new[old + j] = tokens[j]
      /\ \A j \in 1 .. k - 1 : ~ Ends(r, tokens[j])
      /\ state'[r].finished = (old + k >= MaxNewTokens[r] \/ Ends(r, tokens[k]))
  BY <1>3 DEF BurstOf
<1>6. \A i \in 1 .. old : ~ Ends(r, state[r].generated[i])
  <2>1. ~ state[r].finished
    BY <1>1 DEF InDecode
  <2>2. state[r].generated = <<>> \/ ~ Ends(r, Last(state[r].generated))
    BY <2>1 DEF EndOK
  <2>3. CASE old = 0
    BY <2>3
  <2>4. CASE old > 0
    <3>1. Last(state[r].generated) = state[r].generated[old] /\ state[r].generated # <<>>
      BY <1>1, <2>4, EmptySeq DEF Last
    <3>2. \A i \in 1 .. old - 1 : ~ Ends(r, state[r].generated[i])
      BY DEF EndOK
    <3>3. \A i \in 1 .. old : i \in 1 .. old - 1 \/ i = old
      BY <1>1
    <3> QED
      BY <2>2, <3>1, <3>2, <3>3, Zenon
  <2> QED
    BY <1>1, <2>3, <2>4
<1> HIDE DEF old, new
<1>7. \A i \in 1 .. Len(new) - 1 : ~ Ends(r, new[i])
  <2> SUFFICES ASSUME NEW i \in 1 .. Len(new) - 1 PROVE ~ Ends(r, new[i])
    OBVIOUS
  <2>1. i \in 1 .. old + k - 1
    <3>1. Len(new) = old + k /\ old \in Nat /\ k \in Nat
      BY <1>1, <1>4, <1>5 DEF old
    <3> QED
      BY <3>1
  <2>2. CASE i \in 1 .. old
    BY <1>5, <1>6, <2>2
  <2>3. CASE i \notin 1 .. old
    <3>1. i - old \in 1 .. k - 1 /\ i - old \in 1 .. k /\ old + (i - old) = i
      BY <1>1, <1>4, <2>1, <2>3 DEF old
    <3> QED
      BY <1>5, <3>1
  <2> QED
    BY <2>2, <2>3
<1>8. new # <<>> /\ Last(new) = tokens[k] /\ Full(r, new) = (old + k >= MaxNewTokens[r])
  <2>1. old \in Nat /\ k \in 1 .. k
    BY <1>1, <1>4 DEF old
  <2>2. Len(new) # 0
    BY <1>4, <1>5, <2>1
  <2> QED
    BY <1>5, <2>1, <2>2, EmptySeq DEF Last, Full
<1>9. state'[r].finished <=> new # <<>> /\ (Full(r, new) \/ Ends(r, Last(new)))
  BY <1>5, <1>8, Zenon
<1> QED
  BY <1>7, <1>9 DEF EndOK, new

\* A reply ends with its first stop token, its first run of repeated tokens or its
\* budget, and finished says so: whatever is in a burst, and for any budget.
THEOREM RepliesEndOnce == Spec => []EndsOnce
<1> DEFINE Inv == CountsOK /\ \A r \in Owner : EndOK(r)
<1>1. Init => Inv
  <2> SUFFICES ASSUME Init PROVE Inv
    OBVIOUS
  <2>1. CountsOK
    BY InitCounts
  <2>2. ASSUME NEW r \in Owner PROVE EndOK(r)
    <3>1. state[r].generated = <<>> /\ state[r].finished = FALSE
      BY DEF Init, NewState
    <3>2. Len(<<>>) - 1 = -1
      BY EmptySeq
    <3> QED
      BY <3>1, <3>2 DEF EndOK
  <2> QED
    BY <2>1, <2>2
<1>2. Inv /\ [Next]_vars => Inv'
  <2> SUFFICES ASSUME Inv, [Next]_vars PROVE Inv'
    OBVIOUS
  <2>1. CountsOK'
    BY StepCounts
  <2>2. ASSUME NEW r \in Owner PROVE EndOK(r)'
    <3>1. CASE ReplyStays(r)
      BY <3>1 DEF ReplyStays, EndOK
    <3>2. CASE ReplyGrows(r)
      BY <3>2, GrowthEnds
    <3> QED
      BY <3>1, <3>2, ReplySteps
  <2> QED
    BY <2>1, <2>2
<1>3. Inv => EndsOnce
  BY DEF EndOK, EndsOnce
<1> QED
  BY <1>1, <1>2, <1>3, PTL DEF Spec

-----------------------------------------------------------------------------
(***************************************************************************)
(* The draft model's cache (DraftCacheIsPrefix).  The property is not      *)
(* inductive: when a round breaks off, the cache may be ahead of the text, *)
(* and a token that is put out next could disagree with it; or it may be   *)
(* longer than draft_cached_len says.  So the invariant says that the next *)
(* step of such a request is another round, which crops the cache first.   *)
(***************************************************************************)
Ahead(r) == \/ Len(state[r].draft_past) > TokenCount(r)
            \/ state[r].draft_cached # Len(state[r].draft_past)

RoundIsNext(r) == /\ state[r].prefilled = PromptLen[r] /\ ~ HasPending(r) /\ Speculates(r)
                  /\ ~ InStep(r, "validated") /\ ~ InStep(r, "rejected")

DraftOK(r) ==
  /\ state[r].draft_past \in Seq(Token)
  /\ state[r].draft_cached \in Nat /\ state[r].draft_cached <= Len(state[r].draft_past)
  /\ state[r].draft_cached < Len(state[r].draft_past) => Len(state[r].draft_past) >= TokenCount(r)
  /\ \A i \in 1 .. Smaller(Len(state[r].draft_past), TokenCount(r)) :
       state[r].draft_past[i] = Committed(r)[i]
  /\ Ahead(r) => RoundIsNext(r)

\* A text: the prompt, then what was generated.
LEMMA TextFacts ==
  ASSUME NEW r \in Owner, NEW g \in Seq(Token)
  PROVE  /\ PromptLen[r] \in Nat /\ Len(g) \in Nat
         /\ Prompt(r) \in Seq(Token) /\ Len(Prompt(r)) = PromptLen[r]
         /\ Prompt(r) \o g \in Seq(Token)
         /\ Len(Prompt(r) \o g) = PromptLen[r] + Len(g)
         /\ \A i \in 1 .. PromptLen[r] : (Prompt(r) \o g)[i] = i - 1
         /\ \A i \in 1 .. Len(g) : (Prompt(r) \o g)[PromptLen[r] + i] = g[i]
<1>1. PromptLen[r] \in Nat /\ Len(g) \in Nat
  BY Constants, LenProperties
<1>2. Prompt(r) \in Seq(Token) /\ Len(Prompt(r)) = PromptLen[r]
  <2>1. Prompt(r) \in [1 .. PromptLen[r] -> Token]
    BY <1>1 DEF Prompt, Token
  <2> QED
    BY <1>1, <2>1, SeqDef, LenProperties
<1>3. \A i \in 1 .. PromptLen[r] : Prompt(r)[i] = i - 1
  BY DEF Prompt
<1>4. /\ Prompt(r) \o g \in Seq(Token)
      /\ Len(Prompt(r) \o g) = PromptLen[r] + Len(g)
      /\ \A i \in 1 .. PromptLen[r] + Len(g) :
           (Prompt(r) \o g)[i] = IF i <= PromptLen[r] THEN Prompt(r)[i] ELSE g[i - PromptLen[r]]
  <2> DEFINE p == Prompt(r)
  <2> HIDE DEF p
  <2>1. /\ p \o g \in Seq(Token)
        /\ Len(p \o g) = Len(p) + Len(g)
        /\ \A i \in 1 .. Len(p) + Len(g) : (p \o g)[i] = IF i <= Len(p) THEN p[i] ELSE g[i - Len(p)]
    BY <1>2, ConcatElements DEF p
  <2>2. Len(p) = PromptLen[r]
    BY <1>2 DEF p
  <2> QED
    BY <2>1, <2>2, Zenon DEF p
<1>5. \A i \in 1 .. PromptLen[r] : (Prompt(r) \o g)[i] = i - 1
  BY <1>1, <1>3, <1>4
<1>6. \A i \in 1 .. Len(g) : (Prompt(r) \o g)[PromptLen[r] + i] = g[i]
  <2> SUFFICES ASSUME NEW i \in 1 .. Len(g) PROVE (Prompt(r) \o g)[PromptLen[r] + i] = g[i]
    OBVIOUS
  <2>1. /\ PromptLen[r] + i \in 1 .. PromptLen[r] + Len(g)
        /\ ~ (PromptLen[r] + i <= PromptLen[r]) /\ (PromptLen[r] + i) - PromptLen[r] = i
    BY <1>1
  <2> QED
    BY <1>4, <2>1
<1> QED
  BY <1>1, <1>2, <1>4, <1>5, <1>6

\* A text that grows keeps what it had.
LEMMA TextGrows ==
  ASSUME NEW r \in Owner, NEW g \in Seq(Token), NEW h \in Seq(Token), Len(h) >= Len(g),
         \A i \in 1 .. Len(g) : h[i] = g[i]
  PROVE  \A i \in 1 .. PromptLen[r] + Len(g) : (Prompt(r) \o h)[i] = (Prompt(r) \o g)[i]
<1> SUFFICES ASSUME NEW i \in 1 .. PromptLen[r] + Len(g)
             PROVE  (Prompt(r) \o h)[i] = (Prompt(r) \o g)[i]
  OBVIOUS
<1>1. PromptLen[r] \in Nat /\ Len(g) \in Nat /\ Len(h) \in Nat
  BY TextFacts
<1>2. CASE i \in 1 .. PromptLen[r]
  BY <1>2, TextFacts
<1>3. CASE i \notin 1 .. PromptLen[r]
  <2> DEFINE j == i - PromptLen[r]
  <2>1. j \in 1 .. Len(g) /\ j \in 1 .. Len(h) /\ i = PromptLen[r] + j
    BY <1>1, <1>3
  <2> HIDE DEF j
  <2>2. (Prompt(r) \o h)[PromptLen[r] + j] = h[j] /\ (Prompt(r) \o g)[PromptLen[r] + j] = g[j]
    BY <2>1, TextFacts, ZenonT(40)
  <2> QED
    BY <2>1, <2>2
<1> QED
  BY <1>2, <1>3

LEMMA CommittedFacts ==
  ASSUME NEW r \in Owner, StateOK(r)
  PROVE  /\ Committed(r) \in Seq(Token) /\ Len(Committed(r)) = TokenCount(r)
         /\ TokenCount(r) \in Nat \ {0}
<1>1. state[r].generated \in Seq(Token)
  BY DEF StateOK
<1> QED
  BY <1>1, TextFacts, CountFacts DEF Committed

\* The first n of d and the rest of c are c, when d starts as c does.
LEMMA Refilled ==
  ASSUME NEW c \in Seq(Token), NEW d \in Seq(Token), NEW n \in Nat, n <= Len(c), n <= Len(d),
         \A i \in 1 .. n : d[i] = c[i]
  PROVE  SubSeq(d, 1, n) \o SubSeq(c, n + 1, Len(c)) = c
<1>1. Len(c) \in Nat /\ Len(d) \in Nat /\ n \in 0 .. Len(c) /\ n \in 0 .. Len(d)
  BY LenProperties
<1>2. \A i \in 1 .. n : d[i] \in Token /\ c[i] \in Token
  BY <1>1, ElementOfSeq
<1>3. /\ SubSeq(d, 1, n) \in Seq(Token) /\ Len(SubSeq(d, 1, n)) = n
      /\ SubSeq(c, 1, n) \in Seq(Token) /\ Len(SubSeq(c, 1, n)) = n
  BY <1>1, PrefixFacts
<1>4. \A i \in 1 .. n : SubSeq(d, 1, n)[i] = d[i] /\ SubSeq(c, 1, n)[i] = c[i]
  BY <1>1, <1>2, <1>3, SubSeqProperties
<1>5. SubSeq(d, 1, n) = SubSeq(c, 1, n)
  BY <1>3, <1>4, SeqEqual
<1>6. SubSeq(c, 1, n) \o SubSeq(c, n + 1, Len(c)) = c
  <2>1. 1 \in 1 .. Len(c) + 1 /\ n \in 1 - 1 .. Len(c) /\ Len(c) \in n .. Len(c)
    BY <1>1
  <2>2. SubSeq(c, 1, n) \o SubSeq(c, n + 1, Len(c)) = SubSeq(c, 1, Len(c))
    BY <2>1, ConcatAdjacentSubSeq
  <2> QED
    BY <2>2, SubSeqFull
<1> QED
  BY <1>5, <1>6

\* d is c, and perhaps goes on behind it.
StartsAs(d, c) == d \in Seq(Token) /\ Len(d) >= Len(c) /\ \A i \in 1 .. Len(c) : d[i] = c[i]

LEMMA StartCropped ==
  ASSUME NEW c \in Seq(Token), NEW d, StartsAs(d, c)
  PROVE  SubSeq(d, 1, Len(c)) = c
<1> DEFINE n == Len(c)
<1>1. /\ d \in Seq(Token) /\ Len(c) \in Nat /\ Len(d) \in Nat /\ Len(c) \in 0 .. Len(d)
      /\ \A i \in 1 .. Len(c) : d[i] = c[i]
  BY LenProperties DEF StartsAs
<1>2. SubSeq(d, 1, Len(c)) \in Seq(Token) /\ Len(SubSeq(d, 1, Len(c))) = Len(c)
  BY <1>1, PrefixFacts
<1>3. \A i \in 1 .. Len(c) : SubSeq(d, 1, Len(c))[i] = d[i]
  <2>1. \A i \in 1 .. Len(c) : d[i] \in Token
    BY <1>1, ElementOfSeq
  <2> QED
    BY <1>1, <1>2, <2>1, SubSeqProperties
<1> QED
  BY <1>1, <1>2, <1>3, SeqEqual

LEMMA StartGoesOn ==
  ASSUME NEW c \in Seq(Token), NEW d, StartsAs(d, c), NEW e \in Seq(Token)
  PROVE  StartsAs(d \o e, c) /\ Len(d \o e) = Len(d) + Len(e)
<1>1. /\ d \in Seq(Token) /\ Len(c) \in Nat /\ Len(d) \in Nat /\ Len(e) \in Nat /\ Len(d) >= Len(c)
      /\ \A i \in 1 .. Len(c) : d[i] = c[i]
  BY LenProperties DEF StartsAs
<1>2. /\ d \o e \in Seq(Token)
      /\ Len(d \o e) = Len(d) + Len(e)
      /\ \A i \in 1 .. Len(d) + Len(e) : (d \o e)[i] = IF i <= Len(d) THEN d[i] ELSE e[i - Len(d)]
  BY <1>1, ConcatElements
<1>3. \A i \in 1 .. Len(c) : (d \o e)[i] = c[i]
  <2> SUFFICES ASSUME NEW i \in 1 .. Len(c) PROVE (d \o e)[i] = c[i]
    OBVIOUS
  <2>1. i \in 1 .. Len(d) + Len(e) /\ i <= Len(d)
    BY <1>1
  <2> QED
    BY <1>1, <1>2, <2>1
<1> QED
  BY <1>1, <1>2, <1>3 DEF StartsAs

\* How much of the text the draft model is not fed again.
Known(r) == Smaller(state[r].draft_cached, TokenCount(r) - 1)

\* Cropped, the cache is not ahead of what it is said to hold, or it holds the whole
\* text; brought up to the text, it starts with the text.
LEMMA AdvancedStarts ==
  ASSUME NEW r \in Owner, StateOK(r), DraftOK(r)
  PROVE  /\ StartsAs(Advanced(r), Committed(r))
         /\ Known(r) \in Nat /\ Known(r) < TokenCount(r)
         /\ Kept(r) \in Seq(Token) /\ Known(r) <= Len(Kept(r))
         /\ Known(r) < Len(Kept(r)) => Len(Kept(r)) >= TokenCount(r)
         /\ \A i \in 1 .. Smaller(Len(Kept(r)), TokenCount(r)) : Kept(r)[i] = Committed(r)[i]
<1> DEFINE c == Committed(r)
           d == state[r].draft_past
           b == state[r].draft_cached
           n == Known(r)
           m == TokenCount(r)
<1>1. c \in Seq(Token) /\ Len(c) = m /\ m \in Nat \ {0}
  BY CommittedFacts
<1>2. /\ d \in Seq(Token) /\ Len(d) \in Nat /\ b \in Nat /\ b <= Len(d)
      /\ b < Len(d) => Len(d) >= m
      /\ \A i \in 1 .. Smaller(Len(d), m) : d[i] = c[i]
  BY LenProperties DEF DraftOK
<1>3. n = Smaller(b, m - 1) /\ Advanced(r) = Kept(r) \o SubSeq(c, n + 1, m)
  BY DEF Advanced, Known
<1>4. Kept(r) = IF b < m THEN d ELSE SubSeq(d, 1, Smaller(m - 1, Len(d)))
  BY DEF Kept, Cropped
<1> HIDE DEF c, d, b, n, m
<1>5. n \in Nat /\ n < m /\ n <= Len(d) /\ n <= Len(c)
  BY <1>1, <1>2, <1>3 DEF Smaller
<1>6. SubSeq(c, n + 1, m) \in Seq(Token)
  BY <1>1, <1>5, SubSeqProperties, LenProperties
<1>7. \A i \in 1 .. n : d[i] = c[i]
  <2> SUFFICES ASSUME NEW i \in 1 .. n PROVE d[i] = c[i]
    OBVIOUS
  <2>1. i \in 1 .. Smaller(Len(d), m)
    BY <1>1, <1>2, <1>5 DEF Smaller
  <2> QED
    BY <1>2, <2>1
<1>8. SubSeq(d, 1, n) \o SubSeq(c, n + 1, m) = c
  BY <1>1, <1>2, <1>5, <1>7, Refilled
<1>9. CASE n = Len(d) \/ ~ (b < m)
  <2>1. Kept(r) = SubSeq(d, 1, n) /\ Len(SubSeq(d, 1, n)) = n /\ SubSeq(d, 1, n) \in Seq(Token)
    <3>1. Len(SubSeq(d, 1, n)) = n /\ SubSeq(d, 1, n) \in Seq(Token)
      BY <1>2, <1>5, PrefixFacts
    <3>2. CASE ~ (b < m)
      <4>1. Smaller(m - 1, Len(d)) = n
        BY <1>1, <1>2, <1>3, <3>2 DEF Smaller
      <4> QED
        BY <1>4, <3>1, <3>2, <4>1
    <3>3. CASE b < m /\ n = Len(d)
      <4>1. SubSeq(d, 1, Len(d)) = d
        BY <1>2, SubSeqFull
      <4> QED
        BY <1>4, <3>1, <3>3, <4>1
    <3> QED
      BY <1>9, <3>1, <3>2, <3>3
  <2>2. Advanced(r) = c
    BY <1>3, <1>8, <2>1
  <2>3. \A i \in 1 .. Smaller(Len(Kept(r)), m) : Kept(r)[i] = c[i]
    <3> SUFFICES ASSUME NEW i \in 1 .. Smaller(n, m) PROVE SubSeq(d, 1, n)[i] = c[i]
      BY <2>1
    <3>1. i \in 1 .. n /\ i \in 1 .. Len(d)
      BY <1>1, <1>2, <1>5 DEF Smaller
    <3>2. SubSeq(d, 1, n)[i] = d[i]
      <4>1. \A l \in 1 .. n : d[l] \in Token
        BY <1>2, <1>5, ElementOfSeq
      <4> QED
        BY <1>2, <1>5, <2>1, <3>1, <4>1, SubSeqProperties
    <3> QED
      BY <1>7, <3>1, <3>2
  <2>4. StartsAs(c, c)
    BY <1>1 DEF StartsAs
  <2>5. n <= Len(Kept(r)) /\ ~ (n < Len(Kept(r)))
    BY <1>5, <2>1
  <2> QED
    BY <1>5, <2>1, <2>2, <2>3, <2>4, <2>5 DEF c, n, m
<1>10. CASE n # Len(d) /\ b < m
  <2>1. n = b /\ b < Len(d) /\ Len(d) >= m /\ Kept(r) = d
    BY <1>1, <1>2, <1>3, <1>4, <1>10 DEF Smaller
  <2>2. StartsAs(d, c)
    <3>1. Smaller(Len(d), m) = m
      BY <1>1, <1>2, <2>1 DEF Smaller
    <3> QED
      BY <1>1, <1>2, <2>1, <3>1 DEF StartsAs
  <2>3. StartsAs(Advanced(r), c)
    BY <1>1, <1>3, <1>6, <2>1, <2>2, StartGoesOn
  <2>4. \A i \in 1 .. Smaller(Len(Kept(r)), m) : Kept(r)[i] = c[i]
    BY <1>2, <2>1
  <2> QED
    BY <1>2, <1>5, <2>1, <2>3, <2>4 DEF c, n, m
<1> QED
  BY <1>5, <1>9, <1>10

-----------------------------------------------------------------------------
(* The steps *)

\* A step that leaves the reply and the draft cache of q.
LEMMA DraftStays ==
  ASSUME NEW q \in Owner, DraftOK(q), SameDraft(q), state'[q].generated = state[q].generated,
         Ahead(q) => RoundIsNext(q)'
  PROVE  DraftOK(q)'
BY DEF DraftOK, SameDraft, Ahead, TokenCount, Committed

\* A step of another request.
LEMMA OtherDrafts ==
  ASSUME NEW r \in Owner, StepOf(r), NEW q \in Owner \ {r}, DraftOK(q)
  PROVE  DraftOK(q)'
<1>1. state'[q] = state[q] /\ (turn' = NoTurn \/ turn'.req # q)
  BY DEF StepOf
<1>2. ~ InStep(q, "validated")' /\ ~ InStep(q, "rejected")'
  BY <1>1 DEF InStep, NoTurn
<1>3. SameDraft(q) /\ state'[q].generated = state[q].generated
  BY <1>1 DEF SameDraft
<1>4. RoundIsNext(q) => RoundIsNext(q)'
  BY <1>1, <1>2 DEF RoundIsNext, HasPending, Speculates, Remaining
<1> QED
  BY <1>3, <1>4, DraftStays DEF DraftOK

\* A step that ends the turn of r and leaves its reply and its draft cache.
LEMMA DraftKept ==
  ASSUME NEW r \in Owner, DraftOK(r), SameReply(r), SameDraft(r), turn' = NoTurn
  PROVE  DraftOK(r)'
<1>1. ~ InStep(r, "validated")' /\ ~ InStep(r, "rejected")'
  BY DEF InStep, NoTurn
<1>2. RoundIsNext(r) => RoundIsNext(r)'
  BY <1>1 DEF SameReply, RoundIsNext, HasPending, Speculates, Remaining
<1> QED
  BY <1>2, DraftStays DEF DraftOK, SameReply

\* The reply grows while the cache is not ahead of it.
LEMMA DraftGrows ==
  ASSUME CountsOK, NEW r \in Owner, DraftOK(r), SameDraft(r), ~ Ahead(r),
         state'[r].generated \in Seq(Token),
         Len(state'[r].generated) >= Len(state[r].generated),
         \A i \in 1 .. Len(state[r].generated) : state'[r].generated[i] = state[r].generated[i]
  PROVE  DraftOK(r)'
<1> DEFINE g == state[r].generated
           h == state'[r].generated
           d == state[r].draft_past
<1>1. g \in Seq(Token) /\ h \in Seq(Token)
  BY DEF CountsOK, StateOK
<1>2. /\ PromptLen[r] \in Nat /\ Len(g) \in Nat /\ Len(h) \in Nat /\ Len(h) >= Len(g)
      /\ \A i \in 1 .. PromptLen[r] + Len(g) : (Prompt(r) \o h)[i] = (Prompt(r) \o g)[i]
  BY <1>1, TextFacts, TextGrows, ZenonT(40)
<1>3. /\ TokenCount(r) = PromptLen[r] + Len(g) /\ TokenCount(r)' = PromptLen[r] + Len(h)
      /\ Committed(r) = Prompt(r) \o g /\ Committed(r)' = Prompt(r) \o h
  BY DEF TokenCount, Committed, Prompt
<1>4. /\ d \in Seq(Token) /\ Len(d) \in Nat
      /\ \A i \in 1 .. Smaller(Len(d), PromptLen[r] + Len(g)) : d[i] = (Prompt(r) \o g)[i]
  BY <1>3, LenProperties DEF DraftOK
<1>5. state'[r].draft_past = d /\ state'[r].draft_cached = Len(d)
  BY DEF SameDraft, Ahead
<1>6. Len(d) <= PromptLen[r] + Len(g)
  BY <1>2, <1>3, <1>4 DEF Ahead
<1> HIDE DEF g, h, d
<1>7. \A i \in 1 .. Len(d) : d[i] = (Prompt(r) \o h)[i]
  <2>1. Smaller(Len(d), PromptLen[r] + Len(g)) = Len(d)
    BY <1>6 DEF Smaller
  <2>2. \A i \in 1 .. Len(d) : d[i] = (Prompt(r) \o g)[i]
    BY <1>4, <2>1
  <2>3. \A i \in 1 .. Len(d) : i \in 1 .. PromptLen[r] + Len(g)
    BY <1>2, <1>4, <1>6
  <2> QED
    BY <1>2, <2>2, <2>3, Zenon
<1>8. Smaller(Len(d), PromptLen[r] + Len(h)) = Len(d) /\ ~ (Len(d) > PromptLen[r] + Len(h))
  BY <1>2, <1>4, <1>6 DEF Smaller
<1>9. DraftOK(r)' <=> /\ d \in Seq(Token) /\ Len(d) \in Nat /\ Len(d) <= Len(d)
                      /\ Len(d) < Len(d) => Len(d) >= TokenCount(r)'
                      /\ \A i \in 1 .. Smaller(Len(d), TokenCount(r)') : d[i] = Committed(r)'[i]
                      /\ Len(d) > TokenCount(r)' => RoundIsNext(r)'
  BY <1>5 DEF DraftOK, Ahead
<1>10. \A i \in 1 .. Smaller(Len(d), TokenCount(r)') : d[i] = Committed(r)'[i]
  BY <1>3, <1>7, <1>8
<1>11. Len(d) <= Len(d) /\ ~ (Len(d) < Len(d)) /\ ~ (Len(d) > TokenCount(r)')
  BY <1>3, <1>4, <1>8
<1> QED
  BY <1>4, <1>9, <1>10, <1>11, Zenon

\* What the draft model proposes, and that it proposes something.
LEMMA ProposedFacts ==
  ASSUME CountsOK, NEW r \in Owner, SpecBatch(r), NEW drafts \in Drafts(r)
  PROVE  /\ InDecode(r) /\ drafts \in Seq(Token) /\ Len(drafts) \in Nat \ {0}
         /\ Front(drafts) \in Seq(Token) /\ Len(Front(drafts)) = Len(drafts) - 1
<1>1. StateOK(r) /\ InDecode(r)
  BY ReservedFacts DEF SpecBatch
<1>2. drafts \in Seq(Token) /\ Len(drafts) \in Nat
  BY <1>1, DraftFacts DEF InDecode
<1>3. DraftCount(r) \in Nat \ {0}
  <2>1. SpecTokens \in Nat /\ SpecTokens > 0 /\ Remaining(r) \in Nat /\ Remaining(r) > 1
    BY <1>1, CountFacts, Constants DEF SpecBatch, Speculates
  <2> QED
    BY <2>1 DEF DraftCount, Smaller
<1>4. PICK n \in Nat \ {0} : drafts \in [1 .. n -> {Wrong} \cup {TokenCount(r) + i - 1 : i \in 1 .. n}]
  BY <1>3 DEF Drafts
<1>5. Len(drafts) = n
  BY <1>2, <1>4, LenProperties
<1>6. Len(drafts) - 1 \in 0 .. Len(drafts)
  BY <1>5
<1>7. Front(drafts) \in Seq(Token) /\ Len(Front(drafts)) = Len(drafts) - 1
  BY <1>2, <1>6, PrefixFacts DEF Front
<1> QED
  BY <1>1, <1>2, <1>5, <1>7

\* A round that comes as far as the crop leaves the text in the cache.
LEMMA DraftCropped ==
  ASSUME CountsOK, NEW r \in Owner, DraftOK(r), SpecBatch(r), NEW drafts \in Drafts(r),
         DraftedBy(r, drafts)
  PROVE  DraftOK(r)'
<1> DEFINE c == Committed(r)
           e == Front(drafts)
<1>1. StateOK(r) /\ e \in Seq(Token)
  BY ProposedFacts DEF CountsOK
<1>2. c \in Seq(Token) /\ Len(c) = TokenCount(r) /\ TokenCount(r) \in Nat \ {0}
  BY <1>1, CommittedFacts
<1> DEFINE a == Advanced(r) \o e
<1>3. StartsAs(a, c)
  BY <1>1, <1>2, AdvancedStarts, StartGoesOn
<1>4. state'[r].draft_past = Cropped(a, TokenCount(r)) /\ state'[r].draft_cached = TokenCount(r)
  BY DEF DraftedBy
<1> HIDE DEF c, e, a
<1>5. SubSeq(a, 1, Len(c)) = c
  BY <1>2, <1>3, StartCropped
<1>6. Smaller(Len(c), Len(a)) = Len(c)
  BY <1>3 DEF Smaller, StartsAs
<1>7. state'[r].draft_past = c /\ state'[r].draft_cached = Len(c)
  BY <1>2, <1>4, <1>5, <1>6 DEF Cropped
<1>8. Committed(r)' = c /\ TokenCount(r)' = Len(c)
  BY <1>2 DEF DraftedBy, SameReply, Committed, TokenCount, Prompt, c
<1>9. ~ Ahead(r)'
  BY <1>2, <1>7, <1>8 DEF Ahead
<1> QED
  BY <1>2, <1>7, <1>8, <1>9 DEF DraftOK

\* A round that breaks off leaves a start of the text, or the text and proposals.
LEMMA LeftStarts ==
  ASSUME CountsOK, NEW r \in Owner, DraftOK(r), SpecBatch(r), NEW cache, NEW n, LeftBy(r, cache, n)
  PROVE  /\ cache \in Seq(Token) /\ n \in Nat /\ n <= Len(cache)
         /\ n < Len(cache) => Len(cache) >= TokenCount(r)
         /\ \A i \in 1 .. Smaller(Len(cache), TokenCount(r)) : cache[i] = Committed(r)[i]
<1> DEFINE c == Committed(r)
           m == TokenCount(r)
           a == Advanced(r)
<1>1. StateOK(r)
  BY DEF CountsOK
<1>2. c \in Seq(Token) /\ Len(c) = m /\ m \in Nat \ {0} /\ Len(c) \in Nat
  BY <1>1, CommittedFacts, LenProperties
<1>3. StartsAs(a, c)
  BY <1>1, AdvancedStarts
<1>4. ASSUME NEW d, StartsAs(d, c)
      PROVE  /\ d \in Seq(Token) /\ Len(d) \in Nat /\ Len(d) >= m
             /\ \A i \in 1 .. Smaller(Len(d), m) : d[i] = c[i]
  <2>1. d \in Seq(Token) /\ Len(d) \in Nat /\ Len(d) >= m
    BY <1>2, <1>4, LenProperties DEF StartsAs
  <2>2. Smaller(Len(d), m) = m
    BY <1>2, <2>1 DEF Smaller
  <2> QED
    BY <1>2, <1>4, <2>1, <2>2 DEF StartsAs
<1>5. CASE n = Known(r) /\ cache = Kept(r)
  BY <1>1, <1>5, AdvancedStarts
<1>6. CASE n = Known(r) /\ cache = a
  <2>1. n \in Nat /\ n < m
    BY <1>1, <1>6, AdvancedStarts
  <2> HIDE DEF c, m, a
  <2> QED
    BY <1>2, <1>3, <1>4, <1>6, <2>1 DEF c, m
<1>7. CASE \E drafts \in Drafts(r) : \E k \in 0 .. Len(drafts) - 1 :
             cache = a \o SubSeq(drafts, 1, k) /\ n \in m .. m + k
  <2>1. PICK drafts \in Drafts(r) : \E k \in 0 .. Len(drafts) - 1 :
          cache = a \o SubSeq(drafts, 1, k) /\ n \in m .. m + k
    BY <1>7
  <2>2. PICK k \in 0 .. Len(drafts) - 1 : cache = a \o SubSeq(drafts, 1, k) /\ n \in m .. m + k
    BY <2>1
  <2> DEFINE e == SubSeq(drafts, 1, k)
  <2>3. drafts \in Seq(Token) /\ Len(drafts) \in Nat \ {0}
    BY ProposedFacts
  <2>4. e \in Seq(Token) /\ Len(e) = k /\ k \in Nat
    <3>1. k \in 0 .. Len(drafts)
      BY <2>3
    <3> QED
      BY <2>3, <3>1, PrefixFacts
  <2>5. cache = a \o e /\ n \in Nat /\ n <= m + k
    BY <1>2, <2>2, <2>4
  <2> HIDE DEF c, m, a, e
  <2>6. StartsAs(cache, c) /\ Len(cache) = Len(a) + k
    BY <1>2, <1>3, <2>4, <2>5, StartGoesOn
  <2>7. Len(cache) >= m + k
    BY <1>2, <1>3, <1>4, <2>4, <2>6
  <2>8. /\ cache \in Seq(Token) /\ Len(cache) \in Nat /\ Len(cache) >= m
        /\ \A i \in 1 .. Smaller(Len(cache), m) : cache[i] = c[i]
    BY <1>4, <2>6
  <2>9. n <= Len(cache)
    BY <1>2, <2>4, <2>5, <2>7, <2>8
  <2> QED
    BY <2>5, <2>8, <2>9 DEF c, m
<1> QED
  BY <1>5, <1>6, <1>7 DEF LeftBy, Known

LEMMA DraftBrokenOff ==
  ASSUME CountsOK, NEW r \in Owner, DraftOK(r), DraftRaises(r)
  PROVE  DraftOK(r)'
<1> DEFINE cache == state'[r].draft_past
           n == state'[r].draft_cached
<1>1. SameReply(r) /\ turn' = NoTurn /\ LeftBy(r, cache, n)
  BY DraftRaisesDoes
<1>2. SpecBatch(r) /\ InDecode(r)
  BY ReservedFacts DEF DraftRaises, SpecBatch
<1>3. /\ cache \in Seq(Token) /\ n \in Nat /\ n <= Len(cache)
      /\ n < Len(cache) => Len(cache) >= TokenCount(r)
      /\ \A i \in 1 .. Smaller(Len(cache), TokenCount(r)) : cache[i] = Committed(r)[i]
  BY <1>1, <1>2, LeftStarts
<1>4. Committed(r)' = Committed(r) /\ TokenCount(r)' = TokenCount(r)
  BY <1>1 DEF SameReply, Committed, TokenCount, Prompt
<1>5. RoundIsNext(r)'
  BY <1>1, <1>2 DEF SpecBatch, InDecode, RoundIsNext, SameReply, HasPending, Speculates, Remaining,
                    InStep, NoTurn
<1> QED
  BY <1>3, <1>4, <1>5 DEF DraftOK

\* A burst is put out while the cache is not ahead.
LEMMA DraftBurst ==
  ASSUME CountsOK, NEW r \in Owner, DraftOK(r), SameDraft(r), ~ Ahead(r), InDecode(r),
         NEW tokens \in Seq(Token), Len(tokens) >= 1, Burst(r, tokens)
  PROVE  DraftOK(r)'
<1>1. PICK k \in 1 .. Len(tokens) : BurstOf(r, tokens, k)
  BY BurstFacts
<1>2. Len(state[r].generated) \in Nat /\ k \in Nat
  BY LenProperties DEF CountsOK, StateOK
<1>3. /\ state'[r].generated \in Seq(Token)
      /\ Len(state'[r].generated) >= Len(state[r].generated)
      /\ \A i \in 1 .. Len(state[r].generated) : state'[r].generated[i] = state[r].generated[i]
  <2>1. /\ state'[r].generated \in Seq(Token)
        /\ Len(state'[r].generated) = Len(state[r].generated) + k
        /\ \A i \in 1 .. Len(state[r].generated) : state'[r].generated[i] = state[r].generated[i]
    BY <1>1, Zenon DEF BurstOf
  <2>2. Len(state[r].generated) + k >= Len(state[r].generated)
    BY <1>2
  <2> QED
    BY <2>1, <2>2
<1> QED
  BY <1>3, DraftGrows

DraftsOK == \A q \in Owner : DraftOK(q)

LEMMA PrefillDrafts ==
  ASSUME CountsOK, DraftsOK, NEW r \in Owner, Prefill(r)
  PROVE  DraftsOK'
<1>1. /\ StepOf(r) /\ SameDraft(r) /\ state'[r].generated = state[r].generated
      /\ state[r].prefilled < PromptLen[r]
  BY PrefillDoes
<1>2. DraftOK(r) /\ StateOK(r)
  BY DEF DraftsOK, CountsOK
<1>3. ~ Ahead(r)
  BY <1>1, <1>2, Constants DEF DraftOK, RoundIsNext, StateOK
<1>4. state[r].generated \in Seq(Token) /\ Len(state[r].generated) \in Nat
  BY <1>2, LenProperties DEF StateOK
<1>5. DraftOK(r)'
  BY <1>1, <1>2, <1>3, <1>4, DraftGrows
<1> QED
  BY <1>1, <1>5, OtherDrafts DEF DraftsOK

\* Steps that leave the state of the requests.
LEMMA TurnDrafts ==
  ASSUME CountsOK, DraftsOK, NEW r \in Owner, Reserve(r) \/ Reject(r)
  PROVE  DraftsOK'
<1>1. state' = state /\ DraftOK(r)
  BY DEF Reserve, Reject, DraftsOK
<1>2. turn'.req = r /\ (turn'.step = "reserved" \/ InStep(r, "validated"))
  <2>1. CASE Reserve(r)
    BY <2>1 DEF Reserve
  <2>2. CASE Reject(r)
    <3>1. InStep(r, "validated") /\ turn' = [turn EXCEPT !.step = "rejected"]
      BY <2>2 DEF Reject
    <3>2. turn = Judged("validated", r, turn.drafts, turn.targets)
      BY <3>1, JudgedFacts
    <3> QED
      BY <3>1, <3>2 DEF Judged
  <2> QED
    BY <2>1, <2>2
<1>3. Ahead(r) => RoundIsNext(r)'
  BY <1>1, <1>2 DEF DraftOK, RoundIsNext, HasPending, Speculates, Remaining, InStep
<1>4. StepOf(r) /\ SameDraft(r) /\ state'[r].generated = state[r].generated
  BY <1>1, <1>2 DEF StepOf, SameDraft
<1>5. DraftOK(r)'
  BY <1>1, <1>3, <1>4, DraftStays
<1> QED
  BY <1>4, <1>5, OtherDrafts DEF DraftsOK

LEMMA RaisedDrafts ==
  ASSUME CountsOK, DraftsOK, NEW r \in Owner, StepOf(r), SameReply(r), SameDraft(r), turn' = NoTurn
  PROVE  DraftsOK'
BY DraftKept, OtherDrafts DEF DraftsOK

LEMMA BurstDrafts ==
  ASSUME CountsOK, DraftsOK, NEW r \in Owner,
         EmitPending(r) \/ DecodeNext(r) \/ AcceptAll(r) \/ Replay(r)
  PROVE  DraftsOK'
<1>1. /\ StepOf(r) /\ SameDraft(r) /\ InDecode(r)
      /\ \E tokens \in Seq(Token) : Len(tokens) >= 1 /\ Burst(r, tokens)
  <2>1. CASE EmitPending(r)
    <3> DEFINE tokens == <<state[r].pending>>
    <3>1. StepOf(r) /\ Burst(r, tokens) /\ SameDraft(r)
      BY <2>1, EmitDoes
    <3>2. InDecode(r) /\ tokens \in Seq(Token) /\ Len(tokens) >= 1
      BY <2>1, EmitTokens
    <3> QED
      BY <3>1, <3>2, Zenon
  <2>2. CASE DecodeNext(r)
    <3>1. PICK t \in Chosen(state[r].past, <<LastToken(r)>>, 1, TokenCount(r)) :
            StepOf(r) /\ Burst(r, <<t>>) /\ SameDraft(r)
      BY <2>2, DecodeDoes
    <3>2. InDecode(r) /\ <<t>> \in Seq(Token) /\ Len(<<t>>) >= 1
      BY <2>2, DecodeTokens
    <3> QED
      BY <3>1, <3>2, Zenon
  <2>3. CASE AcceptAll(r)
    <3> DEFINE tokens == Append(turn.drafts, Last(turn.targets))
    <3>1. StepOf(r) /\ Burst(r, tokens) /\ SameDraft(r)
      BY <2>3, AcceptDoes
    <3>2. InDecode(r) /\ tokens \in Seq(Token) /\ Len(tokens) >= 1
      BY <2>3, AcceptTokens DEF AcceptAll
    <3> QED
      BY <3>1, <3>2, Zenon
  <2>4. CASE Replay(r)
    <3> DEFINE tokens == Corrected(turn.drafts, turn.targets)
    <3>1. StepOf(r) /\ Burst(r, tokens) /\ SameDraft(r)
      BY <2>4, ReplayDoes
    <3>2. InDecode(r) /\ tokens \in Seq(Token) /\ Len(tokens) >= 1
      BY <2>4, ReplayTokens DEF Replay, ReplayBatch
    <3> QED
      BY <3>1, <3>2, Zenon
  <2> QED
    BY <2>1, <2>2, <2>3, <2>4
<1>2. ~ RoundIsNext(r)
  BY DEF RoundIsNext, EmitPending, DecodeNext, DecodeBatch, AcceptAll, Replay, ReplayBatch
<1>3. DraftOK(r) /\ ~ Ahead(r)
  BY <1>2 DEF DraftsOK, DraftOK
<1>4. DraftOK(r)'
  BY <1>1, <1>3, DraftBurst
<1> QED
  BY <1>1, <1>4, OtherDrafts DEF DraftsOK

LEMMA RoundDrafts ==
  ASSUME CountsOK, DraftsOK, NEW r \in Owner, Validate(r) \/ ValidateRaises(r) \/ RoundOverdraws(r)
  PROVE  DraftsOK'
<1>1. StepOf(r) /\ SpecBatch(r)
  BY RoundDoes
<1>2. PICK drafts \in Drafts(r) : DraftedBy(r, drafts)
  BY RoundDoes
<1>3. DraftOK(r)'
  BY <1>1, <1>2, DraftCropped DEF DraftsOK
<1> QED
  BY <1>1, <1>3, OtherDrafts DEF DraftsOK

LEMMA StepDrafts == CountsOK /\ DraftsOK /\ [Next]_vars => DraftsOK'
<1> SUFFICES ASSUME CountsOK, DraftsOK, [Next]_vars PROVE DraftsOK'
  OBVIOUS
<1>1. ASSUME UNCHANGED vars \/ FreePage PROVE DraftsOK'
  <2>1. state' = state /\ turn' = turn
    BY <1>1 DEF vars, execVars, FreePage
  <2> QED
    BY <2>1 DEF DraftsOK, DraftOK, Ahead, TokenCount, Committed, RoundIsNext, HasPending, Speculates,
                Remaining, InStep
<1>2. ASSUME NEW r \in Owner, PrefillRaises(r) \/ DecodeRaises(r) PROVE DraftsOK'
  BY <1>2, PassRaisesDoes, RaisedDrafts DEF PrefillRaises, DecodeRaises
<1>3. ASSUME NEW r \in Owner, ReplayRaises(r) PROVE DraftsOK'
  BY <1>3, ReplayRaisesDoes, RaisedDrafts
<1>4. ASSUME NEW r \in Owner, DraftRaises(r) PROVE DraftsOK'
  <2>1. StepOf(r)
    BY <1>4, DraftRaisesDoes
  <2>2. DraftOK(r)'
    BY <1>4, DraftBrokenOff DEF DraftsOK
  <2> QED
    BY <2>1, <2>2, OtherDrafts DEF DraftsOK
<1> QED
  BY <1>1, <1>2, <1>3, <1>4, PrefillDrafts, TurnDrafts, BurstDrafts, RoundDrafts DEF Next

\* The draft model's cache agrees with the text as far as both go, and where it is longer
\* than draft_cached_len says it covers the text: whatever was proposed or accepted,
\* and when the draft model raised before, between or inside its passes.
THEOREM DraftCacheFollowsText == Spec => []DraftCacheIsPrefix
<1>1. Init => CountsOK /\ DraftsOK
  <2> SUFFICES ASSUME Init PROVE CountsOK /\ DraftsOK
    OBVIOUS
  <2>1. CountsOK
    BY InitCounts
  <2>2. ASSUME NEW r \in Owner PROVE DraftOK(r)
    <3>1. state[r].draft_past = <<>> /\ state[r].draft_cached = 0
      BY DEF Init, NewState
    <3>2. TokenCount(r) \in Nat
      BY <2>1, CountFacts DEF CountsOK
    <3>3. <<>> \in Seq(Token) /\ Len(<<>>) = 0
      BY EmptySeq
    <3>4. Smaller(0, TokenCount(r)) = 0 /\ ~ (0 > TokenCount(r)) /\ ~ (0 < 0)
      BY <3>2 DEF Smaller
    <3> QED
      BY <3>1, <3>3, <3>4 DEF DraftOK, Ahead
  <2> QED
    BY <2>1, <2>2 DEF DraftsOK
<1>2. CountsOK /\ DraftsOK /\ [Next]_vars => CountsOK' /\ DraftsOK'
  BY StepCounts, StepDrafts
<1>3. CountsOK /\ DraftsOK => DraftCacheIsPrefix
  BY DEF DraftsOK, DraftOK, DraftCacheIsPrefix
<1> QED
  BY <1>1, <1>2, <1>3, PTL DEF Spec

-----------------------------------------------------------------------------
(***************************************************************************)
(* What the target model chooses (ExactUntilHarm).  A pass chooses the     *)
(* right token when its row sees exactly the text before it, so the cache  *)
(* must be the text that has been fed; and a row behind drafts sees that   *)
(* text only if the drafts before it were right.                           *)
(*                                                                         *)
(* ExactUntilHarm alone is not inductive: what the next token will be      *)
(* depends on the cache, on the pending token, and between the validation  *)
(* and the end of a round on what the target model has judged.             *)
(***************************************************************************)

\* The tokens of a text that is as greedy decoding would have it.
Counting(n) == [k \in 1 .. n |-> k - 1]

\* Nothing smaller in a set of numbers.
LEMMA LeastNumber ==
  ASSUME NEW T, T \subseteq Nat, T # {}
  PROVE  \E x \in T : \A y \in T : x <= y
<1> DEFINE R == OpToRel(<, Nat)
<1>1. IsWellFoundedOn(R, Nat)
  BY NatLessThanWellFounded
<1>2. \A x, y \in Nat : y < x => <<y, x>> \in R
  BY DEF OpToRel
<1> HIDE DEF R
<1>3. PICK x \in T : \A y \in T : ~ (<<y, x>> \in R)
  BY <1>1, WFMin
<1>4. \A y \in T : x <= y
  <2> SUFFICES ASSUME NEW y \in T PROVE x <= y
    OBVIOUS
  <2>1. x \in Nat /\ y \in Nat
    OBVIOUS
  <2>2. ~ (y < x)
    BY <1>2, <1>3, <2>1
  <2> QED
    BY <2>1, <2>2
<1> QED
  BY <1>4

LEMMA CountingFacts ==
  ASSUME NEW n \in Nat
  PROVE  /\ Counting(n) \in Seq(Token) /\ Len(Counting(n)) = n
         /\ \A i \in 1 .. n : Counting(n)[i] = i - 1
<1>1. Counting(n) \in [1 .. n -> Token] /\ \A i \in 1 .. n : Counting(n)[i] = i - 1
  BY DEF Counting, Token
<1> QED
  BY <1>1, SeqDef, LenProperties

\* A sequence that counts.
LEMMA Counts ==
  ASSUME NEW s \in Seq(Token), NEW n \in Nat, Len(s) = n, \A i \in 1 .. n : s[i] = i - 1
  PROVE  s = Counting(n)
BY CountingFacts, SeqEqual

LEMMA ConcatTokens ==
  \A s, t \in Seq(Token) :
    /\ s \o t \in Seq(Token)
    /\ Len(s \o t) = Len(s) + Len(t)
    /\ \A i \in 1 .. Len(s) + Len(t) : (s \o t)[i] = IF i <= Len(s) THEN s[i] ELSE t[i - Len(s)]
BY ConcatProperties

\* Counting on.
LEMMA CountOn ==
  ASSUME NEW n \in Nat, NEW s \in Seq(Token), NEW m \in Nat, m <= Len(s),
         \A i \in 1 .. m : s[i] = n + i - 1
  PROVE  SubSeq(Counting(n) \o s, 1, n + m) = Counting(n + m)
<1> DEFINE c == Counting(n)
           keys == c \o s
<1>1. c \in Seq(Token) /\ Len(c) = n /\ \A i \in 1 .. n : c[i] = i - 1
  BY CountingFacts
<1> HIDE DEF c
<1>2. /\ keys \in Seq(Token) /\ Len(s) \in Nat /\ Len(keys) = n + Len(s)
      /\ \A i \in 1 .. n + Len(s) : keys[i] = IF i <= n THEN c[i] ELSE s[i - n]
  BY <1>1, ConcatTokens, LenProperties
<1> HIDE DEF keys
<1>3. n + m \in Nat /\ n + m \in 0 .. Len(keys)
  BY <1>2
<1>4. SubSeq(keys, 1, n + m) \in Seq(Token) /\ Len(SubSeq(keys, 1, n + m)) = n + m
  BY <1>2, <1>3, PrefixFacts
<1>5. \A i \in 1 .. n + m : SubSeq(keys, 1, n + m)[i] = keys[i]
  <2>1. \A i \in 1 .. n + m : keys[i] \in Token
    BY <1>2, <1>3, ElementOfSeq
  <2> QED
    BY <1>3, <1>4, <2>1, SubSeqProperties
<1>6. \A i \in 1 .. n + m : keys[i] = i - 1
  <2> SUFFICES ASSUME NEW i \in 1 .. n + m PROVE keys[i] = i - 1
    OBVIOUS
  <2>1. i \in 1 .. n + Len(s)
    BY <1>2
  <2>2. CASE i <= n
    BY <1>1, <1>2, <2>1, <2>2
  <2>3. CASE ~ (i <= n)
    <3>1. i - n \in 1 .. m /\ keys[i] = s[i - n]
      BY <1>2, <2>1, <2>3
    <3>2. s[i - n] = n + (i - n) - 1
      BY <3>1
    <3> QED
      BY <3>1, <3>2
  <2> QED
    BY <2>2, <2>3
<1> QED
  BY <1>3, <1>4, <1>5, <1>6, Counts DEF keys, c

\* ... to the end.
LEMMA CountAll ==
  ASSUME NEW n \in Nat, NEW s \in Seq(Token), \A i \in 1 .. Len(s) : s[i] = n + i - 1
  PROVE  Counting(n) \o s = Counting(n + Len(s)) /\ Len(s) \in Nat
<1>1. Len(s) \in Nat
  BY LenProperties
<1>2. Counting(n) \in Seq(Token) /\ Len(Counting(n)) = n
  BY CountingFacts
<1>3. Counting(n) \o s \in Seq(Token) /\ Len(Counting(n) \o s) = n + Len(s)
  BY <1>2, ConcatTokens
<1>4. SubSeq(Counting(n) \o s, 1, n + Len(s)) = Counting(n) \o s
  BY <1>3, SubSeqFull
<1>5. SubSeq(Counting(n) \o s, 1, n + Len(s)) = Counting(n + Len(s))
  <2>1. PICK m \in Nat : m = Len(s)
    BY <1>1
  <2>2. m <= Len(s) /\ \A i \in 1 .. m : s[i] = n + i - 1
    BY <2>1
  <2>3. SubSeq(Counting(n) \o s, 1, n + m) = Counting(n + m)
    BY <2>2, CountOn, Zenon
  <2> QED
    BY <2>1, <2>3, Zenon
<1> QED
  BY <1>1, <1>4, <1>5

\* Row i of a pass with an exact cache sees an exact text when the tokens fed up
\* to it continue that text, and then it chooses the right token.
LEMMA RightRow ==
  ASSUME NEW n \in Nat, NEW fed \in Seq(Token), NEW i \in 1 .. Len(fed),
         \A j \in 1 .. i : fed[j] = n + j - 1
  PROVE  Chosen(Counting(n), fed, i, n + i) = {n + i}
<1>1. Len(fed) \in Nat /\ i \in Nat
  BY LenProperties
<1>2. Len(Counting(n) \o fed) = n + Len(fed)
  <2>1. Counting(n) \in Seq(Token) /\ Len(Counting(n)) = n
    BY CountingFacts
  <2> QED
    BY <2>1, ConcatTokens
<1>3. i + Offset(Len(Counting(n) \o fed), Len(fed)) = n + i
  BY <1>1, <1>2 DEF Offset
<1>4. Visible(Counting(n), fed, i) = SubSeq(Counting(n) \o fed, 1, n + i)
  BY <1>3, Zenon DEF Visible
<1>5. SubSeq(Counting(n) \o fed, 1, n + i) = Counting(n + i)
  <2>1. i \in Nat /\ i <= Len(fed)
    BY <1>1
  <2> QED
    BY <2>1, CountOn, Zenon
<1> QED
  BY <1>4, <1>5, Zenon DEF Chosen, Counting

\* Drafts that the target model agrees with, where it judges rightly behind right
\* drafts, are right.
JudgesRight(n, drafts, targets) ==
  \A i \in 1 .. Len(targets) :
    (\A j \in 1 .. i - 1 : drafts[j] = n + j - 1) => targets[i] = n + i - 1

LEMMA AgreedAreRight ==
  ASSUME NEW n \in Nat, NEW drafts \in Seq(Token), NEW targets \in Seq(Token),
         Len(targets) = Len(drafts) + 1, JudgesRight(n, drafts, targets),
         NEW k \in Nat, k <= Len(drafts), \A j \in 1 .. k : drafts[j] = targets[j]
  PROVE  (\A j \in 1 .. k : drafts[j] = n + j - 1) /\ targets[k + 1] = n + k
<1>1. Len(drafts) \in Nat
  BY LenProperties
<1>2. \A j \in 1 .. k : drafts[j] = n + j - 1
  <2> DEFINE T == {j \in 1 .. k : drafts[j] # n + j - 1}
  <2> SUFFICES ASSUME T # {} PROVE FALSE
    OBVIOUS
  <2>1. T \subseteq Nat
    OBVIOUS
  <2>2. PICK x \in T : \A y \in T : x <= y
    BY <2>1, LeastNumber, Zenon
  <2>3. x \in 1 .. k /\ drafts[x] # n + x - 1
    OBVIOUS
  <2>4. \A j \in 1 .. x - 1 : j \in 1 .. k /\ ~ (x <= j)
    BY <2>3
  <2>5. \A j \in 1 .. x - 1 : drafts[j] = n + j - 1
    BY <2>2, <2>4
  <2>6. x \in 1 .. Len(targets)
    BY <1>1, <2>3
  <2>7. targets[x] = n + x - 1
    BY <2>5, <2>6 DEF JudgesRight
  <2> QED
    BY <2>3, <2>7
<1>3. k + 1 \in 1 .. Len(targets) /\ (k + 1) - 1 = k
  BY <1>1
<1>4. targets[k + 1] = n + (k + 1) - 1
  BY <1>2, <1>3 DEF JudgesRight
<1> QED
  BY <1>2, <1>4

\* The accepted drafts are those before the first mismatch.
LEMMA AcceptedAgree ==
  ASSUME NEW drafts \in Seq(Token), NEW targets \in Seq(Token)
  PROVE  /\ Accepted(drafts, targets) \in Nat /\ Accepted(drafts, targets) <= Len(drafts)
         /\ \A j \in 1 .. Accepted(drafts, targets) : drafts[j] = targets[j]
<1> DEFINE S == {i \in 1 .. Len(drafts) : \A j \in 1 .. i : drafts[j] = targets[j]}
<1>1. S \subseteq 1 .. Len(drafts) /\ Len(drafts) \in Nat
  BY LenProperties
<1>2. \A i \in S : 1 .. i \subseteq S
  <2> SUFFICES ASSUME NEW i \in S, NEW j \in 1 .. i PROVE j \in S
    BY Zenon
  <2>1. i \in 1 .. Len(drafts) /\ \A h \in 1 .. i : drafts[h] = targets[h]
    OBVIOUS
  <2>2. j \in 1 .. Len(drafts) /\ \A h \in 1 .. j : h \in 1 .. i
    BY <1>1, <2>1
  <2> QED
    BY <2>1, <2>2
<1>3. \A i \in S : i \in 1 .. i /\ drafts[i] = targets[i]
  BY <1>1
<1>4. Accepted(drafts, targets) = Cardinality(S)
  BY DEF Accepted
<1> HIDE DEF S
<1>5. Cardinality(S) \in Nat /\ Cardinality(S) <= Len(drafts) /\ S = 1 .. Cardinality(S)
  BY <1>1, <1>2, InitialSegment
<1> QED
  BY <1>3, <1>4, <1>5

-----------------------------------------------------------------------------
(* Prefilling, pending, replying *)

Judging(r) == InStep(r, "validated") \/ InStep(r, "rejected")

\* A request is prefilled, then has a pending token, then a reply.
PhaseOK(r) ==
  LET s == state[r]
  IN /\ \/ s.prefilled < PromptLen[r] /\ s.pending = NoToken /\ s.generated = <<>>
        \/ s.prefilled = PromptLen[r] /\ s.pending # NoToken /\ s.generated = <<>>
        \/ s.prefilled = PromptLen[r] /\ s.pending = NoToken /\ s.generated # <<>>
     /\ Judging(r) => s.pending = NoToken

PhasesOK == \A q \in Owner : PhaseOK(q)

LEMMA PhaseStays ==
  ASSUME NEW r \in Owner, PhaseOK(r), SameReply(r), Judging(r)' => state[r].pending = NoToken
  PROVE  PhaseOK(r)'
BY DEF PhaseOK, SameReply

LEMMA OtherPhases ==
  ASSUME NEW r \in Owner, StepOf(r), NEW q \in Owner \ {r}, PhaseOK(q)
  PROVE  PhaseOK(q)'
BY DEF PhaseOK, StepOf, Judging, InStep, NoTurn

LEMMA NotJudging == turn' = NoTurn => \A q \in Owner : ~ Judging(q)'
BY DEF Judging, InStep, NoTurn

\* Tokens can only follow tokens, once there is nothing pending.
LEMMA BurstPhase ==
  ASSUME CountsOK, NEW r \in Owner, InDecode(r), NEW tokens \in Seq(Token), Len(tokens) >= 1,
         Burst(r, tokens), state'[r].pending = NoToken
  PROVE  PhaseOK(r)'
<1>1. PICK k \in 1 .. Len(tokens) : BurstOf(r, tokens, k)
  BY BurstFacts
<1>2. Len(state[r].generated) \in Nat /\ k \in Nat /\ k # 0
  BY LenProperties DEF CountsOK, StateOK
<1>3. state'[r].generated \in Seq(Token) /\ Len(state'[r].generated) = Len(state[r].generated) + k
  BY <1>1, Zenon DEF BurstOf
<1>4. state'[r].generated # <<>>
  BY <1>2, <1>3
<1>5. state'[r].prefilled = PromptLen[r]
  BY DEF Burst, InDecode
<1> QED
  BY <1>4, <1>5 DEF PhaseOK

LEMMA StepPhases == CountsOK /\ PhasesOK /\ [Next]_vars => PhasesOK'
<1> SUFFICES ASSUME CountsOK, PhasesOK, [Next]_vars PROVE PhasesOK'
  OBVIOUS
<1>1. ASSUME UNCHANGED vars \/ FreePage PROVE PhasesOK'
  <2>1. state' = state /\ turn' = turn
    BY <1>1 DEF vars, execVars, FreePage
  <2> QED
    BY <2>1 DEF PhasesOK, PhaseOK, Judging, InStep
<1>2. ASSUME NEW r \in Owner, StepOf(r), PhaseOK(r)' PROVE PhasesOK'
  BY <1>2, OtherPhases DEF PhasesOK
<1>3. ASSUME NEW r \in Owner, StepOf(r), SameReply(r), Judging(r)' => state[r].pending = NoToken
      PROVE  PhasesOK'
  BY <1>2, <1>3, PhaseStays DEF PhasesOK
<1>4. ASSUME NEW r \in Owner, StepOf(r), InDecode(r), state'[r].pending = NoToken,
             NEW tokens \in Seq(Token), Len(tokens) >= 1, Burst(r, tokens)
      PROVE  PhasesOK'
  BY <1>2, <1>4, BurstPhase
<1>5. ASSUME NEW r \in Owner, Prefill(r) PROVE PhasesOK'
  <2>1. /\ StepOf(r) /\ state'[r].generated = state[r].generated /\ turn' = NoTurn
        /\ state'[r].prefilled = state[r].prefilled + Chunk(r)
        /\ state[r].prefilled < PromptLen[r]
    BY <1>5, PrefillDoes
  <2>2. PICK t \in Chosen(state[r].past, ChunkOf(r), Chunk(r), state[r].prefilled + Chunk(r)) :
          state'[r].pending = IF state[r].prefilled + Chunk(r) = PromptLen[r]
                                THEN t ELSE state[r].pending
    BY <1>5, PrefillDoes
  <2>3. /\ state[r].prefilled + Chunk(r) \in Nat
        /\ state[r].prefilled + Chunk(r) <= PromptLen[r] /\ PromptLen[r] \in Nat
    BY <1>5, ChunkFacts, Constants DEF Prefill
  <2>4. t # NoToken
    BY <2>3 DEF Chosen, Wrong, NoToken
  <2>5. PhaseOK(r) /\ state[r].prefilled # PromptLen[r]
    BY <2>1, <2>3, Constants DEF PhasesOK, CountsOK, StateOK
  <2>6. state[r].generated = <<>> /\ state[r].pending = NoToken
    BY <2>5 DEF PhaseOK
  <2>7. ~ Judging(r)'
    BY <2>1, NotJudging
  <2>8. PhaseOK(r)'
    <3>1. CASE state[r].prefilled + Chunk(r) = PromptLen[r]
      BY <2>1, <2>2, <2>4, <2>6, <2>7, <3>1 DEF PhaseOK
    <3>2. CASE state[r].prefilled + Chunk(r) # PromptLen[r]
      <4>1. state'[r].prefilled < PromptLen[r]
        BY <2>1, <2>3, <3>2
      <4> QED
        BY <2>1, <2>2, <2>6, <2>7, <3>2, <4>1 DEF PhaseOK
    <3> QED
      BY <3>1, <3>2
  <2> QED
    BY <1>2, <2>1, <2>8
<1>6. ASSUME NEW r \in Owner, PrefillRaises(r) \/ DecodeRaises(r) PROVE PhasesOK'
  BY <1>3, <1>6, PassRaisesDoes, NotJudging DEF PrefillRaises, DecodeRaises
<1>7. ASSUME NEW r \in Owner, Reserve(r) PROVE PhasesOK'
  <2>1. state' = state /\ turn' = [step |-> "reserved", req |-> r]
    BY <1>7 DEF Reserve
  <2>2. StepOf(r) /\ SameReply(r) /\ ~ Judging(r)'
    BY <2>1 DEF StepOf, SameReply, Judging, InStep
  <2> QED
    BY <1>3, <2>2
<1>8. ASSUME NEW r \in Owner, Reject(r) PROVE PhasesOK'
  <2>1. state' = state /\ turn' = [turn EXCEPT !.step = "rejected"] /\ InStep(r, "validated")
    BY <1>8 DEF Reject
  <2>2. turn = Judged("validated", r, turn.drafts, turn.targets)
    BY <2>1, JudgedFacts
  <2>3. turn'.req = r
    BY <2>1, <2>2 DEF Judged
  <2>4. StepOf(r) /\ SameReply(r)
    BY <2>1, <2>3 DEF StepOf, SameReply
  <2>5. state[r].pending = NoToken
    BY <2>1 DEF PhasesOK, PhaseOK, Judging
  <2> QED
    BY <1>3, <2>4, <2>5
<1>9. ASSUME NEW r \in Owner, EmitPending(r) PROVE PhasesOK'
  <2> DEFINE tokens == <<state[r].pending>>
  <2>1. StepOf(r) /\ Burst(r, tokens) /\ state'[r].pending = NoToken
    BY <1>9, EmitDoes
  <2>2. InDecode(r) /\ tokens \in Seq(Token) /\ Len(tokens) >= 1
    BY <1>9, EmitTokens
  <2> QED
    BY <1>4, <2>1, <2>2, Zenon
<1>10. ASSUME NEW r \in Owner, DecodeNext(r) PROVE PhasesOK'
  <2>1. PICK t \in Chosen(state[r].past, <<LastToken(r)>>, 1, TokenCount(r)) :
          StepOf(r) /\ Burst(r, <<t>>) /\ state'[r].pending = state[r].pending
    BY <1>10, DecodeDoes
  <2>2. InDecode(r) /\ <<t>> \in Seq(Token) /\ Len(<<t>>) >= 1
    BY <1>10, DecodeTokens
  <2>3. state[r].pending = NoToken
    BY <1>10 DEF DecodeNext, DecodeBatch, HasPending
  <2> QED
    BY <1>4, <2>1, <2>2, <2>3, Zenon
<1>11. ASSUME NEW r \in Owner, DraftRaises(r) \/ ReplayRaises(r) PROVE PhasesOK'
  BY <1>3, <1>11, DraftRaisesDoes, ReplayRaisesDoes, NotJudging
<1>12. ASSUME NEW r \in Owner, Validate(r) \/ ValidateRaises(r) \/ RoundOverdraws(r) PROVE PhasesOK'
  <2>1. StepOf(r) /\ SameReply(r) /\ ~ HasPending(r)
    BY <1>12, RoundDoes DEF DraftedBy, SpecBatch
  <2> QED
    BY <1>3, <2>1 DEF HasPending
<1>13. ASSUME NEW r \in Owner, AcceptAll(r) PROVE PhasesOK'
  <2> DEFINE tokens == Append(turn.drafts, Last(turn.targets))
  <2>1. StepOf(r) /\ Burst(r, tokens) /\ state'[r].pending = state[r].pending
    BY <1>13, AcceptDoes
  <2>2. InDecode(r) /\ tokens \in Seq(Token) /\ Len(tokens) >= 1
    BY <1>13, AcceptTokens DEF AcceptAll
  <2>3. state[r].pending = NoToken
    BY <1>13 DEF AcceptAll, PhasesOK, PhaseOK, Judging
  <2> HIDE DEF tokens
  <2> QED
    BY <1>4, <2>1, <2>2, <2>3
<1>14. ASSUME NEW r \in Owner, Replay(r) PROVE PhasesOK'
  <2> DEFINE tokens == Corrected(turn.drafts, turn.targets)
  <2>1. StepOf(r) /\ Burst(r, tokens) /\ state'[r].pending = state[r].pending
    BY <1>14, ReplayDoes
  <2>2. InDecode(r) /\ tokens \in Seq(Token) /\ Len(tokens) >= 1
    BY <1>14, ReplayTokens DEF Replay, ReplayBatch
  <2>3. state[r].pending = NoToken
    BY <1>14 DEF Replay, ReplayBatch, PhasesOK, PhaseOK, Judging
  <2> HIDE DEF tokens
  <2> QED
    BY <1>4, <2>1, <2>2, <2>3
<1> QED
  BY <1>1, <1>5, <1>6, <1>7, <1>8, <1>9, <1>10, <1>11, <1>12, <1>13, <1>14 DEF Next

LEMMA InitPhases == Init => PhasesOK
<1> SUFFICES ASSUME Init, NEW r \in Owner PROVE PhaseOK(r)
  BY DEF PhasesOK
<1>1. state[r] = NewState /\ turn = NoTurn
  BY DEF Init
<1>2. 0 < PromptLen[r]
  BY Constants
<1> QED
  BY <1>1, <1>2 DEF PhaseOK, NewState, Judging, InStep, NoTurn

-----------------------------------------------------------------------------
(* The invariant *)

\* The tokens of r still count, and more may come.
Unharmed(r) == exact[r] > Len(state[r].generated) /\ ~ state[r].finished

\* All that the next token of r rests on is as it would be without a cache.
Sound(r) ==
  /\ HasPending(r) => state[r].pending = PromptLen[r]
  /\ ~ Judging(r) => state[r].past = Counting(FedLen(r))
  /\ InStep(r, "validated") => state[r].past = Counting(TokenCount(r)) \o turn.drafts
  /\ Judging(r) => JudgesRight(TokenCount(r), turn.drafts, turn.targets)

\* The first n tokens of a reply are the right ones.
RightUpTo(r, generated, n) ==
  \A i \in 1 .. Smaller(n, Len(generated)) : generated[i] = PromptLen[r] + i - 1

ExactOK(r) ==
  /\ exact[r] \in Int
  /\ RightUpTo(r, state[r].generated, exact[r])
  /\ Unharmed(r) => Sound(r)

ExactsOK == DOMAIN exact = Owner /\ \A q \in Owner : ExactOK(q)

LEMMA AllRight ==
  ASSUME NEW r \in Owner, StateOK(r), ExactOK(r), Unharmed(r)
  PROVE  \A i \in 1 .. Len(state[r].generated) : state[r].generated[i] = PromptLen[r] + i - 1
<1>1. Len(state[r].generated) \in Nat /\ exact[r] \in Int /\ exact[r] > Len(state[r].generated)
  BY CountFacts DEF ExactOK, Unharmed
<1>2. Smaller(exact[r], Len(state[r].generated)) = Len(state[r].generated)
  BY <1>1 DEF Smaller
<1> QED
  BY <1>2 DEF ExactOK, RightUpTo

\* A step of another request.
LEMMA OtherExacts ==
  ASSUME NEW r \in Owner, Acts(r), StepOf(r), NEW q \in Owner \ {r}, exact'[q] = exact[q], ExactOK(q)
  PROVE  ExactOK(q)'
<1>1. state'[q] = state[q] /\ ~ Judging(q) /\ ~ Judging(q)' /\ ~ InStep(q, "validated")'
  BY DEF StepOf, Acts, Judging, InStep, NoTurn
<1>2. FedLen(q)' = FedLen(q)
  BY <1>1, FedSame
<1>3. Sound(q) => Sound(q)'
  BY <1>1, <1>2 DEF Sound, HasPending
<1> QED
  BY <1>1, <1>3 DEF ExactOK, RightUpTo, Unharmed

\* A step that does not touch what the tokens of r rest on.
LEMMA ExactStays ==
  ASSUME NEW r \in Owner, ExactOK(r), SameReply(r), exact'[r] = exact[r],
         state'[r].past = state[r].past, ~ Judging(r), ~ Judging(r)'
  PROVE  ExactOK(r)'
<1>1. FedLen(r)' = FedLen(r)
  BY FedSame DEF SameReply
<1>2. Sound(r) => Sound(r)'
  BY <1>1 DEF SameReply, Sound, HasPending, Judging
<1> QED
  BY <1>2 DEF SameReply, ExactOK, RightUpTo, Unharmed

\* From here on the tokens of r do not count.
LEMMA ExactHarmed ==
  ASSUME CountsOK, NEW r \in Owner, ExactsOK, SameReply(r),
         exact' = [exact EXCEPT ![r] = Smaller(@, Len(state[r].generated))]
  PROVE  ExactOK(r)'
<1>1. /\ exact'[r] = Smaller(exact[r], Len(state[r].generated)) /\ exact[r] \in Int
      /\ RightUpTo(r, state[r].generated, exact[r])
      /\ Len(state[r].generated) \in Nat
  BY CountFacts DEF ExactsOK, ExactOK, CountsOK
<1>2. /\ exact'[r] \in Int /\ exact'[r] <= Len(state[r].generated)
      /\ Smaller(exact'[r], Len(state[r].generated)) = Smaller(exact[r], Len(state[r].generated))
  BY <1>1 DEF Smaller
<1>3. ~ Unharmed(r)'
  BY <1>1, <1>2 DEF SameReply, Unharmed
<1>4. RightUpTo(r, state'[r].generated, exact'[r])
  BY <1>1, <1>2 DEF SameReply, RightUpTo
<1> QED
  BY <1>2, <1>3, <1>4 DEF ExactOK, RightUpTo

\* What a request is fed next, once it has a reply.
LEMMA LastFacts ==
  ASSUME CountsOK, NEW r \in Owner, InDecode(r), PhaseOK(r), ~ HasPending(r)
  PROVE  /\ LastToken(r) = state[r].generated[Len(state[r].generated)]
         /\ LastToken(r) \in Token
         /\ Len(state[r].generated) \in Nat \ {0}
         /\ FedLen(r) = TokenCount(r) - 1 /\ TokenCount(r) - 1 \in Nat /\ TokenCount(r) \in Nat
<1>1. /\ state[r].generated \in Seq(Token) /\ Len(state[r].generated) \in Nat
      /\ state[r].prefilled = PromptLen[r] /\ StateOK(r)
  BY LenProperties DEF CountsOK, StateOK, InDecode
<1>2. state[r].generated # <<>>
  BY <1>1, Constants DEF PhaseOK, HasPending
<1>3. Len(state[r].generated) \in Nat \ {0}
  BY <1>1, <1>2, EmptySeq
<1>4. Len(state[r].generated) \in 1 .. Len(state[r].generated)
  BY <1>3
<1>5. state[r].generated[Len(state[r].generated)] \in Token
  BY <1>1, <1>4, ElementOfSeq
<1>6. TokenCount(r) \in Nat \ {0} /\ FedLen(r) = TokenCount(r) - 1
  BY <1>1, <1>2, CountFacts DEF FedLen
<1> QED
  BY <1>3, <1>5, <1>6 DEF LastToken, Last

LEMMA LastRight ==
  ASSUME CountsOK, NEW r \in Owner, InDecode(r), PhaseOK(r), ~ HasPending(r), ExactOK(r), Unharmed(r)
  PROVE  LastToken(r) = TokenCount(r) - 1
<1>1. /\ LastToken(r) = state[r].generated[Len(state[r].generated)]
      /\ Len(state[r].generated) \in Nat \ {0}
  BY LastFacts
<1>2. state[r].generated[Len(state[r].generated)] = PromptLen[r] + Len(state[r].generated) - 1
  <2>1. Len(state[r].generated) \in 1 .. Len(state[r].generated)
    BY <1>1
  <2> QED
    BY <2>1, AllRight DEF CountsOK
<1>3. TokenCount(r) - 1 = PromptLen[r] + Len(state[r].generated) - 1
  BY <1>1, Constants DEF TokenCount
<1> QED
  BY <1>1, <1>2, <1>3

\* A burst of right tokens, if those before it were.
LEMMA RightBurst ==
  ASSUME CountsOK, NEW r \in Owner, InDecode(r), ExactOK(r),
         NEW tokens \in Seq(Token), NEW k \in 1 .. Len(tokens), BurstOf(r, tokens, k),
         Unharmed(r) => \A j \in 1 .. k : tokens[j] = TokenCount(r) + j - 1,
         exact'[r] \in Int, exact'[r] <= exact[r]
  PROVE  RightUpTo(r, state'[r].generated, exact'[r])
<1> DEFINE g == state[r].generated
           h == state'[r].generated
           old == Len(g)
<1>1. g \in Seq(Token) /\ old \in Nat /\ exact[r] \in Int /\ k \in Nat /\ PromptLen[r] \in Nat
      /\ ~ state[r].finished /\ StateOK(r)
  BY LenProperties, Constants DEF CountsOK, StateOK, ExactOK, InDecode
<1>2. /\ Len(h) = old + k
      /\ \A i \in 1 .. old : h[i] = g[i]
      /\ \A j \in 1 .. k : h[old + j] = tokens[j]
  BY DEF BurstOf
<1>3. RightUpTo(r, g, exact[r])
  BY DEF ExactOK
<1>4. CASE exact[r] <= old
  <2>1. Smaller(exact'[r], Len(h)) = exact'[r] /\ Smaller(exact[r], old) = exact[r]
    BY <1>1, <1>2, <1>4 DEF Smaller
  <2>2. \A i \in 1 .. exact'[r] : i \in 1 .. exact[r] /\ i \in 1 .. old
    BY <1>1, <1>4
  <2>3. \A i \in 1 .. exact[r] : g[i] = PromptLen[r] + i - 1
    BY <1>3, <2>1 DEF RightUpTo
  <2> HIDE DEF g, h, old
  <2>4. \A i \in 1 .. exact'[r] : h[i] = PromptLen[r] + i - 1
    BY <1>2, <2>2, <2>3, Zenon
  <2> QED
    BY <2>1, <2>4, Zenon DEF RightUpTo, h
<1>5. CASE ~ (exact[r] <= old)
  <2>1. Unharmed(r)
    BY <1>1, <1>5 DEF Unharmed
  <2>2. \A i \in 1 .. old : g[i] = PromptLen[r] + i - 1
    BY <1>1, <2>1, AllRight
  <2>3. TokenCount(r) = PromptLen[r] + old
    BY DEF TokenCount
  <2>4. \A j \in 1 .. k : tokens[j] = TokenCount(r) + j - 1
    BY <2>1
  <2> HIDE DEF g, h, old
  <2>5. \A i \in 1 .. old + k : h[i] = PromptLen[r] + i - 1
    <3> SUFFICES ASSUME NEW i \in 1 .. old + k PROVE h[i] = PromptLen[r] + i - 1
      OBVIOUS
    <3>1. old \in Nat
      BY <1>1 DEF old
    <3>2. CASE i <= old
      BY <1>2, <2>2, <3>1, <3>2
    <3>3. CASE ~ (i <= old)
      <4>1. PICK j \in 1 .. k : i = old + j
        <5>1. i - old \in 1 .. k /\ i = old + (i - old)
          BY <1>1, <3>1, <3>3
        <5> QED
          BY <5>1
      <4>2. h[old + j] = tokens[j] /\ tokens[j] = TokenCount(r) + j - 1
        BY <1>2, <2>4
      <4>3. TokenCount(r) + j - 1 = PromptLen[r] + (old + j) - 1
        BY <1>1, <2>3, <3>1
      <4> QED
        BY <4>1, <4>2, <4>3
    <3> QED
      BY <3>2, <3>3
  <2>6. \A i \in 1 .. Smaller(exact'[r], Len(h)) : i \in 1 .. old + k
    <3>1. old \in Nat /\ Len(h) = old + k
      BY <1>1, <1>2 DEF old
    <3> QED
      BY <1>1, <3>1 DEF Smaller
  <2> QED
    BY <2>5, <2>6, Zenon DEF RightUpTo, h
<1> QED
  BY <1>4, <1>5

\* The counts after a burst.
LEMMA BurstCounts ==
  ASSUME CountsOK, NEW r \in Owner, InDecode(r), NEW tokens \in Seq(Token),
         NEW k \in 1 .. Len(tokens), BurstOf(r, tokens, k)
  PROVE  /\ TokenCount(r)' = TokenCount(r) + k
         /\ FedLen(r)' = TokenCount(r) + k - 1
         /\ TokenCount(r) \in Nat /\ k \in Nat
         /\ Len(state'[r].generated) = Len(state[r].generated) + k
         /\ Len(state[r].generated) \in Nat
         /\ \A n \in Int : n > Len(state'[r].generated) => n > Len(state[r].generated)
<1>1. /\ StateOK(r) /\ Len(state[r].generated) \in Nat /\ k \in Nat /\ k # 0
      /\ PromptLen[r] \in Nat
  BY CountFacts, Constants DEF CountsOK
<1>2. state'[r].generated \in Seq(Token) /\ Len(state'[r].generated) = Len(state[r].generated) + k
  BY Zenon DEF BurstOf
<1>3. /\ TokenCount(r)' = PromptLen[r] + Len(state'[r].generated)
      /\ TokenCount(r) = PromptLen[r] + Len(state[r].generated)
  BY DEF TokenCount
<1>4. state'[r].generated # <<>>
  <2>1. Len(state'[r].generated) # 0
    BY <1>1, <1>2
  <2> QED
    BY <2>1
<1>5. FedLen(r)' = TokenCount(r)' - 1
  BY <1>4 DEF FedLen
<1>6. TokenCount(r)' = TokenCount(r) + k
  BY <1>1, <1>2, <1>3
<1> QED
  BY <1>1, <1>2, <1>3, <1>5, <1>6

-----------------------------------------------------------------------------
(* The steps *)

\* What holds between the steps, for the proofs about one of them.
TextOK == CountsOK /\ PhasesOK /\ ExactsOK

LEMMA OneExact ==
  ASSUME TextOK, NEW r \in Owner, Acts(r), StepOf(r), ExactOK(r)',
         exact' = exact \/ \E n : exact' = [exact EXCEPT ![r] = n]
  PROVE  ExactsOK'
<1>1. DOMAIN exact' = Owner /\ \A q \in Owner \ {r} : exact'[q] = exact[q]
  BY DEF TextOK, ExactsOK
<1>2. \A q \in Owner \ {r} : ExactOK(q)'
  BY <1>1, OtherExacts DEF TextOK, ExactsOK
<1> QED
  BY <1>1, <1>2 DEF ExactsOK

\* The next chunk of a prompt.
LEMMA ChunkCounts ==
  ASSUME CountsOK, NEW r \in Owner, state[r].prefilled < PromptLen[r]
  PROVE  /\ state[r].prefilled \in Nat /\ Chunk(r) \in Nat \ {0}
         /\ state[r].prefilled + Chunk(r) <= PromptLen[r]
         /\ ChunkOf(r) \in Seq(Token) /\ Len(ChunkOf(r)) = Chunk(r)
         /\ \A j \in 1 .. Chunk(r) : ChunkOf(r)[j] = state[r].prefilled + j - 1
<1> DEFINE n == state[r].prefilled
           m == Chunk(r)
           p == Prompt(r)
           fed == SubSeq(p, n + 1, n + m)
<1>1. n \in Nat /\ m \in Nat \ {0} /\ n + m <= PromptLen[r] /\ PromptLen[r] \in Nat
  BY Constants DEF CountsOK, StateOK, Chunk, Smaller
<1>2. p \in Seq(Token) /\ Len(p) = PromptLen[r] /\ \A i \in 1 .. Len(p) : p[i] = i - 1
  <2>1. p \in [1 .. PromptLen[r] -> Token]
    BY <1>1 DEF Prompt, Token
  <2>2. p \in Seq(Token) /\ Len(p) = PromptLen[r]
    BY <1>1, <2>1, SeqDef, LenProperties
  <2> QED
    BY <2>2 DEF Prompt
<1>3. ChunkOf(r) = fed
  BY DEF ChunkOf
<1> HIDE DEF n, m, p
<1>4. \A i \in n + 1 .. n + m : p[i] \in Token /\ p[i] = i - 1
  BY <1>1, <1>2, ElementOfSeq
<1>5. fed \in Seq(Token) /\ Len(fed) = m /\ \A i \in 1 .. m : fed[i] = p[n + i]
  <2>1. n + 1 \in Int /\ n + m \in Int /\ n + 1 <= n + m
    BY <1>1
  <2>2. /\ fed \in Seq(Token)
        /\ Len(fed) = IF n + 1 <= n + m THEN (n + m) - (n + 1) + 1 ELSE 0
        /\ \A i \in 1 .. (n + m) - (n + 1) + 1 : fed[i] = p[(n + 1) + i - 1]
    BY <1>4, <2>1, SubSeqProperties
  <2>3. (n + m) - (n + 1) + 1 = m /\ \A i \in 1 .. m : (n + 1) + i - 1 = n + i
    BY <1>1
  <2> QED
    BY <2>1, <2>2, <2>3
<1> HIDE DEF fed
<1>6. \A j \in 1 .. m : fed[j] = n + j - 1
  <2> SUFFICES ASSUME NEW j \in 1 .. m PROVE fed[j] = n + j - 1
    OBVIOUS
  <2>1. n + j \in n + 1 .. n + m /\ (n + j) - 1 = n + j - 1
    BY <1>1
  <2>2. p[n + j] = (n + j) - 1
    BY <1>4, <2>1, Zenon
  <2>3. fed[j] = p[n + j]
    BY <1>5
  <2> QED
    BY <2>1, <2>2, <2>3
<1> QED
  BY <1>1, <1>3, <1>5, <1>6 DEF n, m

LEMMA PrefillExact ==
  ASSUME TextOK, NEW r \in Owner, Prefill(r)
  PROVE  ExactsOK'
<1> DEFINE n == state[r].prefilled
           m == Chunk(r)
<1>1. /\ StepOf(r) /\ turn = NoTurn /\ turn' = NoTurn
      /\ state'[r].generated = state[r].generated /\ state'[r].finished = state[r].finished
      /\ state'[r].past = state[r].past \o ChunkOf(r)
      /\ state'[r].prefilled = n + m
      /\ n < PromptLen[r]
  BY PrefillDoes DEF TextOK
<1>2. PICK t \in Chosen(state[r].past, ChunkOf(r), m, n + m) :
        state'[r].pending = IF n + m = PromptLen[r] THEN t ELSE state[r].pending
  BY PrefillDoes DEF TextOK
<1>3. exact' = exact
  BY DEF Prefill
<1>4. /\ n \in Nat /\ m \in Nat \ {0} /\ n + m <= PromptLen[r] /\ PromptLen[r] \in Nat
      /\ PhaseOK(r) /\ ExactOK(r)
  BY <1>1, Constants DEF TextOK, CountsOK, PhasesOK, ExactsOK, StateOK, Chunk, Smaller
<1>5. state[r].generated = <<>> /\ state[r].pending = NoToken
  BY <1>1, <1>4 DEF PhaseOK
<1>6. ~ Judging(r) /\ ~ Judging(r)' /\ ~ InStep(r, "validated")'
  BY <1>1 DEF Judging, InStep, NoTurn
<1>7. FedLen(r) = n /\ FedLen(r)' = n + m
  BY <1>1, <1>5 DEF FedLen
<1>8. Unharmed(r)' => Unharmed(r)
  BY <1>1, <1>3 DEF Unharmed
<1>9. ASSUME Unharmed(r) PROVE Sound(r)'
  <2>1. state[r].past = Counting(n)
    BY <1>4, <1>6, <1>7, <1>9 DEF ExactOK, Sound
  <2> DEFINE fed == ChunkOf(r)
  <2>2. fed \in Seq(Token) /\ Len(fed) = m /\ \A j \in 1 .. m : fed[j] = n + j - 1
    BY <1>1, ChunkCounts DEF TextOK
  <2> HIDE DEF n, m, fed
  <2>3. Chosen(Counting(n), fed, m, n + m) = {n + m}
    <3>1. m \in 1 .. Len(fed)
      BY <1>4, <2>2
    <3> QED
      BY <1>4, <2>2, <3>1, RightRow
  <2>4. Counting(n) \o fed = Counting(n + m)
    BY <1>4, <2>2, CountAll
  <2>5. state'[r].past = Counting(FedLen(r)')
    BY <1>1, <1>7, <2>1, <2>4 DEF fed, n, m
  <2>6. state'[r].pending # NoToken => state'[r].pending = PromptLen[r]
    <3>1. t = n + m
      BY <1>2, <2>1, <2>3 DEF n, m, fed
    <3> QED
      BY <1>2, <1>5, <3>1 DEF n, m
  <2> QED
    BY <1>6, <2>5, <2>6 DEF Sound, HasPending
<1>10. ExactOK(r)'
  BY <1>1, <1>3, <1>4, <1>8, <1>9 DEF ExactOK, RightUpTo
<1> QED
  BY <1>1, <1>3, <1>10, OneExact DEF Acts

\* A step that ends a turn of r in which nothing has been judged.
LEMMA QuietExact ==
  ASSUME TextOK, NEW r \in Owner, Acts(r), ~ Judging(r), StepOf(r), SameReply(r), turn' = NoTurn,
         \/ exact' = exact /\ state'[r].past = state[r].past
         \/ exact' = [exact EXCEPT ![r] = Smaller(@, Len(state[r].generated))]
  PROVE  ExactsOK'
<1>1. ExactOK(r) /\ DOMAIN exact = Owner
  BY DEF TextOK, ExactsOK
<1>2. ExactOK(r)'
  <2>1. CASE exact' = exact /\ state'[r].past = state[r].past
    BY <1>1, <2>1, ExactStays, NotJudging
  <2>2. CASE exact' = [exact EXCEPT ![r] = Smaller(@, Len(state[r].generated))]
    BY <2>2, ExactHarmed DEF TextOK
  <2> QED
    BY <2>1, <2>2
<1> QED
  BY <1>2, OneExact

LEMMA RaisedExact ==
  ASSUME TextOK, NEW r \in Owner, PrefillRaises(r) \/ DecodeRaises(r)
  PROVE  ExactsOK'
<1>1. \E start, fed : PassRaises(r, start, fed)
  BY DEF PrefillRaises, DecodeRaises
<1>2. /\ StepOf(r) /\ SameReply(r) /\ turn' = NoTurn
      /\ \/ exact' = exact /\ state'[r].past = state[r].past
         \/ exact' = [exact EXCEPT ![r] = Smaller(@, Len(state[r].generated))]
  BY <1>1, PassRaisesDoes DEF TextOK, Harm, HarmAfter
<1>3. Acts(r) /\ ~ Judging(r)
  BY DEF PrefillRaises, PrefillBatch, DecodeRaises, DecodeBatch, Reserved, Acts, Judging, InStep, NoTurn
<1> QED
  BY <1>2, <1>3, QuietExact

LEMMA ReserveExact ==
  ASSUME TextOK, NEW r \in Owner, Reserve(r)
  PROVE  ExactsOK'
<1>1. /\ state' = state /\ exact' = exact /\ turn = NoTurn
      /\ turn' = [step |-> "reserved", req |-> r]
  BY DEF Reserve
<1>2. StepOf(r) /\ SameReply(r) /\ Acts(r) /\ ~ Judging(r) /\ ~ Judging(r)'
  BY <1>1 DEF StepOf, SameReply, Acts, Judging, InStep, NoTurn
<1>3. ExactOK(r)'
  BY <1>1, <1>2, ExactStays DEF TextOK, ExactsOK
<1> QED
  BY <1>1, <1>2, <1>3, OneExact

LEMMA OneTokenBurst ==
  ASSUME CountsOK, NEW r \in Owner, InDecode(r), NEW t \in Token, Burst(r, <<t>>)
  PROVE  BurstOf(r, <<t>>, 1) /\ <<t>> \in Seq(Token) /\ 1 \in 1 .. Len(<<t>>)
         /\ \A j \in 1 .. 1 : <<t>>[j] = t
<1> DEFINE tokens == <<t>>
<1>1. tokens \in Seq(Token) /\ Len(tokens) = 1 /\ tokens[1] = t
  OBVIOUS
<1>2. Burst(r, tokens)
  OBVIOUS
<1> HIDE DEF tokens
<1>3. \E k \in 1 .. Len(tokens) : BurstOf(r, tokens, k)
  <2>1. Len(tokens) >= 1
    BY <1>1
  <2> QED
    BY <1>1, <1>2, <2>1, BurstFacts, Zenon
<1>4. \A k \in 1 .. Len(tokens) : k = 1
  BY <1>1
<1>5. /\ BurstOf(r, tokens, 1) /\ tokens \in Seq(Token) /\ 1 \in 1 .. Len(tokens)
      /\ \A j \in 1 .. 1 : tokens[j] = t
  BY <1>1, <1>3, <1>4
<1> QED
  BY <1>5 DEF tokens

\* What is right after one more token.
LEMMA OneTokenExact ==
  ASSUME TextOK, NEW r \in Owner, InDecode(r), ~ Judging(r), Acts(r), StepOf(r), exact' = exact,
         NEW t \in Token, Burst(r, <<t>>), state'[r].pending = NoToken,
         Unharmed(r) => t = TokenCount(r) /\ state'[r].past = Counting(TokenCount(r))
  PROVE  ExactsOK'
<1>1. ExactOK(r) /\ CountsOK
  BY DEF TextOK, ExactsOK
<1>2. BurstOf(r, <<t>>, 1) /\ <<t>> \in Seq(Token) /\ 1 \in 1 .. Len(<<t>>)
      /\ \A j \in 1 .. 1 : <<t>>[j] = t
  BY <1>1, OneTokenBurst
<1>3. /\ FedLen(r)' = TokenCount(r) + 1 - 1 /\ TokenCount(r) \in Nat
      /\ \A n \in Int : n > Len(state'[r].generated) => n > Len(state[r].generated)
  BY <1>1, <1>2, BurstCounts
<1>4. FedLen(r)' = TokenCount(r)
  BY <1>3
<1>5. turn' = NoTurn
  BY DEF Burst
<1>6. Unharmed(r) => \A j \in 1 .. 1 : <<t>>[j] = TokenCount(r) + j - 1
  BY <1>2, <1>3
<1>7. exact'[r] \in Int /\ exact'[r] <= exact[r]
  BY <1>1 DEF ExactOK
<1>8. RightUpTo(r, state'[r].generated, exact'[r])
  BY <1>1, <1>2, <1>6, <1>7, RightBurst
<1>9. Unharmed(r)' => Unharmed(r)
  BY <1>1, <1>3 DEF Unharmed, ExactOK, InDecode
<1>10. Unharmed(r) => Sound(r)'
  BY <1>4, <1>5, NotJudging DEF Sound, HasPending, Judging
<1>11. ExactOK(r)'
  BY <1>7, <1>8, <1>9, <1>10 DEF ExactOK, RightUpTo
<1> QED
  BY <1>11, OneExact

LEMMA EmitExact ==
  ASSUME TextOK, NEW r \in Owner, EmitPending(r)
  PROVE  ExactsOK'
<1>1. /\ StepOf(r) /\ Burst(r, <<state[r].pending>>)
      /\ state'[r].past = state[r].past /\ state'[r].pending = NoToken
  BY EmitDoes DEF TextOK
<1>2. InDecode(r) /\ state[r].pending \in Token
  BY EmitTokens DEF TextOK
<1>3. exact' = exact /\ HasPending(r) /\ Acts(r) /\ ~ Judging(r)
  BY DEF EmitPending, Reserved, Acts, Judging, InStep
<1>4. PhaseOK(r) /\ ExactOK(r) /\ PromptLen[r] \in Nat
  BY Constants DEF TextOK, PhasesOK, ExactsOK
<1>5. state[r].generated = <<>> /\ state[r].prefilled = PromptLen[r]
  BY <1>3, <1>4 DEF PhaseOK, HasPending
<1>6. TokenCount(r) = PromptLen[r] /\ FedLen(r) = PromptLen[r]
  <2>1. Len(state[r].generated) = 0
    BY <1>5
  <2> QED
    BY <1>4, <1>5, <2>1 DEF TokenCount, FedLen
<1>7. Unharmed(r) => state[r].pending = TokenCount(r) /\ state'[r].past = Counting(TokenCount(r))
  BY <1>1, <1>3, <1>4, <1>6 DEF ExactOK, Sound
<1> QED
  BY <1>1, <1>2, <1>3, <1>7, OneTokenExact

LEMMA DecodeExact ==
  ASSUME TextOK, NEW r \in Owner, DecodeNext(r)
  PROVE  ExactsOK'
<1> DEFINE last == LastToken(r)
           n == TokenCount(r) - 1
<1>1. PICK t \in Chosen(state[r].past, <<last>>, 1, TokenCount(r)) :
        /\ StepOf(r) /\ Burst(r, <<t>>)
        /\ state'[r].past = state[r].past \o <<last>> /\ state'[r].pending = state[r].pending
  BY DecodeDoes DEF TextOK
<1>2. InDecode(r) /\ t \in Token
  BY DecodeTokens DEF TextOK
<1>3. exact' = exact /\ ~ HasPending(r) /\ Acts(r) /\ ~ Judging(r)
  BY DEF DecodeNext, DecodeBatch, Reserved, Acts, Judging, InStep
<1>4. PhaseOK(r) /\ ExactOK(r) /\ CountsOK
  BY DEF TextOK, PhasesOK, ExactsOK
<1>5. last \in Token /\ FedLen(r) = n /\ n \in Nat /\ TokenCount(r) = n + 1
  BY <1>2, <1>3, <1>4, LastFacts
<1>6. ASSUME Unharmed(r) PROVE t = TokenCount(r) /\ state'[r].past = Counting(TokenCount(r))
  <2>1. last = n
    BY <1>2, <1>3, <1>4, <1>6, LastRight
  <2>2. state[r].past = Counting(n)
    BY <1>3, <1>4, <1>5, <1>6 DEF ExactOK, Sound
  <2> HIDE DEF last, n
  <2>3. <<last>> \in Seq(Token) /\ Len(<<last>>) = 1 /\ <<last>>[1] = last
    BY <1>5
  <2>4. /\ \A j \in 1 .. 1 : <<last>>[j] = n + j - 1
        /\ 1 \in 1 .. Len(<<last>>)
    BY <1>5, <2>1, <2>3
  <2>5. Chosen(Counting(n), <<last>>, 1, n + 1) = {n + 1}
    BY <1>5, <2>3, <2>4, RightRow, ZenonT(40)
  <2>6. Counting(n) \o <<last>> = Counting(n + 1)
    <3>1. \A j \in 1 .. Len(<<last>>) : <<last>>[j] = n + j - 1
      BY <2>3, <2>4
    <3> QED
      BY <1>5, <2>3, <3>1, CountAll
  <2> QED
    BY <1>1, <1>5, <2>2, <2>5, <2>6
<1> HIDE DEF last, n
<1>7. state'[r].pending = NoToken
  BY <1>1, <1>3 DEF HasPending
<1> QED
  BY <1>1, <1>2, <1>3, <1>6, <1>7, OneTokenExact

LEMMA BrokenOffExact ==
  ASSUME TextOK, NEW r \in Owner, DraftRaises(r) \/ RoundOverdraws(r) \/ ValidateRaises(r)
  PROVE  ExactsOK'
<1>1. CountsOK /\ SpecBatch(r)
  BY DEF TextOK, SpecBatch, DraftRaises, RoundOverdraws, ValidateRaises
<1>2. Acts(r) /\ ~ Judging(r)
  BY <1>1 DEF SpecBatch, Reserved, Acts, Judging, InStep
<1>3. ASSUME DraftRaises(r) PROVE ExactsOK'
  <2>1. /\ StepOf(r) /\ SameReply(r) /\ turn' = NoTurn /\ state'[r].past = state[r].past
        /\ exact' = exact
    BY <1>1, <1>3, DraftRaisesDoes DEF DraftRaises
  <2> QED
    BY <1>2, <2>1, QuietExact
<1>4. ASSUME RoundOverdraws(r) \/ ValidateRaises(r) PROVE ExactsOK'
  <2>1. StepOf(r) /\ SameReply(r) /\ turn' = NoTurn
    BY <1>1, <1>4, RoundDoes DEF DraftedBy, RoundOverdraws, ValidateRaises
  <2>2. \/ exact' = exact /\ \E drafts : state' = [state EXCEPT ![r] = Drafted(r, drafts)]
        \/ exact' = [exact EXCEPT ![r] = Smaller(@, Len(state[r].generated))]
    BY <1>4 DEF RoundOverdraws, ValidateRaises, Harm, HarmAfter
  <2>3. \/ exact' = exact /\ state'[r].past = state[r].past
        \/ exact' = [exact EXCEPT ![r] = Smaller(@, Len(state[r].generated))]
    BY <1>1, <2>2, DraftedDoes
  <2> QED
    BY <1>2, <2>1, <2>3, QuietExact
<1> QED
  BY <1>3, <1>4

\* A text, its next token and the drafts behind it.
LEMMA CountThrough ==
  ASSUME NEW n \in Nat, NEW drafts \in Seq(Token)
  PROVE  LET fed == <<n>> \o drafts
         IN /\ fed \in Seq(Token) /\ Len(fed) = Len(drafts) + 1 /\ Len(drafts) \in Nat
            /\ fed[1] = n /\ \A j \in 1 .. Len(drafts) : fed[j + 1] = drafts[j]
            /\ Counting(n) \o fed = Counting(n + 1) \o drafts
<1> DEFINE one == <<n>>
           fed == one \o drafts
           c == Counting(n)
           more == Counting(n + 1)
<1>1. one \in Seq(Token) /\ Len(one) = 1 /\ one[1] = n
  BY DEF Token
<1>2. /\ c \in Seq(Token) /\ Len(c) = n
      /\ more \in Seq(Token)
      /\ Len(drafts) \in Nat
  BY CountingFacts, LenProperties
<1>3. c \o one = more
  <2>1. \A j \in 1 .. Len(one) : one[j] = n + j - 1
    BY <1>1
  <2> HIDE DEF one
  <2> QED
    BY <1>1, <2>1, CountAll
<1> HIDE DEF one, c, more
<1>4. /\ fed \in Seq(Token) /\ Len(fed) = Len(drafts) + 1
      /\ \A i \in 1 .. 1 + Len(drafts) : fed[i] = IF i <= 1 THEN one[i] ELSE drafts[i - 1]
  <2>1. /\ fed \in Seq(Token) /\ Len(fed) = Len(one) + Len(drafts)
        /\ \A i \in 1 .. Len(one) + Len(drafts) :
             fed[i] = IF i <= Len(one) THEN one[i] ELSE drafts[i - Len(one)]
    BY <1>1, ConcatTokens, Zenon
  <2> HIDE DEF fed
  <2> QED
    BY <1>1, <1>2, <2>1
<1>5. fed[1] = n
  BY <1>1, <1>2, <1>4
<1>6. \A j \in 1 .. Len(drafts) : fed[j + 1] = drafts[j]
  <2> HIDE DEF fed
  <2> SUFFICES ASSUME NEW j \in 1 .. Len(drafts) PROVE fed[j + 1] = drafts[j]
    OBVIOUS
  <2>1. j + 1 \in 1 .. 1 + Len(drafts) /\ ~ (j + 1 <= 1) /\ (j + 1) - 1 = j
    BY <1>2
  <2> QED
    BY <1>4, <2>1
<1>7. c \o fed = more \o drafts
  <2>1. (c \o one) \o drafts = c \o (one \o drafts)
    BY <1>1, <1>2, ConcatAssociative, SMTT(30)
  <2> QED
    BY <1>3, <2>1, Zenon
<1> QED
  BY <1>2, <1>4, <1>5, <1>6, <1>7 DEF one, fed, c, more

\* Drafts up to a row are right, so the row is.
LEMMA RowsJudge ==
  ASSUME NEW n \in Nat, NEW drafts \in Seq(Token), NEW targets,
         Len(targets) = Len(drafts) + 1,
         \A i \in 1 .. Len(targets) :
           targets[i] \in Chosen(Counting(n), <<n>> \o drafts, i, n + i)
  PROVE  JudgesRight(n + 1, drafts, targets)
<1> DEFINE fed == <<n>> \o drafts
<1>1. /\ fed \in Seq(Token) /\ Len(fed) = Len(drafts) + 1 /\ Len(drafts) \in Nat
      /\ fed[1] = n /\ \A j \in 1 .. Len(drafts) : fed[j + 1] = drafts[j]
  BY CountThrough
<1>2. \A i \in 1 .. Len(targets) : targets[i] \in Chosen(Counting(n), fed, i, n + i)
  OBVIOUS
<1> HIDE DEF fed
<1>3. ASSUME NEW i \in 1 .. Len(targets), \A j \in 1 .. i - 1 : drafts[j] = (n + 1) + j - 1
      PROVE  targets[i] = (n + 1) + i - 1
  <2>1. i \in 1 .. Len(fed)
    BY <1>1
  <2>2. \A j \in 1 .. i : fed[j] = n + j - 1
    <3> SUFFICES ASSUME NEW j \in 1 .. i PROVE fed[j] = n + j - 1
      OBVIOUS
    <3>1. CASE j = 1
      BY <1>1, <3>1
    <3>2. CASE j # 1
      <4>1. j - 1 \in 1 .. i - 1 /\ j - 1 \in 1 .. Len(drafts) /\ (j - 1) + 1 = j
            /\ (n + 1) + (j - 1) - 1 = n + j - 1
        BY <1>1, <3>2
      <4>2. fed[(j - 1) + 1] = drafts[j - 1]
        BY <1>1, <4>1, Zenon
      <4>3. drafts[j - 1] = (n + 1) + (j - 1) - 1
        BY <1>3, <4>1, Zenon
      <4> QED
        BY <4>1, <4>2, <4>3
    <3> QED
      BY <3>1, <3>2
  <2>3. Chosen(Counting(n), fed, i, n + i) = {n + i}
    BY <1>1, <2>1, <2>2, RightRow, ZenonT(40)
  <2>4. targets[i] = n + i /\ n + i = (n + 1) + i - 1
    BY <1>2, <2>3
  <2> QED
    BY <2>4
<1> QED
  BY <1>3, Zenon DEF JudgesRight

LEMMA ValidateExact ==
  ASSUME TextOK, NEW r \in Owner, Validate(r)
  PROVE  ExactsOK'
<1> DEFINE last == LastToken(r)
           n == TokenCount(r) - 1
<1>1. CountsOK /\ PhaseOK(r) /\ ExactOK(r) /\ exact' = exact /\ SpecBatch(r)
  BY DEF TextOK, PhasesOK, ExactsOK, Validate
<1>2. PICK drafts \in Drafts(r) :
        /\ state' = [state EXCEPT ![r] = [Drafted(r, drafts) EXCEPT !.past = @ \o (<<last>> \o drafts)]]
        /\ \E targets \in [1 .. Len(<<last>> \o drafts) ->
                             {Wrong} \cup {TokenCount(r) + i - 1 : i \in 1 .. Len(<<last>> \o drafts)}] :
             /\ \A i \in 1 .. Len(<<last>> \o drafts) :
                  targets[i] \in Chosen(state[r].past, <<last>> \o drafts, i, TokenCount(r) + i - 1)
             /\ turn' = Judged("validated", r, drafts, targets)
  BY DEF Validate, Judged
<1> DEFINE fed == <<last>> \o drafts
<1>3. /\ InDecode(r) /\ drafts \in Seq(Token)
      /\ last \in Token /\ FedLen(r) = n /\ n \in Nat /\ TokenCount(r) = n + 1
      /\ ~ HasPending(r)
  <2>1. InDecode(r) /\ drafts \in Seq(Token) /\ ~ HasPending(r)
    BY <1>1, ProposedFacts DEF SpecBatch
  <2> QED
    BY <1>1, <2>1, LastFacts
<1>4. PICK targets \in [1 .. Len(fed) -> {Wrong} \cup {TokenCount(r) + i - 1 : i \in 1 .. Len(fed)}] :
        /\ \A i \in 1 .. Len(fed) :
             targets[i] \in Chosen(state[r].past, fed, i, TokenCount(r) + i - 1)
        /\ turn' = Judged("validated", r, drafts, targets)
  BY <1>2
<1>5. state' = [state EXCEPT ![r] = [Drafted(r, drafts) EXCEPT !.past = @ \o fed]]
  BY <1>2
<1> HIDE DEF fed
<1>6. SameReply(r) /\ StepOf(r) /\ state'[r].past = state[r].past \o fed
  BY <1>1, <1>5, DraftedDoes, RoundDoes DEF DraftedBy
<1>7. turn'.step = "validated" /\ turn'.req = r /\ turn'.drafts = drafts /\ turn'.targets = targets
  BY <1>4 DEF Judged
<1>8. Acts(r) /\ FedLen(r)' = FedLen(r) /\ TokenCount(r)' = TokenCount(r)
  BY <1>1, <1>6, FedSame DEF SpecBatch, Reserved, Acts, SameReply
<1>9. ASSUME Unharmed(r) PROVE Sound(r)'
  <2>1. last = n
    BY <1>1, <1>3, <1>9, LastRight
  <2>2. state[r].past = Counting(n)
    BY <1>1, <1>3, <1>9 DEF ExactOK, Sound, SpecBatch, Reserved, Judging, InStep
  <2> HIDE DEF last, n
  <2>3. fed = <<n>> \o drafts
    BY <2>1 DEF fed
  <2>4. /\ Len(fed) = Len(drafts) + 1 /\ Len(drafts) \in Nat
        /\ Counting(n) \o fed = Counting(n + 1) \o drafts
    BY <1>3, <2>3, CountThrough
  <2>5. Len(targets) = Len(fed)
    BY <2>4
  <2>6. \A i \in 1 .. Len(targets) : targets[i] \in Chosen(Counting(n), <<n>> \o drafts, i, n + i)
    <3> SUFFICES ASSUME NEW i \in 1 .. Len(targets)
                 PROVE  targets[i] \in Chosen(Counting(n), fed, i, n + i)
      BY <2>3
    <3>1. TokenCount(r) + i - 1 = n + i /\ i \in 1 .. Len(fed)
      BY <1>3, <2>5
    <3> QED
      BY <1>4, <2>2, <3>1
  <2>7. JudgesRight(n + 1, drafts, targets)
    BY <1>3, <2>4, <2>5, <2>6, RowsJudge
  <2>8. state'[r].past = Counting(TokenCount(r)') \o turn'.drafts
    BY <1>3, <1>6, <1>7, <1>8, <2>2, <2>4
  <2>9. JudgesRight(TokenCount(r)', turn'.drafts, turn'.targets)
    BY <1>3, <1>7, <1>8, <2>7
  <2>10. state'[r].pending = NoToken
    BY <1>3, <1>6 DEF SameReply, HasPending
  <2> QED
    BY <1>7, <2>8, <2>9, <2>10 DEF Sound, HasPending, Judging, InStep
<1>10. ExactOK(r)'
  BY <1>1, <1>6, <1>9 DEF ExactOK, RightUpTo, SameReply, Unharmed
<1> QED
  BY <1>1, <1>6, <1>8, <1>10, OneExact

LEMMA RejectExact ==
  ASSUME TextOK, NEW r \in Owner, Reject(r)
  PROVE  ExactsOK'
<1>1. /\ state' = state /\ exact' = exact /\ InStep(r, "validated")
      /\ turn' = [turn EXCEPT !.step = "rejected"] /\ ExactOK(r) /\ CountsOK
  BY DEF Reject, TextOK, ExactsOK
<1>2. \E drafts, targets : turn = Judged("validated", r, drafts, targets)
  BY <1>1 DEF CountsOK, TurnOK, Judged, InStep, NoTurn
<1>3. /\ turn'.step = "rejected" /\ turn'.req = r
      /\ turn'.drafts = turn.drafts /\ turn'.targets = turn.targets
  BY <1>1, <1>2 DEF Judged
<1>4. StepOf(r) /\ Acts(r) /\ SameReply(r) /\ TokenCount(r)' = TokenCount(r)
  BY <1>1, <1>3 DEF StepOf, Acts, InStep, SameReply, TokenCount
<1>5. Sound(r) => Sound(r)'
  BY <1>1, <1>3, <1>4 DEF Sound, HasPending, Judging, InStep
<1>6. ExactOK(r)'
  BY <1>1, <1>5 DEF ExactOK, RightUpTo, Unharmed
<1> QED
  BY <1>1, <1>4, <1>6, OneExact

\* A judgement that has been passed: nothing of r is left open.
LEMMA AcceptExact ==
  ASSUME TextOK, NEW r \in Owner, AcceptAll(r)
  PROVE  ExactsOK'
<1> DEFINE drafts == turn.drafts
           targets == turn.targets
           tokens == Append(drafts, Last(targets))
           n == TokenCount(r)
<1>1. /\ CountsOK /\ ExactOK(r) /\ PhaseOK(r) /\ exact' = exact
      /\ InStep(r, "validated") /\ AllAccepted
  BY DEF TextOK, ExactsOK, PhasesOK, AcceptAll
<1>2. /\ StepOf(r) /\ Burst(r, tokens)
      /\ state'[r].past = state[r].past /\ state'[r].pending = state[r].pending
  BY <1>1, AcceptDoes
<1>3. /\ InDecode(r) /\ drafts \in Seq(Token) /\ targets \in Seq(Token)
      /\ Len(targets) = Len(drafts) + 1
  BY <1>1, JudgedFacts
<1>4. /\ Len(drafts) \in Nat /\ tokens \in Seq(Token) /\ Len(tokens) = Len(drafts) + 1
      /\ \A i \in 1 .. Len(drafts) : tokens[i] = drafts[i]
      /\ tokens[Len(drafts) + 1] = targets[Len(drafts) + 1]
  BY <1>1, AcceptTokens
<1>5. Accepted(drafts, targets) = Len(drafts)
  BY <1>1 DEF AllAccepted
<1>6. turn' = NoTurn /\ state[r].pending = NoToken /\ Acts(r)
  BY <1>1, <1>2 DEF Burst, PhaseOK, Judging, InStep, Acts
<1> HIDE DEF drafts, targets, tokens
<1>7. \A j \in 1 .. Len(drafts) : drafts[j] = targets[j]
  BY <1>3, <1>5, AcceptedAgree
<1>8. PICK k \in 1 .. Len(tokens) : BurstOf(r, tokens, k)
  <2>1. Len(tokens) >= 1
    BY <1>4
  <2> QED
    BY <1>1, <1>2, <1>3, <1>4, <2>1, BurstFacts, Zenon
<1>9. /\ FedLen(r)' = n + k - 1 /\ n \in Nat /\ k \in Nat
      /\ \A m \in Int : m > Len(state'[r].generated) => m > Len(state[r].generated)
  BY <1>1, <1>3, <1>4, <1>8, BurstCounts
<1>10. ASSUME Unharmed(r)
       PROVE  /\ \A j \in 1 .. Len(drafts) : drafts[j] = n + j - 1
              /\ targets[Len(drafts) + 1] = n + Len(drafts)
              /\ state[r].past = Counting(n) \o drafts
  <2>1. JudgesRight(n, drafts, targets) /\ state[r].past = Counting(n) \o drafts
    BY <1>1, <1>10 DEF ExactOK, Sound, Judging, drafts, targets
  <2>2. Len(drafts) <= Len(drafts)
    BY <1>4
  <2> HIDE DEF n
  <2>3. \A m \in Nat : m <= Len(drafts) /\ (\A j \in 1 .. m : drafts[j] = targets[j]) =>
          (\A j \in 1 .. m : drafts[j] = n + j - 1) /\ targets[m + 1] = n + m
    <3> SUFFICES ASSUME NEW m \in Nat, m <= Len(drafts), \A j \in 1 .. m : drafts[j] = targets[j]
                 PROVE  (\A j \in 1 .. m : drafts[j] = n + j - 1) /\ targets[m + 1] = n + m
      OBVIOUS
    <3> QED
      BY <1>3, <1>9, <2>1, AgreedAreRight, SMTT(30)
  <2> QED
    BY <1>4, <1>7, <2>1, <2>2, <2>3
<1>11. Unharmed(r) => \A j \in 1 .. k : tokens[j] = n + j - 1
  <2> SUFFICES ASSUME Unharmed(r), NEW j \in 1 .. k PROVE tokens[j] = n + j - 1
    OBVIOUS
  <2>1. CASE j <= Len(drafts)
    BY <1>4, <1>9, <1>10, <2>1
  <2>2. CASE ~ (j <= Len(drafts))
    <3>1. j = Len(drafts) + 1
      BY <1>4, <1>8, <1>9, <2>2
    <3> QED
      BY <1>4, <1>9, <1>10, <3>1
  <2> QED
    BY <2>1, <2>2
<1>12. exact'[r] \in Int /\ exact'[r] <= exact[r]
  BY <1>1 DEF ExactOK
<1>13. RightUpTo(r, state'[r].generated, exact'[r])
  BY <1>1, <1>3, <1>4, <1>8, <1>11, <1>12, RightBurst
<1>14. Unharmed(r)' => Unharmed(r)
  BY <1>1, <1>3, <1>9 DEF Unharmed, ExactOK, InDecode
<1>15. ASSUME Unharmed(r)' PROVE Sound(r)'
  <2>1. Unharmed(r) /\ ~ state'[r].finished
    BY <1>14, <1>15 DEF Unharmed
  <2>2. ~ (k < Len(tokens))
    BY <1>8, <2>1 DEF BurstOf
  <2>3. FedLen(r)' = n + Len(drafts)
    BY <1>4, <1>8, <1>9, <2>2
  <2>4. Counting(n) \o drafts = Counting(n + Len(drafts))
    BY <1>3, <1>9, <1>10, <2>1, CountAll
  <2>5. state'[r].past = Counting(FedLen(r)')
    BY <1>2, <1>10, <2>1, <2>3, <2>4
  <2>6. state'[r].pending = NoToken /\ ~ Judging(r)' /\ ~ InStep(r, "validated")'
    BY <1>2, <1>6, NotJudging DEF Judging
  <2> QED
    BY <2>5, <2>6 DEF Sound, HasPending
<1>16. ExactOK(r)'
  BY <1>12, <1>13, <1>15 DEF ExactOK, RightUpTo
<1> QED
  BY <1>1, <1>2, <1>6, <1>16, OneExact

\* The correction is the last token that counts.
LEMMA ReplayExact ==
  ASSUME TextOK, NEW r \in Owner, Replay(r)
  PROVE  ExactsOK'
<1> DEFINE drafts == turn.drafts
           targets == turn.targets
           tokens == Corrected(drafts, targets)
           a == Accepted(drafts, targets)
           n == TokenCount(r)
<1>1. /\ CountsOK /\ ExactOK(r) /\ PhaseOK(r) /\ InStep(r, "rejected")
      /\ exact' = [exact EXCEPT ![r] = Smaller(@, Len(state[r].generated) + Len(tokens))]
      /\ r \in DOMAIN exact
  BY DEF TextOK, ExactsOK, PhasesOK, Replay, ReplayBatch, HarmAfter
<1>2. /\ StepOf(r) /\ Burst(r, tokens)
      /\ state'[r].pending = state[r].pending
  BY <1>1, ReplayDoes
<1>3. /\ InDecode(r) /\ drafts \in Seq(Token) /\ targets \in Seq(Token)
      /\ Len(targets) = Len(drafts) + 1
  BY <1>1, JudgedFacts
<1>4. /\ a \in Nat /\ a <= Len(drafts) /\ tokens \in Seq(Token) /\ Len(tokens) = a + 1
      /\ \A i \in 1 .. a : tokens[i] = drafts[i]
      /\ tokens[a + 1] = targets[a + 1]
  BY <1>1, ReplayTokens
<1>5. Acts(r)
  BY <1>1 DEF InStep, Acts
<1>6. \A j \in 1 .. a : drafts[j] = targets[j]
  BY <1>3, AcceptedAgree
<1> HIDE DEF drafts, targets, tokens, a
<1>7. PICK k \in 1 .. Len(tokens) : BurstOf(r, tokens, k)
  <2>1. Len(tokens) >= 1
    BY <1>4
  <2> QED
    BY <1>1, <1>2, <1>3, <1>4, <2>1, BurstFacts, Zenon
<1>8. /\ n \in Nat /\ k \in Nat
      /\ Len(state'[r].generated) = Len(state[r].generated) + k
      /\ Len(state[r].generated) \in Nat
  BY <1>1, <1>3, <1>4, <1>7, BurstCounts
<1>9. ASSUME Unharmed(r)
      PROVE  (\A j \in 1 .. a : drafts[j] = n + j - 1) /\ targets[a + 1] = n + a
  <2>1. JudgesRight(n, drafts, targets)
    BY <1>1, <1>9 DEF ExactOK, Sound, Judging, drafts, targets
  <2> HIDE DEF n
  <2>2. \A m \in Nat : m <= Len(drafts) /\ (\A j \in 1 .. m : drafts[j] = targets[j]) =>
          (\A j \in 1 .. m : drafts[j] = n + j - 1) /\ targets[m + 1] = n + m
    <3> SUFFICES ASSUME NEW m \in Nat, m <= Len(drafts), \A j \in 1 .. m : drafts[j] = targets[j]
                 PROVE  (\A j \in 1 .. m : drafts[j] = n + j - 1) /\ targets[m + 1] = n + m
      OBVIOUS
    <3> QED
      BY <1>3, <1>8, <2>1, AgreedAreRight, ZenonT(40)
  <2> QED
    BY <1>4, <1>6, <2>2
<1>10. Unharmed(r) => \A j \in 1 .. k : tokens[j] = n + j - 1
  <2> SUFFICES ASSUME Unharmed(r), NEW j \in 1 .. k PROVE tokens[j] = n + j - 1
    OBVIOUS
  <2>1. CASE j <= a
    BY <1>4, <1>8, <1>9, <2>1
  <2>2. CASE ~ (j <= a)
    <3>1. j = a + 1
      BY <1>4, <1>7, <1>8, <2>2
    <3> QED
      BY <1>4, <1>8, <1>9, <3>1
  <2> QED
    BY <2>1, <2>2
<1>11. /\ exact'[r] \in Int /\ exact'[r] <= exact[r]
       /\ exact'[r] <= Len(state[r].generated) + Len(tokens)
  <2>1. exact[r] \in Int /\ Len(state[r].generated) + Len(tokens) \in Int
    BY <1>1, <1>4, <1>8 DEF ExactOK
  <2>2. exact'[r] = Smaller(exact[r], Len(state[r].generated) + Len(tokens))
    BY <1>1
  <2> QED
    BY <2>1, <2>2, SmallerFacts
<1>12. RightUpTo(r, state'[r].generated, exact'[r])
  BY <1>1, <1>3, <1>4, <1>7, <1>10, <1>11, RightBurst
<1>13. ~ Unharmed(r)'
  <2>1. CASE k < Len(tokens)
    <3>1. state'[r].finished
      BY <1>7, <2>1, Zenon DEF BurstOf
    <3> QED
      BY <3>1 DEF Unharmed
  <2>2. CASE ~ (k < Len(tokens))
    <3>1. k = Len(tokens)
      BY <1>4, <1>7, <1>8, <2>2
    <3>2. Len(state'[r].generated) = Len(state[r].generated) + Len(tokens)
      BY <1>8, <3>1
    <3>3. Len(state[r].generated) + Len(tokens) \in Nat
      BY <1>8, <3>1
    <3>4. ~ (exact'[r] > Len(state'[r].generated))
      BY <1>11, <3>2, <3>3
    <3> QED
      BY <3>4 DEF Unharmed
  <2> QED
    BY <2>1, <2>2
<1>14. ExactOK(r)'
  BY <1>11, <1>12, <1>13 DEF ExactOK, RightUpTo
<1> QED
  BY <1>1, <1>2, <1>5, <1>14, OneExact

LEMMA ReplayRaisesExact ==
  ASSUME TextOK, NEW r \in Owner, ReplayRaises(r)
  PROVE  ExactsOK'
<1>1. /\ StepOf(r) /\ SameReply(r)
      /\ exact' = [exact EXCEPT ![r] = Smaller(@, Len(state[r].generated))]
  BY ReplayRaisesDoes DEF TextOK, Harm, HarmAfter
<1>2. ExactOK(r)'
  BY <1>1, ExactHarmed DEF TextOK
<1>3. Acts(r)
  BY DEF ReplayRaises, ReplayBatch, InStep, Acts
<1> QED
  BY <1>1, <1>2, <1>3, OneExact

LEMMA StepExacts == TextOK /\ [Next]_vars => ExactsOK'
<1> SUFFICES ASSUME TextOK, [Next]_vars PROVE ExactsOK'
  OBVIOUS
<1>1. ASSUME UNCHANGED vars \/ FreePage PROVE ExactsOK'
  <2>1. state' = state /\ turn' = turn /\ exact' = exact
    BY <1>1 DEF vars, execVars, FreePage
  <2>2. \A q \in Owner : /\ FedLen(q)' = FedLen(q) /\ TokenCount(q)' = TokenCount(q)
                         /\ Judging(q)' = Judging(q)
                         /\ InStep(q, "validated")' = InStep(q, "validated")
    BY <2>1 DEF FedLen, TokenCount, Judging, InStep
  <2>3. \A q \in Owner : Sound(q) => Sound(q)'
    BY <2>1, <2>2 DEF Sound, HasPending
  <2> QED
    BY <2>1, <2>3 DEF TextOK, ExactsOK, ExactOK, Unharmed, RightUpTo
<1> QED
  BY <1>1, PrefillExact, RaisedExact, ReserveExact, EmitExact, DecodeExact, BrokenOffExact,
     ValidateExact, AcceptExact, RejectExact, ReplayExact, ReplayRaisesExact DEF Next

LEMMA InitExacts == Init => ExactsOK
<1> SUFFICES ASSUME Init PROVE ExactsOK
  OBVIOUS
<1>1. exact = MaxNewTokens /\ DOMAIN MaxNewTokens = Owner
      /\ \A q \in Owner : MaxNewTokens[q] \in Nat
  BY ExecutorAssumption DEF Init
<1>2. ASSUME NEW q \in Owner PROVE ExactOK(q)
  <2>1. /\ state[q].generated = <<>> /\ state[q].past = <<>> /\ state[q].prefilled = 0
        /\ state[q].pending = NoToken /\ turn = NoTurn
    BY <1>2 DEF Init, NewState
  <2>2. /\ Len(<<>>) = 0 /\ Smaller(MaxNewTokens[q], 0) = 0
    BY <1>1, <1>2 DEF Smaller
  <2>3. RightUpTo(q, state[q].generated, exact[q])
    BY <1>1, <2>1, <2>2 DEF RightUpTo
  <2>4. FedLen(q) = 0 /\ Counting(0) = <<>>
    BY <2>1 DEF FedLen, Counting
  <2>5. ~ Judging(q)
    BY <2>1 DEF Judging, InStep, NoTurn
  <2> QED
    BY <1>1, <2>1, <2>3, <2>4, <2>5 DEF ExactOK, Sound, HasPending, Judging
<1> QED
  BY <1>1, <1>2 DEF ExactsOK

\* For every prompt, chunk size, budget and number of drafts: until a draft of a
\* request has been rejected or one of its passes broke off, every token is the one
\* that greedy decoding without a cache chooses (forward_prefill, forward_decode,
\* _speculative_decode).
THEOREM TokensAreExactUntilHarm == Spec => []ExactUntilHarm
<1>1. Init => TextOK
  BY InitCounts, InitPhases, InitExacts DEF TextOK
<1>2. TextOK /\ [Next]_vars => TextOK'
  BY StepCounts, StepPhases, StepExacts DEF TextOK
<1>3. TextOK => ExactUntilHarm
  BY DEF TextOK, ExactsOK, ExactOK, RightUpTo, ExactUntilHarm
<1> QED
  BY <1>1, <1>2, <1>3, PTL DEF Spec

-----------------------------------------------------------------------------
(***************************************************************************)
(* What the slots hold (MirrorHoldsText).  Different positions of the      *)
(* block tables are different slots, so store_layer_tokens changes nothing *)
(* but the positions it is called for; and those are always the next ones  *)
(* after what is stored.  While a round is judged the drafts are stored,   *)
(* too: the invariant has to speak of them, or nothing would be known of   *)
(* the slots of the accepted ones.  The context of a row is what the cache *)
(* of the target model held when it was computed, so the invariant speaks  *)
(* of that cache, too, until the first harm to it.                         *)
(***************************************************************************)

\* A position that the table of r covers.
Covered(r, pos) == pos \in Nat /\ pos \div PageSize + 1 \in 1 .. Len(block_table[r])

LEMMA RoomCovers ==
  ASSUME KVInv, NEW r \in Owner, NEW n \in Nat, PagesRequired(n) <= Len(block_table[r])
  PROVE  \A pos \in 0 .. n - 1 : Covered(r, pos)
<1> SUFFICES ASSUME NEW pos \in 0 .. n - 1 PROVE Covered(r, pos)
  OBVIOUS
<1>1. PageSize \in Nat \ {0} /\ pos \in Nat /\ pos <= n - 1 /\ n > 0
  BY Constants
<1>2. PagesRequired(n) = (n + PageSize - 1) \div PageSize
  BY <1>1 DEF PagesRequired
<1>3. n + PageSize - 1 \in Nat /\ pos + PageSize \in Nat /\ pos + PageSize <= n + PageSize - 1
  BY <1>1
<1>4. (pos + PageSize) \div PageSize <= (n + PageSize - 1) \div PageSize
  BY <1>1, <1>3, DivMonotonic
<1> DEFINE a == pos \div PageSize
           b == (pos + PageSize) \div PageSize
<1>5. /\ a \in Nat /\ PageSize * a <= pos
      /\ b \in Nat /\ pos + PageSize < PageSize * b + PageSize
  BY <1>1, <1>3, DivFacts
<1>6. ~ (b <= a)
  <2>1. \A p, q \in Nat, k \in Nat \ {0} : p > q => k * p >= k * q + k
    BY NextMultiple
  <2> HIDE DEF a, b
  <2>2. CASE a = b
    BY <1>1, <1>5, <2>2
  <2>3. CASE a > b
    <3>1. PageSize * a >= PageSize * b + PageSize
      BY <1>1, <1>5, <2>1, <2>3
    <3>2. PageSize * a \in Nat /\ PageSize * b \in Nat
      BY <1>1, <1>5
    <3> QED
      BY <1>1, <1>5, <3>1, <3>2
  <2> QED
    BY <1>5, <2>2, <2>3
<1>7. Len(block_table[r]) \in Nat
  BY TableFacts DEF KVInv
<1> HIDE DEF a, b
<1>8. b <= Len(block_table[r])
  <2>1. PagesRequired(n) \in Nat /\ b <= PagesRequired(n)
    BY <1>2, <1>4, PagesType DEF b
  <2> QED
    BY <1>5, <1>7, <2>1
<1>9. a + 1 \in 1 .. Len(block_table[r])
  BY <1>5, <1>6, <1>7, <1>8
<1> QED
  BY <1>1, <1>9 DEF a, Covered

\* A slot tells its page and its place in the page.
LEMMA OneSlot ==
  ASSUME NEW k \in Nat \ {0}, NEW a \in Nat, NEW b \in Nat,
         NEW m \in 0 .. k - 1, NEW l \in 0 .. k - 1, a * k + m = b * k + l
  PROVE  a = b /\ m = l
<1>1. \A p, q \in Nat : p > q => k * p >= k * q + k
  BY NextMultiple
<1>2. k * a \in Nat /\ k * b \in Nat /\ a * k = k * a /\ b * k = k * b
  OBVIOUS
<1>3. ~ (a > b)
  <2> SUFFICES ASSUME a > b PROVE FALSE
    OBVIOUS
  <2>1. k * a >= k * b + k
    BY <1>1
  <2> QED
    BY <1>2, <2>1
<1>4. ~ (b > a)
  <2> SUFFICES ASSUME b > a PROVE FALSE
    OBVIOUS
  <2>1. k * b >= k * a + k
    BY <1>1
  <2> QED
    BY <1>2, <2>1
<1>5. a = b
  BY <1>3, <1>4
<1> QED
  BY <1>2, <1>5

LEMMA RestFacts ==
  \A a \in Nat, k \in Nat \ {0} : (a % k) \in 0 .. k - 1 /\ a = (k * (a \div k)) + (a % k)
BY SMT

LEMMA SlotFacts ==
  ASSUME KVInv, NEW r \in Owner, NEW pos, Covered(r, pos)
  PROVE  /\ SlotOf(block_table[r], pos) \in Slot
         /\ block_table[r][pos \div PageSize + 1] \in 0 .. NumPages - 1
<1> DEFINE page == block_table[r][pos \div PageSize + 1]
           rest == pos % PageSize
<1>1. /\ PageSize \in Nat \ {0} /\ pos \in Nat /\ pos \div PageSize + 1 \in 1 .. Len(block_table[r])
      /\ NumPages \in Nat \ {0}
  BY Constants DEF Covered, KVAssumption
<1>2. page \in 0 .. NumPages - 1
  BY <1>1, TableFacts DEF KVInv, Page, Pool!Page
<1>3. rest \in 0 .. PageSize - 1
  BY <1>1, RestFacts
<1> HIDE DEF page, rest
<1>4. page * PageSize + rest \in 0 .. NumPages * PageSize - 1
  <2>1. PageSize * NumPages >= PageSize * page + PageSize
    BY <1>1, <1>2, NextMultiple
  <2>2. PageSize * page \in Nat /\ page * PageSize = PageSize * page
        /\ NumPages * PageSize = PageSize * NumPages /\ PageSize * NumPages \in Nat
    BY <1>1, <1>2
  <2> QED
    BY <1>1, <1>2, <1>3, <2>1, <2>2
<1> QED
  BY <1>2, <1>4 DEF page, rest, SlotOf, Slot

LEMMA SlotsDiffer ==
  ASSUME KVInv, NEW q \in Owner, NEW r \in Owner, NEW i, NEW j, Covered(q, i), Covered(r, j),
         SlotOf(block_table[q], i) = SlotOf(block_table[r], j)
  PROVE  q = r /\ i = j
<1> DEFINE u == i \div PageSize
           v == j \div PageSize
           a == block_table[q][u + 1]
           b == block_table[r][v + 1]
           m == i % PageSize
           l == j % PageSize
<1>1. /\ PageSize \in Nat \ {0} /\ i \in Nat /\ j \in Nat
      /\ u + 1 \in 1 .. Len(block_table[q]) /\ v + 1 \in 1 .. Len(block_table[r])
  BY Constants DEF Covered
<1>2. a \in Nat /\ b \in Nat
  <2>1. a \in 0 .. NumPages - 1 /\ b \in 0 .. NumPages - 1
    BY SlotFacts
  <2> QED
    BY <2>1
<1>3. m \in 0 .. PageSize - 1 /\ l \in 0 .. PageSize - 1
  BY <1>1, RestFacts
<1>4. (a * PageSize) + m = (b * PageSize) + l
  BY DEF SlotOf
<1>5. a = b /\ m = l
  <2> HIDE DEF a, b, m, l
  <2> QED
    BY <1>1, <1>2, <1>3, <1>4, OneSlot
<1>6. q = r /\ u + 1 = v + 1
  <2> HIDE DEF u, v
  <2> QED
    BY <1>1, <1>5 DEF KVInv, Owned
<1>7. i = (PageSize * u) + m /\ j = (PageSize * v) + l /\ u \in Nat /\ v \in Nat
  BY <1>1, RestFacts, DivFacts
<1> HIDE DEF u, v, m, l
<1>8. u = v
  BY <1>6, <1>7
<1> QED
  BY <1>5, <1>6, <1>7, <1>8

SlotsApart ==
  /\ \A q \in Owner : \A pos : Covered(q, pos) => SlotOf(block_table[q], pos) \in Slot
  /\ \A p, q \in Owner : \A i, j : /\ Covered(p, i) /\ Covered(q, j)
                                   /\ SlotOf(block_table[p], i) = SlotOf(block_table[q], j)
                                   => p = q /\ i = j

LEMMA ApartSlots == KVInv => SlotsApart
BY SlotFacts, SlotsDiffer DEF SlotsApart

\* What is stored of r: its text as far as it was fed and, while they are judged,
\* the drafts.
StoredLen(r) == IF InStep(r, "validated") THEN TokenCount(r) + Len(turn.drafts) ELSE FedLen(r)

Stored(r) == IF InStep(r, "validated") THEN Committed(r) \o turn.drafts ELSE Committed(r)

\* Outside of the judgement of a round.
LEMMA StoredText ==
  ASSUME NEW r \in Owner, ~ InStep(r, "validated")
  PROVE  StoredLen(r) = FedLen(r) /\ Stored(r) = Committed(r)
BY DEF StoredLen, Stored

LEMMA NotValidated == turn' = NoTurn => \A q \in Owner : ~ InStep(q, "validated")'
BY DEF InStep, NoTurn

\* A text and what follows it.
LEMMA JoinFacts ==
  ASSUME NEW c \in Seq(Token), NEW d \in Seq(Token), NEW n \in Nat, n = Len(c)
  PROVE  /\ Len(d) \in Nat
         /\ \A i \in 1 .. n : (c \o d)[i] = c[i]
         /\ \A j \in 1 .. Len(d) : (c \o d)[n + j] = d[j]
<1> DEFINE e == c \o d
<1>1. /\ Len(d) \in Nat
      /\ \A i \in 1 .. Len(c) + Len(d) : e[i] = IF i <= Len(c) THEN c[i] ELSE d[i - Len(c)]
  BY ConcatTokens, LenProperties, Zenon
<1> HIDE DEF e
<1>2. \A i \in 1 .. n : e[i] = c[i]
  BY <1>1
<1>3. ASSUME NEW j \in 1 .. Len(d) PROVE e[n + j] = d[j]
  <2>1. n + j \in 1 .. Len(c) + Len(d) /\ ~ (n + j <= Len(c)) /\ (n + j) - Len(c) = j
    BY <1>1
  <2> QED
    BY <1>1, <2>1
<1> QED
  BY <1>1, <1>2, <1>3 DEF e

LEMMA LastText ==
  ASSUME CountsOK, NEW r \in Owner, InDecode(r), PhaseOK(r), ~ HasPending(r)
  PROVE  Committed(r)[TokenCount(r)] = LastToken(r)
<1> DEFINE g == state[r].generated
<1>1. /\ LastToken(r) = g[Len(g)] /\ Len(g) \in Nat \ {0} /\ g \in Seq(Token)
  BY LastFacts DEF CountsOK, StateOK
<1>2. (Prompt(r) \o g)[PromptLen[r] + Len(g)] = g[Len(g)]
  <2> HIDE DEF g
  <2>1. Len(g) \in 1 .. Len(g)
    BY <1>1
  <2>2. \A i \in 1 .. Len(g) : (Prompt(r) \o g)[PromptLen[r] + i] = g[i]
    BY <1>1, TextFacts, Zenon
  <2> QED
    BY <2>1, <2>2
<1> QED
  BY <1>1, <1>2 DEF Committed, TokenCount

\* The text after a burst.
LEMMA BurstText ==
  ASSUME CountsOK, NEW r \in Owner, InDecode(r), NEW tokens \in Seq(Token),
         NEW k \in 1 .. Len(tokens), BurstOf(r, tokens, k)
  PROVE  /\ \A i \in 1 .. TokenCount(r) : Committed(r)'[i] = Committed(r)[i]
         /\ \A j \in 1 .. k : Committed(r)'[TokenCount(r) + j] = tokens[j]
<1> DEFINE g == state[r].generated
           h == state'[r].generated
<1>1. /\ g \in Seq(Token) /\ h \in Seq(Token) /\ Len(g) \in Nat /\ k \in Nat
      /\ PromptLen[r] \in Nat
  BY LenProperties, Constants DEF CountsOK, StateOK, BurstOf
<1>2. /\ Len(h) = Len(g) + k
      /\ \A i \in 1 .. Len(g) : h[i] = g[i]
      /\ \A j \in 1 .. k : h[Len(g) + j] = tokens[j]
  BY Zenon DEF BurstOf
<1>3. /\ TokenCount(r) = PromptLen[r] + Len(g)
      /\ Committed(r) = Prompt(r) \o g /\ Committed(r)' = Prompt(r) \o h
  BY DEF TokenCount, Committed, Prompt
<1> HIDE DEF g, h
<1>4. \A i \in 1 .. PromptLen[r] + Len(g) : (Prompt(r) \o h)[i] = (Prompt(r) \o g)[i]
  <2>1. Len(h) >= Len(g)
    BY <1>1, <1>2
  <2> QED
    BY <1>1, <1>2, <2>1, TextGrows
<1>5. ASSUME NEW j \in 1 .. k PROVE (Prompt(r) \o h)[PromptLen[r] + Len(g) + j] = tokens[j]
  <2>1. \A i \in 1 .. Len(h) : (Prompt(r) \o h)[PromptLen[r] + i] = h[i]
    BY <1>1, TextFacts, Zenon
  <2>2. Len(g) + j \in 1 .. Len(h) /\ PromptLen[r] + (Len(g) + j) = PromptLen[r] + Len(g) + j
    BY <1>1, <1>2
  <2>3. h[Len(g) + j] = tokens[j]
    BY <1>2
  <2> QED
    BY <2>1, <2>2, <2>3
<1> QED
  BY <1>3, <1>4, <1>5, Zenon

LEMMA StoredFacts ==
  ASSUME CountsOK, NEW r \in Owner
  PROVE  /\ FedLen(r) \in Nat /\ FedLen(r) <= StoredLen(r) /\ FedLen(r) <= TokenCount(r)
         /\ TokenCount(r) \in Nat
         /\ \A i \in 1 .. TokenCount(r) : Stored(r)[i] = Committed(r)[i]
         /\ InStep(r, "validated") =>
              \A j \in 1 .. Len(turn.drafts) : Stored(r)[TokenCount(r) + j] = turn.drafts[j]
<1>1. /\ StateOK(r) /\ FedLen(r) \in Nat /\ TokenCount(r) \in Nat
      /\ Committed(r) \in Seq(Token) /\ Len(Committed(r)) = TokenCount(r)
  BY FedFacts, CommittedFacts DEF CountsOK
<1>2. FedLen(r) <= TokenCount(r)
  <2>1. /\ state[r].prefilled \in Nat /\ state[r].prefilled <= PromptLen[r]
        /\ Len(state[r].generated) \in Nat /\ PromptLen[r] \in Nat
        /\ TokenCount(r) = PromptLen[r] + Len(state[r].generated)
    BY <1>1, CountFacts, Constants DEF StateOK
  <2> QED
    BY <1>1, <2>1 DEF FedLen
<1>3. CASE InStep(r, "validated")
  <2> DEFINE drafts == turn.drafts
             c == Committed(r)
  <2>1. drafts \in Seq(Token) /\ Len(drafts) \in Nat
    BY <1>3, JudgedFacts, LenProperties
  <2>2. Stored(r) = c \o drafts /\ StoredLen(r) = TokenCount(r) + Len(drafts)
    BY <1>3 DEF Stored, StoredLen
  <2> HIDE DEF drafts, c
  <2>3. /\ \A i \in 1 .. TokenCount(r) : (c \o drafts)[i] = c[i]
        /\ \A j \in 1 .. Len(drafts) : (c \o drafts)[TokenCount(r) + j] = drafts[j]
    <3>1. c \in Seq(Token) /\ TokenCount(r) = Len(c)
      BY <1>1 DEF c
    <3> QED
      BY <1>1, <2>1, <3>1, JoinFacts
  <2> QED
    BY <1>1, <1>2, <2>1, <2>2, <2>3 DEF drafts, c
<1>4. CASE ~ InStep(r, "validated")
  BY <1>1, <1>2, <1>4, StoredText
<1> QED
  BY <1>3, <1>4

LEMMA SameText ==
  ASSUME NEW r \in Owner, SameReply(r)
  PROVE  /\ FedLen(r)' = FedLen(r) /\ TokenCount(r)' = TokenCount(r)
         /\ Committed(r)' = Committed(r)
BY FedSame DEF SameReply, Committed, Prompt

LEMMA OneMoreFed ==
  ASSUME NEW t \in Token
  PROVE  <<t>> \in Seq(Token) /\ Len(<<t>>) = 1 /\ \A j \in 1 .. 1 : <<t>>[j] = t
OBVIOUS

\* A pass over the last token and some drafts behind it: what it feeds.
LEMMA FedFrom ==
  ASSUME CountsOK, NEW r \in Owner, InDecode(r), PhaseOK(r), ~ HasPending(r),
         NEW d \in Seq(Token)
  PROVE  LET fed == <<LastToken(r)>> \o d
         IN /\ fed \in Seq(Token) /\ Len(d) \in Nat /\ Len(fed) = Len(d) + 1
            /\ fed[1] = Committed(r)[TokenCount(r)]
            /\ \A j \in 1 .. Len(d) : fed[1 + j] = d[j]
            /\ FedLen(r) = TokenCount(r) - 1 /\ TokenCount(r) - 1 \in Nat /\ TokenCount(r) \in Nat
            /\ TokenCount(r) - 1 + Len(fed) = TokenCount(r) + Len(d)
<1> DEFINE one == <<LastToken(r)>>
           fed == one \o d
<1>1. /\ LastToken(r) \in Token /\ LastToken(r) = Committed(r)[TokenCount(r)]
      /\ FedLen(r) = TokenCount(r) - 1 /\ TokenCount(r) - 1 \in Nat /\ TokenCount(r) \in Nat
  BY LastFacts, LastText
<1>2. one \in Seq(Token) /\ Len(one) = 1 /\ one[1] = LastToken(r) /\ 1 = Len(one) /\ 1 \in Nat
  BY <1>1
<1> HIDE DEF one
<1>3. fed \in Seq(Token) /\ Len(fed) = Len(one) + Len(d)
  BY <1>2, ConcatTokens, Zenon
<1>4. /\ Len(d) \in Nat
      /\ \A i \in 1 .. 1 : fed[i] = one[i]
      /\ \A j \in 1 .. Len(d) : fed[1 + j] = d[j]
  BY <1>2, JoinFacts, Zenon
<1> HIDE DEF fed
<1>5. fed[1] = Committed(r)[TokenCount(r)]
  BY <1>1, <1>2, <1>4
<1>6. Len(fed) = Len(d) + 1 /\ TokenCount(r) - 1 + Len(fed) = TokenCount(r) + Len(d)
  BY <1>1, <1>2, <1>3, <1>4
<1> QED
  BY <1>1, <1>3, <1>4, <1>5, <1>6 DEF one, fed

LEMMA ReplayedFed ==
  ASSUME CountsOK, NEW r \in Owner, PhaseOK(r), InStep(r, "rejected")
  PROVE  LET fed == ReplayFed(r)
             n == Accepted(turn.drafts, turn.targets)
         IN /\ fed \in Seq(Token) /\ n \in Nat /\ Len(fed) = n + 1 /\ fed[1] = LastToken(r)
            /\ n <= Len(turn.drafts) /\ Len(turn.drafts) \in Nat
            /\ \A j \in 1 .. n : fed[1 + j] = turn.drafts[j]
            /\ ~ HasPending(r)
            /\ FedLen(r) = TokenCount(r) - 1 /\ TokenCount(r) - 1 \in Nat
<1> DEFINE n == Accepted(turn.drafts, turn.targets)
           drafts == turn.drafts
           d == SubSeq(drafts, 1, n)
           fed == <<LastToken(r)>> \o d
<1>1. /\ InDecode(r) /\ n \in Nat /\ n <= Len(drafts) /\ drafts \in Seq(Token)
      /\ Len(drafts) \in Nat
  BY ReplayTokens, JudgedFacts, LenProperties
<1>2. ~ HasPending(r)
  BY DEF PhaseOK, Judging, HasPending
<1>3. ReplayFed(r) = fed
  BY DEF ReplayFed
<1> HIDE DEF n, drafts
<1>4. d \in Seq(Token) /\ Len(d) = n /\ \A j \in 1 .. n : d[j] = drafts[j]
  <2>1. \A i \in 1 .. n : drafts[i] \in Token
    BY <1>1, ElementOfSeq
  <2> QED
    BY <1>1, <2>1, SubSeqProperties
<1> HIDE DEF d
<1>5. /\ fed \in Seq(Token) /\ Len(fed) = Len(d) + 1
      /\ fed[1] = Committed(r)[TokenCount(r)]
      /\ \A j \in 1 .. Len(d) : fed[1 + j] = d[j]
      /\ FedLen(r) = TokenCount(r) - 1 /\ TokenCount(r) - 1 \in Nat
  BY <1>1, <1>2, <1>4, FedFrom
<1>6. fed[1] = LastToken(r)
  BY <1>1, <1>2, <1>5, LastText
<1> HIDE DEF fed
<1> QED
  BY <1>1, <1>2, <1>3, <1>4, <1>5, <1>6 DEF n, drafts

-----------------------------------------------------------------------------
(* What the target model's cache holds: until it is harmed, what is stored. *)

\* s is the first n tokens of t.
IsStart(s, n, t) == s \in Seq(Token) /\ Len(s) = n /\ \A j \in 1 .. n : s[j] = t[j]

\* The reply of r may go on.
Going(r) == state[r].generated = <<>> \/ ~ state[r].finished

\* Nothing has happened to the cache of r.
Unspoilt(r) == clean[r] > FedLen(r) /\ Going(r) /\ ~ InStep(r, "rejected")

PastOK(r) ==
  /\ state[r].past \in Seq(Token)
  /\ clean[r] \in Int
  /\ Unspoilt(r) => IsStart(state[r].past, StoredLen(r), Stored(r))

PastsOK == DOMAIN clean = Owner /\ \A q \in Owner : PastOK(q)

\* From here on the cache of r is not its text.
Spoils(r) == clean' = [clean EXCEPT ![r] = Smaller(@, FedLen(r))]

CleanBy(r) == clean' = clean \/ Spoils(r)

LEMMA CleanFacts ==
  ASSUME CountsOK, PastsOK, NEW r \in Owner, CleanBy(r)
  PROVE  /\ DOMAIN clean' = Owner /\ \A q \in Owner \ {r} : clean'[q] = clean[q]
         /\ clean[r] \in Int /\ clean'[r] \in Int /\ clean'[r] <= clean[r]
         /\ Spoils(r) => clean'[r] <= FedLen(r)
<1>1. clean[r] \in Int /\ DOMAIN clean = Owner
  BY DEF PastsOK, PastOK
<1>2. FedLen(r) \in Nat
  BY StoredFacts
<1>3. CASE clean' = clean /\ ~ Spoils(r)
  BY <1>1, <1>3
<1>4. CASE Spoils(r)
  <2>1. clean'[r] = Smaller(clean[r], FedLen(r))
    BY <1>1, <1>4 DEF Spoils
  <2>2. clean'[r] \in Int /\ clean'[r] <= clean[r] /\ clean'[r] <= FedLen(r)
    BY <1>1, <1>2, <2>1 DEF Smaller
  <2> QED
    BY <1>1, <1>4, <2>2 DEF Spoils
<1> QED
  BY <1>3, <1>4 DEF CleanBy

\* A step of r, seen from the others.
LEMMA OnePast ==
  ASSUME CountsOK, PastsOK, NEW r \in Owner, Acts(r), StepOf(r), CleanBy(r), PastOK(r)'
  PROVE  PastsOK'
<1>1. ASSUME NEW q \in Owner \ {r} PROVE PastOK(q)'
  <2>1. state'[q] = state[q] /\ clean'[q] = clean[q] /\ PastOK(q)
    BY CleanFacts DEF StepOf, PastsOK
  <2>2. /\ ~ InStep(q, "validated") /\ ~ InStep(q, "validated")'
        /\ ~ InStep(q, "rejected") /\ ~ InStep(q, "rejected")'
    BY DEF Acts, StepOf, InStep, NoTurn
  <2>3. FedLen(q)' = FedLen(q) /\ Committed(q)' = Committed(q)
    BY <2>1, FedSame DEF Committed
  <2>4. StoredLen(q)' = StoredLen(q) /\ Stored(q)' = Stored(q)
    BY <2>2, <2>3 DEF StoredLen, Stored
  <2>5. Unspoilt(q)' => Unspoilt(q)
    BY <2>1, <2>2, <2>3 DEF Unspoilt, Going
  <2> QED
    BY <2>1, <2>4, <2>5 DEF PastOK
<1> QED
  BY <1>1, CleanFacts DEF PastsOK

\* A step that leaves the cache of r alone.
LEMMA PastStays ==
  ASSUME CountsOK, PastsOK, NEW r \in Owner, Acts(r), StepOf(r), CleanBy(r),
         state'[r].past = state[r].past,
         Unspoilt(r)' => /\ Unspoilt(r) /\ StoredLen(r)' = StoredLen(r)
                         /\ \A i \in 1 .. StoredLen(r) : Stored(r)'[i] = Stored(r)[i]
  PROVE  PastsOK'
<1>1. clean'[r] \in Int /\ PastOK(r)
  BY CleanFacts DEF PastsOK
<1>2. ASSUME Unspoilt(r)' PROVE IsStart(state'[r].past, StoredLen(r)', Stored(r)')
  <2>1. IsStart(state[r].past, StoredLen(r), Stored(r))
    BY <1>1, <1>2 DEF PastOK
  <2> QED
    BY <1>2, <2>1 DEF IsStart
<1>3. PastOK(r)'
  BY <1>1, <1>2 DEF PastOK
<1> QED
  BY <1>3, OnePast

\* A pass extends it in place.
LEMMA PastGrows ==
  ASSUME CountsOK, PastsOK, NEW r \in Owner, Acts(r), StepOf(r), CleanBy(r),
         NEW fed \in Seq(Token), state'[r].past = state[r].past \o fed,
         NEW n \in Nat,
         Unspoilt(r)' => /\ Unspoilt(r) /\ StoredLen(r) = n /\ StoredLen(r)' = n + Len(fed)
                         /\ \A i \in 1 .. n : Stored(r)'[i] = Stored(r)[i]
                         /\ \A j \in 1 .. Len(fed) : Stored(r)'[n + j] = fed[j]
  PROVE  PastsOK'
<1> DEFINE past == state[r].past
           text == Stored(r)'
<1>1. clean'[r] \in Int /\ PastOK(r) /\ past \in Seq(Token)
  BY CleanFacts DEF PastsOK, PastOK
<1>2. /\ past \o fed \in Seq(Token) /\ Len(past \o fed) = Len(past) + Len(fed) /\ Len(fed) \in Nat
  BY <1>1, ConcatTokens, LenProperties, Zenon
<1>3. ASSUME Unspoilt(r)' PROVE IsStart(past \o fed, StoredLen(r)', text)
  <2>1. IsStart(past, n, Stored(r))
    BY <1>1, <1>3 DEF PastOK
  <2>2. Len(past) = n /\ \A i \in 1 .. n : past[i] = text[i]
    BY <1>3, <2>1 DEF IsStart
  <2>3. /\ StoredLen(r)' = n + Len(fed)
        /\ \A j \in 1 .. Len(fed) : text[n + j] = fed[j]
    BY <1>3
  <2> HIDE DEF past, text
  <2>4. /\ \A i \in 1 .. n : (past \o fed)[i] = past[i]
        /\ \A j \in 1 .. Len(fed) : (past \o fed)[n + j] = fed[j]
    BY <1>1, <2>2, JoinFacts
  <2>5. ASSUME NEW i \in 1 .. n + Len(fed) PROVE (past \o fed)[i] = text[i]
    <3>1. CASE i <= n
      BY <1>2, <2>2, <2>4, <3>1
    <3>2. CASE ~ (i <= n)
      <4>1. i - n \in 1 .. Len(fed) /\ i = n + (i - n)
        BY <1>2, <3>2
      <4> QED
        BY <2>3, <2>4, <4>1
    <3> QED
      BY <3>1, <3>2
  <2> QED
    BY <1>2, <2>2, <2>3, <2>5 DEF IsStart
<1>4. PastOK(r)'
  BY <1>1, <1>2, <1>3 DEF PastOK
<1> QED
  BY <1>4, OnePast

\* The cache of r is harmed: of what it holds, only the type is known.
LEMMA PastSpoilt ==
  ASSUME CountsOK, PastsOK, NEW r \in Owner, Acts(r), StepOf(r), Spoils(r),
         NEW fed \in Seq(Token),
         state'[r].past = state[r].past \/ state'[r].past = state[r].past \o fed,
         FedLen(r)' \in Nat, FedLen(r) <= FedLen(r)'
  PROVE  PastsOK'
<1>1. /\ clean'[r] \in Int /\ clean'[r] <= FedLen(r) /\ FedLen(r) \in Nat
      /\ state[r].past \in Seq(Token)
  BY CleanFacts, StoredFacts DEF CleanBy, PastsOK, PastOK
<1>2. ~ Unspoilt(r)'
  BY <1>1 DEF Unspoilt
<1>3. state[r].past \o fed \in Seq(Token)
  BY <1>1, ConcatTokens, Zenon
<1>4. PastOK(r)'
  BY <1>1, <1>2, <1>3 DEF PastOK
<1> QED
  BY <1>4, OnePast DEF CleanBy

\* Steps that leave text and cache of r as they are, and steps that break off.
LEMMA PastQuiet ==
  ASSUME CountsOK, PastsOK, NEW r \in Owner, Acts(r), ~ Judging(r), StepOf(r), SameReply(r),
         ~ Judging(r)', NEW fed \in Seq(Token),
         \/ clean' = clean /\ state'[r].past = state[r].past
         \/ Spoils(r) /\ (state'[r].past = state[r].past \/ state'[r].past = state[r].past \o fed)
  PROVE  PastsOK'
<1>1. /\ FedLen(r)' = FedLen(r) /\ Committed(r)' = Committed(r) /\ FedLen(r) \in Nat
  BY SameText, StoredFacts
<1>2. CASE clean' = clean /\ state'[r].past = state[r].past
  <2>1. /\ StoredLen(r) = FedLen(r) /\ Stored(r) = Committed(r)
        /\ StoredLen(r)' = FedLen(r)' /\ Stored(r)' = Committed(r)'
    BY DEF StoredLen, Stored, Judging
  <2>2. Unspoilt(r)' => Unspoilt(r)
    BY <1>1, <1>2 DEF Unspoilt, Going, SameReply, Judging
  <2> QED
    BY <1>1, <1>2, <2>1, <2>2, PastStays DEF CleanBy
<1>3. CASE Spoils(r) /\ (state'[r].past = state[r].past \/ state'[r].past = state[r].past \o fed)
  BY <1>1, <1>3, PastSpoilt
<1> QED
  BY <1>2, <1>3

LEMMA PrefillPast ==
  ASSUME CountsOK, PhasesOK, PastsOK, NEW r \in Owner, Prefill(r)
  PROVE  PastsOK'
<1> DEFINE start == state[r].prefilled
           m == Chunk(r)
           fed == ChunkOf(r)
           p == Prompt(r)
<1>1. /\ StepOf(r) /\ turn = NoTurn /\ turn' = NoTurn
      /\ state'[r].generated = state[r].generated /\ state'[r].prefilled = start + m
      /\ state'[r].past = state[r].past \o fed
      /\ start < PromptLen[r]
      /\ PhaseOK(r)
  BY PrefillDoes DEF PhasesOK
<1>2. state[r].generated = <<>>
  BY <1>1, Constants DEF PhaseOK, CountsOK, StateOK
<1>3. /\ fed \in Seq(Token) /\ Len(fed) = m /\ start \in Nat /\ m \in Nat
      /\ \A j \in 1 .. m : p[start + j] = fed[j]
      /\ start + m <= PromptLen[r] /\ PromptLen[r] \in Nat
  <2>1. /\ fed \in Seq(Token) /\ Len(fed) = m /\ start \in Nat /\ m \in Nat
        /\ start + m <= PromptLen[r] /\ PromptLen[r] \in Nat
        /\ \A j \in 1 .. m : fed[j] = start + j - 1
    BY <1>1, ChunkCounts, Constants
  <2> HIDE DEF start, m, fed
  <2>2. ASSUME NEW j \in 1 .. m PROVE p[start + j] = fed[j]
    <3>1. start + j \in 1 .. PromptLen[r] /\ (start + j) - 1 = start + j - 1
      BY <2>1
    <3> QED
      BY <2>1, <3>1 DEF Prompt
  <2> QED
    BY <2>1, <2>2
<1>4. /\ ~ InStep(r, "validated") /\ ~ InStep(r, "validated")' /\ ~ InStep(r, "rejected")
      /\ Acts(r)
  BY <1>1 DEF InStep, NoTurn, Acts
<1>5. FedLen(r) = start /\ FedLen(r)' = start + m
  BY <1>1, <1>2 DEF FedLen
<1>6. /\ StoredLen(r) = start /\ StoredLen(r)' = start + m
      /\ Stored(r) = p \o <<>> /\ Stored(r)' = p \o <<>>
  BY <1>1, <1>2, <1>4, <1>5 DEF StoredLen, Stored, Committed, Prompt
<1>7. clean' = clean
  BY DEF Prefill
<1>8. CleanBy(r) /\ clean[r] \in Int
  BY <1>7 DEF CleanBy, PastsOK, PastOK
<1> HIDE DEF start, m, fed, p
<1>9. Unspoilt(r)' => Unspoilt(r)
  BY <1>2, <1>3, <1>4, <1>5, <1>7, <1>8 DEF Unspoilt, Going
<1>10. \A j \in 1 .. Len(fed) : Stored(r)'[start + j] = fed[j]
  <2>1. \A i \in 1 .. PromptLen[r] : (p \o <<>>)[i] = p[i]
    <3>1. <<>> \in Seq(Token) /\ p \in Seq(Token) /\ Len(p) = PromptLen[r]
      BY <1>3 DEF p, Prompt, Token
    <3> QED
      BY <1>3, <3>1, JoinFacts, Zenon
  <2> SUFFICES ASSUME NEW j \in 1 .. m PROVE (p \o <<>>)[start + j] = fed[j]
    BY <1>3, <1>6
  <2>2. start + j \in 1 .. PromptLen[r]
    BY <1>3
  <2> QED
    BY <1>3, <2>1, <2>2
<1>11. \A i \in 1 .. start : Stored(r)'[i] = Stored(r)[i]
  BY <1>6
<1>12. StoredLen(r)' = start + Len(fed)
  BY <1>3, <1>6
<1>13. state'[r].past = state[r].past \o fed
  BY <1>1
<1> QED
  BY <1>1, <1>3, <1>4, <1>6, <1>8, <1>9, <1>10, <1>11, <1>12, <1>13, PastGrows

LEMMA RaisedPast ==
  ASSUME CountsOK, PhasesOK, PastsOK, NEW r \in Owner, PrefillRaises(r) \/ DecodeRaises(r)
  PROVE  PastsOK'
<1>1. PICK start, fed : fed \in Seq(Token) /\ PassRaises(r, start, fed)
  <2>1. CASE PrefillRaises(r)
    <3>1. state[r].prefilled < PromptLen[r] /\ PassRaises(r, state[r].prefilled, ChunkOf(r))
      BY <2>1 DEF PrefillRaises, PrefillBatch
    <3>2. ChunkOf(r) \in Seq(Token)
      BY <3>1, ChunkCounts
    <3> QED
      BY <3>1, <3>2
  <2>2. CASE DecodeRaises(r)
    <3>1. DecodeBatch(r) /\ PassRaises(r, TokenCount(r) - 1, <<LastToken(r)>>)
      BY <2>2 DEF DecodeRaises
    <3>2. InDecode(r) /\ ~ HasPending(r) /\ PhaseOK(r)
      BY <3>1, ReservedFacts DEF DecodeBatch, PhasesOK
    <3>3. <<LastToken(r)>> \in Seq(Token)
      BY <3>2, LastFacts, OneMoreFed
    <3> QED
      BY <3>1, <3>3
  <2> QED
    BY <2>1, <2>2
<1>2. /\ StepOf(r) /\ SameReply(r) /\ turn' = NoTurn
      /\ \/ clean' = clean /\ state'[r].past = state[r].past
         \/ Spoils(r) /\ state'[r].past = state[r].past \o fed
  BY <1>1, PassRaisesDoes DEF Harm, HarmAfter, Spoils
<1>3. Acts(r) /\ ~ Judging(r) /\ ~ Judging(r)'
  BY <1>2 DEF PrefillRaises, PrefillBatch, DecodeRaises, DecodeBatch, Reserved, Acts, Judging,
              InStep, NoTurn
<1> QED
  BY <1>1, <1>2, <1>3, PastQuiet

LEMMA ReservePast ==
  ASSUME CountsOK, PastsOK, NEW r \in Owner, Reserve(r)
  PROVE  PastsOK'
<1>1. /\ state' = state /\ clean' = clean /\ turn = NoTurn
      /\ turn' = [step |-> "reserved", req |-> r]
  BY DEF Reserve
<1>2. StepOf(r) /\ SameReply(r) /\ Acts(r) /\ ~ Judging(r) /\ ~ Judging(r)'
  BY <1>1 DEF StepOf, SameReply, Acts, Judging, InStep, NoTurn
<1>3. <<>> \in Seq(Token)
  OBVIOUS
<1> QED
  BY <1>1, <1>2, <1>3, PastQuiet

\* Before the validation.
LEMMA BrokenOffPast ==
  ASSUME CountsOK, PhasesOK, PastsOK, NEW r \in Owner,
         DraftRaises(r) \/ RoundOverdraws(r) \/ ValidateRaises(r)
  PROVE  PastsOK'
<1>1. SpecBatch(r) /\ turn' = NoTurn /\ PhaseOK(r) /\ ~ HasPending(r)
  BY DEF SpecBatch, DraftRaises, RoundOverdraws, ValidateRaises, PhasesOK
<1>2. Acts(r) /\ ~ Judging(r) /\ ~ Judging(r)'
  BY <1>1 DEF SpecBatch, Reserved, Acts, Judging, InStep, NoTurn
<1>3. <<>> \in Seq(Token)
  OBVIOUS
<1>4. ASSUME DraftRaises(r) PROVE PastsOK'
  <2>1. StepOf(r) /\ SameReply(r) /\ state'[r].past = state[r].past /\ clean' = clean
    BY <1>4, DraftRaisesDoes DEF DraftRaises
  <2> QED
    BY <1>2, <1>3, <2>1, PastQuiet
<1>5. ASSUME RoundOverdraws(r) PROVE PastsOK'
  <2>1. StepOf(r) /\ SameReply(r) /\ clean' = clean
    BY <1>5, RoundDoes DEF DraftedBy, RoundOverdraws
  <2>2. state'[r].past = state[r].past
    BY <1>5, DraftedDoes DEF RoundOverdraws
  <2> QED
    BY <1>2, <1>3, <2>1, <2>2, PastQuiet
<1>6. ASSUME ValidateRaises(r) PROVE PastsOK'
  <2>1. StepOf(r) /\ SameReply(r)
    BY <1>6, RoundDoes DEF DraftedBy
  <2>2. PICK drafts \in Drafts(r) :
          \/ state' = [state EXCEPT ![r] = Drafted(r, drafts)] /\ clean' = clean
          \/ /\ state' = [state EXCEPT ![r] = [Drafted(r, drafts) EXCEPT
                                                 !.past = @ \o (<<LastToken(r)>> \o drafts)]]
             /\ Spoils(r)
    BY <1>6 DEF ValidateRaises, Harm, HarmAfter, Spoils
  <2> DEFINE fed == <<LastToken(r)>> \o drafts
  <2>3. fed \in Seq(Token)
    <3>1. InDecode(r) /\ drafts \in Seq(Token)
      BY <1>1, ProposedFacts
    <3> QED
      BY <1>1, <3>1, FedFrom
  <2>4. \/ state' = [state EXCEPT ![r] = Drafted(r, drafts)] /\ clean' = clean
        \/ /\ state' = [state EXCEPT ![r] = [Drafted(r, drafts) EXCEPT !.past = @ \o fed]]
           /\ Spoils(r)
    BY <2>2
  <2> HIDE DEF fed
  <2>5. \/ clean' = clean /\ state'[r].past = state[r].past
        \/ Spoils(r) /\ state'[r].past = state[r].past \o fed
    BY <2>4, DraftedDoes, ZenonT(40)
  <2> QED
    BY <1>2, <2>1, <2>3, <2>5, PastQuiet
<1> QED
  BY <1>4, <1>5, <1>6

LEMMA EmitPast ==
  ASSUME CountsOK, PhasesOK, PastsOK, NEW r \in Owner, EmitPending(r)
  PROVE  PastsOK'
<1>1. PhaseOK(r)
  BY DEF PhasesOK
<1>2. /\ StepOf(r) /\ Burst(r, <<state[r].pending>>) /\ InDecode(r) /\ state[r].pending \in Token
      /\ state'[r].past = state[r].past
  BY <1>1, EmitDoes, EmitTokens
<1>3. clean' = clean /\ HasPending(r) /\ Reserved(r) /\ turn' = NoTurn
  BY DEF EmitPending
<1>4. /\ BurstOf(r, <<state[r].pending>>, 1) /\ <<state[r].pending>> \in Seq(Token)
      /\ 1 \in 1 .. Len(<<state[r].pending>>)
  BY <1>2, OneTokenBurst
<1>5. FedLen(r)' = TokenCount(r) + 1 - 1
  BY <1>2, <1>4, BurstCounts
<1>6. \A i \in 1 .. TokenCount(r) : Committed(r)'[i] = Committed(r)[i]
  BY <1>2, <1>4, BurstText
<1>7. FedLen(r) = TokenCount(r) /\ state[r].generated = <<>>
  <2>1. state[r].generated = <<>> /\ state[r].prefilled = PromptLen[r] /\ Len(<<>>) = 0
    BY <1>1, <1>3 DEF PhaseOK, HasPending
  <2> QED
    BY <2>1, Constants DEF FedLen, TokenCount
<1>8. /\ ~ InStep(r, "validated") /\ ~ InStep(r, "validated")' /\ ~ InStep(r, "rejected")
      /\ Acts(r) /\ CleanBy(r)
  BY <1>3, NotValidated DEF Reserved, InStep, Acts, CleanBy
<1>9. TokenCount(r) \in Nat
  BY StoredFacts
<1>10. /\ StoredLen(r) = TokenCount(r) /\ StoredLen(r)' = TokenCount(r)
       /\ Stored(r) = Committed(r) /\ Stored(r)' = Committed(r)'
       /\ FedLen(r)' = FedLen(r)
  BY <1>5, <1>7, <1>8, <1>9 DEF StoredLen, Stored
<1>11. Unspoilt(r)' => Unspoilt(r)
  BY <1>3, <1>7, <1>8, <1>10 DEF Unspoilt, Going
<1> QED
  BY <1>2, <1>6, <1>8, <1>10, <1>11, PastStays

LEMMA DecodePast ==
  ASSUME CountsOK, PhasesOK, PastsOK, NEW r \in Owner, DecodeNext(r)
  PROVE  PastsOK'
<1> DEFINE fed == <<LastToken(r)>>
           n == TokenCount(r) - 1
<1>1. PICK t \in Chosen(state[r].past, <<LastToken(r)>>, 1, TokenCount(r)) :
        /\ StepOf(r) /\ Burst(r, <<t>>) /\ state'[r].past = state[r].past \o fed
  BY DecodeDoes
<1>2. InDecode(r) /\ t \in Token
  BY DecodeTokens
<1>3. clean' = clean /\ ~ HasPending(r) /\ PhaseOK(r) /\ Reserved(r) /\ turn' = NoTurn
  BY DEF DecodeNext, DecodeBatch, PhasesOK
<1>4. /\ LastToken(r) \in Token /\ FedLen(r) = n /\ n \in Nat /\ TokenCount(r) = n + 1
      /\ Committed(r)[TokenCount(r)] = LastToken(r)
  BY <1>2, <1>3, LastFacts, LastText
<1>5. BurstOf(r, <<t>>, 1) /\ <<t>> \in Seq(Token) /\ 1 \in 1 .. Len(<<t>>)
  BY <1>1, <1>2, OneTokenBurst
<1>6. FedLen(r)' = TokenCount(r) + 1 - 1
  BY <1>2, <1>5, BurstCounts
<1>7. \A i \in 1 .. TokenCount(r) : Committed(r)'[i] = Committed(r)[i]
  BY <1>2, <1>5, BurstText
<1>8. fed \in Seq(Token) /\ Len(fed) = 1 /\ fed[1] = LastToken(r)
  BY <1>4, OneMoreFed
<1>9. /\ ~ InStep(r, "validated") /\ ~ InStep(r, "validated")' /\ ~ InStep(r, "rejected")
      /\ Acts(r) /\ CleanBy(r) /\ clean[r] \in Int
  BY <1>3, NotValidated DEF Reserved, InStep, Acts, CleanBy, PastsOK, PastOK
<1> HIDE DEF n, fed
<1>10. /\ StoredLen(r) = n /\ StoredLen(r)' = n + Len(fed)
       /\ Stored(r) = Committed(r) /\ Stored(r)' = Committed(r)'
       /\ FedLen(r)' = n + 1
  BY <1>4, <1>6, <1>8, <1>9 DEF StoredLen, Stored
<1>11. Unspoilt(r)' => Unspoilt(r)
  BY <1>2, <1>3, <1>4, <1>9, <1>10 DEF Unspoilt, Going, InDecode
<1>12. \A i \in 1 .. n : Stored(r)'[i] = Stored(r)[i]
  BY <1>4, <1>7, <1>10
<1>13. \A j \in 1 .. Len(fed) : Stored(r)'[n + j] = fed[j]
  <2>1. TokenCount(r) \in 1 .. TokenCount(r)
    BY <1>4
  <2>2. Stored(r)'[n + 1] = fed[1]
    BY <1>4, <1>7, <1>8, <1>10, <2>1
  <2>3. \A j \in 1 .. Len(fed) : j = 1
    BY <1>8
  <2> QED
    BY <2>2, <2>3
<1> QED
  BY <1>1, <1>4, <1>8, <1>9, <1>10, <1>11, <1>12, <1>13, PastGrows

LEMMA ValidatePast ==
  ASSUME CountsOK, PhasesOK, PastsOK, NEW r \in Owner, Validate(r)
  PROVE  PastsOK'
<1>1. PhaseOK(r) /\ SpecBatch(r) /\ ~ HasPending(r) /\ clean' = clean
  BY DEF PhasesOK, Validate, SpecBatch
<1>2. PICK drafts \in Drafts(r) :
        /\ state' = [state EXCEPT ![r] = [Drafted(r, drafts) EXCEPT
                                            !.past = @ \o (<<LastToken(r)>> \o drafts)]]
        /\ \E targets : turn' = Judged("validated", r, drafts, targets)
  BY DEF Validate, Judged
<1> DEFINE fed == <<LastToken(r)>> \o drafts
           n == TokenCount(r) - 1
           c == Committed(r)
<1>3. InDecode(r) /\ drafts \in Seq(Token)
  BY <1>1, ProposedFacts
<1>4. /\ fed \in Seq(Token) /\ Len(drafts) \in Nat /\ FedLen(r) = n /\ n \in Nat
      /\ Len(fed) = Len(drafts) + 1 /\ n + Len(fed) = TokenCount(r) + Len(drafts)
      /\ TokenCount(r) = n + 1 /\ fed[1] = c[n + 1]
      /\ \A j \in 1 .. Len(drafts) : fed[1 + j] = drafts[j]
  BY <1>1, <1>3, FedFrom
<1>5. state' = [state EXCEPT ![r] = [Drafted(r, drafts) EXCEPT !.past = @ \o fed]]
  BY <1>2
<1> HIDE DEF fed
<1>6. StepOf(r) /\ SameReply(r) /\ state'[r].past = state[r].past \o fed
  BY <1>1, <1>5, DraftedDoes, RoundDoes DEF DraftedBy
<1>7. turn'.step = "validated" /\ turn'.req = r /\ turn'.drafts = drafts
  BY <1>2 DEF Judged
<1>8. ~ InStep(r, "validated") /\ ~ InStep(r, "rejected") /\ Acts(r) /\ CleanBy(r)
  BY <1>1 DEF SpecBatch, Reserved, Acts, InStep, CleanBy
<1>9. TokenCount(r)' = TokenCount(r) /\ Committed(r)' = c /\ FedLen(r)' = FedLen(r)
  BY <1>6, SameText
<1>10. /\ StoredLen(r) = n /\ Stored(r) = c
       /\ StoredLen(r)' = n + Len(fed) /\ Stored(r)' = c \o drafts
  BY <1>4, <1>7, <1>8, <1>9 DEF StoredLen, Stored, InStep
<1>11. c \in Seq(Token) /\ Len(c) = TokenCount(r) /\ TokenCount(r) \in Nat
  BY CommittedFacts DEF CountsOK
<1>12. Unspoilt(r)' => Unspoilt(r)
  BY <1>1, <1>3, <1>8, <1>9 DEF Unspoilt, Going, InDecode
<1> HIDE DEF c, n
<1>13. /\ \A i \in 1 .. TokenCount(r) : (c \o drafts)[i] = c[i]
       /\ \A j \in 1 .. Len(drafts) : (c \o drafts)[TokenCount(r) + j] = drafts[j]
  BY <1>3, <1>11, JoinFacts
<1>14. \A i \in 1 .. n : Stored(r)'[i] = Stored(r)[i]
  <2> SUFFICES ASSUME NEW i \in 1 .. n PROVE (c \o drafts)[i] = c[i]
    BY <1>10
  <2>1. i \in 1 .. TokenCount(r)
    BY <1>4
  <2> QED
    BY <1>13, <2>1, Zenon
<1>15. ASSUME NEW j \in 1 .. Len(fed) PROVE Stored(r)'[n + j] = fed[j]
  <2>1. CASE j = 1
    <3>1. n + 1 \in 1 .. TokenCount(r)
      BY <1>4
    <3> QED
      BY <1>4, <1>10, <1>13, <2>1, <3>1
  <2>2. CASE j # 1
    <3>1. /\ j - 1 \in 1 .. Len(drafts) /\ 1 + (j - 1) = j /\ TokenCount(r) + (j - 1) = n + j
      BY <1>4, <2>2
    <3>2. (c \o drafts)[TokenCount(r) + (j - 1)] = drafts[j - 1]
      BY <1>13, <3>1, Zenon
    <3>3. fed[1 + (j - 1)] = drafts[j - 1]
      BY <1>4, <3>1, Zenon
    <3> QED
      BY <1>10, <3>1, <3>2, <3>3
  <2> QED
    BY <2>1, <2>2
<1> QED
  BY <1>4, <1>6, <1>8, <1>10, <1>12, <1>14, <1>15, PastGrows

\* A burst that ends the reply leaves tokens in the cache; but then nobody reads it.
LEMMA AcceptPast ==
  ASSUME CountsOK, PastsOK, NEW r \in Owner, AcceptAll(r)
  PROVE  PastsOK'
<1> DEFINE drafts == turn.drafts
           tokens == Append(drafts, Last(turn.targets))
<1>1. InStep(r, "validated") /\ clean' = clean
  BY DEF AcceptAll
<1>2. StepOf(r) /\ Burst(r, tokens) /\ state'[r].past = state[r].past
  BY AcceptDoes
<1>3. /\ InDecode(r) /\ Len(drafts) \in Nat /\ tokens \in Seq(Token) /\ Len(tokens) = Len(drafts) + 1
      /\ \A i \in 1 .. Len(drafts) : tokens[i] = drafts[i]
  BY <1>1, AcceptTokens
<1>4. /\ TokenCount(r) \in Nat /\ FedLen(r) \in Nat /\ FedLen(r) <= TokenCount(r)
      /\ \A i \in 1 .. TokenCount(r) : Stored(r)[i] = Committed(r)[i]
      /\ \A j \in 1 .. Len(drafts) : Stored(r)[TokenCount(r) + j] = drafts[j]
      /\ StoredLen(r) = TokenCount(r) + Len(drafts)
  BY <1>1, StoredFacts DEF StoredLen
<1>5. turn' = NoTurn /\ Acts(r) /\ ~ InStep(r, "rejected") /\ CleanBy(r) /\ clean[r] \in Int
  BY <1>1, <1>2 DEF Burst, InStep, Acts, CleanBy, PastsOK, PastOK
<1> HIDE DEF drafts, tokens
<1>6. PICK k \in 1 .. Len(tokens) : BurstOf(r, tokens, k)
  <2>1. Len(tokens) >= 1
    BY <1>3
  <2> QED
    BY <1>1, <1>2, <1>3, <2>1, BurstFacts, Zenon
<1>7. /\ FedLen(r)' = TokenCount(r) + k - 1 /\ k \in Nat /\ k <= Len(drafts) + 1 /\ k >= 1
      /\ Len(state'[r].generated) = Len(state[r].generated) + k
      /\ Len(state[r].generated) \in Nat
  BY <1>3, <1>6, BurstCounts, SMTT(30)
<1>8. /\ \A i \in 1 .. TokenCount(r) : Committed(r)'[i] = Committed(r)[i]
      /\ \A j \in 1 .. k : Committed(r)'[TokenCount(r) + j] = tokens[j]
  BY <1>3, <1>6, BurstText
<1>9. StoredLen(r)' = FedLen(r)' /\ Stored(r)' = Committed(r)'
  BY <1>5, NotValidated DEF StoredLen, Stored
<1>10. ASSUME Unspoilt(r)'
       PROVE  /\ Unspoilt(r) /\ StoredLen(r)' = StoredLen(r)
              /\ \A i \in 1 .. StoredLen(r) : Stored(r)'[i] = Stored(r)[i]
  <2>1. state'[r].generated # <<>>
    <3>1. Len(state'[r].generated) # 0 /\ Len(<<>>) = 0
      BY <1>7
    <3> QED
      BY <3>1
  <2>2. ~ (k < Len(tokens))
    BY <1>6, <1>10, <2>1 DEF BurstOf, Unspoilt, Going
  <2>3. k = Len(drafts) + 1 /\ FedLen(r)' = TokenCount(r) + Len(drafts)
    BY <1>3, <1>4, <1>7, <2>2
  <2>4. Unspoilt(r)
    BY <1>1, <1>3, <1>4, <1>5, <1>10, <2>3 DEF Unspoilt, Going, InDecode
  <2>5. ASSUME NEW i \in 1 .. TokenCount(r) + Len(drafts) PROVE Stored(r)'[i] = Stored(r)[i]
    <3>1. CASE i <= TokenCount(r)
      BY <1>3, <1>4, <1>8, <1>9, <3>1
    <3>2. CASE ~ (i <= TokenCount(r))
      <4>1. PICK j \in 1 .. k : j \in 1 .. Len(drafts) /\ i = TokenCount(r) + j
        <5>1. /\ i - TokenCount(r) \in 1 .. k /\ i - TokenCount(r) \in 1 .. Len(drafts)
              /\ i = TokenCount(r) + (i - TokenCount(r))
          BY <1>3, <1>4, <1>7, <2>3, <3>2
        <5> QED
          BY <5>1
      <4> QED
        BY <1>3, <1>4, <1>8, <1>9, <4>1
    <3> QED
      BY <3>1, <3>2
  <2> QED
    BY <1>4, <1>9, <2>3, <2>4, <2>5
<1> QED
  BY <1>2, <1>5, <1>10, PastStays

LEMMA RejectPast ==
  ASSUME CountsOK, PastsOK, NEW r \in Owner, Reject(r)
  PROVE  PastsOK'
<1>1. /\ state' = state /\ clean' = clean /\ InStep(r, "validated")
      /\ turn' = [turn EXCEPT !.step = "rejected"]
      /\ turn = Judged("validated", r, turn.drafts, turn.targets)
  BY JudgedFacts DEF Reject
<1>2. turn'.step = "rejected" /\ turn'.req = r
  BY <1>1 DEF Judged
<1>3. StepOf(r) /\ Acts(r) /\ CleanBy(r) /\ ~ Unspoilt(r)'
  BY <1>1, <1>2 DEF StepOf, Acts, InStep, CleanBy, Unspoilt
<1> QED
  BY <1>1, <1>3, PastStays

LEMMA ReplayPast ==
  ASSUME CountsOK, PhasesOK, PastsOK, NEW r \in Owner, Replay(r) \/ ReplayRaises(r)
  PROVE  PastsOK'
<1> DEFINE fed == ReplayFed(r)
           tokens == Corrected(turn.drafts, turn.targets)
<1>1. PhaseOK(r) /\ InStep(r, "rejected") /\ Spoils(r)
  BY DEF PhasesOK, Replay, ReplayRaises, ReplayBatch, Harm, HarmAfter, Spoils
<1>2. Acts(r) /\ fed \in Seq(Token) /\ FedLen(r) = TokenCount(r) - 1 /\ FedLen(r) \in Nat
  BY <1>1, ReplayedFed DEF InStep, Acts
<1>3. CASE Replay(r)
  <2>1. StepOf(r) /\ Burst(r, tokens) /\ state'[r].past = state[r].past \o fed
    BY <1>3, ReplayDoes
  <2>2. InDecode(r) /\ tokens \in Seq(Token) /\ Len(tokens) >= 1
    BY <1>1, ReplayTokens
  <2> HIDE DEF fed, tokens
  <2>3. PICK k \in 1 .. Len(tokens) : BurstOf(r, tokens, k)
    BY <2>1, <2>2, BurstFacts, Zenon
  <2>4. FedLen(r)' = TokenCount(r) + k - 1 /\ k \in Nat /\ TokenCount(r) \in Nat
    BY <2>2, <2>3, BurstCounts
  <2>5. FedLen(r)' \in Nat /\ FedLen(r) <= FedLen(r)'
    BY <1>2, <2>4
  <2> QED
    BY <1>1, <1>2, <2>1, <2>5, PastSpoilt
<1>4. CASE ReplayRaises(r)
  <2>1. StepOf(r) /\ SameReply(r)
    BY <1>4, ReplayRaisesDoes
  <2>2. state'[r].past = state[r].past \/ state'[r].past = state[r].past \o fed
    <3>1. r \in DOMAIN state /\ "past" \in DOMAIN state[r]
      BY DEF CountsOK, StateOK, Fields
    <3>2. state' = state \/ state' = [state EXCEPT ![r] = Extended(r, fed)]
      BY <1>4 DEF ReplayRaises
    <3> HIDE DEF fed
    <3> QED
      BY <3>1, <3>2 DEF Extended
  <2>3. FedLen(r)' = FedLen(r)
    BY <2>1, SameText
  <2> HIDE DEF fed
  <2> QED
    BY <1>1, <1>2, <2>1, <2>2, <2>3, PastSpoilt
<1> QED
  BY <1>3, <1>4

LEMMA StepPasts == CountsOK /\ PhasesOK /\ PastsOK /\ [Next]_vars => PastsOK'
<1> SUFFICES ASSUME CountsOK, PhasesOK, PastsOK, [Next]_vars PROVE PastsOK'
  OBVIOUS
<1>1. ASSUME UNCHANGED vars \/ FreePage PROVE PastsOK'
  <2>1. state' = state /\ turn' = turn /\ clean' = clean
    BY <1>1 DEF vars, execVars, FreePage
  <2>2. \A q \in Owner : /\ FedLen(q)' = FedLen(q) /\ TokenCount(q)' = TokenCount(q)
                         /\ Committed(q)' = Committed(q)
                         /\ InStep(q, "validated")' = InStep(q, "validated")
                         /\ InStep(q, "rejected")' = InStep(q, "rejected")
    BY <2>1 DEF FedLen, TokenCount, Committed, Prompt, InStep
  <2>3. \A q \in Owner : StoredLen(q)' = StoredLen(q) /\ Stored(q)' = Stored(q)
    BY <2>1, <2>2 DEF StoredLen, Stored
  <2> QED
    BY <2>1, <2>2, <2>3 DEF PastsOK, PastOK, Unspoilt, Going
<1> QED
  BY <1>1, PrefillPast, RaisedPast, ReservePast, EmitPast, DecodePast, BrokenOffPast, ValidatePast,
     AcceptPast, RejectPast, ReplayPast DEF Next

LEMMA InitPasts == Init => PastsOK
<1> SUFFICES ASSUME Init PROVE PastsOK
  OBVIOUS
<1>1. clean = [q \in Owner |-> PromptLen[q] + MaxNewTokens[q]]
  BY DEF Init
<1>2. ASSUME NEW q \in Owner PROVE PastOK(q)
  <2>1. /\ state[q].generated = <<>> /\ state[q].prefilled = 0 /\ state[q].past = <<>>
        /\ ~ InStep(q, "validated")
    BY <1>2 DEF Init, NewState, InStep, NoTurn
  <2>2. StoredLen(q) = 0
    BY <2>1 DEF StoredLen, FedLen
  <2>3. IsStart(<<>>, 0, Stored(q))
    BY DEF IsStart
  <2>4. clean[q] \in Int
    BY <1>1, Constants
  <2> QED
    BY <2>1, <2>2, <2>3, <2>4 DEF PastOK
<1> QED
  BY <1>1, <1>2 DEF PastsOK

-----------------------------------------------------------------------------
(* What a pass writes *)

\* The row of a pass that is fed a text behind its start attends to the text.
LEMMA VisibleStart ==
  ASSUME NEW past \in Seq(Token), NEW fed \in Seq(Token), NEW start \in Nat, Len(past) = start,
         NEW text, NEW j \in 1 .. Len(fed),
         \A i \in 1 .. start : past[i] = text[i],
         \A l \in 1 .. j : fed[l] = text[start + l]
  PROVE  IsStart(Visible(past, fed, j), start + j, text)
<1> DEFINE keys == past \o fed
<1>1. /\ keys \in Seq(Token) /\ Len(keys) = start + Len(fed) /\ Len(fed) \in Nat
      /\ \A i \in 1 .. start : keys[i] = past[i]
      /\ \A l \in 1 .. Len(fed) : keys[start + l] = fed[l]
  <2>1. keys \in Seq(Token) /\ Len(keys) = Len(past) + Len(fed)
    BY ConcatTokens, Zenon
  <2> QED
    BY <2>1, JoinFacts
<1>2. j + Offset(Len(keys), Len(fed)) = start + j
  BY <1>1 DEF Offset
<1>3. Visible(past, fed, j) = SubSeq(keys, 1, start + j)
  BY <1>2 DEF Visible
<1> HIDE DEF keys
<1>4. start + j \in 0 .. Len(keys)
  BY <1>1
<1>5. SubSeq(keys, 1, start + j) \in Seq(Token) /\ Len(SubSeq(keys, 1, start + j)) = start + j
  BY <1>1, <1>4, PrefixFacts
<1>6. \A i \in 1 .. start + j : SubSeq(keys, 1, start + j)[i] = keys[i]
  <2>1. \A i \in 1 .. start + j : keys[i] \in Token
    BY <1>1, <1>4, ElementOfSeq
  <2> QED
    BY <1>1, <1>4, <2>1, SubSeqProperties
<1>7. ASSUME NEW i \in 1 .. start + j PROVE keys[i] = text[i]
  <2>1. CASE i <= start
    BY <1>1, <2>1
  <2>2. CASE ~ (i <= start)
    <3>1. i - start \in 1 .. j /\ i - start \in 1 .. Len(fed) /\ i = start + (i - start)
      BY <1>1, <2>2
    <3> QED
      BY <1>1, <3>1, ZenonT(40)
  <2> QED
    BY <2>1, <2>2
<1> QED
  BY <1>3, <1>5, <1>6, <1>7 DEF IsStart

\* store_layer_tokens writes the positions it is called for, and no others.
LEMMA MirrorWrites ==
  ASSUME KVInv', NEW r \in Owner, NEW start \in Nat, NEW fed \in Seq(Token), Mirror(r, start, fed),
         \A pos \in 0 .. start + Len(fed) - 1 : Covered(r, pos)'
  PROVE  /\ \A i \in 1 .. Len(fed) : slots'[SlotOf(block_table'[r], start + i - 1)] = Row(r, fed, i)
         /\ \A q \in Owner : \A pos : Covered(q, pos)' /\ (q # r \/ pos < start) =>
              slots'[SlotOf(block_table'[q], pos)] = slots[SlotOf(block_table'[q], pos)]
<1>0. /\ \A q \in Owner : \A pos : Covered(q, pos)' => SlotOf(block_table'[q], pos) \in Slot
      /\ \A p, q \in Owner : \A i, j : /\ Covered(p, i)' /\ Covered(q, j)'
                                       /\ SlotOf(block_table'[p], i) = SlotOf(block_table'[q], j)
                                       => p = q /\ i = j
  <2>1. SlotsApart'
    BY ApartSlots, PTL
  <2> QED
    BY <2>1 DEF SlotsApart
<1> DEFINE At(i) == SlotOf(block_table'[r], start + i - 1)
           Here(x) == {i \in DOMAIN fed : At(i) = x}
<1>1. DOMAIN fed = 1 .. Len(fed) /\ Len(fed) \in Nat
  BY LenProperties
<1>2. \A x \in Slot : slots'[x] = IF Here(x) = {} THEN slots[x] ELSE Row(r, fed, CHOOSE i \in Here(x) : TRUE)
  BY DEF Mirror
<1>3. \A i \in 1 .. Len(fed) : Covered(r, start + i - 1)'
  <2> SUFFICES ASSUME NEW i \in 1 .. Len(fed) PROVE Covered(r, start + i - 1)'
    OBVIOUS
  <2>1. start + i - 1 \in 0 .. start + Len(fed) - 1
    BY <1>1
  <2> QED
    BY <2>1
<1>4. ASSUME NEW i \in 1 .. Len(fed) PROVE slots'[At(i)] = Row(r, fed, i)
  <2>1. At(i) \in Slot
    BY <1>0, <1>3
  <2>2. Here(At(i)) = {i}
    <3>1. i \in Here(At(i))
      BY <1>1
    <3>2. ASSUME NEW j \in 1 .. Len(fed), At(j) = At(i) PROVE j = i
      <4>1. start + j - 1 = start + i - 1
        BY <1>0, <1>3, <3>2
      <4> QED
        BY <1>1, <4>1
    <3> QED
      BY <1>1, <3>1, <3>2
  <2> HIDE DEF At
  <2> QED
    BY <1>2, <2>1, <2>2
<1>5. ASSUME NEW q \in Owner, NEW pos, Covered(q, pos)', q # r \/ pos < start
      PROVE  slots'[SlotOf(block_table'[q], pos)] = slots[SlotOf(block_table'[q], pos)]
  <2> DEFINE x == SlotOf(block_table'[q], pos)
  <2>1. x \in Slot
    BY <1>0, <1>5
  <2>2. ASSUME NEW i \in 1 .. Len(fed), At(i) = x PROVE FALSE
    <3>1. q = r /\ pos = start + i - 1
      BY <1>0, <1>3, <1>5, <2>2
    <3> QED
      BY <1>1, <1>5, <3>1
  <2>3. Here(x) = {}
    BY <1>1, <2>2
  <2> HIDE DEF x, Here
  <2> QED
    BY <1>2, <2>1, <2>3 DEF x
<1> QED
  BY <1>4, <1>5

\* A row of r for position i of a text, computed in the context of that text if i is
\* among the first n positions.
RowIs(row, r, text, i, n) ==
  /\ row # <<>> /\ row[1] = r /\ row[2] = text[i]
  /\ i <= n => IsStart(row[3], i, text)

StoredOK(r) ==
  \A i \in 1 .. StoredLen(r) :
    RowIs(slots[SlotOf(block_table[r], i - 1)], r, Stored(r), i, clean[r])

\* It is one for a text that begins in the same way.
LEMMA RowStays ==
  ASSUME NEW row, NEW r, NEW text, NEW more, NEW i \in Nat \ {0}, NEW n \in Int, NEW m \in Int,
         m <= n, \A j \in 1 .. i : more[j] = text[j], RowIs(row, r, text, i, n)
  PROVE  RowIs(row, r, more, i, m)
<1>1. i \in 1 .. i /\ (i <= m => i <= n)
  OBVIOUS
<1> QED
  BY <1>1 DEF RowIs, IsStart

PlacesOK == TablesOK /\ PhasesOK /\ PastsOK /\ \A q \in Owner : StoredOK(q)

LEMMA PlaceClean ==
  ASSUME PlacesOK, NEW r \in Owner, CleanBy(r)
  PROVE  /\ DOMAIN clean' = Owner /\ \A q \in Owner \ {r} : clean'[q] = clean[q]
         /\ clean[r] \in Int /\ clean'[r] \in Int /\ clean'[r] <= clean[r]
         /\ Spoils(r) => clean'[r] <= FedLen(r)
BY CleanFacts DEF PlacesOK, TablesOK

\* What a pass attends to, as far as its rows count.
LEMMA PastKnown ==
  ASSUME PlacesOK, NEW r \in Owner, CleanBy(r), ~ InStep(r, "validated"), Going(r),
         InStep(r, "rejected") => Spoils(r)
  PROVE  clean'[r] > FedLen(r) => IsStart(state[r].past, FedLen(r), Stored(r))
<1>1. /\ clean[r] \in Int /\ clean'[r] \in Int /\ clean'[r] <= clean[r] /\ FedLen(r) \in Nat
      /\ Spoils(r) => clean'[r] <= FedLen(r)
  BY PlaceClean, StoredFacts DEF PlacesOK, TablesOK
<1>2. StoredLen(r) = FedLen(r) /\ PastOK(r)
  BY StoredText DEF PlacesOK, PastsOK
<1>3. clean'[r] > FedLen(r) => Unspoilt(r)
  BY <1>1 DEF Unspoilt
<1> QED
  BY <1>2, <1>3 DEF PastOK

\* The tables of the others stay, and that of r up to n positions.
TablesKept(r, n) ==
  /\ \A q \in Owner \ {r} : block_table'[q] = block_table[q]
  /\ \A pos \in 0 .. n - 1 : SlotOf(block_table'[r], pos) = SlotOf(block_table[r], pos)

LEMMA StoredCovered ==
  ASSUME TablesOK, NEW r \in Owner
  PROVE  StoredLen(r) \in Nat /\ \A pos \in 0 .. StoredLen(r) - 1 : Covered(r, pos)
<1>1. CountsOK /\ KVInv /\ TableOK(r) /\ StateOK(r)
  BY DEF TablesOK, CountsOK
<1>2. StoredLen(r) \in Nat /\ PagesRequired(StoredLen(r)) <= Len(block_table[r])
  <2>1. CASE InStep(r, "validated")
    <3>1. Len(turn.drafts) \in Nat
      BY <1>1, <2>1, JudgedFacts, LenProperties
    <3>2. TokenCount(r) + Len(turn.drafts) \in Nat
      BY <1>1, <3>1, CountFacts
    <3> QED
      BY <1>1, <2>1, <3>2 DEF StoredLen, TableOK, Room
  <2>2. CASE ~ InStep(r, "validated")
    BY <1>1, <2>2, FedFacts DEF StoredLen, TableOK, Within
  <2> QED
    BY <2>1, <2>2
<1> QED
  BY <1>1, <1>2, RoomCovers

\* The same, to be used after a step.
RoomIsCovered ==
  \A r \in Owner : \A n \in Nat : PagesRequired(n) <= Len(block_table[r]) =>
    \A pos \in 0 .. n - 1 : Covered(r, pos)

LengthsOK == \A q \in Owner : StoredLen(q) \in Nat

LEMMA CoveredRoom == KVInv => RoomIsCovered
BY RoomCovers DEF RoomIsCovered

LEMMA StoredLengths == TablesOK => LengthsOK
BY StoredCovered DEF LengthsOK

LEMMA OthersStored ==
  ASSUME PlacesOK, TablesOK', NEW r \in Owner, Acts(r), StepOf(r), CleanBy(r),
         \A q \in Owner \ {r} : block_table'[q] = block_table[q],
         \A q \in Owner \ {r} : \A pos : Covered(q, pos)' =>
           slots'[SlotOf(block_table'[q], pos)] = slots[SlotOf(block_table'[q], pos)],
         NEW q \in Owner \ {r}
  PROVE  StoredOK(q)'
<1>1. /\ ~ InStep(q, "validated") /\ ~ InStep(q, "validated")' /\ state'[q] = state[q]
      /\ block_table'[q] = block_table[q]
  BY DEF Acts, StepOf, InStep, NoTurn
<1>2. /\ StoredLen(q) = FedLen(q) /\ Stored(q) = Committed(q)
      /\ StoredLen(q)' = FedLen(q)' /\ Stored(q)' = Committed(q)'
  BY <1>1 DEF StoredLen, Stored
<1>3. FedLen(q)' = FedLen(q) /\ Committed(q)' = Committed(q)
  BY <1>1, FedSame DEF Committed
<1>4. StoredLen(q)' = StoredLen(q) /\ Stored(q)' = Stored(q)
  BY <1>2, <1>3
<1>5. /\ StoredLen(q) \in Nat
      /\ \A pos \in 0 .. StoredLen(q) - 1 : Covered(q, pos)
  BY StoredCovered DEF PlacesOK
<1>6. \A pos \in 0 .. StoredLen(q) - 1 : Covered(q, pos)'
  BY <1>1, <1>5 DEF Covered
<1>7. ASSUME NEW i \in 1 .. StoredLen(q)
      PROVE  RowIs(slots'[SlotOf(block_table'[q], i - 1)], q, Stored(q), i, clean'[q])
  <2>1. i - 1 \in 0 .. StoredLen(q) - 1
    BY <1>5
  <2>2. slots'[SlotOf(block_table'[q], i - 1)] = slots[SlotOf(block_table'[q], i - 1)]
    BY <1>6, <2>1
  <2>3. RowIs(slots[SlotOf(block_table[q], i - 1)], q, Stored(q), i, clean[q])
    BY DEF PlacesOK, StoredOK
  <2>4. clean'[q] = clean[q]
    BY PlaceClean
  <2> QED
    BY <1>1, <2>2, <2>3, <2>4
<1> QED
  BY <1>4, <1>7 DEF StoredOK

\* A step that stores nothing.
LEMMA QuietStored ==
  ASSUME PlacesOK, TablesOK', NEW r \in Owner, Acts(r), StepOf(r), CleanBy(r), slots' = slots,
         TablesKept(r, StoredLen(r)'), StoredLen(r)' <= StoredLen(r),
         \A i \in 1 .. StoredLen(r)' : Stored(r)'[i] = Stored(r)[i]
  PROVE  \A q \in Owner : StoredOK(q)'
<1>1. \A q \in Owner \ {r} : StoredOK(q)'
  BY OthersStored DEF TablesKept
<1>2. StoredLen(r) \in Nat
  BY StoredCovered DEF PlacesOK
<1>3. StoredLen(r)' \in Nat
  <2>1. LengthsOK'
    BY StoredLengths, PTL
  <2> QED
    BY <2>1 DEF LengthsOK
<1>4. ASSUME NEW i \in 1 .. StoredLen(r)'
      PROVE  RowIs(slots'[SlotOf(block_table'[r], i - 1)], r, Stored(r)', i, clean'[r])
  <2>1. /\ i - 1 \in 0 .. StoredLen(r)' - 1 /\ i \in 1 .. StoredLen(r) /\ i \in Nat \ {0}
        /\ \A j \in 1 .. i : j \in 1 .. StoredLen(r)'
    BY <1>2, <1>3
  <2>2. RowIs(slots[SlotOf(block_table[r], i - 1)], r, Stored(r), i, clean[r])
    BY <2>1 DEF PlacesOK, StoredOK
  <2>3. SlotOf(block_table'[r], i - 1) = SlotOf(block_table[r], i - 1)
    BY <2>1 DEF TablesKept
  <2>4. clean[r] \in Int /\ clean'[r] \in Int /\ clean'[r] <= clean[r]
    BY PlaceClean
  <2>5. \A j \in 1 .. i : Stored(r)'[j] = Stored(r)[j]
    BY <2>1
  <2>6. RowIs(slots[SlotOf(block_table[r], i - 1)], r, Stored(r)', i, clean'[r])
    BY <2>1, <2>2, <2>4, <2>5, RowStays, Zenon
  <2> QED
    BY <2>3, <2>6
<1>5. StoredOK(r)'
  BY <1>4 DEF StoredOK
<1> QED
  BY <1>1, <1>5

\* A pass that stores the tokens it is fed, right behind what is stored already
\* or over its end.
LEMMA FedStored ==
  ASSUME PlacesOK, TablesOK', NEW r \in Owner, Acts(r), StepOf(r), CleanBy(r),
         NEW start \in Nat, NEW fed \in Seq(Token), Mirror(r, start, fed),
         TablesKept(r, start), start <= StoredLen(r),
         PagesRequired(start + Len(fed)) <= Len(block_table'[r]),
         StoredLen(r)' <= start + Len(fed),
         clean'[r] > start => IsStart(state[r].past, start, Stored(r)),
         \A i \in 1 .. start : i <= StoredLen(r)' => Stored(r)'[i] = Stored(r)[i],
         \A j \in 1 .. Len(fed) : start + j <= StoredLen(r)' => Stored(r)'[start + j] = fed[j]
  PROVE  \A q \in Owner : StoredOK(q)'
<1>1. Len(fed) \in Nat /\ start + Len(fed) \in Nat /\ StoredLen(r) \in Nat /\ KVInv'
  BY StoredCovered, LenProperties DEF PlacesOK, TablesOK
<1>2. \A pos \in 0 .. start + Len(fed) - 1 : Covered(r, pos)'
  <2>1. RoomIsCovered'
    BY <1>1, CoveredRoom, PTL
  <2> QED
    BY <1>1, <2>1 DEF RoomIsCovered
<1>3. /\ \A i \in 1 .. Len(fed) : slots'[SlotOf(block_table'[r], start + i - 1)] = Row(r, fed, i)
      /\ \A q \in Owner : \A pos : Covered(q, pos)' /\ (q # r \/ pos < start) =>
           slots'[SlotOf(block_table'[q], pos)] = slots[SlotOf(block_table'[q], pos)]
  BY <1>1, <1>2, MirrorWrites
<1>4. \A q \in Owner \ {r} : StoredOK(q)'
  BY <1>3, OthersStored DEF TablesKept
<1>5. StoredLen(r)' \in Nat
  <2>1. LengthsOK'
    BY StoredLengths, PTL
  <2> QED
    BY <2>1 DEF LengthsOK
<1>6. clean[r] \in Int /\ clean'[r] \in Int /\ clean'[r] <= clean[r]
  BY PlaceClean
<1>7. ASSUME NEW i \in 1 .. StoredLen(r)'
      PROVE  RowIs(slots'[SlotOf(block_table'[r], i - 1)], r, Stored(r)', i, clean'[r])
  <2>1. CASE i <= start
    <3>1. i - 1 \in 0 .. start - 1 /\ i \in 1 .. start /\ i \in 1 .. StoredLen(r)
          /\ i - 1 \in 0 .. start + Len(fed) - 1 /\ i - 1 < start /\ i <= StoredLen(r)'
          /\ i \in Nat \ {0} /\ \A j \in 1 .. i : j \in 1 .. start /\ j <= StoredLen(r)'
      BY <1>1, <1>5, <2>1
    <3>2. RowIs(slots[SlotOf(block_table[r], i - 1)], r, Stored(r), i, clean[r])
      BY <3>1 DEF PlacesOK, StoredOK
    <3>3. SlotOf(block_table'[r], i - 1) = SlotOf(block_table[r], i - 1)
      BY <3>1 DEF TablesKept
    <3>4. slots'[SlotOf(block_table'[r], i - 1)] = slots[SlotOf(block_table'[r], i - 1)]
      BY <1>2, <1>3, <3>1
    <3>5. \A j \in 1 .. i : Stored(r)'[j] = Stored(r)[j]
      BY <3>1
    <3>6. RowIs(slots[SlotOf(block_table[r], i - 1)], r, Stored(r)', i, clean'[r])
      BY <1>6, <3>1, <3>2, <3>5, RowStays, Zenon
    <3> QED
      BY <3>3, <3>4, <3>6
  <2>2. CASE ~ (i <= start)
    <3>1. PICK j \in 1 .. Len(fed) : i = start + j
      <4>1. i - start \in 1 .. Len(fed) /\ i = start + (i - start)
        BY <1>1, <1>5, <2>2
      <4> QED
        BY <4>1
    <3>2. start + j <= StoredLen(r)' /\ i - 1 = start + j - 1
      BY <1>1, <1>5, <3>1
    <3>3. Stored(r)'[i] = fed[j]
      BY <3>1, <3>2
    <3>4. slots'[SlotOf(block_table'[r], start + j - 1)] = Row(r, fed, j)
      BY <1>3
    <3>5. ASSUME i <= clean'[r]
          PROVE  IsStart(Visible(state[r].past, fed, j), i, Stored(r)')
      <4>1. IsStart(state[r].past, start, Stored(r))
        BY <1>6, <2>2, <3>1, <3>5
      <4>2. /\ state[r].past \in Seq(Token) /\ Len(state[r].past) = start
            /\ \A l \in 1 .. start : state[r].past[l] = Stored(r)'[l]
        <5>1. \A l \in 1 .. start : l <= StoredLen(r)'
          BY <1>1, <1>5, <3>1, <3>2
        <5> QED
          BY <4>1, <5>1 DEF IsStart
      <4>3. \A l \in 1 .. j : fed[l] = Stored(r)'[start + l]
        <5>1. \A l \in 1 .. j : l \in 1 .. Len(fed) /\ start + l <= StoredLen(r)'
          BY <1>1, <1>5, <3>1, <3>2
        <5> QED
          BY <5>1
      <4> QED
        BY <3>1, <4>2, <4>3, VisibleStart
    <3>6. RowIs(Row(r, fed, j), r, Stored(r)', i, clean'[r])
      BY <3>3, <3>5 DEF RowIs, Row
    <3> QED
      BY <3>2, <3>4, <3>6
  <2> QED
    BY <2>1, <2>2
<1>8. StoredOK(r)'
  BY <1>7 DEF StoredOK
<1> QED
  BY <1>4, <1>8

\* ensure_capacity moves nothing.
LEMMA GrownKeeps ==
  ASSUME TablesOK, NEW r \in Owner, NEW n \in Nat, Grow(r, n) \/ Begin(r, n)
  PROVE  /\ \A m \in Nat : m <= StoredLen(r) => TablesKept(r, m)
         /\ PagesRequired(n) <= Len(block_table'[r])
<1>1. KVInv /\ freeing = <<>> /\ Fits(r, n) /\ EnsureCapacity(r, n) /\ KVAssumption
  BY Constants DEF Grow, Begin, Idle, TablesOK
<1>2. PagesRequired(n) <= Len(block_table'[r])
  <2>1. Len(block_table'[r]) \in Nat /\ Len(block_table'[r]) >= PagesRequired(n)
    BY <1>1, GrownTable
  <2> QED
    BY <2>1, PagesType
<1>3. /\ \A q \in Owner \ {r} : block_table'[q] = block_table[q]
      /\ \A i \in 1 .. Len(block_table[r]) : block_table'[r][i] = block_table[r][i]
  BY <1>1, EnsureCapacityFacts DEF KVInv
<1>4. /\ StoredLen(r) \in Nat
      /\ \A pos \in 0 .. StoredLen(r) - 1 : Covered(r, pos)
  BY StoredCovered
<1>5. ASSUME NEW pos \in 0 .. StoredLen(r) - 1
      PROVE  SlotOf(block_table'[r], pos) = SlotOf(block_table[r], pos)
  BY <1>3, <1>4 DEF Covered, SlotOf
<1>6. ASSUME NEW m \in Nat, m <= StoredLen(r) PROVE TablesKept(r, m)
  <2>1. \A pos \in 0 .. m - 1 : pos \in 0 .. StoredLen(r) - 1
    BY <1>4, <1>6
  <2> QED
    BY <1>3, <1>5, <2>1 DEF TablesKept
<1> QED
  BY <1>2, <1>6

-----------------------------------------------------------------------------
(* The steps *)

\* A step that stores nothing, and leaves the reply of r.
LEMMA IdleStored ==
  ASSUME PlacesOK, TablesOK', NEW r \in Owner, Acts(r), StepOf(r), CleanBy(r), slots' = slots,
         SameReply(r), ~ InStep(r, "validated")', TablesKept(r, FedLen(r))
  PROVE  \A q \in Owner : StoredOK(q)'
<1>1. FedLen(r)' = FedLen(r) /\ Committed(r)' = Committed(r)
  BY SameText
<1>2. StoredLen(r)' = FedLen(r)' /\ Stored(r)' = Committed(r)'
  BY DEF StoredLen, Stored
<1>3. /\ FedLen(r) \in Nat /\ FedLen(r) <= StoredLen(r) /\ FedLen(r) <= TokenCount(r)
      /\ TokenCount(r) \in Nat
      /\ \A i \in 1 .. TokenCount(r) : Stored(r)[i] = Committed(r)[i]
  BY StoredFacts DEF PlacesOK, TablesOK
<1>4. \A i \in 1 .. FedLen(r) : Stored(r)'[i] = Stored(r)[i]
  BY <1>1, <1>2, <1>3
<1> QED
  BY <1>1, <1>2, <1>3, <1>4, QuietStored

\* A pass that may break off behind what it has stored.
LEMMA BrokenOffStored ==
  ASSUME PlacesOK, TablesOK', NEW r \in Owner, Acts(r), ~ InStep(r, "validated"),
         StepOf(r), CleanBy(r), SameReply(r), turn' = NoTurn,
         Going(r), InStep(r, "rejected") => Spoils(r),
         NEW fed \in Seq(Token), NEW n \in Nat, Grow(r, n), FedLen(r) + Len(fed) = n,
         slots' = slots \/ Mirror(r, FedLen(r), fed)
  PROVE  \A q \in Owner : StoredOK(q)'
<1>1. /\ FedLen(r)' = FedLen(r) /\ Committed(r)' = Committed(r)
      /\ FedLen(r) \in Nat /\ Len(fed) \in Nat
  BY SameText, StoredFacts, LenProperties DEF PlacesOK, TablesOK
<1>2. /\ StoredLen(r) = FedLen(r) /\ Stored(r) = Committed(r)
      /\ StoredLen(r)' = FedLen(r)' /\ Stored(r)' = Committed(r)' /\ ~ InStep(r, "validated")'
  BY NotValidated DEF StoredLen, Stored
<1>3. TablesKept(r, FedLen(r)) /\ PagesRequired(n) <= Len(block_table'[r])
  <2>1. FedLen(r) <= StoredLen(r)
    BY <1>1, <1>2
  <2> QED
    BY <1>1, <2>1, GrownKeeps DEF PlacesOK
<1>4. CASE slots' = slots
  BY <1>2, <1>3, <1>4, IdleStored
<1>5. CASE Mirror(r, FedLen(r), fed)
  <2> DEFINE start == FedLen(r)
  <2>1. /\ start \in Nat /\ Mirror(r, start, fed) /\ TablesKept(r, start)
        /\ PagesRequired(start + Len(fed)) <= Len(block_table'[r])
    BY <1>1, <1>3, <1>5
  <2>2. /\ start <= StoredLen(r) /\ StoredLen(r)' <= start + Len(fed)
        /\ StoredLen(r)' = start
    BY <1>1, <1>2
  <2>3. /\ Stored(r)' = Stored(r)
        /\ clean'[r] > start => IsStart(state[r].past, start, Stored(r))
    BY <1>1, <1>2, PastKnown
  <2> HIDE DEF start
  <2>4. \A j \in 1 .. Len(fed) : ~ (start + j <= StoredLen(r)')
    BY <1>1, <2>1, <2>2
  <2> QED
    BY <2>1, <2>2, <2>3, <2>4, FedStored
<1> QED
  BY <1>4, <1>5

LEMMA PrefillStored ==
  ASSUME PlacesOK, TablesOK', NEW r \in Owner, Prefill(r)
  PROVE  \A q \in Owner : StoredOK(q)'
<1> DEFINE start == state[r].prefilled
           m == Chunk(r)
           fed == ChunkOf(r)
           p == Prompt(r)
<1>1. clean' = clean
  BY DEF Prefill
<1>2. /\ StepOf(r) /\ turn = NoTurn /\ turn' = NoTurn
      /\ state'[r].generated = state[r].generated /\ state'[r].prefilled = start + m
      /\ start < PromptLen[r]
      /\ CountsOK /\ PhaseOK(r)
  BY PrefillDoes DEF PlacesOK, TablesOK, PhasesOK
<1>3. state[r].generated = <<>>
  BY <1>2, Constants DEF PhaseOK, CountsOK, StateOK
<1>4. /\ fed \in Seq(Token) /\ Len(fed) = m /\ start \in Nat /\ m \in Nat
      /\ start + m <= PromptLen[r] /\ PromptLen[r] \in Nat
      /\ \A j \in 1 .. m : fed[j] = start + j - 1
  BY <1>2, ChunkCounts, Constants
<1>5. PrefillBatch(r) /\ Mirror(r, start, fed) /\ Grow(r, start + m)
  BY DEF Prefill, PrefillBatch
<1>6. ~ InStep(r, "validated") /\ ~ InStep(r, "validated")' /\ Acts(r)
  BY <1>2 DEF InStep, NoTurn, Acts
<1>7. FedLen(r) = start /\ FedLen(r)' = start + m
  BY <1>2, <1>3 DEF FedLen
<1>8. /\ StoredLen(r) = start /\ StoredLen(r)' = start + m
      /\ Stored(r) = p \o <<>> /\ Stored(r)' = p \o <<>>
  BY <1>2, <1>3, <1>6, <1>7 DEF StoredLen, Stored, Committed, Prompt
<1>9. /\ CleanBy(r)
      /\ clean'[r] > start => IsStart(state[r].past, start, Stored(r))
  <2>1. Going(r) /\ ~ InStep(r, "rejected") /\ CleanBy(r)
    BY <1>1, <1>2, <1>3 DEF Going, InStep, NoTurn, CleanBy
  <2> QED
    BY <1>6, <1>7, <2>1, PastKnown
<1> HIDE DEF start, m, fed, p
<1>10. TablesKept(r, start) /\ PagesRequired(start + m) <= Len(block_table'[r])
  <2>1. start <= StoredLen(r) /\ start + m \in Nat
    BY <1>4, <1>8
  <2> QED
    BY <1>4, <1>5, <2>1, GrownKeeps DEF PlacesOK
<1>11. \A j \in 1 .. m : (p \o <<>>)[start + j] = fed[j]
  <2>1. \A i \in 1 .. PromptLen[r] : (p \o <<>>)[i] = i - 1
    <3>1. <<>> \in Seq(Token)
      OBVIOUS
    <3> QED
      BY <3>1, TextFacts, Zenon DEF p
  <2> SUFFICES ASSUME NEW j \in 1 .. m PROVE (p \o <<>>)[start + j] = fed[j]
    OBVIOUS
  <2>2. start + j \in 1 .. PromptLen[r] /\ (start + j) - 1 = start + j - 1
    BY <1>4
  <2>3. (p \o <<>>)[start + j] = (start + j) - 1
    BY <2>1, <2>2, Zenon
  <2> QED
    BY <1>4, <2>2, <2>3
<1>12. start <= StoredLen(r) /\ StoredLen(r)' <= start + Len(fed)
  BY <1>4, <1>8
<1>13. \A i \in 1 .. start : i <= StoredLen(r)' => Stored(r)'[i] = Stored(r)[i]
  BY <1>8
<1>14. \A j \in 1 .. Len(fed) : start + j <= StoredLen(r)' => Stored(r)'[start + j] = fed[j]
  BY <1>4, <1>8, <1>11
<1>15. PagesRequired(start + Len(fed)) <= Len(block_table'[r])
  BY <1>4, <1>10
<1>16. StepOf(r) /\ start \in Nat /\ fed \in Seq(Token)
  BY <1>2, <1>4
<1> QED
  BY <1>5, <1>6, <1>10, <1>12, <1>13, <1>9, <1>14, <1>15, <1>16, FedStored

LEMMA ReserveStored ==
  ASSUME PlacesOK, TablesOK', NEW r \in Owner, Reserve(r)
  PROVE  \A q \in Owner : StoredOK(q)'
<1>1. /\ state' = state /\ slots' = slots /\ clean' = clean /\ turn = NoTurn
      /\ turn' = [step |-> "reserved", req |-> r] /\ Grow(r, TokenCount(r) + 1)
  BY DEF Reserve
<1>2. StepOf(r) /\ SameReply(r) /\ Acts(r) /\ ~ InStep(r, "validated")' /\ CleanBy(r)
  BY <1>1 DEF StepOf, SameReply, Acts, InStep, CleanBy
<1>3. /\ FedLen(r) \in Nat /\ FedLen(r) <= StoredLen(r) /\ TokenCount(r) + 1 \in Nat
  BY StoredFacts DEF PlacesOK, TablesOK
<1>4. TablesKept(r, FedLen(r))
  BY <1>1, <1>3, GrownKeeps DEF PlacesOK
<1> QED
  BY <1>1, <1>2, <1>4, IdleStored

LEMMA UnreservedStored ==
  ASSUME PlacesOK, TablesOK', NEW r \in Owner, DraftRaises(r) \/ RoundOverdraws(r)
  PROVE  \A q \in Owner : StoredOK(q)'
<1>1. /\ turn' = NoTurn /\ slots' = slots /\ clean' = clean /\ block_table' = block_table
      /\ Reserved(r)
  BY DEF DraftRaises, RoundOverdraws, kvVars, SpecBatch
<1>2. StepOf(r) /\ SameReply(r)
  BY DraftRaisesDoes, RoundDoes DEF PlacesOK, TablesOK, DraftedBy
<1>3. Acts(r) /\ ~ InStep(r, "validated")' /\ TablesKept(r, FedLen(r)) /\ CleanBy(r)
  BY <1>1, NotValidated DEF Acts, Reserved, TablesKept, CleanBy
<1> QED
  BY <1>1, <1>2, <1>3, IdleStored

\* rollback cuts the table behind the text.
LEMMA RejectStored ==
  ASSUME PlacesOK, TablesOK', NEW r \in Owner, Reject(r)
  PROVE  \A q \in Owner : StoredOK(q)'
<1>1. /\ KVInv /\ TableOK(r) /\ InStep(r, "validated") /\ CountsOK
      /\ turn = Judged("validated", r, turn.drafts, turn.targets)
  BY JudgedFacts DEF Reject, PlacesOK, TablesOK
<1>2. /\ state' = state /\ slots' = slots /\ clean' = clean /\ turn' = [turn EXCEPT !.step = "rejected"]
      /\ Rollback(r) /\ txn[r].open
  BY DEF Reject, Rollback
<1>3. turn'.step = "rejected" /\ turn'.req = r
  BY <1>1, <1>2 DEF Judged
<1>4. block_table' = [block_table EXCEPT ![r] = txn[r].before]
  BY <1>1, <1>2, RollbackStep
<1> DEFINE len == txn[r].original_block_len
           table == block_table[r]
<1>5. /\ table \in Seq(Page) /\ Len(table) \in Nat
      /\ len \in 0 .. Len(table) /\ txn[r].before = SubSeq(table, 1, len)
      /\ \A i \in 1 .. len : table[i] \in Page
      /\ r \in DOMAIN block_table
  BY <1>1, <1>2, TableFacts DEF KVInv, Tables, TxnHolds
<1>6. PagesRequired(FedLen(r)) <= len
  BY <1>1, <1>2 DEF TableOK, TxnCovers
<1>7. block_table'[r] = SubSeq(table, 1, len) /\ \A q \in Owner \ {r} : block_table'[q] = block_table[q]
  BY <1>4, <1>5
<1> HIDE DEF len, table
<1>8. Len(block_table'[r]) = len /\ \A i \in 1 .. len : block_table'[r][i] = table[i]
  BY <1>5, <1>7, SubSeqProperties
<1>9. FedLen(r)' = FedLen(r) /\ FedLen(r) \in Nat /\ KVInv'
  BY <1>1, <1>2, FedSame, StoredFacts DEF TablesOK
<1>10. \A pos \in 0 .. FedLen(r) - 1 : pos \div PageSize + 1 \in 1 .. len
  <2>1. RoomIsCovered'
    BY <1>9, CoveredRoom, PTL
  <2>2. PagesRequired(FedLen(r)) <= Len(block_table'[r])
    BY <1>6, <1>8
  <2>3. \A pos \in 0 .. FedLen(r) - 1 : Covered(r, pos)'
    BY <1>9, <2>1, <2>2 DEF RoomIsCovered
  <2> QED
    BY <1>8, <2>3 DEF Covered
<1>11. TablesKept(r, FedLen(r))
  BY <1>7, <1>8, <1>10 DEF TablesKept, SlotOf, table
<1>12. StepOf(r) /\ SameReply(r) /\ Acts(r) /\ ~ InStep(r, "validated")' /\ CleanBy(r)
  BY <1>1, <1>2, <1>3 DEF StepOf, SameReply, Acts, InStep, CleanBy
<1> QED
  BY <1>2, <1>11, <1>12, IdleStored

LEMMA RaisedStored ==
  ASSUME PlacesOK, TablesOK', NEW r \in Owner, PrefillRaises(r) \/ DecodeRaises(r)
  PROVE  \A q \in Owner : StoredOK(q)'
<1>1. CountsOK /\ PhaseOK(r)
  BY DEF PlacesOK, TablesOK, PhasesOK
<1>2. ASSUME NEW fed \in Seq(Token), NEW n \in Nat, Grow(r, n), FedLen(r) + Len(fed) = n,
             PassRaises(r, FedLen(r), fed), Acts(r), ~ Judging(r), Going(r)
      PROVE  \A q \in Owner : StoredOK(q)'
  <2>1. /\ StepOf(r) /\ CleanBy(r) /\ SameReply(r) /\ turn' = NoTurn
        /\ slots' = slots \/ Mirror(r, FedLen(r), fed)
    BY <1>1, <1>2, PassRaisesDoes DEF CleanBy, Spoils, Harm, HarmAfter
  <2>2. ~ InStep(r, "validated") /\ ~ InStep(r, "rejected")
    BY <1>2 DEF Judging
  <2> QED
    BY <1>2, <2>1, <2>2, BrokenOffStored
<1>3. CASE PrefillRaises(r)
  <2>1. /\ PrefillBatch(r) /\ PassRaises(r, state[r].prefilled, ChunkOf(r))
        /\ Grow(r, state[r].prefilled + Chunk(r)) /\ turn = NoTurn
        /\ state[r].prefilled < PromptLen[r]
    BY <1>3 DEF PrefillRaises, PrefillBatch
  <2>2. /\ ChunkOf(r) \in Seq(Token) /\ Len(ChunkOf(r)) = Chunk(r)
        /\ state[r].prefilled + Chunk(r) \in Nat
    BY <1>1, <2>1, ChunkCounts
  <2>3. FedLen(r) = state[r].prefilled /\ Going(r)
    BY <1>1, <2>1, Constants DEF PhaseOK, FedLen, CountsOK, StateOK, Going
  <2>4. Acts(r) /\ ~ Judging(r)
    BY <2>1 DEF Acts, Judging, InStep, NoTurn
  <2> QED
    BY <1>2, <2>1, <2>2, <2>3, <2>4
<1>4. CASE DecodeRaises(r)
  <2>1. /\ DecodeBatch(r) /\ Grow(r, TokenCount(r))
        /\ PassRaises(r, TokenCount(r) - 1, <<LastToken(r)>>)
    BY <1>4 DEF DecodeRaises
  <2>2. InDecode(r) /\ ~ HasPending(r)
    BY <1>1, <2>1, ReservedFacts DEF DecodeBatch
  <2>3. /\ LastToken(r) \in Token /\ FedLen(r) = TokenCount(r) - 1
        /\ TokenCount(r) - 1 \in Nat /\ TokenCount(r) \in Nat
    BY <1>1, <2>2, LastFacts
  <2> DEFINE fed == <<LastToken(r)>>
  <2>4. fed \in Seq(Token) /\ Len(fed) = 1
    BY <2>3
  <2>5. Acts(r) /\ ~ Judging(r) /\ Going(r)
    BY <2>1, <2>2 DEF DecodeBatch, Reserved, Acts, Judging, InStep, Going, InDecode
  <2>6. PassRaises(r, FedLen(r), fed)
    BY <2>1, <2>3
  <2> HIDE DEF fed
  <2>7. FedLen(r) + Len(fed) = TokenCount(r)
    BY <2>3, <2>4
  <2> QED
    BY <1>2, <2>1, <2>3, <2>4, <2>5, <2>6, <2>7
<1> QED
  BY <1>3, <1>4

LEMMA EmitStored ==
  ASSUME PlacesOK, TablesOK', NEW r \in Owner, EmitPending(r)
  PROVE  \A q \in Owner : StoredOK(q)'
<1>1. CountsOK /\ PhaseOK(r)
  BY DEF PlacesOK, TablesOK, PhasesOK
<1>2. /\ StepOf(r) /\ Burst(r, <<state[r].pending>>) /\ InDecode(r) /\ state[r].pending \in Token
  BY <1>1, EmitDoes, EmitTokens
<1>3. /\ slots' = slots /\ clean' = clean /\ block_table' = block_table /\ HasPending(r) /\ Reserved(r)
      /\ turn' = NoTurn
  BY DEF EmitPending, kvVars
<1>4. /\ BurstOf(r, <<state[r].pending>>, 1) /\ <<state[r].pending>> \in Seq(Token)
      /\ 1 \in 1 .. Len(<<state[r].pending>>)
  BY <1>1, <1>2, OneTokenBurst
<1>5. FedLen(r)' = TokenCount(r) + 1 - 1
  BY <1>1, <1>2, <1>4, BurstCounts
<1>6. \A i \in 1 .. TokenCount(r) : Committed(r)'[i] = Committed(r)[i]
  BY <1>1, <1>2, <1>4, BurstText
<1>7. FedLen(r) = TokenCount(r)
  <2>1. state[r].generated = <<>> /\ state[r].prefilled = PromptLen[r] /\ Len(<<>>) = 0
    BY <1>1, <1>3 DEF PhaseOK, HasPending
  <2> QED
    BY <2>1, Constants DEF FedLen, TokenCount
<1>8. ~ InStep(r, "validated") /\ ~ InStep(r, "validated")' /\ Acts(r) /\ CleanBy(r)
  BY <1>3, NotValidated DEF Reserved, InStep, Acts, CleanBy
<1>9. TokenCount(r) \in Nat
  BY <1>1, StoredFacts
<1>10. /\ StoredLen(r) = TokenCount(r) /\ StoredLen(r)' = TokenCount(r)
       /\ Stored(r) = Committed(r) /\ Stored(r)' = Committed(r)'
  BY <1>5, <1>7, <1>8, <1>9 DEF StoredLen, Stored
<1>11. TablesKept(r, StoredLen(r)')
  BY <1>3 DEF TablesKept
<1> QED
  BY <1>2, <1>3, <1>6, <1>8, <1>9, <1>10, <1>11, QuietStored

\* A pass that is fed the last token and puts out the tokens fed behind it, and
\* one more.
LEMMA PassStored ==
  ASSUME PlacesOK, TablesOK', NEW r \in Owner, Acts(r), StepOf(r), CleanBy(r),
         ~ InStep(r, "validated"), InStep(r, "rejected") => Spoils(r),
         InDecode(r), ~ HasPending(r), NEW m \in Nat,
         NEW fed \in Seq(Token), Len(fed) = m + 1, fed[1] = LastToken(r),
         NEW tokens \in Seq(Token), Len(tokens) = m + 1, Burst(r, tokens),
         \A j \in 1 .. m : fed[1 + j] = tokens[j],
         NEW n \in Nat, Grow(r, n), n = TokenCount(r) - 1 + Len(fed),
         Mirror(r, TokenCount(r) - 1, fed)
  PROVE  \A q \in Owner : StoredOK(q)'
<1> DEFINE start == TokenCount(r) - 1
<1>1. CountsOK /\ PhaseOK(r)
  BY DEF PlacesOK, TablesOK, PhasesOK
<1>2. /\ FedLen(r) = start /\ start \in Nat /\ TokenCount(r) = start + 1
      /\ Committed(r)[start + 1] = fed[1]
  <2>1. FedLen(r) = start /\ start \in Nat /\ TokenCount(r) = start + 1
    BY <1>1, LastFacts
  <2>2. Committed(r)[TokenCount(r)] = fed[1]
    BY <1>1, LastText
  <2> QED
    BY <2>1, <2>2
<1>3. PICK k \in 1 .. Len(tokens) : BurstOf(r, tokens, k)
  <2>1. Len(tokens) >= 1
    OBVIOUS
  <2> QED
    BY <1>1, <2>1, BurstFacts, Zenon
<1>4. /\ FedLen(r)' = TokenCount(r) + k - 1 /\ k \in Nat /\ k <= m + 1
  BY <1>1, <1>3, BurstCounts
<1>5. /\ \A i \in 1 .. TokenCount(r) : Committed(r)'[i] = Committed(r)[i]
      /\ \A j \in 1 .. k : Committed(r)'[TokenCount(r) + j] = tokens[j]
  BY <1>1, <1>3, BurstText
<1>6. turn' = NoTurn
  BY DEF Burst
<1>7. /\ StoredLen(r) = FedLen(r) /\ Stored(r) = Committed(r)
      /\ StoredLen(r)' = FedLen(r)' /\ Stored(r)' = Committed(r)'
  BY <1>6, NotValidated DEF StoredLen, Stored
<1>8. TablesKept(r, FedLen(r)) /\ PagesRequired(n) <= Len(block_table'[r])
  <2>1. FedLen(r) <= StoredLen(r) /\ FedLen(r) \in Nat
    BY <1>1, <1>2, <1>7
  <2> QED
    BY <2>1, GrownKeeps DEF PlacesOK
<1>9. clean'[r] > start => IsStart(state[r].past, start, Stored(r))
  <2>1. Going(r)
    BY DEF Going, InDecode
  <2> QED
    BY <1>2, <2>1, PastKnown
<1> HIDE DEF start
<1>10. \A i \in 1 .. start : i <= StoredLen(r)' => Stored(r)'[i] = Stored(r)[i]
  BY <1>2, <1>5, <1>7
<1>11. \A j \in 1 .. Len(fed) : start + j <= StoredLen(r)' => Stored(r)'[start + j] = fed[j]
  <2> SUFFICES ASSUME NEW j \in 1 .. Len(fed), start + j <= StoredLen(r)'
               PROVE  Committed(r)'[start + j] = fed[j]
    BY <1>7
  <2>1. CASE j = 1
    <3>1. start + 1 \in 1 .. TokenCount(r)
      BY <1>2
    <3> QED
      BY <1>2, <1>5, <2>1, <3>1
  <2>2. CASE j # 1
    <3>1. /\ j - 1 \in 1 .. k /\ j - 1 \in 1 .. m /\ 1 + (j - 1) = j
          /\ TokenCount(r) + (j - 1) = start + j
      BY <1>2, <1>4, <1>7, <2>2
    <3>2. Committed(r)'[TokenCount(r) + (j - 1)] = tokens[j - 1]
      BY <1>5, <3>1
    <3>3. fed[1 + (j - 1)] = tokens[j - 1]
      BY <3>1
    <3> QED
      BY <3>1, <3>2, <3>3
  <2> QED
    BY <2>1, <2>2
<1>12. Mirror(r, start, fed) /\ PagesRequired(start + Len(fed)) <= Len(block_table'[r])
  BY <1>8 DEF start
<1>13. start <= StoredLen(r) /\ StoredLen(r)' <= start + Len(fed) /\ TablesKept(r, start)
  BY <1>2, <1>4, <1>7, <1>8
<1> QED
  BY <1>2, <1>10, <1>11, <1>12, <1>13, <1>9, FedStored

LEMMA DecodeStored ==
  ASSUME PlacesOK, TablesOK', NEW r \in Owner, DecodeNext(r)
  PROVE  \A q \in Owner : StoredOK(q)'
<1> DEFINE fed == <<LastToken(r)>>
<1>1. CountsOK /\ PhaseOK(r)
  BY DEF PlacesOK, TablesOK, PhasesOK
<1>2. /\ DecodeBatch(r) /\ Grow(r, TokenCount(r)) /\ Mirror(r, TokenCount(r) - 1, fed)
      /\ clean' = clean
  BY DEF DecodeNext
<1>3. /\ Acts(r) /\ ~ InStep(r, "validated") /\ ~ InStep(r, "rejected") /\ CleanBy(r)
      /\ ~ HasPending(r)
  BY <1>2 DEF DecodeBatch, Reserved, Acts, InStep, CleanBy
<1>4. PICK t \in Chosen(state[r].past, fed, 1, TokenCount(r)) : StepOf(r) /\ Burst(r, <<t>>)
  BY <1>1, DecodeDoes
<1>5. InDecode(r) /\ t \in Token
  BY <1>1, DecodeTokens
<1>6. LastToken(r) \in Token /\ TokenCount(r) \in Nat
  BY <1>1, <1>3, <1>5, LastFacts
<1>7. fed \in Seq(Token) /\ Len(fed) = 1 /\ fed[1] = LastToken(r)
  BY <1>6, OneMoreFed
<1> DEFINE tokens == <<t>>
<1>8. tokens \in Seq(Token) /\ Len(tokens) = 1 /\ Burst(r, tokens)
  BY <1>4, <1>5, OneMoreFed
<1> HIDE DEF fed, tokens
<1>9. /\ 0 \in Nat /\ Len(fed) = 0 + 1 /\ Len(tokens) = 0 + 1
      /\ \A j \in 1 .. 0 : fed[1 + j] = tokens[j]
      /\ TokenCount(r) = TokenCount(r) - 1 + Len(fed)
  BY <1>6, <1>7, <1>8
<1> QED
  BY <1>2, <1>3, <1>4, <1>5, <1>6, <1>7, <1>8, <1>9, PassStored

LEMMA ReplayStored ==
  ASSUME PlacesOK, TablesOK', NEW r \in Owner, Replay(r)
  PROVE  \A q \in Owner : StoredOK(q)'
<1> DEFINE fed == ReplayFed(r)
           tokens == Corrected(turn.drafts, turn.targets)
           m == Accepted(turn.drafts, turn.targets)
           n == TokenCount(r) - 1 + Len(fed)
<1>1. CountsOK /\ PhaseOK(r) /\ InStep(r, "rejected")
  BY DEF PlacesOK, TablesOK, PhasesOK, Replay, ReplayBatch
<1>2. Grow(r, n) /\ Mirror(r, TokenCount(r) - 1, fed) /\ Spoils(r) /\ CleanBy(r)
  BY DEF Replay, ReplayBatch, HarmAfter, Spoils, CleanBy
<1>3. Acts(r) /\ ~ InStep(r, "validated")
  BY <1>1 DEF InStep, Acts
<1>4. StepOf(r) /\ Burst(r, tokens)
  BY <1>1, ReplayDoes
<1>5. /\ InDecode(r) /\ tokens \in Seq(Token) /\ Len(tokens) = m + 1
      /\ \A j \in 1 .. m : tokens[j] = turn.drafts[j]
  BY <1>1, ReplayTokens
<1>6. /\ fed \in Seq(Token) /\ m \in Nat /\ Len(fed) = m + 1 /\ fed[1] = LastToken(r)
      /\ \A j \in 1 .. m : fed[1 + j] = turn.drafts[j]
      /\ ~ HasPending(r) /\ TokenCount(r) - 1 \in Nat
  BY <1>1, ReplayedFed
<1> HIDE DEF fed, tokens, m
<1>7. n \in Nat
  BY <1>6
<1>8. \A j \in 1 .. m : fed[1 + j] = tokens[j]
  BY <1>5, <1>6
<1> HIDE DEF n
<1>9. n = TokenCount(r) - 1 + Len(fed)
  BY DEF n
<1> QED
  BY <1>2, <1>3, <1>4, <1>5, <1>6, <1>7, <1>8, <1>9, PassStored

LEMMA ReplayRaisesStored ==
  ASSUME PlacesOK, TablesOK', NEW r \in Owner, ReplayRaises(r)
  PROVE  \A q \in Owner : StoredOK(q)'
<1> DEFINE fed == ReplayFed(r)
           n == TokenCount(r) - 1 + Len(fed)
<1>1. CountsOK /\ PhaseOK(r) /\ InStep(r, "rejected") /\ Grow(r, n)
  BY DEF PlacesOK, TablesOK, PhasesOK, ReplayRaises, ReplayBatch
<1>2. /\ StepOf(r) /\ SameReply(r) /\ turn' = NoTurn /\ Spoils(r) /\ CleanBy(r)
      /\ slots' = slots \/ Mirror(r, TokenCount(r) - 1, fed)
  BY <1>1, ReplayRaisesDoes DEF Harm, HarmAfter, Spoils, CleanBy
<1>3. Acts(r) /\ ~ InStep(r, "validated")
  BY <1>1 DEF InStep, Acts
<1>4. /\ fed \in Seq(Token) /\ Len(fed) \in Nat
      /\ FedLen(r) = TokenCount(r) - 1 /\ TokenCount(r) - 1 \in Nat /\ Going(r)
  BY <1>1, ReplayedFed, JudgedFacts, LenProperties DEF Going, InDecode
<1>5. n \in Nat /\ FedLen(r) + Len(fed) = n /\ (slots' = slots \/ Mirror(r, FedLen(r), fed))
  BY <1>2, <1>4
<1> HIDE DEF fed, n
<1> QED
  BY <1>1, <1>2, <1>3, <1>4, <1>5, BrokenOffStored

LEMMA ValidateRaisesStored ==
  ASSUME PlacesOK, TablesOK', NEW r \in Owner, ValidateRaises(r)
  PROVE  \A q \in Owner : StoredOK(q)'
<1>1. CountsOK /\ PhaseOK(r) /\ SpecBatch(r) /\ ~ HasPending(r) /\ turn' = NoTurn
  BY DEF PlacesOK, TablesOK, PhasesOK, ValidateRaises, SpecBatch
<1>2. PICK drafts \in Drafts(r) :
        /\ Grow(r, TokenCount(r) + Len(drafts))
        /\ slots' = slots \/ Mirror(r, TokenCount(r) - 1, <<LastToken(r)>> \o drafts)
        /\ CleanBy(r)
  BY DEF ValidateRaises, Harm, HarmAfter, CleanBy, Spoils
<1> DEFINE fed == <<LastToken(r)>> \o drafts
           n == TokenCount(r) + Len(drafts)
<1>3. InDecode(r) /\ drafts \in Seq(Token)
  BY <1>1, ProposedFacts
<1>4. /\ fed \in Seq(Token) /\ Len(drafts) \in Nat /\ FedLen(r) = TokenCount(r) - 1
      /\ TokenCount(r) - 1 + Len(fed) = n /\ TokenCount(r) \in Nat
  BY <1>1, <1>3, FedFrom
<1>5. StepOf(r) /\ SameReply(r)
  BY <1>1, RoundDoes DEF DraftedBy
<1>6. Acts(r) /\ ~ InStep(r, "validated") /\ ~ InStep(r, "rejected") /\ Going(r)
  BY <1>1, <1>3 DEF SpecBatch, Reserved, Acts, InStep, Going, InDecode
<1>7. /\ n \in Nat /\ FedLen(r) + Len(fed) = n /\ Grow(r, n)
      /\ slots' = slots \/ Mirror(r, FedLen(r), fed)
      /\ CleanBy(r)
  BY <1>2, <1>4
<1> HIDE DEF fed, n
<1> QED
  BY <1>1, <1>4, <1>5, <1>6, <1>7, BrokenOffStored

LEMMA ValidateStored ==
  ASSUME PlacesOK, TablesOK', NEW r \in Owner, Validate(r)
  PROVE  \A q \in Owner : StoredOK(q)'
<1>1. CountsOK /\ PhaseOK(r) /\ SpecBatch(r) /\ ~ HasPending(r) /\ clean' = clean
  BY DEF PlacesOK, TablesOK, PhasesOK, Validate, SpecBatch
<1>2. PICK drafts \in Drafts(r) :
        /\ Begin(r, TokenCount(r) + Len(drafts))
        /\ Mirror(r, TokenCount(r) - 1, <<LastToken(r)>> \o drafts)
        /\ state' = [state EXCEPT ![r] = [Drafted(r, drafts) EXCEPT
                                            !.past = @ \o (<<LastToken(r)>> \o drafts)]]
        /\ \E targets : turn' = Judged("validated", r, drafts, targets)
  BY DEF Validate, Judged
<1> DEFINE fed == <<LastToken(r)>> \o drafts
           n == TokenCount(r) + Len(drafts)
           start == TokenCount(r) - 1
           c == Committed(r)
<1>3. InDecode(r) /\ drafts \in Seq(Token)
  BY <1>1, ProposedFacts
<1>4. /\ fed \in Seq(Token) /\ Len(drafts) \in Nat /\ FedLen(r) = start /\ start \in Nat
      /\ Len(fed) = Len(drafts) + 1 /\ start + Len(fed) = n /\ TokenCount(r) = start + 1
      /\ fed[1] = c[start + 1]
      /\ \A j \in 1 .. Len(drafts) : fed[1 + j] = drafts[j]
  BY <1>1, <1>3, FedFrom
<1>5. state' = [state EXCEPT ![r] = [Drafted(r, drafts) EXCEPT !.past = @ \o fed]]
      /\ Mirror(r, start, fed) /\ Begin(r, n)
  BY <1>2
<1> HIDE DEF fed
<1>6. StepOf(r) /\ SameReply(r)
  BY <1>1, <1>5, DraftedDoes, RoundDoes DEF DraftedBy
<1>7. turn'.step = "validated" /\ turn'.req = r /\ turn'.drafts = drafts
  BY <1>2 DEF Judged
<1>8. /\ Acts(r) /\ ~ InStep(r, "validated") /\ CleanBy(r)
      /\ clean'[r] > start => IsStart(state[r].past, start, Stored(r))
  <2>1. /\ Acts(r) /\ ~ InStep(r, "validated") /\ ~ InStep(r, "rejected") /\ CleanBy(r)
        /\ Going(r)
    BY <1>1, <1>3 DEF SpecBatch, Reserved, Acts, InStep, CleanBy, Going, InDecode
  <2> QED
    BY <1>4, <2>1, PastKnown
<1>9. TokenCount(r)' = TokenCount(r) /\ Committed(r)' = c
  BY <1>6, SameText
<1>10. /\ StoredLen(r) = start /\ Stored(r) = c
       /\ StoredLen(r)' = n /\ Stored(r)' = c \o drafts
  BY <1>4, <1>7, <1>8, <1>9 DEF StoredLen, Stored, InStep
<1>11. c \in Seq(Token) /\ Len(c) = TokenCount(r) /\ TokenCount(r) \in Nat
  BY <1>1, CommittedFacts DEF CountsOK
<1> HIDE DEF c, n, start
<1>12. /\ \A i \in 1 .. TokenCount(r) : (c \o drafts)[i] = c[i]
       /\ \A j \in 1 .. Len(drafts) : (c \o drafts)[TokenCount(r) + j] = drafts[j]
  BY <1>3, <1>11, JoinFacts
<1>13. n \in Nat /\ start <= StoredLen(r) /\ StoredLen(r)' <= start + Len(fed)
  BY <1>4, <1>10
<1>14. TablesKept(r, start) /\ PagesRequired(start + Len(fed)) <= Len(block_table'[r])
  BY <1>4, <1>5, <1>13, GrownKeeps DEF PlacesOK
<1>15. \A i \in 1 .. start : Stored(r)'[i] = Stored(r)[i]
  <2> SUFFICES ASSUME NEW i \in 1 .. start PROVE Stored(r)'[i] = Stored(r)[i]
    OBVIOUS
  <2>1. i \in 1 .. TokenCount(r)
    BY <1>4
  <2>2. (c \o drafts)[i] = c[i]
    BY <1>12, <2>1, Zenon
  <2> QED
    BY <1>10, <2>2
<1>16. ASSUME NEW j \in 1 .. Len(fed) PROVE Stored(r)'[start + j] = fed[j]
  <2>1. CASE j = 1
    <3>1. start + 1 \in 1 .. TokenCount(r)
      BY <1>4
    <3> QED
      BY <1>4, <1>10, <1>12, <2>1, <3>1
  <2>2. CASE j # 1
    <3>1. /\ j - 1 \in 1 .. Len(drafts) /\ 1 + (j - 1) = j /\ TokenCount(r) + (j - 1) = start + j
      BY <1>4, <2>2
    <3>2. (c \o drafts)[TokenCount(r) + (j - 1)] = drafts[j - 1]
      BY <1>12, <3>1, Zenon
    <3>3. fed[1 + (j - 1)] = drafts[j - 1]
      BY <1>4, <3>1, Zenon
    <3> QED
      BY <1>10, <3>1, <3>2, <3>3
  <2> QED
    BY <2>1, <2>2
<1> QED
  BY <1>4, <1>5, <1>6, <1>8, <1>13, <1>14, <1>15, <1>16, FedStored

\* The accepted drafts are stored already.
LEMMA AcceptStored ==
  ASSUME PlacesOK, TablesOK', NEW r \in Owner, AcceptAll(r)
  PROVE  \A q \in Owner : StoredOK(q)'
<1> DEFINE drafts == turn.drafts
           tokens == Append(drafts, Last(turn.targets))
<1>1. /\ CountsOK /\ InStep(r, "validated") /\ slots' = slots /\ block_table' = block_table
      /\ CleanBy(r)
  BY DEF PlacesOK, TablesOK, AcceptAll, Commit, CleanBy
<1>2. StepOf(r) /\ Burst(r, tokens)
  BY <1>1, AcceptDoes
<1>3. /\ InDecode(r) /\ Len(drafts) \in Nat /\ tokens \in Seq(Token) /\ Len(tokens) = Len(drafts) + 1
      /\ \A i \in 1 .. Len(drafts) : tokens[i] = drafts[i]
  BY <1>1, AcceptTokens
<1>4. /\ TokenCount(r) \in Nat
      /\ \A i \in 1 .. TokenCount(r) : Stored(r)[i] = Committed(r)[i]
      /\ \A j \in 1 .. Len(drafts) : Stored(r)[TokenCount(r) + j] = drafts[j]
      /\ StoredLen(r) = TokenCount(r) + Len(drafts)
  BY <1>1, StoredFacts DEF StoredLen
<1>5. turn' = NoTurn /\ Acts(r)
  BY <1>1, <1>2 DEF Burst, InStep, Acts
<1> HIDE DEF drafts, tokens
<1>6. PICK k \in 1 .. Len(tokens) : BurstOf(r, tokens, k)
  <2>1. Len(tokens) >= 1
    BY <1>3
  <2> QED
    BY <1>1, <1>2, <1>3, <2>1, BurstFacts, Zenon
<1>7. FedLen(r)' = TokenCount(r) + k - 1 /\ k \in Nat /\ k <= Len(drafts) + 1 /\ k >= 1
  BY <1>1, <1>3, <1>6, BurstCounts, SMTT(30)
<1>8. /\ \A i \in 1 .. TokenCount(r) : Committed(r)'[i] = Committed(r)[i]
      /\ \A j \in 1 .. k : Committed(r)'[TokenCount(r) + j] = tokens[j]
  BY <1>1, <1>3, <1>6, BurstText
<1>9. StoredLen(r)' = FedLen(r)' /\ Stored(r)' = Committed(r)'
  BY <1>5, NotValidated DEF StoredLen, Stored
<1>10. StoredLen(r)' <= StoredLen(r)
  BY <1>3, <1>4, <1>7, <1>9
<1>11. ASSUME NEW i \in 1 .. StoredLen(r)' PROVE Stored(r)'[i] = Stored(r)[i]
  <2>1. CASE i <= TokenCount(r)
    BY <1>4, <1>8, <1>9, <2>1
  <2>2. CASE ~ (i <= TokenCount(r))
    <3>1. PICK j \in 1 .. k : j \in 1 .. Len(drafts) /\ i = TokenCount(r) + j
      <4>1. /\ i - TokenCount(r) \in 1 .. k /\ i - TokenCount(r) \in 1 .. Len(drafts)
            /\ i = TokenCount(r) + (i - TokenCount(r))
        BY <1>3, <1>4, <1>7, <1>9, <2>2
      <4> QED
        BY <4>1
    <3> QED
      BY <1>3, <1>4, <1>8, <1>9, <3>1
  <2> QED
    BY <2>1, <2>2
<1>12. TablesKept(r, StoredLen(r)')
  BY <1>1 DEF TablesKept
<1> QED
  BY <1>1, <1>2, <1>5, <1>10, <1>11, <1>12, QuietStored

LEMMA StepStored == PlacesOK /\ TablesOK' /\ [Next]_vars => \A q \in Owner : StoredOK(q)'
<1> SUFFICES ASSUME PlacesOK, TablesOK', [Next]_vars PROVE \A q \in Owner : StoredOK(q)'
  OBVIOUS
<1>1. ASSUME UNCHANGED vars \/ FreePage PROVE \A q \in Owner : StoredOK(q)'
  <2>1. state' = state /\ turn' = turn /\ slots' = slots /\ block_table' = block_table
        /\ clean' = clean
    BY <1>1 DEF vars, execVars, kvVars, FreePage, FreeStep
  <2>2. \A q \in Owner : /\ FedLen(q)' = FedLen(q) /\ TokenCount(q)' = TokenCount(q)
                         /\ Committed(q)' = Committed(q)
                         /\ InStep(q, "validated")' = InStep(q, "validated")
    BY <2>1 DEF FedLen, TokenCount, Committed, Prompt, InStep
  <2>3. \A q \in Owner : StoredLen(q)' = StoredLen(q) /\ Stored(q)' = Stored(q)
    BY <2>1, <2>2 DEF StoredLen, Stored
  <2> QED
    BY <2>1, <2>3 DEF PlacesOK, StoredOK
<1> QED
  BY <1>1, PrefillStored, RaisedStored, ReserveStored, EmitStored, DecodeStored, UnreservedStored,
     ValidateStored, ValidateRaisesStored, AcceptStored, RejectStored, ReplayStored,
     ReplayRaisesStored DEF Next

\* FedText, position by position.
LEMMA FedTextFacts ==
  ASSUME CountsOK, NEW r \in Owner
  PROVE  /\ FedText(r) \in Seq(Token) /\ Len(FedText(r)) = FedLen(r) /\ FedLen(r) \in Nat
         /\ \A i \in 1 .. FedLen(r) : FedText(r)[i] = Committed(r)[i]
<1> DEFINE c == Committed(r)
           n == FedLen(r)
<1>1. c \in Seq(Token) /\ n \in 0 .. Len(c) /\ n \in Nat
  <2>1. /\ n \in Nat /\ n <= TokenCount(r) /\ c \in Seq(Token) /\ Len(c) = TokenCount(r)
        /\ TokenCount(r) \in Nat
    BY StoredFacts, CommittedFacts DEF CountsOK
  <2> QED
    BY <2>1
<1>2. FedText(r) = SubSeq(c, 1, n)
  BY DEF FedText
<1> HIDE DEF c, n
<1>3. SubSeq(c, 1, n) \in Seq(Token) /\ Len(SubSeq(c, 1, n)) = n
  BY <1>1, PrefixFacts
<1>4. \A i \in 1 .. n : SubSeq(c, 1, n)[i] = c[i]
  <2>1. \A i \in 1 .. n : c[i] \in Token
    BY <1>1, ElementOfSeq
  <2> QED
    BY <1>1, <2>1, SubSeqProperties
<1> QED
  BY <1>1, <1>2, <1>3, <1>4 DEF c, n

\* A sequence that starts a text is its prefix.
LEMMA StartIsPrefix ==
  ASSUME NEW s, NEW text \in Seq(Token), NEW i \in 0 .. Len(text), IsStart(s, i, text)
  PROVE  s = SubSeq(text, 1, i)
<1> DEFINE p == SubSeq(text, 1, i)
<1>1. p \in Seq(Token) /\ Len(p) = i
  BY PrefixFacts
<1>2. \A j \in 1 .. i : p[j] = text[j]
  <2>1. \A j \in 1 .. i : text[j] \in Token
    BY ElementOfSeq
  <2> QED
    BY <2>1, SubSeqProperties, LenProperties
<1> HIDE DEF p
<1>3. s \in Seq(Token) /\ Len(s) = i /\ \A j \in 1 .. i : s[j] = p[j]
  BY <1>2 DEF IsStart
<1>4. s = p
  BY <1>1, <1>3, SeqEqual
<1> QED
  BY <1>4 DEF p

\* For every page size, prompt, chunk size and number of drafts: the slots that a
\* block table gives for the text hold rows of its tokens, whatever was rejected,
\* rolled back, fed again or broken off, and whatever the other sequences have stored;
\* and rows of positions that were fed before the cache was harmed were computed in
\* the context of the text up to them.
THEOREM SlotsHoldText == Spec => []MirrorHoldsText
<1>1. Init => PlacesOK
  <2> SUFFICES ASSUME Init PROVE PlacesOK
    OBVIOUS
  <2>1. TablesOK /\ PhasesOK /\ PastsOK
    BY InitTables, InitPhases, InitPasts
  <2>2. ASSUME NEW q \in Owner PROVE StoredOK(q)
    <3>1. state[q].generated = <<>> /\ state[q].prefilled = 0 /\ ~ InStep(q, "validated")
      BY <2>2 DEF Init, NewState, InStep, NoTurn
    <3>2. StoredLen(q) = 0
      BY <3>1 DEF StoredLen, FedLen
    <3> QED
      BY <3>2 DEF StoredOK
  <2> QED
    BY <2>1, <2>2 DEF PlacesOK
<1>2. PlacesOK /\ [Next]_vars => PlacesOK'
  BY StepTables, StepPhases, StepPasts, StepStored DEF PlacesOK, TablesOK
<1>3. PlacesOK => MirrorHoldsText
  <2> SUFFICES ASSUME PlacesOK, NEW r \in Owner, NEW i \in 1 .. FedLen(r)
               PROVE  LET row == slots[SlotOf(block_table[r], i - 1)]
                      IN /\ row # <<>> /\ row[1] = r /\ row[2] = FedText(r)[i]
                         /\ i <= clean[r] => row[3] = SubSeq(FedText(r), 1, i)
    BY DEF MirrorHoldsText
  <2> DEFINE row == slots[SlotOf(block_table[r], i - 1)]
             text == FedText(r)
  <2>1. /\ text \in Seq(Token) /\ Len(text) = FedLen(r) /\ FedLen(r) \in Nat
        /\ \A j \in 1 .. FedLen(r) : text[j] = Committed(r)[j]
    BY FedTextFacts DEF PlacesOK, TablesOK
  <2>2. /\ FedLen(r) <= StoredLen(r) /\ FedLen(r) <= TokenCount(r)
        /\ TokenCount(r) \in Nat /\ StoredLen(r) \in Nat
        /\ \A j \in 1 .. TokenCount(r) : Stored(r)[j] = Committed(r)[j]
    BY StoredFacts, StoredCovered DEF PlacesOK, TablesOK
  <2>3. /\ i \in 1 .. StoredLen(r) /\ i \in Nat \ {0} /\ i \in 0 .. FedLen(r)
        /\ \A j \in 1 .. i : j \in 1 .. FedLen(r) /\ j \in 1 .. TokenCount(r)
    BY <2>1, <2>2
  <2>4. RowIs(row, r, Stored(r), i, clean[r]) /\ clean[r] \in Int
    BY <2>3 DEF PlacesOK, StoredOK, PastsOK, PastOK
  <2>5. \A j \in 1 .. i : text[j] = Stored(r)[j]
    BY <2>1, <2>2, <2>3
  <2> HIDE DEF row, text
  <2>6. RowIs(row, r, text, i, clean[r])
    BY <2>3, <2>4, <2>5, RowStays
  <2>7. i <= clean[r] => row[3] = SubSeq(text, 1, i)
    BY <2>1, <2>3, <2>6, StartIsPrefix DEF RowIs
  <2> QED
    BY <2>6, <2>7 DEF RowIs, row, text
<1> QED
  BY <1>1, <1>2, <1>3, PTL DEF Spec

-----------------------------------------------------------------------------
(***************************************************************************)
(* Incremental detokenization: what the reader has been given is the       *)
(* decoding of the tokens up to out.read.  The window starts and ends      *)
(* where no character is open, so decoding it apart changes nothing.       *)
(***************************************************************************)

\* A text that was read from the tokens up to n.
ReadingUpTo(tokens, f, n) ==
  f = [k \in 0 .. n |-> IF k = 0 THEN [chars |-> <<>>, open |-> <<>>]
                                 ELSE Read(f[k - 1], tokens[k])]

\* The recursive function of Reading exists ...
LEMMA ReadingExists ==
  ASSUME NEW tokens
  PROVE  \A n \in Nat : \E f : ReadingUpTo(tokens, f, n)
<1> DEFINE T == {n \in Nat : ~ \E f : ReadingUpTo(tokens, f, n)}
<1>1. SUFFICES ASSUME T # {} PROVE FALSE
  OBVIOUS
<1>2. PICK n \in T : \A m \in T : n <= m
  BY <1>1, LeastNumber
<1>3. n # 0
  <2>1. ReadingUpTo(tokens, [k \in 0 .. 0 |-> [chars |-> <<>>, open |-> <<>>]], 0)
    BY DEF ReadingUpTo
  <2> QED
    BY <2>1
<1>4. n - 1 \in Nat /\ n - 1 \notin T
  BY <1>2, <1>3
<1>5. PICK f : ReadingUpTo(tokens, f, n - 1)
  BY <1>4
<1> DEFINE g == [k \in 0 .. n |-> IF k = n THEN Read(f[n - 1], tokens[n]) ELSE f[k]]
<1>6. ReadingUpTo(tokens, g, n)
  <2>1. \A k \in 0 .. n - 1 : f[k] = IF k = 0 THEN [chars |-> <<>>, open |-> <<>>]
                                              ELSE Read(f[k - 1], tokens[k])
    BY <1>5 DEF ReadingUpTo
  <2>2. n \in Nat /\ n # 0
    BY <1>3
  <2>3. ASSUME NEW k \in 0 .. n
        PROVE  g[k] = IF k = 0 THEN [chars |-> <<>>, open |-> <<>>]
                               ELSE Read(g[k - 1], tokens[k])
    <3>1. CASE k = n
      BY <2>2, <3>1
    <3>2. CASE k # n
      <4>1. k \in 0 .. n - 1 /\ (k # 0 => k - 1 \in 0 .. n - 1 /\ k - 1 # n /\ k - 1 \in 0 .. n)
        BY <2>2, <3>2
      <4>2. g[k] = f[k] /\ (k # 0 => g[k - 1] = f[k - 1])
        BY <3>2, <4>1
      <4> QED
        BY <2>1, <4>1, <4>2
    <3> QED
      BY <3>1, <3>2
  <2> HIDE DEF g
  <2>4. g = [k \in 0 .. n |-> g[k]]
    BY DEF g
  <2> QED
    BY <2>3, <2>4 DEF ReadingUpTo
<1> QED
  BY <1>2, <1>6

\* ... and is unique, as far as the tokens are the same.
LEMMA ReadingUnique ==
  ASSUME NEW s, NEW t, NEW a \in Nat, NEW b \in Nat, NEW n \in Nat, n <= a, n <= b,
         \A k \in 1 .. n : s[k] = t[k],
         NEW f, ReadingUpTo(s, f, a), NEW g, ReadingUpTo(t, g, b)
  PROVE  f[n] = g[n]
<1> DEFINE T == {k \in 0 .. n : f[k] # g[k]}
<1>1. SUFFICES ASSUME T # {} PROVE FALSE
  OBVIOUS
<1>2. T \subseteq Nat
  OBVIOUS
<1>3. PICK m \in T : \A k \in T : m <= k
  BY <1>1, <1>2, LeastNumber
<1>4. \A k \in 0 .. n : /\ f[k] = (IF k = 0 THEN [chars |-> <<>>, open |-> <<>>] ELSE Read(f[k - 1], s[k]))
                        /\ g[k] = (IF k = 0 THEN [chars |-> <<>>, open |-> <<>>] ELSE Read(g[k - 1], t[k]))
  <2>1. /\ \A k \in 0 .. a : f[k] = (IF k = 0 THEN [chars |-> <<>>, open |-> <<>>] ELSE Read(f[k - 1], s[k]))
        /\ \A k \in 0 .. b : g[k] = (IF k = 0 THEN [chars |-> <<>>, open |-> <<>>] ELSE Read(g[k - 1], t[k]))
    BY DEF ReadingUpTo
  <2>2. \A k \in 0 .. n : k \in 0 .. a /\ k \in 0 .. b
    OBVIOUS
  <2> QED
    BY Zenon, <2>1, <2>2
<1>5. m # 0
  BY <1>3, <1>4
<1>6. m \in 1 .. n /\ m - 1 \in 0 .. n /\ m - 1 \notin T
  BY <1>3, <1>5
<1>7. f[m - 1] = g[m - 1]
  BY <1>6
<1> QED
  BY <1>3, <1>4, <1>5, <1>6, <1>7

LEMMA ReadingIs ==
  ASSUME NEW tokens, Len(tokens) \in Nat
  PROVE  \E f : ReadingUpTo(tokens, f, Len(tokens)) /\ Reading(tokens) = f[Len(tokens)]
<1> DEFINE read == CHOOSE f : ReadingUpTo(tokens, f, Len(tokens))
<1>1. ReadingUpTo(tokens, read, Len(tokens))
  BY ReadingExists
<1>2. Reading(tokens) = read[Len(tokens)]
  BY Zenon DEF Reading, ReadingUpTo
<1> QED
  BY <1>1, <1>2

LEMMA ReadNothing == Reading(<<>>) = [chars |-> <<>>, open |-> <<>>]
<1>1. Len(<<>>) = 0
  OBVIOUS
<1>2. PICK f : ReadingUpTo(<<>>, f, 0) /\ Reading(<<>>) = f[0]
  BY <1>1, ReadingIs
<1> QED
  BY <1>2 DEF ReadingUpTo

LEMMA ReadOneMore ==
  ASSUME NEW P, NEW s \in Seq(P), NEW t \in P
  PROVE  Reading(Append(s, t)) = Read(Reading(s), t)
<1> DEFINE u == Append(s, t)
           n == Len(s)
<1>1. n \in Nat /\ Len(u) = n + 1 /\ u[n + 1] = t /\ \A k \in 1 .. n : u[k] = s[k]
  BY AppendProperties, LenProperties
<1> HIDE DEF u, n
<1>2. PICK f : ReadingUpTo(s, f, n) /\ Reading(s) = f[n]
  BY <1>1, ReadingIs DEF n
<1>3. PICK g : ReadingUpTo(u, g, n + 1) /\ Reading(u) = g[n + 1]
  BY <1>1, ReadingIs
<1>4. g[n] = f[n]
  BY <1>1, <1>2, <1>3, ReadingUnique, SMTT(30)
<1>5. g[n + 1] = Read(g[n], u[n + 1])
  <2>1. n + 1 \in 0 .. n + 1 /\ n + 1 # 0 /\ (n + 1) - 1 = n
    BY <1>1
  <2> QED
    BY <1>3, <2>1 DEF ReadingUpTo
<1> QED
  BY <1>1, <1>2, <1>3, <1>4, <1>5 DEF u

\* A decoded character: the tokens that make it up.
Char == Seq(Token)

\* While a character is open, the text ends in U+FFFD.
ReadingOK(d) ==
  /\ d = [chars |-> d.chars, open |-> d.open]
  /\ d.chars \in Seq(Char) /\ d.open \in Seq(Token)
  /\ d.open # <<>> => d.chars # <<>> /\ Last(d.chars) = Replacement

LEMMA AppendAfter ==
  \A c, u \in Seq(Char), x \in Char : Append(c \o u, x) = c \o Append(u, x)
<1> TAKE c, u \in Seq(Char), x \in Char
<1>1. c \o u \in Seq(Char) /\ <<x>> \in Seq(Char)
  BY ConcatProperties
<1>2. Append(c \o u, x) = (c \o u) \o <<x>>
  BY <1>1, AppendIsConcat
<1>3. Append(u, x) = u \o <<x>>
  BY AppendIsConcat
<1> QED
  BY <1>1, <1>2, <1>3, ConcatAssociative

\* What was there before a sequence plays no role at its end.
LEMMA EndAfter ==
  ASSUME NEW c \in Seq(Char), NEW u \in Seq(Char), u # <<>>
  PROVE  /\ c \o u # <<>> /\ Last(c \o u) = Last(u)
         /\ Front(u) \in Seq(Char) /\ Front(c \o u) = c \o Front(u)
<1>1. PICK v \in Seq(Char) : \E x \in Char : u = Append(v, x)
  BY SequenceEmptyOrAppend
<1>2. PICK x \in Char : u = Append(v, x)
  BY <1>1
<1>3. ASSUME NEW w \in Seq(Char)
      PROVE  /\ Append(w, x) # <<>> /\ Last(Append(w, x)) = x
             /\ Front(Append(w, x)) = w
  <2> DEFINE e == Append(w, x)
  <2>1. /\ e \in Seq(Char) /\ e # <<>> /\ Len(e) = Len(w) + 1 /\ Len(w) \in Nat
        /\ \A i \in 1 .. Len(w) : e[i] = w[i]
        /\ e[Len(w) + 1] = x
    BY AppendProperties, LenProperties
  <2> HIDE DEF e
  <2>2. Last(e) = x
    BY <2>1 DEF Last
  <2>3. Front(e) = SubSeq(e, 1, Len(w))
    BY <2>1 DEF Front
  <2>4. \A i \in 1 .. Len(w) : w[i] \in Char
    BY ElementOfSeq
  <2>5. /\ SubSeq(e, 1, Len(w)) \in Seq(Char) /\ Len(SubSeq(e, 1, Len(w))) = Len(w)
        /\ \A i \in 1 .. Len(w) : SubSeq(e, 1, Len(w))[i] = e[i]
    BY <2>1, <2>4, SubSeqProperties
  <2>6. SubSeq(e, 1, Len(w)) = w
    BY <2>1, <2>5, SeqEqual
  <2> QED
    BY <2>1, <2>2, <2>3, <2>6 DEF e
<1>4. c \o v \in Seq(Char) /\ c \o u = Append(c \o v, x)
  BY <1>2, ConcatProperties, AppendAfter
<1> QED
  BY <1>2, <1>3, <1>4, Zenon

LEMMA ReadFacts ==
  ASSUME NEW d, ReadingOK(d), NEW t, t.id \in Token
  PROVE  ReadingOK(Read(d, t))
<1>1. /\ d.chars \in Seq(Char) /\ d.open \in Seq(Token) /\ d = [chars |-> d.chars, open |-> d.open]
      /\ d.open # <<>> => d.chars # <<>> /\ Last(d.chars) = Replacement
  BY DEF ReadingOK
<1>2. /\ <<t.id>> \in Char /\ Replacement \in Char /\ <<>> \in Seq(Token) /\ <<t.id>> \in Seq(Token)
      /\ Append(d.open, t.id) \in Char
  BY <1>1 DEF Char, Replacement
<1>3. ASSUME NEW u \in Seq(Char), NEW x \in Char
      PROVE  Append(u, x) \in Seq(Char) /\ Append(u, x) # <<>> /\ Last(Append(u, x)) = x
  <2>1. <<>> \o u = u /\ <<x>> # <<>> /\ Last(<<x>>) = x /\ <<x>> \in Seq(Char)
    BY ConcatEmptySeq DEF Last
  <2>2. Append(u, x) = u \o <<x>>
    BY AppendIsConcat
  <2>3. Append(u, x) \in Seq(Char)
    BY AppendProperties
  <2>4. u \o <<x>> # <<>> /\ Last(u \o <<x>>) = Last(<<x>>)
    BY <2>1, EndAfter
  <2> QED
    BY <2>1, <2>2, <2>3, <2>4, Zenon
<1>4. CASE t.kind \in Silent
  BY <1>4, Zenon DEF Read, Silent
<1>5. CASE t.kind \notin Silent /\ t.kind = "first"
  <2>1. Read(d, t) = [chars |-> Append(d.chars, Replacement), open |-> <<t.id>>]
    BY <1>5, Zenon DEF Read
  <2> QED
    BY <1>1, <1>2, <1>3, <2>1 DEF ReadingOK
<1>6. CASE t.kind \notin Silent /\ t.kind # "first" /\ t.kind = "rest" /\ d.open # <<>>
  <2>1. Read(d, t) = [chars |-> Append(Front(d.chars), Append(d.open, t.id)), open |-> <<>>]
    BY <1>6, Zenon DEF Read
  <2>2. Front(d.chars) \in Seq(Char)
    BY <1>1, <1>6, EndAfter
  <2> QED
    BY <1>2, <1>3, <2>1, <2>2 DEF ReadingOK
<1>7. CASE t.kind \notin Silent /\ t.kind # "first" /\ t.kind = "rest" /\ d.open = <<>>
  <2>1. Read(d, t) = [chars |-> Append(d.chars, Replacement), open |-> <<>>]
    BY <1>7, Zenon DEF Read
  <2> QED
    BY <1>1, <1>2, <1>3, <2>1 DEF ReadingOK
<1>8. CASE t.kind \notin Silent /\ t.kind # "first" /\ t.kind # "rest"
  <2>1. Read(d, t) = [chars |-> Append(d.chars, <<t.id>>), open |-> <<>>]
    BY <1>8, Zenon DEF Read
  <2> QED
    BY <1>1, <1>2, <1>3, <2>1 DEF ReadingOK
<1> QED
  BY <1>4, <1>5, <1>6, <1>7, <1>8, Zenon

\* Reading on does not depend on the text before, but for what is open.
LEMMA ReadAfter ==
  ASSUME NEW c \in Seq(Char), NEW d, ReadingOK(d), NEW t, t.id \in Token
  PROVE  Read([chars |-> c \o d.chars, open |-> d.open], t)
           = [chars |-> c \o Read(d, t).chars, open |-> Read(d, t).open]
<1> DEFINE e == [chars |-> c \o d.chars, open |-> d.open]
<1>1. /\ d.chars \in Seq(Char) /\ d.open \in Seq(Token) /\ d = [chars |-> d.chars, open |-> d.open]
      /\ d.open # <<>> => d.chars # <<>>
  BY DEF ReadingOK
<1>2. e.chars = c \o d.chars /\ e.open = d.open /\ e = [chars |-> c \o d.chars, open |-> d.open]
  OBVIOUS
<1> HIDE DEF e
<1>3. <<t.id>> \in Char /\ Replacement \in Char /\ Append(d.open, t.id) \in Char
  BY <1>1 DEF Char, Replacement
<1>4. \A u \in Seq(Char), x \in Char : Append(c \o u, x) = c \o Append(u, x)
  BY AppendAfter
<1>5. Read(e, t) = [chars |-> c \o Read(d, t).chars, open |-> Read(d, t).open]
  <2>1. CASE t.kind \in Silent
    <3>1. Read(e, t) = e /\ Read(d, t) = d
      BY <2>1, Zenon DEF Read, Silent
    <3> QED
      BY <1>2, <3>1
  <2>2. CASE t.kind \notin Silent /\ t.kind = "first"
    <3>1. /\ Read(d, t) = [chars |-> Append(d.chars, Replacement), open |-> <<t.id>>]
          /\ Read(e, t) = [chars |-> Append(e.chars, Replacement), open |-> <<t.id>>]
      BY <2>2, Zenon DEF Read
    <3>2. Append(e.chars, Replacement) = c \o Append(d.chars, Replacement)
      BY <1>1, <1>2, <1>3, <1>4
    <3> QED
      BY <3>1, <3>2
  <2>3. CASE t.kind \notin Silent /\ t.kind # "first" /\ t.kind = "rest" /\ d.open # <<>>
    <3>1. /\ Read(d, t) = [chars |-> Append(Front(d.chars), Append(d.open, t.id)), open |-> <<>>]
          /\ Read(e, t) = [chars |-> Append(Front(e.chars), Append(e.open, t.id)), open |-> <<>>]
      BY <1>2, <2>3, Zenon DEF Read
    <3>2. Front(d.chars) \in Seq(Char) /\ Front(e.chars) = c \o Front(d.chars)
      BY <1>1, <1>2, <2>3, EndAfter
    <3>3. Append(Front(e.chars), Append(e.open, t.id)) = c \o Append(Front(d.chars), Append(d.open, t.id))
      BY <1>2, <1>3, <1>4, <3>2
    <3> QED
      BY <3>1, <3>3
  <2>4. CASE t.kind \notin Silent /\ t.kind # "first" /\ t.kind = "rest" /\ d.open = <<>>
    <3>1. /\ Read(d, t) = [chars |-> Append(d.chars, Replacement), open |-> <<>>]
          /\ Read(e, t) = [chars |-> Append(e.chars, Replacement), open |-> <<>>]
      BY <1>2, <2>4, Zenon DEF Read
    <3>2. Append(e.chars, Replacement) = c \o Append(d.chars, Replacement)
      BY <1>1, <1>2, <1>3, <1>4
    <3> QED
      BY <3>1, <3>2
  <2>5. CASE t.kind \notin Silent /\ t.kind # "first" /\ t.kind # "rest"
    <3>1. /\ Read(d, t) = [chars |-> Append(d.chars, <<t.id>>), open |-> <<>>]
          /\ Read(e, t) = [chars |-> Append(e.chars, <<t.id>>), open |-> <<>>]
      BY <2>5, Zenon DEF Read
    <3>2. Append(e.chars, <<t.id>>) = c \o Append(d.chars, <<t.id>>)
      BY <1>1, <1>2, <1>3, <1>4
    <3> DEFINE u == Append(d.chars, <<t.id>>)
               v == Append(e.chars, <<t.id>>)
    <3> HIDE DEF u, v
    <3>3. Read(d, t) = [chars |-> u, open |-> <<>>] /\ Read(e, t) = [chars |-> v, open |-> <<>>] /\ v = c \o u
      BY <3>1, <3>2, Zenon DEF u, v
    <3> QED
      BY <3>3
  <2> QED
    <3>1. \/ t.kind \in Silent
          \/ t.kind \notin Silent /\ t.kind = "first"
          \/ t.kind \notin Silent /\ t.kind # "first" /\ t.kind = "rest" /\ d.open # <<>>
          \/ t.kind \notin Silent /\ t.kind # "first" /\ t.kind = "rest" /\ d.open = <<>>
          \/ t.kind \notin Silent /\ t.kind # "first" /\ t.kind # "rest"
      BY Zenon
    <3> QED
      BY <2>1, <2>2, <2>3, <2>4, <2>5, <3>1, Zenon
<1> QED
  BY <1>5 DEF e

\* Tokens that carry an id.
Ided(P) == \A t \in P : t.id \in Token

LEMMA ReadingFacts ==
  ASSUME NEW P, Ided(P)
  PROVE  \A s \in Seq(P) : ReadingOK(Reading(s))
<1> DEFINE T == {n \in Nat : \E s \in Seq(P) : Len(s) = n /\ ~ ReadingOK(Reading(s))}
<1>1. SUFFICES ASSUME T # {} PROVE FALSE
  BY LenProperties
<1>2. PICK n \in T : \A m \in T : n <= m
  BY <1>1, LeastNumber
<1>3. PICK s \in Seq(P) : Len(s) = n /\ ~ ReadingOK(Reading(s))
  BY <1>2
<1>4. s # <<>>
  <2>1. ReadingOK([chars |-> <<>>, open |-> <<>>])
    BY DEF ReadingOK
  <2> QED
    BY <1>3, <2>1, ReadNothing
<1>5. PICK v \in Seq(P) : \E t \in P : s = Append(v, t)
  BY <1>4, SequenceEmptyOrAppend
<1>6. PICK t \in P : s = Append(v, t)
  BY <1>5
<1>7. Len(v) \in Nat /\ Len(v) < n
  BY <1>3, <1>6, AppendProperties, LenProperties
<1>8. ReadingOK(Reading(v))
  BY <1>2, <1>7
<1>9. Reading(s) = Read(Reading(v), t)
  BY <1>6, ReadOneMore
<1> QED
  BY <1>3, <1>8, <1>9, ReadFacts DEF Ided

\* Where no character is open, a text can be cut and its parts decoded apart.
LEMMA ReadingCut ==
  ASSUME NEW P, Ided(P), NEW a \in Seq(P), Reading(a).open = <<>>
  PROVE  \A b \in Seq(P) :
           Reading(a \o b) = [chars |-> Reading(a).chars \o Reading(b).chars,
                              open |-> Reading(b).open]
<1> DEFINE Cut(b) == Reading(a \o b) = [chars |-> Reading(a).chars \o Reading(b).chars,
                                       open |-> Reading(b).open]
           T == {n \in Nat : \E b \in Seq(P) : Len(b) = n /\ ~ Cut(b)}
<1>1. SUFFICES ASSUME T # {} PROVE FALSE
  BY LenProperties
<1>2. PICK n \in T : \A m \in T : n <= m
  BY <1>1, LeastNumber
<1>3. PICK b \in Seq(P) : Len(b) = n /\ ~ Cut(b)
  BY <1>2
<1>4. /\ Reading(a) = [chars |-> Reading(a).chars, open |-> <<>>]
      /\ Reading(a).chars \in Seq(Char)
  BY ReadingFacts DEF ReadingOK
<1>5. b # <<>>
  <2>1. Reading(a).chars \o <<>> = Reading(a).chars /\ a \o <<>> = a
    BY <1>4, ConcatEmptySeq
  <2>2. Reading(<<>>).chars = <<>> /\ Reading(<<>>).open = <<>>
    BY ReadNothing
  <2>3. Cut(<<>>)
    BY <1>4, <2>1, <2>2
  <2> QED
    BY <1>3, <2>3
<1>6. PICK v \in Seq(P) : \E t \in P : b = Append(v, t)
  BY <1>5, SequenceEmptyOrAppend
<1>7. PICK t \in P : b = Append(v, t)
  BY <1>6
<1>8. Len(v) \in Nat /\ Len(v) < n
  BY <1>3, <1>7, AppendProperties, LenProperties
<1>9. Cut(v)
  <2>1. ~ (n <= Len(v))
    BY <1>2, <1>8
  <2>2. Len(v) \notin T
    BY <1>2, <2>1, Zenon
  <2> QED
    BY <1>8, <2>2, Zenon
<1>10. a \o b = Append(a \o v, t) /\ a \o v \in Seq(P)
  <2>1. a \o v \in Seq(P) /\ <<t>> \in Seq(P)
    BY ConcatProperties
  <2>2. Append(a \o v, t) = (a \o v) \o <<t>>
    BY <2>1, AppendIsConcat
  <2>3. b = v \o <<t>>
    BY <1>7, AppendIsConcat
  <2> QED
    BY <2>1, <2>2, <2>3, ConcatAssociative
<1>11. Reading(a \o b) = Read(Reading(a \o v), t) /\ Reading(b) = Read(Reading(v), t)
  BY <1>7, <1>10, ReadOneMore
<1>12. ReadingOK(Reading(v)) /\ t.id \in Token
  BY ReadingFacts DEF Ided
<1>13. Read([chars |-> Reading(a).chars \o Reading(v).chars, open |-> Reading(v).open], t)
         = [chars |-> Reading(a).chars \o Read(Reading(v), t).chars,
            open |-> Read(Reading(v), t).open]
  BY <1>4, <1>12, ReadAfter
<1> QED
  BY <1>3, <1>9, <1>11, <1>13

\* What the reader has, of a reply whose tokens are p.
OutFits(p, out) ==
  /\ out.prefix \in Nat /\ out.read \in Nat
  /\ out.prefix <= out.read /\ out.read <= Len(p)
  /\ Reading(SubSeq(p, 1, out.prefix)).open = <<>>
  /\ Reading(SubSeq(p, 1, out.read)).open = <<>>
  /\ out.text = Decode(SubSeq(p, 1, out.read))
  /\ \/ out.text = Decode(p)
     \/ Decode(p) # <<>> /\ Last(Decode(p)) = Replacement

LEMMA StartOfMore ==
  ASSUME NEW P, NEW q \in Seq(P), NEW t \in P, NEW n \in 0 .. Len(q)
  PROVE  SubSeq(Append(q, t), 1, n) = SubSeq(q, 1, n)
<1>1. Len(q) \in Nat /\ n \in Nat /\ <<t>> \in Seq(P) /\ Append(q, t) = q \o <<t>>
  BY LenProperties, AppendIsConcat
<1>2. CASE n = 0
  BY <1>2, SubSeqEmpty
<1>3. CASE n # 0
  <2>1. 1 \in 1 .. Len(q) /\ n \in 1 .. Len(q)
    BY <1>1, <1>3
  <2>2. SubSeq(q \o <<t>>, 1, n) = SubSeq(q, 1, n)
    BY <1>1, <2>1, SubSeqOfConcat1
  <2> QED
    BY <1>1, <2>2, Zenon
<1> QED
  BY <1>2, <1>3

\* A sequence in three parts.
LEMMA ThreeParts ==
  ASSUME NEW P, NEW p \in Seq(P), NEW k \in Nat, NEW m \in Nat, k <= m, m <= Len(p)
  PROVE  /\ SubSeq(p, 1, k) \in Seq(P)
         /\ SubSeq(p, k + 1, m) \in Seq(P)
         /\ SubSeq(p, m + 1, Len(p)) \in Seq(P)
         /\ SubSeq(p, 1, k) \o SubSeq(p, k + 1, m) = SubSeq(p, 1, m)
         /\ SubSeq(p, k + 1, m) \o SubSeq(p, m + 1, Len(p)) = SubSeq(p, k + 1, Len(p))
         /\ SubSeq(p, 1, m) \o SubSeq(p, m + 1, Len(p)) = p
<1>1. Len(p) \in Nat /\ \A i \in 1 .. Len(p) : p[i] \in P
  BY LenProperties, ElementOfSeq
<1>2. \A x \in 1 .. Len(p) + 1, y \in 0 .. Len(p) : SubSeq(p, x, y) \in Seq(P)
  <2> TAKE x \in 1 .. Len(p) + 1, y \in 0 .. Len(p)
  <2>1. x \in Int /\ y \in Int /\ \A i \in x .. y : i \in 1 .. Len(p)
    BY <1>1
  <2>2. \A i \in x .. y : p[i] \in P
    BY <1>1, <2>1
  <2> QED
    BY <2>1, <2>2, SubSeqProperties
<1>3. /\ 1 \in 1 .. Len(p) + 1 /\ k \in 0 .. Len(p) /\ m \in 0 .. Len(p) /\ Len(p) \in 0 .. Len(p)
      /\ k + 1 \in 1 .. Len(p) + 1 /\ m + 1 \in 1 .. Len(p) + 1
      /\ k \in 1 - 1 .. Len(p) /\ m \in 1 - 1 .. Len(p) /\ m \in k .. Len(p)
      /\ m \in (k + 1) - 1 .. Len(p) /\ Len(p) \in m .. Len(p)
  BY <1>1
<1>4. SubSeq(p, 1, k) \o SubSeq(p, k + 1, m) = SubSeq(p, 1, m)
  BY <1>3, ConcatAdjacentSubSeq
<1>5. SubSeq(p, k + 1, m) \o SubSeq(p, m + 1, Len(p)) = SubSeq(p, k + 1, Len(p))
  BY <1>3, ConcatAdjacentSubSeq
<1>6. SubSeq(p, 1, m) \o SubSeq(p, m + 1, Len(p)) = SubSeq(p, 1, Len(p))
  BY <1>3, ConcatAdjacentSubSeq
<1>7. SubSeq(p, 1, Len(p)) = p
  BY SubSeqFull
<1> QED
  BY <1>2, <1>3, <1>4, <1>5, <1>6, <1>7, Zenon

\* What follows a text.
LEMMA RestOf ==
  ASSUME NEW x \in Seq(Char), NEW y \in Seq(Char)
  PROVE  /\ Len(x) \in Nat /\ Len(x \o y) \in Nat
         /\ SubSeq(x \o y, Len(x) + 1, Len(x \o y)) = y
         /\ Len(x \o y) <= Len(x) <=> y = <<>>
<1> DEFINE z == x \o y
<1>1. /\ z \in Seq(Char) /\ Len(z) = Len(x) + Len(y) /\ Len(x) \in Nat /\ Len(y) \in Nat
      /\ \A i \in 1 .. Len(x) + Len(y) : z[i] = IF i <= Len(x) THEN x[i] ELSE y[i - Len(x)]
  BY ConcatProperties, LenProperties
<1>2. y = <<>> <=> Len(y) = 0
  BY <1>1, EmptySeq
<1> HIDE DEF z
<1>3. \A i \in Len(x) + 1 .. Len(z) : z[i] \in Char
  <2> TAKE i \in Len(x) + 1 .. Len(z)
  <2>1. i \in 1 .. Len(z)
    BY <1>1
  <2> QED
    BY <1>1, <2>1, ElementOfSeq
<1> DEFINE w == SubSeq(z, Len(x) + 1, Len(z))
<1>4. /\ w \in Seq(Char)
      /\ Len(w) = IF Len(x) + 1 <= Len(z) THEN Len(z) - (Len(x) + 1) + 1 ELSE 0
      /\ \A i \in 1 .. Len(z) - (Len(x) + 1) + 1 : w[i] = z[(Len(x) + 1) + i - 1]
  <2>1. Len(x) + 1 \in Int /\ Len(z) \in Int
    BY <1>1
  <2> QED
    BY <1>3, <2>1, SubSeqProperties
<1> HIDE DEF w
<1>5. Len(w) = Len(y)
  BY <1>1, <1>4
<1>6. \A i \in 1 .. Len(y) : w[i] = y[i]
  <2> TAKE i \in 1 .. Len(y)
  <2>1. /\ i \in 1 .. Len(z) - (Len(x) + 1) + 1
        /\ (Len(x) + 1) + i - 1 = Len(x) + i
        /\ Len(x) + i \in 1 .. Len(x) + Len(y) /\ ~ (Len(x) + i <= Len(x))
        /\ (Len(x) + i) - Len(x) = i
    BY <1>1
  <2>2. z[Len(x) + i] = y[(Len(x) + i) - Len(x)]
    BY <1>1, <2>1
  <2>3. w[i] = z[(Len(x) + 1) + i - 1]
    BY <1>4, <2>1
  <2> QED
    BY <2>1, <2>2, <2>3
<1>7. w = y
  BY <1>4, <1>5, <1>6, SeqEqual
<1> QED
  BY <1>1, <1>2, <1>7 DEF z, w

LEMMA DecodeCut ==
  ASSUME NEW P, Ided(P), NEW a \in Seq(P), Reading(a).open = <<>>
  PROVE  \A b \in Seq(P) : /\ Decode(a \o b) = Decode(a) \o Decode(b)
                           /\ Reading(a \o b).open = Reading(b).open
<1> TAKE b \in Seq(P)
<1> DEFINE x == Reading(a \o b)
           y == Reading(a)
           z == Reading(b)
<1>1. x = [chars |-> y.chars \o z.chars, open |-> z.open]
  BY ReadingCut
<1> HIDE DEF x, y, z
<1>2. x.chars = y.chars \o z.chars /\ x.open = z.open
  BY <1>1
<1> QED
  BY <1>2, Zenon DEF Decode, x, y, z

LEMMA AddedText ==
  ASSUME NEW delta, NEW text, NEW prefix, NEW read, NEW before,
         delta = [text |-> text, prefix |-> prefix, read |-> read]
  PROVE  /\ [delta EXCEPT !.text = before \o @].text = before \o text
         /\ [delta EXCEPT !.text = before \o @].prefix = prefix
         /\ [delta EXCEPT !.text = before \o @].read = read
OBVIOUS

\* One token more is decoded: nothing is lost, and nothing is said twice.
LEMMA DeltaKeeps ==
  ASSUME NEW P, Ided(P), NEW q \in Seq(P), NEW t \in P, NEW out, OutFits(q, out),
         NEW delta, delta = Delta(Append(q, t), out.prefix, out.read)
  PROVE  OutFits(Append(q, t), [delta EXCEPT !.text = out.text \o @])
<1> DEFINE p == Append(q, t)
           k == out.prefix
           m == out.read
           a == SubSeq(p, 1, k)
           b == SubSeq(p, k + 1, m)
           c == SubSeq(p, m + 1, Len(p))
           new == [delta EXCEPT !.text = out.text \o @]
<1>1. /\ p \in Seq(P) /\ Len(q) \in Nat /\ Len(p) = Len(q) + 1 /\ p[Len(p)] = t
      /\ k \in Nat /\ m \in Nat /\ k <= m /\ m <= Len(q)
  BY AppendProperties, LenProperties DEF OutFits
<1>2. SubSeq(p, 1, k) = SubSeq(q, 1, k) /\ SubSeq(p, 1, m) = SubSeq(q, 1, m)
  <2>1. k \in 0 .. Len(q) /\ m \in 0 .. Len(q)
    BY <1>1
  <2> QED
    BY <2>1, StartOfMore
<1>3. Reading(p) = Read(Reading(q), t)
  BY ReadOneMore
<1>4. /\ Reading(SubSeq(p, 1, k)).open = <<>>
      /\ Reading(SubSeq(p, 1, m)).open = <<>>
      /\ out.text = Decode(SubSeq(p, 1, m))
      /\ out.text = Decode(q) \/ (Decode(q) # <<>> /\ Last(Decode(q)) = Replacement)
  BY <1>2, Zenon DEF OutFits
<1>5. /\ delta = IF Last(p).kind = "eos" \/ HeldBack(Decode(SubSeq(p, k + 1, Len(p))), Decode(b))
                   THEN [text |-> <<>>, prefix |-> k, read |-> m]
                   ELSE [text |-> SubSeq(Decode(SubSeq(p, k + 1, Len(p))), Len(Decode(b)) + 1,
                                         Len(Decode(SubSeq(p, k + 1, Len(p))))),
                         prefix |-> m, read |-> Len(p)]
      /\ Last(p) = t
  BY <1>1 DEF Delta, Last
<1> HIDE DEF p, k, m
<1>6. /\ a \in Seq(P) /\ b \in Seq(P) /\ c \in Seq(P)
      /\ a \o b = SubSeq(p, 1, m) /\ b \o c = SubSeq(p, k + 1, Len(p))
      /\ SubSeq(p, 1, m) \o c = p
  <2>1. m <= Len(p)
    BY <1>1
  <2>2. /\ a \in Seq(P) /\ b \in Seq(P) /\ c \in Seq(P)
        /\ a \o b = SubSeq(p, 1, m)
    BY <1>1, <2>1, ThreeParts
  <2>3. b \o c = SubSeq(p, k + 1, Len(p))
    BY <1>1, <2>1, ThreeParts
  <2>4. SubSeq(p, 1, m) \o c = p
    BY <1>1, <2>1, ThreeParts
  <2> QED
    BY <2>2, <2>3, <2>4, Zenon
<1>7. a \o b \in Seq(P) /\ b \o c \in Seq(P) /\ (a \o b) \o c = p
  BY <1>6, ConcatProperties
<1>8. Reading(a).open = <<>> /\ Reading(a \o b).open = <<>> /\ out.text = Decode(a \o b)
  BY <1>4, <1>6
<1> HIDE DEF a, b, c
<1> DEFINE now == Decode(b \o c)
           before == Decode(b)
           rest == Decode(c)
<1>9. /\ Reading(a \o b).open = Reading(b).open
      /\ Decode(p) = Decode(a \o b) \o rest /\ Reading(p).open = Reading(c).open
  <2>1. Reading(a \o b).open = Reading(b).open
    BY <1>6, <1>8, DecodeCut
  <2>2. \A x \in Seq(P) : /\ Decode((a \o b) \o x) = Decode(a \o b) \o Decode(x)
                          /\ Reading((a \o b) \o x).open = Reading(x).open
    BY <1>7, <1>8, DecodeCut
  <2>3. Decode(p) = Decode(a \o b) \o Decode(c) /\ Reading(p).open = Reading(c).open
    BY <1>6, <1>7, <2>2, Zenon
  <2> QED
    BY <2>1, <2>3, Zenon
<1>10. now = before \o rest
  <2>1. Reading(b).open = <<>>
    BY <1>8, <1>9
  <2> QED
    BY <1>6, <2>1, DecodeCut
<1>11. /\ Decode(a \o b) \in Seq(Char) /\ before \in Seq(Char) /\ rest \in Seq(Char)
       /\ Reading(c).open # <<>> => rest # <<>> /\ Last(rest) = Replacement
  BY <1>6, <1>7, ReadingFacts DEF Decode, ReadingOK
<1>12. delta = IF t.kind = "eos" \/ HeldBack(now, before)
                 THEN [text |-> <<>>, prefix |-> k, read |-> m]
                 ELSE [text |-> SubSeq(now, Len(before) + 1, Len(now)), prefix |-> m, read |-> Len(p)]
  BY <1>5, <1>6, Zenon
<1> HIDE DEF now, before, rest
<1>13. /\ SubSeq(now, Len(before) + 1, Len(now)) = rest
       /\ Len(now) <= Len(before) <=> rest = <<>>
       /\ rest # <<>> => /\ Last(now) = Last(rest)
                         /\ Last(Decode(p)) = Last(rest) /\ Decode(p) # <<>>
  BY <1>9, <1>10, <1>11, RestOf, EndAfter
<1>14. CASE t.kind = "eos" \/ HeldBack(now, before)
  <2>1. delta = [text |-> <<>>, prefix |-> k, read |-> m]
    BY <1>12, <1>14, Zenon
  <2>2. out.text \o <<>> = out.text
    BY <1>8, <1>11, ConcatEmptySeq
  <2>3. new.text = out.text /\ new.prefix = k /\ new.read = m
    <3>1. new.text = out.text \o <<>> /\ new.prefix = k /\ new.read = m
      BY <2>1, AddedText
    <3> QED
      BY <2>2, <3>1, Zenon
  <2>4. out.text = Decode(p) \/ (Decode(p) # <<>> /\ Last(Decode(p)) = Replacement)
    <3>1. CASE t.kind = "eos"
      <4>1. Reading(p) = Reading(q)
        BY <1>3, <3>1 DEF Read, Silent
      <4> QED
        BY <1>4, <4>1 DEF Decode
    <3>2. CASE rest = <<>>
      BY <1>8, <1>9, <1>11, <3>2, ConcatEmptySeq
    <3>3. CASE rest # <<>> /\ Last(now) = Replacement
      BY <1>13, <3>3
    <3> QED
      BY <1>13, <1>14, <3>1, <3>2, <3>3 DEF HeldBack
  <2> HIDE DEF new
  <2>5. m <= Len(p)
    BY <1>1
  <2>6. OutFits(p, new)
    BY <1>1, <1>4, <2>3, <2>4, <2>5 DEF OutFits
  <2> QED
    BY <2>6 DEF p, new
<1>15. CASE ~ (t.kind = "eos" \/ HeldBack(now, before))
  <2>1. delta = [text |-> rest, prefix |-> m, read |-> Len(p)]
    BY <1>12, <1>13, <1>15, Zenon
  <2>2. new.text = Decode(p) /\ new.prefix = m /\ new.read = Len(p)
    <3>1. new.text = out.text \o rest /\ new.prefix = m /\ new.read = Len(p)
      BY <2>1, AddedText
    <3> QED
      BY <1>8, <1>9, <3>1, Zenon
  <2>3. Reading(p).open = <<>>
    BY <1>9, <1>11, <1>13, <1>15 DEF HeldBack
  <2>4. SubSeq(p, 1, Len(p)) = p
    BY <1>1, SubSeqFull
  <2> HIDE DEF new
  <2>5. m <= Len(p) /\ Len(p) \in Nat
    BY <1>1
  <2>6. /\ Reading(SubSeq(p, 1, new.prefix)).open = <<>>
        /\ Reading(SubSeq(p, 1, new.read)).open = <<>>
        /\ new.text = Decode(SubSeq(p, 1, new.read))
    BY <1>4, <2>2, <2>3, <2>4, Zenon
  <2>7. OutFits(p, new)
    BY <1>1, <2>2, <2>5, <2>6 DEF OutFits
  <2> QED
    BY <2>7 DEF p, new
<1> QED
  BY <1>14, <1>15

-----------------------------------------------------------------------------
(* What a burst adds to the text *)

PieceSet(r) == {Piece(r, t) : t \in Token}

LEMMA PieceFacts ==
  ASSUME NEW r
  PROVE  /\ Ided(PieceSet(r))
         /\ \A s \in Seq(Token) : /\ Pieces(r, s) \in Seq(PieceSet(r))
                                  /\ Len(Pieces(r, s)) = Len(s)
                                  /\ \A i \in 1 .. Len(s) : Pieces(r, s)[i] = Piece(r, s[i])
<1>1. Ided(PieceSet(r))
  BY DEF Ided, PieceSet, Piece
<1>2. ASSUME NEW s \in Seq(Token)
      PROVE  /\ Pieces(r, s) \in Seq(PieceSet(r))
             /\ Len(Pieces(r, s)) = Len(s)
             /\ \A i \in 1 .. Len(s) : Pieces(r, s)[i] = Piece(r, s[i])
  <2>1. Len(s) \in Nat /\ DOMAIN s = 1 .. Len(s) /\ \A i \in 1 .. Len(s) : s[i] \in Token
    BY LenProperties, ElementOfSeq
  <2>2. Pieces(r, s) \in [1 .. Len(s) -> PieceSet(r)]
        /\ \A i \in 1 .. Len(s) : Pieces(r, s)[i] = Piece(r, s[i])
    BY <2>1 DEF Pieces, PieceSet
  <2> QED
    BY <2>1, <2>2, SeqDef, LenProperties
<1> QED
  BY <1>1, <1>2

LEMMA PiecesOfMore ==
  ASSUME NEW r, NEW s \in Seq(Token), NEW t \in Token
  PROVE  Pieces(r, Append(s, t)) = Append(Pieces(r, s), Piece(r, t))
<1> DEFINE p == Pieces(r, Append(s, t))
           q == Pieces(r, s)
           u == Append(q, Piece(r, t))
           e == Append(s, t)
<1>1. /\ e \in Seq(Token) /\ Len(e) = Len(s) + 1 /\ Len(s) \in Nat
      /\ \A i \in 1 .. Len(s) : e[i] = s[i]
      /\ e[Len(s) + 1] = t
  BY AppendProperties, LenProperties
<1>2. /\ q \in Seq(PieceSet(r)) /\ Len(q) = Len(s)
      /\ \A i \in 1 .. Len(s) : q[i] = Piece(r, s[i])
  BY PieceFacts
<1> HIDE DEF e
<1>3. /\ Pieces(r, e) \in Seq(PieceSet(r)) /\ Len(Pieces(r, e)) = Len(s) + 1
      /\ \A i \in 1 .. Len(e) : Pieces(r, e)[i] = Piece(r, e[i])
  BY <1>1, PieceFacts
<1>4. Piece(r, t) \in PieceSet(r)
  BY DEF PieceSet
<1> HIDE DEF q
<1>5. /\ u \in Seq(PieceSet(r)) /\ Len(u) = Len(s) + 1
      /\ \A i \in 1 .. Len(s) : u[i] = q[i]
      /\ u[Len(s) + 1] = Piece(r, t)
  BY <1>2, <1>4, AppendProperties
<1> HIDE DEF u
<1>6. \A i \in 1 .. Len(s) + 1 : Pieces(r, e)[i] = u[i]
  <2> TAKE i \in 1 .. Len(s) + 1
  <2>1. i \in 1 .. Len(s) \/ i = Len(s) + 1
    BY <1>1
  <2>2. Pieces(r, e)[i] = Piece(r, e[i])
    BY <1>1, <1>3
  <2> QED
    BY <1>1, <1>2, <1>5, <2>1, <2>2
<1>7. Pieces(r, e) = u
  BY <1>3, <1>5, <1>6, SeqEqual
<1> QED
  BY <1>7 DEF e, u, q

HeardUpTo(r, g, burst, out, f, n) ==
  f = [k \in 0 .. n |-> IF k = 0 THEN out ELSE Heard(r, g \o burst, f[k - 1], Len(g) + k)]

LEMMA HeardExists ==
  ASSUME NEW r, NEW g, NEW burst, NEW out
  PROVE  \A n \in Nat : \E f : HeardUpTo(r, g, burst, out, f, n)
<1> DEFINE T == {n \in Nat : ~ \E f : HeardUpTo(r, g, burst, out, f, n)}
<1>1. SUFFICES ASSUME T # {} PROVE FALSE
  OBVIOUS
<1>2. PICK n \in T : \A m \in T : n <= m
  BY <1>1, LeastNumber
<1>3. n # 0
  <2>1. HeardUpTo(r, g, burst, out, [k \in 0 .. 0 |-> out], 0)
    BY DEF HeardUpTo
  <2> QED
    BY <2>1
<1>4. n - 1 \in Nat /\ n - 1 \notin T
  BY <1>2, <1>3
<1>5. PICK f : HeardUpTo(r, g, burst, out, f, n - 1)
  BY <1>4
<1> DEFINE h == [k \in 0 .. n |-> IF k = n THEN Heard(r, g \o burst, f[n - 1], Len(g) + n) ELSE f[k]]
<1>6. HeardUpTo(r, g, burst, out, h, n)
  <2>1. \A k \in 0 .. n - 1 : f[k] = IF k = 0 THEN out ELSE Heard(r, g \o burst, f[k - 1], Len(g) + k)
    BY <1>5 DEF HeardUpTo
  <2>2. n \in Nat /\ n # 0
    BY <1>3
  <2>3. ASSUME NEW k \in 0 .. n
        PROVE  h[k] = IF k = 0 THEN out ELSE Heard(r, g \o burst, h[k - 1], Len(g) + k)
    <3>1. CASE k = n
      BY <2>2, <3>1
    <3>2. CASE k # n
      <4>1. k \in 0 .. n - 1 /\ (k # 0 => k - 1 \in 0 .. n - 1 /\ k - 1 # n /\ k - 1 \in 0 .. n)
        BY <2>2, <3>2
      <4>2. h[k] = f[k] /\ (k # 0 => h[k - 1] = f[k - 1])
        BY <3>2, <4>1
      <4> QED
        BY <2>1, <4>1, <4>2
    <3> QED
      BY <3>1, <3>2
  <2> HIDE DEF h
  <2>4. h = [k \in 0 .. n |-> h[k]]
    BY DEF h
  <2> QED
    BY <2>3, <2>4 DEF HeardUpTo
<1> QED
  BY <1>2, <1>6

LEMMA HeardIs ==
  ASSUME NEW r, NEW g, NEW burst, NEW out, Len(burst) \in Nat
  PROVE  \E f : /\ HeardUpTo(r, g, burst, out, f, Len(burst))
                /\ HeardOf(r, g, burst, out) = f[Len(burst)]
<1> DEFINE hear == CHOOSE f : HeardUpTo(r, g, burst, out, f, Len(burst))
<1>1. HeardUpTo(r, g, burst, out, hear, Len(burst))
  BY HeardExists
<1>2. HeardOf(r, g, burst, out) = hear[Len(burst)]
  BY Zenon DEF HeardOf, HeardUpTo
<1> QED
  BY <1>1, <1>2

LEMMA HeardFits ==
  ASSUME NEW r, NEW g \in Seq(Token), NEW burst \in Seq(Token), NEW out, OutFits(Pieces(r, g), out)
  PROVE  OutFits(Pieces(r, g \o burst), HeardOf(r, g, burst, out))
<1> DEFINE h == g \o burst
           start(k) == SubSeq(h, 1, Len(g) + k)
<1>1. /\ h \in Seq(Token) /\ Len(h) = Len(g) + Len(burst)
      /\ Len(g) \in Nat /\ Len(burst) \in Nat
      /\ SubSeq(h, 1, Len(h)) = h
  BY ConcatProperties, LenProperties, SubSeqFull
<1>2. PICK f : /\ HeardUpTo(r, g, burst, out, f, Len(burst))
               /\ HeardOf(r, g, burst, out) = f[Len(burst)]
  BY <1>1, HeardIs
<1>3. f[0] = out /\ \A k \in 1 .. Len(burst) : f[k] = Heard(r, h, f[k - 1], Len(g) + k)
  <2>1. \A k \in 0 .. Len(burst) : f[k] = IF k = 0 THEN out ELSE Heard(r, h, f[k - 1], Len(g) + k)
    BY <1>2 DEF HeardUpTo
  <2>2. 0 \in 0 .. Len(burst) /\ \A k \in 1 .. Len(burst) : k \in 0 .. Len(burst) /\ k # 0
    BY <1>1
  <2> QED
    BY <2>1, <2>2, Zenon
<1>4. start(0) = g
  <2>1. \A i \in 1 .. Len(g) : h[i] = g[i] /\ g[i] \in Token
    BY <1>1, ConcatTokens, ElementOfSeq
  <2>2. start(0) = SubSeq(h, 1, Len(g))
    BY <1>1
  <2> HIDE DEF h
  <2>3. /\ SubSeq(h, 1, Len(g)) \in Seq(Token) /\ Len(SubSeq(h, 1, Len(g))) = Len(g)
        /\ \A i \in 1 .. Len(g) : SubSeq(h, 1, Len(g))[i] = h[i]
    BY <1>1, <2>1, SubSeqProperties
  <2> HIDE DEF start
  <2>4. SubSeq(h, 1, Len(g)) = g
    BY <2>1, <2>3, SeqEqual
  <2> QED
    BY <2>2, <2>4
<1> HIDE DEF h
<1>5. \A k \in 1 .. Len(burst) : /\ start(k - 1) \in Seq(Token) /\ h[Len(g) + k] \in Token
                                 /\ start(k) = Append(start(k - 1), h[Len(g) + k])
  <2> TAKE k \in 1 .. Len(burst)
  <2>1. /\ 1 \in 1 .. Len(h) /\ Len(g) + k \in 1 .. Len(h) /\ (Len(g) + k) - 1 = Len(g) + (k - 1)
        /\ Len(g) + (k - 1) \in 0 .. Len(h)
    BY <1>1
  <2>2. SubSeq(h, 1, Len(g) + k) = SubSeq(h, 1, (Len(g) + k) - 1) \o <<h[Len(g) + k]>>
    BY <1>1, <2>1, SubSeqRecursiveSecond
  <2>3. h[Len(g) + k] \in Token
    BY <1>1, <2>1, ElementOfSeq
  <2>4. SubSeq(h, 1, Len(g) + (k - 1)) \in Seq(Token)
    BY <1>1, <2>1, PrefixFacts
  <2>5. Append(SubSeq(h, 1, Len(g) + (k - 1)), h[Len(g) + k]) = SubSeq(h, 1, Len(g) + (k - 1)) \o <<h[Len(g) + k]>>
    BY <2>3, <2>4, AppendIsConcat
  <2> QED
    BY <2>1, <2>2, <2>3, <2>4, <2>5, Zenon
<1>6. \A k \in 0 .. Len(burst) : OutFits(Pieces(r, start(k)), f[k])
  <2> DEFINE T == {k \in 0 .. Len(burst) : ~ OutFits(Pieces(r, start(k)), f[k])}
  <2>1. SUFFICES ASSUME T # {} PROVE FALSE
    OBVIOUS
  <2>2. T \subseteq Nat
    OBVIOUS
  <2>3. PICK k \in T : \A j \in T : k <= j
    BY <2>1, <2>2, LeastNumber
  <2>4. k # 0
    BY <1>3, <1>4
  <2>5. k \in 1 .. Len(burst) /\ k - 1 \in 0 .. Len(burst) /\ k - 1 \notin T
    BY <2>3, <2>4
  <2>6. OutFits(Pieces(r, start(k - 1)), f[k - 1])
    BY <2>5
  <2> DEFINE s == start(k - 1)
             t == h[Len(g) + k]
             o == f[k - 1]
             delta == Delta(Pieces(r, start(k)), o.prefix, o.read)
  <2>7. f[k] = [delta EXCEPT !.text = o.text \o @]
    BY <1>3, <2>5, Zenon DEF Heard
  <2>8. s \in Seq(Token) /\ t \in Token /\ start(k) = Append(s, t)
    BY <1>5, <2>5
  <2>9. Pieces(r, start(k)) = Append(Pieces(r, s), Piece(r, t))
    BY <2>8, PiecesOfMore
  <2>10. Pieces(r, s) \in Seq(PieceSet(r)) /\ Piece(r, t) \in PieceSet(r) /\ Ided(PieceSet(r))
    BY <2>8, PieceFacts DEF PieceSet
  <2> HIDE DEF s, t, o
  <2>11. delta = Delta(Append(Pieces(r, s), Piece(r, t)), o.prefix, o.read)
    BY <2>9, Zenon
  <2>12. OutFits(Pieces(r, s), o)
    BY <2>6 DEF s, o
  <2> HIDE DEF delta
  <2>13. OutFits(Append(Pieces(r, s), Piece(r, t)), [delta EXCEPT !.text = o.text \o @])
    BY <2>10, <2>11, <2>12, DeltaKeeps
  <2>14. OutFits(Pieces(r, start(k)), f[k])
    BY <2>7, <2>9, <2>13, Zenon
  <2> QED
    BY <2>3, <2>14
<1>7. Len(burst) \in 0 .. Len(burst) /\ start(Len(burst)) = h
  BY <1>1
<1> QED
  BY <1>2, <1>6, <1>7 DEF h

OutOK(r) == OutFits(Pieces(r, state[r].generated), state[r].out)

LEMMA InitHeard == ASSUME Init PROVE \A r \in Owner : OutOK(r)
<1> TAKE r \in Owner
<1>1. state[r].generated = <<>> /\ state[r].out = [text |-> <<>>, prefix |-> 0, read |-> 0]
  BY DEF Init, NewState
<1> DEFINE p == Pieces(r, <<>>)
<1>2. p \in Seq(PieceSet(r)) /\ Len(p) = 0
  BY PieceFacts, EmptySeq
<1>3. p = <<>> /\ SubSeq(p, 1, 0) = <<>>
  BY <1>2, EmptySeq, SubSeqEmpty
<1>4. Reading(<<>>).open = <<>> /\ Decode(<<>>) = <<>>
  BY ReadNothing DEF Decode
<1> DEFINE out == [text |-> <<>>, prefix |-> 0, read |-> 0]
<1>5. out.text = <<>> /\ out.prefix = 0 /\ out.read = 0
  OBVIOUS
<1> HIDE DEF p, out
<1>6. OutFits(p, out)
  <2>1. /\ out.prefix \in Nat /\ out.read \in Nat
        /\ out.prefix <= out.read /\ out.read <= Len(p)
    BY <1>2, <1>5
  <2>2. /\ Reading(SubSeq(p, 1, out.prefix)).open = <<>>
        /\ Reading(SubSeq(p, 1, out.read)).open = <<>>
        /\ out.text = Decode(SubSeq(p, 1, out.read))
        /\ out.text = Decode(p)
    BY <1>3, <1>4, <1>5, Zenon
  <2> QED
    BY <2>1, <2>2, Zenon DEF OutFits
<1> QED
  BY <1>1, <1>6, Zenon DEF OutOK, p, out

LEMMA GrowthHeard ==
  ASSUME CountsOK, NEW r \in Owner, OutOK(r), ReplyGrows(r)
  PROVE  OutOK(r)'
<1> DEFINE g == state[r].generated
           out == state[r].out
<1>1. InDecode(r) /\ g \in Seq(Token) /\ Len(g) < MaxNewTokens[r] /\ DOMAIN state[r] = Fields
  BY DEF ReplyGrows, CountsOK, StateOK, InDecode
<1>2. PICK tokens \in Seq(Token) : Burst(r, tokens)
  BY DEF ReplyGrows
<1> DEFINE put == Put(r, g, tokens)
<1>3. put \in Seq(Token)
  BY <1>1, PutFacts
<1>4. AppendTokens(r, state[r], tokens).out = HeardOf(r, g, put, out)
  BY <1>1, Zenon DEF AppendTokens, Fields
<1>5. state'[r].generated = g \o put /\ state'[r].out = HeardOf(r, g, put, out)
  BY <1>2, <1>4, Zenon DEF Burst
<1>6. OutFits(Pieces(r, g), out)
  BY DEF OutOK
<1> HIDE DEF g, put, out
<1>7. OutFits(Pieces(r, g \o put), HeardOf(r, g, put, out))
  BY <1>1, <1>3, <1>6, HeardFits
<1> QED
  BY <1>5, <1>7, Zenon DEF OutOK

HeardOK == CountsOK /\ \A r \in Owner : OutOK(r)

LEMMA InitHeardOK == Init => HeardOK
BY InitCounts, InitHeard DEF HeardOK

LEMMA StepHeard == HeardOK /\ [Next]_vars => HeardOK'
<1> SUFFICES ASSUME HeardOK, [Next]_vars PROVE HeardOK'
  OBVIOUS
<1>1. CountsOK /\ CountsOK'
  BY StepCounts DEF HeardOK
<1>2. ASSUME NEW r \in Owner PROVE OutOK(r)'
  <2>1. OutOK(r)
    BY DEF HeardOK
  <2>2. CASE ReplyStays(r)
    BY <2>1, <2>2, Zenon DEF ReplyStays, OutOK
  <2>3. CASE ReplyGrows(r)
    BY <1>1, <2>1, <2>3, GrowthHeard
  <2> QED
    BY <1>1, <2>2, <2>3, ReplySteps
<1> QED
  BY <1>1, <1>2 DEF HeardOK

\* The deltas that were put out add up to the decoding of the reply so far: for
\* every reply, however its characters are spread over tokens and bursts.
THEOREM DeltasAreDecoding == Spec => []TextIsDecoding
<1>1. HeardOK => TextIsDecoding
  <2> SUFFICES ASSUME HeardOK, NEW r \in Owner
               PROVE  LET pieces == Pieces(r, state[r].generated)
                      IN /\ state[r].out.text = Decode(SubSeq(pieces, 1, state[r].out.read))
                         /\ \/ state[r].out.text = Decode(pieces)
                            \/ Last(Decode(pieces)) = Replacement
    BY DEF TextIsDecoding
  <2>1. OutFits(Pieces(r, state[r].generated), state[r].out)
    BY DEF HeardOK, OutOK
  <2> QED
    BY <2>1, Zenon DEF OutFits
<1> QED
  BY <1>1, InitHeardOK, StepHeard, PTL DEF Spec

-----------------------------------------------------------------------------
(***************************************************************************)
(* Types.  What is written into the slots is what was fed, so this needs   *)
(* all that is known of a turn and of the pending token.                   *)
(***************************************************************************)

SlotsTyped == \A x \in Slot : slots[x] = <<>> \/ slots[x] \in Owner \X Token \X Seq(Token)

\* A step writes nothing into the slots, or the tokens of one request.
SlotsWritten == \/ slots' = slots
                \/ \E r \in Owner, start \in Nat, fed \in Seq(Token) : Mirror(r, start, fed)

LEMMA PassWrites ==
  ASSUME NEW r \in Owner, NEW start \in Nat, NEW fed \in Seq(Token), PassRaises(r, start, fed)
  PROVE  SlotsWritten
BY DEF PassRaises, SlotsWritten

LEMMA StepWrites ==
  ASSUME CountsOK, PhasesOK, [Next]_vars
  PROVE  SlotsWritten
<1>1. ASSUME NEW r \in Owner PROVE PhaseOK(r)
  BY DEF PhasesOK
<1>2. ASSUME slots' = slots PROVE SlotsWritten
  BY <1>2 DEF SlotsWritten
<1>3. ASSUME NEW r \in Owner, NEW start \in Nat, NEW fed \in Seq(Token), Mirror(r, start, fed)
      PROVE  SlotsWritten
  BY <1>3, Zenon DEF SlotsWritten
<1>4. ASSUME UNCHANGED vars \/ FreePage PROVE SlotsWritten
  BY <1>2, <1>4 DEF vars, execVars, FreePage
<1>5. ASSUME NEW r \in Owner, Prefill(r) \/ PrefillRaises(r) PROVE SlotsWritten
  <2>1. state[r].prefilled < PromptLen[r]
    BY <1>5 DEF Prefill, PrefillRaises, PrefillBatch
  <2>2. state[r].prefilled \in Nat /\ ChunkOf(r) \in Seq(Token)
    BY <2>1, ChunkCounts
  <2>3. Mirror(r, state[r].prefilled, ChunkOf(r)) \/ PassRaises(r, state[r].prefilled, ChunkOf(r))
    BY <1>5 DEF Prefill, PrefillRaises
  <2> QED
    BY <1>3, <2>2, <2>3, PassWrites
<1>6. ASSUME NEW r \in Owner, Reserve(r) \/ EmitPending(r) \/ DraftRaises(r) \/ RoundOverdraws(r)
                              \/ AcceptAll(r) \/ Reject(r)
      PROVE  SlotsWritten
  BY <1>2, <1>6 DEF Reserve, EmitPending, DraftRaises, RoundOverdraws, AcceptAll, Reject
<1>7. ASSUME NEW r \in Owner, DecodeNext(r) \/ DecodeRaises(r) PROVE SlotsWritten
  <2>1. DecodeBatch(r)
    BY <1>7 DEF DecodeNext, DecodeRaises
  <2>2. InDecode(r) /\ ~ HasPending(r)
    BY <2>1, ReservedFacts DEF DecodeBatch
  <2>3. TokenCount(r) - 1 \in Nat /\ LastToken(r) \in Token
    BY <1>1, <2>2, LastFacts
  <2>4. <<LastToken(r)>> \in Seq(Token)
    BY <2>3
  <2>5. \/ Mirror(r, TokenCount(r) - 1, <<LastToken(r)>>)
        \/ PassRaises(r, TokenCount(r) - 1, <<LastToken(r)>>)
    BY <1>7 DEF DecodeNext, DecodeRaises
  <2> QED
    BY <1>3, <2>3, <2>4, <2>5, PassWrites
<1>8. ASSUME NEW r \in Owner, Validate(r) \/ ValidateRaises(r) PROVE SlotsWritten
  <2>1. SpecBatch(r) /\ ~ HasPending(r)
    BY <1>8 DEF Validate, ValidateRaises, SpecBatch
  <2>2. PICK drafts \in Drafts(r) :
          slots' = slots \/ Mirror(r, TokenCount(r) - 1, <<LastToken(r)>> \o drafts)
    BY <1>8 DEF Validate, ValidateRaises
  <2>3. InDecode(r) /\ drafts \in Seq(Token)
    BY <2>1, ProposedFacts
  <2>4. TokenCount(r) - 1 \in Nat /\ <<LastToken(r)>> \o drafts \in Seq(Token)
    BY <1>1, <2>1, <2>3, FedFrom
  <2> QED
    BY <1>2, <1>3, <2>2, <2>4
<1>9. ASSUME NEW r \in Owner, Replay(r) \/ ReplayRaises(r) PROVE SlotsWritten
  <2>1. InStep(r, "rejected")
    BY <1>9 DEF Replay, ReplayRaises, ReplayBatch
  <2>2. slots' = slots \/ Mirror(r, TokenCount(r) - 1, ReplayFed(r))
    BY <1>9 DEF Replay, ReplayRaises
  <2>3. TokenCount(r) - 1 \in Nat /\ ReplayFed(r) \in Seq(Token)
    BY <1>1, <2>1, ReplayedFed
  <2> QED
    BY <1>2, <1>3, <2>2, <2>3
<1> QED
  BY <1>4, <1>5, <1>6, <1>7, <1>8, <1>9 DEF Next

\* What a row attends to are tokens.
LEMMA VisibleTokens ==
  ASSUME NEW past \in Seq(Token), NEW fed \in Seq(Token), NEW i \in 1 .. Len(fed)
  PROVE  Visible(past, fed, i) \in Seq(Token)
<1> DEFINE keys == past \o fed
<1>1. /\ keys \in Seq(Token) /\ Len(keys) = Len(past) + Len(fed)
      /\ Len(past) \in Nat /\ Len(fed) \in Nat
  BY ConcatTokens, LenProperties, Zenon
<1>2. Visible(past, fed, i) = SubSeq(keys, 1, i + Offset(Len(keys), Len(fed)))
  BY DEF Visible
<1> HIDE DEF keys
<1>3. i + Offset(Len(keys), Len(fed)) \in 0 .. Len(keys)
  BY <1>1 DEF Offset
<1> QED
  BY <1>1, <1>2, <1>3, PrefixFacts

LEMMA WrittenTyped ==
  ASSUME SlotsTyped, PastsOK, SlotsWritten
  PROVE  SlotsTyped'
<1>1. CASE slots' = slots
  BY <1>1 DEF SlotsTyped
<1>2. CASE \E r \in Owner, start \in Nat, fed \in Seq(Token) : Mirror(r, start, fed)
  <2>1. PICK r \in Owner, start \in Nat, fed \in Seq(Token) : Mirror(r, start, fed)
    BY <1>2
  <2> DEFINE Here(x) == {i \in DOMAIN fed : SlotOf(block_table'[r], start + i - 1) = x}
  <2>2. \A x \in Slot : slots'[x] = IF Here(x) = {} THEN slots[x]
                                                  ELSE Row(r, fed, CHOOSE i \in Here(x) : TRUE)
    BY <2>1 DEF Mirror
  <2>3. \A i \in DOMAIN fed : Row(r, fed, i) \in Owner \X Token \X Seq(Token)
    <3>1. state[r].past \in Seq(Token)
      BY DEF PastsOK, PastOK
    <3>2. ASSUME NEW i \in 1 .. Len(fed) PROVE Row(r, fed, i) \in Owner \X Token \X Seq(Token)
      <4>1. fed[i] \in Token
        BY ElementOfSeq
      <4>2. Visible(state[r].past, fed, i) \in Seq(Token)
        BY <3>1, VisibleTokens
      <4> QED
        BY <4>1, <4>2 DEF Row
    <3> QED
      BY <3>2, LenProperties
  <2>4. \A x : Here(x) # {} => (CHOOSE i \in Here(x) : TRUE) \in DOMAIN fed
    OBVIOUS
  <2> HIDE DEF Here
  <2>5. ASSUME NEW x \in Slot
        PROVE  slots'[x] = <<>> \/ slots'[x] \in Owner \X Token \X Seq(Token)
    <3>1. CASE Here(x) = {}
      BY <2>2, <3>1 DEF SlotsTyped
    <3>2. CASE Here(x) # {}
      <4> DEFINE i == CHOOSE i \in Here(x) : TRUE
      <4>1. slots'[x] = Row(r, fed, i)
        BY <2>2, <3>2
      <4>2. i \in DOMAIN fed
        BY <2>4, <3>2
      <4> QED
        BY <2>3, <4>1, <4>2
    <3> QED
      BY <3>1, <3>2
  <2> QED
    BY <2>5 DEF SlotsTyped
<1> QED
  BY <1>1, <1>2 DEF SlotsWritten

\* Together with what TypeOK says of the pages, the replies and the turn.
TypesOK == TablesOK /\ PhasesOK /\ PastsOK /\ HeardOK /\ SlotsTyped

\* All variables of the executor keep their types, no reply is longer than its
\* budget, and the window of the detokenizer stays inside the reply.
THEOREM TypesAreKept == Spec => []TypeOK
<1>1. Init => TypesOK
  <2>1. Init => SlotsTyped
    BY DEF Init, SlotsTyped
  <2> QED
    BY <2>1, InitTables, InitPhases, InitPasts, InitHeardOK DEF TypesOK
<1>2. TypesOK /\ [Next]_vars => TypesOK'
  <2> SUFFICES ASSUME TypesOK, [Next]_vars PROVE TypesOK'
    OBVIOUS
  <2>1. TablesOK /\ PhasesOK /\ PastsOK /\ HeardOK /\ SlotsTyped /\ CountsOK
    BY DEF TypesOK, TablesOK
  <2>2. TablesOK' /\ PhasesOK' /\ PastsOK' /\ HeardOK'
    BY <2>1, StepTables, StepPhases, StepPasts, StepHeard
  <2>3. SlotsTyped'
    BY <2>1, StepWrites, WrittenTyped
  <2> QED
    BY <2>2, <2>3 DEF TypesOK
<1>3. TypesOK => TypeOK
  <2> SUFFICES ASSUME TypesOK PROVE TypeOK
    OBVIOUS
  <2>1. KVInv /\ CountsOK /\ HeardOK /\ SlotsTyped
    BY DEF TypesOK, TablesOK
  <2>2. Pool!TypeOK /\ block_table \in [Owner -> Seq(Pool!Page)]
    <3>1. freeing \in Seq(Page) /\ Page \subseteq Int
      BY <2>1 DEF KVInv, Tables, Page, Pool!Page
    <3>2. freeing \in Seq(Int)
      BY <3>1, SeqMonotonic
    <3> QED
      BY <2>1, <3>2 DEF KVInv, Tables, PoolInv, Page, Pool!TypeOK
  <2>3. ASSUME NEW r \in Owner
        PROVE  /\ state[r].prefilled \in 0 .. PromptLen[r]
               /\ state[r].pending \in Token \cup {NoToken}
               /\ state[r].generated \in Seq(Token) /\ Len(state[r].generated) <= MaxNewTokens[r]
    BY <2>1, Constants DEF CountsOK, StateOK
  <2>4. ASSUME NEW r \in Owner
        PROVE  /\ 0 <= state[r].out.prefix /\ state[r].out.prefix <= state[r].out.read
               /\ state[r].out.read <= Len(state[r].generated)
    <3>1. Len(Pieces(r, state[r].generated)) = Len(state[r].generated)
      BY <2>3, PieceFacts
    <3>2. OutFits(Pieces(r, state[r].generated), state[r].out)
      BY <2>1 DEF HeardOK, OutOK
    <3>3. /\ state[r].out.prefix \in Nat /\ state[r].out.prefix <= state[r].out.read
          /\ state[r].out.read <= Len(state[r].generated)
      BY <3>1, <3>2, Zenon DEF OutFits
    <3> QED
      BY <3>3
  <2>5. turn # NoTurn => turn.req \in Owner /\ turn.step \in {"reserved", "validated", "rejected"}
    BY <2>1 DEF CountsOK, TurnOK, Judged
  <2> QED
    BY <2>1, <2>2, <2>3, <2>4, <2>5 DEF TypeOK, SlotsTyped
<1> QED
  BY <1>1, <1>2, <1>3, PTL DEF Spec
=============================================================================
