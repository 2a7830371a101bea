------------------------- MODULE RuntimeStreamProofs -------------------------
(***************************************************************************)
(* What a client reads, what a session remembers and what the counters say *)
(* of the requests, for any number of requests and loops; and what one user*)
(* who waits for each stream to end can rely on besides (SoloSpec).        *)
(***************************************************************************)
EXTENDS RuntimeProofs, FiniteSetTheorems

-----------------------------------------------------------------------------
(* The active sequence of a session *)

\* A step that is not an arrival keeps who is latest, and says of nobody new
\* that it was cancelled or that its loop is done.
LEMMA LatestKept ==
  ASSUME ActiveIsLatest,
         \A r \in Req : status'[r] = "none" <=> status[r] = "none",
         \A r \in Req : status'[r] = "cancelled" <=> status[r] = "cancelled",
         \A r \in Req : loop'[r] = "done" <=> loop[r] = "done",
         UNCHANGED <<created_ts, active_sequence_id>>
  PROVE  ActiveIsLatest'
BY DEF ActiveIsLatest, LatestIn, Added

\* add_request makes the newcomer the active sequence of its session, and it
\* is the latest there.
LEMMA AddRequestLatest ==
  ASSUME TypeInv, ActiveIsLatest, NEW r \in Req, AddRequest(r)
  PROVE  ActiveIsLatest'
<1>1. Arrives(r)
  BY AddRequestArrives DEF TypeInv
<1>2. /\ status[r] = "none" /\ clock \in Nat
      /\ status' = [status EXCEPT ![r] = "waiting"]
      /\ created_ts' = [created_ts EXCEPT ![r] = clock]
  BY <1>1 DEF Arrives, AddSequence, TypeInv, TypeOK, SchedulerTypeOK
<1>3. /\ active_sequence_id' = [active_sequence_id EXCEPT ![SessionOf[r]] = r]
      /\ loop' = [loop EXCEPT ![r] = "ready"]
  BY DEF AddRequest
<1>4. /\ status \in [Req -> Status] /\ created_ts \in [Req -> Nat] /\ loop \in [Req -> LoopState]
      /\ active_sequence_id \in [Session -> Req \cup {NoReq}]
      /\ \A t \in Req : Added(t) => created_ts[t] < clock
  BY DEF TypeInv, TypeOK, SchedulerTypeOK, ReplyTypeOK, Arrivals
<1>5. ASSUME NEW s \in Session, NEW t \in Req, LatestIn(s, t)'
      PROVE  active_sequence_id'[s] = IF status'[t] = "cancelled" \/ loop'[t] = "done"
                                        THEN NoReq ELSE t
  <2>1. CASE t = r
    BY <1>2, <1>3, <1>4, <1>5, <2>1 DEF LatestIn
  <2>2. CASE t # r /\ s = SessionOf[r]
    <3>1. Added(t) /\ created_ts'[t] = created_ts[t] /\ created_ts'[r] = clock
      BY <1>2, <1>4, <1>5, <2>2 DEF LatestIn, Added
    <3>2. created_ts'[r] <= created_ts'[t]
      BY <1>5, <2>2 DEF LatestIn
    <3> QED
      BY <1>2, <1>4, <3>1, <3>2
  <2>3. CASE t # r /\ s # SessionOf[r]
    <3>1. LatestIn(s, t)
      BY <1>2, <1>4, <1>5, <2>3 DEF LatestIn, Added
    <3> QED
      BY <1>2, <1>3, <1>4, <2>3, <3>1 DEF ActiveIsLatest
  <2> QED
    BY <2>1, <2>2, <2>3
<1> QED
  BY <1>5 DEF ActiveIsLatest

\* _finish_sequence forgets the request only where it is the active one.
LEMMA ConcludeLatest ==
  ASSUME TypeInv, ActiveIsLatest, NEW r \in Req, Cancel(r) \/ Finish(r)
  PROVE  ActiveIsLatest'
<1>1. /\ active_sequence_id' = [active_sequence_id EXCEPT
                                  ![SessionOf[r]] = IF @ = r THEN NoReq ELSE @]
      /\ created_ts' = created_ts
  BY DEF Cancel, Finish, FinishSequence, ForgetActive, CancelSequence, schedulerVars
<1>2. /\ active_sequence_id \in [Session -> Req \cup {NoReq}]
      /\ status \in [Req -> Status] /\ loop \in [Req -> LoopState]
  BY DEF TypeInv, TypeOK, SchedulerTypeOK, ReplyTypeOK
<1>3. /\ \A t \in Req \ {r} : status'[t] = status[t] /\ loop'[t] = loop[t]
      /\ status[r] # "none" /\ status'[r] # "none"
      /\ status'[r] = "cancelled" \/ loop'[r] = "done"
  <2>1. CASE Cancel(r)
    BY <1>2, <2>1 DEF Cancel, CancelSequence, Live
  <2>2. CASE Finish(r)
    BY <1>2, <2>2 DEF Finish, Terminal, schedulerVars
  <2> QED
    BY <2>1, <2>2
<1>4. ASSUME NEW s \in Session, NEW t \in Req, LatestIn(s, t)'
      PROVE  active_sequence_id'[s] = IF status'[t] = "cancelled" \/ loop'[t] = "done"
                                        THEN NoReq ELSE t
  <2>1. LatestIn(s, t)
    BY <1>1, <1>3, <1>4 DEF LatestIn, Added
  <2>2. active_sequence_id[s] = IF status[t] = "cancelled" \/ loop[t] = "done" THEN NoReq ELSE t
    BY <2>1 DEF ActiveIsLatest
  <2>3. CASE t = r
    BY <1>1, <1>2, <1>3, <2>1, <2>2, <2>3 DEF LatestIn
  <2>4. CASE t # r
    BY <1>1, <1>2, <1>3, <2>2, <2>4
  <2> QED
    BY <2>3, <2>4
<1> QED
  BY <1>4 DEF ActiveIsLatest

\* A turn ends no loop and cancels nothing.
LEMMA TurnLatest ==
  ASSUME TypeInv, ActiveIsLatest, NEW r \in Req, Turn(r)
  PROVE  ActiveIsLatest'
<1>1. /\ status \in [Req -> Status] /\ loop \in [Req -> LoopState] /\ loop[r] = "ready"
      /\ active_sequence_id' = active_sequence_id
  BY DEF Turn, TypeInv, TypeOK, SchedulerTypeOK, ReplyTypeOK, sessionVars
<1>2. PICK q \in Req : q \in Live /\ (Prefill(r, q) \/ Decode(r, q) \/ Fail(r, q))
  BY DEF Turn, Drives, IsNext
<1>3. /\ \E new \in {"running", "finished"} : status' = [status EXCEPT ![q] = new]
      /\ created_ts' = created_ts
  BY <1>2 DEF Prefill, PrefillChunk, Decode, DecodeTokens, Fail, MarkRunning
<1>4. loop' = loop \/ \E new \in {"yielding", "failed"} : loop' = [loop EXCEPT ![r] = new]
  BY <1>2 DEF Prefill, Decode, Deliver, Fail
<1>5. \A t \in Req : /\ status'[t] = "none" <=> status[t] = "none"
                     /\ status'[t] = "cancelled" <=> status[t] = "cancelled"
                     /\ loop'[t] = "done" <=> loop[t] = "done"
  BY <1>1, <1>2, <1>3, <1>4 DEF Live
<1> QED
  BY <1>1, <1>3, <1>5, LatestKept

LEMMA LatestStep ==
  ASSUME TypeInv, ActiveIsLatest, [Next]_vars
  PROVE  ActiveIsLatest'
<1>1. loop \in [Req -> LoopState]
  BY DEF TypeInv, TypeOK, ReplyTypeOK
<1>2. ASSUME NEW r \in Req, Yield(r) \/ Disconnect(r) PROVE ActiveIsLatest'
  <2>1. /\ loop[r] # "done" /\ \E new \in LoopState \ {"done"} : loop' = [loop EXCEPT ![r] = new]
        /\ UNCHANGED <<status, created_ts, active_sequence_id>>
    BY <1>2 DEF Yield, Disconnect, schedulerVars, sessionVars, LoopState
  <2>2. \A t \in Req : loop'[t] = "done" <=> loop[t] = "done"
    BY <1>1, <2>1
  <2> QED
    BY <2>1, <2>2, LatestKept
<1>3. ASSUME UNCHANGED vars PROVE ActiveIsLatest'
  BY <1>3, LatestKept DEF vars, schedulerVars, sessionVars, loopVars
<1> QED
  BY <1>2, <1>3, AddRequestLatest, ConcludeLatest, TurnLatest
     DEF Next, LoopStep, CancelById, CancelBySession

\* Session.active_sequence_id names the latest request of the session until
\* that request is cancelled or its loop has ended, however the requests of
\* the session overlap: an older one that ends later never clears it.
THEOREM LatestIsActive == Spec => []ActiveIsLatest
<1> DEFINE Inv == TypeInv /\ ActiveIsLatest
<1>1. Init => Inv
  <2> SUFFICES ASSUME Init PROVE ActiveIsLatest
    BY InitTypeInv
  <2> QED
    BY DEF Init, SchedulerInit, ActiveIsLatest, LatestIn, Added
<1>2. Inv /\ [Next]_vars => Inv'
  BY NextTypeInv, LatestStep
<1> HIDE DEF Inv
<1>3. Spec => []Inv
  BY <1>1, <1>2, PTL DEF Spec
<1>4. Inv => ActiveIsLatest
  BY DEF Inv
<1> QED
  BY <1>3, <1>4, PTL

-----------------------------------------------------------------------------
(* Texts in order *)

\* Taking the first of the pending texts leaves the whole stream as it is.
LEMMA TakeOne ==
  ASSUME NEW s \in Seq(Word), NEW t \in Seq(Word), t # <<>>
  PROVE  Append(s, Head(t)) \o Tail(t) = s \o t
<1> DEFINE front == Append(s, Head(t))
<1>1. /\ Head(t) \in Word /\ Head(t) = t[1] /\ Tail(t) \in Seq(Word)
      /\ Len(Tail(t)) = Len(t) - 1
      /\ \A i \in 1 .. Len(Tail(t)) : Tail(t)[i] = t[i + 1]
  BY HeadTailProperties
<1>2. /\ front \in Seq(Word) /\ Len(front) = Len(s) + 1 /\ front[Len(s) + 1] = t[1]
      /\ \A i \in 1 .. Len(s) : front[i] = s[i]
  BY <1>1, AppendProperties
<1>3. Len(s) \in Nat /\ Len(t) \in Nat
  BY LenProperties
<1> HIDE DEF front
<1>4. /\ front \o Tail(t) \in Seq(Word) /\ Len(front \o Tail(t)) = Len(s) + Len(t)
      /\ \A i \in 1 .. Len(s) + Len(t) :
           (front \o Tail(t))[i] = IF i <= Len(s) + 1 THEN front[i] ELSE Tail(t)[i - (Len(s) + 1)]
  <2>1. Len(front) + Len(Tail(t)) = Len(s) + Len(t)
    BY <1>1, <1>2, <1>3
  <2>2. \A a, b \in Seq(Word) :
          /\ a \o b \in Seq(Word)
          /\ Len(a \o b) = Len(a) + Len(b)
          /\ \A i \in 1 .. Len(a) + Len(b) :
               (a \o b)[i] = IF i <= Len(a) THEN a[i] ELSE b[i - Len(a)]
    BY ConcatProperties
  <2>3. /\ front \o Tail(t) \in Seq(Word)
        /\ Len(front \o Tail(t)) = Len(front) + Len(Tail(t))
        /\ \A i \in 1 .. Len(front) + Len(Tail(t)) :
             (front \o Tail(t))[i] = IF i <= Len(front) THEN front[i] ELSE Tail(t)[i - Len(front)]
    BY <1>1, <1>2, <2>2, Zenon
  <2>4. Len(front) = Len(s) + 1
    BY <1>2
  <2> QED
    BY <2>1, <2>3, <2>4, Zenon
<1>5. /\ s \o t \in Seq(Word) /\ Len(s \o t) = Len(s) + Len(t)
      /\ \A i \in 1 .. Len(s) + Len(t) :
           (s \o t)[i] = IF i <= Len(s) THEN s[i] ELSE t[i - Len(s)]
  BY ConcatProperties
<1>6. ASSUME NEW i \in 1 .. Len(s) + Len(t)
      PROVE  (front \o Tail(t))[i] = (s \o t)[i]
  <2>1. CASE i <= Len(s)
    BY <1>2, <1>3, <1>4, <1>5, <2>1
  <2>2. CASE i = Len(s) + 1
    BY <1>2, <1>3, <1>4, <1>5, <2>2
  <2>3. CASE i > Len(s) + 1
    <3>1. /\ i - (Len(s) + 1) \in 1 .. Len(Tail(t))
          /\ i - (Len(s) + 1) + 1 = i - Len(s)
      BY <1>1, <1>3, <2>3
    <3>2. Tail(t)[i - (Len(s) + 1)] = t[i - Len(s)]
      BY <1>1, <3>1
    <3> QED
      BY <1>3, <1>4, <1>5, <2>3, <3>2
  <2>4. i <= Len(s) \/ i = Len(s) + 1 \/ i > Len(s) + 1
    BY <1>3
  <2> QED
    BY <2>1, <2>2, <2>3, <2>4, Zenon
<1>7. front \o Tail(t) = s \o t
  <2>1. /\ Len(front \o Tail(t)) = Len(s \o t)
        /\ \A i \in 1 .. Len(front \o Tail(t)) : (front \o Tail(t))[i] = (s \o t)[i]
    BY <1>4, <1>5, <1>6
  <2> QED
    BY <1>4, <1>5, <2>1, SeqEqual, Zenon
<1> QED
  BY <1>7 DEF front

LEMMA JoinedElements ==
  ASSUME NEW s \in Seq(Word), NEW t \in Seq(Word)
  PROVE  Elements(s \o t) = Elements(s) \cup Elements(t)
<1>1. Len(s) \in Nat /\ Len(t) \in Nat
  BY LenProperties
<1>2. /\ Len(s \o t) = Len(s) + Len(t)
      /\ \A i \in 1 .. Len(s) + Len(t) :
           (s \o t)[i] = IF i <= Len(s) THEN s[i] ELSE t[i - Len(s)]
  BY ConcatProperties
<1>3. ASSUME NEW x PROVE x \in Elements(s \o t) <=> x \in Elements(s) \cup Elements(t)
  <2>1. ASSUME NEW i \in 1 .. Len(s \o t), x = (s \o t)[i]
        PROVE  x \in Elements(s) \cup Elements(t)
    <3>1. CASE i <= Len(s)
      BY <1>1, <1>2, <2>1, <3>1 DEF Elements
    <3>2. CASE i > Len(s)
      <4>1. i - Len(s) \in 1 .. Len(t) /\ x = t[i - Len(s)]
        BY <1>1, <1>2, <2>1, <3>2
      <4> QED
        BY <4>1 DEF Elements
    <3> QED
      BY <1>1, <1>2, <3>1, <3>2
  <2>2. ASSUME NEW i \in 1 .. Len(s), x = s[i] PROVE x \in Elements(s \o t)
    <3>1. i \in 1 .. Len(s \o t) /\ (s \o t)[i] = x
      BY <1>1, <1>2, <2>2
    <3> QED
      BY <3>1 DEF Elements
  <2>3. ASSUME NEW i \in 1 .. Len(t), x = t[i] PROVE x \in Elements(s \o t)
    <3>1. Len(s) + i \in 1 .. Len(s \o t) /\ (s \o t)[Len(s) + i] = x
      BY <1>1, <1>2, <2>3
    <3> QED
      BY <3>1 DEF Elements
  <2> QED
    BY <2>1, <2>2, <2>3 DEF Elements
<1> QED
  BY <1>3

\* Later texts after earlier ones are texts in order.
LEMMA OrderExtends ==
  ASSUME NEW s \in Seq(Word), NEW t \in Seq(Word), InOrder(s), InOrder(t),
         \A i \in 1 .. Len(s), j \in 1 .. Len(t) : s[i][2] < t[j][2]
  PROVE  InOrder(s \o t)
<1>1. Len(s) \in Nat /\ Len(t) \in Nat
  BY LenProperties
<1>2. /\ Len(s \o t) = Len(s) + Len(t)
      /\ \A i \in 1 .. Len(s) + Len(t) :
           (s \o t)[i] = IF i <= Len(s) THEN s[i] ELSE t[i - Len(s)]
  BY ConcatProperties
<1>3. ASSUME NEW i \in 1 .. Len(s \o t), NEW j \in 1 .. Len(s \o t), i < j
      PROVE  (s \o t)[i][2] < (s \o t)[j][2]
  <2>1. CASE j <= Len(s)
    <3>1. /\ i \in 1 .. Len(s) /\ j \in 1 .. Len(s)
          /\ (s \o t)[i] = s[i] /\ (s \o t)[j] = s[j]
      BY <1>1, <1>2, <1>3, <2>1
    <3> QED
      BY <1>3, <3>1 DEF InOrder
  <2>2. CASE i <= Len(s) /\ j > Len(s)
    <3>1. /\ i \in 1 .. Len(s) /\ j - Len(s) \in 1 .. Len(t)
          /\ (s \o t)[i] = s[i] /\ (s \o t)[j] = t[j - Len(s)]
      BY <1>1, <1>2, <2>2
    <3> QED
      BY <3>1
  <2>3. CASE i > Len(s)
    <3>1. /\ i - Len(s) \in 1 .. Len(t) /\ j - Len(s) \in 1 .. Len(t)
          /\ i - Len(s) < j - Len(s)
          /\ (s \o t)[i] = t[i - Len(s)] /\ (s \o t)[j] = t[j - Len(s)]
      BY <1>1, <1>2, <1>3, <2>3
    <3> QED
      BY <3>1 DEF InOrder
  <2> QED
    BY <1>1, <1>2, <2>1, <2>2, <2>3
<1> QED
  BY <1>3 DEF InOrder

-----------------------------------------------------------------------------
(* The stream of a request *)

Stream(r) == streamed[r] \o pending[r]

\* StreamInOrder is inductive once it is known that texts are numbered by the
\* samples made so far, that only a loop between two texts of a batch, or one
\* that was dropped there, has texts pending, and that a request without a
\* sequence has no loop.
StreamsOK ==
  /\ \A r \in Req : ~ Added(r) => loop[r] = "idle"
  /\ \A r \in Req : loop[r] \notin {"yielding", "gone"} => pending[r] = <<>>
  /\ \A r \in Req : \A i \in 1 .. Len(response_text[r]) : response_text[r][i][2] <= generated[r]
  /\ \A r \in Req : /\ InOrder(Stream(r))
                    /\ Elements(Stream(r)) \subseteq Elements(response_text[r])

\* A step that changes no text keeps all this if it puts no loop into a state
\* in which it could not be.
LEMMA StreamsKept ==
  ASSUME StreamsOK, UNCHANGED <<response_text, generated>>,
         \A r \in Req : Stream(r)' = Stream(r),
         \A r \in Req : ~ Added(r)' => loop'[r] = "idle",
         \A r \in Req : loop'[r] \notin {"yielding", "gone"} => pending'[r] = <<>>
  PROVE  StreamsOK'
BY DEF StreamsOK

LEMMA YieldStreams ==
  ASSUME TypeInv, StreamsOK, NEW r \in Req, Yield(r)
  PROVE  StreamsOK'
<1>1. /\ streamed \in [Req -> Seq(Word)] /\ pending \in [Req -> Seq(Word)]
      /\ loop \in [Req -> LoopState] /\ loop[r] = "yielding" /\ pending[r] # <<>>
  BY DEF Yield, TypeInv, TypeOK, ReplyTypeOK, YieldsSomething
<1>2. /\ streamed' = [streamed EXCEPT ![r] = Append(streamed[r], Head(pending[r]))]
      /\ pending' = [pending EXCEPT ![r] = Tail(pending[r])]
      /\ loop' = [loop EXCEPT ![r] = IF Tail(pending[r]) = <<>> THEN "ready" ELSE "yielding"]
      /\ UNCHANGED <<response_text, generated, status>>
  BY DEF Yield, replyVars, schedulerVars
<1>3. ASSUME NEW t \in Req PROVE Stream(t)' = Stream(t)
  <2>1. CASE t = r
    <3>1. streamed'[r] = Append(streamed[r], Head(pending[r])) /\ pending'[r] = Tail(pending[r])
      BY <1>1, <1>2
    <3>2. Append(streamed[r], Head(pending[r])) \o Tail(pending[r]) = streamed[r] \o pending[r]
      BY <1>1, TakeOne
    <3> QED
      BY <2>1, <3>1, <3>2 DEF Stream
  <2>2. CASE t # r
    BY <1>1, <1>2, <2>2 DEF Stream
  <2> QED
    BY <2>1, <2>2
<1>4. ASSUME NEW t \in Req
      PROVE  /\ ~ Added(t)' => loop'[t] = "idle"
             /\ loop'[t] \notin {"yielding", "gone"} => pending'[t] = <<>>
  BY <1>1, <1>2 DEF StreamsOK, Added
<1> QED
  BY <1>2, <1>3, <1>4, StreamsKept

LEMMA QuietStreams ==
  ASSUME TypeInv, StreamsOK, NEW r \in Req,
         AddRequest(r) \/ Cancel(r) \/ Finish(r) \/ Disconnect(r)
  PROVE  StreamsOK'
<1>1. UNCHANGED <<response_text, generated, streamed, pending>>
  <2>1. CASE AddRequest(r)
    BY <2>1 DEF AddRequest, StartFrom, AddSequence, replyVars
  <2>2. CASE Cancel(r) \/ Finish(r)
    BY <2>2 DEF Cancel, Finish, FinishSequence, CancelSequence, schedulerVars
  <2>3. CASE Disconnect(r)
    BY <2>3 DEF Disconnect, schedulerVars, replyVars
  <2> QED
    BY <2>1, <2>2, <2>3
<1>2. loop \in [Req -> LoopState] /\ status \in [Req -> Status]
  BY DEF TypeInv, TypeOK, ReplyTypeOK, SchedulerTypeOK
<1>3. /\ \A t \in Req : ~ Added(t)' => ~ Added(t) /\ t # r
      /\ \A t \in Req \ {r} : loop'[t] = loop[t]
      /\ \/ loop'[r] = loop[r]
         \/ loop[r] \notin {"yielding", "gone"}
         \/ loop'[r] = "gone"
  <2>1. CASE AddRequest(r)
    <3>1. status' = [status EXCEPT ![r] = "waiting"] /\ loop' = [loop EXCEPT ![r] = "ready"]
      BY <2>1 DEF AddRequest, StartFrom, AddSequence
    <3>2. loop[r] = "idle"
      BY <2>1 DEF AddRequest, StreamsOK, Added
    <3> QED
      BY <1>2, <3>1, <3>2 DEF Added
  <2>2. CASE Cancel(r)
    BY <1>2, <2>2 DEF Cancel, CancelSequence, Live, Added
  <2>3. CASE Finish(r)
    BY <1>2, <2>3 DEF Finish, Terminal, schedulerVars, Added
  <2>4. CASE Disconnect(r)
    <3>1. Added(r)
      BY <2>4 DEF Disconnect, StreamsOK
    <3> QED
      BY <1>2, <2>4, <3>1 DEF Disconnect, schedulerVars, Added
  <2> QED
    BY <2>1, <2>2, <2>3, <2>4
<1>4. ASSUME NEW t \in Req
      PROVE  /\ Stream(t)' = Stream(t)
             /\ ~ Added(t)' => loop'[t] = "idle"
             /\ loop'[t] \notin {"yielding", "gone"} => pending'[t] = <<>>
  BY <1>1, <1>3 DEF StreamsOK, Stream
<1> QED
  BY <1>1, <1>4, StreamsKept

\* The texts of a decode batch of n samples are numbered from the samples made
\* before it, in order.
LEMMA BatchTexts ==
  ASSUME NEW q \in Req, NEW made \in Nat, NEW n \in Nat, NEW v \in Voiced(n)
  PROVE  LET texts == [i \in DOMAIN v |-> <<q, made + v[i]>>]
         IN  /\ texts \in Seq(Word)
             /\ InOrder(texts)
             /\ \A i \in 1 .. Len(texts) : made < texts[i][2] /\ texts[i][2] <= made + n
<1> DEFINE texts == [i \in DOMAIN v |-> <<q, made + v[i]>>]
<1>1. PICK k \in Nat : /\ v \in [1 .. k -> 1 .. n]
                       /\ \A i, j \in DOMAIN v : i < j => v[i] < v[j]
  BY DEF Voiced
<1>2. /\ DOMAIN v = 1 .. k
      /\ \A i \in 1 .. k : v[i] \in Nat /\ 1 <= v[i] /\ v[i] <= n
  BY <1>1
<1>3. \A i \in 1 .. k : <<q, made + v[i]>> \in Word /\ <<q, made + v[i]>>[2] = made + v[i]
  BY <1>2 DEF Word
<1>4. texts \in Seq(Word) /\ Len(texts) = k
  BY <1>2, <1>3
<1>5. \A i \in 1 .. k : texts[i][2] = made + v[i]
  BY <1>2, <1>3
<1> HIDE DEF texts
<1>6. InOrder(texts)
  BY <1>1, <1>2, <1>4, <1>5 DEF InOrder
<1>7. \A i \in 1 .. Len(texts) : made < texts[i][2] /\ texts[i][2] <= made + n
  BY <1>2, <1>4, <1>5
<1> QED
  BY <1>4, <1>6, <1>7 DEF texts

LEMMA DecodeStreams ==
  ASSUME TypeInv, StreamsOK, NEW r \in Req, NEW q \in Req, loop[r] = "ready", q \in Live,
         Decode(r, q), UNCHANGED streamed
  PROVE  StreamsOK'
<1>1. /\ generated \in [Req -> Nat] /\ response_text \in [Req -> Seq(Word)]
      /\ streamed \in [Req -> Seq(Word)] /\ pending \in [Req -> Seq(Word)]
      /\ loop \in [Req -> LoopState] /\ status \in [Req -> Status]
  BY DEF TypeInv, TypeOK, SchedulerTypeOK, ReplyTypeOK
<1>2. PICK n \in 1 .. MaxBurst : \E stopped \in BOOLEAN : \E v \in Voiced(n) : Keeps(r, q, n, stopped, v)
  BY DecodeKeeps DEF TypeInv, TypeOK
<1> PICK stopped \in BOOLEAN : \E v \in Voiced(n) : Keeps(r, q, n, stopped, v)
  BY <1>2
<1> PICK v \in Voiced(n) : Keeps(r, q, n, stopped, v)
  OBVIOUS
<1> DEFINE texts == [i \in DOMAIN v |-> <<q, generated[q] + v[i]>>]
<1>3. /\ DecodeTokens(q, n, stopped)
      /\ response_text' = [response_text EXCEPT ![q] = response_text[q] \o texts]
      /\ Deliver(r, q, texts)
  BY DEF Keeps
<1>4. n \in Nat /\ generated[q] \in Nat
  BY <1>1, RuntimeAssumption
<1>5. /\ texts \in Seq(Word) /\ InOrder(texts)
      /\ \A i \in 1 .. Len(texts) : generated[q] < texts[i][2] /\ texts[i][2] <= generated[q] + n
  BY <1>4, BatchTexts
<1> HIDE DEF texts
<1>6. /\ generated' = [generated EXCEPT ![q] = generated[q] + n]
      /\ \A t \in Req : Added(t)' <=> Added(t)
  BY <1>1, <1>3 DEF DecodeTokens, Live, Added
<1>7. ASSUME NEW t \in Req, NEW i \in 1 .. Len(response_text'[t])
      PROVE  response_text'[t][i][2] <= generated'[t]
  <2>1. CASE t # q
    BY <1>1, <1>3, <1>6, <1>7, <2>1 DEF StreamsOK
  <2>2. CASE t = q
    <3>1. /\ response_text'[q] = response_text[q] \o texts /\ generated'[q] = generated[q] + n
          /\ response_text[q] \in Seq(Word)
      BY <1>1, <1>3, <1>6
    <3>2. Elements(response_text'[q]) = Elements(response_text[q]) \cup Elements(texts)
      BY <1>5, <3>1, JoinedElements
    <3>3. response_text'[q][i] \in Elements(response_text'[q])
      BY <1>7, <2>2 DEF Elements
    <3>4. CASE response_text'[q][i] \in Elements(texts)
      BY <1>5, <2>2, <3>1, <3>4 DEF Elements
    <3>5. CASE response_text'[q][i] \in Elements(response_text[q])
      <4>1. PICK j \in 1 .. Len(response_text[q]) : response_text'[q][i] = response_text[q][j]
        BY <3>5 DEF Elements
      <4>2. response_text[q][j][2] \in Int
        BY <3>1, ElementOfSeq DEF Word
      <4>3. response_text[q][j][2] <= generated[q]
        BY DEF StreamsOK
      <4>4. response_text'[t][i][2] = response_text[q][j][2] /\ generated'[t] = generated[q] + n
        BY <2>2, <3>1, <4>1
      <4>5. \A x \in Int, g, k \in Nat : x <= g => x <= g + k
        OBVIOUS
      <4>6. response_text[q][j][2] <= generated[q] + n
        BY <1>4, <4>2, <4>3, <4>5, Zenon
      <4> QED
        BY <4>4, <4>6, Zenon
    <3> QED
      BY <3>2, <3>3, <3>4, <3>5
  <2> QED
    BY <2>1, <2>2
<1>8. ASSUME NEW t \in Req
      PROVE  Elements(response_text[t]) \subseteq Elements(response_text'[t])
  <2>1. CASE t # q
    BY <1>1, <1>3, <2>1
  <2>2. CASE t = q
    <3>1. response_text'[q] = response_text[q] \o texts /\ response_text[q] \in Seq(Word)
      BY <1>1, <1>3
    <3> QED
      BY <1>5, <2>2, <3>1, JoinedElements
  <2> QED
    BY <2>1, <2>2
<1>9. CASE UNCHANGED <<loop, pending>>
  BY <1>6, <1>7, <1>8, <1>9 DEF StreamsOK, Stream
<1>10. CASE /\ q = r
            /\ loop' = [loop EXCEPT ![r] = "yielding"]
            /\ pending' = [pending EXCEPT ![r] = texts]
  <2>1. /\ pending[r] = <<>> /\ pending'[r] = texts /\ streamed'[r] = streamed[r]
        /\ streamed[r] \in Seq(Word)
    BY <1>1, <1>10 DEF StreamsOK
  <2>2. Stream(r) = streamed[r] /\ Stream(r)' = streamed[r] \o texts
    BY <2>1, ConcatEmptySeq DEF Stream
  <2>3. ASSUME NEW i \in 1 .. Len(streamed[r]), NEW j \in 1 .. Len(texts)
        PROVE  streamed[r][i][2] < texts[j][2]
    <3>1. streamed[r][i] \in Elements(response_text[r])
      BY <2>2 DEF StreamsOK, Elements
    <3>2. PICK k \in 1 .. Len(response_text[r]) : streamed[r][i] = response_text[r][k]
      BY <3>1 DEF Elements
    <3>3. streamed[r][i] \in Word /\ texts[j] \in Word
      BY <1>5, <2>1, ElementOfSeq
    <3>4. streamed[r][i][2] \in Int /\ texts[j][2] \in Int
      BY <3>3 DEF Word
    <3>5. streamed[r][i][2] <= generated[r] /\ generated[r] < texts[j][2]
      BY <1>5, <1>10, <3>2 DEF StreamsOK
    <3>6. \A x, y \in Int, g \in Nat : x <= g /\ g < y => x < y
      OBVIOUS
    <3>7. generated[r] \in Nat
      BY <1>1
    <3> QED
      BY <3>4, <3>5, <3>6, <3>7, Zenon
  <2>4. InOrder(streamed[r])
    BY <2>2 DEF StreamsOK
  <2>5. InOrder(Stream(r)')
    BY <1>5, <2>1, <2>2, <2>3, <2>4, OrderExtends
  <2>6. Elements(Stream(r)') \subseteq Elements(response_text'[r])
    <3>1. Elements(streamed[r]) \subseteq Elements(response_text[r])
      BY <2>2 DEF StreamsOK
    <3>2. Elements(Stream(r)') = Elements(streamed[r]) \cup Elements(texts)
      BY <1>5, <2>1, <2>2, JoinedElements
    <3>3. Elements(response_text'[r]) = Elements(response_text[r]) \cup Elements(texts)
      <4>1. response_text'[r] = response_text[r] \o texts /\ response_text[r] \in Seq(Word)
        BY <1>1, <1>3, <1>10
      <4> QED
        BY <1>5, <4>1, JoinedElements
    <3> QED
      BY <3>1, <3>2, <3>3
  <2>7. ASSUME NEW t \in Req \ {r}
        PROVE  /\ Stream(t)' = Stream(t) /\ loop'[t] = loop[t] /\ pending'[t] = pending[t]
    BY <1>1, <1>10 DEF Stream
  <2>8. ASSUME NEW t \in Req
        PROVE  InOrder(Stream(t)') /\ Elements(Stream(t)') \subseteq Elements(response_text'[t])
    BY <1>8, <2>5, <2>6, <2>7 DEF StreamsOK
  <2>9. Added(r) /\ loop'[r] = "yielding"
    BY <1>1, <1>10 DEF Live, Added
  <2>10. ASSUME NEW t \in Req
         PROVE  /\ ~ Added(t)' => loop'[t] = "idle"
                /\ loop'[t] \notin {"yielding", "gone"} => pending'[t] = <<>>
    BY <1>6, <2>7, <2>9 DEF StreamsOK
  <2> QED
    BY <1>7, <2>8, <2>10 DEF StreamsOK, InOrder, Elements
<1> QED
  BY <1>3, <1>9, <1>10 DEF Deliver

LEMMA TurnStreams ==
  ASSUME TypeInv, StreamsOK, NEW r \in Req, Turn(r)
  PROVE  StreamsOK'
<1>1. /\ loop[r] = "ready" /\ streamed' = streamed
      /\ loop \in [Req -> LoopState] /\ status \in [Req -> Status] /\ r \in Live
  BY DEF Turn, TypeInv, TypeOK, SchedulerTypeOK, ReplyTypeOK
<1>2. PICK q \in Req : q \in Live /\ (Prefill(r, q) \/ Decode(r, q) \/ Fail(r, q))
  BY DEF Turn, Drives, IsNext
<1>3. CASE Decode(r, q)
  BY <1>1, <1>2, <1>3, DecodeStreams
<1>4. CASE Prefill(r, q) \/ Fail(r, q)
  <2>1. /\ UNCHANGED <<response_text, generated, streamed, pending>>
        /\ \A t \in Req : Added(t)' <=> Added(t)
        /\ \A t \in Req \ {r} : loop'[t] = loop[t]
    BY <1>1, <1>2, <1>4 DEF Prefill, PrefillChunk, Fail, MarkRunning, Added, Live
  <2>2. Added(r) /\ pending[r] = <<>>
    BY <1>1 DEF Live, Added, StreamsOK
  <2>3. ASSUME NEW t \in Req
        PROVE  /\ Stream(t)' = Stream(t)
               /\ ~ Added(t)' => loop'[t] = "idle"
               /\ loop'[t] \notin {"yielding", "gone"} => pending'[t] = <<>>
    BY <2>1, <2>2 DEF StreamsOK, Stream
  <2> QED
    BY <2>1, <2>3, StreamsKept
<1> QED
  BY <1>2, <1>3, <1>4

LEMMA StreamsStep ==
  ASSUME TypeInv, StreamsOK, [Next]_vars
  PROVE  StreamsOK'
<1>1. ASSUME UNCHANGED vars PROVE StreamsOK'
  BY <1>1 DEF vars, schedulerVars, replyVars, loopVars, StreamsOK, Stream, Added
<1> QED
  BY <1>1, QuietStreams, TurnStreams, YieldStreams
     DEF Next, LoopStep, CancelById, CancelBySession

LEMMA InitStreams == Init => StreamsOK
<1> SUFFICES ASSUME Init PROVE StreamsOK
  OBVIOUS
<1>1. ASSUME NEW r \in Req
      PROVE  /\ streamed[r] = <<>> /\ pending[r] = <<>> /\ response_text[r] = <<>>
             /\ loop[r] = "idle"
  BY DEF Init
<1>2. <<>> \in Seq(Word) /\ Len(<<>>) = 0 /\ <<>> \o <<>> = <<>>
  BY EmptySeq, ConcatEmptySeq
<1>3. \A r \in Req : Stream(r) = <<>>
  BY <1>1, <1>2 DEF Stream
<1> QED
  BY <1>1, <1>2, <1>3 DEF StreamsOK, InOrder, Elements

\* A client reads texts of its own reply, each at most once and in order,
\* whichever loops execute the batches, whatever is cancelled or fails
\* meanwhile and however long the clients stall.
THEOREM TextsInOrder == Spec => []StreamInOrder
<1> DEFINE Inv == TypeInv /\ StreamsOK
<1>1. Init => Inv
  BY InitTypeInv, InitStreams
<1>2. Inv /\ [Next]_vars => Inv'
  BY NextTypeInv, StreamsStep
<1>3. Inv => StreamInOrder
  BY DEF StreamsOK, StreamInOrder, Stream
<1> HIDE DEF Inv
<1>4. Spec => []Inv
  BY <1>1, <1>2, PTL DEF Spec
<1> QED
  BY <1>3, <1>4, PTL

-----------------------------------------------------------------------------
(* The counters *)

AddedReq == {r \in Req : Added(r)}

DoneReq == {r \in Req : status[r] = "finished" /\ loop[r] = "done"}

\* MetricsAgree is inductive once it is known that a loop that is done saw its
\* sequence terminal, and that only finitely many requests have been sent,
\* although there is no bound on how many there may be.
Counts ==
  /\ \A r \in Req : loop[r] = "done" => Terminal(r)
  /\ IsFiniteSet(AddedReq)
  /\ IsFiniteSet(TokensOut)
  /\ MetricsAgree

LEMMA CountsKept ==
  ASSUME Counts, AddedReq' = AddedReq, DoneReq' = DoneReq,
         UNCHANGED <<generated, metrics>>,
         \A r \in Req : loop'[r] = "done" => Terminal(r)'
  PROVE  Counts'
<1>1. {r \in Req : Added(r)}' = {r \in Req : Added(r)}
  BY DEF AddedReq
<1>2. {r \in Req : status[r] = "finished" /\ loop[r] = "done"}' =
      {r \in Req : status[r] = "finished" /\ loop[r] = "done"}
  BY DEF DoneReq
<1>3. TokensOut' = TokensOut
  BY DEF TokensOut
<1>4. MetricsAgree'
  BY <1>1, <1>2, <1>3, Zenon DEF Counts, MetricsAgree
<1> QED
  BY <1>3, <1>4, Zenon DEF Counts

LEMMA DoneIsFinite == Counts => IsFiniteSet(DoneReq)
<1>1. DoneReq \subseteq AddedReq
  BY DEF DoneReq, AddedReq, Added
<1> QED
  BY <1>1, FS_Subset DEF Counts

LEMMA AddRequestCounts ==
  ASSUME TypeInv, Counts, NEW r \in Req, AddRequest(r)
  PROVE  Counts'
<1>1. /\ status \in [Req -> Status] /\ loop \in [Req -> LoopState] /\ metrics \in Metrics
  BY DEF TypeInv, TypeOK, SchedulerTypeOK, ReplyTypeOK
<1>2. /\ status[r] = "none" /\ status' = [status EXCEPT ![r] = "waiting"]
      /\ loop' = [loop EXCEPT ![r] = "ready"] /\ generated' = generated
      /\ metrics' = [metrics EXCEPT !.requests_started = metrics.requests_started + 1]
  BY DEF AddRequest, StartFrom, AddSequence
<1>3. AddedReq' = AddedReq \cup {r} /\ r \notin AddedReq
  BY <1>1, <1>2 DEF AddedReq, Added
<1>4. DoneReq' = DoneReq
  BY <1>1, <1>2 DEF DoneReq
<1>5. IsFiniteSet(AddedReq') /\ Cardinality(AddedReq') = Cardinality(AddedReq) + 1
  BY <1>3, FS_AddElement DEF Counts
<1>6. /\ metrics'.requests_started = metrics.requests_started + 1
      /\ metrics'.requests_finished = metrics.requests_finished
      /\ metrics'.tokens_generated = metrics.tokens_generated
  BY <1>1, <1>2 DEF Metrics
<1>7. TokensOut' = TokensOut
  BY <1>2 DEF TokensOut
<1>8. \A t \in Req : loop'[t] = "done" => Terminal(t)'
  BY <1>1, <1>2 DEF Counts, Terminal
<1> QED
  BY <1>4, <1>5, <1>6, <1>7, <1>8 DEF Counts, MetricsAgree, AddedReq, DoneReq

LEMMA CancelCounts ==
  ASSUME TypeInv, Counts, NEW r \in Req, Cancel(r)
  PROVE  Counts'
<1>1. /\ status \in [Req -> Status] /\ loop \in [Req -> LoopState]
  BY DEF TypeInv, TypeOK, SchedulerTypeOK, ReplyTypeOK
<1>2. /\ status[r] \in {"waiting", "running"} /\ status' = [status EXCEPT ![r] = "cancelled"]
      /\ UNCHANGED <<loop, generated>>
  BY DEF Cancel, CancelSequence, Live
<1>3. metrics' = metrics
  BY <1>1, <1>2 DEF Cancel, FinishSequence, Completed
<1>4. AddedReq' = AddedReq /\ DoneReq' = DoneReq
  BY <1>1, <1>2 DEF AddedReq, DoneReq, Added
<1>5. \A t \in Req : loop'[t] = "done" => Terminal(t)'
  BY <1>1, <1>2 DEF Counts, Terminal
<1> QED
  BY <1>2, <1>3, <1>4, <1>5, CountsKept

LEMMA FinishCounts ==
  ASSUME TypeInv, Counts, NEW r \in Req, Finish(r)
  PROVE  Counts'
<1>1. /\ loop \in [Req -> LoopState] /\ metrics \in Metrics
  BY DEF TypeInv, TypeOK, SchedulerTypeOK, ReplyTypeOK
<1>2. /\ Terminal(r) /\ loop[r] = "ready" /\ UNCHANGED <<status, generated>>
      /\ loop' = [loop EXCEPT ![r] = "done"]
  BY DEF Finish, schedulerVars
<1>3. AddedReq' = AddedReq /\ TokensOut' = TokensOut
  BY <1>2 DEF AddedReq, Added, TokensOut
<1>4. \A t \in Req : loop'[t] = "done" => Terminal(t)'
  BY <1>1, <1>2 DEF Counts, Terminal
<1>5. CASE status[r] = "finished"
  <2>1. metrics' = [metrics EXCEPT !.requests_finished = metrics.requests_finished + 1]
    BY <1>2, <1>5 DEF Finish, FinishSequence, Completed
  <2>2. /\ metrics'.requests_started = metrics.requests_started
        /\ metrics'.requests_finished = metrics.requests_finished + 1
        /\ metrics'.tokens_generated = metrics.tokens_generated
    BY <1>1, <2>1 DEF Metrics
  <2>3. DoneReq' = DoneReq \cup {r} /\ r \notin DoneReq
    BY <1>1, <1>2, <1>5 DEF DoneReq
  <2>4. Cardinality(DoneReq') = Cardinality(DoneReq) + 1
    BY <2>3, DoneIsFinite, FS_AddElement
  <2> QED
    BY <1>3, <1>4, <2>2, <2>4 DEF Counts, MetricsAgree, AddedReq, DoneReq
<1>6. CASE status[r] # "finished"
  <2>1. metrics' = metrics
    BY <1>2, <1>6 DEF Finish, FinishSequence, Completed
  <2>2. DoneReq' = DoneReq
    BY <1>1, <1>2, <1>6 DEF DoneReq
  <2> QED
    BY <1>2, <1>3, <1>4, <2>1, <2>2, CountsKept
<1> QED
  BY <1>5, <1>6

LEMMA CountUp ==
  ASSUME NEW a \in Nat, NEW n \in Nat
  PROVE  IsFiniteSet(a + 1 .. a + n) /\ Cardinality(a + 1 .. a + n) = n
<1> DEFINE low == a + 1
           high == a + n
<1>1. low \in Int /\ high \in Int
  OBVIOUS
<1>2. (IF low > high THEN 0 ELSE high - low + 1) = n
  OBVIOUS
<1> HIDE DEF low, high
<1>3. /\ IsFiniteSet(low .. high)
      /\ Cardinality(low .. high) = IF low > high THEN 0 ELSE high - low + 1
  BY <1>1, FS_Interval
<1> QED
  BY <1>2, <1>3 DEF low, high

\* n more samples of one request are n more tokens.
LEMMA MoreTokens ==
  ASSUME NEW q \in Req, NEW n \in Nat, generated \in [Req -> Nat], IsFiniteSet(TokensOut),
         generated' = [generated EXCEPT ![q] = generated[q] + n]
  PROVE  /\ IsFiniteSet(TokensOut')
         /\ Cardinality(TokensOut') = Cardinality(TokensOut) + n
<1> DEFINE fresh == generated[q] + 1 .. generated[q] + n
           new == {q} \X fresh
<1>1. generated[q] \in Nat
  OBVIOUS
<1>2. IsFiniteSet(fresh) /\ Cardinality(fresh) = n
  BY <1>1, CountUp
<1>3. IsFiniteSet(new) /\ Cardinality(new) = n
  <2>1. IsFiniteSet({q}) /\ Cardinality({q}) = 1
    BY FS_Singleton
  <2> HIDE DEF fresh
  <2>2. IsFiniteSet(new) /\ Cardinality(new) = Cardinality({q}) * Cardinality(fresh)
    BY <1>2, <2>1, FS_Product
  <2> QED
    BY <1>2, <2>1, <2>2
<1>4. ASSUME NEW x
      PROVE  x \in TokensOut' <=> x \in TokensOut \cup new
  <2>1. x \in TokensOut' <=> \E t \in Req : \E i \in 1 .. generated'[t] : x = <<t, i>>
    BY DEF TokensOut
  <2>2. x \in TokensOut <=> \E t \in Req : \E i \in 1 .. generated[t] : x = <<t, i>>
    BY DEF TokensOut
  <2>3. x \in new <=> \E i \in fresh : x = <<q, i>>
    OBVIOUS
  <2>4. \A t \in Req : generated'[t] = IF t = q THEN generated[q] + n ELSE generated[t]
    OBVIOUS
  <2>5. 1 .. generated[q] + n = (1 .. generated[q]) \cup fresh
    BY <1>1
  <2> HIDE DEF fresh, new
  <2>6. ASSUME NEW t \in Req, NEW i \in 1 .. generated'[t], x = <<t, i>>
        PROVE  x \in TokensOut \cup new
    <3>1. CASE t = q
      BY <2>2, <2>3, <2>4, <2>5, <2>6, <3>1
    <3>2. CASE t # q
      BY <2>2, <2>4, <2>6, <3>2
    <3> QED
      BY <3>1, <3>2
  <2>7. ASSUME NEW t \in Req, NEW i \in 1 .. generated[t], x = <<t, i>>
        PROVE  x \in TokensOut'
    BY <2>1, <2>4, <2>5, <2>7
  <2>8. ASSUME NEW i \in fresh, x = <<q, i>>
        PROVE  x \in TokensOut'
    BY <2>1, <2>4, <2>5, <2>8
  <2> QED
    BY <2>1, <2>2, <2>3, <2>6, <2>7, <2>8
<1>5. TokensOut \cap new = {}
  <2> SUFFICES ASSUME NEW t \in Req, NEW i \in 1 .. generated[t], NEW j \in fresh,
                      <<t, i>> = <<q, j>>
               PROVE  FALSE
    BY DEF TokensOut
  <2> QED
    BY <1>1
<1> HIDE DEF new
<1>6. TokensOut' = TokensOut \cup new
  BY <1>4
<1>7. Cardinality({}) = 0 /\ Cardinality(TokensOut) \in Nat
  BY FS_EmptySet, FS_CardinalityType
<1>8. /\ IsFiniteSet(TokensOut \cup new)
      /\ Cardinality(TokensOut \cup new) =
           Cardinality(TokensOut) + Cardinality(new) - Cardinality(TokensOut \cap new)
  BY <1>3, FS_Union
<1>9. \A c, d \in Nat : c + d - 0 = c + d
  OBVIOUS
<1>10. Cardinality(TokensOut \cup new) = Cardinality(TokensOut) + n - 0
  BY <1>3, <1>5, <1>7, <1>8, Zenon
<1> QED
  BY <1>6, <1>7, <1>8, <1>9, <1>10, Zenon

LEMMA TurnCounts ==
  ASSUME TypeInv, Counts, NEW r \in Req, Turn(r)
  PROVE  Counts'
<1>1. /\ status \in [Req -> Status] /\ loop \in [Req -> LoopState] /\ metrics \in Metrics
      /\ generated \in [Req -> Nat] /\ loop[r] = "ready"
  BY DEF Turn, TypeInv, TypeOK, SchedulerTypeOK, ReplyTypeOK
<1>2. PICK q \in Req : q \in Live /\ (Prefill(r, q) \/ Decode(r, q) \/ Fail(r, q))
  BY DEF Turn, Drives, IsNext
<1>3. \E new \in {"running", "finished"} : status' = [status EXCEPT ![q] = new]
  BY <1>2 DEF Prefill, PrefillChunk, Decode, DecodeTokens, Fail, MarkRunning
<1>4. loop' = loop \/ \E new \in {"yielding", "failed"} : loop' = [loop EXCEPT ![r] = new]
  BY <1>2 DEF Prefill, Decode, Deliver, Fail
<1>5. /\ status[q] \in {"waiting", "running"} /\ loop[q] # "done"
      /\ \A t \in Req : loop'[t] = "done" <=> loop[t] = "done"
  BY <1>1, <1>2, <1>4 DEF Live, Terminal, Counts
<1>6. AddedReq' = AddedReq /\ DoneReq' = DoneReq
  <2>1. \A t \in Req : /\ status'[t] = "none" <=> status[t] = "none"
                       /\ t # q => status'[t] = status[t]
    BY <1>1, <1>3, <1>5
  <2>2. AddedReq' = AddedReq
    BY <2>1 DEF AddedReq, Added
  <2>3. DoneReq' = DoneReq
    BY <1>5, <2>1 DEF DoneReq
  <2> QED
    BY <2>2, <2>3
<1>7. \A t \in Req : loop'[t] = "done" => Terminal(t)'
  BY <1>1, <1>3, <1>5 DEF Counts, Terminal
<1>8. CASE Prefill(r, q) \/ Fail(r, q)
  <2>1. UNCHANGED <<generated, metrics>>
    BY <1>8 DEF Prefill, PrefillChunk, Fail, MarkRunning
  <2> QED
    BY <1>6, <1>7, <2>1, CountsKept
<1>9. CASE Decode(r, q)
  <2>0. PICK n \in 1 .. MaxBurst : \E stopped \in BOOLEAN : \E v \in Voiced(n) : Keeps(r, q, n, stopped, v)
    BY <1>2, <1>9, DecodeKeeps DEF TypeInv, TypeOK
  <2>1. /\ generated' = [generated EXCEPT ![q] = generated[q] + n]
        /\ metrics' = [metrics EXCEPT !.tokens_generated = metrics.tokens_generated + n]
    BY <2>0 DEF Keeps, DecodeTokens
  <2>2. n \in Nat
    BY RuntimeAssumption
  <2>3. /\ metrics'.requests_started = metrics.requests_started
        /\ metrics'.requests_finished = metrics.requests_finished
        /\ metrics'.tokens_generated = metrics.tokens_generated + n
    BY <1>1, <2>1 DEF Metrics
  <2>4. IsFiniteSet(TokensOut') /\ Cardinality(TokensOut') = Cardinality(TokensOut) + n
    BY <1>1, <2>1, <2>2, MoreTokens DEF Counts
  <2> QED
    BY <1>6, <1>7, <2>3, <2>4 DEF Counts, MetricsAgree, AddedReq, DoneReq
<1> QED
  BY <1>2, <1>8, <1>9

LEMMA CountsStep ==
  ASSUME TypeInv, Counts, [Next]_vars
  PROVE  Counts'
<1>1. loop \in [Req -> LoopState]
  BY DEF TypeInv, TypeOK, ReplyTypeOK
<1>2. ASSUME NEW r \in Req, Yield(r) \/ Disconnect(r) PROVE Counts'
  <2>1. /\ loop[r] # "done" /\ \E new \in LoopState \ {"done"} : loop' = [loop EXCEPT ![r] = new]
        /\ UNCHANGED <<status, generated, metrics>>
    BY <1>2 DEF Yield, Disconnect, schedulerVars, LoopState
  <2>2. \A t \in Req : loop'[t] = "done" <=> loop[t] = "done"
    BY <1>1, <2>1
  <2>3. AddedReq' = AddedReq /\ DoneReq' = DoneReq
    BY <2>1, <2>2 DEF AddedReq, DoneReq, Added
  <2>4. \A t \in Req : loop'[t] = "done" => Terminal(t)'
    BY <2>1, <2>2 DEF Counts, Terminal
  <2> QED
    BY <2>1, <2>3, <2>4, CountsKept
<1>3. ASSUME UNCHANGED vars PROVE Counts'
  <2>1. UNCHANGED <<status, loop, generated, metrics>>
    BY <1>3 DEF vars, schedulerVars, loopVars
  <2> QED
    BY <2>1, CountsKept DEF AddedReq, DoneReq, Added, Counts, Terminal
<1> QED
  BY <1>2, <1>3, AddRequestCounts, CancelCounts, FinishCounts, TurnCounts
     DEF Next, LoopStep, CancelById, CancelBySession

\* The counters of /metrics agree with what happened, for any number of
\* requests: no request is counted twice and no token is lost, whoever executes
\* the batches, whatever is cancelled, fails or is abandoned.
THEOREM MetricsAreRight == Spec => []MetricsAgree
<1> DEFINE Inv == TypeInv /\ Counts
<1>1. Init => Inv
  <2> SUFFICES ASSUME Init PROVE Counts
    BY InitTypeInv
  <2>1. AddedReq = {} /\ DoneReq = {} /\ \A r \in Req : loop[r] = "idle"
    BY DEF Init, SchedulerInit, AddedReq, DoneReq, Added
  <2>2. TokensOut = {}
    <3>1. \A r \in Req : generated[r] = 0
      BY DEF Init, SchedulerInit
    <3>2. 1 .. 0 = {}
      OBVIOUS
    <3> QED
      BY <3>1, <3>2 DEF TokensOut
  <2>3. IsFiniteSet({}) /\ Cardinality({}) = 0
    BY FS_EmptySet
  <2>4. /\ metrics.requests_started = 0
        /\ metrics.requests_finished = 0
        /\ metrics.tokens_generated = 0
    BY DEF Init
  <2> QED
    BY <2>1, <2>2, <2>3, <2>4 DEF Counts, MetricsAgree, AddedReq, DoneReq
<1>2. Inv /\ [Next]_vars => Inv'
  BY NextTypeInv, CountsStep
<1>3. Inv => MetricsAgree
  BY DEF Counts
<1> HIDE DEF Inv
<1>4. Spec => []Inv
  BY <1>1, <1>2, PTL DEF Spec
<1> QED
  BY <1>3, <1>4, PTL

-----------------------------------------------------------------------------
(* The replies in the histories *)

Concluded(r) == status[r] = "finished" /\ loop[r] = "done"

\* ReplyInHistoryOnce is inductive once it is known that _finish_sequence has
\* appended the reply exactly of the requests that finished, have ended their
\* loop and said something.
HistoriesOK ==
  /\ \A r \in Req : loop[r] = "done" => Terminal(r)
  /\ \A r \in Req : response_appended[r] <=> Concluded(r) /\ response_text[r] # <<>>
  /\ ReplyInHistoryOnce

\* A step that writes to no history keeps this if it changes neither which
\* requests are concluded nor what those have said.
LEMMA HistoriesKept ==
  ASSUME HistoriesOK, UNCHANGED <<messages, response_appended>>,
         \A r \in Req : loop'[r] = "done" => Terminal(r)',
         \A r \in Req : Concluded(r)' <=> Concluded(r),
         \A r \in Req : Concluded(r) => response_text'[r] = response_text[r]
  PROVE  HistoriesOK'
<1>1. \A r \in Req, s \in Session : ReplyPlaces(r, s)' = ReplyPlaces(r, s)
  BY DEF ReplyPlaces
<1>2. ASSUME NEW r \in Req, NEW s \in Session, Concluded(r), NEW k
      PROVE  ReplyStandsAt(r, s, k)' <=> ReplyStandsAt(r, s, k)
  BY <1>1, <1>2 DEF ReplyStandsAt
<1>3. ReplyInHistoryOnce'
  <2> SUFFICES ASSUME NEW r \in Req, NEW s \in Session
               PROVE  IF s = SessionOf[r] /\ Concluded(r)
                        THEN \E k \in 0 .. Len(messages[s]) : ReplyStandsAt(r, s, k)'
                        ELSE ReplyPlaces(r, s)' = {}
    BY DEF ReplyInHistoryOnce, Concluded
  <2>1. IF s = SessionOf[r] /\ Concluded(r)
          THEN \E k \in 0 .. Len(messages[s]) : ReplyStandsAt(r, s, k)
          ELSE ReplyPlaces(r, s) = {}
    BY DEF HistoriesOK, ReplyInHistoryOnce, Concluded
  <2> QED
    BY <1>1, <1>2, <2>1
<1>4. \A r \in Req : response_appended'[r] <=> Concluded(r)' /\ response_text'[r] # <<>>
  BY DEF HistoriesOK
<1> QED
  BY <1>3, <1>4 DEF HistoriesOK

\* What stands in a history stays where it stands when more is said.
LEMMA SaidStays ==
  ASSUME NEW h \in Seq(Text), NEW more \in Seq(Text)
  PROVE  /\ Len(h \o more) = Len(h) + Len(more)
         /\ Len(h) \in Nat /\ Len(more) \in Nat
         /\ \A i \in 1 .. Len(h) : (h \o more)[i] = h[i]
         /\ \A i \in 1 .. Len(more) : (h \o more)[Len(h) + i] = more[i]
BY ConcatProperties, LenProperties

\* Entries that are not from the reply of t add no places to it.
LEMMA PlacesKept ==
  ASSUME NEW t \in Req, NEW s \in Session, messages[s] \in Seq(Text), NEW more \in Seq(Text),
         messages'[s] = messages[s] \o more, response_text'[t] = response_text[t],
         \A i \in 1 .. Len(more) : ~ (more[i].role = "assistant" /\ more[i].req = t)
  PROVE  /\ ReplyPlaces(t, s)' = ReplyPlaces(t, s)
         /\ \A k \in 0 .. Len(messages[s]) : ReplyStandsAt(t, s, k) =>
              k \in 0 .. Len(messages'[s]) /\ ReplyStandsAt(t, s, k)'
<1> DEFINE h == messages[s]
<1>1. /\ Len(messages'[s]) = Len(h) + Len(more)
      /\ Len(h) \in Nat /\ Len(more) \in Nat
      /\ \A i \in 1 .. Len(h) : messages'[s][i] = h[i]
      /\ \A i \in 1 .. Len(more) : messages'[s][Len(h) + i] = more[i]
  BY SaidStays
<1>2. ASSUME NEW i \in 1 .. Len(messages'[s]), i \notin 1 .. Len(h)
      PROVE  i - Len(h) \in 1 .. Len(more) /\ messages'[s][i] = more[i - Len(h)]
  BY <1>1, <1>2
<1>3. ReplyPlaces(t, s)' = ReplyPlaces(t, s)
  BY <1>1, <1>2 DEF ReplyPlaces
<1>4. ASSUME NEW k \in 0 .. Len(h), ReplyStandsAt(t, s, k)
      PROVE  k \in 0 .. Len(messages'[s]) /\ ReplyStandsAt(t, s, k)'
  <2>1. k \in 0 .. Len(messages'[s])
    BY <1>1
  <2>2. ASSUME NEW i \in 1 .. Len(response_text[t])
        PROVE  messages'[s][k + i].word = response_text[t][i]
    <3>1. k + i \in ReplyPlaces(t, s)
      <4>1. k + i \in k + 1 .. k + Len(response_text[t])
        OBVIOUS
      <4> QED
        BY <1>4, <4>1 DEF ReplyStandsAt
    <3>2. k + i \in 1 .. Len(h)
      BY <3>1 DEF ReplyPlaces
    <3> QED
      BY <1>1, <1>4, <3>2 DEF ReplyStandsAt
  <2>3. ReplyStandsAt(t, s, k)'
    BY <1>3, <1>4, <2>2 DEF ReplyStandsAt
  <2> QED
    BY <2>1, <2>3
<1> QED
  BY <1>3, <1>4

\* A reply that was not in the history stands whole where it is appended.
LEMMA ReplyAppended ==
  ASSUME TypeOK, NEW r \in Req, NEW s \in Session, ReplyPlaces(r, s) = {},
         messages'[s] = messages[s] \o AssistantMessage(r), response_text'[r] = response_text[r]
  PROVE  \E k \in 0 .. Len(messages'[s]) : ReplyStandsAt(r, s, k)'
<1>1. PICK h \in Seq(Text), more \in Seq(Text) : h = messages[s] /\ more = AssistantMessage(r)
  BY MessageTypes DEF TypeOK, ReplyTypeOK
<1>2. PICK k \in Nat, n \in Nat : k = Len(h) /\ n = Len(response_text[r])
  BY LenProperties DEF TypeOK, ReplyTypeOK
<1>3. /\ Len(more) = n
      /\ \A i \in 1 .. n : /\ more[i].role = "assistant" /\ more[i].req = r
                           /\ more[i].word = response_text[r][i]
  BY <1>1, <1>2 DEF AssistantMessage
<1>4. /\ Len(messages'[s]) = k + n
      /\ \A i \in 1 .. k : messages'[s][i] = messages[s][i]
      /\ \A i \in 1 .. n : messages'[s][k + i] = more[i]
  <2>1. /\ Len(h \o more) = Len(h) + Len(more)
        /\ \A i \in 1 .. Len(h) : (h \o more)[i] = h[i]
        /\ \A i \in 1 .. Len(more) : (h \o more)[Len(h) + i] = more[i]
    BY SaidStays
  <2>2. messages'[s] = h \o more /\ messages[s] = h
    BY <1>1
  <2> QED
    BY <1>2, <1>3, <2>1, <2>2, Zenon
<1>5. ASSUME NEW i \in 1 .. k + n
      PROVE  (messages'[s][i].role = "assistant" /\ messages'[s][i].req = r) <=> i \in k + 1 .. k + n
  <2>1. CASE i \in 1 .. k
    <3>1. i \in 1 .. Len(messages[s]) /\ i \notin k + 1 .. k + n
      <4>1. Len(messages[s]) = k
        BY <1>1, <1>2
      <4>2. i \notin k + 1 .. k + n
        BY <2>1
      <4> QED
        BY <2>1, <4>1, <4>2, Zenon
    <3>2. ~ (messages[s][i].role = "assistant" /\ messages[s][i].req = r)
      BY <3>1, Zenon DEF ReplyPlaces
    <3> QED
      BY <1>4, <2>1, <3>1, <3>2, Zenon
  <2>2. CASE i \in k + 1 .. k + n
    <3>1. PICK j \in 1 .. n : i = k + j
      <4>1. i - k \in 1 .. n /\ i = k + (i - k)
        BY <2>2
      <4> QED
        BY <4>1
    <3> QED
      BY <1>3, <1>4, <2>2, <3>1, Zenon
  <2>3. i \in 1 .. k \/ i \in k + 1 .. k + n
    BY k \in Nat, n \in Nat
  <2> QED
    BY <2>1, <2>2, <2>3, Zenon
<1>6. ReplyPlaces(r, s)' = k + 1 .. k + n
  <2>1. k + 1 .. k + n \subseteq 1 .. k + n
    OBVIOUS
  <2> QED
    BY <1>4, <1>5, <2>1 DEF ReplyPlaces
<1>7. ReplyStandsAt(r, s, k)'
  BY <1>2, <1>3, <1>4, <1>6 DEF ReplyStandsAt
<1> QED
  BY <1>4, <1>7

LEMMA AddRequestHistories ==
  ASSUME TypeInv, HistoriesOK, NEW r \in Req, AddRequest(r)
  PROVE  HistoriesOK'
<1>1. /\ status \in [Req -> Status] /\ loop \in [Req -> LoopState]
      /\ messages \in [Session -> Seq(Text)] /\ TypeOK /\ SessionOf[r] \in Session
  BY RuntimeAssumption DEF TypeInv, TypeOK, SchedulerTypeOK, ReplyTypeOK
<1>2. /\ status[r] = "none" /\ status' = [status EXCEPT ![r] = "waiting"]
      /\ loop' = [loop EXCEPT ![r] = "ready"]
      /\ UNCHANGED <<response_text, response_appended>>
      /\ messages' = [messages EXCEPT ![SessionOf[r]] = messages[SessionOf[r]] \o UserMessage(r)]
  BY DEF AddRequest, StartFrom, AddSequence, replyVars
<1>3. /\ \A t \in Req : Concluded(t)' <=> Concluded(t)
      /\ \A t \in Req : loop'[t] = "done" => Terminal(t)'
  BY <1>1, <1>2 DEF HistoriesOK, Terminal, Concluded
<1>4. UserMessage(r) \in Seq(Text) /\ \A i \in 1 .. Len(UserMessage(r)) : UserMessage(r)[i].role = "user"
  <2>1. UserMessage(r) \in Seq(Text) /\ Len(UserMessage(r)) = Len(Prompt[r])
    BY <1>1, MessageTypes
  <2> QED
    BY <2>1 DEF UserMessage
<1>5. ASSUME NEW t \in Req, NEW s \in Session
      PROVE  /\ ReplyPlaces(t, s)' = ReplyPlaces(t, s)
             /\ \A k \in 0 .. Len(messages[s]) : ReplyStandsAt(t, s, k) =>
                  k \in 0 .. Len(messages'[s]) /\ ReplyStandsAt(t, s, k)'
  <2>1. CASE s = SessionOf[r]
    <3>1. messages'[s] = messages[s] \o UserMessage(r) /\ messages[s] \in Seq(Text)
      BY <1>1, <1>2, <2>1
    <3>2. \A i \in 1 .. Len(UserMessage(r)) :
            ~ (UserMessage(r)[i].role = "assistant" /\ UserMessage(r)[i].req = t)
      BY <1>4
    <3> QED
      BY <1>2, <1>4, <3>1, <3>2, PlacesKept
  <2>2. CASE s # SessionOf[r]
    <3>1. messages'[s] = messages[s]
      BY <1>1, <1>2, <2>2
    <3> QED
      BY <1>2, <3>1 DEF ReplyPlaces, ReplyStandsAt
  <2> QED
    BY <2>1, <2>2
<1>6. ReplyInHistoryOnce'
  <2> SUFFICES ASSUME NEW t \in Req, NEW s \in Session
               PROVE  IF s = SessionOf[t] /\ Concluded(t)
                        THEN \E k \in 0 .. Len(messages'[s]) : ReplyStandsAt(t, s, k)'
                        ELSE ReplyPlaces(t, s)' = {}
    BY <1>3 DEF ReplyInHistoryOnce, Concluded
  <2>1. IF s = SessionOf[t] /\ Concluded(t)
          THEN \E k \in 0 .. Len(messages[s]) : ReplyStandsAt(t, s, k)
          ELSE ReplyPlaces(t, s) = {}
    BY DEF HistoriesOK, ReplyInHistoryOnce, Concluded
  <2> QED
    BY <1>5, <2>1
<1> QED
  BY <1>2, <1>3, <1>6 DEF HistoriesOK

LEMMA FinishHistories ==
  ASSUME TypeInv, HistoriesOK, NEW r \in Req, Finish(r)
  PROVE  HistoriesOK'
<1>1. /\ loop \in [Req -> LoopState] /\ response_appended \in [Req -> BOOLEAN]
      /\ messages \in [Session -> Seq(Text)] /\ TypeOK /\ SessionOf[r] \in Session
  BY RuntimeAssumption DEF TypeInv, TypeOK, SchedulerTypeOK, ReplyTypeOK
<1>2. /\ Terminal(r) /\ loop[r] = "ready" /\ UNCHANGED <<status, response_text>>
      /\ loop' = [loop EXCEPT ![r] = "done"]
  BY DEF Finish, FinishSequence, schedulerVars
<1>3. /\ \A t \in Req : loop'[t] = "done" => Terminal(t)'
      /\ \A t \in Req \ {r} : Concluded(t)' <=> Concluded(t)
      /\ Concluded(r)' <=> status[r] = "finished"
      /\ ~ Concluded(r) /\ ~ response_appended[r]
  BY <1>1, <1>2 DEF HistoriesOK, Terminal, Concluded
<1>4. CASE status[r] # "finished"
  <2>1. UNCHANGED <<messages, response_appended>>
    BY <1>2, <1>4 DEF Finish, FinishSequence, Completed
  <2> QED
    BY <1>2, <1>3, <1>4, <2>1, HistoriesKept
<1>5. CASE status[r] = "finished"
  <2> DEFINE s0 == SessionOf[r]
  <2>1. AppendReply(r)
    BY <1>2, <1>5 DEF Finish, FinishSequence, Completed
  <2>2. \A s \in Session : ReplyPlaces(r, s) = {}
    BY <1>3 DEF HistoriesOK, ReplyInHistoryOnce, Concluded
  <2>3. CASE response_text[r] = <<>>
    <3>1. UNCHANGED <<messages, response_appended>>
      BY <2>1, <2>3 DEF AppendReply
    <3>2. \A t \in Req : response_appended'[t] <=> Concluded(t)' /\ response_text'[t] # <<>>
      BY <1>2, <1>3, <2>3, <3>1 DEF HistoriesOK
    <3>3. \A t \in Req, s \in Session :
            /\ ReplyPlaces(t, s)' = ReplyPlaces(t, s)
            /\ \A k : ReplyStandsAt(t, s, k)' <=> ReplyStandsAt(t, s, k)
      BY <1>2, <3>1 DEF ReplyPlaces, ReplyStandsAt
    <3>4. ReplyStandsAt(r, s0, 0)
      <4>1. Len(response_text[r]) = 0
        BY <2>3
      <4>2. 0 + 1 .. 0 + 0 = {} /\ 1 .. 0 = {}
        OBVIOUS
      <4> QED
        BY <1>1, <2>2, <4>1, <4>2 DEF ReplyStandsAt
    <3>5. 0 \in 0 .. Len(messages[s0])
      BY <1>1, LenProperties
    <3>6. ReplyInHistoryOnce'
      <4> SUFFICES ASSUME NEW t \in Req, NEW s \in Session
                   PROVE  IF s = SessionOf[t] /\ Concluded(t)'
                            THEN \E k \in 0 .. Len(messages[s]) : ReplyStandsAt(t, s, k)
                            ELSE ReplyPlaces(t, s) = {}
        BY <3>1, <3>3 DEF ReplyInHistoryOnce, Concluded
      <4>1. CASE t = r
        BY <2>2, <3>4, <3>5, <4>1
      <4>2. CASE t # r
        BY <1>3, <4>2 DEF HistoriesOK, ReplyInHistoryOnce, Concluded
      <4> QED
        BY <4>1, <4>2
    <3> QED
      BY <1>3, <3>2, <3>6 DEF HistoriesOK
  <2>4. CASE response_text[r] # <<>>
    <3>1. /\ messages' = [messages EXCEPT ![s0] = messages[s0] \o AssistantMessage(r)]
          /\ response_appended' = [response_appended EXCEPT ![r] = TRUE]
      BY <1>3, <2>1, <2>4 DEF AppendReply
    <3>2. \A t \in Req : response_appended'[t] <=> Concluded(t)' /\ response_text'[t] # <<>>
      BY <1>1, <1>2, <1>3, <1>5, <2>4, <3>1 DEF HistoriesOK
    <3>3. /\ messages'[s0] = messages[s0] \o AssistantMessage(r)
          /\ \A s \in Session \ {s0} : messages'[s] = messages[s]
          /\ messages[s0] \in Seq(Text) /\ AssistantMessage(r) \in Seq(Text)
      BY <1>1, <3>1, MessageTypes
    <3>4. ASSUME NEW t \in Req \ {r}, NEW s \in Session
          PROVE  /\ ReplyPlaces(t, s)' = ReplyPlaces(t, s)
                 /\ \A k \in 0 .. Len(messages[s]) : ReplyStandsAt(t, s, k) =>
                      k \in 0 .. Len(messages'[s]) /\ ReplyStandsAt(t, s, k)'
      <4>1. CASE s = s0
        <5>1. /\ Len(AssistantMessage(r)) = Len(response_text[r])
              /\ \A i \in 1 .. Len(AssistantMessage(r)) : AssistantMessage(r)[i].req = r
          <6>1. Len(response_text[r]) \in Nat
            BY <1>1, LenProperties DEF TypeOK, ReplyTypeOK
          <6> QED
            BY <6>1 DEF AssistantMessage
        <5>2. \A i \in 1 .. Len(AssistantMessage(r)) :
                ~ (AssistantMessage(r)[i].role = "assistant" /\ AssistantMessage(r)[i].req = t)
          BY <5>1
        <5>3. /\ messages[s] \in Seq(Text) /\ AssistantMessage(r) \in Seq(Text)
              /\ messages'[s] = messages[s] \o AssistantMessage(r)
              /\ response_text'[t] = response_text[t]
          BY <1>2, <3>3, <4>1
        <5> HIDE DEF s0
        <5> QED
          BY <5>2, <5>3, PlacesKept
      <4>2. CASE s # s0
        <5>1. messages'[s] = messages[s]
          BY <3>3, <4>2
        <5> QED
          BY <1>2, <5>1 DEF ReplyPlaces, ReplyStandsAt
      <4> QED
        BY <4>1, <4>2
    <3>5. \E k \in 0 .. Len(messages'[s0]) : ReplyStandsAt(r, s0, k)'
      BY <1>1, <1>2, <2>2, <3>3, ReplyAppended
    <3>6. \A s \in Session \ {s0} : ReplyPlaces(r, s)' = {}
      BY <2>2, <3>3 DEF ReplyPlaces
    <3>7. ReplyInHistoryOnce'
      <4> SUFFICES ASSUME NEW t \in Req, NEW s \in Session
                   PROVE  IF s = SessionOf[t] /\ Concluded(t)'
                            THEN \E k \in 0 .. Len(messages'[s]) : ReplyStandsAt(t, s, k)'
                            ELSE ReplyPlaces(t, s)' = {}
        BY DEF ReplyInHistoryOnce, Concluded
      <4>1. CASE t = r
        BY <1>3, <1>5, <3>5, <3>6, <4>1
      <4>2. CASE t # r
        <5>1. IF s = SessionOf[t] /\ Concluded(t)
                THEN \E k \in 0 .. Len(messages[s]) : ReplyStandsAt(t, s, k)
                ELSE ReplyPlaces(t, s) = {}
          BY DEF HistoriesOK, ReplyInHistoryOnce, Concluded
        <5> QED
          BY <1>3, <3>4, <4>2, <5>1
      <4> QED
        BY <4>1, <4>2
    <3> QED
      BY <1>3, <3>2, <3>7 DEF HistoriesOK
  <2> QED
    BY <2>3, <2>4
<1> QED
  BY <1>4, <1>5

LEMMA HistoriesStep ==
  ASSUME TypeInv, HistoriesOK, [Next]_vars
  PROVE  HistoriesOK'
<1>1. /\ status \in [Req -> Status] /\ loop \in [Req -> LoopState]
      /\ response_text \in [Req -> Seq(Word)]
  BY DEF TypeInv, TypeOK, SchedulerTypeOK, ReplyTypeOK
<1>2. ASSUME NEW r \in Req, Cancel(r) PROVE HistoriesOK'
  <2>1. /\ status[r] \in {"waiting", "running"} /\ status' = [status EXCEPT ![r] = "cancelled"]
        /\ UNCHANGED <<loop, response_text>>
    BY <1>2 DEF Cancel, CancelSequence, FinishSequence, Live
  <2>2. UNCHANGED <<messages, response_appended>>
    BY <1>1, <1>2, <2>1 DEF Cancel, FinishSequence, Completed
  <2>3. /\ \A t \in Req : loop'[t] = "done" => Terminal(t)'
        /\ \A t \in Req : Concluded(t)' <=> Concluded(t)
    BY <1>1, <2>1 DEF HistoriesOK, Terminal, Concluded
  <2> QED
    BY <2>1, <2>2, <2>3, HistoriesKept
<1>3. ASSUME NEW r \in Req, Turn(r) PROVE HistoriesOK'
  <2>1. UNCHANGED <<messages, response_appended>> /\ loop[r] = "ready"
    BY <1>3 DEF Turn, sessionVars
  <2>2. PICK q \in Req : q \in Live /\ (Prefill(r, q) \/ Decode(r, q) \/ Fail(r, q))
    BY <1>3 DEF Turn, Drives, IsNext
  <2>3. \E new \in {"running", "finished"} : status' = [status EXCEPT ![q] = new]
    BY <2>2 DEF Prefill, PrefillChunk, Decode, DecodeTokens, Fail, MarkRunning
  <2>4. loop' = loop \/ \E new \in {"yielding", "failed"} : loop' = [loop EXCEPT ![r] = new]
    BY <2>2 DEF Prefill, Decode, Deliver, Fail
  <2>5. \A t \in Req \ {q} : response_text'[t] = response_text[t]
    BY <1>1, <2>2 DEF Prefill, Decode, Fail
  <2>6. /\ status[q] \in {"waiting", "running"} /\ loop[q] # "done"
        /\ \A t \in Req : loop'[t] = "done" <=> loop[t] = "done"
    BY <1>1, <2>1, <2>2, <2>4 DEF Live, Terminal, HistoriesOK
  <2>7. /\ \A t \in Req : loop'[t] = "done" => Terminal(t)'
        /\ \A t \in Req : Concluded(t)' <=> Concluded(t)
        /\ \A t \in Req : Concluded(t) => response_text'[t] = response_text[t]
    BY <1>1, <2>3, <2>5, <2>6 DEF HistoriesOK, Terminal, Concluded
  <2> QED
    BY <2>1, <2>7, HistoriesKept
<1>4. ASSUME NEW r \in Req, Yield(r) \/ Disconnect(r) PROVE HistoriesOK'
  <2>1. /\ loop[r] # "done" /\ \E new \in LoopState \ {"done"} : loop' = [loop EXCEPT ![r] = new]
        /\ UNCHANGED <<status, messages, response_text, response_appended>>
    BY <1>4 DEF Yield, Disconnect, schedulerVars, sessionVars, replyVars, LoopState
  <2>2. /\ \A t \in Req : loop'[t] = "done" => Terminal(t)'
        /\ \A t \in Req : Concluded(t)' <=> Concluded(t)
    BY <1>1, <2>1 DEF HistoriesOK, Terminal, Concluded
  <2> QED
    BY <2>1, <2>2, HistoriesKept
<1>5. ASSUME UNCHANGED vars PROVE HistoriesOK'
  <2>1. UNCHANGED <<status, loop, messages, response_text, response_appended>>
    BY <1>5 DEF vars, schedulerVars, loopVars, sessionVars, replyVars
  <2>2. /\ \A t \in Req : loop'[t] = "done" => Terminal(t)'
        /\ \A t \in Req : Concluded(t)' <=> Concluded(t)
    BY <2>1 DEF HistoriesOK, Terminal, Concluded
  <2> QED
    BY <2>1, <2>2, HistoriesKept
<1> QED
  BY <1>2, <1>3, <1>4, <1>5, AddRequestHistories, FinishHistories
     DEF Next, LoopStep, CancelById, CancelBySession

LEMMA InitHistories == Init => HistoriesOK
<1> SUFFICES ASSUME Init PROVE HistoriesOK
  OBVIOUS
<1>1. ASSUME NEW r \in Req
      PROVE  status[r] = "none" /\ loop[r] = "idle" /\ ~ response_appended[r]
  BY DEF Init, SchedulerInit
<1>2. \A r \in Req, s \in Session : ReplyPlaces(r, s) = {}
  <2>1. \A s \in Session : messages[s] = <<>>
    BY DEF Init
  <2>2. 1 .. Len(<<>>) = {}
    OBVIOUS
  <2> QED
    BY <2>1, <2>2 DEF ReplyPlaces
<1> QED
  BY <1>1, <1>2 DEF HistoriesOK, ReplyInHistoryOnce, Concluded

\* _finish_sequence runs at the end of a loop and in every cancel, and still
\* each reply enters the history of its session exactly once, whole, and only
\* if the request finished.
THEOREM RepliesEnterOnce == Spec => []ReplyInHistoryOnce
<1> DEFINE Inv == TypeInv /\ HistoriesOK
<1>1. Init => Inv
  BY InitTypeInv, InitHistories
<1>2. Inv /\ [Next]_vars => Inv'
  BY NextTypeInv, HistoriesStep
<1>3. Inv => ReplyInHistoryOnce
  BY DEF HistoriesOK
<1> HIDE DEF Inv
<1>4. Spec => []Inv
  BY <1>1, <1>2, PTL DEF Spec
<1> QED
  BY <1>3, <1>4, PTL

-----------------------------------------------------------------------------
(* One user *)

Active(r) == loop[r] \in {"ready", "yielding"}

\* What makes one user's streams complete and its prompts up to date: there is
\* at most one loop under way, so that nobody else executes its batches, and
\* every other loop of an earlier request is over for good when a request is
\* sent.
SoloOK ==
  /\ \A r \in Req : Added(r) => loop[r] # "idle"
  /\ \A r, t \in Req : Active(r) /\ Active(t) => r = t
  /\ \A r \in Req : loop[r] \notin {"failed", "gone"} => Stream(r) = response_text[r]
  /\ \A r, t \in Req : Added(r) /\ Added(t) /\ created_ts[r] < created_ts[t] => ~ Active(r)
  /\ ContextHasReplies

\* A step with no arrival keeps all this if every loop that goes on stays as
\* complete as it was and no loop that is over starts again.
LEMMA SoloKept ==
  ASSUME SoloOK, UNCHANGED <<created_ts, input_ids>>,
         \A r \in Req : Added(r)' <=> Added(r),
         \A r \in Req : loop'[r] # loop[r] => Active(r) /\ loop'[r] # "idle",
         \A r \in Req : loop'[r] \notin {"failed", "gone"} => Stream(r)' = response_text'[r],
         \A r \in Req : Concluded(r)' /\ ~ Active(r) =>
           Concluded(r) /\ response_text'[r] = response_text[r]
  PROVE  SoloOK'
<1>1. \A r \in Req : Active(r)' => Active(r)
  BY DEF Active
<1>2. ContextHasReplies'
  <2> SUFFICES ASSUME NEW r \in Req, NEW t \in Req, Added(r)', Added(t)',
                      SessionOf[r] = SessionOf[t], created_ts'[r] < created_ts'[t],
                      Concluded(r)'
               PROVE  Elements(response_text'[r]) \subseteq Elements(input_ids'[t])
    BY DEF ContextHasReplies, Concluded, Elements
  <2>1. Added(r) /\ Added(t) /\ created_ts[r] < created_ts[t] /\ ~ Active(r)
    BY DEF SoloOK
  <2>2. Concluded(r) /\ response_text'[r] = response_text[r] /\ input_ids'[t] = input_ids[t]
    BY <2>1
  <2> QED
    BY <2>1, <2>2 DEF SoloOK, ContextHasReplies, Concluded
<1> QED
  BY <1>1, <1>2 DEF SoloOK

\* The words of a reply that stands in the history are in the prompt made of it.
LEMMA HistoryIsPrompt ==
  ASSUME TypeOK, NEW r \in Req, NEW s \in Session, NEW more \in Seq(Text),
         NEW k \in Nat, ReplyStandsAt(r, s, k)
  PROVE  Elements(response_text[r]) \subseteq Elements(Tokenize(messages[s] \o more))
<1>1. PICK h \in Seq(Text) : h = messages[s]
  BY DEF TypeOK, ReplyTypeOK
<1>2. PICK history \in Seq(Text) : history = h \o more
  BY ConcatProperties
<1>3. /\ Len(history) = Len(h) + Len(more)
      /\ Len(h) \in Nat /\ Len(more) \in Nat
      /\ \A i \in 1 .. Len(h) : history[i] = h[i]
  BY <1>2, SaidStays
<1>4. response_text[r] \in Seq(Word) /\ Len(response_text[r]) \in Nat
  BY LenProperties DEF TypeOK, ReplyTypeOK
<1>5. Tokenize(history) = [i \in 1 .. Len(history) |-> history[i].word]
      /\ Len(Tokenize(history)) = Len(history)
  BY TokenizeType DEF Tokenize
<1>6. ReplyPlaces(r, s) = k + 1 .. k + Len(response_text[r])
  BY DEF ReplyStandsAt
<1>7. ASSUME NEW i \in 1 .. Len(response_text[r])
      PROVE  response_text[r][i] \in Elements(Tokenize(history))
  <2>1. PICK j \in ReplyPlaces(r, s) : messages[s][j].word = response_text[r][i]
    <3>1. messages[s][k + i].word = response_text[r][i]
      BY DEF ReplyStandsAt
    <3>2. k + i \in ReplyPlaces(r, s)
      BY <1>6, <1>4
    <3> QED
      BY <3>1, <3>2
  <2>2. j \in 1 .. Len(h)
    BY <1>1, <2>1 DEF ReplyPlaces
  <2>3. j \in 1 .. Len(history)
    BY <1>3, <2>2
  <2>4. Tokenize(history)[j] = response_text[r][i]
    BY <1>1, <1>3, <1>5, <2>1, <2>2, <2>3
  <2> QED
    BY <1>5, <2>3, <2>4 DEF Elements
<1> QED
  BY <1>1, <1>2, <1>7 DEF Elements

LEMMA AddRequestSolo ==
  ASSUME TypeInv, StreamsOK, HistoriesOK, SoloOK, NEW r \in Req, AddRequest(r), Alone
  PROVE  SoloOK'
<1>1. /\ status \in [Req -> Status] /\ loop \in [Req -> LoopState] /\ TypeOK
      /\ created_ts \in [Req -> Nat] /\ input_ids \in [Req -> Seq(Word)]
      /\ messages \in [Session -> Seq(Text)] /\ SessionOf[r] \in Session
      /\ clock \in Nat /\ \A t \in Req : Added(t) => created_ts[t] < clock
  BY RuntimeAssumption DEF TypeInv, TypeOK, SchedulerTypeOK, ReplyTypeOK, Arrivals
<1>2. PICK ids : /\ ids = Tokenize(messages[SessionOf[r]] \o UserMessage(r))
                 /\ StartFrom(r, ids)
  BY DEF AddRequest
<1>3. /\ status[r] = "none" /\ status' = [status EXCEPT ![r] = "waiting"]
      /\ created_ts' = [created_ts EXCEPT ![r] = clock]
      /\ input_ids' = [input_ids EXCEPT ![r] = ids]
      /\ loop' = [loop EXCEPT ![r] = "ready"]
      /\ UNCHANGED <<response_text, streamed, pending>>
  BY <1>2 DEF AddRequest, StartFrom, AddSequence, replyVars
<1>4. ~ Added(r) /\ Added(r)' /\ \A t \in Req \ {r} : Added(t)' <=> Added(t)
  BY <1>1, <1>3 DEF Added
<1>5. \A t \in Req : ~ Active(t)
  BY <1>4 DEF Alone, Active
<1>6. loop[r] = "idle"
  BY <1>4 DEF StreamsOK
<1>7. ASSUME NEW t \in Req
      PROVE  /\ Added(t)' => loop'[t] # "idle"
             /\ Active(t)' => t = r
             /\ loop'[t] \notin {"failed", "gone"} => Stream(t)' = response_text'[t]
  BY <1>1, <1>3, <1>4, <1>5, <1>6 DEF SoloOK, Active, Stream
<1>8. ASSUME NEW x \in Req, NEW t \in Req, Added(x)', Added(t)', created_ts'[x] < created_ts'[t]
      PROVE  x # r /\ Added(x)
  <2>1. t = r => created_ts'[t] = clock
    BY <1>1, <1>3
  <2>2. x = r => created_ts'[x] = clock
    BY <1>1, <1>3
  <2>3. t # r => created_ts'[t] < clock
    BY <1>1, <1>3, <1>4, <1>8
  <2>4. created_ts'[t] \in Nat
    BY <1>1, <1>3
  <2>5. x # r
    BY <1>1, <1>8, <2>1, <2>2, <2>3, <2>4
  <2> QED
    BY <1>4, <1>8, <2>5
<1>9. ContextHasReplies'
  <2> SUFFICES ASSUME NEW x \in Req, NEW t \in Req, Added(x)', Added(t)',
                      SessionOf[x] = SessionOf[t], created_ts'[x] < created_ts'[t],
                      Concluded(x)'
               PROVE  Elements(response_text'[x]) \subseteq Elements(input_ids'[t])
    BY DEF ContextHasReplies, Concluded, Elements
  <2>1. x # r /\ Added(x) /\ Concluded(x)
    BY <1>1, <1>3, <1>8 DEF Concluded
  <2>2. CASE t = r
    <3> DEFINE s == SessionOf[r]
    <3>1. PICK k \in Nat : ReplyStandsAt(x, s, k)
      <4>1. PICK k \in 0 .. Len(messages[s]) : ReplyStandsAt(x, s, k)
        BY <1>1, <2>1, <2>2 DEF HistoriesOK, ReplyInHistoryOnce, Concluded
      <4> QED
        BY <4>1
    <3>2. UserMessage(r) \in Seq(Text)
      BY <1>1, MessageTypes
    <3>3. input_ids'[r] = Tokenize(messages[s] \o UserMessage(r))
      BY <1>1, <1>2, <1>3
    <3> HIDE DEF s
    <3>4. s \in Session
      BY <1>1 DEF s
    <3>5. Elements(response_text[x]) \subseteq Elements(Tokenize(messages[s] \o UserMessage(r)))
      BY <1>1, <3>1, <3>2, <3>4, HistoryIsPrompt
    <3> QED
      BY <1>3, <2>2, <3>3, <3>5
  <2>3. CASE t # r
    <3>1. /\ Added(t) /\ created_ts[x] < created_ts[t] /\ input_ids'[t] = input_ids[t]
      BY <1>1, <1>3, <1>4, <2>1, <2>3
    <3> QED
      BY <1>3, <2>1, <3>1 DEF SoloOK, ContextHasReplies, Concluded
  <2> QED
    BY <2>2, <2>3
<1>10. ASSUME NEW x \in Req, NEW t \in Req, Added(x)', Added(t)', created_ts'[x] < created_ts'[t]
       PROVE  ~ Active(x)'
  BY <1>7, <1>8, <1>10
<1> QED
  BY <1>7, <1>9, <1>10 DEF SoloOK

\* The texts of a batch extend the reply and the stream of the loop alike.
LEMMA DecodeSolo ==
  ASSUME TypeInv, StreamsOK, HistoriesOK, SoloOK, NEW r \in Req, NEW q \in Req,
         loop[r] = "ready", q \in Live, Decode(r, q), UNCHANGED streamed
  PROVE  \A t \in Req : loop'[t] \notin {"failed", "gone"} => Stream(t)' = response_text'[t]
<1>1. /\ generated \in [Req -> Nat] /\ response_text \in [Req -> Seq(Word)]
      /\ streamed \in [Req -> Seq(Word)] /\ pending \in [Req -> Seq(Word)]
      /\ loop \in [Req -> LoopState] /\ status \in [Req -> Status]
  BY DEF TypeInv, TypeOK, SchedulerTypeOK, ReplyTypeOK
<1>2. PICK n \in 1 .. MaxBurst : \E stopped \in BOOLEAN : \E v \in Voiced(n) : Keeps(r, q, n, stopped, v)
  BY DecodeKeeps DEF TypeInv, TypeOK
<1> PICK stopped \in BOOLEAN : \E v \in Voiced(n) : Keeps(r, q, n, stopped, v)
  BY <1>2
<1> PICK v \in Voiced(n) : Keeps(r, q, n, stopped, v)
  OBVIOUS
<1> DEFINE texts == [i \in DOMAIN v |-> <<q, generated[q] + v[i]>>]
<1>3. /\ response_text' = [response_text EXCEPT ![q] = response_text[q] \o texts]
      /\ Deliver(r, q, texts)
  BY DEF Keeps
<1>4. texts \in Seq(Word)
  <2>1. n \in Nat /\ generated[q] \in Nat
    BY <1>1, RuntimeAssumption
  <2> QED
    BY <2>1, BatchTexts
<1> HIDE DEF texts
<1>5. /\ status[q] # "none" /\ loop[q] \notin {"idle", "done"}
      /\ Active(r) /\ pending[r] = <<>>
  BY DEF Live, SoloOK, HistoriesOK, StreamsOK, Added, Terminal, Active
<1>6. CASE q # r
  <2>1. ~ Active(q)
    BY <1>5, <1>6 DEF SoloOK
  <2>2. loop[q] \in {"failed", "gone"}
    BY <1>1, <1>5, <2>1 DEF LoopState, Active
  <2>3. UNCHANGED <<loop, pending>> /\ \A t \in Req \ {q} : response_text'[t] = response_text[t]
    BY <1>1, <1>3, <1>6 DEF Deliver
  <2> QED
    BY <2>2, <2>3 DEF SoloOK, Stream
<1>7. CASE q = r
  <2>1. /\ streamed[r] \in Seq(Word) /\ response_text[r] \in Seq(Word)
        /\ streamed[r] = response_text[r]
    <3>1. Stream(r) = response_text[r] /\ Stream(r) = streamed[r] \o <<>>
      BY <1>5 DEF SoloOK, Stream
    <3> QED
      BY <1>1, <3>1, ConcatEmptySeq
  <2>2. response_text'[r] = response_text[r] \o texts
    BY <1>1, <1>3, <1>7
  <2>3. \A t \in Req \ {r} : /\ loop'[t] = loop[t] /\ pending'[t] = pending[t]
                             /\ response_text'[t] = response_text[t]
    BY <1>1, <1>3, <1>7 DEF Deliver
  <2>4. pending'[r] = texts
    <3>1. CASE texts # <<>>
      BY <1>1, <1>3, <1>7, <3>1 DEF Deliver
    <3>2. CASE texts = <<>>
      BY <1>3, <1>5, <3>2 DEF Deliver
    <3> QED
      BY <3>1, <3>2
  <2>5. Stream(r)' = response_text'[r]
    BY <2>1, <2>2, <2>4 DEF Stream
  <2> QED
    BY <2>3, <2>5 DEF SoloOK, Stream
<1> QED
  BY <1>6, <1>7

LEMMA TurnSolo ==
  ASSUME TypeInv, StreamsOK, HistoriesOK, SoloOK, NEW r \in Req, Turn(r)
  PROVE  SoloOK'
<1>1. /\ status \in [Req -> Status] /\ loop \in [Req -> LoopState] /\ loop[r] = "ready"
      /\ response_text \in [Req -> Seq(Word)] /\ streamed' = streamed
  BY DEF Turn, TypeInv, TypeOK, SchedulerTypeOK, ReplyTypeOK
<1>2. PICK q \in Req : q \in Live /\ (Prefill(r, q) \/ Decode(r, q) \/ Fail(r, q))
  BY DEF Turn, Drives, IsNext
<1>3. /\ \E new \in {"running", "finished"} : status' = [status EXCEPT ![q] = new]
      /\ UNCHANGED <<created_ts, input_ids>>
  BY <1>2 DEF Prefill, PrefillChunk, Decode, DecodeTokens, Fail, MarkRunning
<1>4. loop' = loop \/ \E new \in {"yielding", "failed"} : loop' = [loop EXCEPT ![r] = new]
  BY <1>2 DEF Prefill, Decode, Deliver, Fail
<1>5. /\ status[q] \in {"waiting", "running"} /\ loop[q] # "done"
  BY <1>1, <1>2 DEF Live, Terminal, HistoriesOK
<1>6. \A t \in Req : Added(t)' <=> Added(t)
  BY <1>1, <1>3, <1>5 DEF Added
<1>7. \A t \in Req : loop'[t] # loop[t] => Active(t) /\ loop'[t] # "idle"
  BY <1>1, <1>4 DEF Active
<1>8. \A t \in Req : loop'[t] \notin {"failed", "gone"} => Stream(t)' = response_text'[t]
  <2>1. CASE Decode(r, q)
    BY <1>1, <1>2, <2>1, DecodeSolo
  <2>2. CASE Prefill(r, q) \/ Fail(r, q)
    <3>1. UNCHANGED <<pending, streamed, response_text>>
      BY <1>1, <2>2 DEF Prefill, Fail
    <3>2. \A t \in Req : loop'[t] \notin {"failed", "gone"} => loop[t] \notin {"failed", "gone"}
      BY <1>1, <1>4
    <3> QED
      BY <3>1, <3>2 DEF SoloOK, Stream
  <2> QED
    BY <1>2, <2>1, <2>2
<1>9. ASSUME NEW t \in Req, Concluded(t)', ~ Active(t)
      PROVE  Concluded(t) /\ response_text'[t] = response_text[t]
  <2>1. t # q
    BY <1>1, <1>4, <1>5, <1>9 DEF Concluded
  <2>2. \A x \in Req \ {q} : response_text'[x] = response_text[x]
    BY <1>1, <1>2 DEF Prefill, Decode, Fail
  <2>3. status'[t] = status[t] /\ loop'[t] = loop[t]
    BY <1>1, <1>3, <1>7, <1>9, <2>1
  <2> QED
    BY <1>9, <2>1, <2>2, <2>3 DEF Concluded
<1> QED
  BY <1>3, <1>6, <1>7, <1>8, <1>9, SoloKept

LEMMA YieldSolo ==
  ASSUME TypeInv, SoloOK, NEW r \in Req, Yield(r)
  PROVE  SoloOK'
<1>1. /\ streamed \in [Req -> Seq(Word)] /\ pending \in [Req -> Seq(Word)]
      /\ loop \in [Req -> LoopState] /\ loop[r] = "yielding" /\ pending[r] # <<>>
  BY DEF Yield, TypeInv, TypeOK, ReplyTypeOK, YieldsSomething
<1>2. /\ streamed' = [streamed EXCEPT ![r] = Append(streamed[r], Head(pending[r]))]
      /\ pending' = [pending EXCEPT ![r] = Tail(pending[r])]
      /\ loop' = [loop EXCEPT ![r] = IF Tail(pending[r]) = <<>> THEN "ready" ELSE "yielding"]
      /\ UNCHANGED <<response_text, status, created_ts, input_ids>>
  BY DEF Yield, replyVars, schedulerVars
<1>3. ASSUME NEW t \in Req PROVE Stream(t)' = Stream(t)
  <2>1. CASE t = r
    <3>1. streamed'[r] = Append(streamed[r], Head(pending[r])) /\ pending'[r] = Tail(pending[r])
      BY <1>1, <1>2
    <3>2. Append(streamed[r], Head(pending[r])) \o Tail(pending[r]) = streamed[r] \o pending[r]
      BY <1>1, TakeOne
    <3> QED
      BY <2>1, <3>1, <3>2 DEF Stream
  <2>2. CASE t # r
    BY <1>1, <1>2, <2>2 DEF Stream
  <2> QED
    BY <2>1, <2>2
<1>4. \A t \in Req : /\ loop'[t] # loop[t] => Active(t) /\ loop'[t] # "idle"
                     /\ loop'[t] \notin {"failed", "gone"} => loop[t] \notin {"failed", "gone"}
                     /\ Concluded(t)' => Concluded(t)
  BY <1>1, <1>2 DEF Active, Concluded
<1>5. \A t \in Req : loop'[t] \notin {"failed", "gone"} => Stream(t)' = response_text'[t]
  BY <1>2, <1>3, <1>4 DEF SoloOK
<1>6. \A t \in Req : Added(t)' <=> Added(t)
  BY <1>2 DEF Added
<1> QED
  BY <1>2, <1>4, <1>5, <1>6, SoloKept

LEMMA SoloStep ==
  ASSUME TypeInv, StreamsOK, HistoriesOK, SoloOK, [Next /\ Alone]_vars
  PROVE  SoloOK'
<1>1. /\ status \in [Req -> Status] /\ loop \in [Req -> LoopState]
  BY DEF TypeInv, TypeOK, SchedulerTypeOK, ReplyTypeOK
<1>2. ASSUME NEW r \in Req, Cancel(r) \/ Finish(r) \/ Disconnect(r) PROVE SoloOK'
  <2>1. UNCHANGED <<response_text, streamed, pending, created_ts, input_ids>>
    BY <1>2 DEF Cancel, Finish, Disconnect, FinishSequence, CancelSequence, schedulerVars,
                replyVars
  <2>2. /\ \A t \in Req : Added(t)' <=> Added(t)
        /\ \A t \in Req : loop'[t] # loop[t] => Active(t) /\ loop'[t] # "idle"
        /\ \A t \in Req : loop'[t] \notin {"failed", "gone"} => loop[t] \notin {"failed", "gone"}
        /\ \A t \in Req : Concluded(t)' /\ ~ Active(t) => Concluded(t)
    <3>1. CASE Cancel(r)
      BY <1>1, <3>1 DEF Cancel, CancelSequence, Live, Added, Concluded
    <3>2. CASE Finish(r)
      BY <1>1, <3>2 DEF Finish, schedulerVars, Added, Active, Concluded
    <3>3. CASE Disconnect(r)
      BY <1>1, <3>3 DEF Disconnect, schedulerVars, Added, Active, Concluded
    <3> QED
      BY <1>2, <3>1, <3>2, <3>3
  <2>3. \A t \in Req : loop'[t] \notin {"failed", "gone"} => Stream(t)' = response_text'[t]
    BY <2>1, <2>2 DEF SoloOK, Stream
  <2> QED
    BY <2>1, <2>2, <2>3, SoloKept
<1>3. ASSUME UNCHANGED vars PROVE SoloOK'
  <2>1. UNCHANGED <<status, loop, response_text, streamed, pending, created_ts, input_ids>>
    BY <1>3 DEF vars, schedulerVars, loopVars, replyVars
  <2> QED
    BY <2>1, SoloKept DEF Added, Concluded, Stream, SoloOK
<1> QED
  BY <1>2, <1>3, AddRequestSolo, TurnSolo, YieldSolo
     DEF Next, LoopStep, CancelById, CancelBySession

SoloInv == TypeInv /\ StreamsOK /\ HistoriesOK /\ SoloOK

LEMMA SoloInvHolds == SoloSpec => []SoloInv
<1>1. Init => SoloInv
  <2> SUFFICES ASSUME Init PROVE StreamsOK /\ HistoriesOK /\ SoloOK
    BY InitTypeInv DEF SoloInv
  <2>1. StreamsOK
    BY InitStreams
  <2>2. HistoriesOK
    BY InitHistories
  <2>3. SoloOK
    <3>1. ASSUME NEW r \in Req
          PROVE  ~ Added(r) /\ loop[r] = "idle" /\ Stream(r) = response_text[r]
      <4>1. /\ streamed[r] = <<>> /\ pending[r] = <<>> /\ response_text[r] = <<>>
            /\ loop[r] = "idle" /\ status[r] = "none"
        BY DEF Init, SchedulerInit
      <4>2. <<>> \o <<>> = <<>>
        BY EmptySeq, ConcatEmptySeq
      <4> QED
        BY <4>1, <4>2 DEF Stream, Added
    <3> QED
      BY <3>1 DEF SoloOK, ContextHasReplies, Active
  <2> QED
    BY <2>1, <2>2, <2>3
<1>2. SoloInv /\ [Next /\ Alone]_vars => SoloInv'
  <2> SUFFICES ASSUME SoloInv, [Next /\ Alone]_vars PROVE SoloInv'
    OBVIOUS
  <2>1. [Next]_vars
    OBVIOUS
  <2> QED
    BY <2>1, NextTypeInv, StreamsStep, HistoriesStep, SoloStep DEF SoloInv
<1> QED
  BY <1>1, <1>2, PTL DEF SoloSpec

\* A user who sends a request only when no stream is open gets every reply
\* whole, whatever was cancelled or abandoned before.
THEOREM SoloStreamsComplete == SoloSpec => []StreamComplete
<1>1. SoloInv => StreamComplete
  <2> SUFFICES ASSUME SoloInv, NEW r \in Req, loop[r] = "done"
               PROVE  streamed[r] = response_text[r]
    BY DEF StreamComplete
  <2>1. streamed[r] \in Seq(Word) /\ pending[r] = <<>> /\ Stream(r) = response_text[r]
    BY DEF SoloInv, SoloOK, StreamsOK, TypeInv, TypeOK, ReplyTypeOK
  <2> QED
    BY <2>1, ConcatEmptySeq DEF Stream
<1> QED
  BY <1>1, SoloInvHolds, PTL

\* And the prompt of each of its requests has the replies of all the earlier
\* requests of the session that finished.
THEOREM SoloContextComplete == SoloSpec => []ContextHasReplies
<1>1. SoloInv => ContextHasReplies
  BY DEF SoloInv, SoloOK
<1> QED
  BY <1>1, SoloInvHolds, PTL
=============================================================================
