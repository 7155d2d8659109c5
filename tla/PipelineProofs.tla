----------------------------- MODULE PipelineProofs -----------------------------
(***************************************************************************)
(* Theorems about Pipeline: whatever the chain of middleware and the       *)
(* request, the answer arrives. The steps of the writers are those of      *)
(* PipelineCalls; here are the steps of the layers and of the handler.     *)
(***************************************************************************)
EXTENDS PipelineCalls

-----------------------------------------------------------------------------
(* The beginning of an answer.                                              *)

\* Nothing has come to the writers up to the place t, nor to net/http.
Untouched(t) ==
    /\ wire.status = 0 /\ wire.body = <<>>
    /\ \A k \in 1..t : /\ ~Told(k) /\ writers[k].status = 200
                       /\ Compresses(k) => ~writers[k].on /\ writers[k].buf = <<>> /\ writers[k].held = <<>>
                       /\ ~Compresses(k) => writers[k].bytes = 0

\* Nothing has been said, or a status at the place t and perhaps a body.
Silent(t)   == /\ phase = "handling" /\ t = Len(writers) /\ calls = <<>> /\ said.status = 0 /\ said.body = <<>>
Answered(t) == /\ said.status # 0 /\ Len(calls) \in {1, 2} /\ \A i \in DOMAIN calls : calls[i].at = t
               /\ Does(1, "header") /\ calls[1].call.code = Want
               /\ Len(calls) = 1 => said.body = <<>>
               /\ Len(calls) = 2 => /\ Does(2, "bytes") /\ calls[2].call.pieces = said.body
                                    /\ Numbered(said.body, 0, 0) /\ headers.encoding = "none"
Opening(t) ==
    /\ PipeTypes /\ Live(t) /\ Untouched(t) /\ ~said.pushed /\ (Silent(t) \/ Answered(t))

\* What is known of writers nothing has come to.
LEMMA UntouchedIs ==
    ASSUME PipeTypes, NEW t \in Nat, t <= Len(writers), Untouched(t)
    PROVE  /\ \A k \in 0..t : ~Told(k)
           /\ \A k \in 1..t : /\ writers[k].status = 200 /\ Stored(k) = <<>> /\ ~Works(k)
                              /\ ~Compresses(k) => ~writers[k].wrote /\ writers[k].bytes = 0
           /\ headers.encoding = "none" => \A k \in 0..t : Gz(k) = 0
           /\ \A j, k \in 0..t : Gz(j) = Gz(k)
<1>1. Len(writers) \in Nat /\ \A k \in 1..t : k \in 1..Len(writers) /\ k # 0
  BY WriterTypes
<1>2. \A k \in 0..t : ~Told(k)
  <2>1. ~Told(0)
    BY DEF Untouched, Told
  <2>2. \A k \in 0..t : k = 0 \/ k \in 1..t
    OBVIOUS
  <2> QED  BY <2>1, <2>2 DEF Untouched
<1>3. ASSUME NEW k \in 1..t
      PROVE  /\ writers[k].status = 200 /\ Stored(k) = <<>> /\ ~Works(k)
             /\ ~Compresses(k) => ~writers[k].wrote /\ writers[k].bytes = 0
  <2>1. /\ ~Told(k) /\ writers[k].status = 200
        /\ Compresses(k) => ~writers[k].on /\ writers[k].buf = <<>> /\ writers[k].held = <<>>
        /\ ~Compresses(k) => writers[k].bytes = 0
    BY DEF Untouched
  <2> QED  BY <1>1, <2>1 DEF Stored, Works, Told
<1>4. headers.encoding = "none" => \A k \in 0..t : Gz(k) = 0
  BY DEF Gz
<1>5. \A j, k \in 0..t : Gz(j) = Gz(k)
  <2>1. \A j \in 0..t : \A m \in 1..j : m \in 1..t
    OBVIOUS
  <2>2. \A j \in 0..t : \A m \in 1..j : ~Works(m)
    BY <1>3, <2>1
  <2> QED  BY <2>2 DEF Gz
<1> QED  BY <1>2, <1>3, <1>4, <1>5

\* The first calls of an answer are in order.
LEMMA OpeningInOrder ==
    ASSUME NEW t \in Nat, Opening(t)
    PROVE  InOrder(t)
<1>1. CASE Silent(t)
  <2>1. DOMAIN calls = {}
    BY <1>1 DEF Silent
  <2> QED  BY <2>1 DEF InOrder
<1>2. CASE Answered(t)
  <2>1. /\ said.status # 0 /\ Len(calls) \in {1, 2} /\ \A i \in DOMAIN calls : calls[i].at = t
        /\ Does(1, "header") /\ calls[1].call.code = Want
        /\ Len(calls) = 2 => Does(2, "bytes")
    BY <1>2 DEF Answered
  <2>2. DOMAIN calls = 1..Len(calls)
    BY CallTypes DEF Opening
  <2>3. ~Told(t)
    <3>1. t <= Len(writers) /\ t \in 0..t
      <4>1. Len(writers) \in Nat
        BY WriterTypes DEF Opening
      <4> QED  BY <4>1 DEF Opening, Live
    <3> QED  BY <3>1, UntouchedIs DEF Opening
  <2>4. HeaderComes(t)
    <3>1. 1 \in DOMAIN calls
      BY <2>1, <2>2
    <3>2. calls # <<>> /\ calls[1].at >= t
      BY <2>1, <3>1
    <3> QED  BY <2>1, <3>2 DEF HeaderComes
  <2>5. \A m \in (t + 1)..(t + 1) : Tells(t, m)
    BY <2>1 DEF Tells
  <2>6. \A i \in DOMAIN calls : i = 1 \/ (i = 2 /\ Len(calls) = 2)
    BY <2>1, <2>2
  <2>7. \A i \in DOMAIN calls : Allowed(t, i, t)
    <3> TAKE i \in DOMAIN calls
    <3>1. CASE i = 1
      BY <2>1, <2>3, <2>5, <3>1 DEF Allowed, Does
    <3>2. CASE i = 2 /\ Len(calls) = 2
      BY <2>1, <2>4, <2>5, <3>2 DEF Allowed, Does
    <3> QED  BY <2>6, <3>1, <3>2
  <2>8. \A i, j \in DOMAIN calls : i < j => Rank(calls[i].call.do) < Rank(calls[j].call.do)
    <3> SUFFICES ASSUME NEW i \in DOMAIN calls, NEW j \in DOMAIN calls, i < j
                PROVE  Rank(calls[i].call.do) < Rank(calls[j].call.do)
      OBVIOUS
    <3>1. i = 1 /\ j = 2 /\ Len(calls) = 2
      BY <2>6
    <3>2. calls[i].call.do = "header" /\ calls[j].call.do = "bytes"
      BY <2>1, <3>1 DEF Does
    <3> QED  BY <3>2 DEF Rank
  <2>9. \A i \in DOMAIN calls : calls[i].at <= t
    BY <2>1
  <2>10. \A i \in DOMAIN calls : \A k \in 0..t : calls[i].at = k => Allowed(t, i, k)
    BY <2>1, <2>7
  <2>11. \A i, j \in DOMAIN calls : calls[i].at <= calls[j].at
    BY <2>1
  <2> QED  BY <2>8, <2>9, <2>10, <2>11 DEF InOrder
<1> QED  BY <1>1, <1>2 DEF Opening

\* At the beginning of an answer no status has gone down.
LEMMA OpeningGoesDown ==
    ASSUME NEW t \in Nat, Opening(t)
    PROVE  GoesDown(t) /\ StatusIs(t)
<1>1. Len(writers) \in Nat /\ t <= Len(writers) /\ PipeTypes /\ Untouched(t)
  <2>1. Len(writers) \in Nat
    BY WriterTypes DEF Opening
  <2> QED  BY <2>1 DEF Opening, Live
<1>2. /\ \A k \in 0..t : ~Told(k)
      /\ \A k \in 1..t : /\ writers[k].status = 200
                         /\ ~Compresses(k) => ~writers[k].wrote
  BY <1>1, UntouchedIs
<1>3. \A k \in 0..t : ~Tells(t, k)
  BY <1>2 DEF Tells
<1>4. Tells(t, t + 1) => Stops(t)
  <2>1. CASE Silent(t)
    BY <2>1 DEF Silent, Tells
  <2>2. CASE Answered(t)
    <3>1. 1 \in DOMAIN calls /\ calls[1].at = t
      <4>1. DOMAIN calls = 1..Len(calls) /\ Len(calls) \in {1, 2}
        BY <1>1, <2>2, CallTypes DEF Answered
      <4> QED  BY <2>2, <4>1 DEF Answered
    <3> QED  BY <3>1 DEF Stops
  <2> QED  BY <2>1, <2>2 DEF Opening
<1>5. GoesDown(t)
  <2> SUFFICES ASSUME NEW j \in 0..(t + 1), NEW k \in 0..(t + 1), j < k
              PROVE  /\ Tells(t, j) => Tells(t, k)
                     /\ Tells(t, k) => Told(j) \/ \E m \in j..(k - 1) : Stops(m)
    BY DEF GoesDown
  <2>1. j \in 0..t
    OBVIOUS
  <2>2. Tells(t, k) => k = t + 1
    BY <1>3
  <2>3. k = t + 1 => t \in j..(k - 1)
    OBVIOUS
  <2> QED  BY <1>3, <1>4, <2>1, <2>2, <2>3
<1>6. \A k \in 1..t : Waits(k) => writers[k].status = Want \/ (writers[k].status = 200 /\ HeaderComes(k))
  <2>1. CASE Silent(t)
    <3>1. Want = 200
      BY <2>1 DEF Silent, Want
    <3> QED  BY <1>2, <3>1
  <2>2. CASE Answered(t)
    <3>1. 1 \in DOMAIN calls /\ calls[1].at = t /\ Does(1, "header")
      <4>1. DOMAIN calls = 1..Len(calls) /\ Len(calls) \in {1, 2}
        BY <1>1, <2>2, CallTypes DEF Answered
      <4> QED  BY <2>2, <4>1 DEF Answered
    <3>2. \A k \in 1..t : HeaderComes(k)
      <4>1. calls # <<>>
        BY <3>1
      <4>2. \A k \in 1..t : t >= k
        OBVIOUS
      <4> QED  BY <3>1, <4>1, <4>2 DEF HeaderComes
    <3> QED  BY <1>2, <3>2
  <2> QED  BY <2>1, <2>2 DEF Opening
<1>7. wire.status = 0
  BY <1>1 DEF Untouched
<1>8. StatusIs(t)
  BY <1>2, <1>6, <1>7 DEF StatusIs
<1> QED  BY <1>5, <1>8

\* At the beginning of an answer its pieces are where they are said.
LEMMA OpeningPieces ==
    ASSUME NEW t \in Nat, Opening(t), NEW got, NEW sent,
           got = [k \in 0..t |-> 0], sent = [k \in 0..t |-> IF k = t THEN Len(said.body) ELSE 0]
    PROVE  Pieces(t, got, sent) /\ Compressing(t) /\ SaidIs(t) /\ Flushes(t, sent)
<1>1. Len(writers) \in Nat /\ t <= Len(writers) /\ PipeTypes /\ Untouched(t) /\ ~said.pushed
  <2>1. Len(writers) \in Nat
    BY WriterTypes DEF Opening
  <2> QED  BY <2>1 DEF Opening, Live
<1>2. /\ \A k \in 0..t : ~Told(k)
      /\ \A k \in 1..t : /\ writers[k].status = 200 /\ Stored(k) = <<>> /\ ~Works(k)
                         /\ ~Compresses(k) => ~writers[k].wrote /\ writers[k].bytes = 0
      /\ headers.encoding = "none" => \A k \in 0..t : Gz(k) = 0
  BY <1>1, UntouchedIs
<1>3. said.body \in Seq(Piece) /\ Len(said.body) \in Nat /\ said.status \in Nat /\ DOMAIN calls = 1..Len(calls)
  BY <1>1, CallTypes DEF PipeTypes
<1>4. \/ calls = <<>> /\ said.body = <<>> /\ said.status = 0 /\ phase = "handling"
      \/ /\ said.status # 0 /\ Len(calls) = 1 /\ said.body = <<>> /\ Does(1, "header")
      \/ /\ said.status # 0 /\ Len(calls) = 2 /\ Does(1, "header") /\ Does(2, "bytes")
         /\ calls[1].at = t /\ calls[2].at = t
         /\ calls[2].call.pieces = said.body /\ Numbered(said.body, 0, 0) /\ headers.encoding = "none"
  <2>1. CASE Silent(t)
    BY <2>1 DEF Silent
  <2>2. CASE Answered(t)
    <3>1. Len(calls) = 2 => calls[1].at = t /\ calls[2].at = t
      BY <1>3, <2>2 DEF Answered
    <3> QED  BY <2>2, <3>1 DEF Answered
  <2> QED  BY <2>1, <2>2 DEF Opening
<1>5. /\ got \in [0..t -> Nat] /\ sent \in [0..t -> Nat]
      /\ \A k \in 0..t : got[k] = 0 /\ (k # t => sent[k] = 0)
      /\ sent[t] = Len(said.body)
  BY <1>3
<1>6. ASSUME NEW i \in DOMAIN calls, Does(i, "bytes")
      PROVE  /\ i = 2 /\ Len(calls) = 2 /\ calls[i].at = t /\ calls[i].call.pieces = said.body
             /\ Numbered(said.body, 0, 0) /\ headers.encoding = "none"
  BY <1>3, <1>4, <1>6 DEF Does
<1>7. \A k \in 0..t : got[k] = sent[k] \/ \E i \in DOMAIN calls : calls[i].at = k /\ Does(i, "bytes")
  <2> TAKE k \in 0..t
  <2>1. CASE k # t
    BY <1>5, <2>1
  <2>2. CASE k = t /\ said.body = <<>>
    BY <1>5, <2>2
  <2>3. CASE k = t /\ said.body # <<>>
    <3>1. Len(calls) = 2 /\ Does(2, "bytes") /\ calls[2].at = t
      BY <1>4, <2>3
    <3>2. 2 \in DOMAIN calls
      BY <1>3, <3>1
    <3> QED  BY <2>3, <3>1, <3>2
  <2> QED  BY <2>1, <2>2, <2>3
<1>8. \A i \in DOMAIN calls : \A k \in 0..t : calls[i].at = k /\ Does(i, "bytes") =>
          /\ got[k] + Len(calls[i].call.pieces) = sent[k]
          /\ Numbered(calls[i].call.pieces, got[k], Gz(k))
  <2> SUFFICES ASSUME NEW i \in DOMAIN calls, NEW k \in 0..t, calls[i].at = k, Does(i, "bytes")
              PROVE  /\ got[k] + Len(calls[i].call.pieces) = sent[k]
                     /\ Numbered(calls[i].call.pieces, got[k], Gz(k))
    OBVIOUS
  <2>1. k = t /\ calls[i].call.pieces = said.body /\ Numbered(said.body, 0, 0) /\ Gz(k) = 0 /\ got[k] = 0
    BY <1>2, <1>5, <1>6
  <2> QED  BY <1>3, <1>5, <2>1
<1>9. ASSUME NEW k \in 1..t
      PROVE  /\ sent[k - 1] + Len(Stored(k)) = got[k]
             /\ Numbered(Stored(k), sent[k - 1], IF Works(k) THEN 1 ELSE Gz(k))
             /\ ~Told(k) => sent[k - 1] = 0
             /\ ~Compresses(k) => writers[k].bytes = IF Gz(k) = 1 THEN got[k] ELSE 2 * got[k]
  <2>1. k - 1 \in 0..t /\ k - 1 # t /\ k \in 0..t
    OBVIOUS
  <2>2. sent[k - 1] = 0 /\ got[k] = 0 /\ Stored(k) = <<>>
    BY <1>2, <1>5, <2>1
  <2> QED  BY <1>2, <2>2 DEF Numbered
<1>10. Len(wire.body) = got[0] /\ Numbered(wire.body, 0, Gz(0))
  <2>1. wire.body = <<>> /\ got[0] = 0
    BY <1>1, <1>5 DEF Untouched
  <2> QED  BY <2>1 DEF Numbered
<1>11. Pieces(t, got, sent)
  BY <1>5, <1>7, <1>8, <1>9, <1>10 DEF Pieces
<1>12. Compressing(t)
  <2>1. \A k \in 1..t : Compresses(k) => ~writers[k].on /\ writers[k].buf = <<>> /\ writers[k].held = <<>>
    BY <1>1 DEF Untouched
  <2> QED  BY <1>2, <2>1 DEF Compressing
<1>13. SaidIs(t)
  <2>1. said.body # <<>> => Numbered(said.body, 0, 0) /\ headers.encoding = "none" /\ said.status # 0
    BY <1>4
  <2>2. said.body # <<>> => \A x \in DOMAIN said.body : said.body[x].gz = 0
    BY <2>1 DEF Numbered
  <2>3. said.body # <<>> => \A k \in 0..t : Gz(k) = 0
    BY <1>2, <2>1
  <2>4. said.status = 0 => phase = "handling"
    BY <1>4
  <2> QED  BY <1>1, <1>4, <2>2, <2>3, <2>4 DEF SaidIs
<1>14. Flushes(t, sent)
  BY <1>1 DEF Flushes
<1> QED  BY <1>11, <1>12, <1>13, <1>14

\* An answer that begins flows.
LEMMA OpeningFlow ==
    \A t \in Nat : Opening(t) => \E got, sent \in [0..t -> Nat] : Flow(t, got, sent)
<1> SUFFICES ASSUME NEW t \in Nat, Opening(t)
            PROVE  \E got, sent \in [0..t -> Nat] : Flow(t, got, sent)
  OBVIOUS
<1>1. PICK got, sent : got = [k \in 0..t |-> 0] /\ sent = [k \in 0..t |-> IF k = t THEN Len(said.body) ELSE 0]
  OBVIOUS
<1>2. Pieces(t, got, sent) /\ Compressing(t) /\ SaidIs(t) /\ Flushes(t, sent)
  BY <1>1, OpeningPieces
<1>3. InOrder(t) /\ GoesDown(t) /\ StatusIs(t) /\ Live(t)
  BY OpeningInOrder, OpeningGoesDown DEF Opening
<1>4. got \in [0..t -> Nat] /\ sent \in [0..t -> Nat]
  BY <1>2 DEF Pieces
<1> QED  BY <1>2, <1>3, <1>4 DEF Flow

\* The beginning of an answer, in the next state.
LEMMA OpeningFlows ==
    (\A t \in Nat : Opening(t) => \E got, sent \in [0..t -> Nat] : Flow(t, got, sent))'
BY OpeningFlow, PTL

\* As long as nothing has been said nothing has come anywhere.
LEMMA NothingSaid ==
    ASSUME PipeTypes, NEW T \in Nat, NEW got, NEW sent, Flow(T, got, sent), calls = <<>>, said.status = 0,
           T = Len(writers)
    PROVE  Untouched(T) /\ said.body = <<>> /\ ~said.pushed /\ \A k \in 0..T : got[k] = 0 /\ sent[k] = 0
<1>1. /\ InOrder(T) /\ GoesDown(T) /\ StatusIs(T) /\ Pieces(T, got, sent) /\ Compressing(T) /\ SaidIs(T)
  BY DEF Flow
<1>2. said.body = <<>> /\ ~said.pushed
  BY <1>1 DEF SaidIs
<1>3. \A k \in 0..T : ~Told(k)
  <2>1. ~Tells(T, T + 1)
    BY DEF Tells
  <2>2. \A k \in 0..T : k \in 0..(T + 1) /\ k < T + 1 /\ k # T + 1
    OBVIOUS
  <2>3. T + 1 \in 0..(T + 1)
    OBVIOUS
  <2>4. \A k \in 0..T : Tells(T, k) => Tells(T, T + 1)
    BY <1>1, <2>2, <2>3 DEF GoesDown
  <2> QED  BY <2>1, <2>2, <2>4 DEF Tells
<1>4. DOMAIN calls = {}
  OBVIOUS
<1>5. got \in [0..T -> Nat] /\ sent \in [0..T -> Nat] /\ sent[T] = 0
  BY <1>1, <1>2 DEF Pieces
<1>6. \A k \in 1..T : k # 0 /\ k \in 0..T /\ k - 1 \in 0..T
  OBVIOUS
<1>7. \A k \in 1..T : Stored(k) = <<>> /\ sent[k - 1] = 0
  <2> TAKE k \in 1..T
  <2>1. sent[k - 1] = 0
    BY <1>1, <1>3, <1>6 DEF Pieces
  <2>2. Stored(k) = <<>>
    <3>1. CASE Compresses(k)
      BY <1>1, <3>1 DEF Compressing
    <3>2. CASE ~Compresses(k)
      BY <3>2 DEF Stored
    <3> QED  BY <3>1, <3>2
  <2> QED  BY <2>1, <2>2
<1>8. \A k \in 0..T : sent[k] = 0
  <2>1. \A k \in 0..T : k = T \/ (k + 1 \in 1..T /\ (k + 1) - 1 = k)
    OBVIOUS
  <2> QED  BY <1>5, <1>7, <2>1
<1>9. \A k \in 0..T : got[k] = 0
  BY <1>1, <1>4, <1>8 DEF Pieces
<1>10. wire.status = 0 /\ wire.body = <<>>
  <2>1. ~Told(0) /\ Len(wire.body) = got[0] /\ got[0] = 0
    BY <1>1, <1>3, <1>9 DEF Pieces
  <2>2. wire.body \in Seq(Piece)
    BY DEF PipeTypes
  <2> QED  BY <2>1, <2>2 DEF Told
<1>11. ASSUME NEW k \in 1..T
       PROVE  /\ ~Told(k) /\ writers[k].status = 200
              /\ Compresses(k) => ~writers[k].on /\ writers[k].buf = <<>> /\ writers[k].held = <<>>
              /\ ~Compresses(k) => writers[k].bytes = 0
  <2>1. ~Told(k) /\ got[k] = 0 /\ Stored(k) = <<>>
    BY <1>3, <1>6, <1>7, <1>9
  <2>2. CASE Compresses(k)
    <3>1. ~writers[k].decided /\ Waits(k)
      BY <1>6, <2>1, <2>2 DEF Told, Waits
    <3>2. ~writers[k].on /\ writers[k].held = <<>>
      BY <1>1, <2>2, <3>1 DEF Compressing
    <3>3. writers[k].buf = <<>>
      BY <2>1, <2>2, <3>1 DEF Stored
    <3>4. writers[k].status = 200
      BY <1>1, <3>1 DEF StatusIs, Want
    <3> QED  BY <2>1, <2>2, <3>2, <3>3, <3>4
  <2>3. CASE ~Compresses(k)
    <3>1. ~writers[k].wrote
      BY <1>6, <2>1, <2>3 DEF Told
    <3>2. writers[k].status = 200
      BY <1>1, <2>3, <3>1 DEF StatusIs
    <3>3. writers[k].bytes = IF Gz(k) = 1 THEN got[k] ELSE 2 * got[k]
      BY <1>1, <2>3 DEF Pieces
    <3> QED  BY <2>1, <2>3, <3>2, <3>3
  <2> QED  BY <2>2, <2>3
<1> QED  BY <1>2, <1>8, <1>9, <1>10, <1>11 DEF Untouched

\* The handler writes or flushes: the call is made on the writer on top.
Speaks(T, got, sent, sent2) ==
    /\ T \in Nat /\ T = Len(writers) /\ phase = "handling" /\ calls = <<>>
    /\ UNCHANGED <<chain, request, phase, layer, tops, writers, headers, wire, panic>>
    /\ Len(calls') = 1 /\ DOMAIN calls' = {1} /\ calls'[1].at = T
    /\ said'.status = Want /\ said'.body \in Seq(Piece)
    /\ got \in [0..T -> Nat] /\ sent \in [0..T -> Nat]
    /\ \A x \in DOMAIN said.body : x \in DOMAIN said'.body /\ said'.body[x] = said.body[x]
    /\ \/ /\ Does(1, "bytes")' /\ said'.pushed = said.pushed /\ said'.flushed = said.flushed
          /\ sent2 = [sent EXCEPT ![T] = Len(said'.body)] /\ Len(said'.body) \in Nat
          /\ Len(said.body) + Len(calls'[1].call.pieces) = Len(said'.body)
          /\ Numbered(calls'[1].call.pieces, Len(said.body), Gz(T))
          /\ \A x \in DOMAIN said'.body : x \notin DOMAIN said.body => said'.body[x].gz = Gz(T)
       \/ /\ Does(1, "flush")' /\ said'.body = said.body /\ said'.flushed = Len(said.body) /\ sent2 = sent

\* What stays as it is when more is said.
LEMMA SpeaksKeep ==
    ASSUME PipeTypes, NEW T, NEW got, NEW sent, NEW sent2, Speaks(T, got, sent, sent2)
    PROVE  /\ \A k : /\ (Compresses(k)' <=> Compresses(k)) /\ (Works(k)' <=> Works(k)) /\ (Waits(k)' <=> Waits(k))
                     /\ Stored(k)' = Stored(k) /\ Gz(k)' = Gz(k) /\ (Told(k)' <=> Told(k))
                     /\ (k # T + 1 => (Tells(T, k)' <=> Told(k)))
           /\ Tells(T, T + 1)' /\ Want' = Want /\ said'.status # 0 /\ Want # 0
           /\ ~Does(1, "header")' /\ ~Does(1, "close")'
<1>1. /\ T \in Nat /\ T = Len(writers) /\ writers' = writers /\ headers' = headers /\ wire' = wire
      /\ said'.status = Want /\ (Does(1, "bytes")' \/ Does(1, "flush")')
  BY DEF Speaks
<1>2. \A k : (Compresses(k)' <=> Compresses(k))
  BY <1>1 DEF Compresses
<1>3. \A k : (Works(k)' <=> Works(k)) /\ (Waits(k)' <=> Waits(k))
  BY <1>1, <1>2 DEF Works, Waits
<1>4. \A k : Stored(k)' = Stored(k)
  BY <1>1, <1>2 DEF Stored
<1>5. \A k : Gz(k)' = Gz(k)
  BY <1>1, <1>3 DEF Gz
<1>6. \A k : Told(k)' <=> Told(k)
  BY <1>1, <1>2 DEF Told
<1>7. \A k : k # T + 1 => (Tells(T, k)' <=> Told(k))
  BY <1>6 DEF Tells
<1>8. Want # 0 /\ said'.status # 0
  BY <1>1 DEF Want, PipeTypes
<1>9. Tells(T, T + 1)' /\ Want' = Want
  BY <1>1, <1>8 DEF Tells, Want
<1>10. ~Does(1, "header")' /\ ~Does(1, "close")'
  BY <1>1 DEF Does
<1> QED  BY <1>2, <1>3, <1>4, <1>5, <1>6, <1>7, <1>8, <1>9, <1>10

\* More that is said is in order.
LEMMA SpeaksOrder ==
    ASSUME PipeTypes, NEW T, NEW got, NEW sent, NEW sent2, Speaks(T, got, sent, sent2), Flow(T, got, sent)
    PROVE  Live(T)' /\ InOrder(T)' /\ GoesDown(T)' /\ StatusIs(T)'
<1>1. /\ T \in Nat /\ T = Len(writers) /\ calls = <<>> /\ writers' = writers /\ headers' = headers /\ wire' = wire
      /\ chain' = chain /\ phase' = phase /\ layer' = layer /\ tops' = tops
      /\ DOMAIN calls' = {1} /\ calls'[1].at = T /\ said'.status = Want
  BY DEF Speaks
<1>2. /\ \A k : /\ (Compresses(k)' <=> Compresses(k)) /\ (Works(k)' <=> Works(k)) /\ (Waits(k)' <=> Waits(k))
                /\ Stored(k)' = Stored(k) /\ Gz(k)' = Gz(k) /\ (Told(k)' <=> Told(k))
                /\ (k # T + 1 => (Tells(T, k)' <=> Told(k)))
      /\ Tells(T, T + 1)' /\ Want' = Want /\ said'.status # 0 /\ Want # 0
      /\ ~Does(1, "header")' /\ ~Does(1, "close")'
  BY SpeaksKeep
<1>3. Live(T) /\ InOrder(T) /\ GoesDown(T) /\ StatusIs(T)
  BY DEF Flow
<1>4. DOMAIN calls = {}
  BY <1>1
<1>5. Live(T)'
  <2>1. \A k : ~Closing(k)
    BY <1>1 DEF Closing
  <2>2. \A k \in 1..T : Compresses(k)' => \E i \in DOMAIN tops : i <= layer /\ chain[i] = "compress" /\ tops[i] = k
    BY <1>2, <1>3, <2>1 DEF Live
  <2>3. /\ T \in 0..Len(writers)
        /\ \A i \in DOMAIN tops : i <= layer => tops[i] <= T
        /\ \A k \in (T + 1)..Len(writers) : Compresses(k)' =>
              \E i \in DOMAIN tops : i > layer /\ chain[i] = "compress" /\ tops[i] = k
    BY <1>2, <1>3 DEF Live
  <2> QED  BY <1>1, <1>2, <2>2, <2>3 DEF Live
<1>6. said.status # 0 => Told(T) \/ Waits(T)
  <2> SUFFICES ASSUME said.status # 0
              PROVE  Told(T) \/ Waits(T)
    OBVIOUS
  <2>1. Tells(T, T + 1)
    BY DEF Tells
  <2>2. T \in 0..(T + 1) /\ T + 1 \in 0..(T + 1) /\ T < T + 1 /\ \A m \in T..((T + 1) - 1) : m = T
    BY <1>1
  <2>3. Told(T) \/ \E m \in T..((T + 1) - 1) : Stops(m)
    BY <1>3, <2>1, <2>2 DEF GoesDown
  <2>4. Told(T) \/ Stops(T)
    BY <2>2, <2>3
  <2> QED  BY <1>4, <2>4 DEF Stops
<1>7. InOrder(T)'
  <2>1. Allowed(T, 1, T)'
    <3>1. Told(T)' \/ Waits(T)' \/ Want' = 200
      <4>1. CASE said.status = 0
        BY <1>2, <4>1 DEF Want
      <4>2. CASE said.status # 0
        BY <1>2, <1>6, <4>2
      <4> QED  BY <4>1, <4>2
    <3>2. \A m \in (T + 1)..(T + 1) : Tells(T, m)'
      <4>1. \A m \in (T + 1)..(T + 1) : m = T + 1
        BY <1>1
      <4> QED  BY <1>2, <4>1
    <3> QED  BY <1>2, <3>1, <3>2 DEF Allowed
  <2>2. \A i \in DOMAIN calls' : i = 1 /\ calls'[i].at = T
    BY <1>1
  <2>3. \A i \in DOMAIN calls' : \A k \in 0..T : calls'[i].at = k => Allowed(T, i, k)'
    <3>1. ASSUME NEW i \in DOMAIN calls', NEW k \in 0..T, calls'[i].at = k
          PROVE  Allowed(T, i, k)'
      <4>1. i = 1 /\ k = T
        BY <2>2, <3>1
      <4> QED  BY <2>1, <4>1
    <3> QED  BY <3>1
  <2>4. \A i \in DOMAIN calls' : calls'[i].at <= T
    BY <1>1, <2>2
  <2>5. \A i, j \in DOMAIN calls' : ~(i < j)
    BY <2>2
  <2> QED  BY <2>3, <2>4, <2>5 DEF InOrder
<1>8. GoesDown(T)'
  <2>1. Stops(T)'
    BY <1>1 DEF Stops
  <2>2. \A m : Waits(m) => Stops(m)'
    BY <1>2 DEF Stops
  <2>3. ASSUME NEW j \in 0..(T + 1), NEW k \in 0..(T + 1), j < k
        PROVE  /\ Tells(T, j)' => Tells(T, k)'
               /\ Tells(T, k)' => Told(j)' \/ \E m \in j..(k - 1) : Stops(m)'
    <3>1. CASE k = T + 1
      <4>1. T \in j..(k - 1)
        BY <1>1, <2>3, <3>1
      <4> QED  BY <1>2, <2>1, <3>1, <4>1
    <3>2. CASE k # T + 1
      <4>1. j # T + 1
        BY <1>1, <2>3
      <4>2. /\ Told(j) => Told(k)
            /\ Told(k) => Told(j) \/ \E m \in j..(k - 1) : Stops(m)
        BY <1>3, <2>3, <3>2, <4>1 DEF GoesDown, Tells
      <4>3. \A m : Stops(m) => Waits(m)
        BY <1>4 DEF Stops
      <4> QED  BY <1>2, <2>2, <3>2, <4>1, <4>2, <4>3
    <3> QED  BY <3>1, <3>2
  <2> QED  BY <2>3 DEF GoesDown
<1>9. StatusIs(T)'
  <2>1. \A k : ~HeaderComes(k)
    BY <1>1 DEF HeaderComes
  <2>2. \A k \in 1..T : ~Compresses(k)' => writers'[k].status = IF writers'[k].wrote THEN Want' ELSE 200
    BY <1>1, <1>2, <1>3 DEF StatusIs
  <2>3. \A k \in 1..T : Waits(k)' =>
          \/ writers'[k].status = Want'
          \/ writers'[k].status = 200 /\ \E m \in (k + 1)..T : Waits(m)'
    BY <1>1, <1>2, <1>3, <2>1 DEF StatusIs
  <2>4. wire'.status # 0 => wire'.status = Want' /\ wire'.headers = headers'
    BY <1>1, <1>2, <1>3 DEF StatusIs
  <2> QED  BY <2>2, <2>3, <2>4 DEF StatusIs
<1> QED  BY <1>5, <1>7, <1>8, <1>9

\* The pieces of what is said come after the others.
LEMMA SpeaksPieces ==
    ASSUME PipeTypes, NEW T, NEW got, NEW sent, NEW sent2, Speaks(T, got, sent, sent2), Flow(T, got, sent)
    PROVE  Pieces(T, got, sent2)' /\ sent2 \in [0..T -> Nat]
<1>1. /\ T \in Nat /\ calls = <<>> /\ writers' = writers /\ wire' = wire
      /\ DOMAIN calls' = {1} /\ calls'[1].at = T
      /\ got \in [0..T -> Nat] /\ sent \in [0..T -> Nat]
  BY DEF Speaks
<1>2. \A k : /\ (Compresses(k)' <=> Compresses(k)) /\ (Works(k)' <=> Works(k))
             /\ Stored(k)' = Stored(k) /\ Gz(k)' = Gz(k) /\ (Told(k)' <=> Told(k))
  BY SpeaksKeep
<1>3. Pieces(T, got, sent)
  BY DEF Flow
<1>4. DOMAIN calls = {} /\ \A k \in 0..T : got[k] = sent[k]
  <2>1. DOMAIN calls = {}
    BY <1>1
  <2> QED  BY <1>3, <2>1 DEF Pieces
<1>5. sent[T] = Len(said.body) /\ T \in 0..T
  BY <1>1, <1>3 DEF Pieces
<1>6. /\ sent2 \in [0..T -> Nat] /\ sent2[T] = Len(said'.body)
      /\ \A k \in 0..T : k # T => sent2[k] = sent[k]
      /\ Does(1, "bytes")' => /\ sent[T] + Len(calls'[1].call.pieces) = sent2[T]
                              /\ Numbered(calls'[1].call.pieces, sent[T], Gz(T))
      /\ Does(1, "bytes")' \/ sent2 = sent
  <2>1. CASE /\ Does(1, "bytes")' /\ said'.pushed = said.pushed /\ said'.flushed = said.flushed
             /\ sent2 = [sent EXCEPT ![T] = Len(said'.body)] /\ Len(said'.body) \in Nat
             /\ Len(said.body) + Len(calls'[1].call.pieces) = Len(said'.body)
             /\ Numbered(calls'[1].call.pieces, Len(said.body), Gz(T))
    <3>1. sent2 \in [0..T -> Nat] /\ sent2[T] = Len(said'.body) /\ \A k \in 0..T : k # T => sent2[k] = sent[k]
      BY ONLY <1>1, <1>5, <2>1
    <3> QED  BY <1>5, <2>1, <3>1
  <2>2. CASE /\ Does(1, "flush")' /\ said'.body = said.body /\ sent2 = sent
    <3>1. ~Does(1, "bytes")'
      BY <2>2 DEF Does
    <3> QED  BY <1>1, <1>5, <2>2, <3>1
  <2> QED  BY <2>1, <2>2 DEF Speaks
<1>7. \A k \in 0..T : got[k] = sent2[k] \/ \E i \in DOMAIN calls' : calls'[i].at = k /\ Does(i, "bytes")'
  <2> TAKE k \in 0..T
  <2>1. CASE k # T \/ sent2 = sent
    BY <1>4, <1>6, <2>1
  <2>2. CASE k = T /\ Does(1, "bytes")'
    BY <1>1, <2>2
  <2> QED  BY <1>6, <2>1, <2>2
<1>8. \A i \in DOMAIN calls' : \A k \in 0..T : calls'[i].at = k /\ Does(i, "bytes")' =>
          /\ got[k] + Len(calls'[i].call.pieces) = sent2[k]
          /\ Numbered(calls'[i].call.pieces, got[k], Gz(k)')
  <2> SUFFICES ASSUME NEW i \in DOMAIN calls', NEW k \in 0..T, calls'[i].at = k, Does(i, "bytes")'
              PROVE  /\ got[k] + Len(calls'[i].call.pieces) = sent2[k]
                     /\ Numbered(calls'[i].call.pieces, got[k], Gz(k)')
    OBVIOUS
  <2>1. i = 1 /\ k = T
    BY <1>1
  <2>2. got[k] = sent[T] /\ Gz(k)' = Gz(T)
    BY <1>2, <1>4, <2>1
  <2> QED  BY <1>6, <2>1, <2>2
<1>9. ASSUME NEW k \in 1..T
      PROVE  /\ sent2[k - 1] + Len(Stored(k)') = got[k]
             /\ Numbered(Stored(k)', sent2[k - 1], IF Works(k)' THEN 1 ELSE Gz(k)')
             /\ ~Told(k)' => sent2[k - 1] = 0
             /\ ~Compresses(k)' => writers'[k].bytes = IF Gz(k)' = 1 THEN got[k] ELSE 2 * got[k]
  <2>1. k - 1 \in 0..T /\ k - 1 # T
    BY <1>1
  <2>2. sent2[k - 1] = sent[k - 1]
    BY <1>6, <2>1
  <2>3. /\ sent[k - 1] + Len(Stored(k)) = got[k]
        /\ Numbered(Stored(k), sent[k - 1], IF Works(k) THEN 1 ELSE Gz(k))
        /\ ~Told(k) => sent[k - 1] = 0
        /\ ~Compresses(k) => writers[k].bytes = IF Gz(k) = 1 THEN got[k] ELSE 2 * got[k]
    BY <1>3 DEF Pieces
  <2>4. (IF Works(k)' THEN 1 ELSE Gz(k)') = (IF Works(k) THEN 1 ELSE Gz(k))
    BY <1>2
  <2> QED  BY <1>1, <1>2, <2>2, <2>3, <2>4
<1>10. Len(wire'.body) = got[0] /\ Numbered(wire'.body, 0, Gz(0)')
  BY <1>1, <1>2, <1>3 DEF Pieces
<1> QED  BY <1>1, <1>6, <1>7, <1>8, <1>9, <1>10 DEF Pieces

\* Everything stays known when more is said.
LEMMA SpeaksFlow ==
    ASSUME PipeTypes, NEW T, NEW got, NEW sent, NEW sent2, Speaks(T, got, sent, sent2), Flow(T, got, sent)
    PROVE  Flow(T, got, sent2)' /\ got \in [0..T -> Nat] /\ sent2 \in [0..T -> Nat]
<1>1. /\ T \in Nat /\ T = Len(writers) /\ calls = <<>> /\ writers' = writers /\ wire' = wire /\ headers' = headers
      /\ phase = "handling" /\ phase' = phase
      /\ DOMAIN calls' = {1} /\ calls'[1].at = T /\ Len(calls') = 1
      /\ got \in [0..T -> Nat] /\ sent \in [0..T -> Nat]
      /\ \A x \in DOMAIN said.body : x \in DOMAIN said'.body /\ said'.body[x] = said.body[x]
  BY DEF Speaks
<1>2. /\ \A k : /\ (Compresses(k)' <=> Compresses(k)) /\ (Works(k)' <=> Works(k))
                /\ Stored(k)' = Stored(k) /\ Gz(k)' = Gz(k)
      /\ said'.status # 0
  BY SpeaksKeep
<1>3. Compressing(T) /\ SaidIs(T) /\ Flushes(T, sent) /\ Pieces(T, got, sent)
  BY DEF Flow
<1>4. Compressing(T)'
  BY <1>1, <1>2, <1>3 DEF Compressing
<1>5. SaidIs(T)'
  <2>1. \A x \in DOMAIN said'.body : x \in DOMAIN said.body \/ said'.body[x].gz = Gz(T)
    BY DEF Speaks
  <2>2. \A k \in 0..T : Gz(T) = Gz(k) \/ headers.vary
    <3> TAKE k \in 0..T
    <3>1. CASE \E j \in 1..T : Works(j)
      BY <1>3, <3>1 DEF Compressing, Works
    <3>2. CASE ~ \E j \in 1..T : Works(j)
      <4>1. \A j \in 1..k : j \in 1..T
        BY <1>1
      <4> QED  BY <3>2, <4>1 DEF Gz
    <3> QED  BY <3>1, <3>2
  <2>3. ASSUME NEW x \in DOMAIN said'.body
        PROVE  /\ said'.body[x].gz \in {0, 1}
               /\ \A k \in 0..T : said'.body[x].gz = Gz(k)' \/ headers'.vary
               /\ said'.body[x].gz = Gz(T)'
    <3>1. CASE x \in DOMAIN said.body
      <4>1. /\ said.body[x].gz \in {0, 1}
            /\ \A k \in 0..T : said.body[x].gz = Gz(k) \/ headers.vary
            /\ said.body[x].gz = Gz(T)
        <5>1. \A k \in (T + 1)..Len(writers) : FALSE
          BY <1>1
        <5> QED  BY <1>3, <3>1, <5>1 DEF SaidIs
      <4> QED  BY <1>1, <1>2, <3>1, <4>1
    <3>2. CASE said'.body[x].gz = Gz(T)
      BY <1>1, <1>2, <2>2, <3>2, GzTypes
    <3> QED  BY <2>1, <2>3, <3>1, <3>2
  <2> QED  BY <1>1, <1>2, <2>3 DEF SaidIs
<1>6. Flushes(T, sent2)'
  <2>1. CASE Does(1, "bytes")' /\ said'.pushed = said.pushed /\ said'.flushed = said.flushed
    <3>1. DOMAIN calls = {}
      BY <1>1
    <3>2. said.pushed => wire.status # 0 /\ wire.seen >= said.flushed
      BY <1>1, <1>3, <3>1 DEF Flushes
    <3> QED  BY <1>1, <2>1, <3>2 DEF Flushes
  <2>2. CASE Does(1, "flush")' /\ said'.flushed = Len(said.body) /\ sent2 = sent
    <3>1. sent2[calls'[1].at] = Len(said.body)
      BY <1>1, <1>3, <2>2 DEF Pieces
    <3>2. Len(said.body) \in Nat
      BY DEF PipeTypes
    <3>3. sent2[calls'[1].at] >= said'.flushed
      BY <2>2, <3>1, <3>2
    <3> QED  BY <1>1, <2>2, <3>3 DEF Flushes
  <2> QED  BY <2>1, <2>2 DEF Speaks
<1>7. Pieces(T, got, sent2)' /\ sent2 \in [0..T -> Nat]
  BY SpeaksPieces
<1>8. Live(T)' /\ InOrder(T)' /\ GoesDown(T)' /\ StatusIs(T)'
  BY SpeaksOrder
<1> QED  BY <1>1, <1>4, <1>5, <1>6, <1>7, <1>8 DEF Flow

-----------------------------------------------------------------------------
(* Steps that say nothing.                                                  *)

\* Nothing is under way, and nothing of what has been said changes: the handler or a layer runs.
Quiet ==
    /\ calls = <<>> /\ UNCHANGED <<chain, request, tops, writers, calls, headers, wire, said>>
    /\ phase' = "handling" => phase = "handling"
    /\ layer \in Nat
    /\ layer' = layer \/ (layer' = layer - 1 /\ layer > 0 /\ (request.gzip => chain[layer] # "compress"))
    /\ phase' = "leaving" /\ panic' # "none" /\ said.status = 0 => headers.encoding = "none"

\* A quiet step leaves every place.
LEMMA QuietSame ==
    ASSUME Quiet
    PROVE  /\ \A k : /\ (Compresses(k)' <=> Compresses(k)) /\ (Works(k)' <=> Works(k)) /\ (Waits(k)' <=> Waits(k))
                     /\ Stored(k)' = Stored(k) /\ Gz(k)' = Gz(k) /\ (Told(k)' <=> Told(k))
                     /\ (Stops(k)' <=> Stops(k)) /\ (HeaderComes(k)' <=> HeaderComes(k))
           /\ \A T, k : Tells(T, k)' <=> Tells(T, k)
           /\ Want' = Want /\ DOMAIN calls = {} /\ DOMAIN calls' = {}
<1>1. UNCHANGED <<chain, request, tops, writers, calls, headers, wire, said>> /\ calls = <<>>
  BY DEF Quiet
<1>2. \A k : (Compresses(k)' <=> Compresses(k))
  BY <1>1 DEF Compresses
<1>3. \A k : (Works(k)' <=> Works(k)) /\ (Waits(k)' <=> Waits(k))
  BY <1>1, <1>2 DEF Works, Waits
<1>4. \A k : Stored(k)' = Stored(k)
  BY <1>1, <1>2 DEF Stored
<1>5. \A k : Gz(k)' = Gz(k)
  BY <1>1, <1>3 DEF Gz
<1>6. \A k : Told(k)' <=> Told(k)
  BY <1>1, <1>2 DEF Told
<1>7. \A k : (Stops(k)' <=> Stops(k))
  BY <1>1, <1>3 DEF Stops
<1>8. \A k : (HeaderComes(k)' <=> HeaderComes(k))
  BY <1>1 DEF HeaderComes
<1>9. \A T, k : Tells(T, k)' <=> Tells(T, k)
  BY <1>1, <1>6 DEF Tells
<1>10. Want' = Want /\ DOMAIN calls = {} /\ DOMAIN calls' = {}
  BY <1>1 DEF Want
<1> QED  BY <1>2, <1>3, <1>4, <1>5, <1>6, <1>7, <1>8, <1>9, <1>10

\* A quiet step leaves what is known.
LEMMA QuietFlow ==
    ASSUME PipeTypes, Places, Quiet, NEW T \in Nat, NEW got, NEW sent, Flow(T, got, sent)
    PROVE  Flow(T, got, sent)' /\ got \in [0..T -> Nat] /\ sent \in [0..T -> Nat]
<1>1. /\ \A k : /\ (Compresses(k)' <=> Compresses(k)) /\ (Works(k)' <=> Works(k)) /\ (Waits(k)' <=> Waits(k))
                /\ Stored(k)' = Stored(k) /\ Gz(k)' = Gz(k) /\ (Told(k)' <=> Told(k))
                /\ (Stops(k)' <=> Stops(k)) /\ (HeaderComes(k)' <=> HeaderComes(k))
      /\ \A k : Tells(T, k)' <=> Tells(T, k)
      /\ Want' = Want /\ DOMAIN calls = {} /\ DOMAIN calls' = {}
  BY QuietSame
<1>2. /\ UNCHANGED <<chain, request, tops, writers, calls, headers, wire, said>> /\ calls = <<>>
      /\ phase' = "handling" => phase = "handling"
  BY DEF Quiet
<1>3. /\ Live(T) /\ InOrder(T) /\ GoesDown(T) /\ StatusIs(T) /\ Pieces(T, got, sent) /\ Compressing(T)
      /\ SaidIs(T) /\ Flushes(T, sent)
  BY DEF Flow
<1>4. Live(T)'
  <2>1. /\ T \in 0..Len(writers)
        /\ phase = "handling" => T = Len(writers)
        /\ \A i \in DOMAIN tops : i <= layer => tops[i] <= T
        /\ \A k \in 1..T : Compresses(k) =>
              \E i \in DOMAIN tops : i <= layer /\ chain[i] = "compress" /\ tops[i] = k
        /\ \A k \in (T + 1)..Len(writers) : Compresses(k) =>
              \E i \in DOMAIN tops : i > layer /\ chain[i] = "compress" /\ tops[i] = k
        /\ T < Len(writers) => said.status # 0 \/ Compresses(T + 1)
    BY <1>2, <1>3 DEF Live, Closing
  <2>2. /\ DOMAIN tops \subseteq Nat /\ Len(writers) \in Nat
    BY WriterTypes DEF PipeTypes
  <2>3. \A i \in Nat : (i > layer => i > layer') /\ (i <= layer' => i <= layer)
    BY DEF Quiet
  <2>4. \A k \in 1..Len(writers) : Compresses(k) => request.gzip
    BY DEF Places
  <2>5. \A i \in Nat : i <= layer /\ chain[i] = "compress" /\ request.gzip => i <= layer'
    BY DEF Quiet
  <2>6. \A k \in 1..T : Compresses(k) =>
              \E i \in DOMAIN tops : i <= layer' /\ chain[i] = "compress" /\ tops[i] = k
    <3>1. \A k \in 1..T : k \in 1..Len(writers)
      BY <2>1, <2>2
    <3> QED  BY <2>1, <2>2, <2>4, <2>5, <3>1
  <2>7. \A k \in (T + 1)..Len(writers) : Compresses(k) =>
              \E i \in DOMAIN tops : i > layer' /\ chain[i] = "compress" /\ tops[i] = k
    BY <2>1, <2>2, <2>3
  <2>8. \A i \in DOMAIN tops : i <= layer' => tops[i] <= T
    BY <2>1, <2>2, <2>3
  <2> QED  BY <1>1, <1>2, <2>1, <2>6, <2>7, <2>8 DEF Live
<1>5. InOrder(T)'
  BY <1>1 DEF InOrder
<1>6. GoesDown(T)' /\ StatusIs(T)'
  <2>1. GoesDown(T)'
    BY <1>1, <1>3 DEF GoesDown
  <2>2. StatusIs(T)'
    BY <1>1, <1>2, <1>3 DEF StatusIs
  <2> QED  BY <2>1, <2>2
<1>7. Pieces(T, got, sent)' /\ got \in [0..T -> Nat] /\ sent \in [0..T -> Nat]
  BY <1>1, <1>2, <1>3 DEF Pieces
<1>8. Compressing(T)'
  BY <1>1, <1>2, <1>3 DEF Compressing
<1>9. SaidIs(T)'
  <2>1. phase' = "leaving" /\ panic' # "none" /\ said'.status = 0 => headers'.encoding = "none"
    BY <1>2 DEF Quiet
  <2> QED  BY <1>1, <1>2, <1>3, <2>1 DEF SaidIs
<1>10. Flushes(T, sent)'
  BY <1>1, <1>2, <1>3 DEF Flushes
<1> QED  BY <1>4, <1>5, <1>6, <1>7, <1>8, <1>9, <1>10 DEF Flow

\* The close of a compressor begins: the call is made on it, and nothing else changes.
Shuts(T) ==
    /\ T \in Nat /\ calls = <<>> /\ phase = "leaving" /\ layer \in DOMAIN tops
    /\ UNCHANGED <<chain, request, phase, tops, writers, headers, wire, said, panic>>
    /\ layer' = layer - 1 /\ chain[layer] = "compress" /\ request.gzip
    /\ Len(calls') = 1 /\ DOMAIN calls' = {1} /\ calls' # <<>> /\ calls'[1].at = tops[layer] /\ Does(1, "close")'

\* The call of a close leaves every place.
LEMMA ShutsSame ==
    ASSUME NEW T, Shuts(T)
    PROVE  /\ \A k : /\ (Compresses(k)' <=> Compresses(k)) /\ (Works(k)' <=> Works(k)) /\ (Waits(k)' <=> Waits(k))
                     /\ Stored(k)' = Stored(k) /\ Gz(k)' = Gz(k) /\ (Told(k)' <=> Told(k))
                     /\ (Tells(T, k)' <=> Tells(T, k)) /\ (Stops(k) => Stops(k)')
                     /\ ~HeaderComes(k) /\ ~HeaderComes(k)' /\ ~Closing(k) /\ (k = tops[layer] => Closing(k)')
           /\ Want' = Want /\ DOMAIN calls = {}
           /\ ~Does(1, "header")' /\ ~Does(1, "bytes")' /\ ~Does(1, "flush")'
<1>1. /\ UNCHANGED <<chain, request, tops, writers, headers, wire, said>> /\ calls = <<>>
      /\ DOMAIN calls' = {1} /\ calls' # <<>> /\ calls'[1].at = tops[layer] /\ Does(1, "close")'
  BY DEF Shuts
<1>2. \A k : (Compresses(k)' <=> Compresses(k))
  BY <1>1 DEF Compresses
<1>3. \A k : (Works(k)' <=> Works(k)) /\ (Waits(k)' <=> Waits(k))
  BY <1>1, <1>2 DEF Works, Waits
<1>4. \A k : Stored(k)' = Stored(k)
  BY <1>1, <1>2 DEF Stored
<1>5. \A k : Gz(k)' = Gz(k)
  BY <1>1, <1>3 DEF Gz
<1>6. \A k : Told(k)' <=> Told(k)
  BY <1>1, <1>2 DEF Told
<1>7. DOMAIN calls = {}
  BY <1>1
<1>8. \A k : Stops(k) => Stops(k)'
  BY <1>3, <1>7 DEF Stops
<1>9. ~Does(1, "header")' /\ ~Does(1, "bytes")' /\ ~Does(1, "flush")'
  BY <1>1 DEF Does
<1>10. \A k : ~HeaderComes(k) /\ ~HeaderComes(k)' /\ ~Closing(k) /\ (k = tops[layer] => Closing(k)')
  BY <1>1, <1>9 DEF HeaderComes, Closing
<1>11. \A k : Tells(T, k)' <=> Tells(T, k)
  BY <1>1, <1>6 DEF Tells
<1>12. Want' = Want
  BY <1>1 DEF Want
<1> QED  BY <1>2, <1>3, <1>4, <1>5, <1>6, <1>7, <1>8, <1>9, <1>10, <1>11, <1>12

\* The call of a close leaves what is known.
LEMMA ShutsFlow ==
    ASSUME PipeTypes, Places, NEW T, Shuts(T), NEW got, NEW sent, Flow(T, got, sent)
    PROVE  Flow(T, got, sent)' /\ got \in [0..T -> Nat] /\ sent \in [0..T -> Nat]
<1>1. /\ \A k : /\ (Compresses(k)' <=> Compresses(k)) /\ (Works(k)' <=> Works(k)) /\ (Waits(k)' <=> Waits(k))
                /\ Stored(k)' = Stored(k) /\ Gz(k)' = Gz(k) /\ (Told(k)' <=> Told(k))
                /\ (Tells(T, k)' <=> Tells(T, k)) /\ (Stops(k) => Stops(k)')
                /\ ~HeaderComes(k) /\ ~HeaderComes(k)' /\ ~Closing(k) /\ (k = tops[layer] => Closing(k)')
      /\ Want' = Want /\ DOMAIN calls = {}
      /\ ~Does(1, "header")' /\ ~Does(1, "bytes")' /\ ~Does(1, "flush")'
  BY ShutsSame
<1>2. /\ T \in Nat /\ calls = <<>> /\ phase = "leaving" /\ layer \in DOMAIN tops
      /\ UNCHANGED <<chain, request, phase, tops, writers, headers, wire, said, panic>>
      /\ layer' = layer - 1 /\ chain[layer] = "compress" /\ request.gzip
      /\ Len(calls') = 1 /\ DOMAIN calls' = {1} /\ calls' # <<>> /\ calls'[1].at = tops[layer] /\ Does(1, "close")'
  BY DEF Shuts
<1>3. /\ Live(T) /\ InOrder(T) /\ GoesDown(T) /\ StatusIs(T) /\ Pieces(T, got, sent) /\ Compressing(T)
      /\ SaidIs(T) /\ Flushes(T, sent)
  BY DEF Flow
<1>4. /\ DOMAIN tops \subseteq Nat /\ Len(writers) \in Nat /\ \A i \in DOMAIN tops : tops[i] \in Nat
  BY WriterTypes DEF PipeTypes
<1>5. /\ T \in 0..Len(writers)
      /\ \A i \in DOMAIN tops : i <= layer => tops[i] <= T
      /\ \A k \in 1..T : Compresses(k) =>
            \E i \in DOMAIN tops : i <= layer /\ chain[i] = "compress" /\ tops[i] = k
      /\ \A k \in (T + 1)..Len(writers) : Compresses(k) =>
            \E i \in DOMAIN tops : i > layer /\ chain[i] = "compress" /\ tops[i] = k
      /\ T < Len(writers) => said.status # 0 \/ Compresses(T + 1)
  BY <1>1, <1>3 DEF Live
<1>6. PICK t : t = tops[layer]
  OBVIOUS
<1>7. t \in 1..T /\ Compresses(t) /\ t \in 0..T
  <2>1. t \in 0..Len(writers) /\ t >= 1 /\ Compresses(t)
    BY <1>2, <1>6 DEF Places
  <2>2. layer <= layer
    BY <1>2, <1>4
  <2> QED  BY <1>2, <1>4, <1>5, <1>6, <2>1, <2>2
<1>8. \A j \in DOMAIN tops : j < layer => tops[j] < t
  BY <1>2, <1>6 DEF Places
<1>9. \A i \in DOMAIN tops : i <= layer => i <= layer - 1 \/ i = layer
  BY <1>2, <1>4
<1>10. Live(T)'
  <2>1. \A i \in DOMAIN tops : (i <= layer - 1 => i <= layer) /\ (i > layer => i > layer - 1)
    BY <1>2, <1>4
  <2>2. \A k \in 1..T : Compresses(k) =>
           \/ Closing(k)'
           \/ \E i \in DOMAIN tops : i <= layer' /\ chain[i] = "compress" /\ tops[i] = k
    <3> SUFFICES ASSUME NEW k \in 1..T, Compresses(k)
                PROVE  \/ Closing(k)'
                       \/ \E i \in DOMAIN tops : i <= layer' /\ chain[i] = "compress" /\ tops[i] = k
      OBVIOUS
    <3>1. PICK i \in DOMAIN tops : i <= layer /\ chain[i] = "compress" /\ tops[i] = k
      BY <1>5
    <3> QED  BY <1>1, <1>2, <1>9, <3>1
  <2>3. \A i \in DOMAIN tops : i <= layer' => tops[i] <= T
    BY <1>2, <1>5, <2>1
  <2>4. \A k \in (T + 1)..Len(writers) : Compresses(k) =>
            \E i \in DOMAIN tops : i > layer' /\ chain[i] = "compress" /\ tops[i] = k
    BY <1>2, <1>5, <2>1
  <2>5. /\ phase' # "handling" /\ tops' = tops /\ chain' = chain /\ writers' = writers /\ said' = said
    BY <1>2
  <2> QED  BY <1>1, <1>5, <2>2, <2>3, <2>4, <2>5 DEF Live
<1>11. InOrder(T)'
  <2>1. \A m \in (t + 1)..T : ~Compresses(m)
    <3> SUFFICES ASSUME NEW m \in (t + 1)..T, Compresses(m)
                PROVE  FALSE
      OBVIOUS
    <3>1. m \in 1..T /\ m > t
      BY <1>2, <1>7
    <3>2. PICK i \in DOMAIN tops : i <= layer /\ tops[i] = m
      BY <1>5, <3>1
    <3>3. CASE i = layer
      BY <1>6, <1>7, <3>1, <3>2, <3>3
    <3>4. CASE i # layer
      <4>1. i < layer
        BY <1>2, <1>4, <3>2, <3>4
      <4>2. m < t
        BY <1>8, <3>2, <4>1
      <4> QED  BY <1>7, <3>1, <4>2
    <3> QED  BY <3>3, <3>4
  <2>2. \A j \in DOMAIN tops : j <= layer' => tops[j] < t
    <3>1. \A j \in DOMAIN tops : j <= layer - 1 => j < layer
      BY <1>2, <1>4
    <3> QED  BY <1>2, <1>8, <3>1
  <2>3. Allowed(T, 1, t)'
    <3>1. \A m \in (t + 1)..T : ~Compresses(m)'
      BY <1>1, <2>1
    <3>2. \A j \in DOMAIN tops' : j <= layer' => tops'[j] < t
      BY <1>2, <2>2
    <3>3. Len(calls') = 1 /\ phase' = "leaving" /\ t >= 1 /\ Compresses(t)'
      BY <1>1, <1>2, <1>7
    <3> QED  BY <1>1, <1>2, <3>1, <3>2, <3>3 DEF Allowed
  <2>4. \A i \in DOMAIN calls' : i = 1 /\ calls'[i].at = t
    BY <1>2, <1>6
  <2>5. \A i \in DOMAIN calls' : \A k \in 0..T : calls'[i].at = k => Allowed(T, i, k)'
    <3>1. ASSUME NEW i \in DOMAIN calls', NEW k \in 0..T, calls'[i].at = k
          PROVE  Allowed(T, i, k)'
      <4>1. i = 1 /\ k = t
        BY <2>4, <3>1
      <4> QED  BY <2>3, <4>1
    <3> QED  BY <3>1
  <2>6. \A i \in DOMAIN calls' : calls'[i].at <= T
    BY <1>7, <2>4
  <2>7. \A i, j \in DOMAIN calls' : ~(i < j)
    BY <2>4
  <2> QED  BY <2>5, <2>6, <2>7 DEF InOrder
<1>12. GoesDown(T)'
  BY <1>1, <1>3 DEF GoesDown
<1>13. StatusIs(T)'
  BY <1>1, <1>2, <1>3 DEF StatusIs
<1>14. Pieces(T, got, sent)' /\ got \in [0..T -> Nat] /\ sent \in [0..T -> Nat]
  <2>1. /\ got \in [0..T -> Nat] /\ sent \in [0..T -> Nat] /\ sent[T] = Len(said.body)
        /\ \A k \in 0..T : got[k] = sent[k]
    BY <1>1, <1>3 DEF Pieces
  <2>2. \A i \in DOMAIN calls' : ~Does(i, "bytes")'
    BY <1>1, <1>2
  <2>3. \A k \in 1..T :
           /\ sent[k - 1] + Len(Stored(k)') = got[k]
           /\ Numbered(Stored(k)', sent[k - 1], IF Works(k)' THEN 1 ELSE Gz(k)')
           /\ ~Told(k)' => sent[k - 1] = 0
           /\ ~Compresses(k)' => writers'[k].bytes = IF Gz(k)' = 1 THEN got[k] ELSE 2 * got[k]
    <3> TAKE k \in 1..T
    <3>1. /\ sent[k - 1] + Len(Stored(k)) = got[k]
          /\ Numbered(Stored(k), sent[k - 1], IF Works(k) THEN 1 ELSE Gz(k))
          /\ ~Told(k) => sent[k - 1] = 0
          /\ ~Compresses(k) => writers[k].bytes = IF Gz(k) = 1 THEN got[k] ELSE 2 * got[k]
      BY <1>3 DEF Pieces
    <3>2. (IF Works(k)' THEN 1 ELSE Gz(k)') = (IF Works(k) THEN 1 ELSE Gz(k))
      BY <1>1
    <3> QED  BY <1>1, <1>2, <3>1, <3>2
  <2>4. Len(wire'.body) = got[0] /\ Numbered(wire'.body, 0, Gz(0)')
    BY <1>1, <1>2, <1>3 DEF Pieces
  <2> QED  BY <1>2, <2>1, <2>2, <2>3, <2>4 DEF Pieces
<1>15. Compressing(T)'
  BY <1>1, <1>2, <1>3 DEF Compressing
<1>16. SaidIs(T)'
  BY <1>1, <1>2, <1>3 DEF SaidIs
<1>17. Flushes(T, sent)'
  BY <1>2 DEF Flushes
<1> QED  BY <1>10, <1>11, <1>12, <1>13, <1>14, <1>15, <1>16, <1>17 DEF Flow

-----------------------------------------------------------------------------
(* A layer answers.                                                         *)

\* What a layer that answers leaves behind.
Answers(k, code) ==
    /\ calls' \in Seq([at : Nat, call : Call]) /\ said' \in [status : Nat, body : Seq(Piece), pushed : BOOLEAN, flushed : Nat]
    /\ said'.status = code /\ said'.pushed = said.pushed /\ Want' = code
    /\ Len(calls') \in {1, 2} /\ DOMAIN calls' = 1..Len(calls') /\ \A i \in DOMAIN calls' : calls'[i].at = k
    /\ Does(1, "header")' /\ calls'[1].call.code = code
    /\ Len(calls') = 1 => said'.body = <<>>
    /\ Len(calls') = 2 => Does(2, "bytes")' /\ calls'[2].call.pieces = said'.body /\ Numbered(said'.body, 0, 0)
    /\ DOMAIN headers' = {"type", "length", "encoding", "vary", "id"}
    /\ headers'.length \in {0, headers.length} /\ headers'.encoding = headers.encoding
    /\ headers'.vary = headers.vary /\ headers'.id = headers.id

\* A layer that answers with a status answers.
LEMMA AnswersAre ==
    ASSUME PipeTypes, NEW k \in Nat, NEW code \in Nat \ {0}, said.status = 0, said.body = <<>>, LayerAnswers(k, code)
    PROVE  Answers(k, code)
<1>1. PICK c : c = [do |-> "header", code |-> code]
  OBVIOUS
<1>2. Status(code) = <<c>> /\ c \in Call
  BY <1>1 DEF Status, Call
<1>3. calls' = [i \in 1..1 |-> [at |-> k, call |-> c]]
  <2>1. calls' = On(k, <<c>>)
    BY <1>2 DEF LayerAnswers
  <2>2. \A i \in 1..1 : i = 1
    OBVIOUS
  <2>3. Len(<<c>>) = 1 /\ <<c>>[1] = c
    OBVIOUS
  <2> QED  BY <2>1, <2>2, <2>3 DEF On
<1>4. PICK e : e = [at |-> k, call |-> c]
  OBVIOUS
<1>5. e \in [at : Nat, call : Call] /\ e.at = k /\ e.call.do = "header" /\ e.call.code = code
  BY <1>1, <1>2, <1>4
<1>6. calls' \in Seq([at : Nat, call : Call]) /\ Len(calls') = 1 /\ DOMAIN calls' = 1..1 /\ calls'[1] = e
  <2> DEFINE S == [at : Nat, call : Call]
  <2>1. calls' = [i \in 1..1 |-> e] /\ e \in S
    BY <1>3, <1>4, <1>5
  <2> HIDE DEF S
  <2>2. calls' \in Seq(S) /\ Len(calls') = 1 /\ DOMAIN calls' = 1..1 /\ calls'[1] = e
    BY ONLY <2>1
  <2> QED  BY <2>2 DEF S
<1>7. \A i \in DOMAIN calls' : i = 1
  BY <1>6
<1>8. said' = [said EXCEPT !.status = code]
  <2>1. said' = Asked(said, c)
    BY <1>2 DEF LayerAnswers
  <2> QED  BY <1>1, <2>1 DEF Asked
<1>9. /\ said' \in [status : Nat, body : Seq(Piece), pushed : BOOLEAN, flushed : Nat]
      /\ said'.status = code /\ said'.pushed = said.pushed /\ said'.body = <<>>
  BY <1>8 DEF PipeTypes
<1>10. Want' = code
  BY <1>9 DEF Want
<1>11. Does(1, "header")' /\ calls'[1].call.code = code /\ \A i \in DOMAIN calls' : calls'[i].at = k
  BY <1>5, <1>6, <1>7 DEF Does
<1>12. headers' = headers /\ DOMAIN headers = {"type", "length", "encoding", "vary", "id"}
  BY DEF LayerAnswers, PipeTypes
<1> QED  BY <1>6, <1>9, <1>10, <1>11, <1>12 DEF Answers

\* A layer that answers with an error answers.
LEMMA FailsAre ==
    ASSUME PipeTypes, NEW k \in Nat, NEW code \in Nat \ {0}, said.status = 0, said.body = <<>>, LayerFails(k, code)
    PROVE  Answers(k, code)
<1>1. PICK c, b, s : /\ c = [do |-> "header", code |-> code] /\ b = [do |-> "write", n |-> 1, gz |-> 0]
                     /\ s = Asked(said, c)
  OBVIOUS
<1>2. Status(code)[1] = c /\ Body(1)[1] = b /\ c \in Call
  BY <1>1 DEF Status, Body, Call
<1>3. s = [said EXCEPT !.status = code]
  BY <1>1 DEF Asked
<1>4. /\ s \in [status : Nat, body : Seq(Piece), pushed : BOOLEAN, flushed : Nat]
      /\ s.status = code /\ s.pushed = said.pushed /\ s.body = <<>> /\ s.flushed = said.flushed
  BY <1>3 DEF PipeTypes
<1>5. PICK p : p = NewPieces(said, b)
  OBVIOUS
<1>6. /\ p \in Seq(Piece) /\ Len(p) = 1 /\ DOMAIN p = 1..1 /\ p[1].of = 1 /\ p[1].gz = 0
      /\ NewPieces(s, b) = p
  <2>1. p = [i \in 1..1 |-> [of |-> 0 + i, gz |-> 0]]
    BY <1>1, <1>5 DEF NewPieces
  <2>2. NewPieces(s, b) = p
    BY <1>1, <1>4, <1>5 DEF NewPieces
  <2>3. PICK e : e = [of |-> 1, gz |-> 0]
    OBVIOUS
  <2>4. e \in Piece /\ e.of = 1 /\ e.gz = 0
    BY <2>3 DEF Piece
  <2>5. p = [i \in 1..1 |-> e]
    <3>1. \A i \in 1..1 : i = 1 /\ 0 + i = 1
      OBVIOUS
    <3> QED  BY <2>1, <2>3, <3>1
  <2>6. p \in Seq(Piece) /\ Len(p) = 1 /\ DOMAIN p = 1..1 /\ p[1] = e
    BY ONLY <2>4, <2>5
  <2> QED  BY <2>2, <2>4, <2>6
<1>7. PICK d : d = [do |-> "bytes", pieces |-> p]
  OBVIOUS
<1>8. d \in Call /\ Made(said, b) = d /\ d.do = "bytes" /\ d.pieces = p /\ c.do = "header" /\ c.code = code
  BY <1>1, <1>5, <1>6, <1>7 DEF Made, Call
<1>9. calls' = On(k, <<c, d>>) /\ said' = Asked(s, b) /\ headers' = [headers EXCEPT !.length = 0, !.type = "plain"]
  BY <1>1, <1>2, <1>8 DEF LayerFails
<1>10. PICK e1, e2 : e1 = [at |-> k, call |-> c] /\ e2 = [at |-> k, call |-> d]
  OBVIOUS
<1>11. /\ e1 \in [at : Nat, call : Call] /\ e1.at = k /\ e1.call = c
       /\ e2 \in [at : Nat, call : Call] /\ e2.at = k /\ e2.call = d
  BY <1>2, <1>8, <1>10
<1>12. calls' \in Seq([at : Nat, call : Call]) /\ Len(calls') = 2 /\ DOMAIN calls' = 1..2 /\ calls'[1] = e1 /\ calls'[2] = e2
  <2> DEFINE S == [at : Nat, call : Call]
  <2>1. Len(<<c, d>>) = 2 /\ <<c, d>>[1] = c /\ <<c, d>>[2] = d
    OBVIOUS
  <2>2. calls' = [i \in 1..2 |-> [at |-> k, call |-> <<c, d>>[i]]]
    BY <1>9, <2>1 DEF On
  <2>3. calls' = [i \in 1..2 |-> IF i = 1 THEN e1 ELSE e2]
    <3>1. \A i \in 1..2 : i = 1 \/ i = 2
      OBVIOUS
    <3>2. \A i \in 1..2 : [at |-> k, call |-> <<c, d>>[i]] = IF i = 1 THEN e1 ELSE e2
      BY <1>10, <2>1, <3>1
    <3> QED  BY ONLY <2>2, <3>2
  <2>4. e1 \in S /\ e2 \in S
    BY <1>11
  <2> HIDE DEF S
  <2>5. calls' \in Seq(S) /\ Len(calls') = 2 /\ DOMAIN calls' = 1..2 /\ calls'[1] = e1 /\ calls'[2] = e2
    BY ONLY <2>3, <2>4
  <2> QED  BY <2>5 DEF S
<1>13. /\ said' \in [status : Nat, body : Seq(Piece), pushed : BOOLEAN, flushed : Nat]
       /\ said'.status = code /\ said'.pushed = said.pushed /\ said'.body = p
  <2>1. said' = [s EXCEPT !.status = IF s.status = 0 THEN 200 ELSE s.status, !.body = s.body \o NewPieces(s, b)]
    BY <1>1, <1>9 DEF Asked
  <2>2. s.body \o NewPieces(s, b) = p
    <3>1. s.body = <<>> /\ NewPieces(s, b) = p /\ p \in Seq(Piece)
      BY <1>4, <1>6
    <3>2. <<>> \o p = p
      BY ONLY <3>1
    <3> QED  BY ONLY <3>1, <3>2
  <2>3. PICK st, bo : st = s.status /\ bo = s.body \o NewPieces(s, b)
    OBVIOUS
  <2>4. (IF s.status = 0 THEN 200 ELSE s.status) = st /\ st = code /\ bo = p
    BY <1>4, <2>2, <2>3
  <2>5. said' = [s EXCEPT !.status = st, !.body = bo]
    BY ONLY <2>1, <2>3, <2>4
  <2>6. st \in Nat /\ bo \in Seq(Piece)
    BY <1>6, <2>4
  <2> QED  BY ONLY <1>4, <2>4, <2>5, <2>6
<1>14. Want' = code
  BY <1>13 DEF Want
<1>15. Numbered(said'.body, 0, 0)
  <2>1. \A x \in DOMAIN p : x = 1
    BY <1>6
  <2> QED  BY <1>6, <1>13, <2>1 DEF Numbered
<1>16. /\ Does(1, "header")' /\ calls'[1].call.code = code /\ Does(2, "bytes")' /\ calls'[2].call.pieces = said'.body
       /\ \A i \in DOMAIN calls' : calls'[i].at = k
  <2>1. \A i \in DOMAIN calls' : i = 1 \/ i = 2
    BY <1>12
  <2> QED  BY <1>8, <1>11, <1>12, <1>13, <2>1 DEF Does
<1>17. /\ DOMAIN headers' = {"type", "length", "encoding", "vary", "id"}
       /\ headers'.length = 0 /\ headers'.encoding = headers.encoding
       /\ headers'.vary = headers.vary /\ headers'.id = headers.id
  <2>1. DOMAIN headers = {"type", "length", "encoding", "vary", "id"}
    BY DEF PipeTypes
  <2> QED  BY <1>9, <2>1
<1> QED  BY <1>12, <1>13, <1>14, <1>15, <1>16, <1>17 DEF Answers

\* With an answer at the place t, and nothing that has come there before, the response flows.
LEMMA AnswersFlow ==
    ASSUME NEW t \in Nat, NEW code \in Nat \ {0}, Answers(t, code), PipeTypes', Live(t)', Untouched(t)',
           ~said.pushed, headers.encoding = "none"
    PROVE  \E T \in Nat : \E got, sent \in [0..T -> Nat] : Flow(T, got, sent)'
<1>1. Answered(t)'
  <2>1. /\ said'.status = code /\ Want' = code /\ code # 0
        /\ Len(calls') \in {1, 2} /\ \A i \in DOMAIN calls' : calls'[i].at = t
        /\ Does(1, "header")' /\ calls'[1].call.code = code
        /\ Len(calls') = 1 => said'.body = <<>>
        /\ Len(calls') = 2 => Does(2, "bytes")' /\ calls'[2].call.pieces = said'.body /\ Numbered(said'.body, 0, 0)
        /\ headers'.encoding = headers.encoding
    BY DEF Answers
  <2>2. Numbered(said'.body, 0, 0) => Numbered(said.body, 0, 0)'
    BY DEF Numbered
  <2> QED  BY <2>1, <2>2 DEF Answered
<1>2. Opening(t)'
  <2>1. ~said'.pushed
    BY DEF Answers
  <2> QED  BY <1>1, <2>1 DEF Opening
<1>3. \E got, sent \in [0..t -> Nat] : Flow(t, got, sent)'
  <2>1. (\A u \in Nat : Opening(u) => \E got, sent \in [0..u -> Nat] : Flow(u, got, sent))'
    BY OpeningFlows
  <2> QED  BY <1>2, <2>1
<1> QED  BY <1>3

\* The types of what a layer that answers leaves behind.
LEMMA AnswersTypes ==
    ASSUME PipeTypes, NEW t \in Nat, NEW code \in Nat \ {0}, Answers(t, code),
           chain' = chain, request' = request, phase' \in {"entering", "handling", "leaving", "done"},
           layer' \in Nat, tops' \in Seq(Nat), writers' \in Seq(AWriter \cup ACompressor), wire' = wire,
           panic' \in {"none", "bug", "abort"}, log' = log
    PROVE  PipeTypes'
<1>1. /\ calls' \in Seq([at : Nat, call : Call])
      /\ said' \in [status : Nat, body : Seq(Piece), pushed : BOOLEAN, flushed : Nat]
  BY DEF Answers
<1>2. /\ DOMAIN headers' = {"type", "length", "encoding", "vary", "id"}
      /\ headers'.length \in Nat /\ headers'.encoding \in {"none", "gzip"} /\ headers'.vary \in BOOLEAN
  <2>1. headers.length \in Nat /\ headers.encoding \in {"none", "gzip"} /\ headers.vary \in BOOLEAN
    BY DEF PipeTypes
  <2> QED  BY <2>1 DEF Answers
<1>3. chain' \in Chains /\ request' \in Requests
  BY DEF PipeTypes
<1>4. /\ DOMAIN wire' = {"status", "headers", "body", "seen", "end"}
      /\ wire'.status \in Nat /\ wire'.body \in Seq(Piece) /\ wire'.seen \in 0..Len(wire'.body)
      /\ DOMAIN log' = {"status", "bytes", "id"} /\ log'.status \in Nat
  BY DEF PipeTypes
<1> QED  BY <1>1, <1>2, <1>3, <1>4 DEF PipeTypes

\* As long as a writer that stays behind every compressor has no status, nothing has been said.
LEMMA NothingYet ==
    ASSUME PipeTypes, Places, NEW T \in Nat, NEW got, NEW sent, Flow(T, got, sent), calls = <<>>,
           NEW i \in DOMAIN tops, i = layer, chain[i] \in {"log", "recover", "only", "except"}, ~writers[tops[i]].wrote
    PROVE  said.status = 0 /\ T = Len(writers) /\ tops[i] \in 1..T /\ \A m \in (tops[i] + 1)..T : ~Compresses(m)
<1>1. /\ DOMAIN tops \subseteq Nat /\ Len(writers) \in Nat /\ \A j \in DOMAIN tops : tops[j] \in Nat
  BY WriterTypes, TopsTypes
<1>2. PICK t : t = tops[i]
  OBVIOUS
<1>3. Live(T) /\ GoesDown(T)
  BY DEF Flow
<1>4. /\ T \in 0..Len(writers)
      /\ \A j \in DOMAIN tops : j <= layer => tops[j] <= T
      /\ \A k \in 1..T : Compresses(k) =>
            \E j \in DOMAIN tops : j <= layer /\ chain[j] = "compress" /\ tops[j] = k
  BY <1>3 DEF Live, Closing
<1>5. t \in Nat /\ t >= 1 /\ ~Compresses(t) /\ t <= T
  <2>1. t >= 1 /\ ~Compresses(t)
    BY <1>2 DEF Places
  <2>2. i <= layer
    BY <1>1
  <2> QED  BY <1>1, <1>2, <1>4, <2>1, <2>2
<1>6. \A m \in (t + 1)..T : ~Compresses(m)
  <2> SUFFICES ASSUME NEW m \in (t + 1)..T, Compresses(m)
              PROVE  FALSE
    OBVIOUS
  <2>1. m \in 1..T /\ m > t
    BY <1>5
  <2>2. PICK j \in DOMAIN tops : j <= layer /\ chain[j] = "compress" /\ tops[j] = m
    BY <1>4, <2>1
  <2>3. j # i
    BY <2>2
  <2>4. j < i
    BY <1>1, <2>2, <2>3
  <2>5. m <= t
    BY <1>2, <2>2, <2>4 DEF Places
  <2> QED  BY <1>5, <2>1, <2>5
<1>7. ~Told(t)
  BY <1>2, <1>5 DEF Told
<1>8. \A m \in t..T : ~Stops(m)
  <2>1. DOMAIN calls = {}
    OBVIOUS
  <2>2. \A m \in t..T : m = t \/ m \in (t + 1)..T
    BY <1>5
  <2>3. \A m \in t..T : ~Compresses(m)
    BY <1>5, <1>6, <2>2
  <2> QED  BY <2>1, <2>3 DEF Stops, Waits
<1>9. ~Tells(T, T + 1)
  <2>1. t \in 0..(T + 1) /\ T + 1 \in 0..(T + 1) /\ t < T + 1 /\ (T + 1) - 1 = T
    BY <1>5
  <2>2. Tells(T, T + 1) => Told(t) \/ \E m \in t..T : Stops(m)
    BY <1>3, <2>1 DEF GoesDown
  <2> QED  BY <1>7, <1>8, <2>2
<1>10. said.status = 0 /\ ~(T < Len(writers))
  BY <1>9 DEF Tells
<1>11. T = Len(writers)
  BY <1>1, <1>4, <1>10
<1> QED  BY <1>2, <1>5, <1>6, <1>10, <1>11

\* Recover answers, and what it says flows.
LEMMA RecoverFlow ==
    ASSUME PipeTypes, Places, NEW T \in Nat, NEW got, NEW sent, Flow(T, got, sent), LeaveRecover, panic = "bug", ~Own.wrote
    PROVE  /\ PipeTypes' /\ said.status = 0 /\ said.body = <<>> /\ Answers(tops[layer], 500)
           /\ \E T2 \in Nat : \E got2, sent2 \in [0..T2 -> Nat] : Flow(T2, got2, sent2)'
<1>1. /\ phase = "leaving" /\ calls = <<>> /\ layer > 0 /\ chain[layer] = "recover"
      /\ LayerFails(tops[layer], 500) /\ panic' = "none" /\ layer' = layer - 1
      /\ UNCHANGED <<routeVars, phase, tops, writers, script, wire, noteVars>>
  BY DEF LeaveRecover, Leaving
<1>2. UNCHANGED <<chain, request, phase, tops, writers, wire, log>>
  BY <1>1 DEF routeVars, noteVars
<1>3. /\ layer \in DOMAIN tops /\ layer - 1 \in Nat /\ DOMAIN tops \subseteq Nat /\ tops[layer] \in Nat
      /\ Len(writers) \in Nat
  <2>1. layer \in Nat /\ layer <= Len(tops) /\ tops \in Seq(Nat)
    BY <1>1 DEF PipeTypes, Places
  <2> QED  BY <1>1, <2>1, WriterTypes
<1>4. PICK t : t = tops[layer]
  OBVIOUS
<1>5. said.status = 0 /\ T = Len(writers) /\ t \in 1..T /\ \A m \in (t + 1)..T : ~Compresses(m)
  <2>1. ~writers[tops[layer]].wrote
    BY DEF Own
  <2> QED  BY <1>1, <1>3, <1>4, <2>1, NothingYet
<1>6. Untouched(T) /\ said.body = <<>> /\ ~said.pushed
  BY <1>1, <1>5, NothingSaid
<1>7. headers.encoding = "none"
  BY <1>1, <1>5 DEF Flow, SaidIs
<1>8. 500 \in Nat \ {0} /\ t \in Nat
  BY <1>5
<1>9. Answers(t, 500)
  <2>1. LayerFails(t, 500)
    BY <1>1, <1>4
  <2> QED  BY <1>5, <1>6, <1>8, <2>1, FailsAre
<1>10. PipeTypes'
  <2>1. /\ writers' \in Seq(AWriter \cup ACompressor) /\ tops' \in Seq(Nat) /\ layer' \in Nat
        /\ phase' \in {"entering", "handling", "leaving", "done"} /\ panic' \in {"none", "bug", "abort"}
    BY <1>1, <1>2, <1>3 DEF PipeTypes
  <2> QED  BY <1>2, <1>8, <1>9, <2>1, AnswersTypes
<1>11. Untouched(t)'
  <2>1. \A k \in 1..t : k \in 1..T /\ k # 0
    BY <1>5
  <2>2. \A k : (Compresses(k)' <=> Compresses(k)) /\ (Told(k)' <=> Told(k))
    BY <1>2 DEF Compresses, Told
  <2> QED  BY <1>2, <1>6, <2>1, <2>2 DEF Untouched
<1>12. Live(t)'
  <2>1. /\ \A i \in DOMAIN tops : i <= layer => tops[i] <= T
        /\ \A k \in 1..T : Compresses(k) =>
              \E j \in DOMAIN tops : j <= layer /\ chain[j] = "compress" /\ tops[j] = k
    BY <1>1 DEF Flow, Live, Closing
  <2>2. \A i \in DOMAIN tops : i <= layer - 1 => i <= layer /\ i < layer
    BY <1>3
  <2>3. \A i \in DOMAIN tops : i < layer => tops[i] <= t
    BY <1>3, <1>4 DEF Places
  <2>4. ASSUME NEW k \in 1..t, Compresses(k)
        PROVE  \E i \in DOMAIN tops : i <= layer' /\ chain[i] = "compress" /\ tops[i] = k
    <3>1. k \in 1..T
      BY <1>5
    <3>2. PICK i \in DOMAIN tops : i <= layer /\ chain[i] = "compress" /\ tops[i] = k
      BY <2>1, <2>4, <3>1
    <3>3. i # layer
      BY <1>1, <3>2
    <3>4. i <= layer - 1
      BY <1>3, <3>2, <3>3
    <3> QED  BY <1>1, <3>2, <3>4
  <2>5. /\ t \in 0..Len(writers) /\ phase' # "handling" /\ said'.status # 0
    BY <1>1, <1>5, <1>9 DEF Answers
  <2>6. \A k : Compresses(k)' <=> Compresses(k)
    BY <1>2 DEF Compresses
  <2>7. \A i \in DOMAIN tops : i <= layer' => tops[i] <= t
    BY <1>1, <2>2, <2>3
  <2>8. \A k \in (t + 1)..Len(writers) : ~Compresses(k)
    BY <1>5
  <2> QED  BY <1>2, <2>4, <2>5, <2>6, <2>7, <2>8 DEF Live
<1>13. \E T2 \in Nat : \E got2, sent2 \in [0..T2 -> Nat] : Flow(T2, got2, sent2)'
  BY <1>6, <1>7, <1>8, <1>9, <1>10, <1>11, <1>12, AnswersFlow
<1> QED  BY <1>4, <1>5, <1>6, <1>9, <1>10, <1>13

-----------------------------------------------------------------------------
(* Into the layers.                                                         *)

\* New writers have nothing in them.
LEMMA NewOnes ==
    /\ NewWriter \in AWriter /\ NewCompressor \in ACompressor
    /\ NewWriter.kind = "writer" /\ NewCompressor.kind = "compressor"
    /\ ~NewWriter.wrote /\ NewWriter.status = 200 /\ NewWriter.bytes = 0
    /\ ~NewCompressor.decided /\ ~NewCompressor.on /\ NewCompressor.status = 200
    /\ NewCompressor.buf = <<>> /\ NewCompressor.held = <<>>
BY DEF NewWriter, NewCompressor, AWriter, ACompressor

\* The writers that a layer hands on: the ones there were and at most one more.
Grown(w) ==
    /\ w \in Seq(AWriter \cup ACompressor)
    /\ Len(writers) \in Nat /\ Len(w) \in {Len(writers), Len(writers) + 1}
    /\ \A k \in 1..Len(writers) : w[k] = writers[k]
    /\ Len(w) = Len(writers) + 1 => w[Len(w)] \in {NewWriter, NewCompressor}
    /\ chain[layer] \in {"log", "recover", "only", "except"} => Len(w) >= 1 /\ w[Len(w)].kind = "writer"
    /\ chain[layer] = "compress" /\ request.gzip <=> Len(w) = Len(writers) + 1 /\ w[Len(w)] = NewCompressor

\* A layer that hands on the writers as they are.
LEMMA SameGrown ==
    ASSUME PipeTypes, chain[layer] \in {"id", "csrf"} \/ (chain[layer] = "compress" /\ ~request.gzip)
    PROVE  Grown(writers)
<1>1. writers \in Seq(AWriter \cup ACompressor) /\ Len(writers) \in Nat /\ Len(writers) # Len(writers) + 1
  BY WriterTypes DEF PipeTypes
<1> QED  BY <1>1 DEF Grown

\* A sequence with one more.
LEMMA OneMore ==
    ASSUME NEW S, NEW s \in Seq(S), NEW e \in S
    PROVE  /\ Append(s, e) \in Seq(S) /\ Len(s) \in Nat /\ Len(Append(s, e)) = Len(s) + 1
           /\ \A k \in 1..Len(s) : Append(s, e)[k] = s[k]
           /\ Append(s, e)[Len(s) + 1] = e
OBVIOUS

\* A layer that hands on a new compressor.
LEMMA CompressorGrown ==
    ASSUME PipeTypes, chain[layer] = "compress", request.gzip
    PROVE  Grown(Append(writers, NewCompressor))
<1>1. PICK A, w, e : A = AWriter \cup ACompressor /\ e = NewCompressor /\ w = Append(writers, e)
  OBVIOUS
<1>2. writers \in Seq(A) /\ e \in A
  BY <1>1, NewOnes DEF PipeTypes
<1>3. /\ w \in Seq(A) /\ Len(writers) \in Nat /\ Len(w) = Len(writers) + 1
      /\ \A k \in 1..Len(writers) : w[k] = writers[k]
      /\ w[Len(writers) + 1] = e
  BY ONLY <1>1, <1>2, OneMore
<1> QED  BY <1>1, <1>3 DEF Grown

\* A layer that hands on a writer, its own or the one it was given.
LEMMA WrapGrown ==
    ASSUME PipeTypes, chain[layer] \in {"log", "recover", "only", "except"}
    PROVE  Grown(Wrap)
<1>1. PICK A : A = AWriter \cup ACompressor
  OBVIOUS
<1>2. writers \in Seq(A) /\ Len(writers) \in Nat
  BY <1>1, WriterTypes DEF PipeTypes
<1>3. CASE writers # <<>> /\ Last(writers).kind = "writer"
  <2>1. Wrap = writers
    BY <1>3 DEF Wrap
  <2>2. Len(writers) >= 1 /\ Last(writers) = writers[Len(writers)]
    BY <1>2, <1>3 DEF Last
  <2>3. Len(writers) # Len(writers) + 1
    BY <1>2
  <2> QED  BY <1>1, <1>2, <1>3, <2>1, <2>2, <2>3 DEF Grown
<1>4. CASE ~(writers # <<>> /\ Last(writers).kind = "writer")
  <2>1. PICK w, e : e = NewWriter /\ w = Append(writers, e)
    OBVIOUS
  <2>2. Wrap = w /\ e \in A
    BY <1>1, <1>4, <2>1, NewOnes DEF Wrap
  <2>3. /\ w \in Seq(A) /\ Len(w) = Len(writers) + 1
        /\ \A k \in 1..Len(writers) : w[k] = writers[k]
        /\ w[Len(writers) + 1] = e
    BY ONLY <1>2, <2>1, <2>2, OneMore
  <2>4. e # NewCompressor /\ e.kind = "writer"
    BY <2>1, NewOnes
  <2> QED  BY <1>1, <1>2, <2>1, <2>2, <2>3, <2>4 DEF Grown
<1> QED  BY <1>3, <1>4

\* Nothing has come to the writers while the layers are entered.
LEMMA FreshUntouched ==
    ASSUME PipeTypes, Fresh, NEW w, Grown(w), writers' = w, wire' = wire
    PROVE  /\ Untouched(Len(w))' /\ said.status = 0 /\ said.body = <<>> /\ ~said.pushed /\ headers.encoding = "none"
           /\ \A k \in DOMAIN w : w[k] \in {NewWriter, NewCompressor}
<1>1. /\ wire.status = 0 /\ wire.body = <<>>
  BY DEF Fresh, NewWire
<1>2. said.status = 0 /\ said.body = <<>> /\ ~said.pushed /\ headers.encoding = "none"
  BY DEF Fresh, Nothing
<1>3. DOMAIN writers = 1..Len(writers) /\ DOMAIN w = 1..Len(w) /\ Len(w) \in Nat
  BY WriterTypes DEF Grown
<1>4. \A k \in 1..Len(w) : w[k] \in {NewWriter, NewCompressor} /\ k # 0
  <2> TAKE k \in 1..Len(w)
  <2>1. k \in 1..Len(writers) \/ (k = Len(w) /\ Len(w) = Len(writers) + 1)
    BY DEF Grown
  <2>2. CASE k \in 1..Len(writers)
    BY <1>3, <2>2 DEF Fresh, Grown
  <2>3. CASE k = Len(w) /\ Len(w) = Len(writers) + 1
    BY <2>3 DEF Grown
  <2> QED  BY <2>1, <2>2, <2>3
<1>5. ASSUME NEW k \in 1..Len(w)
      PROVE  /\ ~Told(k)' /\ writers'[k].status = 200
             /\ Compresses(k)' => ~writers'[k].on /\ writers'[k].buf = <<>> /\ writers'[k].held = <<>>
             /\ ~Compresses(k)' => writers'[k].bytes = 0
  <2>1. writers'[k] \in {NewWriter, NewCompressor} /\ k # 0
    BY <1>4
  <2>2. CASE writers'[k] = NewWriter
    BY <2>1, <2>2, NewOnes DEF Told, Compresses
  <2>3. CASE writers'[k] = NewCompressor
    BY <2>1, <2>3, NewOnes DEF Told, Compresses
  <2> QED  BY <2>1, <2>2, <2>3
<1>6. Untouched(Len(w))'
  BY <1>1, <1>5 DEF Untouched
<1> QED  BY <1>2, <1>3, <1>4, <1>6

\* Where the layers stand after one more is entered.
LEMMA GrownPlaces ==
    ASSUME PipeTypes, Places, Fresh, phase = "entering", layer <= Len(chain), NEW w, Grown(w), writers' = w,
           tops' = Append(tops, Len(w)), chain' = chain, request' = request, panic' = panic,
           (phase' = "entering" /\ layer' = layer + 1) \/ (phase' = "leaving" /\ layer' = layer)
    PROVE  /\ Places' /\ tops' \in Seq(Nat) /\ layer' \in Nat
           /\ Len(tops') = layer /\ tops'[layer] = Len(w) /\ DOMAIN tops' = 1..layer /\ layer >= 1
<1>1. /\ layer \in Nat /\ layer >= 1 /\ Len(tops) = layer - 1 /\ chain \in Seq(Layers) /\ Len(chain) \in Nat
      /\ layer \in 1..(Len(chain) + 1)
  <2>1. layer \in 1..(Len(chain) + 1) /\ Len(tops) = layer - 1 /\ chain \in Seq(Layers)
    BY DEF Places
  <2>2. Len(chain) \in Nat
    BY <2>1
  <2> QED  BY <2>1, <2>2
<1>2. panic = "none"
  BY DEF Fresh
<1>3. Len(w) \in Nat /\ Len(writers) \in Nat /\ Len(w) \in {Len(writers), Len(writers) + 1}
  BY DEF Grown
<1>4. /\ tops' \in Seq(Nat) /\ Len(tops') = layer /\ tops'[layer] = Len(w)
      /\ \A i \in 1..(layer - 1) : tops'[i] = tops[i]
      /\ DOMAIN tops' = 1..layer /\ DOMAIN tops = 1..(layer - 1)
  <2>1. tops \in Seq(Nat) /\ Len(w) \in Nat
    BY <1>3 DEF PipeTypes
  <2>2. PICK n, s : n = Len(w) /\ s = Append(tops, n)
    OBVIOUS
  <2>3. n \in Nat /\ Len(tops) + 1 = layer
    BY <1>1, <1>3, <2>2
  <2>4. /\ s \in Seq(Nat) /\ Len(s) = Len(tops) + 1 /\ \A k \in 1..Len(tops) : s[k] = tops[k]
        /\ s[Len(tops) + 1] = n
    BY ONLY <2>1, <2>2, <2>3, OneMore
  <2>5. DOMAIN s = 1..Len(s) /\ DOMAIN tops = 1..Len(tops)
    BY ONLY <2>1, <2>4
  <2>6. tops' = s
    BY <2>2
  <2> QED  BY <1>1, <2>2, <2>3, <2>4, <2>5, <2>6
<1>5. \A i \in 1..(layer - 1) :
          /\ tops[i] \in 0..Len(writers)
          /\ chain[i] \in {"log", "recover", "only", "except"} => tops[i] >= 1 /\ ~Compresses(tops[i])
          /\ chain[i] = "compress" /\ request.gzip => tops[i] >= 1 /\ Compresses(tops[i])
  BY <1>4 DEF Places
<1>6. \A i \in 1..layer : i = layer \/ i \in 1..(layer - 1)
  BY <1>1
<1>7. \A k \in 1..Len(writers) : Compresses(k)' <=> Compresses(k)
  BY DEF Grown, Compresses
<1>8. Compresses(Len(w))' <=> w[Len(w)].kind = "compressor"
  BY DEF Compresses
<1>9. \A i \in DOMAIN tops' :
          /\ tops'[i] \in 0..Len(w)
          /\ chain[i] \in {"log", "recover", "only", "except"} => tops'[i] >= 1 /\ w[tops'[i]].kind # "compressor"
          /\ chain[i] = "compress" /\ request.gzip => tops'[i] >= 1 /\ w[tops'[i]].kind = "compressor"
  <2> SUFFICES ASSUME NEW i \in 1..layer, NEW t, t = tops'[i]
              PROVE  /\ t \in 0..Len(w)
                     /\ chain[i] \in {"log", "recover", "only", "except"} => t >= 1 /\ w[t].kind # "compressor"
                     /\ chain[i] = "compress" /\ request.gzip => t >= 1 /\ w[t].kind = "compressor"
    BY <1>4
  <2>1. CASE i = layer
    <3>1. t = Len(w)
      BY <1>4, <2>1
    <3>2. chain[i] \in {"log", "recover", "only", "except"} => t >= 1 /\ w[t].kind # "compressor"
      BY <2>1, <3>1 DEF Grown
    <3>3. chain[i] = "compress" /\ request.gzip => t = Len(writers) + 1 /\ w[t] = NewCompressor
      BY <2>1, <3>1 DEF Grown
    <3>4. chain[i] = "compress" /\ request.gzip => t >= 1 /\ w[t].kind = "compressor"
      <4>1. PICK n, c : n = Len(writers) /\ c = w[t]
        OBVIOUS
      <4>2. c = NewCompressor => c.kind = "compressor"
        BY NewOnes
      <4>3. n \in Nat
        BY <1>3, <4>1
      <4>5. n + 1 >= 1
        BY ONLY <4>3
      <4>6. t = n + 1 => t >= 1
        BY <4>5
      <4> QED  BY <3>3, <4>1, <4>2, <4>6
    <3>5. t \in 0..Len(w)
      BY <1>3, <3>1
    <3> QED  BY <3>2, <3>4, <3>5
  <2>2. CASE i \in 1..(layer - 1)
    <3>1. t = tops[i]
      BY <1>4, <2>2
    <3>2. /\ t \in 0..Len(writers)
          /\ chain[i] \in {"log", "recover", "only", "except"} => t >= 1 /\ ~Compresses(t)
          /\ chain[i] = "compress" /\ request.gzip => t >= 1 /\ Compresses(t)
      BY <1>5, <2>2, <3>1
    <3>3. PICK n, m : n = Len(writers) /\ m = Len(w)
      OBVIOUS
    <3>4. t \in 0..n /\ n \in Nat /\ m \in {n, n + 1}
      BY <1>3, <3>2, <3>3
    <3>5. t \in 0..m /\ (t >= 1 => t \in 1..n)
      BY ONLY <3>4
    <3>6. t >= 1 => w[t].kind = writers[t].kind
      BY <3>3, <3>5 DEF Grown
    <3> QED  BY <3>2, <3>3, <3>5, <3>6 DEF Compresses
  <2> QED  BY <1>6, <2>1, <2>2
<1>10. ASSUME NEW i \in DOMAIN tops', NEW j \in DOMAIN tops', i < j
       PROVE  /\ tops'[i] <= tops'[j]
              /\ chain[j] = "compress" /\ request.gzip => tops'[i] < tops'[j]
  <2>1. i \in 1..(layer - 1)
    BY <1>1, <1>4, <1>10
  <2>2. tops'[i] = tops[i] /\ tops[i] \in 0..Len(writers)
    BY <1>4, <1>5, <2>1
  <2>3. CASE j = layer
    <3>1. tops'[j] = Len(w)
      BY <1>4, <2>3
    <3>2. chain[j] = "compress" /\ request.gzip => Len(w) = Len(writers) + 1
      BY <2>3 DEF Grown
    <3> QED  BY <1>3, <2>2, <3>1, <3>2
  <2>4. CASE j \in 1..(layer - 1)
    <3>1. tops'[j] = tops[j]
      BY <1>4, <2>4
    <3>2. /\ tops[i] <= tops[j]
          /\ chain[j] = "compress" /\ request.gzip => tops[i] < tops[j]
      BY <1>4, <1>10, <2>1, <2>4 DEF Places
    <3> QED  BY <2>2, <3>1, <3>2
  <2> QED  BY <1>4, <1>6, <2>3, <2>4
<1>11. ASSUME NEW k \in 1..Len(w), Compresses(k)'
       PROVE  request.gzip /\ \E i \in DOMAIN tops' : chain[i] = "compress" /\ tops'[i] = k
  <2>1. CASE k \in 1..Len(writers)
    <3>1. request.gzip /\ \E i \in DOMAIN tops : chain[i] = "compress" /\ tops[i] = k
      BY <1>7, <1>11, <2>1 DEF Places
    <3>2. \A i \in 1..(layer - 1) : i \in 1..layer
      BY <1>1
    <3> QED  BY <1>4, <3>1, <3>2
  <2>2. CASE ~(k \in 1..Len(writers))
    <3>1. k = Len(w) /\ Len(w) = Len(writers) + 1
      BY <1>3, <2>2
    <3>2. w[k] = NewCompressor
      <4>1. w[k] \in {NewWriter, NewCompressor}
        BY <3>1 DEF Grown
      <4> QED  BY <1>11, <4>1, NewOnes DEF Compresses
    <3>3. chain[layer] = "compress" /\ request.gzip
      BY <3>1, <3>2 DEF Grown
    <3>4. layer \in DOMAIN tops' /\ tops'[layer] = k
      BY <1>1, <1>4, <3>1
    <3> QED  BY <3>3, <3>4
  <2> QED  BY <2>1, <2>2
<1>12. /\ phase' = "entering" => layer' \in 1..(Len(chain) + 1) /\ Len(tops') = layer' - 1
       /\ layer' \in Nat /\ layer' <= Len(tops') + 1 /\ Len(tops') <= Len(chain)
       /\ phase' = "leaving" => layer' <= Len(tops')
       /\ phase' \in {"entering", "leaving"}
  BY <1>1, <1>4
<1>13. \A i \in DOMAIN tops' : Compresses(tops[i])' <=> w[tops'[i]].kind = "compressor"
  BY DEF Compresses
<1>14. /\ \A i \in DOMAIN tops' :
          /\ tops'[i] \in 0..Len(writers')
          /\ chain'[i] \in {"log", "recover", "only", "except"} => tops'[i] >= 1 /\ ~Compresses(tops[i])'
          /\ chain'[i] = "compress" /\ request'.gzip => tops'[i] >= 1 /\ Compresses(tops[i])'
  BY <1>9, <1>13
<1>15. \A i, j \in DOMAIN tops' : i < j =>
          /\ tops'[i] <= tops'[j]
          /\ chain'[j] = "compress" /\ request'.gzip => tops'[i] < tops'[j]
  BY <1>10
<1>16. \A k \in 1..Len(writers') : Compresses(k)' =>
          request'.gzip /\ \E i \in DOMAIN tops' : chain'[i] = "compress" /\ tops'[i] = k
  BY <1>11
<1>17. Places'
  BY <1>1, <1>2, <1>12, <1>14, <1>15, <1>16 DEF Places
<1> QED  BY <1>1, <1>4, <1>12, <1>17

\* A layer is entered and hands on its writers: everything stays as it should.
LEMMA HandsOn ==
    ASSUME PipeInv, phase = "entering", layer <= Len(chain), NEW w, Grown(w), HandOn(w), LetThrough(layer),
           UNCHANGED <<chain, request, calls, wire, said, panic, script>>,
           DOMAIN headers' = {"type", "length", "encoding", "vary", "id"}, headers'.length = headers.length,
           headers'.encoding = headers.encoding, headers'.vary = headers.vary, headers'.id = ctxID',
           DOMAIN log' = {"status", "bytes", "id"}, log'.status = 0, log'.id \in {"", ctxID'},
           span'.state # "open", span'.status = 0
    PROVE  PipeInv'
<1>1. PipeTypes /\ Places /\ Fresh /\ Guarded
  BY DEF PipeInv
<1>2. writers' = w /\ tops' = Append(tops, Len(w)) /\ layer' = layer + 1 /\ phase' = "entering"
  BY DEF HandOn
<1>3. /\ Places' /\ tops' \in Seq(Nat) /\ layer' \in Nat
      /\ Len(tops') = layer /\ tops'[layer] = Len(w) /\ DOMAIN tops' = 1..layer /\ layer >= 1
  BY <1>1, <1>2, GrownPlaces
<1>4. \A k \in DOMAIN writers' : writers'[k] \in {NewWriter, NewCompressor}
  BY <1>1, <1>2, FreshUntouched
<1>5. PipeTypes'
  <2>1. writers' \in Seq(AWriter \cup ACompressor)
    BY <1>2 DEF Grown
  <2>2. /\ headers'.length \in Nat /\ headers'.encoding \in {"none", "gzip"} /\ headers'.vary \in BOOLEAN
    BY <1>1 DEF PipeTypes
  <2>3. 0 \in Nat
    OBVIOUS
  <2> QED  BY <1>1, <1>2, <1>3, <2>1, <2>2, <2>3 DEF PipeTypes
<1>6. Fresh'
  <2>1. /\ calls = <<>> /\ said = Nothing /\ panic = "none" /\ script \in Scripts
        /\ wire = NewWire(NoHeaders) /\ headers.length = 0 /\ headers.encoding = "none"
    BY <1>1 DEF Fresh
  <2>2. tops' # <<>> /\ Len(writers') = tops'[Len(tops')]
    <3>1. PICK s, n : s = tops' /\ n = layer
      OBVIOUS
    <3>2. s \in Seq(Nat) /\ Len(s) = n /\ n >= 1 /\ n \in Nat
      BY <1>1, <1>3, <3>1 DEF PipeTypes
    <3>3. s # <<>>
      BY ONLY <3>2
    <3>4. Len(writers') = tops'[Len(tops')]
      BY <1>2, <1>3
    <3> QED  BY <3>1, <3>3, <3>4
  <2> QED  BY <1>4, <2>1, <2>2 DEF Fresh
<1>7. Scripted' /\ Promised' /\ Recovered'
  <2>1. headers'.length = 0 /\ panic' = "none"
    BY <1>1 DEF Fresh
  <2> QED  BY <1>2, <2>1 DEF Scripted, Promised, Recovered
<1>8. Reports'
  BY DEF Reports
<1>9. Guarded'
  <2>1. \A i \in 1..(layer - 1) : LetThrough(i)
    BY <1>1 DEF Guarded
  <2>2. \A i \in 1..(layer' - 1) : i = layer \/ i \in 1..(layer - 1)
    <3>1. PICK n : n = layer
      OBVIOUS
    <3>2. n \in Nat
      BY <1>1, <3>1 DEF PipeTypes
    <3>3. \A i \in 1..((n + 1) - 1) : i = n \/ i \in 1..(n - 1)
      BY ONLY <3>2
    <3> QED  BY <1>2, <3>1, <3>3
  <2>3. \A i : LetThrough(i)' <=> LetThrough(i)
    BY DEF LetThrough, Applies
  <2> QED  BY <1>2, <2>1, <2>2, <2>3 DEF Guarded
<1> QED  BY <1>2, <1>3, <1>5, <1>6, <1>7, <1>8, <1>9 DEF PipeInv

\* Nothing is reported while the layers are entered.
LEMMA FreshReports ==
    ASSUME PipeInv, phase = "entering"
    PROVE  /\ headers.id = ctxID /\ log.id \in {"", ctxID} /\ log.status = 0 /\ span.state # "open" /\ span.status = 0
           /\ DOMAIN headers = {"type", "length", "encoding", "vary", "id"} /\ DOMAIN log = {"status", "bytes", "id"}
           /\ chain[layer] \notin {"csrf", "only", "except"} => LetThrough(layer)
           /\ calls = <<>> /\ said.status = 0 /\ said.body = <<>>
<1>1. /\ headers.id = ctxID /\ log.id \in {"", ctxID}
  BY DEF PipeInv, Reports
<1>2. log.status = 0 /\ span.state # "open" /\ span.status = 0 /\ calls = <<>> /\ said.status = 0 /\ said.body = <<>>
  BY DEF PipeInv, Fresh, Nothing
<1>3. DOMAIN headers = {"type", "length", "encoding", "vary", "id"} /\ DOMAIN log = {"status", "bytes", "id"}
  BY DEF PipeInv, PipeTypes
<1>4. chain[layer] \notin {"csrf", "only", "except"} => LetThrough(layer)
  BY DEF LetThrough
<1> QED  BY <1>1, <1>2, <1>3, <1>4

\* RequestID keeps the invariant (logger.go).
LEMMA RequestIDEntered ==
    ASSUME PipeInv, EnterRequestID
    PROVE  PipeInv'
<1>1. /\ phase = "entering" /\ layer <= Len(chain) /\ chain[layer] = "id" /\ HandOn(writers)
      /\ UNCHANGED <<chain, request, calls, wire, said, panic, script, log, span>>
  BY DEF EnterRequestID, Entering, routeVars, sayVars
<1>2. /\ headers.id = ctxID /\ log.id \in {"", ctxID} /\ log.status = 0 /\ span.state # "open" /\ span.status = 0
      /\ DOMAIN headers = {"type", "length", "encoding", "vary", "id"} /\ DOMAIN log = {"status", "bytes", "id"}
      /\ LetThrough(layer)
  BY <1>1, FreshReports
<1>3. Grown(writers)
  BY <1>1, SameGrown DEF PipeInv
<1>4. /\ DOMAIN headers' = {"type", "length", "encoding", "vary", "id"} /\ headers'.length = headers.length
      /\ headers'.encoding = headers.encoding /\ headers'.vary = headers.vary /\ headers'.id = ctxID'
      /\ log.id \in {"", ctxID'}
  <2>1. CASE ctxID # "" /\ UNCHANGED <<ctxID, headers>>
    BY <1>2, <2>1
  <2>2. CASE ctxID = "" /\ headers' = [headers EXCEPT !.id = ctxID']
    BY <1>2, <2>2
  <2>3. (ctxID # "" /\ UNCHANGED <<ctxID, headers>>) \/ (ctxID = "" /\ headers' = [headers EXCEPT !.id = ctxID'])
    BY DEF EnterRequestID
  <2> QED  BY <2>1, <2>2, <2>3
<1> QED  BY <1>1, <1>2, <1>3, <1>4, HandsOn

\* LogWith keeps the invariant (logger.go).
LEMMA LoggerEntered ==
    ASSUME PipeInv, EnterLogger
    PROVE  PipeInv'
<1>1. /\ phase = "entering" /\ layer <= Len(chain) /\ chain[layer] = "log" /\ HandOn(Wrap)
      /\ UNCHANGED <<chain, request, calls, headers, wire, said, panic, script, ctxID, span>>
      /\ log' = [log EXCEPT !.id = ctxID]
  BY DEF EnterLogger, Entering, routeVars, sayVars
<1>2. /\ headers.id = ctxID /\ log.id \in {"", ctxID} /\ log.status = 0 /\ span.state # "open" /\ span.status = 0
      /\ DOMAIN headers = {"type", "length", "encoding", "vary", "id"} /\ DOMAIN log = {"status", "bytes", "id"}
      /\ LetThrough(layer)
  BY <1>1, FreshReports
<1>3. Grown(Wrap)
  BY <1>1, WrapGrown DEF PipeInv
<1>4. DOMAIN log' = {"status", "bytes", "id"} /\ log'.status = 0 /\ log'.id = ctxID
  BY <1>1, <1>2
<1> QED  BY <1>1, <1>2, <1>3, <1>4, HandsOn

\* Recover, entered, keeps the invariant (logger.go).
LEMMA RecoverEntered ==
    ASSUME PipeInv, EnterRecover
    PROVE  PipeInv'
<1>1. /\ phase = "entering" /\ layer <= Len(chain) /\ chain[layer] = "recover" /\ HandOn(Wrap)
      /\ UNCHANGED <<chain, request, calls, headers, wire, said, panic, script, ctxID, log, span>>
  BY DEF EnterRecover, Entering, routeVars, sayVars, noteVars
<1>2. /\ headers.id = ctxID /\ log.id \in {"", ctxID} /\ log.status = 0 /\ span.state # "open" /\ span.status = 0
      /\ DOMAIN headers = {"type", "length", "encoding", "vary", "id"} /\ DOMAIN log = {"status", "bytes", "id"}
      /\ LetThrough(layer)
  BY <1>1, FreshReports
<1>3. Grown(Wrap)
  BY <1>1, WrapGrown DEF PipeInv
<1> QED  BY <1>1, <1>2, <1>3, HandsOn

\* Compress.Handler keeps the invariant (compress.go).
LEMMA CompressEntered ==
    ASSUME PipeInv, EnterCompress
    PROVE  PipeInv'
<1>1. /\ phase = "entering" /\ layer <= Len(chain) /\ chain[layer] = "compress"
      /\ HandOn(IF request.gzip THEN Append(writers, NewCompressor) ELSE writers)
      /\ UNCHANGED <<chain, request, calls, headers, wire, said, panic, script, ctxID, log, span>>
  BY DEF EnterCompress, Entering, routeVars, sayVars, noteVars
<1>2. /\ headers.id = ctxID /\ log.id \in {"", ctxID} /\ log.status = 0 /\ span.state # "open" /\ span.status = 0
      /\ DOMAIN headers = {"type", "length", "encoding", "vary", "id"} /\ DOMAIN log = {"status", "bytes", "id"}
      /\ LetThrough(layer)
  BY <1>1, FreshReports
<1>3. PICK w : w = IF request.gzip THEN Append(writers, NewCompressor) ELSE writers
  OBVIOUS
<1>4. Grown(w)
  <2>1. CASE request.gzip
    BY <1>1, <1>3, <2>1, CompressorGrown DEF PipeInv
  <2>2. CASE ~request.gzip
    BY <1>1, <1>3, <2>2, SameGrown DEF PipeInv
  <2> QED  BY <2>1, <2>2
<1>5. HandOn(w)
  BY <1>1, <1>3
<1> QED  BY <1>1, <1>2, <1>4, <1>5, HandsOn

-----------------------------------------------------------------------------
(* The scripts.                                                             *)

\* A script that promises no length and compresses nothing itself: it sets headers, and then speaks.
Ok(e)    == e \in Act /\ (e.do = "set" => e.field \in {"type", "length"} /\ (e.field = "length" => e.to = 0))
            /\ (e.do = "write" => e.gz = 0)
Opens(s) == s \in Seq(Act) /\ \A i \in DOMAIN s : Ok(s[i]) /\ s[i].do \in {"app", "set"}
Goes(s)  == s \in Seq(Act) /\ \A i \in DOMAIN s : Ok(s[i]) /\ s[i].do \in {"app", "write", "flush"}
Plain(s) ==
    /\ s \in Seq(Act) /\ \A i \in DOMAIN s : Ok(s[i])
    /\ \E m \in Nat : \A i \in DOMAIN s : /\ i <= m => s[i].do \in {"app", "set"}
                                          /\ i > m + 1 => s[i].do \in {"app", "write", "flush"}

\* A script that sets headers may do so in two parts.
LEMMA OpensOpens ==
    ASSUME NEW a, NEW b, Opens(a), Opens(b)
    PROVE  Opens(a \o b)
<1>1. a \in Seq(Act) /\ b \in Seq(Act)
  BY DEF Opens
<1>2. PICK s : s = a \o b
  OBVIOUS
<1>3. /\ s \in Seq(Act) /\ DOMAIN s = 1..(Len(a) + Len(b)) /\ Len(a) \in Nat /\ Len(b) \in Nat
      /\ \A i \in 1..Len(a) : s[i] = a[i]
      /\ \A i \in (Len(a) + 1)..(Len(a) + Len(b)) : s[i] = b[i - Len(a)]
  BY ONLY <1>1, <1>2, Joined
<1>4. DOMAIN a = 1..Len(a) /\ DOMAIN b = 1..Len(b)
  BY ONLY <1>1
<1>5. \A i \in DOMAIN s : i \in 1..Len(a) \/ (i \in (Len(a) + 1)..(Len(a) + Len(b)) /\ i - Len(a) \in 1..Len(b))
  BY ONLY <1>3
<1>6. \A i \in DOMAIN s : Ok(s[i]) /\ s[i].do \in {"app", "set"}
  <2> TAKE i \in DOMAIN s
  <2>1. (i \in DOMAIN a /\ s[i] = a[i]) \/ \E j \in DOMAIN b : s[i] = b[j]
    BY ONLY <1>3, <1>4, <1>5
  <2> QED  BY <2>1 DEF Opens
<1> QED  BY <1>2, <1>3, <1>6 DEF Opens

\* A plain script may set headers first.
LEMMA OpensPlain ==
    ASSUME NEW a, NEW b, Opens(a), Plain(b)
    PROVE  Plain(a \o b)
<1>1. a \in Seq(Act) /\ b \in Seq(Act)
  BY DEF Opens, Plain
<1>2. PICK s : s = a \o b
  OBVIOUS
<1>3. /\ s \in Seq(Act) /\ DOMAIN s = 1..(Len(a) + Len(b)) /\ Len(a) \in Nat /\ Len(b) \in Nat
      /\ \A i \in 1..Len(a) : s[i] = a[i]
      /\ \A i \in (Len(a) + 1)..(Len(a) + Len(b)) : s[i] = b[i - Len(a)]
  BY ONLY <1>1, <1>2, Joined
<1>4. DOMAIN a = 1..Len(a) /\ DOMAIN b = 1..Len(b)
  BY ONLY <1>1
<1>5. \A i \in DOMAIN s : i \in 1..Len(a) \/ (i \in (Len(a) + 1)..(Len(a) + Len(b)) /\ i - Len(a) \in 1..Len(b))
  BY ONLY <1>3
<1>6. PICK m \in Nat : \A i \in DOMAIN b : /\ i <= m => b[i].do \in {"app", "set"}
                                           /\ i > m + 1 => b[i].do \in {"app", "write", "flush"}
  BY DEF Plain
<1>7. PICK n, p : n = Len(a) /\ p = Len(b)
  OBVIOUS
<1>8. n \in Nat /\ p \in Nat /\ n + m \in Nat /\ DOMAIN s = 1..(n + p)
  BY <1>3, <1>7
<1>9. ASSUME NEW i \in DOMAIN s
      PROVE  /\ Ok(s[i]) /\ (i <= n + m => s[i].do \in {"app", "set"})
             /\ i > (n + m) + 1 => s[i].do \in {"app", "write", "flush"}
  <2>1. CASE i \in 1..n
    <3>1. i \in DOMAIN a /\ s[i] = a[i]
      BY <1>3, <1>4, <1>7, <2>1
    <3>2. ~(i > (n + m) + 1)
      BY ONLY <1>8, <2>1
    <3> QED  BY <3>1, <3>2 DEF Opens
  <2>2. CASE i \in (n + 1)..(n + p) /\ i - n \in 1..p
    <3>1. PICK j : j = i - n
      OBVIOUS
    <3>2. j \in DOMAIN b /\ s[i] = b[j] /\ j \in Nat
      BY <1>3, <1>4, <1>7, <2>2, <3>1
    <3>3. (i <= n + m => j <= m) /\ (i > (n + m) + 1 => j > m + 1)
      BY ONLY <1>8, <2>2, <3>1
    <3>4. Ok(b[j])
      BY <3>2 DEF Plain
    <3> QED  BY <1>6, <3>2, <3>3, <3>4
  <2> QED  BY <1>5, <1>7, <2>1, <2>2
<1> QED  BY <1>2, <1>3, <1>8, <1>9 DEF Plain

\* A plain script may go on.
LEMMA PlainGoes ==
    ASSUME NEW a, NEW b, Plain(a), Goes(b)
    PROVE  Plain(a \o b)
<1>1. a \in Seq(Act) /\ b \in Seq(Act)
  BY DEF Goes, Plain
<1>2. PICK s : s = a \o b
  OBVIOUS
<1>3. /\ s \in Seq(Act) /\ DOMAIN s = 1..(Len(a) + Len(b)) /\ Len(a) \in Nat /\ Len(b) \in Nat
      /\ \A i \in 1..Len(a) : s[i] = a[i]
      /\ \A i \in (Len(a) + 1)..(Len(a) + Len(b)) : s[i] = b[i - Len(a)]
  BY ONLY <1>1, <1>2, Joined
<1>4. DOMAIN a = 1..Len(a) /\ DOMAIN b = 1..Len(b)
  BY ONLY <1>1
<1>5. \A i \in DOMAIN s : i \in 1..Len(a) \/ (i \in (Len(a) + 1)..(Len(a) + Len(b)) /\ i - Len(a) \in 1..Len(b))
  BY ONLY <1>3
<1>6. PICK m \in Nat : \A i \in DOMAIN a : /\ i <= m => a[i].do \in {"app", "set"}
                                           /\ i > m + 1 => a[i].do \in {"app", "write", "flush"}
  BY DEF Plain
<1>7. PICK n, p, q : n = Len(a) /\ p = Len(b) /\ q = IF m <= n THEN m ELSE n
  OBVIOUS
<1>8. n \in Nat /\ p \in Nat /\ q \in Nat /\ q <= n /\ q <= m /\ (q = m \/ q = n) /\ DOMAIN s = 1..(n + p)
  BY <1>3, <1>7
<1>9. ASSUME NEW i \in DOMAIN s
      PROVE  /\ Ok(s[i]) /\ (i <= q => s[i].do \in {"app", "set"})
             /\ i > q + 1 => s[i].do \in {"app", "write", "flush"}
  <2>1. CASE i \in 1..n
    <3>1. i \in DOMAIN a /\ s[i] = a[i]
      BY <1>3, <1>4, <1>7, <2>1
    <3>2. (i <= q => i <= m) /\ (i > q + 1 => i > m + 1)
      BY ONLY <1>8, <2>1
    <3>3. Ok(a[i])
      BY <3>1 DEF Plain
    <3> QED  BY <1>6, <3>1, <3>2, <3>3
  <2>2. CASE i \in (n + 1)..(n + p) /\ i - n \in 1..p
    <3>1. PICK j : j = i - n
      OBVIOUS
    <3>2. j \in DOMAIN b /\ s[i] = b[j]
      BY <1>3, <1>4, <1>7, <2>2, <3>1
    <3>3. ~(i <= q)
      BY ONLY <1>8, <2>2
    <3>4. Ok(b[j]) /\ b[j].do \in {"app", "write", "flush"}
      BY <3>2 DEF Goes
    <3> QED  BY <3>2, <3>3, <3>4
  <2> QED  BY <1>5, <1>7, <2>1, <2>2
<1> QED  BY <1>2, <1>3, <1>8, <1>9 DEF Plain

\* A script to which nothing more has to be known.
Known(s) == Tidy(s) /\ Follows(s, 0, FALSE)

\* A plain script is one that is known.
LEMMA PlainKnown ==
    ASSUME NEW s, Plain(s)
    PROVE  Known(s)
<1>1. s \in Seq(Act) /\ \A i \in DOMAIN s : Ok(s[i])
  BY DEF Plain
<1>2. PICK m \in Nat : \A i \in DOMAIN s : /\ i <= m => s[i].do \in {"app", "set"}
                                           /\ i > m + 1 => s[i].do \in {"app", "write", "flush"}
  BY DEF Plain
<1>3. DOMAIN s = 1..Len(s) /\ Len(s) \in Nat
  BY <1>1
<1>4. ASSUME NEW i \in DOMAIN s, s[i].do \in {"set", "header"}, NEW j \in 1..(i - 1)
      PROVE  s[j].do \in {"app", "set"}
  <2>1. PICK n : n = Len(s)
    OBVIOUS
  <2>2. i \in 1..n /\ n \in Nat
    BY <1>3, <2>1
  <2>3. i <= m + 1
    <3>1. ~(i > m + 1)
      BY <1>2, <1>4
    <3> QED  BY <2>2, <3>1
  <2>4. j <= m /\ j \in 1..n
    BY ONLY <2>2, <2>3
  <2> QED  BY <1>2, <1>3, <2>1, <2>4
<1>5. \A i \in DOMAIN s : ~Sets(s, i, "encoding") /\ (Sets(s, i, "length") => s[i].to = 0)
  BY <1>1 DEF Ok, Sets
<1>6. Tidy(s)
  BY <1>1, <1>4, <1>5 DEF Tidy
<1>7. Follows(s, 0, FALSE)
  <2>1. \A i \in DOMAIN s : s[i].do = "write" => s[i].gz = 0
    BY <1>1 DEF Ok
  <2>2. \A i \in DOMAIN s : \A j \in 1..(i - 1) : j \in DOMAIN s
    <3>1. PICK n : n = Len(s)
      OBVIOUS
    <3>2. \A i \in 1..n : \A j \in 1..(i - 1) : j \in 1..n
      BY <1>3, <3>1
    <3> QED  BY <1>3, <3>1, <3>2
  <2> QED  BY <1>5, <2>1, <2>2 DEF Follows
<1> QED  BY <1>6, <1>7 DEF Known

\* A script of one call.
LEMMA OneCall ==
    ASSUME NEW e, Ok(e)
    PROVE  /\ Plain(<<e>>) /\ (e.do \in {"app", "set"} => Opens(<<e>>))
           /\ e.do \in {"app", "write", "flush"} => Goes(<<e>>)
<1>1. e \in Act
  BY DEF Ok
<1>2. PICK s : s = <<e>>
  OBVIOUS
<1>3. s \in Seq(Act) /\ DOMAIN s = {1} /\ s[1] = e
  BY ONLY <1>1, <1>2
<1>4. \A i \in DOMAIN s : i = 1 /\ s[i] = e /\ ~(i > 0 + 1) /\ ~(i <= 0)
  BY <1>3
<1>5. Plain(s)
  BY <1>3, <1>4 DEF Plain
<1>6. (e.do \in {"app", "set"} => Opens(s)) /\ (e.do \in {"app", "write", "flush"} => Goes(s))
  BY <1>3, <1>4 DEF Opens, Goes
<1> QED  BY <1>2, <1>5, <1>6

\* The parts that scripts are made of.
LEMMA SmallScripts ==
    /\ Opens(App) /\ Goes(App) /\ Plain(App) /\ Goes(Flush) /\ Plain(Flush)
    /\ \A t \in Media : Opens(Put("type", t)) /\ Opens(Put("length", 0))
    /\ \A c \in Nat \ {0} : Plain(Status(c))
    /\ \A n \in Nat : Goes(Body(n)) /\ Plain(Body(n))
<1>1. Opens(App) /\ Goes(App) /\ Plain(App)
  <2>1. Ok([do |-> "app"])
    BY DEF Ok, Act, Media
  <2> QED  BY <2>1, OneCall DEF App
<1>2. Goes(Flush) /\ Plain(Flush)
  <2>1. Ok([do |-> "flush"])
    BY DEF Ok, Act, Media
  <2> QED  BY <2>1, OneCall DEF Flush
<1>3. \A t \in Media : Opens(Put("type", t))
  <2> TAKE t \in Media
  <2>1. [do |-> "set", field |-> "type", to |-> t] \in Act
    BY DEF Act, Media
  <2>2. Ok([do |-> "set", field |-> "type", to |-> t])
    BY <2>1 DEF Ok
  <2> QED  BY <2>2, OneCall DEF Put
<1>4. Opens(Put("length", 0))
  <2>1. [do |-> "set", field |-> "length", to |-> 0] \in Act
    BY DEF Act, Media
  <2>2. Ok([do |-> "set", field |-> "length", to |-> 0])
    BY <2>1 DEF Ok
  <2> QED  BY <2>2, OneCall DEF Put
<1>5. \A c \in Nat \ {0} : Plain(Status(c))
  <2> TAKE c \in Nat \ {0}
  <2>1. [do |-> "header", code |-> c] \in Act
    BY DEF Act, Media
  <2>2. Ok([do |-> "header", code |-> c])
    BY <2>1 DEF Ok
  <2> QED  BY <2>2, OneCall DEF Status
<1>6. \A n \in Nat : Goes(Body(n)) /\ Plain(Body(n))
  <2> TAKE n \in Nat
  <2>1. [do |-> "write", n |-> n, gz |-> 0] \in Act
    BY DEF Act, Media
  <2>2. Ok([do |-> "write", n |-> n, gz |-> 0])
    BY <2>1 DEF Ok
  <2> QED  BY <2>2, OneCall DEF Body
<1> QED  BY <1>1, <1>2, <1>3, <1>4, <1>5, <1>6

\* http.Error is plain.
LEMMA ErrorPlain ==
    ASSUME NEW c \in Nat \ {0}
    PROVE  Plain(HttpError(c))
<1>1. 1 \in Nat /\ "plain" \in Media
  BY DEF Media
<1>2. Opens(Put("length", 0)) /\ Opens(Put("type", "plain")) /\ Plain(Status(c)) /\ Goes(Body(1))
  BY <1>1, SmallScripts
<1>3. Opens(Put("length", 0) \o Put("type", "plain"))
  BY <1>2, OpensOpens
<1>4. Plain(Put("length", 0) \o Put("type", "plain") \o Status(c))
  BY <1>2, <1>3, OpensPlain
<1>5. Plain(Put("length", 0) \o Put("type", "plain") \o Status(c) \o Body(1))
  BY <1>2, <1>4, PlainGoes
<1> QED  BY <1>5 DEF HttpError

\* The document of Render: a length is promised.
\* r is s, of length n, and e after it.
Joins(S, s, n, e, r, m)  == s \in Seq(S) /\ n \in Nat /\ m = n + 1 /\ Len(s) = n /\ e \in S /\ r = s \o <<e>>
Longer(S, s, n, e, r, m) == r \in Seq(S) /\ Len(r) = m /\ (\A k \in 1..n : r[k] = s[k]) /\ r[m] = e

\* A sequence with one joined to it.
LEMMA OneJoined ==
    ASSUME NEW S, NEW s, NEW n, NEW e, NEW r, NEW m, Joins(S, s, n, e, r, m)
    PROVE  Longer(S, s, n, e, r, m)
<1>0. r = s \o <<e>> /\ Len(s) = n /\ n \in Nat /\ m = n + 1 /\ s \in Seq(S) /\ e \in S
  BY DEF Joins
<1>1. PICK d : d = <<e>>
  OBVIOUS
<1>2. d \in Seq(S) /\ Len(d) = 1 /\ d[1] = e
  BY ONLY <1>0, <1>1
<1>3. r = s \o d
  BY ONLY <1>0, <1>1, Zenon
<1>4. /\ Len(r) = Len(s) + Len(d) /\ DOMAIN r = 1..(Len(s) + Len(d))
      /\ \A i \in 1..Len(s) : r[i] = s[i]
      /\ \A i \in (Len(s) + 1)..(Len(s) + Len(d)) : r[i] = d[i - Len(s)]
  BY ONLY <1>0, <1>2, <1>3, Joined
<1>5. r \in Seq(S)
  BY ONLY <1>0, <1>2, <1>3
<1>6. Len(s) + Len(d) = m /\ m \in (Len(s) + 1)..(Len(s) + Len(d)) /\ m - Len(s) = 1
  BY ONLY <1>0, <1>2
<1>7. r[m] = d[m - Len(s)]
  BY ONLY <1>4, <1>6
<1>8. Len(r) = m /\ (\A k \in 1..n : r[k] = s[k]) /\ r[m] = e
  BY ONLY <1>0, <1>2, <1>4, <1>6, <1>7
<1> QED  BY ONLY <1>5, <1>8 DEF Longer

AreSix(s, S, a, b, c, d, e, f) ==
    /\ s \in Seq(S) /\ Len(s) = 6 /\ DOMAIN s = 1..6
    /\ s[1] = a /\ s[2] = b /\ s[3] = c /\ s[4] = d /\ s[5] = e /\ s[6] = f

\* A script of six.
LEMMA SixCalls ==
    ASSUME NEW S, NEW a \in S, NEW b \in S, NEW c \in S, NEW d \in S, NEW e \in S, NEW f \in S
    PROVE  AreSix(<<a>> \o <<b>> \o <<c>> \o <<d>> \o <<e>> \o <<f>>, S, a, b, c, d, e, f)
<1>0. a \in S /\ b \in S /\ c \in S /\ d \in S /\ e \in S /\ f \in S
  OBVIOUS
<1>1. PICK s1, s2, s3, s4, s5 : /\ s1 = <<a>> /\ s2 = s1 \o <<b>> /\ s3 = s2 \o <<c>>
                                /\ s4 = s3 \o <<d>> /\ s5 = s4 \o <<e>>
  OBVIOUS
<1>2. PICK s : s = s5 \o <<f>>
  OBVIOUS
<1>3. s1 \in Seq(S) /\ Len(s1) = 1 /\ s1[1] = a
  BY ONLY <1>0, <1>1
<1>4. /\ s2 \in Seq(S) /\ Len(s2) = 2
      /\ s2[1] = a /\ s2[2] = b
  <2>1. s2 \in Seq(S) /\ Len(s2) = 2 /\ (\A k \in 1..1 : s2[k] = s1[k]) /\ s2[2] = b
    <3>1. PICK n, m : n = 1 /\ m = 2
      OBVIOUS
    <3>2. n \in Nat /\ m = n + 1
      BY ONLY <3>1
    <3>3. s1 \in Seq(S) /\ Len(s1) = n /\ b \in S
      BY ONLY <1>0, <3>1, <1>3
    <3>4. s2 = s1 \o <<b>>
      BY ONLY <1>1, Zenon
    <3>5. Joins(S, s1, n, b, s2, m)
      BY ONLY <3>2, <3>3, <3>4 DEF Joins
    <3>6. Longer(S, s1, n, b, s2, m)
      BY ONLY <3>5, OneJoined
    <3> QED  BY ONLY <3>1, <3>6 DEF Longer
  <2> QED  BY ONLY <1>3, <2>1
<1>5. /\ s3 \in Seq(S) /\ Len(s3) = 3
      /\ s3[1] = a /\ s3[2] = b /\ s3[3] = c
  <2>1. s3 \in Seq(S) /\ Len(s3) = 3 /\ (\A k \in 1..2 : s3[k] = s2[k]) /\ s3[3] = c
    <3>1. PICK n, m : n = 2 /\ m = 3
      OBVIOUS
    <3>2. n \in Nat /\ m = n + 1
      BY ONLY <3>1
    <3>3. s2 \in Seq(S) /\ Len(s2) = n /\ c \in S
      BY ONLY <1>0, <3>1, <1>4
    <3>4. s3 = s2 \o <<c>>
      BY ONLY <1>1, Zenon
    <3>5. Joins(S, s2, n, c, s3, m)
      BY ONLY <3>2, <3>3, <3>4 DEF Joins
    <3>6. Longer(S, s2, n, c, s3, m)
      BY ONLY <3>5, OneJoined
    <3> QED  BY ONLY <3>1, <3>6 DEF Longer
  <2> QED  BY ONLY <1>4, <2>1
<1>6. /\ s4 \in Seq(S) /\ Len(s4) = 4
      /\ s4[1] = a /\ s4[2] = b /\ s4[3] = c /\ s4[4] = d
  <2>1. s4 \in Seq(S) /\ Len(s4) = 4 /\ (\A k \in 1..3 : s4[k] = s3[k]) /\ s4[4] = d
    <3>1. PICK n, m : n = 3 /\ m = 4
      OBVIOUS
    <3>2. n \in Nat /\ m = n + 1
      BY ONLY <3>1
    <3>3. s3 \in Seq(S) /\ Len(s3) = n /\ d \in S
      BY ONLY <1>0, <3>1, <1>5
    <3>4. s4 = s3 \o <<d>>
      BY ONLY <1>1, Zenon
    <3>5. Joins(S, s3, n, d, s4, m)
      BY ONLY <3>2, <3>3, <3>4 DEF Joins
    <3>6. Longer(S, s3, n, d, s4, m)
      BY ONLY <3>5, OneJoined
    <3> QED  BY ONLY <3>1, <3>6 DEF Longer
  <2> QED  BY ONLY <1>5, <2>1
<1>7. /\ s5 \in Seq(S) /\ Len(s5) = 5
      /\ s5[1] = a /\ s5[2] = b /\ s5[3] = c /\ s5[4] = d /\ s5[5] = e
  <2>1. s5 \in Seq(S) /\ Len(s5) = 5 /\ (\A k \in 1..4 : s5[k] = s4[k]) /\ s5[5] = e
    <3>1. PICK n, m : n = 4 /\ m = 5
      OBVIOUS
    <3>2. n \in Nat /\ m = n + 1
      BY ONLY <3>1
    <3>3. s4 \in Seq(S) /\ Len(s4) = n /\ e \in S
      BY ONLY <1>0, <3>1, <1>6
    <3>4. s5 = s4 \o <<e>>
      BY ONLY <1>1, Zenon
    <3>5. Joins(S, s4, n, e, s5, m)
      BY ONLY <3>2, <3>3, <3>4 DEF Joins
    <3>6. Longer(S, s4, n, e, s5, m)
      BY ONLY <3>5, OneJoined
    <3> QED  BY ONLY <3>1, <3>6 DEF Longer
  <2> QED  BY ONLY <1>6, <2>1
<1>8. /\ s \in Seq(S) /\ Len(s) = 6
      /\ s[1] = a /\ s[2] = b /\ s[3] = c /\ s[4] = d /\ s[5] = e /\ s[6] = f
  <2>1. s \in Seq(S) /\ Len(s) = 6 /\ (\A k \in 1..5 : s[k] = s5[k]) /\ s[6] = f
    <3>1. PICK n, m : n = 5 /\ m = 6
      OBVIOUS
    <3>2. n \in Nat /\ m = n + 1
      BY ONLY <3>1
    <3>3. s5 \in Seq(S) /\ Len(s5) = n /\ f \in S
      BY ONLY <1>0, <3>1, <1>7
    <3>4. s = s5 \o <<f>>
      BY ONLY <1>2, Zenon
    <3>5. Joins(S, s5, n, f, s, m)
      BY ONLY <3>2, <3>3, <3>4 DEF Joins
    <3>6. Longer(S, s5, n, f, s, m)
      BY ONLY <3>5, OneJoined
    <3> QED  BY ONLY <3>1, <3>6 DEF Longer
  <2> QED  BY ONLY <1>7, <2>1
<1>9. AreSix(s, S, a, b, c, d, e, f)
  BY ONLY <1>8 DEF AreSix
<1> QED  BY ONLY <1>1, <1>2, <1>9, Zenon

AreFive(s, S, a, b, c, d, e) ==
    /\ s \in Seq(S) /\ Len(s) = 5 /\ DOMAIN s = 1..5
    /\ s[1] = a /\ s[2] = b /\ s[3] = c /\ s[4] = d /\ s[5] = e

\* A script of five.
LEMMA FiveCalls ==
    ASSUME NEW S, NEW a \in S, NEW b \in S, NEW c \in S, NEW d \in S, NEW e \in S
    PROVE  AreFive(<<a>> \o <<b>> \o <<c>> \o <<d>> \o <<e>>, S, a, b, c, d, e)
<1>0. a \in S /\ b \in S /\ c \in S /\ d \in S /\ e \in S
  OBVIOUS
<1>1. PICK s1, s2, s3, s4 : /\ s1 = <<a>> /\ s2 = s1 \o <<b>> /\ s3 = s2 \o <<c>>
                            /\ s4 = s3 \o <<d>>
  OBVIOUS
<1>2. PICK s : s = s4 \o <<e>>
  OBVIOUS
<1>3. s1 \in Seq(S) /\ Len(s1) = 1 /\ s1[1] = a
  BY ONLY <1>0, <1>1
<1>4. /\ s2 \in Seq(S) /\ Len(s2) = 2
      /\ s2[1] = a /\ s2[2] = b
  <2>1. s2 \in Seq(S) /\ Len(s2) = 2 /\ (\A k \in 1..1 : s2[k] = s1[k]) /\ s2[2] = b
    <3>1. PICK n, m : n = 1 /\ m = 2
      OBVIOUS
    <3>2. n \in Nat /\ m = n + 1
      BY ONLY <3>1
    <3>3. s1 \in Seq(S) /\ Len(s1) = n /\ b \in S
      BY ONLY <1>0, <3>1, <1>3
    <3>4. s2 = s1 \o <<b>>
      BY ONLY <1>1, Zenon
    <3>5. Joins(S, s1, n, b, s2, m)
      BY ONLY <3>2, <3>3, <3>4 DEF Joins
    <3>6. Longer(S, s1, n, b, s2, m)
      BY ONLY <3>5, OneJoined
    <3> QED  BY ONLY <3>1, <3>6 DEF Longer
  <2> QED  BY ONLY <1>3, <2>1
<1>5. /\ s3 \in Seq(S) /\ Len(s3) = 3
      /\ s3[1] = a /\ s3[2] = b /\ s3[3] = c
  <2>1. s3 \in Seq(S) /\ Len(s3) = 3 /\ (\A k \in 1..2 : s3[k] = s2[k]) /\ s3[3] = c
    <3>1. PICK n, m : n = 2 /\ m = 3
      OBVIOUS
    <3>2. n \in Nat /\ m = n + 1
      BY ONLY <3>1
    <3>3. s2 \in Seq(S) /\ Len(s2) = n /\ c \in S
      BY ONLY <1>0, <3>1, <1>4
    <3>4. s3 = s2 \o <<c>>
      BY ONLY <1>1, Zenon
    <3>5. Joins(S, s2, n, c, s3, m)
      BY ONLY <3>2, <3>3, <3>4 DEF Joins
    <3>6. Longer(S, s2, n, c, s3, m)
      BY ONLY <3>5, OneJoined
    <3> QED  BY ONLY <3>1, <3>6 DEF Longer
  <2> QED  BY ONLY <1>4, <2>1
<1>6. /\ s4 \in Seq(S) /\ Len(s4) = 4
      /\ s4[1] = a /\ s4[2] = b /\ s4[3] = c /\ s4[4] = d
  <2>1. s4 \in Seq(S) /\ Len(s4) = 4 /\ (\A k \in 1..3 : s4[k] = s3[k]) /\ s4[4] = d
    <3>1. PICK n, m : n = 3 /\ m = 4
      OBVIOUS
    <3>2. n \in Nat /\ m = n + 1
      BY ONLY <3>1
    <3>3. s3 \in Seq(S) /\ Len(s3) = n /\ d \in S
      BY ONLY <1>0, <3>1, <1>5
    <3>4. s4 = s3 \o <<d>>
      BY ONLY <1>1, Zenon
    <3>5. Joins(S, s3, n, d, s4, m)
      BY ONLY <3>2, <3>3, <3>4 DEF Joins
    <3>6. Longer(S, s3, n, d, s4, m)
      BY ONLY <3>5, OneJoined
    <3> QED  BY ONLY <3>1, <3>6 DEF Longer
  <2> QED  BY ONLY <1>5, <2>1
<1>7. /\ s \in Seq(S) /\ Len(s) = 5
      /\ s[1] = a /\ s[2] = b /\ s[3] = c /\ s[4] = d /\ s[5] = e
  <2>1. s \in Seq(S) /\ Len(s) = 5 /\ (\A k \in 1..4 : s[k] = s4[k]) /\ s[5] = e
    <3>1. PICK n, m : n = 4 /\ m = 5
      OBVIOUS
    <3>2. n \in Nat /\ m = n + 1
      BY ONLY <3>1
    <3>3. s4 \in Seq(S) /\ Len(s4) = n /\ e \in S
      BY ONLY <1>0, <3>1, <1>6
    <3>4. s = s4 \o <<e>>
      BY ONLY <1>2, Zenon
    <3>5. Joins(S, s4, n, e, s, m)
      BY ONLY <3>2, <3>3, <3>4 DEF Joins
    <3>6. Longer(S, s4, n, e, s, m)
      BY ONLY <3>5, OneJoined
    <3> QED  BY ONLY <3>1, <3>6 DEF Longer
  <2> QED  BY ONLY <1>6, <2>1
<1>8. AreFive(s, S, a, b, c, d, e)
  BY ONLY <1>7 DEF AreFive
<1> QED  BY ONLY <1>1, <1>2, <1>8, Zenon

\* A document that is served with its length (app.go render).
LEMMA DocumentKnown ==
    ASSUME NEW n \in Nat, NEW c \in Nat \ {0}
    PROVE  Known(App \o Put("type", "html") \o App \o Put("length", 2 * n) \o Status(c) \o Body(n))
<1>1. PICK a, b, d, e, f : /\ a = [do |-> "app"] /\ b = [do |-> "set", field |-> "type", to |-> "html"]
                           /\ d = [do |-> "set", field |-> "length", to |-> 2 * n]
                           /\ e = [do |-> "header", code |-> c] /\ f = [do |-> "write", n |-> n, gz |-> 0]
  OBVIOUS
<1>2. a \in Act /\ b \in Act /\ d \in Act /\ e \in Act /\ f \in Act
  <2>1. 2 * n \in Nat /\ "html" \in Media
    BY DEF Media
  <2> QED  BY <1>1, <2>1 DEF Act
<1>3. PICK s : s = <<a>> \o <<b>> \o <<a>> \o <<d>> \o <<e>> \o <<f>>
  OBVIOUS
<1>4. App \o Put("type", "html") \o App \o Put("length", 2 * n) \o Status(c) \o Body(n) = s
  <2>1. App = <<a>> /\ Put("type", "html") = <<b>> /\ Put("length", 2 * n) = <<d>> /\ Status(c) = <<e>> /\ Body(n) = <<f>>
    BY <1>1 DEF App, Put, Status, Body
  <2> QED  BY ONLY <1>3, <2>1, Zenon
<1>5. /\ s \in Seq(Act) /\ Len(s) = 6 /\ DOMAIN s = 1..6
      /\ s[1] = a /\ s[2] = b /\ s[3] = a /\ s[4] = d /\ s[5] = e /\ s[6] = f
  <2>1. AreSix(s, Act, a, b, a, d, e, f)
    BY ONLY <1>2, <1>3, SixCalls
  <2> QED  BY ONLY <2>1 DEF AreSix
<1>6. \A i \in DOMAIN s : i \in {1, 2, 3, 4, 5, 6}
  BY <1>5
<1>7. /\ s[1].do = "app" /\ s[2].do = "set" /\ s[2].field = "type" /\ s[3].do = "app"
      /\ s[4].do = "set" /\ s[4].field = "length" /\ s[4].to = 2 * n
      /\ s[5].do = "header" /\ s[6].do = "write" /\ s[6].n = n /\ s[6].gz = 0
  BY <1>1, <1>5
<1>8. Tidy(s)
  <2>1. ASSUME NEW i \in DOMAIN s, s[i].do \in {"set", "header"}, NEW j \in 1..(i - 1)
        PROVE  s[j].do \in {"app", "set"}
    <3>1. i \in {2, 4, 5}
      BY <1>6, <1>7, <2>1
    <3>2. j \in {1, 2, 3, 4}
      BY <3>1
    <3> QED  BY <1>7, <3>2
  <2>2. \A i \in DOMAIN s : Sets(s, i, "length") => i = 4
    BY <1>6, <1>7 DEF Sets
  <2>3. 4 + 1 = 5 /\ 4 + 2 = 6
    OBVIOUS
  <2>4. s[4].to = Weight(s[6].n, s[6].gz)
    BY <1>7 DEF Weight
  <2>5. \A i \in DOMAIN s : Sets(s, i, "length") =>
          /\ Len(s) = i + 2 /\ s[i + 1].do = "header" /\ s[i + 2].do = "write"
          /\ s[i].to = Weight(s[i + 2].n, s[i + 2].gz)
    BY <1>5, <1>7, <2>2, <2>3, <2>4
  <2>6. \A i \in DOMAIN s : ~Sets(s, i, "encoding")
    BY <1>6, <1>7 DEF Sets
  <2> QED  BY <1>5, <2>1, <2>5, <2>6 DEF Tidy
<1>9. Follows(s, 0, FALSE)
  <2>1. \A i \in DOMAIN s : s[i].do = "write" => i = 6
    BY <1>6, <1>7
  <2>2. \A j \in 1..(6 - 1) : j \in DOMAIN s
    BY <1>5
  <2>3. \A i \in DOMAIN s : ~Sets(s, i, "encoding")
    BY <1>6, <1>7 DEF Sets
  <2> QED  BY <1>7, <2>1, <2>2, <2>3 DEF Follows
<1> QED  BY <1>4, <1>8, <1>9 DEF Known

\* A file of Static that is stored compressed.
LEMMA StoredKnown ==
    Known(Put("type", "html") \o Put("encoding", "gzip") \o Put("length", 2) \o Status(200)
            \o <<[do |-> "write", n |-> 2, gz |-> 1]>>)
<1>1. PICK a, b, d, e, f : /\ a = [do |-> "set", field |-> "type", to |-> "html"]
                           /\ b = [do |-> "set", field |-> "encoding", to |-> "gzip"]
                           /\ d = [do |-> "set", field |-> "length", to |-> 2]
                           /\ e = [do |-> "header", code |-> 200] /\ f = [do |-> "write", n |-> 2, gz |-> 1]
  OBVIOUS
<1>2. a \in Act /\ b \in Act /\ d \in Act /\ e \in Act /\ f \in Act
  <2>1. 2 \in Nat /\ 200 \in Nat \ {0} /\ "html" \in Media
    BY DEF Media
  <2> QED  BY <1>1, <2>1 DEF Act
<1>3. PICK s : s = <<a>> \o <<b>> \o <<d>> \o <<e>> \o <<f>>
  OBVIOUS
<1>4. Put("type", "html") \o Put("encoding", "gzip") \o Put("length", 2) \o Status(200)
        \o <<[do |-> "write", n |-> 2, gz |-> 1]>> = s
  <2>1. /\ Put("type", "html") = <<a>> /\ Put("encoding", "gzip") = <<b>> /\ Put("length", 2) = <<d>>
        /\ Status(200) = <<e>> /\ <<[do |-> "write", n |-> 2, gz |-> 1]>> = <<f>>
    BY <1>1 DEF Put, Status
  <2> QED  BY ONLY <1>3, <2>1, Zenon
<1>5. /\ s \in Seq(Act) /\ Len(s) = 5 /\ DOMAIN s = 1..5
      /\ s[1] = a /\ s[2] = b /\ s[3] = d /\ s[4] = e /\ s[5] = f
  <2>1. AreFive(s, Act, a, b, d, e, f)
    BY ONLY <1>2, <1>3, FiveCalls
  <2> QED  BY ONLY <2>1 DEF AreFive
<1>6. \A i \in DOMAIN s : i \in {1, 2, 3, 4, 5}
  BY <1>5
<1>7. /\ s[1].do = "set" /\ s[1].field = "type" /\ s[2].do = "set" /\ s[2].field = "encoding"
      /\ s[3].do = "set" /\ s[3].field = "length" /\ s[3].to = 2
      /\ s[4].do = "header" /\ s[5].do = "write" /\ s[5].n = 2 /\ s[5].gz = 1
  BY <1>1, <1>5
<1>8. Tidy(s)
  <2>1. ASSUME NEW i \in DOMAIN s, s[i].do \in {"set", "header"}, NEW j \in 1..(i - 1)
        PROVE  s[j].do \in {"app", "set"}
    <3>1. i \in {1, 2, 3, 4}
      BY <1>6, <1>7, <2>1
    <3>2. j \in {1, 2, 3}
      BY <3>1
    <3> QED  BY <1>7, <3>2
  <2>2. \A i \in DOMAIN s : Sets(s, i, "length") => i = 3
    BY <1>6, <1>7 DEF Sets
  <2>3. 3 + 1 = 4 /\ 3 + 2 = 5
    OBVIOUS
  <2>4. s[3].to = Weight(s[5].n, s[5].gz)
    BY <1>7 DEF Weight
  <2>5. \A i \in DOMAIN s : Sets(s, i, "length") =>
          /\ Len(s) = i + 2 /\ s[i + 1].do = "header" /\ s[i + 2].do = "write"
          /\ s[i].to = Weight(s[i + 2].n, s[i + 2].gz)
    BY <1>5, <1>7, <2>2, <2>3, <2>4
  <2>6. \A i \in DOMAIN s : s[i].do # "app"
    BY <1>6, <1>7
  <2> QED  BY <1>5, <2>1, <2>5, <2>6 DEF Tidy
<1>9. Follows(s, 0, FALSE)
  <2>1. \A i \in DOMAIN s : s[i].do = "write" => i = 5
    BY <1>6, <1>7
  <2>2. 2 \in 1..(5 - 1) /\ Sets(s, 2, "encoding")
    BY <1>7 DEF Sets
  <2> QED  BY <1>7, <2>1, <2>2 DEF Follows
<1> QED  BY <1>4, <1>8, <1>9 DEF Known
\* App.render.
LEMMA RenderKnown ==
    ASSUME NEW c \in Nat \ {0}, NEW n \in Nat, NEW s \in Render(c, n)
    PROVE  Known(s)
<1>1. /\ Opens(App) /\ Opens(Put("type", "html")) /\ Plain(Status(c)) /\ Goes(Body(1)) /\ Goes(Body(n))
  <2>1. "html" \in Media /\ 1 \in Nat
    BY DEF Media
  <2> QED  BY <2>1, SmallScripts
<1>2. Opens(App \o Put("type", "html"))
  BY <1>1, OpensOpens
<1>3. Plain(App \o Put("type", "html") \o Status(c))
  BY <1>1, <1>2, OpensPlain
<1>4. Plain(App \o Put("type", "html") \o Status(c) \o Body(n))
  BY <1>1, <1>3, PlainGoes
<1>5. Plain(App \o Put("type", "html") \o Status(c) \o Body(1))
  BY <1>1, <1>3, PlainGoes
<1>6. Plain(App \o Put("type", "html") \o Status(c) \o Body(1) \o Body(n))
  BY <1>1, <1>5, PlainGoes
<1>7. Known(App \o Put("type", "html") \o App \o Put("length", 2 * n) \o Status(c) \o Body(n))
  BY DocumentKnown
<1>8. \/ s = App \o Put("type", "html") \o Status(c) \o Body(1) \o Body(n)
      \/ s = App \o Put("type", "html") \o Status(c) \o Body(n)
      \/ s = App \o Put("type", "html") \o App \o Put("length", 2 * n) \o Status(c) \o Body(n)
  BY Zenon DEF Render
<1>9. PICK x, y, z : /\ x = App \o Put("type", "html") \o Status(c) \o Body(1) \o Body(n)
                     /\ y = App \o Put("type", "html") \o Status(c) \o Body(n)
                     /\ z = App \o Put("type", "html") \o App \o Put("length", 2 * n) \o Status(c) \o Body(n)
  OBVIOUS
<1>10. Known(x) /\ Known(y) /\ Known(z)
  <2>1. Plain(x) /\ Plain(y) /\ Known(z)
    BY ONLY <1>4, <1>6, <1>7, <1>9, Zenon
  <2> QED  BY ONLY <2>1, PlainKnown
<1>11. s = x \/ s = y \/ s = z
  BY ONLY <1>8, <1>9, Zenon
<1> QED  BY ONLY <1>10, <1>11, Zenon

\* App.fail.
LEMMA FailsKnown ==
    ASSUME NEW s \in RenderFails
    PROVE  Known(s)
<1>1. /\ Opens(App) /\ Opens(Put("type", "html")) /\ Plain(HttpError(500))
  <2>1. "html" \in Media /\ 500 \in Nat \ {0}
    BY DEF Media
  <2> QED  BY <2>1, SmallScripts, ErrorPlain
<1>2. Plain(App \o HttpError(500))
  BY <1>1, OpensPlain
<1>3. Opens(App \o Put("type", "html"))
  BY <1>1, OpensOpens
<1>4. Opens(App \o Put("type", "html") \o App)
  BY <1>1, <1>3, OpensOpens
<1>5. Plain(App \o Put("type", "html") \o App \o HttpError(500))
  BY <1>1, <1>4, OpensPlain
<1>6. s = App \o HttpError(500) \/ s = App \o Put("type", "html") \o App \o HttpError(500)
  BY Zenon DEF RenderFails
<1>7. Plain(s)
  BY ONLY <1>2, <1>5, <1>6, Zenon
<1> QED  BY <1>7, PlainKnown

\* The responders of core/api (respond.go).
LEMMA RespondKnown ==
    ASSUME NEW s \in Respond
    PROVE  Known(s)
<1>1. /\ Plain(Status(200)) /\ Plain(Status(302)) /\ Goes(Body(1)) /\ Goes(Body(2)) /\ Goes(App) /\ Goes(Flush)
      /\ \A t \in Media : Opens(Put("type", t))
      /\ "html" \in Media /\ "image" \in Media /\ "plain" \in Media
  <2>1. 200 \in Nat \ {0} /\ 302 \in Nat \ {0} /\ 1 \in Nat /\ 2 \in Nat
    OBVIOUS
  <2> QED  BY <2>1, SmallScripts DEF Media
<1>2. Plain(Put("type", "image") \o Status(200) \o Body(2))
  <2>1. Plain(Put("type", "image") \o Status(200))
    BY <1>1, OpensPlain
  <2> QED  BY <1>1, <2>1, PlainGoes
<1>3. Plain(Put("type", "html") \o Status(302) \o Body(1))
  <2>1. Plain(Put("type", "html") \o Status(302))
    BY <1>1, OpensPlain
  <2> QED  BY <1>1, <2>1, PlainGoes
<1>4. ASSUME NEW t \in {"plain", "image"}
      PROVE  Plain(Put("type", t) \o Status(200) \o App \o Body(1) \o Flush \o App \o Body(1) \o Flush \o App)
  <2>1. PICK a, b, c, d, e, f, g, h : /\ a = Put("type", t) \o Status(200) /\ b = a \o App /\ c = b \o Body(1)
                                      /\ d = c \o Flush /\ e = d \o App /\ f = e \o Body(1) /\ g = f \o Flush
                                      /\ h = g \o App
    OBVIOUS
  <2>2. Plain(a)
    <3>1. Opens(Put("type", t))
      BY <1>1
    <3> QED  BY <1>1, <2>1, <3>1, OpensPlain
  <2>3. Plain(b)
    BY ONLY <1>1, <2>1, <2>2, PlainGoes
  <2>4. Plain(c)
    BY ONLY <1>1, <2>1, <2>3, PlainGoes
  <2>5. Plain(d)
    BY ONLY <1>1, <2>1, <2>4, PlainGoes
  <2>6. Plain(e)
    BY ONLY <1>1, <2>1, <2>5, PlainGoes
  <2>7. Plain(f)
    BY ONLY <1>1, <2>1, <2>6, PlainGoes
  <2>8. Plain(g)
    BY ONLY <1>1, <2>1, <2>7, PlainGoes
  <2>9. Plain(h)
    BY ONLY <1>1, <2>1, <2>8, PlainGoes
  <2> QED  BY ONLY <2>1, <2>9, Zenon
<1>5. \/ s = Put("type", "image") \o Status(200) \o Body(2)
      \/ s = Put("type", "html") \o Status(302) \o Body(1)
      \/ \E t \in {"plain", "image"} :
            s = Put("type", t) \o Status(200) \o App \o Body(1) \o Flush \o App \o Body(1) \o Flush \o App
  BY Zenon DEF Respond
<1>6. Plain(s)
  <2>1. CASE s = Put("type", "image") \o Status(200) \o Body(2)
    BY ONLY <1>2, <2>1, Zenon
  <2>2. CASE s = Put("type", "html") \o Status(302) \o Body(1)
    BY ONLY <1>3, <2>2, Zenon
  <2>3. CASE \E t \in {"plain", "image"} :
               s = Put("type", t) \o Status(200) \o App \o Body(1) \o Flush \o App \o Body(1) \o Flush \o App
    <3>1. PICK t \in {"plain", "image"} :
             s = Put("type", t) \o Status(200) \o App \o Body(1) \o Flush \o App \o Body(1) \o Flush \o App
      BY ONLY <2>3, Zenon
    <3>2. Plain(Put("type", t) \o Status(200) \o App \o Body(1) \o Flush \o App \o Body(1) \o Flush \o App)
      BY ONLY <1>4, Zenon
    <3> QED  BY ONLY <3>1, <3>2, Zenon
  <2> QED  BY ONLY <1>5, <2>1, <2>2, <2>3, Zenon
<1> QED  BY <1>6, PlainKnown

\* A stream of events (stream.go).
LEMMA EventsKnown ==
    ASSUME NEW s \in Events
    PROVE  Known(s)
<1>1. Opens(Put("type", "events")) /\ Plain(Flush) /\ Goes(Body(1)) /\ Goes(App) /\ Goes(Flush)
  <2>1. 1 \in Nat /\ "events" \in Media
    BY DEF Media
  <2> QED  BY <2>1, SmallScripts
<1>2. PICK a, b, c, d, e, f, g, h : /\ a = Put("type", "events") \o Flush /\ b = a \o App /\ c = b \o Body(1)
                                    /\ d = c \o Flush /\ e = d \o App /\ f = e \o Body(1) /\ g = f \o Flush
                                    /\ h = g \o App
  OBVIOUS
<1>3. Plain(a)
  BY <1>1, <1>2, OpensPlain
<1>4. Plain(b)
  BY ONLY <1>1, <1>2, <1>3, PlainGoes
<1>5. Plain(c)
  BY ONLY <1>1, <1>2, <1>4, PlainGoes
<1>6. Plain(d)
  BY ONLY <1>1, <1>2, <1>5, PlainGoes
<1>7. Plain(e)
  BY ONLY <1>1, <1>2, <1>6, PlainGoes
<1>8. Plain(f)
  BY ONLY <1>1, <1>2, <1>7, PlainGoes
<1>9. Plain(g)
  BY ONLY <1>1, <1>2, <1>8, PlainGoes
<1>10. Plain(h)
  BY ONLY <1>1, <1>2, <1>9, PlainGoes
<1>11. s = Put("type", "events") \o Flush \o App \o Body(1) \o Flush \o App \o Body(1) \o Flush \o App
  BY Zenon DEF Events
<1>12. s = h
  BY ONLY <1>2, <1>11, Zenon
<1> QED  BY <1>10, <1>12, PlainKnown

\* The mux, stored files and the handlers of the application.
LEMMA OthersKnown ==
    ASSUME NEW s \in MuxAnswers \cup Others
    PROVE  Known(s)
<1>1. /\ Plain(Status(301)) /\ Plain(Status(204)) /\ Plain(Status(201)) /\ Plain(HttpError(404))
      /\ Opens(App) /\ Plain(App) /\ Goes(App) /\ Plain(Body(1)) /\ Goes(Body(1)) /\ Goes(Body(2))
      /\ Opens(Put("type", "json"))
  <2>1. 301 \in Nat \ {0} /\ 204 \in Nat \ {0} /\ 201 \in Nat \ {0} /\ 404 \in Nat \ {0} /\ 1 \in Nat /\ 2 \in Nat
    OBVIOUS
  <2>2. "json" \in Media
    BY DEF Media
  <2> QED  BY <2>1, <2>2, SmallScripts, ErrorPlain
<1>2. Plain(App \o Status(204))
  BY <1>1, OpensPlain
<1>3. Plain(App \o Body(1) \o App \o Body(2) \o App)
  <2>1. Plain(App \o Body(1))
    BY <1>1, OpensPlain
  <2>2. Plain(App \o Body(1) \o App)
    BY <1>1, <2>1, PlainGoes
  <2>3. Plain(App \o Body(1) \o App \o Body(2))
    BY <1>1, <2>2, PlainGoes
  <2> QED  BY <1>1, <2>3, PlainGoes
<1>4. Plain(App \o Put("type", "json") \o Status(201) \o Body(1) \o Body(1))
  <2>1. Opens(App \o Put("type", "json"))
    BY <1>1, OpensOpens
  <2>2. Plain(App \o Put("type", "json") \o Status(201))
    BY <1>1, <2>1, OpensPlain
  <2>3. Plain(App \o Put("type", "json") \o Status(201) \o Body(1))
    BY <1>1, <2>2, PlainGoes
  <2> QED  BY <1>1, <2>3, PlainGoes
<1>5. Known(Put("type", "html") \o Put("encoding", "gzip") \o Put("length", 2) \o Status(200)
              \o <<[do |-> "write", n |-> 2, gz |-> 1]>>)
  BY StoredKnown
<1>6. \/ s = Status(301) \/ s = HttpError(404)
      \/ s = Put("type", "html") \o Put("encoding", "gzip") \o Put("length", 2) \o Status(200)
               \o <<[do |-> "write", n |-> 2, gz |-> 1]>>
      \/ s = App \o Status(204) \/ s = App \/ s = App \o Body(1) \o App \o Body(2) \o App
      \/ s = App \o Put("type", "json") \o Status(201) \o Body(1) \o Body(1)
  BY Zenon DEF MuxAnswers, Others
<1>7. Plain(s) \/ Known(s)
  <2>1. CASE s = Status(301) \/ s = HttpError(404) \/ s = App
    BY ONLY <1>1, <2>1, Zenon
  <2>2. CASE s = Put("type", "html") \o Put("encoding", "gzip") \o Put("length", 2) \o Status(200)
                  \o <<[do |-> "write", n |-> 2, gz |-> 1]>>
    BY ONLY <1>5, <2>2, Zenon
  <2>3. CASE s = App \o Status(204)
    BY ONLY <1>2, <2>3, Zenon
  <2>4. CASE s = App \o Body(1) \o App \o Body(2) \o App
    BY ONLY <1>3, <2>4, Zenon
  <2>5. CASE s = App \o Put("type", "json") \o Status(201) \o Body(1) \o Body(1)
    BY ONLY <1>4, <2>5, Zenon
  <2> QED  BY ONLY <1>6, <2>1, <2>2, <2>3, <2>4, <2>5, Zenon
<1> QED  BY <1>7, PlainKnown

\* Every script sets its headers first, and promises the length that it then writes.
LEMMA ScriptsKnown ==
    \A s \in Scripts : Tidy(s) /\ Follows(s, 0, FALSE)
<1>1. 200 \in Nat \ {0} /\ 404 \in Nat \ {0} /\ 1 \in Nat /\ 2 \in Nat
  OBVIOUS
<1>2. \A s \in Render(200, 1) \cup Render(404, 2) : Known(s)
  BY <1>1, RenderKnown
<1>3. \A s \in RenderFails \cup Respond \cup Events \cup (MuxAnswers \cup Others) : Known(s)
  BY FailsKnown, RespondKnown, EventsKnown, OthersKnown
<1>4. \A s \in Scripts : Known(s)
  BY <1>2, <1>3 DEF Scripts
<1> QED  BY <1>4 DEF Known

-----------------------------------------------------------------------------
(* The layers that may answer, and the handler.                             *)

\* CSRF.Handler keeps the invariant, whether it lets through or answers (csrf.go).
LEMMA CSRFEntered ==
    ASSUME PipeInv, EnterCSRF
    PROVE  PipeInv'
<1>1. /\ phase = "entering" /\ layer <= Len(chain) /\ chain[layer] = "csrf"
      /\ UNCHANGED <<chain, request, wire, ctxID, log, span>>
  BY DEF EnterCSRF, Entering, routeVars, noteVars
<1>2. /\ headers.id = ctxID /\ log.id \in {"", ctxID} /\ log.status = 0 /\ span.state # "open" /\ span.status = 0
      /\ DOMAIN headers = {"type", "length", "encoding", "vary", "id"} /\ DOMAIN log = {"status", "bytes", "id"}
      /\ calls = <<>> /\ said.status = 0 /\ said.body = <<>>
  BY <1>1, FreshReports
<1>3. PipeTypes /\ Places /\ Fresh
  BY <1>1 DEF PipeInv
<1>4. Grown(writers)
  BY <1>1, <1>3, SameGrown
<1>5. CASE (request.safe \/ request.token) /\ HandOn(writers) /\ UNCHANGED <<calls, headers, sayVars>>
  <2>1. LetThrough(layer)
    BY <1>1, <1>5 DEF LetThrough
  <2>2. UNCHANGED <<calls, headers, said, panic, script>>
    BY <1>5 DEF sayVars
  <2> QED  BY <1>1, <1>2, <1>4, <1>5, <2>1, <2>2, HandsOn
<1>6. CASE /\ LayerFails(TopWriter, 403) /\ phase' = "leaving" /\ layer' = layer - 1
           /\ UNCHANGED <<tops, writers, script, panic>>
  <2>1. PICK t : t = Len(writers)
    OBVIOUS
  <2>2. 403 \in Nat \ {0} /\ t \in Nat /\ LayerFails(t, 403)
    BY <1>3, <1>6, <2>1, WriterTypes DEF TopWriter
  <2>3. Answers(t, 403)
    BY <1>2, <1>3, <2>2, FailsAre
  <2>4. /\ layer \in Nat /\ layer >= 1 /\ Len(tops) = layer - 1 /\ tops \in Seq(Nat) /\ DOMAIN tops = 1..(layer - 1)
        /\ layer - 1 \in Nat /\ panic = "none" /\ Len(chain) \in Nat
    <3>1. layer \in Nat /\ tops \in Seq(Nat) /\ panic = "none" /\ chain \in Seq(Layers)
      BY <1>3 DEF PipeTypes, Fresh, Places
    <3>2. layer \in 1..(Len(chain) + 1) /\ Len(tops) = layer - 1
      BY <1>1, <1>3 DEF Places
    <3> QED  BY <3>1, <3>2
  <2>5. PipeTypes'
    <3>1. /\ writers' \in Seq(AWriter \cup ACompressor) /\ tops' \in Seq(Nat) /\ layer' \in Nat
          /\ panic' \in {"none", "bug", "abort"}
      BY <1>3, <1>6, <2>4 DEF PipeTypes
    <3> QED  BY <1>1, <1>3, <1>6, <2>2, <2>3, <3>1, AnswersTypes
  <2>6. \A k : Compresses(k)' <=> Compresses(k)
    BY <1>6 DEF Compresses
  <2>7. Places'
    <3>1. /\ chain' \in Seq(Layers)
          /\ phase' = "leaving" /\ layer' <= Len(tops') + 1 /\ Len(tops') <= Len(chain') /\ layer' <= Len(tops')
          /\ panic' = "none"
      BY <1>1, <1>3, <1>6, <2>4 DEF Places
    <3>2. \A i \in DOMAIN tops' :
          /\ tops'[i] \in 0..Len(writers')
          /\ chain'[i] \in {"log", "recover", "only", "except"} => tops'[i] >= 1 /\ ~Compresses(tops[i])'
          /\ chain'[i] = "compress" /\ request'.gzip => tops'[i] >= 1 /\ Compresses(tops[i])'
      <4>1. tops' = tops /\ writers' = writers /\ chain' = chain /\ request' = request
        BY <1>1, <1>6
      <4>2. \A i \in DOMAIN tops : Compresses(tops[i])' <=> Compresses(tops[i])
        BY <4>1 DEF Compresses
      <4> QED  BY <1>3, <4>1, <4>2 DEF Places
    <3>3. \A i, j \in DOMAIN tops' : i < j =>
          /\ tops'[i] <= tops'[j]
          /\ chain'[j] = "compress" /\ request'.gzip => tops'[i] < tops'[j]
      BY <1>1, <1>3, <1>6 DEF Places
    <3>4. \A k \in 1..Len(writers') : Compresses(k)' =>
          request'.gzip /\ \E i \in DOMAIN tops' : chain'[i] = "compress" /\ tops'[i] = k
      BY <1>1, <1>3, <1>6, <2>6 DEF Places
    <3> QED  BY <3>1, <3>2, <3>3, <3>4 DEF Places
  <2>8. Untouched(t)' /\ headers.encoding = "none" /\ ~said.pushed
    BY <1>1, <1>3, <1>4, <1>6, <2>1, FreshUntouched
  <2>9. Live(t)'
    <3>1. \A i \in DOMAIN tops : tops[i] <= t /\ i <= layer - 1
      <4>1. \A i \in DOMAIN tops : tops[i] \in 0..t
        BY <1>3, <2>1 DEF Places
      <4> QED  BY <2>2, <2>4, <4>1
    <3>2. \A k \in 1..t : Compresses(k) => \E i \in DOMAIN tops : chain[i] = "compress" /\ tops[i] = k
      BY <1>3, <2>1 DEF Places
    <3>3. t \in 0..t /\ ~(t < t) /\ \A k \in (t + 1)..t : FALSE
      BY <2>2
    <3>4. phase' = "leaving" /\ Len(writers') = t
      BY <1>6, <2>1
    <3> QED  BY <1>1, <1>6, <2>6, <3>1, <3>2, <3>3, <3>4 DEF Live
  <2>10. \E T \in Nat : \E got, sent \in [0..T -> Nat] : Flow(T, got, sent)'
    BY <2>2, <2>3, <2>5, <2>8, <2>9, AnswersFlow
  <2>11. Scripted' /\ Recovered' /\ Guarded'
    BY <1>6, <2>4 DEF Scripted, Recovered, Guarded
  <2>12. Promised'
    <3>1. headers'.length = 0
      BY <1>3, <2>3 DEF Fresh, Answers
    <3> QED  BY <3>1 DEF Promised
  <2>13. Reports'
    <3>1. headers'.id = headers.id
      BY <2>3 DEF Answers
    <3> QED  BY <1>1, <1>2, <3>1 DEF Reports
  <2> QED  BY <1>6, <2>5, <2>7, <2>10, <2>11, <2>12, <2>13 DEF PipeInv
<1>7. \/ (request.safe \/ request.token) /\ HandOn(writers) /\ UNCHANGED <<calls, headers, sayVars>>
      \/ /\ LayerFails(TopWriter, 403) /\ phase' = "leaving" /\ layer' = layer - 1
         /\ UNCHANGED <<tops, writers, script, panic>>
  BY DEF EnterCSRF
<1> QED  BY <1>5, <1>6, <1>7

\* Named, Only and Except keep it (mw.go).
LEMMA GuardEntered ==
    ASSUME PipeInv, EnterGuard
    PROVE  PipeInv'
<1>1. /\ phase = "entering" /\ layer <= Len(chain) /\ chain[layer] \in {"only", "except"}
      /\ UNCHANGED <<chain, request, wire, ctxID, log>>
  BY DEF EnterGuard, Entering, routeVars
<1>2. /\ headers.id = ctxID /\ log.id \in {"", ctxID} /\ log.status = 0
      /\ DOMAIN headers = {"type", "length", "encoding", "vary", "id"} /\ DOMAIN log = {"status", "bytes", "id"}
      /\ calls = <<>> /\ said.status = 0 /\ said.body = <<>>
  BY <1>1, FreshReports
<1>3. PipeTypes /\ Places /\ Fresh
  BY <1>1 DEF PipeInv
<1>4. Grown(Wrap)
  BY <1>1, <1>3, WrapGrown
<1>5. CASE /\ Applies(chain[layer]) => request.signedIn
           /\ HandOn(Wrap) /\ span' = [state |-> "ended", status |-> 0] /\ UNCHANGED <<calls, headers, sayVars>>
  <2>1. LetThrough(layer)
    BY <1>1, <1>5 DEF LetThrough
  <2>2. UNCHANGED <<calls, headers, said, panic, script>> /\ span'.state # "open" /\ span'.status = 0
    BY <1>5 DEF sayVars
  <2> QED  BY <1>1, <1>2, <1>4, <1>5, <2>1, <2>2, HandsOn
<1>6. CASE /\ writers' = Wrap /\ tops' = Append(tops, Len(Wrap)) /\ LayerAnswers(Len(Wrap), 302)
           /\ phase' = "leaving" /\ span' = [state |-> "open", status |-> 0] /\ UNCHANGED <<layer, script, panic>>
  <2>1. PICK w, t : w = Wrap /\ t = Len(w)
    OBVIOUS
  <2>2. Grown(w) /\ writers' = w /\ tops' = Append(tops, Len(w)) /\ 302 \in Nat \ {0} /\ LayerAnswers(t, 302)
    BY <1>4, <1>6, <2>1
  <2>3. t \in Nat
    BY <2>1, <2>2 DEF Grown
  <2>4. Answers(t, 302)
    BY <1>2, <1>3, <2>2, <2>3, AnswersAre
  <2>5. /\ Places' /\ tops' \in Seq(Nat) /\ layer' \in Nat
        /\ Len(tops') = layer /\ tops'[layer] = t /\ DOMAIN tops' = 1..layer /\ layer >= 1
    BY <1>1, <1>3, <1>6, <2>1, <2>2, GrownPlaces
  <2>6. PipeTypes'
    <3>1. /\ writers' \in Seq(AWriter \cup ACompressor) /\ panic' \in {"none", "bug", "abort"}
      BY <1>3, <1>6, <2>2 DEF PipeTypes, Grown
    <3> QED  BY <1>1, <1>3, <1>6, <2>2, <2>3, <2>4, <2>5, <3>1, AnswersTypes
  <2>7. Untouched(t)' /\ headers.encoding = "none" /\ ~said.pushed
    BY <1>1, <1>3, <2>1, <2>2, FreshUntouched
  <2>8. Live(t)'
    <3>1. \A i \in DOMAIN tops' : tops'[i] <= t
      <4>1. \A i \in DOMAIN tops' : tops'[i] \in 0..t
        BY <2>1, <2>2, <2>5 DEF Places
      <4> QED  BY <2>3, <4>1
    <3>2. \A k \in 1..t : Compresses(k)' => \E i \in DOMAIN tops' : chain'[i] = "compress" /\ tops'[i] = k
      BY <2>1, <2>2, <2>5 DEF Places
    <3>3. t \in 0..t /\ ~(t < t) /\ \A k \in (t + 1)..t : FALSE
      BY <2>3
    <3>4. phase' = "leaving" /\ Len(writers') = t
      BY <1>6, <2>1, <2>2
    <3>5. layer \in Nat
      BY <1>3 DEF PipeTypes
    <3>6. \A i \in DOMAIN tops' : i <= layer'
      <4>1. layer' = layer
        BY <1>6
      <4>2. \A i \in 1..layer : i <= layer
        BY <3>5
      <4> QED  BY <2>5, <4>1, <4>2
    <3> QED  BY <3>1, <3>2, <3>3, <3>4, <3>6 DEF Live
  <2>9. \E T \in Nat : \E got, sent \in [0..T -> Nat] : Flow(T, got, sent)'
    BY <2>2, <2>3, <2>4, <2>6, <2>7, <2>8, AnswersFlow
  <2>10. panic = "none"
    BY <1>3 DEF Fresh
  <2>11. Scripted' /\ Recovered' /\ Guarded'
    BY <1>6, <2>10 DEF Scripted, Recovered, Guarded
  <2>12. Promised'
    <3>1. headers'.length = 0
      BY <1>3, <2>4 DEF Fresh, Answers
    <3> QED  BY <3>1 DEF Promised
  <2>13. Reports'
    <3>1. headers'.id = headers.id
      BY <2>4 DEF Answers
    <3>2. span'.state = "open" /\ span'.status = 0
      BY <1>6
    <3>3. layer' \in DOMAIN chain' /\ chain'[layer'] \in {"only", "except"}
      <4>1. layer' = layer /\ chain' = chain /\ layer \in Nat /\ chain \in Seq(Layers)
        BY <1>1, <1>3, <1>6 DEF PipeTypes, Places
      <4> QED  BY <1>1, <2>5, <4>1
    <3> QED  BY <1>1, <1>2, <1>6, <2>10, <3>1, <3>2, <3>3 DEF Reports
  <2> QED  BY <1>6, <2>5, <2>6, <2>9, <2>11, <2>12, <2>13 DEF PipeInv
<1>7. \/ /\ Applies(chain[layer]) => request.signedIn
         /\ HandOn(Wrap) /\ span' = [state |-> "ended", status |-> 0] /\ UNCHANGED <<calls, headers, sayVars>>
      \/ /\ writers' = Wrap /\ tops' = Append(tops, Len(Wrap)) /\ LayerAnswers(Len(Wrap), 302)
         /\ phase' = "leaving" /\ span' = [state |-> "open", status |-> 0] /\ UNCHANGED <<layer, script, panic>>
  BY DEF EnterGuard
<1> QED  BY <1>5, <1>6, <1>7

\* The handler is entered behind all of its guards.
LEMMA HandlerEntered ==
    ASSUME PipeInv, EnterHandler
    PROVE  PipeInv'
<1>1. /\ phase = "entering" /\ calls = <<>> /\ layer > Len(chain) /\ phase' = "handling" /\ layer' = Len(chain)
      /\ UNCHANGED <<chain, request, tops, writers, calls, headers, wire, script, said, panic, ctxID, log, span>>
  BY DEF EnterHandler, routeVars, sayVars, noteVars
<1>2. PipeTypes /\ Places /\ Fresh /\ Guarded
  BY <1>1 DEF PipeInv
<1>3. /\ headers.id = ctxID /\ log.id \in {"", ctxID} /\ log.status = 0 /\ span.state # "open" /\ span.status = 0
      /\ said.status = 0 /\ said.body = <<>>
  BY <1>1, FreshReports
<1>4. /\ layer = Len(chain) + 1 /\ Len(tops) = Len(chain) /\ Len(chain) \in Nat /\ DOMAIN tops = 1..Len(chain)
      /\ DOMAIN chain = 1..Len(chain) /\ tops \in Seq(Nat)
  <2>1. layer \in 1..(Len(chain) + 1) /\ Len(tops) = layer - 1 /\ chain \in Seq(Layers) /\ tops \in Seq(Nat)
    BY <1>1, <1>2 DEF Places, PipeTypes
  <2> QED  BY <1>1, <2>1
<1>5. PipeTypes'
  BY <1>1, <1>2, <1>4 DEF PipeTypes
<1>6. Places'
  <2>1. \A i \in DOMAIN tops : Compresses(tops[i])' <=> Compresses(tops[i])
    BY <1>1 DEF Compresses
  <2>2. \A k : Compresses(k)' <=> Compresses(k)
    BY <1>1 DEF Compresses
  <2>3. /\ phase' = "handling" /\ layer' = Len(chain) /\ Len(tops') = layer' /\ layer' <= Len(tops') + 1
        /\ Len(tops') <= Len(chain) /\ panic' = "none"
    BY <1>1, <1>2, <1>4 DEF Fresh
  <2> QED  BY <1>1, <1>2, <2>1, <2>2, <2>3 DEF Places
<1>7. PICK t : t = Len(writers)
  OBVIOUS
<1>8. t \in Nat
  BY <1>2, <1>7, WriterTypes
<1>9. Untouched(t)' /\ headers.encoding = "none" /\ headers.length = 0 /\ ~said.pushed
  <2>1. wire.status = 0 /\ wire.body = <<>> /\ ~said.pushed /\ headers.encoding = "none" /\ headers.length = 0
    BY <1>2 DEF Fresh, NewWire, Nothing
  <2>2. DOMAIN writers = 1..t /\ \A k \in DOMAIN writers : writers[k] \in {NewWriter, NewCompressor}
    BY <1>2, <1>7, WriterTypes DEF Fresh
  <2>3. ASSUME NEW k \in 1..t
        PROVE  /\ ~Told(k)' /\ writers'[k].status = 200
               /\ Compresses(k)' => ~writers'[k].on /\ writers'[k].buf = <<>> /\ writers'[k].held = <<>>
               /\ ~Compresses(k)' => writers'[k].bytes = 0
    <3>1. writers'[k] \in {NewWriter, NewCompressor} /\ k # 0
      BY <1>1, <2>2
    <3>2. CASE writers'[k] = NewWriter
      BY <3>1, <3>2, NewOnes DEF Told, Compresses
    <3>3. CASE writers'[k] = NewCompressor
      BY <3>1, <3>3, NewOnes DEF Told, Compresses
    <3> QED  BY <3>1, <3>2, <3>3
  <2> QED  BY <1>1, <2>1, <2>3 DEF Untouched
<1>10. Live(t)'
  <2>1. \A i \in DOMAIN tops : tops[i] <= t
    <3>1. \A i \in DOMAIN tops : tops[i] \in 0..t
      BY <1>2, <1>7 DEF Places
    <3> QED  BY <1>8, <3>1
  <2>2. \A i \in DOMAIN tops : i <= layer'
    BY <1>1, <1>4
  <2>3. \A k \in 1..t : Compresses(k) => \E i \in DOMAIN tops : chain[i] = "compress" /\ tops[i] = k
    BY <1>2, <1>7 DEF Places
  <2>4. t \in 0..t /\ ~(t < t) /\ \A k \in (t + 1)..t : FALSE
    BY <1>8
  <2>5. \A k : Compresses(k)' <=> Compresses(k)
    BY <1>1 DEF Compresses
  <2>6. Len(writers') = t
    BY <1>1, <1>7
  <2> QED  BY <1>1, <2>1, <2>2, <2>3, <2>4, <2>5, <2>6 DEF Live
<1>11. Opening(t)'
  <2>1. Silent(t)'
    BY <1>1, <1>3, <1>7 DEF Silent
  <2> QED  BY <1>1, <1>5, <1>9, <1>10, <2>1 DEF Opening
<1>12. \E T \in Nat : \E got, sent \in [0..T -> Nat] : Flow(T, got, sent)'
  <2>1. (\A u \in Nat : Opening(u) => \E got, sent \in [0..u -> Nat] : Flow(u, got, sent))'
    BY OpeningFlows
  <2> QED  BY <1>8, <1>11, <2>1
<1>13. Scripted'
  <2>1. script \in Scripts
    BY <1>2 DEF Fresh
  <2>2. Tidy(script) /\ Follows(script, 0, FALSE)
    BY <2>1, ScriptsKnown
  <2>4. Gz(Len(writers))' = 0
    BY <1>1, <1>9 DEF Gz
  <2>5. Follows(script, headers.length, Gz(Len(writers)) = 1)'
    BY <1>1, <1>9, <2>2, <2>4 DEF Follows, Sets
  <2>6. Tidy(script)'
    BY <1>1, <2>2 DEF Tidy, Sets
  <2> QED  BY <1>1, <1>3, <1>9, <2>5, <2>6 DEF Scripted
<1>14. Promised' /\ Recovered'
  BY <1>1, <1>2, <1>9 DEF Promised, Recovered, Fresh
<1>15. Reports'
  BY <1>1, <1>3 DEF Reports
<1>16. Guarded'
  <2>1. \A i \in 1..(layer - 1) : LetThrough(i)
    BY <1>1, <1>2 DEF Guarded
  <2>2. \A i \in DOMAIN chain : i \in 1..(layer - 1)
    BY <1>4
  <2>3. \A i : LetThrough(i)' <=> LetThrough(i)
    BY <1>1 DEF LetThrough, Applies
  <2> QED  BY <1>1, <2>1, <2>2, <2>3 DEF Guarded
<1> QED  BY <1>1, <1>5, <1>6, <1>12, <1>13, <1>14, <1>15, <1>16 DEF PipeInv

-----------------------------------------------------------------------------
(* What the handler does.                                                   *)

\* The rest of a script is a script, once its first act is done.
LEMMA TailScript ==
    ASSUME NEW s, Tidy(s), s # <<>>, NEW l, NEW g, NEW l2, NEW g2, Follows(s, l, g = 1),
           l2 = IF Sets(s, 1, "length") THEN s[1].to ELSE l, (g2 = 1) <=> (g = 1 \/ Sets(s, 1, "encoding"))
    PROVE  Tidy(Tail(s)) /\ Follows(Tail(s), l2, g2 = 1)
<1>1. s \in Seq(Act)
  BY DEF Tidy
<1>2. PICK t, n : t = Tail(s) /\ n = Len(t)
  OBVIOUS
<1>3. /\ t \in Seq(Act) /\ n \in Nat /\ Len(s) = n + 1 /\ DOMAIN t = 1..n /\ DOMAIN s = 1..(n + 1)
      /\ \A i \in 1..n : t[i] = s[i + 1]
  BY ONLY <1>1, <1>2, s # <<>>
<1>4. /\ \A i \in 1..n : i + 1 \in 1..(n + 1) /\ (i + 1) - 1 = i /\ \A j \in 1..(i - 1) : j + 1 \in 1..i /\ j \in 1..n
      /\ \A i \in 1..n : \A j \in 1..i : j = 1 \/ (j - 1 \in 1..(i - 1) /\ (j - 1) + 1 = j)
      /\ 1 \in 1..(n + 1)
  BY ONLY <1>3
<1>10. PICK m : m = Len(s)
  OBVIOUS
<1>11. m = n + 1 /\ n \in Nat
  BY <1>3, <1>10
<1>5. \A i \in 1..n : \A f : Sets(t, i, f) <=> Sets(s, i + 1, f)
  BY <1>3 DEF Sets
<1>6. Tidy(t)
  <2>1. \A i \in 1..n : t[i].do \in {"set", "header"} => \A j \in 1..(i - 1) : t[j].do \in {"app", "set"}
    <3> SUFFICES ASSUME NEW i \in 1..n, t[i].do \in {"set", "header"}, NEW j \in 1..(i - 1)
                PROVE  t[j].do \in {"app", "set"}
      OBVIOUS
    <3>1. i + 1 \in DOMAIN s /\ s[i + 1].do \in {"set", "header"} /\ j + 1 \in 1..((i + 1) - 1)
      BY <1>3, <1>4
    <3>2. s[j + 1].do \in {"app", "set"}
      BY <3>1 DEF Tidy
    <3> QED  BY <1>3, <1>4, <3>2
  <2>2. \A i \in 1..n : Sets(t, i, "length") /\ t[i].to # 0 =>
          /\ Len(t) = i + 2 /\ t[i + 1].do = "header" /\ t[i + 2].do = "write"
          /\ t[i].to = Weight(t[i + 2].n, t[i + 2].gz)
    <3> SUFFICES ASSUME NEW i \in 1..n, Sets(t, i, "length"), t[i].to # 0
                PROVE  /\ Len(t) = i + 2 /\ t[i + 1].do = "header" /\ t[i + 2].do = "write"
                       /\ t[i].to = Weight(t[i + 2].n, t[i + 2].gz)
      OBVIOUS
    <3>1. PICK k : k = i + 1
      OBVIOUS
    <3>2. k \in DOMAIN s /\ Sets(s, k, "length") /\ s[k].to # 0 /\ t[i] = s[k] /\ k \in Nat
      BY <1>3, <1>4, <1>5, <3>1
    <3>3. /\ Len(s) = k + 2 /\ s[k + 1].do = "header" /\ s[k + 2].do = "write"
          /\ s[k].to = Weight(s[k + 2].n, s[k + 2].gz)
      BY <3>2 DEF Tidy
    <3>4. n = i + 2 /\ k + 1 = (i + 1) + 1 /\ k + 2 = (i + 2) + 1 /\ i + 1 \in 1..n /\ i + 2 \in 1..n
      BY ONLY <1>3, <3>1, <3>3
    <3>5. t[i + 1] = s[k + 1] /\ t[i + 2] = s[k + 2]
      BY <1>3, <3>4
    <3> QED  BY <1>2, <3>2, <3>3, <3>4, <3>5
  <2>3. \A i \in 1..n : Sets(t, i, "encoding") => \A j \in 1..n : t[j].do # "app"
    <3> SUFFICES ASSUME NEW i \in 1..n, Sets(t, i, "encoding"), NEW j \in 1..n
                PROVE  t[j].do # "app"
      OBVIOUS
    <3>1. i + 1 \in DOMAIN s /\ Sets(s, i + 1, "encoding") /\ j + 1 \in DOMAIN s
      BY <1>3, <1>4, <1>5
    <3>2. s[j + 1].do # "app"
      BY <3>1 DEF Tidy
    <3> QED  BY <1>3, <3>2
  <2> QED  BY <1>3, <2>1, <2>2, <2>3 DEF Tidy
<1>7. \A i \in 1..n : t[i].do = "write" => (t[i].gz = 1 <=> g2 = 1 \/ \E j \in 1..(i - 1) : Sets(t, j, "encoding"))
  <2> SUFFICES ASSUME NEW i \in 1..n, t[i].do = "write"
              PROVE  t[i].gz = 1 <=> g2 = 1 \/ \E j \in 1..(i - 1) : Sets(t, j, "encoding")
    OBVIOUS
  <2>1. i + 1 \in DOMAIN s /\ s[i + 1].do = "write" /\ s[i + 1] = t[i] /\ (i + 1) - 1 = i
    BY <1>3, <1>4
  <2>2. s[i + 1].gz = 1 <=> g = 1 \/ \E j \in 1..i : Sets(s, j, "encoding")
    BY <2>1 DEF Follows
  <2>3. (\E j \in 1..i : Sets(s, j, "encoding")) <=>
            (Sets(s, 1, "encoding") \/ \E j \in 1..(i - 1) : Sets(s, j + 1, "encoding"))
    <3>1. 1 \in 1..i /\ \A j \in 1..(i - 1) : j + 1 \in 1..i
      BY ONLY <1>3
    <3> QED  BY <1>4, <3>1
  <2>4. \A j \in 1..(i - 1) : Sets(t, j, "encoding") <=> Sets(s, j + 1, "encoding")
    BY <1>4, <1>5
  <2> QED  BY <2>1, <2>2, <2>3, <2>4
<1>8. ASSUME l2 # 0
      PROVE  \/ t = <<>>
             \/ Len(t) = 1 /\ t[1].do = "write" /\ l2 = Weight(t[1].n, t[1].gz)
             \/ Len(t) = 2 /\ t[1].do = "header" /\ t[2].do = "write" /\ l2 = Weight(t[2].n, t[2].gz)
  <2>1. CASE Sets(s, 1, "length")
    <3>1. /\ Len(s) = 1 + 2 /\ s[1 + 1].do = "header" /\ s[1 + 2].do = "write"
          /\ l2 = Weight(s[1 + 2].n, s[1 + 2].gz)
      BY <1>3, <1>4, <1>8, <2>1 DEF Tidy
    <3>2. n = 2 /\ 1 \in 1..n /\ 2 \in 1..n /\ 2 + 1 = 1 + 2
      <4>1. m = 1 + 2
        BY ONLY <1>10, <3>1
      <4> QED  BY ONLY <1>11, <4>1
    <3>3. t[1] = s[1 + 1] /\ t[2] = s[1 + 2]
      BY <1>3, <3>2
    <3> QED  BY <1>2, <3>1, <3>2, <3>3
  <2>2. CASE ~Sets(s, 1, "length")
    <3>1. l # 0 /\ l2 = l
      BY <1>8, <2>2
    <3>2. \/ Len(s) = 1
          \/ Len(s) = 2 /\ s[2].do = "write" /\ l2 = Weight(s[2].n, s[2].gz)
      BY <3>1 DEF Follows
    <3>3. CASE Len(s) = 1
      <4>1. n = 0
        <5>1. m = 1
          BY ONLY <1>10, <3>3
        <5> QED  BY ONLY <1>11, <5>1
      <4>2. t = <<>>
        BY ONLY <1>2, <1>3, <4>1
      <4> QED  BY <4>2
    <3>4. CASE Len(s) = 2 /\ s[2].do = "write" /\ l2 = Weight(s[2].n, s[2].gz)
      <4>1. n = 1 /\ 1 \in 1..n /\ 1 + 1 = 2
        <5>1. m = 2
          BY ONLY <1>10, <3>4
        <5> QED  BY ONLY <1>11, <5>1
      <4>2. t[1] = s[2]
        BY <1>3, <4>1
      <4> QED  BY <1>2, <3>4, <4>1, <4>2
    <3> QED  BY <3>2, <3>3, <3>4
  <2> QED  BY <2>1, <2>2
<1>9. Follows(t, l2, g2 = 1)
  BY <1>3, <1>7, <1>8 DEF Follows
<1> QED  BY <1>2, <1>6, <1>9

\* What is so when the handler is about to act.
Acting(T, got, sent, c) ==
    /\ PipeTypes /\ Places /\ T \in Nat /\ T = Len(writers) /\ Flow(T, got, sent)
    /\ got \in [0..T -> Nat] /\ sent \in [0..T -> Nat] /\ panic = "none"
    /\ Tidy(script) /\ Follows(script, headers.length, Gz(T) = 1)
    /\ script \in Seq(Act) /\ script # <<>> /\ c = script[1] /\ c = Head(script) /\ c \in Act /\ 1 \in DOMAIN script
    /\ c.do \in {"set", "header"} => said.status = 0
    /\ headers.length # 0 => said.body = <<>>

\* What is known when the handler runs.
LEMMA HandlerActs ==
    ASSUME PipeInv, phase = "handling", calls = <<>>, script # <<>>
    PROVE  \E T, got, sent, c : Acting(T, got, sent, c)
<1>1. PipeTypes /\ Places /\ Scripted
  BY DEF PipeInv
<1>2. PICK T \in Nat : \E got, sent \in [0..T -> Nat] : Flow(T, got, sent)
  BY DEF PipeInv
<1>3. PICK got \in [0..T -> Nat], sent \in [0..T -> Nat] : Flow(T, got, sent)
  BY <1>2
<1>4. T = Len(writers)
  BY <1>3 DEF Flow, Live
<1>5. /\ Tidy(script) /\ Follows(script, headers.length, Gz(T) = 1)
      /\ headers.length # 0 /\ script # <<>> => said.body = <<>>
      /\ said.status # 0 => \A i \in DOMAIN script : script[i].do \notin {"set", "header"}
  BY <1>1, <1>4 DEF Scripted
<1>6. script \in Seq(Act)
  BY <1>5 DEF Tidy
<1>7. PICK c : c = script[1]
  OBVIOUS
<1>8. 1 \in DOMAIN script /\ c = Head(script) /\ c \in Act
  BY ONLY <1>6, <1>7, script # <<>>
<1>9. panic = "none"
  BY <1>1 DEF Places
<1> QED  BY <1>1, <1>3, <1>4, <1>5, <1>6, <1>7, <1>8, <1>9 DEF Acting

\* What the handler does not touch.
LEMMA HandlerKeeps ==
    ASSUME PipeInv, phase = "handling",
           UNCHANGED <<chain, request, phase, layer, tops, writers, wire, panic, ctxID, log, span>>,
           headers'.id = headers.id
    PROVE  Places' /\ Reports' /\ Recovered' /\ Guarded'
<1>1. PipeTypes /\ Places /\ Reports /\ Recovered /\ Guarded
  BY DEF PipeInv
<1>2. panic = "none" /\ log.status = 0 /\ span.state # "open" /\ span.status = 0
  BY <1>1 DEF Places, Reports
<1>3. Places'
  <2>1. \A i \in DOMAIN tops : Compresses(tops[i])' <=> Compresses(tops[i])
    BY DEF Compresses
  <2>2. \A k : Compresses(k)' <=> Compresses(k)
    BY DEF Compresses
  <2> QED  BY <1>1, <2>1, <2>2 DEF Places
<1>4. Reports'
  BY <1>1, <1>2 DEF Reports
<1>5. Recovered'
  BY <1>2 DEF Recovered
<1>6. Guarded'
  <2>1. \A i : LetThrough(i)' <=> LetThrough(i)
    BY DEF LetThrough, Applies
  <2> QED  BY <1>1, <2>1 DEF Guarded
<1> QED  BY <1>3, <1>4, <1>5, <1>6

\* What stays of a script that has a part more.
LEMMA RestScript ==
    ASSUME NEW T, NEW got, NEW sent, NEW c, Acting(T, got, sent, c), script' = Tail(script), c.do \notin {"set", "app"},
           headers'.length = headers.length, headers'.encoding = headers.encoding, phase' = "handling",
           UNCHANGED writers, said'.status # 0, headers.length # 0 /\ c.do # "header" => script' = <<>>,
           c.do = "header" => said'.body = <<>>
    PROVE  Scripted'
<1>1. /\ Tidy(script) /\ Follows(script, headers.length, Gz(T) = 1) /\ T = Len(writers)
      /\ script \in Seq(Act) /\ script # <<>> /\ c = script[1]
  BY DEF Acting
<1>2. Gz(T)' = Gz(T)
  <2>1. \A k : Works(k)' <=> Works(k)
    BY DEF Works, Compresses
  <2> QED  BY <2>1 DEF Gz
<1>3. ~Sets(script, 1, "length") /\ ~Sets(script, 1, "encoding")
  BY <1>1 DEF Sets
<1>4. Tidy(Tail(script)) /\ Follows(Tail(script), headers.length, Gz(T) = 1)
  <2>1. PICK l, g, s : l = headers.length /\ g = Gz(T) /\ s = script
    OBVIOUS
  <2>2. Follows(s, l, g = 1) /\ l = IF Sets(s, 1, "length") THEN s[1].to ELSE l
    BY <1>1, <1>3, <2>1
  <2>3. (g = 1) <=> (g = 1 \/ Sets(s, 1, "encoding"))
    BY <1>3, <2>1
  <2>4. Tidy(s) /\ s # <<>>
    BY <1>1, <2>1
  <2>5. Tidy(Tail(s)) /\ Follows(Tail(s), l, g = 1)
    BY ONLY <2>2, <2>3, <2>4, TailScript, ZenonT(60)
  <2> QED  BY <2>1, <2>5
<1>5. Tidy(script')
  BY <1>4
<1>6. Tidy(script)'
  BY <1>5 DEF Tidy, Sets
<1>7. Follows(script', headers.length, Gz(T) = 1)
  BY <1>4
<1>8. Follows(script, headers.length, Gz(Len(writers)) = 1)'
  <2>1. Gz(Len(writers))' = Gz(T)
    BY <1>1, <1>2
  <2> QED  BY <1>7, <2>1 DEF Follows, Sets
<1>9. \A i \in DOMAIN script' : script'[i].do \notin {"set", "header"}
  <2>1. PICK t, n : t = Tail(script) /\ n = Len(t)
    OBVIOUS
  <2>2. /\ n \in Nat /\ DOMAIN t = 1..n /\ DOMAIN script = 1..(n + 1) /\ \A i \in 1..n : t[i] = script[i + 1]
    BY ONLY <1>1, <2>1
  <2>3. \A i \in 1..n : i + 1 \in 1..(n + 1) /\ 1 \in 1..((i + 1) - 1)
    BY ONLY <2>2
  <2>4. ASSUME NEW i \in 1..n, t[i].do \in {"set", "header"}
        PROVE  FALSE
    <3>1. i + 1 \in DOMAIN script /\ script[i + 1].do \in {"set", "header"} /\ 1 \in 1..((i + 1) - 1)
      BY <2>2, <2>3, <2>4
    <3>2. \A j \in 1..((i + 1) - 1) : script[j].do \in {"app", "set"}
      BY <1>1, <3>1 DEF Tidy
    <3>3. c.do \in {"app", "set"}
      BY <1>1, <3>1, <3>2
    <3>4. c.do = "set" \/ c.do = "app"
      BY <3>3
    <3> QED  BY <3>4
  <2> QED  BY <2>1, <2>2, <2>4
<1>10. headers'.length # 0 /\ script' # <<>> => said'.body = <<>>
  OBVIOUS
<1> QED  BY <1>6, <1>8, <1>9, <1>10 DEF Scripted

\* The handler sets a header: nothing has been said.
LEMMA HandlerSets ==
    ASSUME PipeInv, HandlerCalls, NEW T, NEW got, NEW sent, NEW c, Acting(T, got, sent, c), c.do = "set"
    PROVE  PipeInv'
<1>1. /\ phase = "handling" /\ calls = <<>> /\ script' = Tail(script) /\ said' = Asked(said, c) /\ Make(TopWriter, c)
      /\ UNCHANGED <<chain, request, phase, layer, tops, writers, wire, panic, ctxID, log, span>>
  BY DEF HandlerCalls, Acting, routeVars, noteVars
<1>2. /\ PipeTypes /\ Places /\ T \in Nat /\ T = Len(writers) /\ Flow(T, got, sent) /\ panic = "none"
      /\ Tidy(script) /\ Follows(script, headers.length, Gz(T) = 1)
      /\ script \in Seq(Act) /\ script # <<>> /\ c = script[1] /\ c \in Act /\ 1 \in DOMAIN script
      /\ said.status = 0
  BY DEF Acting
<1>3. headers' = [headers EXCEPT ![c.field] = c.to] /\ calls' = calls
  BY <1>1 DEF Make
<1>4. said' = said
  BY <1>1 DEF Asked
<1>5. \/ c.field = "type"
      \/ c.field = "length" /\ c.to \in Nat
      \/ c.field = "encoding" /\ c.to = "gzip"
  BY <1>2 DEF Act
<1>6. /\ DOMAIN headers = {"type", "length", "encoding", "vary", "id"} /\ headers.length \in Nat
      /\ headers.encoding \in {"none", "gzip"} /\ headers.vary \in BOOLEAN
  BY <1>2 DEF PipeTypes
<1>7. /\ DOMAIN headers' = {"type", "length", "encoding", "vary", "id"}
      /\ headers'.id = headers.id /\ headers'.vary = headers.vary
      /\ headers'.length = (IF c.field = "length" THEN c.to ELSE headers.length)
      /\ headers'.encoding = (IF c.field = "encoding" THEN "gzip" ELSE headers.encoding)
  BY <1>3, <1>5, <1>6
<1>8. Untouched(T) /\ said.body = <<>> /\ ~said.pushed
  BY <1>1, <1>2, NothingSaid
<1>9. PipeTypes'
  <2>1. headers'.length \in Nat /\ headers'.encoding \in {"none", "gzip"} /\ headers'.vary \in BOOLEAN
    BY <1>5, <1>6, <1>7
  <2> QED  BY <1>1, <1>2, <1>3, <1>4, <1>7, <2>1 DEF PipeTypes
<1>10. Places' /\ Reports' /\ Recovered' /\ Guarded'
  BY <1>1, <1>7, HandlerKeeps
<1>11. Untouched(T)' /\ Live(T)'
  <2>1. \A k : (Compresses(k)' <=> Compresses(k)) /\ (Told(k)' <=> Told(k))
    BY <1>1 DEF Compresses, Told
  <2>2. Untouched(T)'
    BY <1>1, <1>8, <2>1 DEF Untouched
  <2>3. Live(T) /\ \A k : Closing(k)' <=> Closing(k)
    BY <1>2, <1>3 DEF Flow, Closing, Does
  <2> QED  BY <1>1, <1>4, <2>1, <2>2, <2>3 DEF Live
<1>12. Opening(T)'
  <2>1. Silent(T)'
    BY <1>1, <1>2, <1>3, <1>4, <1>8 DEF Silent
  <2> QED  BY <1>4, <1>8, <1>9, <1>11, <2>1 DEF Opening
<1>13. \E U \in Nat : \E got2, sent2 \in [0..U -> Nat] : Flow(U, got2, sent2)'
  <2>1. (\A u \in Nat : Opening(u) => \E got2, sent2 \in [0..u -> Nat] : Flow(u, got2, sent2))'
    BY OpeningFlows
  <2> QED  BY <1>2, <1>12, <2>1
<1>14. (Gz(T) = 1 <=> headers.encoding = "gzip") /\ (Gz(T)' = 1 <=> headers'.encoding = "gzip")
  <2>1. \A k \in 1..T : ~Works(k)
    BY <1>8 DEF Untouched, Works
  <2>2. \A k : Works(k)' <=> Works(k)
    BY <1>1 DEF Works, Compresses
  <2> QED  BY <2>1, <2>2 DEF Gz
<1>15. /\ Sets(script, 1, "length") <=> c.field = "length"
       /\ Sets(script, 1, "encoding") <=> c.field = "encoding"
  BY <1>2 DEF Sets
<1>16. Tidy(script') /\ Follows(script', headers'.length, Gz(T)' = 1)
  <2>1. PICK l, g, l2, g2, s : l = headers.length /\ g = Gz(T) /\ l2 = headers'.length /\ g2 = Gz(T)' /\ s = script
    OBVIOUS
  <2>2. Follows(s, l, g = 1) /\ Tidy(s) /\ s # <<>>
    BY <1>2, <2>1
  <2>3. l2 = IF Sets(s, 1, "length") THEN s[1].to ELSE l
    BY <1>2, <1>7, <1>15, <2>1
  <2>4. (g2 = 1) <=> (g = 1 \/ Sets(s, 1, "encoding"))
    BY <1>6, <1>7, <1>14, <1>15, <2>1
  <2>5. Tidy(Tail(s)) /\ Follows(Tail(s), l2, g2 = 1)
    BY ONLY <2>2, <2>3, <2>4, TailScript, ZenonT(60)
  <2> QED  BY <1>1, <2>1, <2>5
<1>17. script' \in Seq(Act) /\ \A i \in DOMAIN script' : i + 1 \in DOMAIN script /\ script'[i] = script[i + 1]
  <2>1. PICK t, n : t = Tail(script) /\ n = Len(t)
    OBVIOUS
  <2>2. /\ t \in Seq(Act) /\ n \in Nat /\ DOMAIN t = 1..n /\ DOMAIN script = 1..(n + 1)
        /\ \A i \in 1..n : t[i] = script[i + 1]
    <3>1. script \in Seq(Act) /\ script # <<>>
      BY <1>2
    <3> QED  BY ONLY <2>1, <3>1
  <2>3. \A i \in 1..n : i + 1 \in 1..(n + 1)
    BY ONLY <2>2
  <2> QED  BY <1>1, <2>1, <2>2, <2>3
<1>18. headers'.encoding = "gzip" => \A i \in DOMAIN script' : script'[i].do # "app"
  <2>1. CASE headers.encoding = "gzip"
    <3>1. \A i \in DOMAIN script : script[i].do # "app"
      BY <1>1, <1>2, <2>1 DEF PipeInv, Scripted
    <3> QED  BY <1>17, <3>1
  <2>2. CASE c.field = "encoding"
    <3>1. \A i \in DOMAIN script : script[i].do # "app"
      BY <1>2, <1>15, <2>2 DEF Tidy
    <3> QED  BY <1>17, <3>1
  <2> QED  BY <1>7, <2>1, <2>2
<1>19. Scripted'
  <2>1. Follows(script, headers.length, Gz(Len(writers)) = 1)'
    <3>1. Gz(Len(writers))' = Gz(T)'
      BY <1>1, <1>2
    <3> QED  BY <1>16, <3>1 DEF Follows, Sets
  <2>2. Tidy(script)'
    BY <1>16 DEF Tidy, Sets
  <2> QED  BY <1>2, <1>4, <1>8, <1>18, <2>1, <2>2 DEF Scripted
<1>20. Promised'
  <2>1. ASSUME headers'.length # 0, script' = <<>>
        PROVE  FALSE
    <3>1. PICK n : n = Len(script)
      OBVIOUS
    <3>2. n = 1
      <4>1. script \in Seq(Act) /\ script # <<>> /\ Tail(script) = <<>>
        BY <1>1, <1>2, <2>1
      <4> QED  BY ONLY <3>1, <4>1
    <3>3. CASE c.field = "length"
      <4>1. Sets(script, 1, "length") /\ script[1].to # 0
        BY <1>2, <1>7, <1>15, <2>1, <3>3
      <4>2. Len(script) = 1 + 2
        BY <1>2, <4>1 DEF Tidy
      <4>3. n = 1 + 2
        BY ONLY <3>1, <4>2
      <4> QED  BY ONLY <3>2, <4>3
    <3>4. CASE c.field # "length"
      <4>1. headers.length # 0
        BY <1>7, <2>1, <3>4
      <4>2. script[1].do \in {"write", "header"}
        BY <1>2, <4>1 DEF Follows
      <4> QED  BY <1>2, <4>2
    <3> QED  BY <3>3, <3>4
  <2> QED  BY <1>1, <2>1 DEF Promised
<1> QED  BY <1>1, <1>9, <1>10, <1>13, <1>19, <1>20 DEF PipeInv

\* The handler sends the status.
LEMMA HandlerStatus ==
    ASSUME PipeInv, HandlerCalls, NEW T, NEW got, NEW sent, NEW c, Acting(T, got, sent, c), c.do = "header"
    PROVE  PipeInv'
<1>1. /\ phase = "handling" /\ calls = <<>> /\ script' = Tail(script) /\ said' = Asked(said, c) /\ Make(TopWriter, c)
      /\ UNCHANGED <<chain, request, phase, layer, tops, writers, wire, panic, ctxID, log, span>>
  BY DEF HandlerCalls, Acting, routeVars, noteVars
<1>2. /\ PipeTypes /\ Places /\ T \in Nat /\ T = Len(writers) /\ Flow(T, got, sent) /\ panic = "none"
      /\ Follows(script, headers.length, Gz(T) = 1)
      /\ script \in Seq(Act) /\ script # <<>> /\ c = script[1] /\ c \in Act
      /\ said.status = 0
  BY DEF Acting
<1>3. calls' = On(T, <<Made(said, c)>>) /\ headers' = headers
  BY <1>1, <1>2 DEF Make, TopWriter
<1>4. PICK code : code = c.code
  OBVIOUS
<1>5. code \in Nat \ {0} /\ c = [do |-> "header", code |-> code]
  BY <1>2, <1>4 DEF Act
<1>6. Made(said, c) = c /\ Status(code) = <<c>> /\ Status(code)[1] = c
  BY <1>5 DEF Made, Status
<1>7. Untouched(T) /\ said.body = <<>> /\ ~said.pushed
  BY <1>1, <1>2, NothingSaid
<1>8. Answers(T, code)
  <2>1. LayerAnswers(T, code)
    BY <1>1, <1>3, <1>6 DEF LayerAnswers
  <2> QED  BY <1>2, <1>5, <1>7, <2>1, AnswersAre
<1>9. Len(calls') = 1
  <2>1. Len(<<c>>) = 1
    OBVIOUS
  <2>2. calls' = [i \in 1..1 |-> [at |-> T, call |-> <<c>>[i]]]
    BY <1>3, <1>6, <2>1 DEF On
  <2> QED  BY ONLY <2>2
<1>10. PipeTypes'
  <2>1. /\ writers' \in Seq(AWriter \cup ACompressor) /\ tops' \in Seq(Nat) /\ layer' \in Nat
        /\ phase' \in {"entering", "handling", "leaving", "done"} /\ panic' \in {"none", "bug", "abort"}
    BY <1>1, <1>2 DEF PipeTypes
  <2> QED  BY <1>1, <1>2, <1>5, <1>8, <2>1, AnswersTypes
<1>11. Places' /\ Reports' /\ Recovered' /\ Guarded'
  BY <1>1, <1>3, HandlerKeeps
<1>12. said'.body = <<>> /\ said'.status = code /\ ~said'.pushed
  BY <1>7, <1>8, <1>9 DEF Answers
<1>13. Untouched(T)' /\ Live(T)'
  <2>1. \A k : (Compresses(k)' <=> Compresses(k)) /\ (Told(k)' <=> Told(k))
    BY <1>1 DEF Compresses, Told
  <2>2. Untouched(T)'
    BY <1>1, <1>7, <2>1 DEF Untouched
  <2>3. Live(T) /\ \A k : ~Closing(k)
    BY <1>1, <1>2 DEF Flow, Closing
  <2> QED  BY <1>1, <1>5, <1>12, <2>1, <2>2, <2>3 DEF Live
<1>14. Opening(T)'
  <2>1. Answered(T)'
    <3>1. /\ said'.status # 0 /\ Want' = code /\ \A i \in DOMAIN calls' : calls'[i].at = T
          /\ Does(1, "header")' /\ calls'[1].call.code = code
      BY <1>5, <1>8 DEF Answers
    <3> QED  BY <1>9, <1>12, <3>1 DEF Answered
  <2> QED  BY <1>10, <1>12, <1>13, <2>1 DEF Opening
<1>15. \E U \in Nat : \E got2, sent2 \in [0..U -> Nat] : Flow(U, got2, sent2)'
  <2>1. (\A u \in Nat : Opening(u) => \E got2, sent2 \in [0..u -> Nat] : Flow(u, got2, sent2))'
    BY OpeningFlows
  <2> QED  BY <1>2, <1>14, <2>1
<1>16. Scripted'
  <2>1. c.do \notin {"set", "app"} /\ headers'.length = headers.length /\ headers'.encoding = headers.encoding
    BY <1>3
  <2> QED  BY <1>1, <1>5, <1>12, <2>1, RestScript
<1>17. Promised'
  <2>1. ASSUME headers'.length # 0, script' = <<>>
        PROVE  FALSE
    <3>1. PICK n : n = Len(script)
      OBVIOUS
    <3>2. n = 1
      <4>1. script \in Seq(Act) /\ script # <<>> /\ Tail(script) = <<>>
        BY <1>1, <1>2, <2>1
      <4> QED  BY ONLY <3>1, <4>1
    <3>3. (Len(script) = 1 /\ script[1].do = "write") \/ Len(script) = 2
      BY <1>2, <1>3, <2>1 DEF Follows
    <3>4. Len(script) = 2
      BY <1>2, <3>3
    <3>5. n = 2
      BY ONLY <3>1, <3>4
    <3> QED  BY ONLY <3>2, <3>5
  <2> QED  BY <1>1, <2>1 DEF Promised
<1> QED  BY <1>1, <1>10, <1>11, <1>15, <1>16, <1>17 DEF PipeInv

\* The handler writes or flushes.
LEMMA HandlerSpeaks ==
    ASSUME PipeInv, HandlerCalls, NEW T, NEW got, NEW sent, NEW c, Acting(T, got, sent, c), NEW sent2,
           Speaks(T, got, sent, sent2), PipeTypes', Promised', c.do \in {"write", "flush"}
    PROVE  PipeInv'
<1>1. /\ phase = "handling" /\ calls = <<>> /\ script' = Tail(script) /\ Make(TopWriter, c)
      /\ UNCHANGED <<chain, request, phase, layer, tops, writers, wire, panic, ctxID, log, span>>
  BY DEF HandlerCalls, Acting, routeVars, noteVars
<1>2. /\ PipeTypes /\ Places /\ T \in Nat /\ Flow(T, got, sent)
      /\ Follows(script, headers.length, Gz(T) = 1)
      /\ script \in Seq(Act) /\ script # <<>> /\ c = script[1]
  BY DEF Acting
<1>3. headers' = headers
  BY <1>1 DEF Make
<1>4. Flow(T, got, sent2)' /\ got \in [0..T -> Nat] /\ sent2 \in [0..T -> Nat]
  BY <1>2, SpeaksFlow
<1>5. Places' /\ Reports' /\ Recovered' /\ Guarded'
  BY <1>1, <1>3, HandlerKeeps
<1>6. said'.status # 0
  BY <1>2 DEF Speaks, Want
<1>7. headers.length # 0 => script' = <<>>
  <2> SUFFICES ASSUME headers.length # 0
              PROVE  script' = <<>>
    OBVIOUS
  <2>1. Len(script) = 1 \/ script[1].do = "header"
    BY <1>2 DEF Follows
  <2>2. Len(script) = 1 /\ script \in Seq(Act)
    BY <1>2, <2>1
  <2>3. Tail(script) = <<>>
    <3>1. PICK s, t, n : s = script /\ t = Tail(s) /\ n = Len(t)
      OBVIOUS
    <3>2. s \in Seq(Act) /\ s # <<>> /\ Len(s) = 1
      BY <1>2, <2>2, <3>1
    <3>3. t \in Seq(Act) /\ n \in Nat /\ n + 1 = Len(s)
      BY ONLY <3>1, <3>2
    <3>4. Len(t) = 0
      BY ONLY <3>1, <3>2, <3>3
    <3> QED  BY <3>1, <3>3, <3>4
  <2> QED  BY <1>1, <2>3
<1>8. Scripted'
  <2>1. c.do \notin {"set", "app"} /\ c.do # "header" /\ headers'.length = headers.length
        /\ headers'.encoding = headers.encoding
    BY <1>3
  <2> QED  BY <1>1, <1>6, <1>7, <2>1, RestScript
<1> QED  BY <1>1, <1>2, <1>4, <1>5, <1>8 DEF PipeInv

\* A flush of the handler keeps the invariant.
LEMMA HandlerFlushes ==
    ASSUME PipeInv, HandlerCalls, NEW T, NEW got, NEW sent, NEW c, Acting(T, got, sent, c), c.do = "flush"
    PROVE  PipeInv'
<1>1. /\ phase = "handling" /\ calls = <<>> /\ said' = Asked(said, c) /\ Make(TopWriter, c)
      /\ UNCHANGED <<chain, request, phase, layer, tops, writers, wire, panic, ctxID, log, span>>
  BY DEF HandlerCalls, Acting, routeVars, noteVars
<1>2. /\ PipeTypes /\ T \in Nat /\ T = Len(writers) /\ Flow(T, got, sent)
      /\ got \in [0..T -> Nat] /\ sent \in [0..T -> Nat]
      /\ Follows(script, headers.length, Gz(T) = 1)
      /\ script # <<>> /\ c = script[1] /\ c \in Act
  BY DEF Acting
<1>3. calls' = On(T, <<c>>) /\ headers' = headers
  BY <1>1, <1>2 DEF Make, TopWriter, Made
<1>4. PICK st, bo, f : st = (IF said.status = 0 THEN 200 ELSE said.status) /\ bo = said.body /\ f = Len(said.body)
  OBVIOUS
<1>5. st = Want /\ st \in Nat /\ bo \in Seq(Piece) /\ f \in Nat
  BY <1>2, <1>4 DEF Want, PipeTypes
<1>6. said' = [said EXCEPT !.status = st, !.pushed = TRUE, !.flushed = f]
  BY <1>1, <1>4 DEF Asked
<1>7. /\ said' \in [status : Nat, body : Seq(Piece), pushed : BOOLEAN, flushed : Nat]
      /\ said'.status = st /\ said'.body = said.body /\ said'.flushed = f
  <2>1. said \in [status : Nat, body : Seq(Piece), pushed : BOOLEAN, flushed : Nat]
    BY <1>2 DEF PipeTypes
  <2> QED  BY ONLY <1>5, <1>6, <2>1
<1>8. c \in Call
  BY <1>2 DEF Act, Call
<1>9. PICK e : e = [at |-> T, call |-> c]
  OBVIOUS
<1>10. e \in [at : Nat, call : Call] /\ e.at = T /\ e.call = c
  BY <1>2, <1>8, <1>9
<1>11. calls' \in Seq([at : Nat, call : Call]) /\ Len(calls') = 1 /\ DOMAIN calls' = {1} /\ calls'[1] = e
  <2> DEFINE S == [at : Nat, call : Call]
  <2>1. Len(<<c>>) = 1 /\ <<c>>[1] = c /\ \A i \in 1..1 : i = 1
    OBVIOUS
  <2>2. calls' = [i \in 1..1 |-> e] /\ e \in S
    BY <1>3, <1>9, <1>10, <2>1 DEF On
  <2> HIDE DEF S
  <2>3. calls' \in Seq(S) /\ Len(calls') = 1 /\ DOMAIN calls' = 1..1 /\ calls'[1] = e /\ 1..1 = {1}
    BY ONLY <2>2
  <2> QED  BY <2>3 DEF S
<1>12. PipeTypes'
  BY <1>1, <1>2, <1>3, <1>7, <1>11 DEF PipeTypes
<1>13. Speaks(T, got, sent, sent)
  <2>1. Does(1, "flush")'
    BY <1>10, <1>11 DEF Does
  <2> QED  BY <1>1, <1>2, <1>3, <1>4, <1>5, <1>7, <1>10, <1>11, <2>1 DEF Speaks
<1>14. headers.length = 0
  <2>1. headers.length # 0 => script[1].do \in {"write", "header"}
    BY <1>2 DEF Follows
  <2> QED  BY <1>2, <2>1
<1>15. Promised'
  BY <1>3, <1>14 DEF Promised
<1> QED  BY <1>12, <1>13, <1>15, HandlerSpeaks

\* A write of the handler keeps the invariant.
LEMMA HandlerWrites ==
    ASSUME PipeInv, HandlerCalls, NEW T, NEW got, NEW sent, NEW c, Acting(T, got, sent, c), c.do = "write"
    PROVE  PipeInv'
<1>1. /\ phase = "handling" /\ calls = <<>> /\ said' = Asked(said, c) /\ Make(TopWriter, c) /\ script' = Tail(script)
      /\ UNCHANGED <<chain, request, phase, layer, tops, writers, wire, panic, ctxID, log, span>>
  BY DEF HandlerCalls, Acting, routeVars, noteVars
<1>2. /\ PipeTypes /\ T \in Nat /\ T = Len(writers) /\ Flow(T, got, sent)
      /\ got \in [0..T -> Nat] /\ sent \in [0..T -> Nat]
      /\ Follows(script, headers.length, Gz(T) = 1)
      /\ script \in Seq(Act) /\ script # <<>> /\ c = script[1] /\ c \in Act /\ 1 \in DOMAIN script
      /\ headers.length # 0 => said.body = <<>>
  BY DEF Acting
<1>3. PICK p, b, n, m : p = NewPieces(said, c) /\ b = said.body /\ n = Len(b) /\ m = c.n
  OBVIOUS
<1>4. b \in Seq(Piece) /\ n \in Nat /\ m \in Nat /\ c.gz \in {0, 1} /\ DOMAIN b = 1..n
  BY <1>2, <1>3 DEF PipeTypes, Act
<1>5. /\ p \in Seq(Piece) /\ Len(p) = m /\ DOMAIN p = 1..m
      /\ \A x \in 1..m : p[x].of = n + x /\ p[x].gz = c.gz
  <2>1. p = [i \in 1..m |-> [of |-> n + i, gz |-> c.gz]]
    BY <1>3 DEF NewPieces
  <2>2. \A i \in 1..m : [of |-> n + i, gz |-> c.gz] \in Piece
    BY <1>4 DEF Piece
  <2>3. p \in Seq(Piece) /\ Len(p) = m /\ DOMAIN p = 1..m
    <3>1. p \in [1..m -> Piece]
      BY <2>1, <2>2
    <3> QED  BY ONLY <1>4, <3>1
  <2> QED  BY <2>1, <2>3
<1>6. PICK d, e : d = [do |-> "bytes", pieces |-> p] /\ e = [at |-> T, call |-> d]
  OBVIOUS
<1>7. d \in Call /\ d.do = "bytes" /\ d.pieces = p /\ e \in [at : Nat, call : Call] /\ e.at = T /\ e.call = d
  BY <1>2, <1>5, <1>6 DEF Call
<1>8. calls' = On(T, <<d>>) /\ headers' = headers
  BY <1>1, <1>2, <1>3, <1>6 DEF Make, TopWriter, Made
<1>9. calls' \in Seq([at : Nat, call : Call]) /\ Len(calls') = 1 /\ DOMAIN calls' = {1} /\ calls'[1] = e
  <2> DEFINE S == [at : Nat, call : Call]
  <2>1. Len(<<d>>) = 1 /\ <<d>>[1] = d /\ \A i \in 1..1 : i = 1
    OBVIOUS
  <2>2. calls' = [i \in 1..1 |-> e] /\ e \in S
    BY <1>6, <1>7, <1>8, <2>1 DEF On
  <2> HIDE DEF S
  <2>3. calls' \in Seq(S) /\ Len(calls') = 1 /\ DOMAIN calls' = 1..1 /\ calls'[1] = e /\ 1..1 = {1}
    BY ONLY <2>2
  <2> QED  BY <2>3 DEF S
<1>10. PICK st, bo : st = (IF said.status = 0 THEN 200 ELSE said.status) /\ bo = b \o p
  OBVIOUS
<1>11. /\ bo \in Seq(Piece) /\ Len(bo) = n + m /\ DOMAIN bo = 1..(n + m)
       /\ \A x \in 1..n : bo[x] = b[x]
       /\ \A x \in (n + 1)..(n + m) : bo[x] = p[x - n]
  BY ONLY <1>3, <1>4, <1>5, <1>10, Joined
<1>12. st = Want /\ st \in Nat
  BY <1>2, <1>10 DEF Want, PipeTypes
<1>13. said' = [said EXCEPT !.status = st, !.body = bo]
  BY <1>1, <1>3, <1>10 DEF Asked
<1>14. /\ said' \in [status : Nat, body : Seq(Piece), pushed : BOOLEAN, flushed : Nat]
       /\ said'.status = st /\ said'.body = bo /\ said'.pushed = said.pushed /\ said'.flushed = said.flushed
  <2>1. said \in [status : Nat, body : Seq(Piece), pushed : BOOLEAN, flushed : Nat]
    BY <1>2 DEF PipeTypes
  <2> QED  BY ONLY <1>11, <1>12, <1>13, <2>1
<1>15. PipeTypes'
  BY <1>1, <1>2, <1>8, <1>9, <1>14 DEF PipeTypes
<1>16. c.gz = Gz(T)
  <2>1. c.gz = 1 <=> Gz(T) = 1 \/ \E j \in 1..(1 - 1) : Sets(script, j, "encoding")
    BY <1>2 DEF Follows
  <2>2. \A j \in 1..(1 - 1) : FALSE
    OBVIOUS
  <2>3. Gz(T) \in {0, 1}
    BY DEF Gz
  <2> QED  BY <1>4, <2>1, <2>2, <2>3
<1>17. PICK sent2 : sent2 = [sent EXCEPT ![T] = n + m]
  OBVIOUS
<1>18. Speaks(T, got, sent, sent2)
  <2>1. Does(1, "bytes")' /\ calls'[1].call.pieces = p
    BY <1>7, <1>9 DEF Does
  <2>2. Numbered(p, n, Gz(T))
    BY <1>5, <1>16 DEF Numbered
  <2>3. \A x \in DOMAIN said'.body : x \notin DOMAIN said.body => said'.body[x].gz = Gz(T)
    <3>1. \A x \in 1..(n + m) : x \in 1..n \/ (x \in (n + 1)..(n + m) /\ x - n \in 1..m)
      BY ONLY <1>4
    <3>2. \A i \in 1..m : p[i].gz = Gz(T)
      BY <1>5, <1>16
    <3>3. DOMAIN said.body = 1..n /\ DOMAIN said'.body = 1..(n + m) /\ said'.body = bo
      BY <1>3, <1>4, <1>11, <1>14
    <3> SUFFICES ASSUME NEW x \in DOMAIN said'.body, x \notin DOMAIN said.body
                PROVE  said'.body[x].gz = Gz(T)
      OBVIOUS
    <3>4. x \in (n + 1)..(n + m) /\ x - n \in 1..m
      BY <3>1, <3>3
    <3>5. bo[x] = p[x - n]
      BY <1>11, <3>4
    <3> QED  BY <3>2, <3>3, <3>4, <3>5
  <2>4. \A x \in DOMAIN said.body : x \in DOMAIN said'.body /\ said'.body[x] = said.body[x]
    <3>1. \A x \in 1..n : x \in 1..(n + m)
      BY ONLY <1>4
    <3> QED  BY <1>3, <1>4, <1>11, <1>14, <3>1
  <2>5. sent2 = [sent EXCEPT ![T] = Len(said'.body)] /\ Len(said'.body) \in Nat /\ Len(said.body) = n
        /\ Len(said.body) + Len(p) = Len(said'.body) /\ said'.status = Want /\ said'.body \in Seq(Piece)
    <3>1. Len(said.body) = n /\ Len(p) = m /\ n + m \in Nat
      BY <1>3, <1>4, <1>5
    <3>2. Len(said'.body) = n + m /\ said'.body \in Seq(Piece) /\ said'.status = Want
      BY <1>11, <1>12, <1>14
    <3> QED  BY <1>17, <3>1, <3>2
  <2> QED  BY <1>1, <1>2, <1>7, <1>8, <1>9, <1>14, <2>1, <2>2, <2>3, <2>4, <2>5 DEF Speaks
<1>19. Promised'
  <2> SUFFICES ASSUME headers.length # 0
              PROVE  headers.length = Weight(Len(said'.body), IF headers.encoding = "gzip" THEN 1 ELSE 0)
    BY <1>8 DEF Promised
  <2>1. headers.length = Weight(c.n, c.gz)
    <3>1. \/ script[1].do = "write" /\ headers.length = Weight(script[1].n, script[1].gz)
          \/ script[1].do = "header"
      BY <1>2 DEF Follows
    <3> QED  BY <1>2, <3>1
  <2>2. Len(said'.body) = m
    <3>1. n = 0
      BY <1>2, <1>3
    <3> QED  BY <1>4, <1>11, <1>14, <3>1
  <2>3. \A k \in 1..T : ~Works(k)
    <3>1. Compressing(T)
      BY <1>2 DEF Flow
    <3> QED  BY <3>1 DEF Compressing, Works
  <2>4. Gz(T) = IF headers.encoding = "gzip" THEN 1 ELSE 0
    BY <2>3 DEF Gz
  <2> QED  BY <1>3, <1>16, <2>1, <2>2, <2>4
<1> QED  BY <1>15, <1>18, <1>19, HandlerSpeaks

\* Every call of the handler keeps the invariant.
LEMMA HandlerCalled ==
    ASSUME PipeInv, HandlerCalls
    PROVE  PipeInv'
<1>1. phase = "handling" /\ calls = <<>> /\ script # <<>> /\ Head(script).do # "app"
  BY DEF HandlerCalls
<1>2. PICK T, got, sent, c : Acting(T, got, sent, c)
  BY <1>1, HandlerActs
<1>3. c.do \in {"set", "header", "write", "flush"}
  <2>1. c \in Act /\ c.do # "app"
    BY <1>1, <1>2 DEF Acting
  <2> QED  BY <2>1 DEF Act
<1> QED  BY <1>2, <1>3, HandlerSets, HandlerStatus, HandlerWrites, HandlerFlushes

\* The handler is done: it has returned, or it panics.
LEMMA HandlerLeaves ==
    ASSUME PipeInv, phase = "handling", calls = <<>>, phase' = "leaving",
           UNCHANGED <<chain, request, layer, tops, writers, calls, headers, wire, said, ctxID, log, span>>,
           panic' \in {"none", "bug", "abort"}, panic' # "none" /\ said.status = 0 => headers.encoding = "none",
           panic' = "none" => script = <<>>
    PROVE  PipeInv'
<1>1. PipeTypes /\ Places /\ Reports /\ Promised
  BY DEF PipeInv
<1>2. /\ layer = Len(chain) /\ Len(tops) = Len(chain) /\ chain \in Seq(Layers) /\ panic = "none" /\ layer \in Nat
      /\ Len(chain) \in Nat /\ DOMAIN chain = 1..Len(chain)
  <2>1. layer = Len(chain) /\ Len(tops) = layer /\ chain \in Seq(Layers) /\ panic = "none"
    BY <1>1 DEF Places
  <2> QED  BY <2>1
<1>3. Quiet
  BY <1>2 DEF Quiet
<1>4. PICK T \in Nat : \E got, sent \in [0..T -> Nat] : Flow(T, got, sent)
  BY DEF PipeInv
<1>5. PICK got \in [0..T -> Nat], sent \in [0..T -> Nat] : Flow(T, got, sent)
  BY <1>4
<1>6. Flow(T, got, sent)'
  BY <1>1, <1>3, <1>5, QuietFlow
<1>7. PipeTypes'
  BY <1>1 DEF PipeTypes
<1>8. Places'
  <2>1. \A i \in DOMAIN tops : Compresses(tops[i])' <=> Compresses(tops[i])
    BY DEF Compresses
  <2>2. \A k : Compresses(k)' <=> Compresses(k)
    BY DEF Compresses
  <2>3. layer' <= Len(tops') /\ Len(tops') = Len(chain') /\ layer' <= Len(tops') + 1 /\ Len(tops') <= Len(chain')
    BY <1>2
  <2> QED  BY <1>1, <2>1, <2>2, <2>3 DEF Places
<1>9. Scripted' /\ Guarded'
  BY DEF Scripted, Guarded
<1>10. Promised'
  BY <1>1, <1>2 DEF Promised
<1>11. Reports'
  <2>1. log.status = 0 /\ span.state # "open" /\ span.status = 0
    BY <1>1 DEF Reports
  <2> QED  BY <1>1, <2>1 DEF Reports
<1>12. Recovered'
  <2>1. \A i \in DOMAIN chain' : ~(i > layer')
    BY <1>2
  <2> QED  BY <2>1 DEF Recovered
<1> QED  BY <1>5, <1>6, <1>7, <1>8, <1>9, <1>10, <1>11, <1>12 DEF PipeInv

\* The handler's return keeps the invariant.
LEMMA HandlerReturned ==
    ASSUME PipeInv, HandlerReturns
    PROVE  PipeInv'
<1>1. /\ phase = "handling" /\ calls = <<>> /\ script = <<>> /\ phase' = "leaving"
      /\ UNCHANGED <<chain, request, layer, tops, writers, calls, headers, wire, said, panic, ctxID, log, span>>
  BY DEF HandlerReturns, routeVars, sayVars, noteVars
<1>2. panic = "none"
  BY <1>1 DEF PipeInv, Places
<1> QED  BY <1>1, <1>2, HandlerLeaves

\* Code of the application keeps the invariant, though it panics.
LEMMA HandlerRan ==
    ASSUME PipeInv, HandlerRuns
    PROVE  PipeInv'
<1>1. /\ phase = "handling" /\ calls = <<>> /\ script # <<>> /\ Head(script).do = "app"
      /\ UNCHANGED <<chain, request, layer, tops, writers, calls, headers, wire, said, ctxID, log, span>>
  BY DEF HandlerRuns, routeVars, noteVars
<1>2. PICK T, got, sent, c : Acting(T, got, sent, c)
  BY <1>1, HandlerActs
<1>3. /\ PipeTypes /\ Places /\ T \in Nat /\ T = Len(writers) /\ Flow(T, got, sent)
      /\ got \in [0..T -> Nat] /\ sent \in [0..T -> Nat] /\ panic = "none"
      /\ Tidy(script) /\ Follows(script, headers.length, Gz(T) = 1)
      /\ script \in Seq(Act) /\ script # <<>> /\ c = script[1] /\ c.do = "app" /\ 1 \in DOMAIN script
  BY <1>1, <1>2 DEF Acting
<1>4. /\ said.status # 0 => \A i \in DOMAIN script : script[i].do \notin {"set", "header"}
      /\ headers.encoding = "gzip" /\ said.status = 0 => \A i \in DOMAIN script : script[i].do # "app"
  BY <1>1 DEF PipeInv, Scripted
<1>5. headers.encoding = "gzip" => said.status # 0
  BY <1>3, <1>4
<1>6. headers.length = 0
  <2>1. headers.length # 0 => script[1].do \in {"write", "header"}
    BY <1>3 DEF Follows
  <2> QED  BY <1>3, <2>1
<1>7. CASE script' = Tail(script) /\ UNCHANGED <<panic, phase>>
  <2>1. Quiet
    BY <1>1, <1>3, <1>7 DEF Quiet, PipeTypes
  <2>2. Flow(T, got, sent)'
    BY <1>3, <2>1, QuietFlow
  <2>3. PipeTypes'
    BY <1>1, <1>3, <1>7 DEF PipeTypes
  <2>4. Places' /\ Reports' /\ Recovered' /\ Guarded'
    BY <1>1, <1>7, HandlerKeeps
  <2>5. ~Sets(script, 1, "length") /\ ~Sets(script, 1, "encoding")
    BY <1>3 DEF Sets
  <2>6. Tidy(script') /\ Follows(script', headers.length, Gz(T) = 1)
    <3>1. PICK l, g, s : l = headers.length /\ g = Gz(T) /\ s = script
      OBVIOUS
    <3>2. Follows(s, l, g = 1) /\ l = IF Sets(s, 1, "length") THEN s[1].to ELSE l
      BY <1>3, <2>5, <3>1
    <3>3. (g = 1) <=> (g = 1 \/ Sets(s, 1, "encoding"))
      BY <2>5, <3>1
    <3>4. Tidy(s) /\ s # <<>>
      BY <1>3, <3>1
    <3>5. Tidy(Tail(s)) /\ Follows(Tail(s), l, g = 1)
      BY ONLY <3>2, <3>3, <3>4, TailScript
    <3> QED  BY <1>7, <3>1, <3>5
  <2>7. script' \in Seq(Act) /\ \A i \in DOMAIN script' : i + 1 \in DOMAIN script /\ script'[i] = script[i + 1]
    <3>1. PICK t, n : t = Tail(script) /\ n = Len(t)
      OBVIOUS
    <3>2. /\ t \in Seq(Act) /\ n \in Nat /\ DOMAIN t = 1..n /\ DOMAIN script = 1..(n + 1)
          /\ \A i \in 1..n : t[i] = script[i + 1]
      <4>1. script \in Seq(Act) /\ script # <<>>
        BY <1>3
      <4> QED  BY ONLY <3>1, <4>1
    <3>3. \A i \in 1..n : i + 1 \in 1..(n + 1)
      BY ONLY <3>2
    <3> QED  BY <1>7, <3>1, <3>2, <3>3
  <2>8. Scripted'
    <3>1. Gz(Len(writers))' = Gz(T)
      <4>1. \A k : Works(k)' <=> Works(k)
        BY <1>1 DEF Works, Compresses
      <4> QED  BY <1>1, <1>3, <4>1 DEF Gz
    <3>2. Follows(script, headers.length, Gz(Len(writers)) = 1)'
      BY <1>1, <2>6, <3>1 DEF Follows, Sets
    <3>3. Tidy(script)'
      BY <2>6 DEF Tidy, Sets
    <3>4. said.status # 0 => \A i \in DOMAIN script' : script'[i].do \notin {"set", "header"}
      BY <1>4, <2>7
    <3> QED  BY <1>1, <1>5, <1>6, <3>2, <3>3, <3>4 DEF Scripted
  <2>9. Promised'
    BY <1>1, <1>6 DEF Promised
  <2> QED  BY <1>1, <1>3, <1>7, <2>2, <2>3, <2>4, <2>8, <2>9 DEF PipeInv
<1>8. CASE panic' \in {"bug", "abort"} /\ phase' = "leaving"
  <2>1. said.status = 0 => headers.encoding = "none"
    BY <1>3, <1>5 DEF PipeTypes
  <2> QED  BY <1>1, <1>8, <2>1, HandlerLeaves
<1>9. \/ script' = Tail(script) /\ UNCHANGED <<panic, phase>>
      \/ panic' \in {"bug", "abort"} /\ phase' = "leaving"
  BY DEF HandlerRuns
<1> QED  BY <1>7, <1>8, <1>9

-----------------------------------------------------------------------------
(* Out of the layers.                                                       *)

\* Between two places with no compressor between them nothing is changed.
LEMMA PlainBetween ==
    ASSUME PipeTypes, NEW T \in Nat, NEW got, NEW sent, Flow(T, got, sent), calls = <<>>,
           NEW a \in 0..T, NEW b \in 0..T, a <= b, \A m \in (a + 1)..b : ~Compresses(m)
    PROVE  got[a] = got[b] /\ Gz(a) = Gz(b)
<1>1. Pieces(T, got, sent) /\ DOMAIN calls = {}
  BY DEF Flow
<1>2. got \in [0..T -> Nat] /\ sent \in [0..T -> Nat] /\ \A k \in 0..T : got[k] = sent[k]
  BY <1>1 DEF Pieces
<1>3. ASSUME NEW j \in a..(b - 1)
      PROVE  got[j] = got[j + 1]
  <2>1. j + 1 \in 1..T /\ (j + 1) - 1 = j /\ j + 1 \in (a + 1)..b /\ j \in 0..T /\ j + 1 \in 0..T
    OBVIOUS
  <2>2. Stored(j + 1) = <<>>
    BY <2>1 DEF Stored
  <2>3. sent[j] + Len(Stored(j + 1)) = got[j + 1]
    BY <1>1, <2>1 DEF Pieces
  <2> QED  BY <1>2, <2>1, <2>2, <2>3
<1>4. a \in Nat /\ b \in Nat /\ a \in a..b
  OBVIOUS
<1>5. got[a] = got[b]
  <2>1. \A j \in a..b : got[j] = got[b]
    BY ONLY <1>3, <1>4, NoChange
  <2> QED  BY <1>4, <2>1
<1>6. Gz(a) = Gz(b)
  <2>1. \A m \in 1..b : m \in 1..a \/ m \in (a + 1)..b
    OBVIOUS
  <2>2. \A m \in 1..a : m \in 1..b
    OBVIOUS
  <2>3. (\A m \in 1..a : ~Works(m)) <=> (\A m \in 1..b : ~Works(m))
    BY <2>1, <2>2 DEF Works
  <2> QED  BY <2>3 DEF Gz
<1> QED  BY <1>5, <1>6

\* What a writer remembers when its layer is left: the status, and the bytes that went through it.
LEMMA OwnSays ==
    ASSUME PipeTypes, Places, NEW T \in Nat, NEW got, NEW sent, Flow(T, got, sent), calls = <<>>,
           NEW i \in DOMAIN tops, i = layer, chain[i] \in {"log", "recover", "only", "except"}
    PROVE  /\ tops[i] \in 1..T /\ ~Compresses(tops[i]) /\ writers[tops[i]].status = Want
           /\ (\A m \in (tops[i] + 1)..Len(writers) : ~Compresses(m)) =>
                 writers[tops[i]].bytes = Size(said.body)
           /\ (\A m \in 1..tops[i] : ~Compresses(m)) => writers[tops[i]].bytes = Size(wire.body)
<1>1. /\ DOMAIN tops \subseteq Nat /\ Len(writers) \in Nat /\ \A j \in DOMAIN tops : tops[j] \in Nat
      /\ said.body \in Seq(Piece) /\ wire.body \in Seq(Piece)
  <2>1. said.body \in Seq(Piece) /\ wire.body \in Seq(Piece)
    BY DEF PipeTypes
  <2> QED  BY <2>1, WriterTypes, TopsTypes
<1>2. PICK t : t = tops[i]
  OBVIOUS
<1>3. /\ T \in 0..Len(writers) /\ \A j \in DOMAIN tops : j <= layer => tops[j] <= T
      /\ StatusIs(T) /\ Pieces(T, got, sent) /\ SaidIs(T)
  BY DEF Flow, Live
<1>4. t \in 1..T /\ t \in Nat /\ ~Compresses(t) /\ T <= Len(writers)
  <2>1. t >= 1 /\ ~Compresses(t)
    BY <1>2 DEF Places
  <2>2. i <= layer
    BY <1>1
  <2> QED  BY <1>1, <1>2, <1>3, <2>1, <2>2
<1>5. writers[t].status = Want
  <2>1. CASE writers[t].wrote
    BY <1>3, <1>4, <2>1 DEF StatusIs
  <2>2. CASE ~writers[t].wrote
    <3>1. said.status = 0
      BY <1>2, <2>2, NothingYet
    <3> QED  BY <1>3, <1>4, <2>2, <3>1 DEF StatusIs, Want
  <2> QED  BY <2>1, <2>2
<1>6. writers[t].bytes = (IF Gz(t) = 1 THEN got[t] ELSE 2 * got[t]) /\ Gz(t) \in {0, 1}
  BY <1>3, <1>4 DEF Pieces, Gz
<1>7. DOMAIN calls = {}
  OBVIOUS
<1>8. ASSUME \A m \in (t + 1)..Len(writers) : ~Compresses(m)
      PROVE  writers[t].bytes = Size(said.body)
  <2>1. /\ \A m \in (t + 1)..T : m \in (t + 1)..Len(writers)
        /\ \A m \in (T + 1)..Len(writers) : m \in (t + 1)..Len(writers)
        /\ t \in 0..T /\ T \in 0..T /\ t <= T
    BY <1>1, <1>4
  <2>2. got[t] = got[T] /\ Gz(t) = Gz(T)
    <3>1. \A m \in (t + 1)..T : ~Compresses(m)
      BY <1>8, <2>1
    <3> QED  BY <2>1, <3>1, PlainBetween
  <2>3. got[T] = Len(said.body)
    BY <1>3, <1>7, <2>1 DEF Pieces
  <2>4. \A x \in DOMAIN said.body : said.body[x].gz = Gz(T)
    BY <1>3, <1>8, <2>1 DEF SaidIs
  <2>5. Size(said.body) = (IF Gz(t) = 1 THEN Len(said.body) ELSE 2 * Len(said.body))
    BY <1>1, <1>6, <2>2, <2>4, SizeIs
  <2> QED  BY <1>6, <2>2, <2>3, <2>5
<1>9. ASSUME \A m \in 1..t : ~Compresses(m)
      PROVE  writers[t].bytes = Size(wire.body)
  <2>1. 0 \in 0..T /\ t \in 0..T /\ 0 <= t /\ 0 + 1 = 1
    BY <1>4
  <2>2. got[0] = got[t] /\ Gz(0) = Gz(t)
    <3>1. \A m \in (0 + 1)..t : ~Compresses(m)
      BY <1>9
    <3> QED  BY <2>1, <3>1, PlainBetween
  <2>3. Len(wire.body) = got[0] /\ \A x \in DOMAIN wire.body : wire.body[x].gz = Gz(0)
    BY <1>3 DEF Pieces, Numbered
  <2>4. Size(wire.body) = (IF Gz(t) = 1 THEN Len(wire.body) ELSE 2 * Len(wire.body))
    BY <1>1, <1>6, <2>2, <2>3, SizeIs
  <2> QED  BY <1>6, <2>2, <2>3, <2>4
<1> QED  BY <1>2, <1>4, <1>5, <1>8, <1>9

\* The compressors stand where Compress does.
LEMMA OwnPlace ==
    ASSUME PipeTypes, Places, NEW i \in DOMAIN tops, chain[i] \in {"log", "recover", "only", "except"}
    PROVE  /\ (request.gzip => \A j \in (i + 1)..Len(chain) : chain[j] # "compress") =>
                 \A m \in (tops[i] + 1)..Len(writers) : ~Compresses(m)
           /\ (request.gzip => \A j \in 1..(i - 1) : chain[j] # "compress") =>
                 \A m \in 1..tops[i] : ~Compresses(m)
<1>1. /\ DOMAIN tops = 1..Len(tops) /\ Len(tops) \in Nat /\ Len(writers) \in Nat
      /\ \A j \in DOMAIN tops : tops[j] \in Nat
  BY WriterTypes DEF PipeTypes
<1>2. PICK t, n, c : t = tops[i] /\ n = Len(tops) /\ c = Len(chain)
  OBVIOUS
<1>3. t \in Nat /\ n \in Nat /\ c \in Nat /\ n <= c /\ i \in 1..n
  <2>1. chain \in Seq(Layers) /\ Len(tops) <= Len(chain)
    BY DEF Places
  <2> QED  BY <1>1, <1>2, <2>1
<1>4. \A m \in 1..Len(writers) : Compresses(m) =>
          request.gzip /\ \E j \in DOMAIN tops : chain[j] = "compress" /\ tops[j] = m
  BY DEF Places
<1>5. \A j \in 1..n : /\ j <= i => tops[j] <= t
                      /\ j > i /\ chain[j] = "compress" /\ request.gzip => t < tops[j]
  <2>1. \A j \in 1..n : /\ j < i => tops[j] <= t
                        /\ i < j /\ chain[j] = "compress" /\ request.gzip => t < tops[j]
    BY <1>1, <1>2 DEF Places
  <2>2. \A j \in 1..n : (j <= i => j < i \/ j = i) /\ (j > i => i < j)
    BY <1>3
  <2> QED  BY <1>2, <1>3, <2>1, <2>2
<1>6. ASSUME request.gzip => \A j \in (i + 1)..c : chain[j] # "compress", NEW m \in (t + 1)..Len(writers), Compresses(m)
      PROVE  FALSE
  <2>1. m \in 1..Len(writers) /\ m > t
    BY <1>1, <1>3
  <2>2. PICK j \in 1..n : chain[j] = "compress" /\ tops[j] = m /\ request.gzip
    BY <1>1, <1>2, <1>4, <1>6, <2>1
  <2>3. ~(j <= i)
    BY <1>1, <1>2, <1>3, <1>5, <2>1, <2>2
  <2>4. j \in (i + 1)..c
    BY <1>3, <2>3
  <2> QED  BY <1>6, <2>2, <2>4
<1>7. ASSUME request.gzip => \A j \in 1..(i - 1) : chain[j] # "compress", NEW m \in 1..t, Compresses(m)
      PROVE  FALSE
  <2>1. t \in 0..Len(writers)
    BY <1>2 DEF Places
  <2>2. m \in 1..Len(writers) /\ m <= t
    BY <1>1, <1>3, <2>1
  <2>3. PICK j \in 1..n : chain[j] = "compress" /\ tops[j] = m /\ request.gzip
    BY <1>1, <1>2, <1>4, <1>7, <2>2
  <2>4. ~(j > i)
    BY <1>1, <1>2, <1>3, <1>5, <2>2, <2>3
  <2>5. j # i
    BY <2>3
  <2>6. j \in 1..(i - 1)
    BY <1>3, <2>4, <2>5
  <2> QED  BY <1>7, <2>3, <2>6
<1> QED  BY <1>2, <1>6, <1>7

\* A layer is left.
Left ==
    /\ phase = "leaving" /\ calls = <<>> /\ layer > 0 /\ layer' = layer - 1
    /\ UNCHANGED <<chain, request, phase, tops, writers, wire, script, ctxID>>

\* Where the layers stand after one more is left.
LEMMA LayerLeft ==
    ASSUME PipeInv, Left, panic' \in {panic, "none"}
    PROVE  /\ layer \in DOMAIN tops /\ layer \in DOMAIN chain /\ layer \in Nat /\ layer' \in Nat
           /\ \A i \in DOMAIN chain : i > layer' => i = layer \/ i > layer
           /\ Places' /\ Scripted' /\ Guarded'
<1>1. PipeTypes /\ Places
  BY DEF PipeInv
<1>2. PICK n, c : n = Len(tops) /\ c = Len(chain)
  OBVIOUS
<1>3. /\ n \in Nat /\ c \in Nat /\ n <= c /\ layer \in Nat /\ layer > 0 /\ layer <= n
      /\ DOMAIN tops = 1..n /\ DOMAIN chain = 1..c
  <2>1. chain \in Seq(Layers) /\ tops \in Seq(Nat) /\ layer \in Nat /\ Len(tops) <= Len(chain) /\ layer <= Len(tops)
    BY <1>1 DEF PipeTypes, Places, Left
  <2> QED  BY <1>2, <2>1 DEF Left
<1>4. PICK l : l = layer - 1
  OBVIOUS
<1>5. l \in Nat /\ l <= n /\ l <= n + 1 /\ layer \in 1..n /\ layer \in 1..c /\ \A i \in 1..c : i > l => i = layer \/ i > layer
  BY ONLY <1>3, <1>4
<1>6. layer' = l /\ phase' = "leaving" /\ UNCHANGED <<chain, request, tops, writers>>
  BY <1>4 DEF Left
<1>7. Places'
  <2>1. \A i \in DOMAIN tops : Compresses(tops[i])' <=> Compresses(tops[i])
    BY <1>6 DEF Compresses
  <2>2. \A k : Compresses(k)' <=> Compresses(k)
    BY <1>6 DEF Compresses
  <2>3. layer' <= Len(tops') /\ layer' <= Len(tops') + 1 /\ Len(tops') <= Len(chain')
    BY <1>2, <1>3, <1>5, <1>6
  <2>4. panic' # "none" => Len(tops') = Len(chain')
    BY <1>1, <1>6 DEF Places
  <2> QED  BY <1>1, <1>6, <2>1, <2>2, <2>3, <2>4 DEF Places
<1>8. Scripted' /\ Guarded'
  BY <1>6 DEF Scripted, Guarded
<1> QED  BY <1>3, <1>5, <1>6, <1>7, <1>8

\* A layer that says nothing is left.
LEMMA QuietlyLeft ==
    ASSUME PipeInv, Left, UNCHANGED <<calls, headers, said, panic>>, request.gzip => chain[layer] # "compress",
           DOMAIN log' = {"status", "bytes", "id"}, log'.status \in Nat, Reports', Recovered'
    PROVE  PipeInv'
<1>1. PipeTypes /\ Places /\ Promised
  BY DEF PipeInv
<1>2. layer \in Nat /\ layer' \in Nat /\ Places' /\ Scripted' /\ Guarded'
  BY LayerLeft
<1>3. phase = "leaving" /\ phase' = "leaving"
  BY DEF Left
<1>4. PICK T \in Nat : \E got, sent \in [0..T -> Nat] : Flow(T, got, sent)
  BY <1>3 DEF PipeInv
<1>5. PICK got \in [0..T -> Nat], sent \in [0..T -> Nat] : Flow(T, got, sent)
  BY <1>4
<1>6. Quiet
  <2>1. phase' = "leaving" /\ panic' # "none" /\ said.status = 0 => headers.encoding = "none"
    BY <1>3, <1>5 DEF Flow, SaidIs
  <2> QED  BY <1>2, <1>3, <2>1 DEF Quiet, Left
<1>7. Flow(T, got, sent)'
  BY <1>1, <1>5, <1>6, QuietFlow
<1>8. PipeTypes'
  BY <1>1, <1>2, <1>3 DEF PipeTypes, Left
<1>9. Promised'
  BY <1>1, <1>3 DEF Promised
<1> QED  BY <1>2, <1>3, <1>5, <1>7, <1>8, <1>9 DEF PipeInv

\* What is reported stays when the layer that is left reports nothing.
LEMMA ReportsStay ==
    ASSUME PipeInv, Left, chain[layer] \notin {"log", "only", "except"}, UNCHANGED <<log, span>>,
           headers'.id = headers.id, panic' \in {panic, "none"},
           panic = "none" => UNCHANGED <<said, panic>>,
           panic = "none" => calls' = <<>> \/ (chain[layer] = "compress" /\ request.gzip)
    PROVE  Reports'
<1>1. Reports /\ phase = "leaving" /\ phase' = "leaving" /\ UNCHANGED <<chain, request, wire, ctxID>>
  BY DEF PipeInv, Left
<1>2. layer \in DOMAIN chain /\ \A i \in DOMAIN chain : i > layer' => i = layer \/ i > layer
  BY LayerLeft
<1>3. span.state # "open"
  BY <1>1 DEF Reports
<1>4. span.status # 0 => panic = "none" /\ span.status = Want
  BY <1>1 DEF Reports
<1>5. panic = "none" => Want' = Want /\ panic' = "none" /\ said' = said
  BY DEF Want
<1>6. ASSUME log.status # 0
      PROVE  /\ panic' = "none" /\ log.status = Want'
             /\ LogIsInside' => log.bytes = Size(said'.body)
             /\ \A i \in DOMAIN chain :
                   /\ chain[i] = "log" /\ i > layer'
                   /\ request.gzip => \A j \in 1..(i - 1) : chain[j] # "compress"
                   => calls' = <<>> /\ log.bytes = Size(wire.body)
  <2>1. /\ panic = "none" /\ log.status = Want
        /\ LogIsInside => log.bytes = Size(said.body)
        /\ \A i \in DOMAIN chain :
              /\ chain[i] = "log" /\ i > layer
              /\ request.gzip => \A j \in 1..(i - 1) : chain[j] # "compress"
              => log.bytes = Size(wire.body)
    BY <1>1, <1>6 DEF Reports
  <2>2. LogIsInside' <=> LogIsInside
    BY <1>1 DEF LogIsInside
  <2>3. ASSUME NEW i \in DOMAIN chain, chain[i] = "log", i > layer',
               request.gzip => \A j \in 1..(i - 1) : chain[j] # "compress"
        PROVE  calls' = <<>> /\ log.bytes = Size(wire.body)
    <3>1. i > layer
      BY <1>2, <2>3
    <3>2. layer \in Nat /\ layer > 0 /\ i \in Nat
      <4>1. chain \in Seq(Layers)
        BY DEF PipeInv, Places
      <4> QED  BY <4>1, LayerLeft DEF Left
    <3>3. layer \in 1..(i - 1)
      BY <3>1, <3>2
    <3>4. ~(chain[layer] = "compress" /\ request.gzip)
      BY <2>3, <3>3
    <3> QED  BY <2>1, <2>3, <3>1, <3>4
  <2> QED  BY <1>5, <2>1, <2>2, <2>3
<1>7. headers'.id = ctxID' /\ log'.id \in {"", ctxID'}
  BY <1>1 DEF Reports
<1> QED  BY <1>1, <1>3, <1>4, <1>5, <1>6, <1>7 DEF Reports

\* What Recover has seen to stays so as other layers are left.
LEMMA RecoveredStays ==
    ASSUME PipeInv, Left, chain[layer] # "recover", UNCHANGED <<panic, said>>
    PROVE  Recovered'
<1>1. Recovered /\ UNCHANGED <<chain, request>>
  BY DEF PipeInv, Left
<1>2. \A i \in DOMAIN chain : i > layer' => i = layer \/ i > layer
  BY LayerLeft
<1> QED  BY <1>1, <1>2 DEF Recovered

\* A layer that defers nothing keeps the invariant.
LEMMA PlainLeft ==
    ASSUME PipeInv, LeavePlain
    PROVE  PipeInv'
<1>1. /\ Left /\ chain[layer] \in {"id", "csrf"} /\ UNCHANGED <<calls, headers, said, panic, log, span>>
      /\ calls = <<>>
  BY DEF LeavePlain, Leaving, Left, routeVars, sayVars, noteVars
<1>2. Reports'
  BY <1>1, ReportsStay
<1>3. Recovered'
  BY <1>1, RecoveredStays
<1>4. DOMAIN log' = {"status", "bytes", "id"} /\ log'.status \in Nat
  BY <1>1 DEF PipeInv, PipeTypes
<1> QED  BY <1>1, <1>2, <1>3, <1>4, QuietlyLeft

\* The deferred close of a compressor keeps the invariant (compress.go).
LEMMA CompressLeft ==
    ASSUME PipeInv, LeaveCompress
    PROVE  PipeInv'
<1>1. /\ Left /\ chain[layer] = "compress" /\ UNCHANGED <<headers, said, panic, log, span>> /\ calls = <<>>
      /\ calls' = IF request.gzip THEN On(tops[layer], <<[do |-> "close"]>>) ELSE <<>>
  BY DEF LeaveCompress, Leaving, Left, routeVars, sayVars, noteVars
<1>2. Reports'
  BY <1>1, ReportsStay
<1>3. Recovered'
  BY <1>1, RecoveredStays
<1>4. DOMAIN log' = {"status", "bytes", "id"} /\ log'.status \in Nat
  BY <1>1 DEF PipeInv, PipeTypes
<1>5. CASE ~request.gzip
  <2>1. calls' = calls
    BY <1>1, <1>5
  <2> QED  BY <1>1, <1>2, <1>3, <1>4, <1>5, <2>1, QuietlyLeft
<1>6. CASE request.gzip
  <2>1. PipeTypes /\ Places /\ Promised
    BY DEF PipeInv
  <2>2. /\ layer \in DOMAIN tops /\ layer \in Nat /\ layer' \in Nat /\ Places' /\ Scripted' /\ Guarded'
    BY <1>1, LayerLeft
  <2>3. /\ phase = "leaving" /\ phase' = "leaving" /\ layer > 0 /\ layer' = layer - 1
        /\ UNCHANGED <<chain, request, phase, tops, writers, wire>>
    BY <1>1 DEF Left
  <2>4. PICK T \in Nat : \E got, sent \in [0..T -> Nat] : Flow(T, got, sent)
    BY <2>3 DEF PipeInv
  <2>5. PICK got \in [0..T -> Nat], sent \in [0..T -> Nat] : Flow(T, got, sent)
    BY <2>4
  <2>6. PICK k, d, e : k = tops[layer] /\ d = [do |-> "close"] /\ e = [at |-> k, call |-> d]
    OBVIOUS
  <2>7. d \in Call /\ d.do = "close" /\ k \in Nat
    <3>1. k \in Nat
      BY <2>1, <2>2, <2>6, TopsTypes
    <3> QED  BY ONLY <2>6, <3>1 DEF Call
  <2>8. e \in [at : Nat, call : Call] /\ e.at = k /\ e.call = d
    BY <2>6, <2>7
  <2>9. calls' \in Seq([at : Nat, call : Call]) /\ Len(calls') = 1 /\ DOMAIN calls' = {1} /\ calls'[1] = e
    <3> DEFINE S == [at : Nat, call : Call]
    <3>1. Len(<<d>>) = 1 /\ <<d>>[1] = d /\ \A i \in 1..1 : i = 1
      OBVIOUS
    <3>2. calls' = On(k, <<d>>)
      BY <1>1, <1>6, <2>6
    <3>3. calls' = [i \in 1..1 |-> e] /\ e \in S
      BY <2>6, <2>8, <3>1, <3>2 DEF On
    <3> HIDE DEF S
    <3>4. calls' \in Seq(S) /\ Len(calls') = 1 /\ DOMAIN calls' = 1..1 /\ calls'[1] = e /\ 1..1 = {1}
      BY ONLY <3>3
    <3> QED  BY <3>4 DEF S
  <2>10. PipeTypes'
    BY <1>1, <1>4, <2>1, <2>2, <2>3, <2>9 DEF PipeTypes
  <2>11. Shuts(T)
    <3>1. Does(1, "close")'
      BY <2>7, <2>8, <2>9 DEF Does
    <3> QED  BY <1>1, <1>6, <2>2, <2>3, <2>4, <2>6, <2>8, <2>9, <3>1 DEF Shuts
  <2>12. Flow(T, got, sent)'
    BY <2>1, <2>5, <2>11, ShutsFlow
  <2>13. Promised'
    BY <1>1, <2>1, <2>3 DEF Promised
  <2> QED  BY <1>2, <1>3, <2>2, <2>3, <2>5, <2>10, <2>12, <2>13 DEF PipeInv
<1> QED  BY <1>5, <1>6

\* The end of a guard's span keeps the invariant (mw.go Named).
LEMMA GuardLeft ==
    ASSUME PipeInv, LeaveGuard
    PROVE  PipeInv'
<1>1. /\ Left /\ chain[layer] \in {"only", "except"} /\ UNCHANGED <<calls, headers, said, panic, log>> /\ calls = <<>>
      /\ span' = IF panic = "none" /\ span.state = "open" THEN [state |-> "ended", status |-> Own.status]
                 ELSE span
  BY DEF LeaveGuard, Leaving, Left, routeVars, sayVars
<1>2. PipeTypes /\ Places /\ Reports
  BY DEF PipeInv
<1>3. layer \in DOMAIN tops /\ layer \in DOMAIN chain /\ \A i \in DOMAIN chain : i > layer' => i = layer \/ i > layer
  BY <1>1, LayerLeft
<1>4. phase = "leaving" /\ phase' = "leaving" /\ UNCHANGED <<chain, request, wire, ctxID>>
  BY <1>1 DEF Left
<1>5. PICK T \in Nat : \E got, sent \in [0..T -> Nat] : Flow(T, got, sent)
  BY <1>4 DEF PipeInv
<1>6. PICK got \in [0..T -> Nat], sent \in [0..T -> Nat] : Flow(T, got, sent)
  BY <1>5
<1>7. Own.status = Want /\ Want' = Want
  <2>1. writers[tops[layer]].status = Want
    BY <1>1, <1>2, <1>3, <1>6, OwnSays
  <2> QED  BY <1>1, <2>1 DEF Own, Want
<1>8. /\ span'.state # "open"
      /\ span'.status # 0 => panic' = "none" /\ span'.status = Want'
  <2>1. span.state = "open" => panic = "none"
    BY <1>2 DEF Reports
  <2>2. span.status # 0 => panic = "none" /\ span.status = Want
    BY <1>2 DEF Reports
  <2>3. CASE panic = "none" /\ span.state = "open"
    BY <1>1, <1>7, <2>3
  <2>4. CASE ~(panic = "none" /\ span.state = "open")
    BY <1>1, <1>7, <2>1, <2>2, <2>4
  <2> QED  BY <2>3, <2>4
<1>9. Reports'
  <2>1. log'.status # 0 =>
             /\ panic' = "none" /\ log'.status = Want'
             /\ LogIsInside' => log'.bytes = Size(said'.body)
             /\ \A i \in DOMAIN chain' :
                   /\ chain'[i] = "log" /\ i > layer'
                   /\ request'.gzip => \A j \in 1..(i - 1) : chain'[j] # "compress"
                   => calls' = <<>> /\ log'.bytes = Size(wire'.body)
    <3>1. LogIsInside' <=> LogIsInside
      BY <1>4 DEF LogIsInside
    <3> QED  BY <1>1, <1>2, <1>3, <1>4, <1>7, <3>1 DEF Reports
  <2>2. headers'.id = ctxID' /\ log'.id \in {"", ctxID'}
    BY <1>1, <1>2, <1>4 DEF Reports
  <2> QED  BY <1>4, <1>8, <2>1, <2>2 DEF Reports
<1>10. Recovered'
  BY <1>1, RecoveredStays
<1>11. DOMAIN log' = {"status", "bytes", "id"} /\ log'.status \in Nat
  BY <1>1, <1>2 DEF PipeTypes
<1> QED  BY <1>1, <1>9, <1>10, <1>11, QuietlyLeft

\* The line of the log keeps the invariant (logger.go LogWith).
LEMMA LoggerLeft ==
    ASSUME PipeInv, LeaveLogger
    PROVE  PipeInv'
<1>1. /\ Left /\ chain[layer] = "log" /\ UNCHANGED <<calls, headers, said, panic, span>> /\ calls = <<>>
      /\ log' = IF panic = "none" THEN [log EXCEPT !.status = Own.status, !.bytes = Own.bytes] ELSE log
  BY DEF LeaveLogger, Leaving, Left, routeVars, sayVars
<1>2. PipeTypes /\ Places /\ Reports
  BY DEF PipeInv
<1>3. /\ layer \in DOMAIN tops /\ layer \in DOMAIN chain /\ layer \in Nat /\ layer > 0
      /\ \A i \in DOMAIN chain : i > layer' => i = layer \/ i > layer
  BY <1>1, LayerLeft DEF Left
<1>4. phase = "leaving" /\ phase' = "leaving" /\ UNCHANGED <<chain, request, wire, ctxID>>
  BY <1>1 DEF Left
<1>5. PICK T \in Nat : \E got, sent \in [0..T -> Nat] : Flow(T, got, sent)
  BY <1>4 DEF PipeInv
<1>6. PICK got \in [0..T -> Nat], sent \in [0..T -> Nat] : Flow(T, got, sent)
  BY <1>5
<1>7. /\ Own.status = Want
      /\ (request.gzip => \A j \in (layer + 1)..Len(chain) : chain[j] # "compress") => Own.bytes = Size(said.body)
      /\ (request.gzip => \A j \in 1..(layer - 1) : chain[j] # "compress") => Own.bytes = Size(wire.body)
  <2>1. /\ writers[tops[layer]].status = Want
        /\ (\A m \in (tops[layer] + 1)..Len(writers) : ~Compresses(m)) =>
              writers[tops[layer]].bytes = Size(said.body)
        /\ (\A m \in 1..tops[layer] : ~Compresses(m)) => writers[tops[layer]].bytes = Size(wire.body)
    BY <1>1, <1>2, <1>3, <1>6, OwnSays
  <2>2. /\ (request.gzip => \A j \in (layer + 1)..Len(chain) : chain[j] # "compress") =>
              \A m \in (tops[layer] + 1)..Len(writers) : ~Compresses(m)
        /\ (request.gzip => \A j \in 1..(layer - 1) : chain[j] # "compress") =>
              \A m \in 1..tops[layer] : ~Compresses(m)
    BY <1>1, <1>2, <1>3, OwnPlace
  <2> QED  BY <2>1, <2>2 DEF Own
<1>8. Want \in Nat /\ Want' = Want
  BY <1>1, <1>2 DEF Want, PipeTypes
<1>9. /\ DOMAIN log' = {"status", "bytes", "id"} /\ log'.id = log.id
      /\ panic = "none" => log'.status = Want /\ log'.bytes = Own.bytes
      /\ panic # "none" => log' = log
  <2>1. DOMAIN log = {"status", "bytes", "id"}
    BY <1>2 DEF PipeTypes
  <2>2. PICK s, b : s = Own.status /\ b = Own.bytes
    OBVIOUS
  <2>3. log' = IF panic = "none" THEN [log EXCEPT !.status = s, !.bytes = b] ELSE log
    BY <1>1, <2>2
  <2> QED  BY <1>7, <2>1, <2>2, <2>3
<1>10. log'.status \in Nat
  <2>1. log.status \in Nat
    BY <1>2 DEF PipeTypes
  <2> QED  BY <1>8, <1>9, <2>1
<1>11. span.state # "open" /\ (span.status # 0 => panic = "none" /\ span.status = Want)
  BY <1>1, <1>2 DEF Reports
<1>12. log.status # 0 => panic = "none"
  BY <1>2 DEF Reports
<1>13. ASSUME panic = "none", LogIsInside
       PROVE  log'.bytes = Size(said.body)
  <2>1. chain \in Seq(Layers) /\ Len(chain) \in Nat /\ DOMAIN chain = 1..Len(chain)
    BY <1>2 DEF Places
  <2>2. \A j \in (layer + 1)..Len(chain) : j \in DOMAIN chain /\ ~(j < layer)
    BY <1>3, <2>1
  <2>3. request.gzip => \A j \in (layer + 1)..Len(chain) : chain[j] # "compress"
    BY <1>1, <1>3, <1>13, <2>2 DEF LogIsInside
  <2> QED  BY <1>7, <1>9, <1>13, <2>3
<1>14. ASSUME panic = "none", NEW i \in DOMAIN chain, i > layer',
              request.gzip => \A j \in 1..(i - 1) : chain[j] # "compress"
       PROVE  log'.bytes = Size(wire.body)
  <2>1. chain \in Seq(Layers) /\ i \in Nat /\ (i = layer \/ i > layer)
    <3>1. chain \in Seq(Layers)
      BY <1>2 DEF Places
    <3> QED  BY <1>3, <1>14, <3>1
  <2>2. \A j \in 1..(layer - 1) : j \in 1..(i - 1)
    BY <1>3, <2>1
  <2> QED  BY <1>7, <1>9, <1>14, <2>2
<1>15. Reports'
  <2>1. LogIsInside' <=> LogIsInside
    BY <1>4 DEF LogIsInside
  <2>2. headers'.id = ctxID' /\ log'.id \in {"", ctxID'}
    BY <1>1, <1>2, <1>4, <1>9 DEF Reports
  <2>3. log'.status # 0 =>
             /\ panic' = "none" /\ log'.status = Want'
             /\ LogIsInside' => log'.bytes = Size(said'.body)
             /\ \A i \in DOMAIN chain' :
                   /\ chain'[i] = "log" /\ i > layer'
                   /\ request'.gzip => \A j \in 1..(i - 1) : chain'[j] # "compress"
                   => calls' = <<>> /\ log'.bytes = Size(wire'.body)
    <3>1. log'.status # 0 => panic = "none"
      BY <1>9, <1>12
    <3> QED  BY <1>1, <1>4, <1>8, <1>9, <1>13, <1>14, <2>1, <3>1
  <2> QED  BY <1>1, <1>4, <1>8, <1>11, <2>2, <2>3 DEF Reports
<1>16. Recovered'
  BY <1>1, RecoveredStays
<1> QED  BY <1>1, <1>9, <1>10, <1>15, <1>16, QuietlyLeft

\* A writer that has a status, with no compressor above it, got it from what was said.
LEMMA WroteSaid ==
    ASSUME PipeTypes, Places, NEW T \in Nat, NEW got, NEW sent, Flow(T, got, sent), calls = <<>>,
           NEW i \in DOMAIN tops, i = layer, chain[i] = "recover", writers[tops[i]].wrote,
           request.gzip => \A j \in (i + 1)..Len(chain) : chain[j] # "compress"
    PROVE  said.status # 0
<1>1. PICK t, n : t = tops[i] /\ n = Len(writers)
  OBVIOUS
<1>2. t \in 1..T /\ ~Compresses(t) /\ \A m \in (t + 1)..n : ~Compresses(m)
  BY <1>1, OwnSays, OwnPlace
<1>3. Live(T) /\ GoesDown(T) /\ n \in Nat
  BY <1>1, WriterTypes DEF Flow
<1>4. T \in 0..n
  BY <1>1, <1>3 DEF Live
<1>5. t \in 0..(T + 1) /\ T + 1 \in 0..(T + 1) /\ t < T + 1 /\ t # T + 1 /\ t # 0
      /\ (T < n => T + 1 \in (t + 1)..n)
  BY ONLY <1>2, <1>3, <1>4
<1>6. Told(t)
  BY <1>1, <1>2, <1>5 DEF Told
<1>7. Tells(T, T + 1)
  BY <1>3, <1>5, <1>6 DEF GoesDown, Tells
<1>8. said.status # 0 \/ T < n
  BY <1>1, <1>7 DEF Tells
<1>9. T < n => said.status # 0 \/ Compresses(T + 1)
  BY <1>1, <1>3 DEF Live
<1> QED  BY <1>2, <1>5, <1>8, <1>9

\* Recover's 500 keeps the invariant (logger.go Recover).
LEMMA RecoverLeft ==
    ASSUME PipeInv, LeaveRecover
    PROVE  PipeInv'
<1>1. /\ Left /\ chain[layer] = "recover" /\ UNCHANGED <<log, span>> /\ calls = <<>>
      /\ IF panic = "bug" /\ ~Own.wrote
         THEN LayerFails(tops[layer], 500) /\ panic' = "none"
         ELSE UNCHANGED <<calls, said, headers, panic>>
  BY DEF LeaveRecover, Leaving, Left, routeVars, noteVars
<1>2. PipeTypes /\ Places /\ Recovered
  BY DEF PipeInv
<1>3. panic' \in {panic, "none"}
  BY <1>1
<1>4. /\ layer \in DOMAIN tops /\ layer \in DOMAIN chain /\ Places' /\ Scripted' /\ Guarded'
      /\ \A i \in DOMAIN chain : i > layer' => i = layer \/ i > layer
  BY <1>1, <1>3, LayerLeft
<1>5. phase = "leaving" /\ phase' = "leaving" /\ UNCHANGED <<chain, request>>
  BY <1>1 DEF Left
<1>6. PICK T \in Nat : \E got, sent \in [0..T -> Nat] : Flow(T, got, sent)
  BY <1>5 DEF PipeInv
<1>7. PICK got \in [0..T -> Nat], sent \in [0..T -> Nat] : Flow(T, got, sent)
  BY <1>6
<1>8. CASE panic = "bug" /\ ~Own.wrote
  <2>1. panic' = "none" /\ panic # "none" /\ LayerFails(tops[layer], 500)
    BY <1>1, <1>8
  <2>2. /\ PipeTypes' /\ Answers(tops[layer], 500)
        /\ \E T2 \in Nat : \E got2, sent2 \in [0..T2 -> Nat] : Flow(T2, got2, sent2)'
    BY <1>2, <1>7, <1>8, RecoverFlow
  <2>3. Reports'
    <3>1. headers'.id = headers.id
      BY <2>2 DEF Answers
    <3> QED  BY <1>1, <1>3, <2>1, <3>1, ReportsStay
  <2>4. Recovered'
    BY <2>1 DEF Recovered
  <2>5. Promised'
    <3>1. DOMAIN headers = {"type", "length", "encoding", "vary", "id"}
      BY <1>2 DEF PipeTypes
    <3>2. headers'.length = 0
      BY <2>1, <3>1 DEF LayerFails
    <3> QED  BY <3>2 DEF Promised
  <2> QED  BY <1>4, <1>5, <2>2, <2>3, <2>4, <2>5 DEF PipeInv
<1>9. CASE ~(panic = "bug" /\ ~Own.wrote)
  <2>1. UNCHANGED <<calls, said, headers, panic>>
    BY <1>1, <1>9
  <2>2. Reports'
    BY <1>1, <1>3, <2>1, ReportsStay
  <2>3. Recovered'
    <3> SUFFICES ASSUME panic = "bug", NEW i \in DOMAIN chain, chain[i] = "recover", i > layer',
                        request.gzip => \A j \in (i + 1)..Len(chain) : chain[j] # "compress"
                PROVE  said.status # 0
      BY <1>5, <2>1 DEF Recovered
    <3>1. CASE i = layer
      <4>1. writers[tops[layer]].wrote
        BY <1>9 DEF Own
      <4> QED  BY <1>1, <1>2, <1>4, <1>7, <3>1, <4>1, WroteSaid
    <3>2. CASE i > layer
      BY <1>2, <3>2 DEF Recovered
    <3> QED  BY <1>4, <3>1, <3>2
  <2>4. DOMAIN log' = {"status", "bytes", "id"} /\ log'.status \in Nat
    BY <1>1, <1>2 DEF PipeTypes
  <2>5. request.gzip => chain[layer] # "compress"
    BY <1>1
  <2> QED  BY <1>1, <2>1, <2>2, <2>3, <2>4, <2>5, QuietlyLeft
<1> QED  BY <1>8, <1>9

-----------------------------------------------------------------------------
(* The end.                                                                 *)

\* With every layer left nothing is held anywhere: everything has come to the wire.
LEMMA AllSent ==
    ASSUME PipeTypes, Places, NEW T \in Nat, NEW got, NEW sent, Flow(T, got, sent), calls = <<>>,
           phase = "leaving", layer = 0
    PROVE  /\ Len(wire.body) = Len(said.body) /\ Numbered(wire.body, 0, Gz(0))
           /\ Gz(0) = IF headers.encoding = "gzip" THEN 1 ELSE 0
           /\ \A x \in DOMAIN said.body : said.body[x].gz = Gz(0) \/ headers.vary
           /\ wire.status # 0 => wire.status = Want /\ wire.headers = headers
           /\ said.status # 0 => wire.status # 0
<1>1. /\ Live(T) /\ GoesDown(T) /\ StatusIs(T) /\ Pieces(T, got, sent) /\ SaidIs(T) /\ DOMAIN calls = {}
  BY DEF Flow
<1>2. \A m \in 1..T : ~Compresses(m)
  <2>1. \A i \in DOMAIN tops : ~(i <= layer)
    BY DEF PipeTypes
  <2> QED  BY <1>1, <2>1 DEF Live, Closing
<1>3. 0 \in 0..T /\ T \in 0..T /\ 0 <= T /\ 0 + 1 = 1
  OBVIOUS
<1>4. got[0] = got[T]
  <2>1. \A m \in (0 + 1)..T : ~Compresses(m)
    BY <1>2
  <2> QED  BY <1>3, <2>1, PlainBetween
<1>5. got[T] = sent[T] /\ sent[T] = Len(said.body) /\ Len(wire.body) = got[0] /\ Numbered(wire.body, 0, Gz(0))
  BY <1>1, <1>3 DEF Pieces
<1>6. Gz(0) = IF headers.encoding = "gzip" THEN 1 ELSE 0
  <2>1. \A j \in 1..0 : FALSE
    OBVIOUS
  <2> QED  BY <2>1 DEF Gz
<1>7. \A x \in DOMAIN said.body : said.body[x].gz = Gz(0) \/ headers.vary
  BY <1>1, <1>3 DEF SaidIs
<1>8. wire.status # 0 => wire.status = Want /\ wire.headers = headers
  BY <1>1 DEF StatusIs
<1>9. said.status # 0 => wire.status # 0
  <2>1. 0 \in 0..(T + 1) /\ T + 1 \in 0..(T + 1) /\ 0 < T + 1 /\ \A m \in 0..((T + 1) - 1) : m = 0 \/ m \in 1..T
    OBVIOUS
  <2>2. said.status # 0 => Tells(T, T + 1)
    BY DEF Tells
  <2>3. Tells(T, T + 1) => Told(0) \/ \E m \in 0..((T + 1) - 1) : Stops(m)
    BY <1>1, <2>1 DEF GoesDown
  <2>4. \A m \in 0..((T + 1) - 1) : ~Stops(m)
    BY <1>1, <1>2, <2>1 DEF Stops, Waits
  <2> QED  BY <2>2, <2>3, <2>4 DEF Told
<1> QED  BY <1>4, <1>5, <1>6, <1>7, <1>8, <1>9

\* The response is served as it was asked for.
LEMMA Served ==
    ASSUME PipeInv, Serve
    PROVE  PipeInv'
<1>1. /\ phase = "leaving" /\ calls = <<>> /\ layer = 0 /\ phase' = "done"
      /\ UNCHANGED <<chain, request, layer, tops, writers, calls, headers, script, said, panic, ctxID, log, span>>
  BY DEF Serve, routeVars, sayVars, noteVars
<1>2. PipeTypes /\ Places /\ Promised /\ Reports /\ Recovered
  BY DEF PipeInv
<1>3. PICK T \in Nat : \E got, sent \in [0..T -> Nat] : Flow(T, got, sent)
  BY <1>1 DEF PipeInv
<1>4. PICK got \in [0..T -> Nat], sent \in [0..T -> Nat] : Flow(T, got, sent)
  BY <1>3
<1>5. /\ Len(wire.body) = Len(said.body) /\ Numbered(wire.body, 0, Gz(0))
      /\ Gz(0) = IF headers.encoding = "gzip" THEN 1 ELSE 0
      /\ \A x \in DOMAIN said.body : said.body[x].gz = Gz(0) \/ headers.vary
      /\ wire.status # 0 => wire.status = Want /\ wire.headers = headers
      /\ said.status # 0 => wire.status # 0
  BY <1>1, <1>2, <1>4, AllSent
<1>6. /\ DOMAIN wire = {"status", "headers", "body", "seen", "end"} /\ wire.body \in Seq(Piece)
      /\ said.body \in Seq(Piece) /\ wire.status \in Nat /\ wire.seen \in 0..Len(wire.body)
  BY <1>2 DEF PipeTypes
<1>7. PICK w, h, n : w = HeaderGone(200) /\ h = headers /\ n = Len(w.body)
  OBVIOUS
<1>8. /\ w.status = Want /\ w.headers = headers /\ w.body = wire.body /\ w.seen = wire.seen /\ w.status \in Nat
      /\ DOMAIN w = {"status", "headers", "body", "seen", "end"}
  <2>1. CASE wire.status = 0
    <3>1. w = [wire EXCEPT !.status = 200, !.headers = h]
      BY <1>7, <2>1 DEF HeaderGone
    <3>2. Want = 200
      BY <1>5, <2>1 DEF Want
    <3>3. PICK r : r = wire
      OBVIOUS
    <3>4. DOMAIN r = {"status", "headers", "body", "seen", "end"} /\ w = [r EXCEPT !.status = 200, !.headers = h]
      BY <1>6, <3>1, <3>3
    <3>5. PICK v : v = [r EXCEPT !.status = 200]
      OBVIOUS
    <3>6. /\ DOMAIN v = {"status", "headers", "body", "seen", "end"}
          /\ v.status = 200 /\ v.body = r.body /\ v.seen = r.seen
      BY ONLY <3>4, <3>5
    <3>7. w = [v EXCEPT !.headers = h]
      BY ONLY <3>4, <3>5, SMT
    <3>8. /\ DOMAIN w = {"status", "headers", "body", "seen", "end"}
          /\ w.status = 200 /\ w.headers = h /\ w.body = r.body /\ w.seen = r.seen
      BY ONLY <3>6, <3>7
    <3> QED  BY ONLY <1>7, <3>2, <3>3, <3>8
  <2>2. CASE wire.status # 0
    <3>1. w = wire
      BY <1>7, <2>2 DEF HeaderGone
    <3> QED  BY <1>5, <1>6, <2>2, <3>1
  <2> QED  BY <2>1, <2>2
<1>9. Size(wire.body) = Weight(Len(wire.body), Gz(0)) /\ Gz(0) \in {0, 1}
  <2>1. Gz(0) \in {0, 1} /\ \A x \in DOMAIN wire.body : wire.body[x].gz = Gz(0)
    BY <1>5 DEF Numbered
  <2> QED  BY <1>6, <2>1, SizeIs DEF Weight
<1>10. panic = "none" => headers.length \in {0, Size(wire.body)}
  BY <1>1, <1>2, <1>5, <1>9 DEF Promised
<1>11. \/ panic # "none" /\ wire' = [wire EXCEPT !.end = "torn"]
       \/ panic = "none" /\ wire' = [w EXCEPT !.end = "whole", !.seen = n]
  <2>1. PICK short : short = (w.headers.length # 0 /\ w.headers.length # Size(w.body))
    OBVIOUS
  <2>2. wire' = IF panic # "none" \/ short THEN [wire EXCEPT !.end = "torn"]
                ELSE [w EXCEPT !.end = "whole", !.seen = n]
    BY <1>7, <2>1 DEF Serve
  <2>3. panic = "none" => ~short
    BY <1>8, <1>10, <2>1
  <2> QED  BY <2>2, <2>3
<1>12. /\ DOMAIN wire' = {"status", "headers", "body", "seen", "end"} /\ wire'.body = wire.body /\ wire'.status \in Nat
       /\ wire'.seen \in 0..Len(wire.body)
       /\ panic = "none" => wire'.end = "whole" /\ wire'.status = Want /\ wire'.headers = headers
  <2>1. Len(wire.body) \in Nat /\ n = Len(wire.body)
    BY <1>6, <1>7, <1>8
  <2>2. n \in 0..Len(wire.body)
    BY <2>1
  <2>3. CASE panic # "none"
    BY <1>6, <1>11, <2>3
  <2>4. CASE panic = "none"
    BY <1>8, <1>11, <2>2, <2>4
  <2> QED  BY <2>3, <2>4
<1>13. PipeTypes'
  BY <1>1, <1>2, <1>6, <1>12 DEF PipeTypes
<1>14. Places'
  <2>1. \A i \in DOMAIN tops : Compresses(tops[i])' <=> Compresses(tops[i])
    BY <1>1 DEF Compresses
  <2>2. \A k : Compresses(k)' <=> Compresses(k)
    BY <1>1 DEF Compresses
  <2> QED  BY <1>1, <1>2, <2>1, <2>2 DEF Places
<1>15. Scripted' /\ Guarded'
  BY <1>1 DEF Scripted, Guarded
<1>16. Promised' /\ Recovered'
  BY <1>1, <1>2 DEF Promised, Recovered
<1>17. span.state # "open"
  <2>1. chain \in Seq(Layers)
    BY <1>2 DEF Places
  <2>2. layer \notin DOMAIN chain
    BY <1>1, <2>1
  <2> QED  BY <1>2, <2>2 DEF Reports
<1>18. Want' = Want
  BY <1>1 DEF Want
<1>19. Reports'
  <2>1. LogIsInside' <=> LogIsInside
    BY <1>1 DEF LogIsInside
  <2> QED  BY <1>1, <1>2, <1>12, <1>17, <1>18, <2>1 DEF Reports
<1>20. RepliesAreWhole'
  <2>1. CASE panic = "none"
    <3>1. \A i \in DOMAIN wire.body : wire.body[i].of = i /\ wire.body[i].gz = Gz(0)
      <4>1. DOMAIN wire.body \subseteq Nat
        BY <1>6
      <4> QED  BY <1>5, <4>1 DEF Numbered
    <3>2. DOMAIN wire.body = DOMAIN said.body
      BY <1>5, <1>6
    <3>3. [i \in DOMAIN wire.body |-> wire.body[i].of] = [i \in DOMAIN said.body |-> i]
      BY <3>1, <3>2
    <3>4. \A i \in DOMAIN wire.body :
                   /\ wire.body[i].gz = IF headers.encoding = "gzip" THEN 1 ELSE 0
                   /\ wire.body[i].gz # said.body[i].gz => headers.vary
      BY <1>5, <3>1, <3>2
    <3> QED  BY <1>1, <1>10, <1>12, <2>1, <3>3, <3>4 DEF RepliesAreWhole, Want
  <2>2. CASE panic # "none"
    <3>1. panic = "bug" /\ RecoverIsInside => said.status # 0
      <4>1. \A i \in DOMAIN chain : i > layer
        <5>1. chain \in Seq(Layers)
          BY <1>2 DEF Places
        <5> QED  BY <1>1, <5>1
      <4> QED  BY <1>2, <4>1 DEF Recovered, RecoverIsInside
    <3>2. RecoverIsInside' <=> RecoverIsInside
      BY <1>1 DEF RecoverIsInside
    <3> QED  BY <1>1, <2>2, <3>1, <3>2 DEF RepliesAreWhole
  <2> QED  BY <2>1, <2>2
<1>21. ReportedIsSent'
  <2>1. log.status # 0 =>
            /\ panic = "none" /\ log.status = Want
            /\ LogIsInside => log.bytes = Size(said.body)
            /\ LogIsOutside => log.bytes = Size(wire.body)
            /\ log.id \in {"", headers.id}
    <3>1. \A i \in DOMAIN chain : i > layer
      <4>1. chain \in Seq(Layers)
        BY <1>2 DEF Places
      <4> QED  BY <1>1, <4>1
    <3> QED  BY <1>2, <3>1 DEF Reports, LogIsOutside
  <2>2. span.status # 0 => panic = "none" /\ span.status = Want
    BY <1>2 DEF Reports
  <2>3. (LogIsInside' <=> LogIsInside) /\ (LogIsOutside' <=> LogIsOutside)
    BY <1>1 DEF LogIsInside, LogIsOutside
  <2> QED  BY <1>1, <1>12, <1>17, <2>1, <2>2, <2>3 DEF ReportedIsSent
<1> QED  BY <1>1, <1>13, <1>14, <1>15, <1>16, <1>19, <1>20, <1>21 DEF PipeInv

-----------------------------------------------------------------------------
(* All together.                                                            *)

\* A call on a writer is under way only while the handler runs or the layers are left.
LEMMA CallsNow ==
    ASSUME PipeInv, calls # <<>>
    PROVE  /\ PipeTypes /\ Around /\ phase \in {"handling", "leaving"}
           /\ \E T \in Nat : \E got, sent \in [0..T -> Nat] : Flow(T, got, sent)
<1>1. PipeTypes /\ Around
  BY DEF PipeInv, Around
<1>2. phase \in {"handling", "leaving"}
  BY DEF PipeInv, PipeTypes, Fresh
<1> QED  BY <1>1, <1>2 DEF PipeInv

\* A call on a writer keeps the invariant.
LEMMA WritersKeep ==
    ASSUME PipeInv,
           \/ WriterHeader \/ WriterWrite \/ WriterFlush
           \/ CompressorHeader \/ CompressorWrite \/ CompressorFlush \/ CompressorClose \/ NetHttp
    PROVE  PipeInv'
<1>1. calls # <<>> /\ UNCHANGED phase
  <2>1. calls # <<>>
    BY DEF WriterHeader, WriterWrite, WriterFlush, CompressorHeader, CompressorWrite, CompressorFlush,
           CompressorClose, NetHttp, Is
  <2>2. UNCHANGED phase
    BY DEF WriterHeader, WriterWrite, WriterFlush, CompressorHeader, CompressorWrite, CompressorFlush,
           CompressorClose, NetHttp, PipeRest
  <2> QED  BY <2>1, <2>2
<1>2. /\ PipeTypes /\ Around /\ phase \in {"handling", "leaving"}
      /\ \E T \in Nat : \E got, sent \in [0..T -> Nat] : Flow(T, got, sent)
  BY <1>1, CallsNow
<1>3. PICK T \in Nat : \E got, sent \in [0..T -> Nat] : Flow(T, got, sent)
  BY <1>2
<1>4. PICK got \in [0..T -> Nat], sent \in [0..T -> Nat] : Flow(T, got, sent)
  BY <1>3
<1>5. /\ PipeTypes' /\ Around'
      /\ \E T2 \in Nat : \E got2, sent2 \in [0..T2 -> Nat] : Flow(T2, got2, sent2)'
  <2>1. CASE WriterHeader \/ WriterWrite \/ WriterFlush
    <3>1. PipeTypes' /\ Around' /\ \E got2, sent2 \in [0..T -> Nat] : Flow(T, got2, sent2)'
      BY <1>2, <1>4, <2>1, WriterActs
    <3> QED  BY <3>1
  <2>2. CASE CompressorHeader \/ CompressorWrite \/ CompressorFlush
    <3>1. PipeTypes' /\ Around' /\ \E got2, sent2 \in [0..T -> Nat] : Flow(T, got2, sent2)'
      BY <1>2, <1>4, <2>2, CompressorActs
    <3> QED  BY <3>1
  <2>3. CASE CompressorClose
    BY <1>2, <1>4, <2>3, CloseActs
  <2>4. CASE NetHttp
    <3>1. PipeTypes' /\ Around' /\ \E got2, sent2 \in [0..T -> Nat] : Flow(T, got2, sent2)'
      BY <1>2, <1>4, <2>4, NetHttpActs
    <3> QED  BY <3>1
  <2> QED  BY <2>1, <2>2, <2>3, <2>4
<1>6. (\E T2 \in Nat : \E got2, sent2 \in [0..T2 -> Nat] : Flow(T2, got2, sent2))'
  BY <1>5
<1>7. phase' \in {"handling", "leaving"}
  BY <1>1, <1>2
<1> QED  BY <1>5, <1>6, <1>7 DEF PipeInv, Around

\* Nothing happens.
LEMMA PipeStutters ==
    ASSUME PipeInv, UNCHANGED pipeVars
    PROVE  PipeInv'
<1>1. UNCHANGED <<chain, request, phase, layer, tops, writers, calls, script, headers, wire, said, panic,
                  ctxID, log, span>>
  BY DEF pipeVars
<1>2. PipeTypes' /\ Fresh' = Fresh
  BY <1>1 DEF PipeInv, PipeTypes, Fresh
<1>3. \A k : (Compresses(k)' <=> Compresses(k)) /\ (Works(k)' <=> Works(k)) /\ (Waits(k)' <=> Waits(k))
             /\ (Told(k)' <=> Told(k)) /\ Stored(k)' = Stored(k) /\ (Closing(k)' <=> Closing(k))
             /\ (HeaderComes(k)' <=> HeaderComes(k))
  BY <1>1 DEF Compresses, Works, Waits, Told, Stored, Closing, HeaderComes, Does
<1>4. Want' = Want
  BY <1>1 DEF Want
<1>5. \A k : Gz(k)' = Gz(k)
  BY <1>1, <1>3 DEF Gz
<1>6. Places'
  BY <1>1, <1>3 DEF PipeInv, Places
<1>7. Scripted' /\ Promised'
  BY <1>1, <1>5 DEF PipeInv, Scripted, Promised
<1>8. Reports' /\ Recovered' /\ Guarded'
  <2>1. (LogIsInside' <=> LogIsInside) /\ \A i : LetThrough(i)' <=> LetThrough(i)
    BY <1>1 DEF LogIsInside, LetThrough, Applies
  <2> QED  BY <1>1, <1>4, <2>1 DEF PipeInv, Reports, Recovered, Guarded
<1>9. ASSUME NEW T \in Nat, NEW got, NEW sent, Flow(T, got, sent)
      PROVE  Flow(T, got, sent)'
  <2>1. Live(T)' /\ StatusIs(T)'
    BY <1>1, <1>3, <1>4, <1>9 DEF Flow, Live, StatusIs
  <2>2. Pieces(T, got, sent)' /\ Compressing(T)'
    <3>1. Pieces(T, got, sent) /\ Compressing(T)
      BY <1>9 DEF Flow
    <3>2. /\ got \in [0..T -> Nat] /\ sent \in [0..T -> Nat] /\ sent[T] = Len(said'.body) /\ Len(wire'.body) = got[0]
      BY <1>1, <3>1 DEF Pieces
    <3>3. Numbered(wire.body, 0, Gz(0))'
      BY <1>1, <1>5, <3>1 DEF Pieces, Numbered
    <3>4. \A k \in 0..T : got[k] = sent[k] \/ \E i \in DOMAIN calls' : calls'[i].at = k /\ Does(i, "bytes")'
      BY <1>1, <3>1 DEF Pieces, Does
    <3>5. \A i \in DOMAIN calls' : \A k \in 0..T : calls'[i].at = k /\ Does(i, "bytes")' =>
             /\ got[k] + Len(calls'[i].call.pieces) = sent[k]
             /\ Numbered(calls[i].call.pieces, got[k], Gz(k))'
      BY <1>1, <1>5, <3>1 DEF Pieces, Does, Numbered
    <3>6. \A k \in 1..T : /\ sent[k - 1] + Len(Stored(k)') = got[k]
                          /\ Numbered(Stored(k), sent[k - 1], IF Works(k) THEN 1 ELSE Gz(k))'
                          /\ ~Told(k)' => sent[k - 1] = 0
                          /\ ~Compresses(k)' => writers'[k].bytes = IF Gz(k)' = 1 THEN got[k] ELSE 2 * got[k]
      BY <1>1, <1>3, <1>5, <3>1 DEF Pieces, Numbered
    <3>7. Compressing(T)'
      BY <1>1, <1>3, <3>1 DEF Compressing
    <3> QED  BY <3>2, <3>3, <3>4, <3>5, <3>6, <3>7 DEF Pieces
  <2>3. SaidIs(T)' /\ Flushes(T, sent)'
    BY <1>1, <1>3, <1>5, <1>9 DEF Flow, SaidIs, Flushes, Does
  <2>4. \A k : (Tells(T, k)' <=> Tells(T, k)) /\ (Stops(k)' <=> Stops(k))
    BY <1>1, <1>3 DEF Tells, Stops
  <2>5. GoesDown(T)'
    BY <1>3, <1>9, <2>4 DEF Flow, GoesDown
  <2>6. InOrder(T)'
    <3>1. \A i, k : Allowed(T, i, k)' <=> Allowed(T, i, k)
      BY <1>1, <1>3, <1>4, <2>4 DEF Allowed, Does
    <3> QED  BY <1>1, <1>9, <3>1 DEF Flow, InOrder, Does
  <2> QED  BY <2>1, <2>2, <2>3, <2>5, <2>6 DEF Flow
<1>10. phase \in {"handling", "leaving"} =>
          (\E T \in Nat : \E got, sent \in [0..T -> Nat] : Flow(T, got, sent))'
  BY <1>9 DEF PipeInv
<1>11. phase = "done" => RepliesAreWhole' /\ ReportedIsSent'
  <2>1. (LogIsInside' <=> LogIsInside) /\ (LogIsOutside' <=> LogIsOutside) /\ (RecoverIsInside' <=> RecoverIsInside)
    BY <1>1 DEF LogIsInside, LogIsOutside, RecoverIsInside
  <2> QED  BY <1>1, <2>1 DEF PipeInv, RepliesAreWhole, ReportedIsSent
<1> QED  BY <1>1, <1>2, <1>6, <1>7, <1>8, <1>10, <1>11 DEF PipeInv

\* A sequence of nothing.
LEMMA NoneYet ==
    ASSUME NEW S
    PROVE  <<>> \in Seq(S) /\ Len(<<>>) = 0 /\ DOMAIN <<>> = {}
OBVIOUS

\* The first state of a request.
LEMMA PipeBegins ==
    ASSUME PipeInit
    PROVE  PipeInv
<1>1. /\ chain \in Chains /\ request \in Requests /\ script \in Scripts
      /\ phase = "entering" /\ layer = 1 /\ tops = <<>> /\ writers = <<>> /\ calls = <<>>
      /\ headers = NoHeaders /\ wire = NewWire(NoHeaders) /\ said = Nothing /\ panic = "none"
      /\ ctxID = "" /\ log = NoLine /\ span = NoSpan
  BY DEF PipeInit
<1>2. chain \in Seq(Layers) /\ Len(chain) \in Nat
  <2>1. chain \in Seq(Layers)
    BY <1>1, ChainAssumption, Zenon
  <2> QED  BY ONLY <2>1
<1>9. \A S : <<>> \in Seq(S) /\ Len(<<>>) = 0 /\ DOMAIN <<>> = {}
  BY NoneYet
<1>3. PipeTypes
  <2>1. /\ tops \in Seq(Nat) /\ writers \in Seq(AWriter \cup ACompressor)
        /\ calls \in Seq([at : Nat, call : Call])
    BY ONLY <1>1, <1>9
  <2>2. /\ DOMAIN headers = {"type", "length", "encoding", "vary", "id"}
        /\ headers.length \in Nat /\ headers.encoding \in {"none", "gzip"} /\ headers.vary \in BOOLEAN
    BY <1>1 DEF NoHeaders
  <2>3. /\ DOMAIN wire = {"status", "headers", "body", "seen", "end"}
        /\ wire.status \in Nat /\ wire.body \in Seq(Piece) /\ wire.seen \in 0..Len(wire.body)
    <3>1. wire = [status |-> 0, headers |-> NoHeaders, body |-> <<>>, seen |-> 0, end |-> "open"]
      BY ONLY <1>1 DEF NewWire
    <3>2. <<>> \in Seq(Piece) /\ Len(<<>>) = 0 /\ 0 \in 0..0
      BY <1>9
    <3>4. PICK h, e : h = NoHeaders /\ e = <<>>
      OBVIOUS
    <3>5. wire = [status |-> 0, headers |-> h, body |-> e, seen |-> 0, end |-> "open"]
      BY ONLY <3>1, <3>4
    <3> HIDE DEF Piece
    <3>6. /\ DOMAIN wire = {"status", "headers", "body", "seen", "end"}
          /\ wire.status = 0 /\ wire.body = e /\ wire.seen = 0
      BY ONLY <3>5
    <3>3. /\ DOMAIN wire = {"status", "headers", "body", "seen", "end"}
          /\ wire.status = 0 /\ wire.body = <<>> /\ wire.seen = 0
      BY ONLY <3>4, <3>6, Zenon
    <3>7. wire.status \in Nat /\ wire.seen \in 0..Len(wire.body)
      BY ONLY <3>2, <3>3
    <3> QED  BY ONLY <3>2, <3>3, <3>7, Zenon
  <2>4. said \in [status : Nat, body : Seq(Piece), pushed : BOOLEAN, flushed : Nat]
    <3>1. said = [status |-> 0, body |-> <<>>, pushed |-> FALSE, flushed |-> 0] /\ <<>> \in Seq(Piece)
      BY ONLY <1>1, <1>9 DEF Nothing
    <3>2. PICK B : B = Seq(Piece)
      OBVIOUS
    <3>3. PICK e : e = <<>>
      OBVIOUS
    <3>4. said = [status |-> 0, body |-> e, pushed |-> FALSE, flushed |-> 0] /\ e \in B
      BY ONLY <3>1, <3>2, <3>3
    <3>5. said \in [status : Nat, body : B, pushed : BOOLEAN, flushed : Nat]
      BY ONLY <3>4
    <3> QED  BY ONLY <3>2, <3>5
  <2>5. DOMAIN log = {"status", "bytes", "id"} /\ log.status \in Nat
    BY <1>1 DEF NoLine
  <2> QED  BY <1>1, <2>1, <2>2, <2>3, <2>4, <2>5 DEF PipeTypes
<1>4. Places
  <2>1. DOMAIN tops = {} /\ Len(tops) = 0 /\ Len(writers) = 0
    BY ONLY <1>1, <1>9, Zenon
  <2>2. 1 \in 1..(Len(chain) + 1) /\ 0 = 1 - 1 /\ 1 <= 0 + 1 /\ 0 <= Len(chain) /\ 1..0 = {}
    BY <1>2
  <2> QED  BY <1>1, <1>2, <2>1, <2>2 DEF Places
<1>5. Scripted /\ Promised /\ Recovered
  BY <1>1 DEF Scripted, Promised, Recovered, NoHeaders
<1>6. Guarded
  <2>1. 1..(1 - 1) = {}
    OBVIOUS
  <2> QED  BY <1>1, <2>1 DEF Guarded
<1>7. Reports
  BY <1>1 DEF Reports, NoHeaders, NoLine, NoSpan
<1>8. Fresh
  <2>1. Len(writers) = 0 /\ DOMAIN writers = {}
    BY ONLY <1>1, <1>9, Zenon
  <2>2. headers.length = 0 /\ headers.encoding = "none" /\ log.status = 0 /\ span.state # "open" /\ span.status = 0
    BY <1>1 DEF NoHeaders, NoLine, NoSpan
  <2> QED  BY <1>1, <2>1, <2>2 DEF Fresh
<1> QED  BY <1>1, <1>3, <1>4, <1>5, <1>6, <1>7, <1>8 DEF PipeInv

\* Every step of a request keeps the invariant.
LEMMA PipeSteps ==
    ASSUME PipeInv, [PipeNext]_pipeVars
    PROVE  PipeInv'
<1>1. CASE EnterRequestID \/ EnterLogger \/ EnterRecover \/ EnterCompress \/ EnterCSRF \/ EnterGuard \/ EnterHandler
  BY <1>1, RequestIDEntered, LoggerEntered, RecoverEntered, CompressEntered, CSRFEntered, GuardEntered, HandlerEntered
<1>2. CASE HandlerCalls \/ HandlerRuns \/ HandlerReturns
  BY <1>2, HandlerCalled, HandlerRan, HandlerReturned
<1>3. CASE \/ WriterHeader \/ WriterWrite \/ WriterFlush
           \/ CompressorHeader \/ CompressorWrite \/ CompressorFlush \/ CompressorClose \/ NetHttp
  BY <1>3, WritersKeep
<1>4. CASE LeavePlain \/ LeaveLogger \/ LeaveRecover \/ LeaveCompress \/ LeaveGuard \/ Serve
  BY <1>4, PlainLeft, LoggerLeft, RecoverLeft, CompressLeft, GuardLeft, Served
<1>5. CASE UNCHANGED pipeVars
  BY <1>5, PipeStutters
<1> QED  BY <1>1, <1>2, <1>3, <1>4, <1>5 DEF PipeNext

\* Whatever the chain and the request, PipeInv holds of every state (mw.go, compress.go, logger.go,
\* csrf.go, app.go).
THEOREM PipeInvariant == PipeSpec => []PipeInv
<1>1. PipeInit => PipeInv
  BY PipeBegins
<1>2. PipeInv /\ [PipeNext]_pipeVars => PipeInv'
  BY PipeSteps
<1> QED  BY <1>1, <1>2, PTL DEF PipeSpec

-----------------------------------------------------------------------------
(* What it says.                                                            *)

\* A flushed event is not kept back.
LEMMA FlushesAreSeen ==
    ASSUME PipeInv
    PROVE  FlushedIsSeen
<1> SUFFICES ASSUME phase = "handling", calls = <<>>, said.pushed
            PROVE  wire.status # 0 /\ wire.seen >= said.flushed
  BY DEF FlushedIsSeen
<1>1. PICK T \in Nat : \E got, sent \in [0..T -> Nat] : Flow(T, got, sent)
  BY DEF PipeInv
<1>2. PICK got \in [0..T -> Nat], sent \in [0..T -> Nat] : Flow(T, got, sent)
  BY <1>1
<1>3. DOMAIN calls = {}
  OBVIOUS
<1> QED  BY <1>2, <1>3 DEF Flow, Flushes

-----------------------------------------------------------------------------
(* A path's characters and its segments (mw.go Under).                      *)

\* The paths there are.
UsedPaths == {Prefix} \cup {r.path : r \in Requests}

\* What is true of 0, and of a number when it is of the one before, is true.
LEMMA Steps ==
    ASSUME NEW n \in Nat, NEW S, 0 \in S, \A i \in 1..n : i - 1 \in S => i \in S
    PROVE  \A i \in 0..n : i \in S
<1> SUFFICES ASSUME NEW j \in 0..n, j \notin S
            PROVE  FALSE
  OBVIOUS
<1> DEFINE T == {d \in 0..n : d \notin S}
           R == OpToRel(<, Nat)
<1>1. T \subseteq Nat /\ T # {}
  OBVIOUS
<1>2. \A x \in T : x # 0 /\ x - 1 \in T /\ x - 1 < x
  OBVIOUS
<1> HIDE DEF T, R
<1>3. PICK x \in T : \A y \in T : ~(<<y, x>> \in R)
  BY <1>1, NatLessThanWellFounded, WFMin DEF R
<1>4. \A y \in T : ~(y < x)
  BY <1>1, <1>3 DEF OpToRel, R
<1> QED  BY <1>2, <1>4

\* The places where a path is cut are in a row.
LEMMA CutsAreOrdered ==
    ASSUME NEW p, p.parts \in Seq(Segments), NEW cut \in [0..Len(p.parts) -> Nat], SpelledAt(p, cut)
    PROVE  /\ \A i \in 1..Len(p.parts) :
                 /\ p.parts[i] \in Segments /\ Letters[p.parts[i]] \in Seq(STRING)
                 /\ cut[i] > cut[i - 1]
           /\ \A i \in 0..Len(p.parts) : cut[i] <= cut[Len(p.parts)]
<1> DEFINE n == Len(p.parts)
<1>1. n \in Nat /\ DOMAIN p.parts = 1..n
  OBVIOUS
<1>2. ASSUME NEW i \in 1..n
      PROVE  p.parts[i] \in Segments /\ Letters[p.parts[i]] \in Seq(STRING) /\ cut[i] > cut[i - 1]
  <2>1. p.parts[i] \in Segments
    BY <1>1
  <2>2. Letters[p.parts[i]] \in Seq(STRING)
    BY <2>1, SpellingAssumption
  <2>3. Len(Letters[p.parts[i]]) \in Nat
    BY <2>2
  <2>4. cut[i] = cut[i - 1] + 1 + Len(Letters[p.parts[i]])
    BY DEF SpelledAt
  <2>5. cut[i] \in Nat /\ cut[i - 1] \in Nat
    BY <1>1
  <2> QED  BY <2>1, <2>2, <2>3, <2>4, <2>5
<1> DEFINE S == {d \in 0..n : cut[n - d] <= cut[n]}
<1>3. 0 \in S
  BY <1>1
<1>4. ASSUME NEW d \in 1..n, d - 1 \in S
      PROVE  d \in S
  <2>1. n - (d - 1) \in 1..n /\ n - (d - 1) - 1 = n - d /\ n - d \in 0..n /\ n \in 0..n
    BY <1>1
  <2>2. cut[n - (d - 1)] > cut[n - d]
    BY <1>2, <2>1
  <2>3. cut[n - (d - 1)] <= cut[n]
    BY <1>4
  <2>4. \A k \in 0..n : cut[k] \in Nat
    OBVIOUS
  <2>5. n - (d - 1) \in 0..n
    BY <1>1
  <2>6. cut[n - (d - 1)] \in Nat /\ cut[n - d] \in Nat /\ cut[n] \in Nat
    BY <2>1, <2>4, <2>5
  <2> QED  BY <2>1, <2>2, <2>3, <2>6
<1> HIDE DEF S
<1>5. \A d \in 0..n : d \in S
  BY <1>1, <1>3, <1>4, Steps
<1>6. ASSUME NEW i \in 0..n
      PROVE  cut[i] <= cut[n]
  <2>1. n - i \in 0..n /\ n - (n - i) = i
    BY <1>1
  <2> QED  BY <1>5, <2>1 DEF S
<1> QED  BY <1>2, <1>6

\* Where the segments of a prefix are those of a path, so are its characters.
LEMMA SegmentsSpell ==
    ASSUME NEW p \in UsedPaths, NEW q \in UsedPaths, p.parts \in Seq(Segments),
           q.parts \in Seq(Segments),
           NEW c \in [0..Len(p.parts) -> Nat], SpelledAt(p, c),
           NEW d \in [0..Len(q.parts) -> Nat], SpelledAt(q, d),
           Len(q.parts) <= Len(p.parts), \A i \in 1..Len(q.parts) : q.parts[i] = p.parts[i]
    PROVE  /\ c[Len(q.parts)] = d[Len(q.parts)]
           /\ \A x \in 1..d[Len(q.parts)] : p.text[x] = q.text[x]
<1> DEFINE m == Len(q.parts)
           n == Len(p.parts)
           S == {i \in 0..m : c[i] = d[i] /\ \A x \in 1..d[i] : p.text[x] = q.text[x]}
<1>1. m \in Nat /\ n \in Nat /\ m <= n
  OBVIOUS
<1>2. 0 \in S
  BY <1>1 DEF SpelledAt
<1>3. ASSUME NEW i \in 1..m, i - 1 \in S
      PROVE  i \in S
  <2>1. i \in 1..n /\ i \in 0..m /\ i - 1 \in 0..m /\ q.parts[i] = p.parts[i]
    BY <1>1
  <2>2. PICK L : L = Letters[q.parts[i]]
    OBVIOUS
  <2>3. PICK l \in Nat : l = Len(L)
    <3>1. L \in Seq(STRING)
      BY <2>2, CutsAreOrdered
    <3> QED  BY <3>1
  <2>4. PICK a : a = d[i - 1]
    OBVIOUS
  <2>5. a \in Nat /\ a = c[i - 1] /\ \A x \in 1..a : p.text[x] = q.text[x]
    BY <1>3, <2>1, <2>4
  <2>6. /\ d[i] = a + 1 + l /\ q.text[a + 1] = "/"
        /\ \A j \in 1..l : q.text[a + 1 + j] = L[j]
    BY <2>2, <2>3, <2>4 DEF SpelledAt
  <2>7. /\ c[i] = a + 1 + l /\ p.text[a + 1] = "/"
        /\ \A j \in 1..l : p.text[a + 1 + j] = L[j]
    <3>1. p.parts[i] = q.parts[i] /\ L = Letters[p.parts[i]] /\ c[i - 1] = a
      BY <2>1, <2>2, <2>5
    <3> QED  BY <2>1, <2>3, <3>1 DEF SpelledAt
  <2>8. ASSUME NEW x \in 1..(a + 1 + l)
        PROVE  p.text[x] = q.text[x]
    <3>1. a \in Nat /\ l \in Nat /\ x \in 1..(a + 1 + l)
      BY <2>3, <2>5
    <3>2. x \in 1..a \/ x = a + 1 \/ (x - a - 1 \in 1..l /\ x = a + 1 + (x - a - 1))
      BY <3>1
    <3>3. CASE x \in 1..a
      BY <2>5, <3>3
    <3>4. CASE x = a + 1
      BY <2>6, <2>7, <3>4
    <3>5. CASE x - a - 1 \in 1..l /\ x = a + 1 + (x - a - 1)
      <4> DEFINE j == x - a - 1
      <4>1. j \in 1..l /\ x = a + 1 + j
        BY <3>5
      <4>2. p.text[a + 1 + j] = L[j] /\ q.text[a + 1 + j] = L[j]
        BY <2>6, <2>7, <4>1
      <4> QED  BY <4>1, <4>2
    <3> QED  BY <3>2, <3>3, <3>4, <3>5
  <2> QED  BY <2>1, <2>6, <2>7, <2>8
<1> HIDE DEF S
<1>4. \A i \in 0..m : i \in S
  BY <1>1, <1>2, <1>3, Steps
<1>5. m \in S
  BY <1>1, <1>4
<1> QED  BY <1>5 DEF S

\* Where a path goes on with a slash, or not, after the characters of a prefix, it has its segments.
LEMMA CharactersSpell ==
    ASSUME NEW p \in UsedPaths, NEW q \in UsedPaths, p.parts \in Seq(Segments),
           q.parts \in Seq(Segments), p.text \in Seq(STRING),
           \A i \in 1..Len(q.parts) : Letters[q.parts[i]] # <<>>,
           NEW c \in [0..Len(p.parts) -> Nat], SpelledAt(p, c),
           NEW d \in [0..Len(q.parts) -> Nat], SpelledAt(q, d),
           d[Len(q.parts)] <= Len(p.text), \A x \in 1..d[Len(q.parts)] : p.text[x] = q.text[x],
           Len(p.text) = d[Len(q.parts)] \/ p.text[d[Len(q.parts)] + 1] = "/"
    PROVE  Len(q.parts) <= Len(p.parts) /\ \A i \in 1..Len(q.parts) : q.parts[i] = p.parts[i]
<1> DEFINE m == Len(q.parts)
           n == Len(p.parts)
           e == d[m]
           S == {i \in 0..m : i <= n /\ c[i] = d[i] /\ \A h \in 1..i : q.parts[h] = p.parts[h]}
<1>1. m \in Nat /\ n \in Nat /\ e \in Nat /\ Len(p.text) \in Nat
  <2>1. m \in Nat /\ n \in Nat /\ Len(p.text) \in Nat
    OBVIOUS
  <2>2. m \in 0..m
    BY <2>1
  <2>3. d[m] \in Nat
    BY <2>2
  <2> QED  BY <2>1, <2>3
<1>2. 0 \in S
  BY <1>1 DEF SpelledAt
<1>3. ASSUME NEW i \in 1..m, i - 1 \in S
      PROVE  i \in S
  <2>1. i \in 0..m /\ i - 1 \in 0..m /\ i - 1 <= n /\ c[i - 1] = d[i - 1]
        /\ \A h \in 1..(i - 1) : q.parts[h] = p.parts[h]
    BY <1>1, <1>3
  <2>2. PICK K : K = Letters[q.parts[i]]
    OBVIOUS
  <2>3. PICK a : a = d[i - 1]
    OBVIOUS
  <2>4. /\ q.parts[i] \in Segments /\ Len(K) \in Nat \ {0} /\ K \in Seq(STRING)
        /\ \A j \in 1..Len(K) : K[j] # "/"
    <3>1. q.parts[i] \in Segments /\ K \in Seq(STRING) /\ K # <<>>
      BY <2>2, CutsAreOrdered
    <3>2. Len(K) \in Nat \ {0} /\ DOMAIN K = 1..Len(K)
      BY <3>1
    <3>3. \A j \in DOMAIN K : K[j] # "/"
      BY <2>2, <3>1, SpellingAssumption
    <3> QED  BY <3>1, <3>2, <3>3
  <2>5. /\ a \in Nat /\ d[i] = a + 1 + Len(K) /\ q.text[a + 1] = "/" /\ d[i] <= e
        /\ \A j \in 1..Len(K) : q.text[a + 1 + j] = K[j]
    <3>1. a \in Nat
      BY <1>1, <2>1, <2>3
    <3>2. \A k \in 0..Len(q.parts) : d[k] <= d[Len(q.parts)]
      BY CutsAreOrdered
    <3>3. d[i] <= e
      BY <2>1, <3>2
    <3> QED  BY <2>2, <2>3, <3>1, <3>3 DEF SpelledAt
  <2>6. Len(p.text) = c[n] \/ (Len(p.text) = c[n] + 1 /\ p.text[c[n] + 1] = "/")
    BY DEF SpelledAt
  <2>7. i <= n
    <3> SUFFICES ASSUME n = i - 1
                 PROVE  FALSE
      BY <1>1, <2>1
    <3>1. c[n] = a
      BY <2>1, <2>3
    <3> QED  BY <1>1, <2>4, <2>5, <2>6, <3>1
  <2>8. PICK L : L = Letters[p.parts[i]]
    OBVIOUS
  <2>9. i \in 1..n
    BY <1>1, <2>7
  <2>10. /\ p.parts[i] \in Segments /\ Len(L) \in Nat /\ L \in Seq(STRING)
         /\ \A j \in 1..Len(L) : L[j] # "/"
    <3>1. p.parts[i] \in Segments /\ L \in Seq(STRING)
      BY <2>8, <2>9, CutsAreOrdered
    <3>2. Len(L) \in Nat /\ DOMAIN L = 1..Len(L)
      BY <3>1
    <3>3. \A j \in DOMAIN L : L[j] # "/"
      BY <2>8, <3>1, SpellingAssumption
    <3> QED  BY <3>1, <3>2, <3>3
  <2>11. c[i] = a + 1 + Len(L) /\ \A j \in 1..Len(L) : p.text[a + 1 + j] = L[j]
    <3>1. c[i - 1] = a /\ Letters[p.parts[i]] = L
      BY <2>1, <2>3, <2>8
    <3>2. c[i] = c[i - 1] + 1 + Len(Letters[p.parts[i]])
      BY <2>9 DEF SpelledAt
    <3>3. \A j \in 1..Len(Letters[p.parts[i]]) : p.text[c[i - 1] + 1 + j] = Letters[p.parts[i]][j]
      BY <2>9 DEF SpelledAt
    <3> QED  BY <3>1, <3>2, <3>3
  <2>12. c[i] <= c[n] /\ c[i] \in Nat /\ c[n] \in Nat
    <3>1. \A o \in 0..Len(p.parts) : c[o] <= c[Len(p.parts)]
      BY CutsAreOrdered
    <3>2. i \in 0..n /\ n \in 0..n
      BY <1>1, <2>9
    <3> QED  BY <3>1, <3>2
  <2>13. i < n => p.text[c[i] + 1] = "/"
    <3>1. ASSUME i < n
          PROVE  i + 1 \in 1..n /\ (i + 1) - 1 = i
      BY <1>1, <3>1
    <3> QED  BY <3>1 DEF SpelledAt
  <2>14. i < m => q.text[d[i] + 1] = "/" /\ d[i] + 1 <= e
    <3>1. SUFFICES ASSUME i < m
                   PROVE  q.text[d[i] + 1] = "/" /\ d[i] + 1 <= e
      OBVIOUS
    <3>2. i + 1 \in 1..m /\ (i + 1) - 1 = i /\ i + 1 \in 0..m
      BY <1>1, <3>1
    <3>3. q.text[d[i] + 1] = "/"
      BY <3>2 DEF SpelledAt
    <3>4. d[i + 1] > d[i] /\ d[i + 1] <= e
      BY <3>2, CutsAreOrdered
    <3>5. d[i] \in Nat /\ d[i + 1] \in Nat
      BY <2>1, <3>2
    <3> QED  BY <1>1, <3>3, <3>4, <3>5
  <2>15. PICK k \in Nat, l \in Nat : k = Len(K) /\ l = Len(L)
    BY <2>4, <2>10
  <2>16. d[i] = a + 1 + k /\ c[i] = a + 1 + l /\ a \in Nat /\ a + 1 + k <= e
    BY <2>5, <2>11, <2>15
  <2>17. ~(l < k)
    <3> SUFFICES ASSUME l < k
                 PROVE  FALSE
      OBVIOUS
    <3>1. c[i] + 1 = a + 1 + (l + 1) /\ l + 1 \in 1..k /\ c[i] + 1 <= e /\ c[i] + 1 \in 1..e
      BY <1>1, <2>16
    <3>2. q.text[c[i] + 1] # "/"
      <4>1. q.text[a + 1 + (l + 1)] = K[l + 1] /\ K[l + 1] # "/"
        BY <2>4, <2>5, <2>15, <3>1
      <4> QED  BY <3>1, <4>1
    <3>3. p.text[c[i] + 1] = q.text[c[i] + 1]
      BY <3>1
    <3>4. p.text[c[i] + 1] = "/"
      <4>1. CASE i < n
        BY <2>13, <4>1
      <4>2. CASE i = n
        <5>1. c[n] + 1 <= Len(p.text)
          BY <1>1, <2>12, <3>1, <4>2
        <5> QED  BY <2>6, <2>12, <4>2, <5>1
      <4> QED  BY <1>1, <2>7, <4>1, <4>2
    <3> QED  BY <3>2, <3>3, <3>4
  <2>18. ~(k < l)
    <3> SUFFICES ASSUME k < l
                 PROVE  FALSE
      OBVIOUS
    <3>1. d[i] + 1 = a + 1 + (k + 1) /\ k + 1 \in 1..l /\ d[i] + 1 <= c[i] /\ d[i] \in Nat
      BY <2>16
    <3>2. p.text[d[i] + 1] # "/"
      <4>1. p.text[a + 1 + (k + 1)] = L[k + 1] /\ L[k + 1] # "/"
        BY <2>10, <2>11, <2>15, <3>1
      <4> QED  BY <3>1, <4>1
    <3>3. CASE i < m
      <4>1. d[i] + 1 \in 1..e
        BY <1>1, <2>14, <3>1, <3>3
      <4> QED  BY <2>14, <3>2, <3>3, <4>1
    <3>4. CASE i = m
      <4>1. Len(p.text) # e
        BY <1>1, <2>6, <2>12, <3>1, <3>4
      <4> QED  BY <3>2, <3>4, <4>1
    <3> QED  BY <1>1, <3>3, <3>4
  <2>19. Len(K) = Len(L)
    BY <2>15, <2>17, <2>18
  <2>20. ASSUME NEW j \in 1..Len(K)
         PROVE  K[j] = L[j]
    <3>1. a + 1 + j \in 1..e
      BY <1>1, <2>15, <2>16
    <3>2. p.text[a + 1 + j] = q.text[a + 1 + j]
      BY <3>1
    <3> QED  BY <2>5, <2>11, <2>19, <3>2
  <2>21. K = L
    <3>1. K = [j \in 1..Len(K) |-> K[j]] /\ L = [j \in 1..Len(L) |-> L[j]]
      BY <2>4, <2>10
    <3> QED  BY <2>19, <2>20, <3>1
  <2>22. q.parts[i] = p.parts[i]
    BY <2>2, <2>4, <2>8, <2>10, <2>21, SpellingAssumption
  <2>23. \A h \in 1..i : q.parts[h] = p.parts[h]
    <3>1. \A h \in 1..i : h \in 1..(i - 1) \/ h = i
      BY <1>1
    <3> QED  BY <2>1, <2>22, <3>1
  <2> QED  BY <2>1, <2>5, <2>7, <2>11, <2>19, <2>23
<1> HIDE DEF S
<1>4. \A i \in 0..m : i \in S
  BY <1>1, <1>2, <1>3, Steps
<1>5. m \in S
  BY <1>1, <1>4
<1> QED  BY <1>5 DEF S

\* Under asks whether a path goes on with a slash, or not, after the characters of a prefix, without
\* the slash that it may end with.
LEMMA UnderIsBefore ==
    ASSUME NEW p \in UsedPaths, NEW q \in UsedPaths, p.parts \in Seq(Segments),
           q.parts \in Seq(Segments), p.text \in Seq(STRING), q.text \in Seq(STRING),
           \A i \in 1..Len(q.parts) : Letters[q.parts[i]] # <<>>,
           NEW c \in [0..Len(p.parts) -> Nat], SpelledAt(p, c),
           NEW d \in [0..Len(q.parts) -> Nat], SpelledAt(q, d)
    PROVE  Under(p.text, q.text) <=>
              /\ d[Len(q.parts)] <= Len(p.text)
              /\ \A x \in 1..d[Len(q.parts)] : p.text[x] = q.text[x]
              /\ Len(p.text) = d[Len(q.parts)] \/ p.text[d[Len(q.parts)] + 1] = "/"
<1> DEFINE m == Len(q.parts)
           n == Len(p.parts)
           bare == IF q.text # <<>> /\ Last(q.text) = "/" THEN Front(q.text) ELSE q.text
<1>1. m \in Nat /\ n \in Nat /\ m \in 0..m
  OBVIOUS
<1>2. PICK e \in Nat : e = d[m]
  BY <1>1
<1>3. Len(q.text) = e \/ (Len(q.text) = e + 1 /\ q.text[e + 1] = "/")
  BY <1>2 DEF SpelledAt
<1>4. e # 0 => q.text[e] # "/"
  <2> SUFFICES ASSUME e # 0
               PROVE  q.text[e] # "/"
    OBVIOUS
  <2>1. m \in 1..m
    BY <1>1, <1>2 DEF SpelledAt
  <2>2. PICK L, a : L = Letters[q.parts[m]] /\ a = d[m - 1]
    OBVIOUS
  <2>3. q.parts[m] \in Segments /\ L \in Seq(STRING) /\ L # <<>>
    BY <2>1, <2>2, CutsAreOrdered
  <2>4. Len(L) \in Nat \ {0} /\ Len(L) \in DOMAIN L
    BY <2>3
  <2>5. L[Len(L)] # "/"
    BY <2>2, <2>3, <2>4, SpellingAssumption
  <2>6. e = a + 1 + Len(L) /\ q.text[a + 1 + Len(L)] = L[Len(L)]
    <3>1. Len(L) \in 1..Len(L)
      BY <2>4
    <3> QED  BY <1>2, <2>1, <2>2, <3>1 DEF SpelledAt
  <2> QED  BY <2>5, <2>6
<1>5. bare \in Seq(STRING) /\ Len(bare) = e /\ \A x \in 1..e : bare[x] = q.text[x]
  <2>1. CASE Len(q.text) = e
    <3>1. bare = q.text
      <4>1. CASE e = 0
        BY <2>1, <4>1
      <4>2. CASE e # 0
        BY <1>4, <2>1, <4>2 DEF Last
      <4> QED  BY <4>1, <4>2
    <3> QED  BY <2>1, <3>1
  <2>2. CASE Len(q.text) = e + 1 /\ q.text[e + 1] = "/"
    <3>1. q.text # <<>>
      BY <2>2
    <3>2. bare = SubSeq(q.text, 1, e)
      BY <2>2, <3>1 DEF Front, Last
    <3>3. e \in 0..Len(q.text)
      BY <2>2
    <3>4. SubSeq(q.text, 1, e) = [x \in 1..e |-> q.text[x]]
      BY <3>3
    <3>5. \A x \in 1..e : q.text[x] \in STRING
      BY <3>3
    <3>6. [x \in 1..e |-> q.text[x]] \in Seq(STRING) /\ Len([x \in 1..e |-> q.text[x]]) = e
      BY <3>5
    <3> QED  BY <3>2, <3>4, <3>6
  <2> QED  BY <1>3, <2>1, <2>2
<1> HIDE DEF bare
<1>6. Under(p.text, q.text) <=> (bare = <<>> \/ p.text = bare \/ IsPrefix(Append(bare, "/"), p.text))
  BY DEF Under, bare
<1>7. bare = <<>> => Len(p.text) = 0 \/ p.text[1] = "/"
  <2>1. CASE n = 0
    BY <2>1 DEF SpelledAt
  <2>2. CASE n # 0
    <3>1. 1 \in 1..n /\ 1 - 1 = 0
      BY <1>1, <2>2
    <3>2. c[0] = 0 /\ p.text[c[0] + 1] = "/"
      BY <3>1 DEF SpelledAt
    <3> QED  BY <3>2
  <2> QED  BY <2>1, <2>2
<1>8. bare = <<>> <=> e = 0
  BY <1>5
<1>9. p.text = bare <=> Len(p.text) = e /\ \A x \in 1..e : p.text[x] = q.text[x]
  <2>1. PICK t, l : t = p.text /\ l = Len(t)
    OBVIOUS
  <2>2. t \in Seq(STRING) /\ t = [x \in 1..l |-> t[x]]
    BY <2>1
  <2>3. bare = [x \in 1..e |-> bare[x]]
    BY <1>5
  <2>4. t = bare <=> l = e /\ \A x \in 1..e : t[x] = bare[x]
    BY <1>5, <2>1, <2>2, <2>3
  <2> QED  BY <1>5, <2>1, <2>4
<1>10. IsPrefix(Append(bare, "/"), p.text)
       <=> e + 1 <= Len(p.text) /\ p.text[e + 1] = "/" /\ \A x \in 1..e : p.text[x] = q.text[x]
  <2> DEFINE s == Append(bare, "/")
  <2>1. s \in Seq(STRING \cup {"/"}) /\ Len(s) = e + 1 /\ s[e + 1] = "/" /\ \A x \in 1..e : s[x] = q.text[x]
    <3>1. s \in Seq(STRING \cup {"/"}) /\ Len(s) = Len(bare) + 1 /\ s[Len(bare) + 1] = "/"
      BY <1>5
    <3>2. \A x \in 1..Len(bare) : s[x] = bare[x]
      BY <1>5
    <3> HIDE DEF s
    <3> QED  BY <1>5, <3>1, <3>2
  <2> HIDE DEF s
  <2>2. SubSeq(s, 1, Len(s)) = [x \in 1..(e + 1) |-> s[x]]
    BY <2>1
  <2>3. e + 1 <= Len(p.text) => SubSeq(p.text, 1, Len(s)) = [x \in 1..(e + 1) |-> p.text[x]]
    BY <2>1
  <2>4. IsPrefix(s, p.text) <=> e + 1 <= Len(p.text) /\ \A x \in 1..(e + 1) : s[x] = p.text[x]
    BY <2>1, <2>2, <2>3 DEF IsPrefix
  <2>5. \A x \in 1..(e + 1) : x \in 1..e \/ x = e + 1
    BY <1>2
  <2>6. (\A x \in 1..(e + 1) : s[x] = p.text[x])
        <=> p.text[e + 1] = "/" /\ \A x \in 1..e : p.text[x] = q.text[x]
    <3>1. e + 1 \in 1..(e + 1) /\ \A x \in 1..e : x \in 1..(e + 1)
      BY <1>2
    <3>2. ASSUME \A x \in 1..(e + 1) : s[x] = p.text[x]
          PROVE  p.text[e + 1] = "/" /\ \A x \in 1..e : p.text[x] = q.text[x]
      BY <2>1, <3>1, <3>2
    <3>3. ASSUME p.text[e + 1] = "/", \A x \in 1..e : p.text[x] = q.text[x], NEW x \in 1..(e + 1)
          PROVE  s[x] = p.text[x]
      BY <2>1, <2>5, <3>3
    <3> QED  BY <3>2, <3>3
  <2> QED  BY <2>4, <2>6 DEF s
<1>11. p.text[e + 1] = "/" /\ e <= Len(p.text) => Len(p.text) = e \/ e + 1 <= Len(p.text)
  OBVIOUS
<1>12. CASE e = 0
  BY <1>2, <1>6, <1>7, <1>8, <1>12
<1>13. CASE e # 0
  BY <1>2, <1>6, <1>8, <1>9, <1>10, <1>11, <1>13
<1> QED  BY <1>12, <1>13

\* Under goes by whole segments, although it reads characters.
THEOREM UnderIsByParts ==
    ASSUME NEW r \in Requests
    PROVE  Under(r.path.text, Prefix.text) <=> IsPrefix(Prefix.parts, r.path.parts)
<1>1. PICK p, q : p = r.path /\ q = Prefix
  OBVIOUS
<1>2. Spelled(p) /\ Spelled(q) /\ p \in UsedPaths /\ q \in UsedPaths
  BY <1>1, SpellingAssumption DEF UsedPaths
<1>3. /\ p.parts \in Seq(Segments) /\ q.parts \in Seq(Segments)
      /\ p.text \in Seq(STRING) /\ q.text \in Seq(STRING)
      /\ \A i \in 1..Len(q.parts) : Letters[q.parts[i]] # <<>>
  <2>1. /\ p.parts \in Seq(Segments) /\ q.parts \in Seq(Segments)
        /\ p.text \in Seq(STRING) /\ q.text \in Seq(STRING)
    BY <1>2 DEF Spelled
  <2>2. DOMAIN q.parts = 1..Len(q.parts)
    BY <2>1
  <2> QED  BY <1>1, <2>1, <2>2, SpellingAssumption
<1>4. PICK c \in [0..Len(p.parts) -> Nat] : SpelledAt(p, c)
  <2>1. PICK c \in [0..Len(p.parts) -> 0..Len(p.text)] : SpelledAt(p, c)
    BY <1>2 DEF Spelled
  <2>2. c \in [0..Len(p.parts) -> Nat]
    BY <1>3
  <2> QED  BY <2>1, <2>2
<1>5. PICK d \in [0..Len(q.parts) -> Nat] : SpelledAt(q, d)
  <2>1. PICK d \in [0..Len(q.parts) -> 0..Len(q.text)] : SpelledAt(q, d)
    BY <1>2 DEF Spelled
  <2>2. d \in [0..Len(q.parts) -> Nat]
    BY <1>3
  <2> QED  BY <2>1, <2>2
<1> DEFINE Reaches == /\ d[Len(q.parts)] <= Len(p.text)
                      /\ \A x \in 1..d[Len(q.parts)] : p.text[x] = q.text[x]
                      /\ Len(p.text) = d[Len(q.parts)] \/ p.text[d[Len(q.parts)] + 1] = "/"
           Covers == Len(q.parts) <= Len(p.parts) /\ \A i \in 1..Len(q.parts) : q.parts[i] = p.parts[i]
<1>6. Under(p.text, q.text) <=> Reaches
  BY <1>2, <1>3, <1>4, <1>5, UnderIsBefore
<1>7. ASSUME Reaches
      PROVE  Covers
  <2>1. /\ d[Len(q.parts)] <= Len(p.text) /\ \A x \in 1..d[Len(q.parts)] : p.text[x] = q.text[x]
        /\ Len(p.text) = d[Len(q.parts)] \/ p.text[d[Len(q.parts)] + 1] = "/"
    BY <1>7
  <2> HIDE DEF Reaches, Covers
  <2>2. Len(q.parts) <= Len(p.parts) /\ \A i \in 1..Len(q.parts) : q.parts[i] = p.parts[i]
    BY <1>2, <1>3, <1>4, <1>5, <2>1, CharactersSpell
  <2> QED  BY <2>2 DEF Covers
<1>8. ASSUME Covers
      PROVE  Reaches
  <2>1. PICK m, n \in Nat : m = Len(q.parts) /\ n = Len(p.parts) /\ m \in Nat
    BY <1>3
  <2>2. c[m] = d[m] /\ \A x \in 1..d[m] : p.text[x] = q.text[x]
    <3>1. Len(q.parts) <= Len(p.parts) /\ \A i \in 1..Len(q.parts) : q.parts[i] = p.parts[i]
      BY <1>8
    <3> HIDE DEF Reaches, Covers
    <3>2. c[Len(q.parts)] = d[Len(q.parts)] /\ \A x \in 1..d[Len(q.parts)] : p.text[x] = q.text[x]
      BY <1>2, <1>3, <1>4, <1>5, <3>1, SegmentsSpell
    <3> QED  BY <2>1, <3>2
  <2>3. m <= n /\ m \in 0..n /\ n \in 0..n
    BY <1>8, <2>1
  <2>4. c[m] <= c[n] /\ c[m] \in Nat /\ c[n] \in Nat
    BY <1>3, <1>4, <2>1, <2>3, CutsAreOrdered
  <2>5. Len(p.text) = c[n] \/ (Len(p.text) = c[n] + 1 /\ p.text[c[n] + 1] = "/")
    BY <1>4, <2>1 DEF SpelledAt
  <2>6. m < n => p.text[c[m] + 1] = "/"
    <3>1. ASSUME m < n
          PROVE  m + 1 \in 1..n /\ (m + 1) - 1 = m
      BY <2>1, <3>1
    <3> QED  BY <1>4, <2>1, <3>1 DEF SpelledAt
  <2>7. d[m] <= Len(p.text) /\ (Len(p.text) = d[m] \/ p.text[d[m] + 1] = "/")
    <3>1. CASE m < n
      BY <2>2, <2>4, <2>5, <2>6, <3>1
    <3>2. CASE m = n
      BY <2>2, <2>4, <2>5, <3>2
    <3> QED  BY <2>1, <2>3, <3>1, <3>2
  <2> QED  BY <2>1, <2>2, <2>7
<1>9. IsPrefix(q.parts, p.parts) <=> Covers
  <2>1. PICK m \in Nat : m = Len(q.parts)
    BY <1>3
  <2>2. SubSeq(q.parts, 1, m) = [i \in 1..m |-> q.parts[i]]
    BY <1>3, <2>1
  <2>3. m <= Len(p.parts) => SubSeq(p.parts, 1, m) = [i \in 1..m |-> p.parts[i]]
    BY <1>3, <2>1
  <2>4. (\A i \in 1..m : q.parts[i] = p.parts[i])
        <=> [i \in 1..m |-> q.parts[i]] = [i \in 1..m |-> p.parts[i]]
    OBVIOUS
  <2> QED  BY <2>1, <2>2, <2>3, <2>4 DEF IsPrefix
<1>10. Under(p.text, q.text) <=> IsPrefix(q.parts, p.parts)
  BY <1>6, <1>7, <1>8, <1>9
<1> QED  BY <1>1, <1>10

-----------------------------------------------------------------------------
(* The theorems.                                                            *)

\* A guard that let the request through was asked about the segments.
LEMMA GuardsStood ==
    ASSUME PipeInv
    PROVE  GuardsStandBefore
<1> SUFFICES ASSUME phase = "handling", NEW i \in DOMAIN chain
            PROVE  /\ chain[i] = "only" /\ IsPrefix(Prefix.parts, request.path.parts) => request.signedIn
                   /\ chain[i] = "except" /\ ~IsPrefix(Prefix.parts, request.path.parts) => request.signedIn
                   /\ chain[i] = "csrf" => request.safe \/ request.token
  BY DEF GuardsStandBefore
<1>1. LetThrough(i)
  BY DEF PipeInv, Guarded
<1>2. Under(request.path.text, Prefix.text) <=> IsPrefix(Prefix.parts, request.path.parts)
  <2>1. request \in Requests
    BY DEF PipeInv, PipeTypes
  <2> QED  BY <2>1, UnderIsByParts
<1> QED  BY <1>1, <1>2 DEF LetThrough, Applies

\* What the invariant says of an answer.
LEMMA AnswerIsWhole ==
    ASSUME PipeInv
    PROVE  RepliesAreWhole /\ ReportedIsSent /\ FlushedIsSeen
<1>1. RepliesAreWhole /\ ReportedIsSent
  BY DEF PipeInv, PipeTypes, RepliesAreWhole, ReportedIsSent
<1> QED  BY <1>1, FlushesAreSeen

\* Whatever the chain of middleware and the prefix of its guards, the client gets the whole of the
\* reply that was asked for, with headers that describe it; the log line and the span report what was
\* sent; and what a handler flushed has reached the client before it goes on (mw.go Writer and Named,
\* compress.go, logger.go LogWith and Recover, stream.go SendEvent).
THEOREM EveryReplyIsWhole == PipeSpec => [](RepliesAreWhole /\ ReportedIsSent /\ FlushedIsSeen)
<1>1. PipeInv => RepliesAreWhole /\ ReportedIsSent /\ FlushedIsSeen
  BY AnswerIsWhole
<1> QED  BY <1>1, PipeInvariant, PTL

\* Whatever the chain, a handler runs behind its guards and its answer arrives (core/mw, app.go).
THEOREM EveryAnswerArrives == PipeSpec => []AnswersArrive
<1>1. PipeInv => AnswersArrive
  BY AnswerIsWhole, GuardsStood DEF AnswersArrive
<1> QED  BY <1>1, PipeInvariant, PTL
=============================================================================
