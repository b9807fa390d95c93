---------------------------- MODULE HsStreamProofs ----------------------------
(* Theorems about HsStream, for every number of streams, scratch spaces and  *)
(* bytes, every history length and every bound.                              *)
EXTENDS HsStream, TLAPS

-----------------------------------------------------------------------------
(* Facts about the stack of calls. *)

(* Returning from the innermost call leaves the outer frames. *)
LEMMA PopTop ==
    ASSUME NEW S, NEW s \in Seq(S), s # <<>>
    PROVE  LET t == SubSeq(s, 1, Len(s) - 1) IN
           /\ Len(s) \in Nat \ {0}
           /\ t \in Seq(S) /\ Len(t) = Len(s) - 1
           /\ \A i \in 1 .. Len(s) - 1 : t[i] = s[i]
  <1>1. Len(s) \in Nat /\ Len(s) >= 1 OBVIOUS
  <1> DEFINE n == Len(s) - 1
             t == SubSeq(s, 1, n)
  <1>2. n \in Nat /\ n <= Len(s) BY <1>1
  <1> HIDE DEF n
  <1>3. t \in Seq(S) /\ Len(t) = n /\ \A i \in 1 .. n : t[i] = s[i] BY <1>1, <1>2
  <1> HIDE DEF t
  <1> QED BY <1>1, <1>3 DEF n, t

(* Starting a call keeps every frame below it. *)
LEMMA PushTop ==
    ASSUME NEW S, NEW s \in Seq(S), NEW f \in S
    PROVE  LET t == Append(s, f) IN
           /\ t \in Seq(S) /\ Len(t) = Len(s) + 1 /\ t[Len(s) + 1] = f
           /\ \A i \in 1 .. Len(s) : t[i] = s[i]
  OBVIOUS

(* Replacing the innermost frame keeps the length and the outer frames. *)
LEMMA ReplaceTop ==
    ASSUME NEW S, NEW s \in Seq(S), s # <<>>, NEW f \in S
    PROVE  LET t == Append(SubSeq(s, 1, Len(s) - 1), f) IN
           /\ t \in Seq(S) /\ Len(t) = Len(s) /\ t[Len(s)] = f
           /\ \A i \in 1 .. Len(s) - 1 : t[i] = s[i]
  <1> DEFINE b == SubSeq(s, 1, Len(s) - 1)
  <1>1. /\ Len(s) \in Nat \ {0}
        /\ b \in Seq(S) /\ Len(b) = Len(s) - 1
        /\ \A i \in 1 .. Len(s) - 1 : b[i] = s[i]
    BY PopTop, Zenon
  <1> HIDE DEF b
  <1>2. /\ Append(b, f) \in Seq(S) /\ Len(Append(b, f)) = Len(b) + 1
        /\ Append(b, f)[Len(b) + 1] = f
        /\ \A i \in 1 .. Len(b) : Append(b, f)[i] = b[i]
    BY <1>1, PushTop
  <1> QED BY <1>1, <1>2 DEF b

-----------------------------------------------------------------------------
(* The inductive invariant that keeps the frames well formed.                *)

(* The last stage of a call. *)
LastStage(f) == f.todo[Len(f.todo)]

(* A frame works on streams and buffers that exist. *)
FrameOK(f, st, bl) ==
    /\ f.op = "block" => LastStage(f) = "finish"
    /\ f.op # "block" => st[f.id] # NULL
    /\ IF f.op \in {"block", "vector"} THEN f.id = f.scratch ELSE f.id \in Streams
    /\ f.op = "copyTo" => f.from \in Streams /\ st[f.from] # NULL
    /\ f.op = "expandTo" => f.from \in Blobs /\ bl[f.from] # NULL

(* Frames work on different scratch spaces, and on streams that no frame     *)
(* below them was given.                                                     *)
Apart(f, g) == g.scratch # f.scratch /\ g.id # f.id /\ g.id # f.from

StackOK(stk, st, bl) ==
    /\ stk \in Seq(Frames)
    /\ \A i \in 1 .. Len(stk) : FrameOK(stk[i], st, bl)
    /\ \A i, j \in 1 .. Len(stk) : i < j => Apart(stk[i], stk[j])

(* A scratch is in use exactly if some frame holds it. *)
Held(stk, iu) ==
    \A x \in Scratches : iu[x] <=> \E i \in 1 .. Len(stk) : stk[i].scratch = x

IInv == TypeOK /\ StackOK(stack, stream, blob) /\ Held(stack, inUse)

(* What two frames of one call share. *)
SameCall(f, g) == f.op = g.op /\ f.id = g.id /\ f.from = g.from /\ f.scratch = g.scratch

(* A step of the innermost call, which may change the stream it works on,    *)
(* keeps the stack well formed.                                              *)
LEMMA StackReplace ==
    ASSUME NEW stk, NEW st, NEW bl, NEW iu, StackOK(stk, st, bl), Held(stk, iu),
           stk # <<>>, NEW f \in Frames, SameCall(f, stk[Len(stk)]),
           f.op = "block" => LastStage(f) = "finish",
           NEW st1, \A id \in Ids : id # f.id => st1[id] = st[id],
           st[f.id] # NULL => st1[f.id] # NULL
    PROVE  /\ StackOK(Append(SubSeq(stk, 1, Len(stk) - 1), f), st1, bl)
           /\ Held(Append(SubSeq(stk, 1, Len(stk) - 1), f), iu)
  <1> DEFINE stk1 == Append(SubSeq(stk, 1, Len(stk) - 1), f)
  <1>1. /\ stk1 \in Seq(Frames) /\ Len(stk1) = Len(stk) /\ stk1[Len(stk)] = f
        /\ \A i \in 1 .. Len(stk) - 1 : stk1[i] = stk[i]
    BY ReplaceTop DEF StackOK
  <1> HIDE DEF stk1
  <1>2. Len(stk) \in Nat \ {0} BY DEF StackOK
  <1>3. \A i \in 1 .. Len(stk) : SameCall(stk1[i], stk[i])
    <2> TAKE i \in 1 .. Len(stk)
    <2>1. CASE i = Len(stk) BY <2>1, <1>1, Zenon
    <2>2. CASE i # Len(stk)
      <3>1. stk1[i] = stk[i] BY <2>2, <1>1, <1>2
      <3> QED BY <3>1, Zenon DEF SameCall
    <2> QED BY <2>1, <2>2, Zenon
  <1>4. \A i \in 1 .. Len(stk) : FrameOK(stk1[i], st1, bl)
    <2> TAKE i \in 1 .. Len(stk)
    <2>1. FrameOK(stk[i], st, bl) /\ stk[i] \in Frames BY DEF StackOK
    <2>2. stk[i].op # "block" => st1[stk[i].id] # NULL
      <3>1. stk[i].id = f.id => st[f.id] # NULL \/ stk[i].op = "block"
        BY <2>1, Zenon DEF FrameOK
      <3>2. stk[i].id # f.id => st1[stk[i].id] = st[stk[i].id]
        BY <2>1, Zenon DEF Frames
      <3> QED BY <2>1, <3>1, <3>2, Zenon DEF FrameOK
    <2>3. stk[i].op = "copyTo" => st1[stk[i].from] # NULL
      <3>1. CASE stk[i].from = f.id BY <3>1, <2>1, Zenon DEF FrameOK
      <3>2. CASE stk[i].from # f.id BY <3>2, <2>1, Zenon DEF FrameOK, Ids
      <3> QED BY <3>1, <3>2, Zenon
    <2>4. CASE i = Len(stk)
      BY <2>4, <2>1, <2>2, <2>3, <1>1, <1>2, Zenon DEF FrameOK, SameCall
    <2>5. CASE i # Len(stk)
      <3>1. stk1[i] = stk[i] BY <2>5, <1>1, <1>2
      <3> QED BY <3>1, <2>1, <2>2, <2>3, Zenon DEF FrameOK
    <2> QED BY <2>4, <2>5, Zenon
  <1>5. \A i, j \in 1 .. Len(stk) : i < j => Apart(stk1[i], stk1[j])
    <2> TAKE i, j \in 1 .. Len(stk)
    <2>1. i < j => Apart(stk[i], stk[j]) BY Zenon DEF StackOK
    <2>2. SameCall(stk1[i], stk[i]) /\ SameCall(stk1[j], stk[j]) BY <1>3, Zenon
    <2> QED BY <2>1, <2>2, Zenon DEF Apart, SameCall
  <1>6. Held(stk1, iu) BY <1>1, <1>3 DEF Held, SameCall
  <1>7. StackOK(stk1, st1, bl) BY <1>1, <1>4, <1>5, Zenon DEF StackOK
  <1> QED BY <1>6, <1>7, Zenon DEF stk1

(* Starting a call on a free scratch and a free stream. *)
LEMMA StackPush ==
    ASSUME NEW stk, NEW st, NEW bl, NEW iu \in [Scratches -> BOOLEAN],
           StackOK(stk, st, bl), Held(stk, iu),
           NEW f \in Frames, FrameOK(f, st, bl), ~iu[f.scratch],
           \A i \in 1 .. Len(stk) : f.id # stk[i].id /\ f.id # stk[i].from
    PROVE  /\ StackOK(Append(stk, f), st, bl)
           /\ Held(Append(stk, f), [iu EXCEPT ![f.scratch] = TRUE])
  <1> DEFINE stk1 == Append(stk, f)
             iu1 == [iu EXCEPT ![f.scratch] = TRUE]
  <1>1. /\ stk1 \in Seq(Frames) /\ Len(stk1) = Len(stk) + 1 /\ stk1[Len(stk) + 1] = f
        /\ \A i \in 1 .. Len(stk) : stk1[i] = stk[i]
    BY PushTop DEF StackOK
  <1> HIDE DEF stk1
  <1>2. Len(stk) \in Nat BY DEF StackOK
  <1>3. f.scratch \in Scratches BY Zenon DEF Frames
  <1>4. \A i \in 1 .. Len(stk) : stk[i].scratch # f.scratch BY <1>3, Zenon DEF Held
  <1>5. \A i \in 1 .. Len(stk) : Apart(stk[i], f) BY <1>4, Zenon DEF Apart
  <1>6. \A i \in 1 .. Len(stk1) : FrameOK(stk1[i], st, bl)
    BY <1>1, <1>2 DEF StackOK
  <1>7. \A i, j \in 1 .. Len(stk1) : i < j => Apart(stk1[i], stk1[j])
    <2> SUFFICES ASSUME NEW i \in 1 .. Len(stk1), NEW j \in 1 .. Len(stk1), i < j
                 PROVE  Apart(stk1[i], stk1[j])
      BY Zenon
    <2>0. Len(stk1) = Len(stk) + 1 BY <1>1, Zenon
    <2>1. i \in 1 .. Len(stk) /\ (j # Len(stk) + 1 => j \in 1 .. Len(stk)) BY <2>0, <1>2
    <2>2. CASE j = Len(stk) + 1 BY <2>1, <2>2, <1>1, <1>5, Zenon
    <2>3. CASE j # Len(stk) + 1
      <3>1. stk1[i] = stk[i] /\ stk1[j] = stk[j] BY <2>1, <2>3, <1>1, Zenon
      <3> QED BY <2>1, <2>3, <3>1, Zenon DEF StackOK
    <2> QED BY <2>2, <2>3, Zenon
  <1>8. Held(stk1, iu1)
    <2> SUFFICES ASSUME NEW x \in Scratches
                 PROVE  iu1[x] <=> \E i \in 1 .. Len(stk1) : stk1[i].scratch = x
      BY Zenon DEF Held
    <2>1. CASE x = f.scratch BY <2>1, <1>1, <1>2
    <2>2. CASE x # f.scratch
      <3>1. iu1[x] = iu[x] BY <2>2, Zenon
      <3>2. iu[x] <=> \E i \in 1 .. Len(stk) : stk[i].scratch = x BY Zenon DEF Held
      <3> QED BY <2>2, <3>1, <3>2, <1>1, <1>2
    <2> QED BY <2>1, <2>2, Zenon
  <1>9. StackOK(stk1, st, bl) BY <1>1, <1>6, <1>7, Zenon DEF StackOK
  <1> QED BY <1>8, <1>9, Zenon DEF stk1

(* Returning from a call whose stream is the only one it may have changed. *)
LEMMA StackPop ==
    ASSUME NEW stk, NEW st, NEW bl, NEW iu \in [Scratches -> BOOLEAN],
           StackOK(stk, st, bl), Held(stk, iu), stk # <<>>,
           NEW st1, \A id \in Ids : id # stk[Len(stk)].id => st1[id] = st[id]
    PROVE  /\ StackOK(SubSeq(stk, 1, Len(stk) - 1), st1, bl)
           /\ Held(SubSeq(stk, 1, Len(stk) - 1),
                   [iu EXCEPT ![stk[Len(stk)].scratch] = FALSE])
  <1> DEFINE f == stk[Len(stk)]
             stk1 == SubSeq(stk, 1, Len(stk) - 1)
             iu1 == [iu EXCEPT ![f.scratch] = FALSE]
  <1>1. /\ stk1 \in Seq(Frames) /\ Len(stk1) = Len(stk) - 1
        /\ \A i \in 1 .. Len(stk) - 1 : stk1[i] = stk[i]
        /\ Len(stk) \in Nat \ {0}
    BY PopTop, Zenon DEF StackOK
  <1> HIDE DEF stk1
  <1>2. \A i \in 1 .. Len(stk1) : /\ i \in 1 .. Len(stk) /\ stk1[i] = stk[i]
                                  /\ Apart(stk[i], f) /\ stk[i] \in Frames
    BY <1>1 DEF StackOK
  <1>3. \A i \in 1 .. Len(stk1) : FrameOK(stk1[i], st1, bl)
    <2> TAKE i \in 1 .. Len(stk1)
    <2>1. FrameOK(stk[i], st, bl) BY <1>2, Zenon DEF StackOK
    <2>2. st1[stk[i].id] = st[stk[i].id] BY <1>2, Zenon DEF Apart, Frames
    <2>3. stk[i].from \in Streams => st1[stk[i].from] = st[stk[i].from]
      BY <1>2, Zenon DEF Apart, Frames, Ids
    <2> QED BY <2>1, <2>2, <2>3, <1>2, Zenon DEF FrameOK
  <1>4. \A i, j \in 1 .. Len(stk1) : i < j => Apart(stk1[i], stk1[j])
    BY <1>2, Zenon DEF StackOK
  <1>5. Held(stk1, iu1)
    <2> SUFFICES ASSUME NEW x \in Scratches
                 PROVE  iu1[x] <=> \E i \in 1 .. Len(stk1) : stk1[i].scratch = x
      BY Zenon DEF Held
    <2>1. CASE x = f.scratch BY <2>1, <1>2, Zenon DEF Apart
    <2>2. CASE x # f.scratch
      <3>1. iu1[x] = iu[x] BY <2>2, Zenon
      <3>2. iu[x] <=> \E i \in 1 .. Len(stk) : stk[i].scratch = x BY Zenon DEF Held
      <3> QED BY <2>2, <3>1, <3>2, <1>1
    <2> QED BY <2>1, <2>2, Zenon
  <1>6. StackOK(stk1, st1, bl) BY <1>1, <1>3, <1>4, Zenon DEF StackOK
  <1> QED BY <1>5, <1>6, Zenon DEF stk1

(* A change of a stream that no frame was given. *)
LEMMA StackKept ==
    ASSUME NEW stk, NEW st, NEW bl, StackOK(stk, st, bl), NEW st1,
           NEW id, \A i \in 1 .. Len(stk) : id # stk[i].id /\ id # stk[i].from,
           \A d \in Ids : d # id => st1[d] = st[d]
    PROVE  StackOK(stk, st1, bl)
  <1>1. \A i \in 1 .. Len(stk) : stk[i] \in Frames BY DEF StackOK
  <1>2. \A i \in 1 .. Len(stk) : FrameOK(stk[i], st1, bl)
    BY <1>1, Zenon DEF StackOK, FrameOK, Frames, Ids
  <1> QED BY <1>2, Zenon DEF StackOK

-----------------------------------------------------------------------------
(* Typing of the operators. *)

(* The buffers that are scanned are sequences of bytes.                      *)
LEMMA ChunksAreSeqs == Chunks \subseteq Seq(Bytes)
  <1> SUFFICES ASSUME NEW n \in 0 .. MaxChunk, NEW c \in [1 .. n -> Bytes]
               PROVE  c \in Seq(Bytes)
    BY Zenon DEF Chunks
  <1> QED BY BoundsAssumption

(* maintainHistoryBuffer leaves a history of the same size.                  *)
LEMMA HistoryTyped ==
    ASSUME NEW hist \in [HistoryIndex -> Bytes \cup {Junk}], NEW buf \in Seq(Bytes)
    PROVE  maintainHistoryBuffer(hist, buf) \in [HistoryIndex -> Bytes \cup {Junk}]
  <1> DEFINE amount == Min2(HistoryRequired, Len(buf))
  <1>1. Len(buf) \in Nat /\ HistoryRequired \in Nat BY HistoryAssumption
  <1> SUFFICES ASSUME NEW i \in HistoryIndex
               PROVE  (IF i > HistoryRequired - amount
                       THEN buf[Len(buf) - HistoryRequired + i]
                       ELSE hist[i + Len(buf)]) \in Bytes \cup {Junk}
    BY Zenon DEF maintainHistoryBuffer
  <1>2. i \in Nat /\ 1 <= i /\ i <= HistoryRequired BY <1>1 DEF HistoryIndex
  <1>3. CASE i > HistoryRequired - amount
    <2>1. Len(buf) - HistoryRequired + i \in 1 .. Len(buf)
      BY <1>1, <1>2, <1>3 DEF Min2
    <2>2. buf[Len(buf) - HistoryRequired + i] \in Bytes BY <2>1
    <2> QED BY <2>2, <1>3, Zenon
  <1>4. CASE ~(i > HistoryRequired - amount)
    <2>1. i + Len(buf) \in HistoryIndex
      BY <1>1, <1>2, <1>4 DEF Min2, HistoryIndex
    <2> QED BY <2>1, <1>4, Zenon
  <1> QED BY <1>3, <1>4, Zenon

(* The history of a stream that was just allocated.                          *)
LEMMA UninitialisedTyped == Uninitialised \in [HistoryIndex -> Bytes \cup {Junk}]
  BY Zenon DEF Uninitialised

(* What init_stream leaves is a stream state.                                *)
LEMMA InitTyped ==
    ASSUME NEW hist \in [HistoryIndex -> Bytes \cup {Junk}]
    PROVE  init_stream(hist) \in StreamState
  BY Zenon DEF init_stream, StreamState

(* What compress_stream saves of the history is within the history.          *)
LEMMA SavedTyped ==
    ASSUME NEW offset \in Nat
    PROVE  savedHistory(offset) \in 0 .. HistoryRequired
  <1>1. offset % U32 \in Nat BY U32Assumption
  <1> QED BY <1>1, HistoryAssumption DEF savedHistory, Min2

(* A compressed stream has its type.                                         *)
LEMMA CompressTyped ==
    ASSUME TypeOK, NEW id \in Ids, stream[id] # NULL
    PROVE  compress_stream(id) \in Compressed
  <1> DEFINE st == stream[id]
             n == savedHistory(st.offset)
             saved == [i \in HistoryRequired - n + 1 .. HistoryRequired |-> st.hist[i]]
  <1>1. st \in StreamState BY Zenon DEF TypeOK
  <1>2. n \in 0 .. HistoryRequired BY <1>1, SavedTyped, Zenon DEF StreamState
  <1>3. HistoryRequired - n + 1 \in 1 .. HistoryRequired + 1
    BY <1>2, HistoryAssumption
  <1>4. HistoryRequired - n + 1 .. HistoryRequired \subseteq HistoryIndex
    BY <1>2, HistoryAssumption DEF HistoryIndex
  <1>5. saved \in [HistoryRequired - n + 1 .. HistoryRequired -> Bytes \cup {Junk}]
    BY <1>1, <1>4, Zenon DEF StreamState
  <1>6. saved \in UNION {[m .. HistoryRequired -> Bytes \cup {Junk}] :
                         m \in 1 .. HistoryRequired + 1}
    BY <1>3, <1>5, Zenon
  <1>7. data[id] \in Seq(Bytes) /\ told[id] \in BOOLEAN BY Zenon DEF TypeOK
  <1> QED BY <1>1, <1>6, <1>7, Zenon DEF compress_stream, Compressed, StreamState

(* An expanded stream has its type.                                          *)
LEMMA ExpandTyped ==
    ASSUME NEW b \in Compressed, NEW hist \in [HistoryIndex -> Bytes \cup {Junk}]
    PROVE  expand_stream(b, hist) \in StreamState
  <1>1. PICK n \in 1 .. HistoryRequired + 1 :
           b.saved \in [n .. HistoryRequired -> Bytes \cup {Junk}]
    BY Zenon DEF Compressed
  <1>2. DOMAIN b.saved = n .. HistoryRequired BY <1>1, Zenon
  <1>3. [i \in HistoryIndex |-> IF i \in DOMAIN b.saved THEN b.saved[i] ELSE hist[i]]
           \in [HistoryIndex -> Bytes \cup {Junk}]
    BY <1>1, <1>2, Zenon
  <1> QED BY <1>3, Zenon DEF expand_stream, Compressed, StreamState

(* The stages that are left after a stage end the way the call must end. *)
LEMMA StagesAfterTyped ==
    ASSUME TypeOK, NEW f \in Frames, Head(f.todo) \notin LastStages,
           f.op = "block" => LastStage(f) = "finish"
    PROVE  /\ StagesAfter(f, Head(f.todo)) \in Todos
           /\ LET g == [f EXCEPT !.todo = StagesAfter(f, Head(f.todo))]
              IN  f.op = "block" => LastStage(g) = "finish"
  <1> DEFINE t == f.todo
             u == Tail(t)
  <1>1. /\ t \in Seq(Stages) /\ t # <<>>
        /\ \A i \in 1 .. Len(t) : t[i] \in LastStages <=> i = Len(t)
    BY Zenon DEF Frames, Todos
  <1>2. Head(t) = t[1] /\ Len(t) \in Nat /\ Len(t) >= 1 BY <1>1
  <1>3. Len(t) > 1 BY <1>1, <1>2
  <1>4. u \in Seq(Stages) /\ Len(u) = Len(t) - 1 /\ \A i \in 1 .. Len(u) : u[i] = t[i + 1]
    BY <1>1, <1>2, <1>3
  <1> HIDE DEF u
  <1>5. u # <<>> /\ u[Len(u)] = t[Len(t)]
    <2>1. Len(u) \in 1 .. Len(u) /\ Len(u) + 1 = Len(t) BY <1>2, <1>3, <1>4
    <2>2. u[Len(u)] = t[Len(u) + 1] BY <2>1, <1>4, Zenon
    <2> QED BY <1>2, <1>3, <1>4, <2>1, <2>2
  <1>6. u \in Todos
    <2>1. \A i \in 1 .. Len(u) : u[i] \in LastStages <=> i = Len(u)
      BY <1>1, <1>2, <1>3, <1>4
    <2> QED BY <1>4, <1>5, <2>1, Zenon DEF Todos
  <1>7. <<"finish">> \in Todos /\ <<"store">> \in Todos
    BY DEF Todos, Stages, LastStages
  <1>8. <<"comb", "finish">> \in Todos
    BY DEF Todos, Stages, LastStages
  <1> DEFINE after == StagesAfter(f, Head(f.todo))
  <1>9. /\ after \in {u, <<"finish">>, <<"store">>, <<"comb", "finish">>}
        /\ f.op = "block" => after \in {u, <<"finish">>, <<"comb", "finish">>}
    BY Zenon DEF StagesAfter, u
  <1> HIDE DEF after
  <1>10. after \in Todos BY <1>6, <1>7, <1>8, <1>9, Zenon
  <1>11. ASSUME f.op = "block" PROVE after[Len(after)] = "finish"
    <2>1. CASE after = u BY <2>1, <1>5, <1>11, Zenon DEF LastStage
    <2>2. CASE after = <<"finish">> BY <2>2, Zenon
    <2>3. CASE after = <<"comb", "finish">>
      <3>1. Len(after) = 2 BY <2>3, Zenon
      <3>2. after[2] = "finish" BY <2>3, Zenon
      <3> QED BY <3>1, <3>2, Zenon
    <2> QED BY <2>1, <2>2, <2>3, <1>9, <1>11, Zenon
  <1>12. [f EXCEPT !.todo = after].todo = after BY Zenon DEF Frames
  <1> QED BY <1>10, <1>11, <1>12, Zenon DEF LastStage, after

-----------------------------------------------------------------------------
(* Steps of the innermost call. *)

(* The parts of TypeOK that a step of the stack leaves to be shown. *)
Typed(st, iu, co, da, to) ==
    /\ st \in [Ids -> StreamState \cup {NULL}]
    /\ iu \in [Scratches -> BOOLEAN]
    /\ co \in [Scratches -> SUBSET StatusBits]
    /\ da \in [Ids -> Seq(Bytes)]
    /\ to \in [Ids -> BOOLEAN]

(* The innermost frame. *)
LEMMA TopFrame ==
    ASSUME IInv, stack # <<>>
    PROVE  /\ Top \in Frames /\ FrameOK(Top, stream, blob)
           /\ Top.scratch \in Scratches /\ Top.id \in Ids /\ Top.todo \in Todos
  <1>1. Len(stack) \in 1 .. Len(stack) /\ stack \in Seq(Frames) BY DEF IInv, TypeOK
  <1>2. Top \in Frames BY <1>1 DEF Top
  <1>3. FrameOK(Top, stream, blob) BY <1>1, Zenon DEF IInv, StackOK, Top
  <1> QED BY <1>2, <1>3, Zenon DEF Frames

(* A call that still has matches to deliver leaves those to its last stage. *)
LEMMA FirstStage ==
    ASSUME NEW f \in Frames, Head(f.todo) \in LastStages
    PROVE  LastStage(f) = Head(f.todo)
  <1>1. /\ f.todo \in Seq(Stages) /\ f.todo # <<>>
        /\ \A i \in 1 .. Len(f.todo) : f.todo[i] \in LastStages <=> i = Len(f.todo)
    BY Zenon DEF Frames, Todos
  <1>2. Head(f.todo) = f.todo[1] /\ 1 \in 1 .. Len(f.todo) BY <1>1
  <1> QED BY <1>1, <1>2, Zenon DEF LastStage

(* A step that changes fields of the innermost frame other than the call's   *)
(* identity.                                                                 *)
LEMMA TopStep ==
    ASSUME IInv, stack # <<>>, NEW f \in Frames, SameCall(f, Top),
           f.op = "block" => LastStage(f) = "finish", SetTop(f),
           Typed(stream', inUse', core', data', told'),
           \A id \in Ids : id # f.id => stream'[id] = stream[id],
           stream[f.id] # NULL => stream'[f.id] # NULL,
           UNCHANGED <<inUse, blob>>
    PROVE  IInv'
  <1>1. StackOK(stack, stream, blob) /\ Held(stack, inUse) BY Zenon DEF IInv
  <1>2. stack' = Append(SubSeq(stack, 1, Len(stack) - 1), f) BY Zenon DEF SetTop, Below
  <1>3. SameCall(f, stack[Len(stack)]) BY Zenon DEF Top
  <1>4. StackOK(stack', stream', blob) /\ Held(stack', inUse)
    <2>1. /\ StackOK(Append(SubSeq(stack, 1, Len(stack) - 1), f), stream', blob)
          /\ Held(Append(SubSeq(stack, 1, Len(stack) - 1), f), inUse)
      BY <1>1, <1>3, StackReplace, Zenon
    <2> QED BY <2>1, <1>2, Zenon
  <1>5. stack' \in Seq(Frames) BY <1>4, Zenon DEF StackOK
  <1>6. TypeOK' BY <1>5, Zenon DEF IInv, TypeOK, Typed
  <1> QED BY <1>4, <1>6, Zenon DEF IInv

(* The same, when only the frame and the status of its scratch change. *)
LEMMA TopStepStatus ==
    ASSUME IInv, stack # <<>>, NEW f \in Frames, SameCall(f, Top),
           f.op = "block" => LastStage(f) = "finish", SetTop(f),
           core' \in [Scratches -> SUBSET StatusBits],
           told' \in [Ids -> BOOLEAN],
           UNCHANGED <<stream, inUse, blob, data>>
    PROVE  IInv'
  <1>1. Typed(stream', inUse', core', data', told') BY Zenon DEF IInv, TypeOK, Typed
  <1> QED BY <1>1, TopStep, Zenon

(* Returning from the innermost call. *)
LEMMA PopStep ==
    ASSUME IInv, stack # <<>>, Pop, unmarkScratchInUse(Top.scratch),
           Typed(stream', inUse, core', data', told'),
           \A id \in Ids : id # Top.id => stream'[id] = stream[id],
           UNCHANGED blob
    PROVE  IInv'
  <1>1. StackOK(stack, stream, blob) /\ Held(stack, inUse)
        /\ inUse \in [Scratches -> BOOLEAN] BY Zenon DEF IInv, TypeOK
  <1>2. stack' = SubSeq(stack, 1, Len(stack) - 1) BY Zenon DEF Pop, Below
  <1>3. Top = stack[Len(stack)] BY Zenon DEF Top
  <1>4. inUse' = [inUse EXCEPT ![Top.scratch] = FALSE] BY Zenon DEF unmarkScratchInUse
  <1>5. StackOK(stack', stream', blob) /\ Held(stack', inUse')
    <2>1. /\ StackOK(SubSeq(stack, 1, Len(stack) - 1), stream', blob)
          /\ Held(SubSeq(stack, 1, Len(stack) - 1),
                  [inUse EXCEPT ![stack[Len(stack)].scratch] = FALSE])
      BY <1>1, <1>3, StackPop, Zenon
    <2> QED BY <2>1, <1>2, <1>3, <1>4, Zenon
  <1>6. inUse' \in [Scratches -> BOOLEAN] BY <1>1, <1>4, Zenon
  <1>7. stack' \in Seq(Frames) BY <1>5, Zenon DEF StackOK
  <1>8. TypeOK' BY <1>6, <1>7, Zenon DEF IInv, TypeOK, Typed
  <1> QED BY <1>5, <1>8, Zenon DEF IInv

-----------------------------------------------------------------------------
(* What a call does to its stream. *)

(* Replace writes one well-typed stream. *)
LEMMA ReplaceTyped ==
    ASSUME TypeOK, NEW op, NEW id \in Streams, NEW from, Replace(op, id, from),
           op \in EodCalls \cup {"copy", "expand"},
           op \in {"reset", "expandTo"} => stream[id] # NULL,
           op \in {"copyTo", "copy"} => from \in Streams,
           op \in {"expandTo", "expand"} => from \in Blobs /\ blob[from] # NULL
    PROVE  /\ stream' \in [Ids -> StreamState \cup {NULL}]
           /\ data' \in [Ids -> Seq(Bytes)] /\ told' \in [Ids -> BOOLEAN]
           /\ \A d \in Ids : d # id => stream'[d] = stream[d]
  <1>1. id \in Ids BY Zenon DEF Ids
  <1>2. CASE op = "close"
    <2>1. /\ stream' = [stream EXCEPT ![id] = NULL]
          /\ data' = [data EXCEPT ![id] = <<>>]
          /\ told' = [told EXCEPT ![id] = FALSE]
      BY <1>2, Zenon DEF Replace
    <2> QED BY <2>1, <1>1 DEF TypeOK
  <1>3. CASE op = "reset"
    <2>1. /\ stream' = [stream EXCEPT ![id] = init_stream(stream[id].hist)]
          /\ data' = [data EXCEPT ![id] = <<>>]
          /\ told' = [told EXCEPT ![id] = FALSE]
      BY <1>3, Zenon DEF Replace
    <2>2. stream[id].hist \in [HistoryIndex -> Bytes \cup {Junk}]
      BY <1>1, <1>3, Zenon DEF TypeOK, StreamState
    <2>3. init_stream(stream[id].hist) \in StreamState BY <2>2, InitTyped, Zenon
    <2> QED BY <2>1, <2>3, <1>1 DEF TypeOK
  <1>4. CASE op \in {"copyTo", "copy"}
    <2>1. /\ stream' = [stream EXCEPT ![id] = stream[from]]
          /\ data' = [data EXCEPT ![id] = data[from]]
          /\ told' = [told EXCEPT ![id] = told[from]]
      BY <1>4, Zenon DEF Replace
    <2>2. from \in Ids BY <1>4, Zenon DEF Ids
    <2> QED BY <2>1, <2>2, <1>1, Zenon DEF TypeOK
  <1>5. CASE op \in {"expandTo", "expand"}
    <2> DEFINE hist == IF op = "expand" THEN Uninitialised ELSE stream[id].hist
    <2>1. /\ stream' = [stream EXCEPT ![id] = expand_stream(blob[from], hist)]
          /\ data' = [data EXCEPT ![id] = blob[from].data]
          /\ told' = [told EXCEPT ![id] = blob[from].told]
      BY <1>5, Zenon DEF Replace
    <2>2. hist \in [HistoryIndex -> Bytes \cup {Junk}]
      <3>1. op = "expandTo" => stream[id] \in StreamState BY <1>1, Zenon DEF TypeOK
      <3>2. op = "expandTo" => stream[id].hist \in [HistoryIndex -> Bytes \cup {Junk}]
        BY <3>1, Zenon DEF StreamState
      <3> QED BY <3>2, <1>5, UninitialisedTyped, Zenon
    <2>3. blob[from] \in Compressed BY <1>5, Zenon DEF TypeOK
    <2> HIDE DEF hist
    <2>4. expand_stream(blob[from], hist) \in StreamState BY <2>2, <2>3, ExpandTyped, Zenon
    <2>5. blob[from].data \in Seq(Bytes) /\ blob[from].told \in BOOLEAN
      BY <2>3, Zenon DEF Compressed
    <2> QED BY <2>1, <2>4, <2>5, <1>1, Zenon DEF TypeOK
  <1> QED BY <1>2, <1>3, <1>4, <1>5, Zenon DEF EodCalls

(* StoreStream writes a well-typed stream. *)
LEMMA StoreTyped ==
    ASSUME TypeOK, NEW id \in Ids, stream[id] # NULL, NEW status \in SUBSET StatusBits,
           NEW buf \in Seq(Bytes), StoreStream(id, status, buf)
    PROVE  /\ stream' \in [Ids -> StreamState \cup {NULL}]
           /\ data' \in [Ids -> Seq(Bytes)]
           /\ stream'[id] # NULL
           /\ \A d \in Ids : d # id => stream'[d] = stream[d]
  <1> DEFINE s == stream[id]
  <1>1. s \in StreamState BY Zenon DEF TypeOK
  <1>2. NULL \notin StreamState BY HandlesAssumption, Zenon
  <1>3. CASE Broken(status)
    <2>1. stream' = [stream EXCEPT ![id] = [s EXCEPT !.status = status]]
          /\ data' = data
      BY <1>3, Zenon DEF StoreStream
    <2>2. [s EXCEPT !.status = status] \in StreamState BY <1>1, Zenon DEF StreamState
    <2> HIDE DEF s
    <2> QED BY <2>1, <2>2, <1>2, Zenon DEF TypeOK
  <1>4. CASE ~Broken(status)
    <2> DEFINE new == [offset |-> s.offset + Len(buf), status |-> status,
                       hist |-> maintainHistoryBuffer(s.hist, buf)]
    <2>1. /\ stream' = [stream EXCEPT ![id] = new]
          /\ data' = [data EXCEPT ![id] = data[id] \o buf]
      BY <1>4, Zenon DEF StoreStream, TypeOK
    <2>2. s.hist \in [HistoryIndex -> Bytes \cup {Junk}] /\ s.offset \in Nat
      BY <1>1, Zenon DEF StreamState
    <2>3. s.offset + Len(buf) \in Nat BY <2>2
    <2>4. new \in StreamState BY <2>2, <2>3, HistoryTyped, Zenon DEF StreamState
    <2>5. data[id] \o buf \in Seq(Bytes) BY DEF TypeOK
    <2> HIDE DEF new
    <2> QED BY <2>1, <2>4, <2>5, <1>2, Zenon DEF TypeOK
  <1> QED BY <1>3, <1>4, Zenon

-----------------------------------------------------------------------------
(* Calls. *)

(* A call that returns at once changes a stream or buffer no frame uses. *)
LEMMA AtomicCall ==
    ASSUME IInv, NEW id, Free(id), TypeOK', UNCHANGED <<stack, inUse>>,
           \A d \in Ids : d # id => stream'[d] = stream[d],
           \A b \in Blobs : blob[b] # NULL => blob'[b] # NULL
    PROVE  IInv'
  <1>1. stack \in Seq(Frames) BY Zenon DEF IInv, TypeOK
  <1>2. \A i \in 1 .. Len(stack) : id # stack[i].id /\ id # stack[i].from
    BY <1>1 DEF Free
  <1>3. StackOK(stack, stream, blob) BY Zenon DEF IInv
  <1>4. StackOK(stack, stream', blob) BY <1>2, <1>3, StackKept, Zenon
  <1>5. StackOK(stack, stream', blob')
    <2>1. \A i \in 1 .. Len(stack) : FrameOK(stack[i], stream', blob')
      BY <1>4, Zenon DEF StackOK, FrameOK
    <2> QED BY <1>4, <2>1, Zenon DEF StackOK
  <1> QED BY <1>5, Zenon DEF IInv

(* A call that becomes a frame. *)
LEMMA PushCall ==
    ASSUME IInv, NEW f \in Frames, Push(f), markScratchInUse(f.scratch),
           Free(f.id), FrameOK(f, stream', blob), UNCHANGED blob,
           Typed(stream', inUse, core', data', told'),
           \A d \in Ids : d # f.id => stream'[d] = stream[d]
    PROVE  IInv'
  <1>1. stack \in Seq(Frames) /\ inUse \in [Scratches -> BOOLEAN] BY Zenon DEF IInv, TypeOK
  <1>2. \A i \in 1 .. Len(stack) : f.id # stack[i].id /\ f.id # stack[i].from
    BY <1>1 DEF Free
  <1>3. StackOK(stack, stream', blob) BY <1>2, StackKept, Zenon DEF IInv
  <1>4. Held(stack, inUse) BY Zenon DEF IInv
  <1>5. ~inUse[f.scratch] /\ inUse' = [inUse EXCEPT ![f.scratch] = TRUE]
    BY Zenon DEF markScratchInUse
  <1>6. /\ StackOK(Append(stack, f), stream', blob)
        /\ Held(Append(stack, f), [inUse EXCEPT ![f.scratch] = TRUE])
    BY <1>1, <1>2, <1>3, <1>4, <1>5, StackPush, Zenon
  <1>7. StackOK(stack', stream', blob') /\ Held(stack', inUse')
    BY <1>5, <1>6, Zenon DEF Push
  <1>8. inUse' \in [Scratches -> BOOLEAN] BY <1>1, <1>5, Zenon
  <1>9. stack' \in Seq(Frames) BY <1>7, Zenon DEF StackOK
  <1>10. TypeOK' BY <1>8, <1>9, Zenon DEF IInv, TypeOK, Typed
  <1> QED BY <1>7, <1>10, Zenon DEF IInv

(* A scratch that is not in use is nobody's stream either: a frame that      *)
(* works on a scratch's bstate holds that scratch.                           *)
LEMMA UnusedScratchIsFree ==
    ASSUME IInv, NEW x \in Scratches, ~inUse[x]
    PROVE  Free(x)
  <1> SUFFICES ASSUME NEW i \in 1 .. Len(stack)
               PROVE  x # stack[i].id /\ x # stack[i].from
    BY DEF Free, IInv, TypeOK
  <1>1. stack[i] \in Frames /\ FrameOK(stack[i], stream, blob) BY DEF IInv, StackOK
  <1>2. stack[i].scratch # x BY Zenon DEF IInv, Held
  <1>3. x \notin Streams \cup Blobs \cup {NULL} BY HandlesAssumption, Zenon
  <1>4. stack[i].from # x BY <1>1, <1>3, Zenon DEF Frames
  <1>5. stack[i].id # x BY <1>1, <1>2, <1>3, Zenon DEF FrameOK
  <1> QED BY <1>4, <1>5, Zenon

(* The stage lists of the calls end in a stage that returns.                 *)
LEMMA StagesTyped ==
    /\ ScanStages \in Todos /\ EodStages \in Todos
    /\ BlockStages \in Todos /\ EmptyBlockStages \in Todos
    /\ <<"finish">> \in Todos /\ <<"more">> \in Todos
  <1>1. ScanStages \in Todos BY DEF ScanStages, Todos, Stages, LastStages
  <1>2. EodStages \in Todos BY DEF EodStages, Todos, Stages, LastStages
  <1>3. BlockStages \in Todos BY DEF BlockStages, Todos, Stages, LastStages
  <1>4. EmptyBlockStages \in Todos BY DEF EmptyBlockStages, Todos, Stages, LastStages
  <1>5. <<"finish">> \in Todos /\ <<"more">> \in Todos BY DEF Todos, Stages, LastStages
  <1> QED BY <1>1, <1>2, <1>3, <1>4, <1>5, Zenon

-----------------------------------------------------------------------------
(* IInv is inductive. *)

(* Before the first call no scratch is in use and no call in progress.       *)
LEMMA IInvInit == Init => IInv
  <1> SUFFICES ASSUME Init PROVE IInv BY Zenon
  <1>1. stack = <<>> /\ Len(stack) = 0 BY Zenon DEF Init
  <1>2. TypeOK BY DEF Init, TypeOK
  <1>3. StackOK(stack, stream, blob) BY <1>1 DEF StackOK
  <1>4. Held(stack, inUse) BY <1>1 DEF Init, Held
  <1> QED BY <1>2, <1>3, <1>4, Zenon DEF IInv

(* The calls of the API keep the invariant, from the application or from a   *)
(* callback.                                                                 *)
LEMMA IInvCalls ==
    ASSUME IInv, Call
    PROVE  IInv'
  <1> USE DEF IInv
  <1>0. Streams \subseteq Ids /\ Scratches \subseteq Ids BY Zenon DEF Ids
  <1>1. ASSUME NEW id \in Streams, hs_open_stream(id) PROVE IInv'
    <2>1. init_stream(Uninitialised) \in StreamState BY InitTyped, UninitialisedTyped, Zenon
    <2>2. TypeOK' /\ \A d \in Ids : d # id => stream'[d] = stream[d]
      BY <1>0, <1>1, <2>1 DEF hs_open_stream, TypeOK
    <2>3. Free(id) /\ UNCHANGED <<stack, inUse, blob>> BY <1>1, Zenon DEF hs_open_stream
    <2> HIDE DEF IInv
    <2> QED BY <2>2, <2>3, AtomicCall, Zenon
  <1>2. ASSUME NEW id \in Streams, NEW x \in Scratches, NEW buf \in Chunks,
               hs_scan_stream(id, x, buf)
        PROVE  IInv'
    <2> DEFINE f == Frame("scan", id, NULL, x, buf, ScanStages)
    <2>1. buf \in Seq(Bytes) /\ id \in Ids BY <1>0, ChunksAreSeqs, Zenon
    <2>2. /\ f \in Frames /\ f.scratch = x /\ f.id = id /\ f.from = NULL /\ f.op = "scan"
          /\ f.todo = ScanStages
      BY <2>1, StagesTyped, Zenon DEF AllCalls, Frame, Frames
    <2>3. /\ Push(f) /\ markScratchInUse(f.scratch) /\ Free(f.id) /\ stream[f.id] # NULL
          /\ UNCHANGED <<stream, blob, data, told>>
      BY <1>2, <2>2, Zenon DEF hs_scan_stream, Open
    <2>4. core' = [core EXCEPT ![x] = stream[id].status] BY <1>2, ZenonT(30) DEF hs_scan_stream, populateCoreInfo
    <2>5. stream[id].status \in SUBSET StatusBits BY <2>1, <2>2, <2>3, ZenonT(30) DEF TypeOK, StreamState
    <2>6. Typed(stream', inUse, core', data', told') BY <2>3, <2>4, <2>5, ZenonT(30) DEF TypeOK, Typed
    <2>7. FrameOK(f, stream', blob) BY <2>2, <2>3, Zenon DEF FrameOK
    <2> HIDE DEF f, IInv
    <2> QED BY <2>2, <2>3, <2>6, <2>7, PushCall, Zenon
  <1>3. ASSUME NEW x \in Scratches, NEW buf \in Chunks, hs_scan(x, buf) PROVE IInv'
    <2> DEFINE todo == IF buf = <<>> THEN EmptyBlockStages ELSE BlockStages
               f == Frame("block", x, NULL, x, buf, todo)
    <2>1. buf \in Seq(Bytes) /\ x \in Ids /\ todo \in Todos
      BY <1>0, ChunksAreSeqs, StagesTyped, Zenon
    <2>2. todo[Len(todo)] = "finish" BY Zenon DEF EmptyBlockStages, BlockStages
    <2> HIDE DEF todo
    <2>3. /\ f \in Frames /\ f.scratch = x /\ f.id = x /\ f.from = NULL /\ f.op = "block"
          /\ f.todo = todo
      BY <2>1, Zenon DEF AllCalls, Frame, Frames
    <2>4. Free(x) BY <1>3, UnusedScratchIsFree, Zenon DEF hs_scan, markScratchInUse
    <2>5. /\ Push(f) /\ markScratchInUse(f.scratch) /\ Free(f.id)
          /\ UNCHANGED <<stream, blob, data>>
      BY <1>3, <2>3, <2>4, Zenon DEF hs_scan, todo
    <2>6. Typed(stream', inUse, core', data', told')
      BY <1>0, <1>3, Zenon DEF hs_scan, populateCoreInfo, TypeOK, Typed
    <2>7. FrameOK(f, stream', blob) BY <2>2, <2>3, Zenon DEF FrameOK, LastStage
    <2> HIDE DEF f, IInv
    <2> QED BY <2>3, <2>5, <2>6, <2>7, PushCall, Zenon
  <1>4. ASSUME NEW x \in Scratches, hs_scan_vector(x) PROVE IInv'
    <2> DEFINE f == Frame("vector", x, NULL, x, <<>>, <<"more">>)
    <2>1. x \in Ids /\ <<>> \in Seq(Bytes) BY <1>0
    <2>2. /\ f \in Frames /\ f.scratch = x /\ f.id = x /\ f.from = NULL /\ f.op = "vector"
      BY <2>1, StagesTyped, Zenon DEF AllCalls, Frame, Frames
    <2>3. Free(x) BY <1>4, UnusedScratchIsFree, Zenon DEF hs_scan_vector, markScratchInUse
    <2>4. /\ Push(f) /\ markScratchInUse(f.scratch) /\ Free(f.id) /\ UNCHANGED <<core, blob>>
      BY <1>4, <2>2, <2>3, Zenon DEF hs_scan_vector
    <2>5. init_stream(Uninitialised) \in StreamState BY InitTyped, UninitialisedTyped, Zenon
    <2>6. /\ Typed(stream', inUse, core', data', told')
          /\ stream'[x] = init_stream(Uninitialised)
          /\ \A d \in Ids : d # x => stream'[d] = stream[d]
      BY <2>1, <2>4, <2>5, <1>4, Zenon DEF hs_scan_vector, TypeOK, Typed
    <2>7. stream'[x] # NULL BY <2>5, <2>6, HandlesAssumption, Zenon
    <2>8. FrameOK(f, stream', blob) BY <2>2, <2>7, Zenon DEF FrameOK
    <2> HIDE DEF f, IInv
    <2> QED BY <2>2, <2>4, <2>6, <2>8, PushCall, Zenon
  <1>5. ASSUME NEW id \in Streams, NEW b \in Blobs, hs_compress_stream(id, b) PROVE IInv'
    <2>1. compress_stream(id) \in Compressed
      BY <1>0, <1>5, CompressTyped, Zenon DEF hs_compress_stream, Open
    <2>2. TypeOK' /\ blob' = [blob EXCEPT ![b] = compress_stream(id)]
      BY <1>5, <2>1, Zenon DEF hs_compress_stream, TypeOK
    <2>3. \A c \in Blobs : blob[c] # NULL => blob'[c] # NULL
      BY <2>1, <2>2, HandlesAssumption, Zenon DEF TypeOK
    <2>4. Free(id) /\ UNCHANGED <<stack, inUse, stream>> BY <1>5, Zenon DEF hs_compress_stream, Open
    <2> HIDE DEF IInv
    <2> QED BY <2>2, <2>3, <2>4, AtomicCall, Zenon
  <1>6. ASSUME NEW op \in EodCalls, NEW id \in Streams,
               NEW from \in Streams \cup Blobs \cup {NULL}, Source(op, id, from),
               NEW x \in Scratches, CallWithEod(op, id, from, x)
        PROVE  IInv'
    <2> DEFINE todo == IF Broken(stream[id].status) THEN <<"finish">> ELSE EodStages
               f == Frame(op, id, from, x, <<>>, todo)
    <2>1. id \in Ids /\ op \in AllCalls /\ todo \in Todos /\ <<>> \in Seq(Bytes)
      BY <1>0, StagesTyped DEF AllCalls
    <2> HIDE DEF todo
    <2>2. /\ f \in Frames /\ f.scratch = x /\ f.id = id /\ f.from = from /\ f.op = op
      BY <2>1, Zenon DEF Frame, Frames
    <2>3. /\ Push(f) /\ markScratchInUse(f.scratch) /\ Free(f.id) /\ stream[f.id] # NULL
          /\ UNCHANGED <<stream, blob, data, told>>
      BY <1>6, <2>2, ZenonT(30) DEF CallWithEod, Open, todo
    <2>4. stream[id].status \in SUBSET StatusBits BY <2>1, <2>2, <2>3, ZenonT(30) DEF TypeOK, StreamState
    <2>5. core' = core \/ core' = [core EXCEPT ![x] = stream[id].status]
      BY <1>6, Zenon DEF CallWithEod, populateCoreInfo
    <2>6. Typed(stream', inUse, core', data', told') BY <2>3, <2>4, <2>5, Zenon DEF TypeOK, Typed
    <2>7. FrameOK(f, stream', blob)
      BY <1>6, <2>2, <2>3, Zenon DEF FrameOK, EodCalls, Source, Open
    <2> HIDE DEF f, IInv
    <2> QED BY <2>2, <2>3, <2>6, <2>7, PushCall, Zenon
  <1>7. ASSUME NEW op \in EodCalls \cup {"copy", "expand"}, NEW id \in Streams,
               NEW from, Source(op, id, from), Free(id),
               op \in EodCalls => stream[id] # NULL, Replace(op, id, from),
               UNCHANGED <<inUse, core, blob, stack>>
        PROVE  IInv'
    <2>1. /\ op \in {"reset", "expandTo"} => stream[id] # NULL
          /\ op \in {"copyTo", "copy"} => from \in Streams
          /\ op \in {"expandTo", "expand"} => from \in Blobs /\ blob[from] # NULL
      BY <1>7, Zenon DEF EodCalls, Source
    <2>2. /\ stream' \in [Ids -> StreamState \cup {NULL}]
          /\ data' \in [Ids -> Seq(Bytes)] /\ told' \in [Ids -> BOOLEAN]
          /\ \A d \in Ids : d # id => stream'[d] = stream[d]
      BY <1>7, <2>1, ReplaceTyped, Zenon
    <2>3. TypeOK' BY <1>7, <2>2, Zenon DEF TypeOK
    <2> HIDE DEF IInv
    <2> QED BY <1>7, <2>2, <2>3, AtomicCall, Zenon
  <1>8. ASSUME NEW op \in EodCalls, NEW id \in Streams,
               NEW from \in Streams \cup Blobs \cup {NULL}, Source(op, id, from),
               CallWithoutEod(op, id, from)
        PROVE  IInv'
    BY <1>7, <1>8, Zenon DEF CallWithoutEod, Open
  <1>9. ASSUME NEW op \in {"copy", "expand"}, NEW id \in Streams,
               NEW from \in Streams \cup Blobs, Source(op, id, from),
               CallIntoNew(op, id, from)
        PROVE  IInv'
    BY <1>7, <1>9, Zenon DEF CallIntoNew, EodCalls
  <1> HIDE DEF IInv
  <1> QED BY <1>1, <1>2, <1>3, <1>4, <1>5, <1>6, <1>8, <1>9, Zenon DEF Call

(* The steps of the call in progress keep the invariant.                     *)
LEMMA IInvSteps ==
    ASSUME IInv, Step
    PROVE  IInv'
  <1>1. ASSUME stack # <<>>,
               NEW c \in BOOLEAN, NEW h \in BOOLEAN,
               SetTop([Top EXCEPT !.cb = c, !.halt = h]),
               core' \in [Scratches -> SUBSET StatusBits], told' \in [Ids -> BOOLEAN],
               UNCHANGED <<stream, inUse, blob, data>>
        PROVE  IInv'
    <2> DEFINE f == [Top EXCEPT !.cb = c, !.halt = h]
    <2>1. Top \in Frames /\ FrameOK(Top, stream, blob) BY <1>1, TopFrame, Zenon
    <2>2. f \in Frames /\ SameCall(f, Top) /\ f.todo = Top.todo
      BY <2>1, Zenon DEF Frames, SameCall
    <2>3. f.op = "block" => LastStage(f) = "finish"
      BY <2>1, <2>2, Zenon DEF FrameOK, LastStage, SameCall
    <2>4. SetTop(f) BY <1>1, Zenon
    <2> HIDE DEF f
    <2> QED BY <1>1, <2>2, <2>3, <2>4, TopStepStatus, Zenon
  <1>2. /\ core \in [Scratches -> SUBSET StatusBits] /\ told \in [Ids -> BOOLEAN]
        /\ inUse \in [Scratches -> BOOLEAN]
    BY Zenon DEF IInv, TypeOK
  <1>3. ASSUME stack # <<>>
        PROVE  /\ Top \in Frames /\ Top.cb \in BOOLEAN /\ Top.halt \in BOOLEAN
               /\ Top.buf \in Seq(Bytes)
               /\ Top.scratch \in Scratches /\ Top.id \in Ids
               /\ Top = [Top EXCEPT !.cb = Top.cb, !.halt = Top.halt]
    BY <1>3, TopFrame, ZenonT(30) DEF Frames
  <1>4. CASE Report
    <2>a. stack # <<>> /\ SetTop([Top EXCEPT !.cb = TRUE])
      BY <1>4, Zenon DEF Report, Working
    <2>b. Top \in Frames BY <2>a, <1>3, Zenon
    <2>c. [Top EXCEPT !.cb = TRUE]
             = [Top EXCEPT !.cb = TRUE, !.halt = Top.halt]
      BY <2>b, Zenon DEF Frames
    <2>1. SetTop([Top EXCEPT !.cb = TRUE, !.halt = Top.halt])
      BY <2>a, <2>c, Zenon
    <2>2. stack # <<>> /\ UNCHANGED <<stream, inUse, core, blob, data, told>>
      BY <1>4, Zenon DEF Report, Working
    <2> QED BY <1>1, <1>2, <1>3, <2>1, <2>2, Zenon
  <1>5. CASE CallbackContinue
    <2>a. stack # <<>> /\ SetTop([Top EXCEPT !.cb = FALSE])
      BY <1>5, Zenon DEF CallbackContinue
    <2>b. Top \in Frames BY <2>a, <1>3, Zenon
    <2>c. [Top EXCEPT !.cb = FALSE]
             = [Top EXCEPT !.cb = FALSE, !.halt = Top.halt]
      BY <2>b, Zenon DEF Frames
    <2>1. SetTop([Top EXCEPT !.cb = FALSE, !.halt = Top.halt])
      BY <2>a, <2>c, Zenon
    <2> QED BY <1>1, <1>2, <1>3, <1>5, <2>1, Zenon DEF CallbackContinue
  <1>6. CASE CallbackHalt
    <2>a. stack # <<>> /\ SetTop([Top EXCEPT !.cb = FALSE, !.halt = TRUE])
      BY <1>6, Zenon DEF CallbackHalt
    <2>b. Top \in Frames BY <2>a, <1>3, Zenon
    <2>c. [Top EXCEPT !.cb = FALSE, !.halt = TRUE]
             = [Top EXCEPT !.cb = FALSE, !.halt = TRUE]
      BY <2>b, Zenon DEF Frames
    <2>1. SetTop([Top EXCEPT !.cb = FALSE, !.halt = TRUE])
      BY <2>a, <2>c, Zenon
    <2>2. core' \in [Scratches -> SUBSET StatusBits] /\ told' \in [Ids -> BOOLEAN]
      BY <1>2, <1>3, <1>6, Zenon DEF CallbackHalt, StatusBits
    <2> QED BY <1>1, <1>3, <1>6, <2>1, <2>2, Zenon DEF CallbackHalt
  <1>7. CASE Exhaust
    <2>a. stack # <<>> /\ SetTop([Top EXCEPT !.halt = TRUE])
      BY <1>7, Zenon DEF Exhaust, Working
    <2>b. Top \in Frames BY <2>a, <1>3, Zenon
    <2>c. [Top EXCEPT !.halt = TRUE]
             = [Top EXCEPT !.cb = Top.cb, !.halt = TRUE]
      BY <2>b, Zenon DEF Frames
    <2>1. SetTop([Top EXCEPT !.cb = Top.cb, !.halt = TRUE])
      BY <2>a, <2>c, Zenon
    <2>2. core' \in [Scratches -> SUBSET StatusBits] BY <1>2, <1>3, <1>7, Zenon DEF Exhaust, Working, StatusBits
    <2> QED BY <1>1, <1>2, <1>3, <1>7, <2>1, <2>2, Zenon DEF Exhaust, Working
  <1>8. CASE InternalError
    <2>a. stack # <<>> /\ SetTop([Top EXCEPT !.halt = TRUE])
      BY <1>8, Zenon DEF InternalError, Working
    <2>b. Top \in Frames BY <2>a, <1>3, Zenon
    <2>c. [Top EXCEPT !.halt = TRUE]
             = [Top EXCEPT !.cb = Top.cb, !.halt = TRUE]
      BY <2>b, Zenon DEF Frames
    <2>1. SetTop([Top EXCEPT !.cb = Top.cb, !.halt = TRUE])
      BY <2>a, <2>c, Zenon
    <2>2. core' \in [Scratches -> SUBSET StatusBits]
      BY <1>2, <1>3, <1>8, Zenon DEF InternalError, Working, StatusBits
    <2> QED BY <1>1, <1>2, <1>3, <1>8, <2>1, <2>2, Zenon DEF InternalError, Working
  <1>9. CASE EndStage
    <2> DEFINE todo == StagesAfter(Top, Stage)
               f == [Top EXCEPT !.todo = todo, !.halt = FALSE]
    <2>1. /\ stack # <<>> /\ Stage \notin LastStages /\ SetTop(f)
          /\ UNCHANGED <<stream, inUse, core, blob, data, told>>
      BY <1>9, Zenon DEF EndStage, Working
    <2>2. Top \in Frames /\ FrameOK(Top, stream, blob) BY <2>1, TopFrame, Zenon
    <2>3. TypeOK /\ (Top.op = "block" => LastStage(Top) = "finish")
      BY <2>2, Zenon DEF IInv, FrameOK
    <2>4. /\ todo \in Todos
          /\ Top.op = "block" => LastStage([Top EXCEPT !.todo = todo]) = "finish"
      BY <2>1, <2>2, <2>3, StagesAfterTyped, Zenon DEF Stage
    <2> HIDE DEF todo
    <2>5. f \in Frames /\ SameCall(f, Top) /\ f.todo = [Top EXCEPT !.todo = todo].todo
      BY <2>2, <2>4, Zenon DEF Frames, SameCall
    <2>6. f.op = "block" => LastStage(f) = "finish"
      BY <2>4, <2>5, Zenon DEF LastStage, SameCall
    <2> HIDE DEF f
    <2> QED BY <1>2, <2>1, <2>5, <2>6, TopStepStatus, Zenon
  <1>10. ASSUME stack # <<>>, Stage \in {"store", "more"}
         PROVE  Top.op # "block" /\ stream[Top.id] # NULL
    <2>1. Top \in Frames /\ FrameOK(Top, stream, blob) BY <1>10, TopFrame, Zenon
    <2>2. LastStage(Top) = Stage BY <1>10, <2>1, FirstStage, Zenon DEF Stage, LastStages
    <2> QED BY <1>10, <2>1, <2>2, Zenon DEF FrameOK
  <1>11. CASE Store
    <2>1. stack # <<>> /\ Stage = "store" BY <1>11, Zenon DEF Store, Working
    <2>2. Top.op # "block" /\ stream[Top.id] # NULL BY <1>10, <2>1, Zenon
    <2>3. StoreStream(Top.id, core[Top.scratch], Top.buf) /\ UNCHANGED <<core, blob, told>>
      BY <1>11, Zenon DEF Store
    <2>4. core[Top.scratch] \in SUBSET StatusBits BY <1>2, <1>3, <2>1, Zenon
    <2>5. /\ stream' \in [Ids -> StreamState \cup {NULL}]
          /\ data' \in [Ids -> Seq(Bytes)]
          /\ stream'[Top.id] # NULL
          /\ \A d \in Ids : d # Top.id => stream'[d] = stream[d]
      BY <1>3, <2>1, <2>2, <2>3, <2>4, StoreTyped, Zenon DEF IInv
    <2>6. CASE Pop /\ unmarkScratchInUse(Top.scratch)
      <3>1. Typed(stream', inUse, core', data', told') BY <1>2, <2>3, <2>5, Zenon DEF Typed
      <3> QED BY <2>1, <2>3, <2>5, <2>6, <3>1, PopStep, Zenon
    <2>7. CASE SetTop([Top EXCEPT !.todo = <<"more">>, !.buf = <<>>]) /\ UNCHANGED inUse
      <3> DEFINE f == [Top EXCEPT !.todo = <<"more">>, !.buf = <<>>]
      <3>0. <<>> \in Seq(Bytes) OBVIOUS
      <3>1. f \in Frames /\ SameCall(f, Top) /\ f.op # "block"
        BY <1>3, <2>1, <2>2, <3>0, StagesTyped, Zenon DEF Frames, SameCall
      <3>2. Typed(stream', inUse', core', data', told')
        BY <1>2, <2>3, <2>5, <2>7, Zenon DEF Typed
      <3>3. f.id = Top.id BY <3>1, Zenon DEF SameCall
      <3>4. SetTop(f) BY <2>7, Zenon
      <3> HIDE DEF f
      <3> QED BY <2>1, <2>3, <2>5, <2>7, <3>1, <3>2, <3>3, <3>4, TopStep, Zenon
    <2> QED BY <1>11, <2>6, <2>7, Zenon DEF Store
  <1>12. ASSUME NEW buf \in Chunks, VectorBlock(buf) PROVE IInv'
    <2> DEFINE f == [Top EXCEPT !.buf = buf, !.todo = ScanStages]
    <2>1. stack # <<>> /\ Stage = "more" BY <1>12, Zenon DEF VectorBlock, Working
    <2>2. Top.op # "block" /\ stream[Top.id] # NULL BY <1>10, <2>1, Zenon
    <2>3. f \in Frames /\ SameCall(f, Top) /\ f.op # "block"
      BY <1>3, <2>1, <2>2, StagesTyped, ChunksAreSeqs, Zenon DEF Frames, SameCall
    <2>4. stream[Top.id].status \in SUBSET StatusBits
      BY <1>3, <2>1, <2>2, Zenon DEF IInv, TypeOK, StreamState
    <2>5. core' \in [Scratches -> SUBSET StatusBits]
      BY <1>2, <1>3, <1>12, <2>1, <2>4, Zenon DEF VectorBlock, populateCoreInfo
    <2>6. SetTop(f) /\ UNCHANGED <<stream, inUse, blob, data, told>>
      BY <1>12, Zenon DEF VectorBlock
    <2> HIDE DEF f
    <2> QED BY <1>2, <2>1, <2>3, <2>5, <2>6, TopStepStatus, Zenon
  <1>13. ASSUME NEW onEvent \in BOOLEAN, VectorEod(onEvent) PROVE IInv'
    <2>1. stack # <<>> /\ Stage = "more" BY <1>13, Zenon DEF VectorEod, Working
    <2>2. Top.op # "block" /\ stream[Top.id] # NULL BY <1>10, <2>1, Zenon
    <2>3. PICK todo \in {EodStages, <<"finish">>} : SetTop([Top EXCEPT !.todo = todo])
      BY <1>13, Zenon DEF VectorEod
    <2> DEFINE f == [Top EXCEPT !.todo = todo]
    <2>4. f \in Frames /\ SameCall(f, Top) /\ f.op # "block"
      BY <1>3, <2>1, <2>2, StagesTyped, Zenon DEF Frames, SameCall
    <2>5. stream[Top.id].status \in SUBSET StatusBits
      BY <1>3, <2>1, <2>2, Zenon DEF IInv, TypeOK, StreamState
    <2>6. core' \in [Scratches -> SUBSET StatusBits]
      BY <1>2, <1>3, <1>13, <2>1, <2>5, Zenon DEF VectorEod, populateCoreInfo
    <2>7. SetTop(f) /\ UNCHANGED <<stream, inUse, blob, data, told>>
      BY <1>13, <2>3, Zenon DEF VectorEod
    <2> HIDE DEF f
    <2> QED BY <1>2, <2>1, <2>4, <2>6, <2>7, TopStepStatus, Zenon
  <1>14. CASE Finish
    <2>1. stack # <<>> /\ Pop /\ unmarkScratchInUse(Top.scratch) /\ UNCHANGED <<core, blob>>
      BY <1>14, Zenon DEF Finish, Working
    <2>2. Top \in Frames /\ FrameOK(Top, stream, blob) BY <2>1, TopFrame, Zenon
    <2>3. TypeOK BY Zenon DEF IInv
    <2>4. CASE Top.op \in EodCalls /\ Replace(Top.op, Top.id, Top.from)
      <3>1. /\ Top.id \in Streams /\ stream[Top.id] # NULL
            /\ Top.op \in {"copyTo", "copy"} => Top.from \in Streams
            /\ Top.op \in {"expandTo", "expand"} => Top.from \in Blobs /\ blob[Top.from] # NULL
        BY <2>2, <2>4, Zenon DEF FrameOK, EodCalls
      <3>2. /\ stream' \in [Ids -> StreamState \cup {NULL}]
            /\ data' \in [Ids -> Seq(Bytes)] /\ told' \in [Ids -> BOOLEAN]
            /\ \A d \in Ids : d # Top.id => stream'[d] = stream[d]
        BY <2>3, <2>4, <3>1, ReplaceTyped, Zenon
      <3>3. Typed(stream', inUse, core', data', told') BY <1>2, <2>1, <3>2, Zenon DEF Typed
      <3> QED BY <2>1, <3>2, <3>3, PopStep, Zenon
    <2>5. CASE UNCHANGED <<stream, data, told>>
      <3>1. Typed(stream', inUse, core', data', told')
        BY <2>1, <2>3, <2>5, Zenon DEF Typed, TypeOK
      <3> QED BY <2>1, <2>5, <3>1, PopStep, Zenon
    <2> QED BY <1>14, <2>4, <2>5, Zenon DEF Finish
  <1> QED BY <1>4, <1>5, <1>6, <1>7, <1>8, <1>9, <1>11, <1>12, <1>13, <1>14, Zenon DEF Step

(* Types, the shape of the stack and the ownership of scratch spaces hold    *)
(* forever.                                                                  *)
THEOREM Wellformed == Spec => []IInv
  <1>1. IInv /\ [Next]_vars => IInv'
    <2> SUFFICES ASSUME IInv, [Next]_vars PROVE IInv' BY Zenon
    <2>1. CASE Call BY <2>1, IInvCalls, Zenon
    <2>2. CASE Step BY <2>2, IInvSteps, Zenon
    <2>3. CASE UNCHANGED vars
      BY <2>3, Zenon DEF vars, IInv, TypeOK, StackOK, Held
    <2> QED BY <2>1, <2>2, <2>3, Zenon DEF Next
  <1> QED BY <1>1, IInvInit, PTL DEF Spec

(* Every variable keeps its type: in particular the history buffer always    *)
(* holds HistoryRequired bytes and every call ends with the stage that       *)
(* returns from it.                                                          *)
THEOREM Typing == Spec => []TypeOK
  <1>1. IInv => TypeOK BY Zenon DEF IInv
  <1> QED BY <1>1, Wellformed, PTL

(* markScratchInUse and unmarkScratchInUse bracket every call: a scratch is  *)
(* in use exactly while one call in progress holds it.                       *)
THEOREM ScratchHeld == Spec => []ScratchHeldByOneCall
  <1>1. IInv => ScratchHeldByOneCall
    <2> SUFFICES ASSUME IInv, NEW x \in Scratches
                 PROVE  inUse[x] <=> \E i \in DOMAIN stack :
                            /\ stack[i].scratch = x
                            /\ \A j \in DOMAIN stack : stack[j].scratch = x => j = i
      BY Zenon DEF ScratchHeldByOneCall
    <2>1. DOMAIN stack = 1 .. Len(stack) /\ Len(stack) \in Nat BY DEF IInv, TypeOK
    <2>2. inUse[x] <=> \E i \in 1 .. Len(stack) : stack[i].scratch = x
      BY Zenon DEF IInv, Held
    <2>3. \A i, j \in 1 .. Len(stack) : stack[i].scratch = stack[j].scratch => i = j
      <3> TAKE i, j \in 1 .. Len(stack)
      <3>1. i < j => Apart(stack[i], stack[j]) BY Zenon DEF IInv, StackOK
      <3>2. j < i => Apart(stack[j], stack[i]) BY Zenon DEF IInv, StackOK
      <3> QED BY <2>1, <3>1, <3>2 DEF Apart
    <2> QED BY <2>1, <2>2, <2>3, Zenon
  <1> QED BY <1>1, Wellformed, PTL

-----------------------------------------------------------------------------
(* The history buffer of every stream holds the bytes it should, for streams *)
(* whose offset fits in 32 bits.                                             *)

(* The history h of a stream that consumed d, o bytes in all. *)
Suffix(o, h, d) ==
    /\ o = Len(d) /\ o <= MaxOffset
    /\ \A i \in 0 .. getHistoryAmount(o) - 1 :
          /\ HistoryRequired - i \in DOMAIN h
          /\ h[HistoryRequired - i] = d[Len(d) - i]

(* The buffer of a call fits in the stream it is written to. *)
Fits(f, st) == f.op # "block" => st[f.id].offset + Len(f.buf) <= MaxOffset

StreamSuffixes(st, da) ==
    \A id \in Ids : st[id] # NULL => Suffix(st[id].offset, st[id].hist, da[id])

HInv ==
    /\ StreamSuffixes(stream, data)
    /\ \A b \in Blobs : blob[b] # NULL =>
          Suffix(blob[b].offset, blob[b].saved, blob[b].data)
    /\ \A i \in 1 .. Len(stack) : Fits(stack[i], stream)

-----------------------------------------------------------------------------
(* The operators on history buffers. *)

(* The number of history bytes that compress_stream saves is a number        *)
(* within the history.                                                       *)
LEMMA AmountTyped ==
    ASSUME NEW o \in Nat
    PROVE  /\ getHistoryAmount(o) \in Nat /\ getHistoryAmount(o) <= o
           /\ getHistoryAmount(o) <= HistoryRequired
           /\ \A n \in Nat : n < getHistoryAmount(o) <=> n < o /\ n < HistoryRequired
  BY HistoryAssumption DEF getHistoryAmount, Min2

(* A stream that has consumed nothing has no history to keep. *)
LEMMA EmptySuffix == ASSUME NEW h PROVE Suffix(0, h, <<>>)
  <1>1. getHistoryAmount(0) = 0 BY HistoryAssumption DEF getHistoryAmount, Min2
  <1> QED BY <1>1, BoundsAssumption DEF Suffix

(* A write shifts the history and appends the end of the written bytes. *)
LEMMA WriteSuffix ==
    ASSUME NEW h \in [HistoryIndex -> Bytes \cup {Junk}], NEW d \in Seq(Bytes),
           NEW buf \in Seq(Bytes), NEW o \in Nat, Suffix(o, h, d),
           o + Len(buf) <= MaxOffset
    PROVE  Suffix(o + Len(buf), maintainHistoryBuffer(h, buf), d \o buf)
  <1> DEFINE H == HistoryRequired
             m == Len(buf)
             amount == Min2(H, m)
             g == maintainHistoryBuffer(h, buf)
             e == d \o buf
  <1>1. m \in Nat /\ H \in Nat /\ o = Len(d) BY HistoryAssumption DEF Suffix
  <1>2. e \in Seq(Bytes) /\ Len(e) = o + m BY <1>1
  <1>3. /\ \A k \in 1 .. o : e[k] = d[k]
        /\ \A k \in 1 .. m : e[o + k] = buf[k]
    BY <1>1
  <1>4. /\ DOMAIN g = 1 .. H
        /\ \A k \in 1 .. H : g[k] = IF k > H - amount THEN buf[m - H + k] ELSE h[k + m]
    BY Zenon DEF maintainHistoryBuffer, HistoryIndex
  <1>5. amount \in Nat /\ amount <= H /\ amount <= m /\ (amount = H \/ amount = m)
    BY <1>1 DEF Min2
  <1> HIDE DEF e, g, m, amount
  <1>6. ASSUME NEW i \in 0 .. getHistoryAmount(o + m) - 1
        PROVE  H - i \in DOMAIN g /\ g[H - i] = e[Len(e) - i]
    <2>1. o + m \in Nat /\ i \in Nat /\ i < getHistoryAmount(o + m)
      <3>1. o + m \in Nat BY <1>1
      <3>2. getHistoryAmount(o + m) \in Nat BY <3>1, AmountTyped, Zenon
      <3> QED BY <3>1, <3>2
    <2>2. i < o + m /\ i < H BY <2>1, AmountTyped, Zenon
    <2>3. H - i \in 1 .. H BY <1>1, <2>1, <2>2
    <2>4. CASE i < m
      <3>1. H - i > H - amount /\ m - H + (H - i) = m - i
        BY <1>1, <1>5, <2>1, <2>2, <2>4
      <3>2. g[H - i] = buf[m - i] BY <1>4, <2>3, <3>1, Zenon
      <3>3. m - i \in 1 .. m /\ o + (m - i) = Len(e) - i BY <1>1, <1>2, <2>1, <2>4
      <3> QED BY <1>3, <1>4, <2>3, <3>2, <3>3, Zenon
    <2>5. CASE i >= m
      <3>1. ~(H - i > H - amount) /\ H - i + m = H - (i - m)
        BY <1>1, <1>5, <2>1, <2>5
      <3>2. g[H - i] = h[H - (i - m)] BY <1>4, <2>3, <3>1, Zenon
      <3>3. i - m \in Nat /\ i - m < o /\ i - m < H
        <4>1. i - m \in Nat BY <1>1, <2>1, <2>5
        <4>2. i - m < H BY <1>1, <2>1, <2>2
        <4>3. i - m < o BY <1>1, <2>1, <2>2
        <4> QED BY <4>1, <4>2, <4>3, Zenon
      <3>4. i - m \in 0 .. getHistoryAmount(o) - 1
        <4>1. getHistoryAmount(o) \in Nat BY AmountTyped, Zenon
        <4>2. i - m < getHistoryAmount(o) BY <3>3, AmountTyped, Zenon
        <4> QED BY <3>3, <4>1, <4>2
      <3>5. h[H - (i - m)] = d[Len(d) - (i - m)] BY <3>4, Zenon DEF Suffix
      <3>6. Len(d) - (i - m) \in 1 .. o /\ Len(d) - (i - m) = Len(e) - i
        BY <1>1, <1>2, <3>3
      <3> QED BY <1>3, <1>4, <2>3, <3>2, <3>5, <3>6, Zenon
    <2> QED BY <1>1, <2>1, <2>4, <2>5
  <1> QED BY <1>2, <1>6, Zenon DEF Suffix, e, g, m

(* Compression keeps the bytes of history the stream has, because the        *)
(* offset is not changed by the cast to 32 bits.                             *)
LEMMA CompressSuffix ==
    ASSUME MaxOffset < U32, TypeOK, NEW id \in Ids, stream[id] # NULL,
           Suffix(stream[id].offset, stream[id].hist, data[id])
    PROVE  LET c == compress_stream(id) IN Suffix(c.offset, c.saved, c.data)
  <1> DEFINE st == stream[id]
             o == st.offset
             n == savedHistory(o)
             c == compress_stream(id)
  <1>1. o \in Nat /\ st.hist \in [HistoryIndex -> Bytes \cup {Junk}]
    BY Zenon DEF TypeOK, StreamState
  <1>2. o <= MaxOffset BY Zenon DEF Suffix
  <1>3. o < U32 BY <1>1, <1>2, BoundsAssumption, U32Assumption
  <1>4. o % U32 = o BY <1>1, <1>3, U32Assumption
  <1>5. n = getHistoryAmount(o)
    BY <1>1, <1>4, HistoryAssumption DEF savedHistory, getHistoryAmount, Min2
  <1>6. n \in Nat /\ n <= HistoryRequired BY <1>1, <1>5, AmountTyped, Zenon
  <1>7. /\ c.offset = o /\ c.data = data[id]
        /\ c.saved = [i \in HistoryRequired - n + 1 .. HistoryRequired |-> st.hist[i]]
    BY Zenon DEF compress_stream
  <1> HIDE DEF c, n
  <1>8. ASSUME NEW i \in 0 .. n - 1
        PROVE  HistoryRequired - i \in HistoryRequired - n + 1 .. HistoryRequired
    BY <1>6, HistoryAssumption
  <1>9. ASSUME NEW i \in 0 .. getHistoryAmount(o) - 1
        PROVE  /\ HistoryRequired - i \in DOMAIN c.saved
               /\ c.saved[HistoryRequired - i] = c.data[Len(c.data) - i]
    <2>1. HistoryRequired - i \in HistoryRequired - n + 1 .. HistoryRequired
      BY <1>5, <1>8, Zenon
    <2>2. st.hist[HistoryRequired - i] = data[id][Len(data[id]) - i] BY Zenon DEF Suffix
    <2> QED BY <1>7, <2>1, <2>2, Zenon
  <1> QED BY <1>7, <1>9, Zenon DEF Suffix, c

(* Expansion puts the saved bytes back where they were. *)
LEMMA ExpandSuffix ==
    ASSUME NEW b \in Compressed, NEW hist, Suffix(b.offset, b.saved, b.data)
    PROVE  LET s == expand_stream(b, hist) IN Suffix(s.offset, s.hist, b.data)
  <1> DEFINE s == expand_stream(b, hist)
  <1>1. /\ s.offset = b.offset
        /\ s.hist = [i \in HistoryIndex |->
                       IF i \in DOMAIN b.saved THEN b.saved[i] ELSE hist[i]]
    BY Zenon DEF expand_stream
  <1> HIDE DEF s
  <1>2. b.offset \in Nat BY Zenon DEF Compressed
  <1>3. ASSUME NEW i \in 0 .. getHistoryAmount(b.offset) - 1
        PROVE  /\ HistoryRequired - i \in DOMAIN s.hist
               /\ s.hist[HistoryRequired - i] = b.data[Len(b.data) - i]
    <2>1. HistoryRequired - i \in HistoryIndex
      <3>1. i \in Nat /\ i < HistoryRequired
        BY <1>2, AmountTyped, HistoryAssumption
      <3> QED BY <3>1, HistoryAssumption DEF HistoryIndex
    <2>2. /\ HistoryRequired - i \in DOMAIN b.saved
          /\ b.saved[HistoryRequired - i] = b.data[Len(b.data) - i]
      BY Zenon DEF Suffix
    <2> QED BY <1>1, <2>1, <2>2, Zenon
  <1> QED BY <1>1, <1>3, Zenon DEF Suffix, s

-----------------------------------------------------------------------------
(* HInv is inductive, given IInv. *)

(* Frames whose stream a step leaves alone still fit. *)
LEMMA FitsKept ==
    ASSUME IInv, HInv, NEW st1, NEW id,
           \A d \in Ids : d # id => st1[d] = stream[d],
           NEW n \in Nat, n <= Len(stack),
           \A i \in 1 .. n : stack[i].id # id
    PROVE  \A i \in 1 .. n : Fits(stack[i], st1)
  <1> TAKE i \in 1 .. n
  <1>1. i \in 1 .. Len(stack) /\ stack \in Seq(Frames) BY DEF IInv, TypeOK
  <1>2. stack[i] \in Frames BY <1>1
  <1>3. st1[stack[i].id] = stream[stack[i].id] BY <1>2, Zenon DEF Frames
  <1>4. Fits(stack[i], stream) BY <1>1, Zenon DEF HInv
  <1> QED BY <1>3, <1>4, Zenon DEF Fits

(* What a step does to the stack, as far as Fits is concerned. *)
LEMMA FitsFree ==
    ASSUME IInv, HInv, NEW id, Free(id),
           \A d \in Ids : d # id => stream'[d] = stream[d]
    PROVE  \A i \in 1 .. Len(stack) : Fits(stack[i], stream')
  <1>1. Len(stack) \in Nat /\ DOMAIN stack = 1 .. Len(stack) BY DEF IInv, TypeOK
  <1>3. Len(stack) <= Len(stack) BY <1>1
  <1>2. \A i \in 1 .. Len(stack) : stack[i].id # id BY <1>1, Zenon DEF Free
  <1> QED BY <1>1, <1>2, <1>3, FitsKept, Zenon

(* The calls below the top one keep their writes.                            *)
LEMMA FitsBelow ==
    ASSUME IInv, HInv, stack # <<>>,
           \A d \in Ids : d # Top.id => stream'[d] = stream[d]
    PROVE  /\ \A i \in 1 .. Len(stack) - 1 : Fits(stack[i], stream')
           /\ Len(stack) - 1 \in Nat /\ Fits(Top, stream)
  <1>1. stack \in Seq(Frames) /\ Len(stack) \in Nat \ {0} BY DEF IInv, TypeOK
  <1>2. \A i \in 1 .. Len(stack) - 1 : stack[i].id # Top.id
    <2> TAKE i \in 1 .. Len(stack) - 1
    <2>1. i \in 1 .. Len(stack) /\ Len(stack) \in 1 .. Len(stack) /\ i < Len(stack) BY <1>1
    <2>2. Apart(stack[i], stack[Len(stack)]) BY <2>1, Zenon DEF IInv, StackOK
    <2> QED BY <2>2, Zenon DEF Apart, Top
  <1>3. Len(stack) - 1 \in Nat /\ Len(stack) - 1 <= Len(stack) BY <1>1
  <1>4. Len(stack) \in 1 .. Len(stack) BY <1>1
  <1>5. Fits(Top, stream) BY <1>4, Zenon DEF HInv, Top
  <1> QED BY <1>2, <1>3, <1>5, FitsKept, Zenon

(* A new call whose write fits.                                              *)
LEMMA FitsPush ==
    ASSUME IInv, HInv, NEW f \in Frames, Push(f), Fits(f, stream'), Free(f.id),
           \A d \in Ids : d # f.id => stream'[d] = stream[d]
    PROVE  \A i \in 1 .. Len(stack') : Fits(stack'[i], stream')
  <1>1. \A i \in 1 .. Len(stack) : Fits(stack[i], stream') BY FitsFree, Zenon
  <1>2. stack \in Seq(Frames) /\ Len(stack) \in Nat BY DEF IInv, TypeOK
  <1>3. /\ Len(stack') = Len(stack) + 1 /\ stack'[Len(stack) + 1] = f
        /\ \A i \in 1 .. Len(stack) : stack'[i] = stack[i]
    BY <1>2, PushTop DEF Push
  <1> QED BY <1>1, <1>2, <1>3

(* The call in progress goes on to its next stage with the same write.       *)
LEMMA FitsSetTop ==
    ASSUME IInv, HInv, stack # <<>>, NEW f \in Frames, SetTop(f), Fits(f, stream'),
           \A d \in Ids : d # Top.id => stream'[d] = stream[d]
    PROVE  \A i \in 1 .. Len(stack') : Fits(stack'[i], stream')
  <1>1. \A i \in 1 .. Len(stack) - 1 : Fits(stack[i], stream') BY FitsBelow, Zenon
  <1>2. stack \in Seq(Frames) /\ Len(stack) \in Nat \ {0} BY DEF IInv, TypeOK
  <1>3. /\ Len(stack') = Len(stack) /\ stack'[Len(stack)] = f
        /\ \A i \in 1 .. Len(stack) - 1 : stack'[i] = stack[i]
    BY <1>2, ReplaceTop DEF SetTop, Below
  <1> QED BY <1>1, <1>2, <1>3

(* A call returns: the writes of the calls below it still fit.               *)
LEMMA FitsPop ==
    ASSUME IInv, HInv, stack # <<>>, Pop,
           \A d \in Ids : d # Top.id => stream'[d] = stream[d]
    PROVE  \A i \in 1 .. Len(stack') : Fits(stack'[i], stream')
  <1>1. \A i \in 1 .. Len(stack) - 1 : Fits(stack[i], stream') BY FitsBelow, Zenon
  <1>2. stack \in Seq(Frames) BY Zenon DEF IInv, TypeOK
  <1>3. /\ Len(stack') = Len(stack) - 1
        /\ \A i \in 1 .. Len(stack) - 1 : stack'[i] = stack[i]
    BY <1>2, PopTop, Zenon DEF Pop, Below
  <1> QED BY <1>1, <1>3, Zenon

(* Close, reset, copy and expand give the stream a history that belongs to   *)
(* the bytes it now stands for.                                              *)
LEMMA ReplaceSuffix ==
    ASSUME TypeOK, HInv, NEW op, NEW id \in Streams, NEW from, Replace(op, id, from),
           op \in EodCalls \cup {"copy", "expand"},
           op \in {"copyTo", "copy"} => from \in Streams,
           op \in {"expandTo", "expand"} => from \in Blobs /\ blob[from] # NULL
    PROVE  StreamSuffixes(stream', data')
  <1>1. id \in Ids BY Zenon DEF Ids
  <1>2. StreamSuffixes(stream, data) BY Zenon DEF HInv
  <1>3. CASE op = "close"
    <2>1. stream' = [stream EXCEPT ![id] = NULL] /\ data' = [data EXCEPT ![id] = <<>>]
      BY <1>3, Zenon DEF Replace
    <2> QED BY <2>1, <1>1, <1>2, Zenon DEF StreamSuffixes, TypeOK
  <1>4. CASE op = "reset"
    <2> DEFINE s == init_stream(stream[id].hist)
    <2>1. stream' = [stream EXCEPT ![id] = s] /\ data' = [data EXCEPT ![id] = <<>>]
      BY <1>4, Zenon DEF Replace
    <2>2. Suffix(s.offset, s.hist, <<>>)
      <3>1. s.offset = 0 BY Zenon DEF init_stream
      <3> QED BY <3>1, EmptySuffix, Zenon
    <2> HIDE DEF s
    <2> QED BY <2>1, <2>2, <1>1, <1>2, Zenon DEF StreamSuffixes, TypeOK
  <1>5. CASE op \in {"copyTo", "copy"}
    <2>1. /\ stream' = [stream EXCEPT ![id] = stream[from]]
          /\ data' = [data EXCEPT ![id] = data[from]]
      BY <1>5, Zenon DEF Replace
    <2>2. from \in Ids BY <1>5, Zenon DEF Ids
    <2> QED BY <2>1, <2>2, <1>1, <1>2, Zenon DEF StreamSuffixes, TypeOK
  <1>6. CASE op \in {"expandTo", "expand"}
    <2> DEFINE hist == IF op = "expand" THEN Uninitialised ELSE stream[id].hist
               s == expand_stream(blob[from], hist)
    <2>1. /\ stream' = [stream EXCEPT ![id] = s]
          /\ data' = [data EXCEPT ![id] = blob[from].data]
      BY <1>6, Zenon DEF Replace
    <2>2. blob[from] \in Compressed BY <1>6, Zenon DEF TypeOK
    <2>3. Suffix(blob[from].offset, blob[from].saved, blob[from].data)
      BY <1>6, Zenon DEF HInv
    <2> HIDE DEF hist
    <2>4. Suffix(s.offset, s.hist, blob[from].data) BY <2>2, <2>3, ExpandSuffix, Zenon
    <2> HIDE DEF s
    <2> QED BY <2>1, <2>4, <1>1, <1>2, Zenon DEF StreamSuffixes, TypeOK
  <1> QED BY <1>3, <1>4, <1>5, <1>6, Zenon DEF EodCalls

(* hs_scan_stream_internal stores offset and history together: the history   *)
(* is then a suffix of what the stream has consumed.                         *)
LEMMA StoreSuffix ==
    ASSUME TypeOK, HInv, NEW id \in Ids, stream[id] # NULL,
           NEW status \in SUBSET StatusBits, NEW buf \in Seq(Bytes),
           stream[id].offset + Len(buf) <= MaxOffset, StoreStream(id, status, buf)
    PROVE  StreamSuffixes(stream', data') /\ stream'[id].offset <= MaxOffset
  <1> DEFINE s == stream[id]
  <1>1. s \in StreamState BY Zenon DEF TypeOK
  <1>2. s.offset \in Nat /\ s.hist \in [HistoryIndex -> Bytes \cup {Junk}]
    BY <1>1, Zenon DEF StreamState
  <1>3. StreamSuffixes(stream, data) /\ Suffix(s.offset, s.hist, data[id])
    BY Zenon DEF HInv, StreamSuffixes
  <1>4. CASE Broken(status)
    <2> DEFINE t == [s EXCEPT !.status = status]
    <2>1. stream' = [stream EXCEPT ![id] = t] /\ data' = data
      BY <1>4, Zenon DEF StoreStream
    <2>2. t.offset = s.offset /\ t.hist = s.hist BY <1>1, Zenon DEF StreamState
    <2>3. Suffix(t.offset, t.hist, data[id]) BY <1>3, <2>2, Zenon
    <2> HIDE DEF t, s
    <2> QED BY <2>1, <2>3, <1>3, Zenon DEF StreamSuffixes, TypeOK, Suffix
  <1>5. CASE ~Broken(status)
    <2> DEFINE t == [offset |-> s.offset + Len(buf), status |-> status,
                     hist |-> maintainHistoryBuffer(s.hist, buf)]
               e == data[id] \o buf
    <2>1. stream' = [stream EXCEPT ![id] = t] /\ data' = [data EXCEPT ![id] = e]
      BY <1>5, Zenon DEF StoreStream, TypeOK
    <2>2. data[id] \in Seq(Bytes) BY Zenon DEF TypeOK
    <2>3. Suffix(t.offset, t.hist, e) BY <1>2, <1>3, <2>2, WriteSuffix, Zenon
    <2> HIDE DEF t, s, e
    <2> QED BY <2>1, <2>3, <1>3, Zenon DEF StreamSuffixes, TypeOK, Suffix
  <1> QED BY <1>4, <1>5, Zenon

(* The calls. *)
LEMMA HInvCalls ==
    ASSUME MaxOffset < U32, IInv, HInv, Call
    PROVE  HInv'
  <1>1. TypeOK /\ StreamSuffixes(stream, data) BY Zenon DEF IInv, HInv
  <1>2. Streams \subseteq Ids /\ Scratches \subseteq Ids BY Zenon DEF Ids
  <1>3. ASSUME NEW id \in Ids, Free(id), StreamSuffixes(stream', data'),
               \A d \in Ids : d # id => stream'[d] = stream[d],
               UNCHANGED <<blob, stack>>
        PROVE  HInv'
    <2>1. \A i \in 1 .. Len(stack) : Fits(stack[i], stream') BY <1>3, FitsFree, Zenon
    <2> QED BY <1>3, <2>1, Zenon DEF HInv
  <1>4. ASSUME NEW f \in Frames, Push(f), Fits(f, stream'), Free(f.id),
               StreamSuffixes(stream', data'),
               \A d \in Ids : d # f.id => stream'[d] = stream[d],
               UNCHANGED blob
        PROVE  HInv'
    <2>1. \A i \in 1 .. Len(stack') : Fits(stack'[i], stream') BY <1>4, FitsPush, Zenon
    <2> QED BY <1>4, <2>1, Zenon DEF HInv
  <1>5. ASSUME NEW id \in Ids, stream' = [stream EXCEPT ![id] = init_stream(Uninitialised)],
               data' = [data EXCEPT ![id] = <<>>]
        PROVE  StreamSuffixes(stream', data') /\ stream'[id].offset = 0
    <2> DEFINE s == init_stream(Uninitialised)
    <2>1. s.offset = 0 BY Zenon DEF init_stream
    <2>2. Suffix(s.offset, s.hist, <<>>) BY <2>1, EmptySuffix, Zenon
    <2> HIDE DEF s
    <2>3. stream' = [stream EXCEPT ![id] = s] BY <1>5, Zenon DEF s
    <2> QED BY <1>1, <1>5, <2>1, <2>2, <2>3, Zenon DEF StreamSuffixes, TypeOK
  <1>6. ASSUME NEW id \in Streams, hs_open_stream(id) PROVE HInv'
    <2>1. /\ Free(id) /\ stream' = [stream EXCEPT ![id] = init_stream(Uninitialised)]
          /\ data' = [data EXCEPT ![id] = <<>>] /\ UNCHANGED <<blob, stack>> /\ id \in Ids
      BY <1>2, <1>6, Zenon DEF hs_open_stream
    <2>2. \A d \in Ids : d # id => stream'[d] = stream[d] BY <1>1, <2>1, Zenon DEF TypeOK
    <2> QED BY <1>3, <1>5, <2>1, <2>2, Zenon
  <1>7. ASSUME NEW id \in Streams, NEW x \in Scratches, NEW buf \in Chunks,
               hs_scan_stream(id, x, buf)
        PROVE  HInv'
    <2> DEFINE f == Frame("scan", id, NULL, x, buf, ScanStages)
    <2>1. buf \in Seq(Bytes) /\ id \in Ids BY <1>2, ChunksAreSeqs, Zenon
    <2>2. f \in Frames /\ f.id = id /\ f.buf = buf
      BY <2>1, StagesTyped, Zenon DEF AllCalls, Frame, Frames
    <2>3. /\ Push(f) /\ Free(f.id) /\ UNCHANGED <<stream, blob, data>>
          /\ stream[f.id].offset + Len(f.buf) <= MaxOffset
      BY <1>7, <2>2, ZenonT(30) DEF hs_scan_stream, Open
    <2> HIDE DEF f
    <2> QED BY <1>1, <1>4, <2>2, <2>3, Zenon DEF Fits
  <1>8. ASSUME NEW x \in Scratches, NEW buf \in Chunks, hs_scan(x, buf) PROVE HInv'
    <2> DEFINE todo == IF buf = <<>> THEN EmptyBlockStages ELSE BlockStages
               f == Frame("block", x, NULL, x, buf, todo)
    <2>1. buf \in Seq(Bytes) /\ x \in Ids /\ todo \in Todos
      BY <1>2, ChunksAreSeqs, StagesTyped, Zenon
    <2> HIDE DEF todo
    <2>2. f \in Frames /\ f.id = x /\ f.op = "block"
      BY <2>1, Zenon DEF AllCalls, Frame, Frames
    <2>3. Free(x) BY <1>8, UnusedScratchIsFree, Zenon DEF hs_scan, markScratchInUse
    <2>4. Push(f) /\ Free(f.id) /\ UNCHANGED <<stream, blob, data>>
      BY <1>8, <2>2, <2>3, Zenon DEF hs_scan, todo
    <2> HIDE DEF f
    <2> QED BY <1>1, <1>4, <2>2, <2>4, Zenon DEF Fits
  <1>9. ASSUME NEW x \in Scratches, hs_scan_vector(x) PROVE HInv'
    <2> DEFINE f == Frame("vector", x, NULL, x, <<>>, <<"more">>)
    <2>1. x \in Ids /\ <<>> \in Seq(Bytes) BY <1>2
    <2>2. f \in Frames /\ f.id = x /\ f.buf = <<>>
      BY <2>1, StagesTyped, Zenon DEF AllCalls, Frame, Frames
    <2>3. Free(x) BY <1>9, UnusedScratchIsFree, Zenon DEF hs_scan_vector, markScratchInUse
    <2>4. /\ Push(f) /\ Free(f.id) /\ UNCHANGED blob
          /\ stream' = [stream EXCEPT ![x] = init_stream(Uninitialised)]
          /\ data' = [data EXCEPT ![x] = <<>>]
      BY <1>9, <2>2, <2>3, Zenon DEF hs_scan_vector
    <2>5. StreamSuffixes(stream', data') /\ stream'[x].offset = 0 BY <1>5, <2>1, <2>4, Zenon
    <2>6. Fits(f, stream') BY <2>2, <2>5, BoundsAssumption, SMTT(30) DEF Fits
    <2>7. \A d \in Ids : d # f.id => stream'[d] = stream[d] BY <1>1, <2>2, <2>4, Zenon DEF TypeOK
    <2> HIDE DEF f
    <2> QED BY <1>4, <2>2, <2>4, <2>5, <2>6, <2>7, Zenon
  <1>10. ASSUME NEW id \in Streams, NEW b \in Blobs, hs_compress_stream(id, b) PROVE HInv'
    <2> DEFINE c == compress_stream(id)
    <2>1. /\ blob' = [blob EXCEPT ![b] = c] /\ stream[id] # NULL /\ id \in Ids
          /\ UNCHANGED <<stream, stack, data>>
      BY <1>2, <1>10, Zenon DEF hs_compress_stream, Open
    <2>2. Suffix(stream[id].offset, stream[id].hist, data[id])
      BY <1>1, <2>1, Zenon DEF StreamSuffixes
    <2>3. Suffix(c.offset, c.saved, c.data) BY <1>1, <2>1, <2>2, CompressSuffix, Zenon
    <2> HIDE DEF c
    <2>4. \A e \in Blobs : blob'[e] # NULL =>
              Suffix(blob'[e].offset, blob'[e].saved, blob'[e].data)
      BY <1>1, <2>1, <2>3, Zenon DEF HInv, TypeOK
    <2> QED BY <2>1, <2>4, Zenon DEF HInv
  <1>11. ASSUME NEW op \in EodCalls, NEW id \in Streams,
                NEW from \in Streams \cup Blobs \cup {NULL},
                NEW x \in Scratches, CallWithEod(op, id, from, x)
         PROVE  HInv'
    <2> DEFINE todo == IF Broken(stream[id].status) THEN <<"finish">> ELSE EodStages
               f == Frame(op, id, from, x, <<>>, todo)
    <2>1. id \in Ids /\ op \in AllCalls /\ todo \in Todos /\ <<>> \in Seq(Bytes)
      BY <1>2, StagesTyped DEF AllCalls
    <2> HIDE DEF todo
    <2>2. f \in Frames /\ f.id = id /\ f.buf = <<>> BY <2>1, Zenon DEF Frame, Frames
    <2>3. /\ Push(f) /\ Free(f.id) /\ stream[id] # NULL
          /\ UNCHANGED <<stream, blob, data>>
      BY <1>11, <2>2, ZenonT(30) DEF CallWithEod, Open, todo
    <2>4. stream[id].offset \in Nat /\ stream[id].offset <= MaxOffset
      BY <1>1, <2>1, <2>3, ZenonT(30) DEF StreamSuffixes, Suffix, TypeOK, StreamState
    <2>5. Fits(f, stream) BY <2>2, <2>4, SMTT(30) DEF Fits
    <2> HIDE DEF f
    <2> QED BY <1>1, <1>4, <2>2, <2>3, <2>5, Zenon
  <1>12. ASSUME NEW op \in EodCalls \cup {"copy", "expand"}, NEW id \in Streams,
                NEW from, Source(op, id, from), Free(id),
                op \in EodCalls => stream[id] # NULL, Replace(op, id, from),
                UNCHANGED <<inUse, core, blob, stack>>
         PROVE  HInv'
    <2>1. /\ op \in {"reset", "expandTo"} => stream[id] # NULL
          /\ op \in {"copyTo", "copy"} => from \in Streams
          /\ op \in {"expandTo", "expand"} => from \in Blobs /\ blob[from] # NULL
      BY <1>12, Zenon DEF EodCalls, Source
    <2>2. \A d \in Ids : d # id => stream'[d] = stream[d]
      BY <1>1, <1>12, <2>1, ReplaceTyped, Zenon
    <2>3. StreamSuffixes(stream', data') BY <1>1, <1>12, <2>1, ReplaceSuffix, Zenon
    <2> QED BY <1>2, <1>3, <1>12, <2>2, <2>3, Zenon
  <1>13. ASSUME NEW op \in EodCalls, NEW id \in Streams,
                NEW from \in Streams \cup Blobs \cup {NULL}, Source(op, id, from),
                CallWithoutEod(op, id, from)
         PROVE  HInv'
    BY <1>12, <1>13, Zenon DEF CallWithoutEod, Open
  <1>14. ASSUME NEW op \in {"copy", "expand"}, NEW id \in Streams,
                NEW from \in Streams \cup Blobs, Source(op, id, from),
                CallIntoNew(op, id, from)
         PROVE  HInv'
    BY <1>12, <1>14, Zenon DEF CallIntoNew, EodCalls
  <1> QED BY <1>6, <1>7, <1>8, <1>9, <1>10, <1>11, <1>13, <1>14, Zenon DEF Call

(* The steps of a call in progress. *)
LEMMA HInvSteps ==
    ASSUME IInv, HInv, Step
    PROVE  HInv'
  <1>1. TypeOK /\ StreamSuffixes(stream, data) BY Zenon DEF IInv, HInv
  <1>2. ASSUME stack # <<>>, NEW f \in Frames, SetTop(f), SameCall(f, Top), f.buf = Top.buf,
               UNCHANGED <<stream, blob, data>>
        PROVE  HInv'
    <2>1. Fits(Top, stream) BY <1>2, FitsBelow, Zenon
    <2>2. Fits(f, stream') BY <1>2, <2>1, Zenon DEF Fits, SameCall
    <2>3. \A i \in 1 .. Len(stack') : Fits(stack'[i], stream') BY <1>2, <2>2, FitsSetTop, Zenon
    <2> QED BY <1>1, <1>2, <2>3, Zenon DEF HInv
  <1>3. ASSUME stack # <<>> PROVE Top \in Frames BY <1>3, TopFrame, Zenon
  <1>4. CASE Report
    <2> DEFINE f == [Top EXCEPT !.cb = TRUE]
    <2>1. stack # <<>> /\ SetTop(f) /\ UNCHANGED <<stream, blob, data>>
      BY <1>4, Zenon DEF Report, Working
    <2>3. Top \in Frames BY <1>3, <2>1, Zenon
    <2>2. f \in Frames /\ SameCall(f, Top) /\ f.buf = Top.buf
      BY <2>3, Zenon DEF Frames, SameCall
    <2> HIDE DEF f
    <2> QED BY <1>2, <2>1, <2>2, Zenon
  <1>5. CASE CallbackContinue
    <2> DEFINE f == [Top EXCEPT !.cb = FALSE]
    <2>1. stack # <<>> /\ SetTop(f) /\ UNCHANGED <<stream, blob, data>>
      BY <1>5, Zenon DEF CallbackContinue
    <2>2. f \in Frames /\ SameCall(f, Top) /\ f.buf = Top.buf
      BY <1>3, <2>1, Zenon DEF Frames, SameCall
    <2> HIDE DEF f
    <2> QED BY <1>2, <2>1, <2>2, Zenon
  <1>6. CASE CallbackHalt
    <2> DEFINE f == [Top EXCEPT !.cb = FALSE, !.halt = TRUE]
    <2>1. stack # <<>> /\ SetTop(f) /\ UNCHANGED <<stream, blob, data>>
      BY <1>6, Zenon DEF CallbackHalt
    <2>2. f \in Frames /\ SameCall(f, Top) /\ f.buf = Top.buf
      BY <1>3, <2>1, Zenon DEF Frames, SameCall
    <2> HIDE DEF f
    <2> QED BY <1>2, <2>1, <2>2, Zenon
  <1>7. CASE Exhaust
    <2> DEFINE f == [Top EXCEPT !.halt = TRUE]
    <2>1. stack # <<>> /\ SetTop(f) /\ UNCHANGED <<stream, blob, data>>
      BY <1>7, Zenon DEF Exhaust, Working
    <2>2. f \in Frames /\ SameCall(f, Top) /\ f.buf = Top.buf
      BY <1>3, <2>1, Zenon DEF Frames, SameCall
    <2> HIDE DEF f
    <2> QED BY <1>2, <2>1, <2>2, Zenon
  <1>8. CASE InternalError
    <2> DEFINE f == [Top EXCEPT !.halt = TRUE]
    <2>1. stack # <<>> /\ SetTop(f) /\ UNCHANGED <<stream, blob, data>>
      BY <1>8, Zenon DEF InternalError, Working
    <2>2. f \in Frames /\ SameCall(f, Top) /\ f.buf = Top.buf
      BY <1>3, <2>1, Zenon DEF Frames, SameCall
    <2> HIDE DEF f
    <2> QED BY <1>2, <2>1, <2>2, Zenon
  <1>9. CASE EndStage
    <2> DEFINE todo == StagesAfter(Top, Stage)
               f == [Top EXCEPT !.todo = todo, !.halt = FALSE]
    <2>1. /\ stack # <<>> /\ SetTop(f) /\ UNCHANGED <<stream, blob, data>>
          /\ Stage \notin LastStages
      BY <1>9, Zenon DEF EndStage, Working
    <2>2. Top \in Frames /\ FrameOK(Top, stream, blob) BY <2>1, TopFrame, Zenon
    <2>3. Top.op = "block" => LastStage(Top) = "finish" BY <2>2, Zenon DEF FrameOK
    <2>4. todo \in Todos BY <1>1, <2>1, <2>2, <2>3, StagesAfterTyped, Zenon DEF Stage
    <2> HIDE DEF todo
    <2>5. f \in Frames /\ SameCall(f, Top) /\ f.buf = Top.buf
      BY <2>2, <2>4, Zenon DEF Frames, SameCall
    <2> HIDE DEF f
    <2> QED BY <1>2, <2>1, <2>5, Zenon
  <1>10. ASSUME stack # <<>>, Stage \in {"store", "more"}
         PROVE  /\ Top \in Frames /\ Top.op # "block" /\ stream[Top.id] # NULL
                /\ Top.id \in Ids /\ Top.scratch \in Scratches /\ Top.buf \in Seq(Bytes)
                /\ stream[Top.id].offset \in Nat /\ stream[Top.id].offset <= MaxOffset
    <2>1. Top \in Frames /\ FrameOK(Top, stream, blob) BY <1>10, TopFrame, Zenon
    <2>2. LastStage(Top) = Stage BY <1>10, <2>1, FirstStage, Zenon DEF Stage, LastStages
    <2>3. Top.op # "block" /\ stream[Top.id] # NULL BY <1>10, <2>1, <2>2, Zenon DEF FrameOK
    <2>4. Top.id \in Ids /\ Top.scratch \in Scratches /\ Top.buf \in Seq(Bytes)
      BY <2>1, Zenon DEF Frames
    <2>5. stream[Top.id].offset \in Nat /\ stream[Top.id].offset <= MaxOffset
      BY <1>1, <2>3, <2>4, Zenon DEF StreamSuffixes, Suffix, TypeOK, StreamState
    <2> QED BY <2>1, <2>3, <2>4, <2>5, Zenon
  <1>11. CASE Store
    <2>1. /\ stack # <<>> /\ Stage = "store" /\ UNCHANGED blob
          /\ StoreStream(Top.id, core[Top.scratch], Top.buf)
      BY <1>11, Zenon DEF Store, Working
    <2>2. /\ Top \in Frames /\ Top.op # "block" /\ stream[Top.id] # NULL
          /\ Top.id \in Ids /\ Top.scratch \in Scratches /\ Top.buf \in Seq(Bytes)
      BY <1>10, <2>1, Zenon
    <2>3. core[Top.scratch] \in SUBSET StatusBits BY <1>1, <2>2, Zenon DEF TypeOK
    <2>4. \A d \in Ids : d # Top.id => stream'[d] = stream[d]
      BY <1>1, <2>1, <2>2, <2>3, StoreTyped, Zenon
    <2>5. stream[Top.id].offset + Len(Top.buf) <= MaxOffset
      <3>1. \A d \in Ids : d # Top.id => stream'[d] = stream[d] BY <2>4, Zenon
      <3>2. Fits(Top, stream) BY <2>1, <3>1, FitsBelow, Zenon
      <3> QED BY <2>2, <3>2, Zenon DEF Fits
    <2>6. StreamSuffixes(stream', data') /\ stream'[Top.id].offset <= MaxOffset
      BY <1>1, <2>1, <2>2, <2>3, <2>5, StoreSuffix, Zenon
    <2>7. CASE Pop
      <3>1. \A i \in 1 .. Len(stack') : Fits(stack'[i], stream')
        BY <2>1, <2>4, <2>7, FitsPop, Zenon
      <3> QED BY <2>1, <2>6, <3>1, Zenon DEF HInv
    <2>8. CASE SetTop([Top EXCEPT !.todo = <<"more">>, !.buf = <<>>])
      <3> DEFINE f == [Top EXCEPT !.todo = <<"more">>, !.buf = <<>>]
      <3>1. <<>> \in Seq(Bytes) OBVIOUS
      <3>2. f \in Frames /\ f.id = Top.id /\ f.buf = <<>>
        BY <2>2, <3>1, StagesTyped, Zenon DEF Frames
      <3>3. SetTop(f) BY <2>8, Zenon
      <3> HIDE DEF f
      <3>4. stream'[Top.id].offset \in Nat
        BY <1>1, <2>1, <2>2, <2>3, StoreTyped, Zenon DEF StreamState
      <3>5. Fits(f, stream') BY <2>6, <3>2, <3>4 DEF Fits
      <3>6. \A i \in 1 .. Len(stack') : Fits(stack'[i], stream')
        BY <2>1, <2>4, <3>2, <3>3, <3>5, FitsSetTop, Zenon
      <3> QED BY <2>1, <2>6, <3>6, Zenon DEF HInv
    <2> QED BY <1>11, <2>7, <2>8, Zenon DEF Store
  <1>12. ASSUME NEW buf \in Chunks, VectorBlock(buf) PROVE HInv'
    <2> DEFINE f == [Top EXCEPT !.buf = buf, !.todo = ScanStages]
    <2>1. /\ stack # <<>> /\ Stage = "more" /\ SetTop(f) /\ UNCHANGED <<stream, blob, data>>
          /\ stream[Top.id].offset + Len(buf) <= MaxOffset
      BY <1>12, Zenon DEF VectorBlock, Working
    <2>2. Top \in Frames BY <1>10, <2>1, Zenon
    <2>3. f \in Frames /\ f.id = Top.id /\ f.buf = buf
      BY <2>2, StagesTyped, ChunksAreSeqs, Zenon DEF Frames
    <2> HIDE DEF f
    <2>4. Fits(f, stream') BY <2>1, <2>3, Zenon DEF Fits
    <2>5. \A i \in 1 .. Len(stack') : Fits(stack'[i], stream')
      BY <2>1, <2>3, <2>4, FitsSetTop, Zenon
    <2> QED BY <1>1, <2>1, <2>5, Zenon DEF HInv
  <1>13. ASSUME NEW onEvent \in BOOLEAN, VectorEod(onEvent) PROVE HInv'
    <2>1. stack # <<>> /\ Stage = "more" /\ UNCHANGED <<stream, blob, data>>
      BY <1>13, Zenon DEF VectorEod, Working
    <2>2. PICK todo \in {EodStages, <<"finish">>} : SetTop([Top EXCEPT !.todo = todo])
      BY <1>13, Zenon DEF VectorEod
    <2> DEFINE f == [Top EXCEPT !.todo = todo]
    <2>3. f \in Frames /\ SameCall(f, Top) /\ f.buf = Top.buf
      BY <1>3, <2>1, StagesTyped, Zenon DEF Frames, SameCall
    <2>4. SetTop(f) BY <2>2, Zenon
    <2> HIDE DEF f
    <2> QED BY <1>2, <2>1, <2>3, <2>4, Zenon
  <1>14. CASE Finish
    <2>1. stack # <<>> /\ Pop /\ UNCHANGED blob BY <1>14, Zenon DEF Finish, Working
    <2>2. Top \in Frames /\ FrameOK(Top, stream, blob) BY <2>1, TopFrame, Zenon
    <2>3. /\ StreamSuffixes(stream', data')
          /\ \A d \in Ids : d # Top.id => stream'[d] = stream[d]
      <3>1. CASE Top.op \in EodCalls /\ Replace(Top.op, Top.id, Top.from)
        <4>1. /\ Top.id \in Streams /\ stream[Top.id] # NULL
              /\ Top.op \in {"copyTo", "copy"} => Top.from \in Streams
              /\ Top.op \in {"expandTo", "expand"} =>
                    Top.from \in Blobs /\ blob[Top.from] # NULL
          BY <2>2, <3>1, Zenon DEF FrameOK, EodCalls
        <4> QED BY <1>1, <3>1, <4>1, ReplaceTyped, ReplaceSuffix, Zenon
      <3>2. CASE UNCHANGED <<stream, data, told>> BY <1>1, <3>2, Zenon
      <3> QED BY <1>14, <3>1, <3>2, Zenon DEF Finish
    <2>4. \A i \in 1 .. Len(stack') : Fits(stack'[i], stream') BY <2>1, <2>3, FitsPop, Zenon
    <2> QED BY <2>1, <2>3, <2>4, Zenon DEF HInv
  <1> QED BY <1>4, <1>5, <1>6, <1>7, <1>8, <1>9, <1>11, <1>12, <1>13, <1>14, Zenon DEF Step

(* The history buffer always ends with the last bytes the stream consumed,   *)
(* if no stream reaches 2^32 bytes.  Beyond that compress_stream saves too   *)
(* little (HsStream_u32.cfg).                                                *)
THEOREM History == ASSUME MaxOffset < U32 PROVE Spec => []HistoryIsSuffix
  <1>1. Init => HInv
    <2> SUFFICES ASSUME Init PROVE HInv BY Zenon
    <2>1. Len(stack) = 0 BY Zenon DEF Init
    <2> QED BY <2>1 DEF Init, HInv, StreamSuffixes
  <1>2. IInv /\ HInv /\ [Next]_vars => HInv'
    <2> SUFFICES ASSUME IInv, HInv, [Next]_vars PROVE HInv' BY Zenon
    <2>1. CASE Call BY <2>1, HInvCalls, Zenon
    <2>2. CASE Step BY <2>2, HInvSteps, Zenon
    <2>3. CASE UNCHANGED vars BY <2>3, Zenon DEF vars, HInv, StreamSuffixes
    <2> QED BY <2>1, <2>2, <2>3, Zenon DEF Next
  <1>3. HInv => HistoryIsSuffix BY Zenon DEF HInv, StreamSuffixes, Suffix, HistoryIsSuffix
  <1> QED BY <1>1, <1>2, <1>3, Wellformed, PTL DEF Spec

=============================================================================
