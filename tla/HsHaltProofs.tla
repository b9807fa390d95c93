----------------------------- MODULE HsHaltProofs -----------------------------
(* What a callback that asks to stop matching brings about: no callback is   *)
(* made for its stream again, and the stream at rest remembers it.           *)
EXTENDS HsStreamProofs

-----------------------------------------------------------------------------
(* The stages a call has left are an end of the list it started with, or one *)
(* of the early returns.                                                     *)

BlockTodos == {BlockStages, <<"exec", "som", "eod", "comb", "finish">>,
               <<"som", "eod", "comb", "finish">>, EmptyBlockStages,
               <<"comb", "finish">>, <<"finish">>}
ScanTodos == {ScanStages, <<"exec", "som", "store">>, <<"som", "store">>, <<"store">>}
EodTodos == {EodStages, <<"eodExec", "som", "comb", "finish">>,
             <<"som", "comb", "finish">>, <<"comb", "finish">>, <<"finish">>}

TodosOf(op) ==
    CASE op = "block"     -> BlockTodos
      [] op = "scan"      -> ScanTodos
      [] op = "vector"    -> ScanTodos \cup {<<"more">>} \cup EodTodos
      [] op \in EodCalls -> EodTodos
      [] OTHER            -> {}

Shape(f) == f.op \in Calls /\ f.todo \in TodosOf(f.op)

ShapeInv == \A i \in 1 .. Len(stack) : Shape(stack[i])

(* The stages of a block scan in the order hs_scan runs them. *)
LEMMA BlockOrder ==
    ASSUME NEW t \in BlockTodos
    PROVE  /\ Head(t) \in {"zero", "exec", "som", "eod", "comb", "finish"}
           /\ Head(t) \notin LastStages =>
                 /\ Tail(t) \in BlockTodos
                 /\ Head(t) = "zero" => Head(Tail(t)) = "exec"
                 /\ Head(t) = "exec" => Head(Tail(t)) = "som"
                 /\ Head(t) = "som"  => Head(Tail(t)) = "eod"
                 /\ Head(t) = "eod"  => Head(Tail(t)) = "comb"
                 /\ Head(t) = "comb" => Head(Tail(t)) = "finish"
  <1> USE DEF BlockTodos, BlockStages, EmptyBlockStages, LastStages
  <1>1. CASE t = BlockStages BY <1>1
  <1>2. CASE t = <<"exec", "som", "eod", "comb", "finish">> BY <1>2
  <1>3. CASE t = <<"som", "eod", "comb", "finish">> BY <1>3
  <1>4. CASE t = EmptyBlockStages BY <1>4
  <1>5. CASE t = <<"comb", "finish">> BY <1>5
  <1>6. CASE t = <<"finish">> BY <1>6
  <1> QED BY <1>1, <1>2, <1>3, <1>4, <1>5, <1>6, Zenon

(* The stages of one write in the order hs_scan_stream_internal runs them. *)
LEMMA ScanOrder ==
    ASSUME NEW t \in ScanTodos
    PROVE  /\ Head(t) \in {"zero", "exec", "som", "store"}
           /\ Head(t) \notin LastStages =>
                 /\ Tail(t) \in ScanTodos
                 /\ Head(t) = "zero" => Head(Tail(t)) = "exec"
                 /\ Head(t) = "exec" => Head(Tail(t)) = "som"
                 /\ Head(t) = "som"  => Head(Tail(t)) = "store"
  <1> USE DEF ScanTodos, ScanStages, LastStages
  <1>1. CASE t = ScanStages BY <1>1
  <1>2. CASE t = <<"exec", "som", "store">> BY <1>2
  <1>3. CASE t = <<"som", "store">> BY <1>3
  <1>4. CASE t = <<"store">> BY <1>4
  <1> QED BY <1>1, <1>2, <1>3, <1>4, Zenon

(* The stages of the end of a stream in the order report_eod_matches runs    *)
(* them.                                                                     *)
LEMMA EodOrder ==
    ASSUME NEW t \in EodTodos
    PROVE  /\ Head(t) \in {"eod", "eodExec", "som", "comb", "finish"}
           /\ Head(t) \notin LastStages =>
                 /\ Tail(t) \in EodTodos
                 /\ Head(t) = "eod"     => Head(Tail(t)) = "eodExec"
                 /\ Head(t) = "eodExec" => Head(Tail(t)) = "som"
                 /\ Head(t) = "som"     => Head(Tail(t)) = "comb"
                 /\ Head(t) = "comb"    => Head(Tail(t)) = "finish"
  <1> USE DEF EodTodos, EodStages, LastStages
  <1>1. CASE t = EodStages BY <1>1
  <1>2. CASE t = <<"eodExec", "som", "comb", "finish">> BY <1>2
  <1>3. CASE t = <<"som", "comb", "finish">> BY <1>3
  <1>4. CASE t = <<"comb", "finish">> BY <1>4
  <1>5. CASE t = <<"finish">> BY <1>5
  <1> QED BY <1>1, <1>2, <1>3, <1>4, <1>5, Zenon

(* A stage that ends hands over to the next one of its list or returns       *)
(* early: the next stage is one that tests whether matching was stopped,     *)
(* unless the stage that ends was not stopped.                               *)
LEMMA NextStage ==
    ASSUME NEW f, Shape(f), Head(f.todo) \notin LastStages
    PROVE  LET g == Head(f.todo)
               after == StagesAfter(f, g)
               stopped == "TERMINATED" \in core[f.scratch]
           IN  /\ after \in TodosOf(f.op) /\ Head(after) # "more"
               /\ f.op = "block" =>
                     \/ Head(after) \in {"comb", "finish"}
                     \/ Head(after) = "exec" /\ g = "zero" /\ ~f.halt
                     \/ Head(after) \in {"som", "eod"} /\ ~stopped
               /\ f.op # "block" =>
                     \/ Head(after) \in {"som", "comb", "finish", "store"}
                     \/ Head(after) = "exec" /\ g = "zero" /\ ~f.halt
                     \/ Head(after) = "eodExec" /\ g = "eod" /\ ~f.halt
               /\ f.op \in EodCalls /\ ((f.halt /\ g = "eod") \/ g = "comb") =>
                     Head(after) = "finish"
  <1> DEFINE g == Head(f.todo)
             after == StagesAfter(f, g)
             rest == Tail(f.todo)
             status == core[f.scratch]
  <1>1. /\ Head(<<"finish">>) = "finish" /\ Head(<<"store">>) = "store"
        /\ Head(<<"comb", "finish">>) = "comb"
    OBVIOUS
  <1>2. /\ <<"finish">> \in BlockTodos /\ <<"comb", "finish">> \in BlockTodos
        /\ <<"finish">> \in EodTodos /\ <<"store">> \in ScanTodos
    BY Zenon DEF BlockTodos, EodTodos, ScanTodos
  <1>3. CASE f.op = "block"
    <2>1. f.todo \in BlockTodos /\ TodosOf(f.op) = BlockTodos /\ f.op \notin EodCalls
      BY <1>3, Zenon DEF Shape, TodosOf, EodCalls
    <2>2. /\ g \in {"zero", "exec", "som", "eod", "comb"} /\ rest \in BlockTodos
          /\ g = "zero" => Head(rest) = "exec"
          /\ g = "exec" => Head(rest) = "som"
          /\ g = "som"  => Head(rest) = "eod"
          /\ g = "eod"  => Head(rest) = "comb"
          /\ g = "comb" => Head(rest) = "finish"
      BY <2>1, BlockOrder, Zenon DEF LastStages
    <2>3. \/ after = <<"finish">>
          \/ after = <<"comb", "finish">>
          \/ /\ after = rest
             /\ ~(g = "zero" /\ f.halt)
             /\ ~(g \in {"exec", "som"} /\ "TERMINATED" \in status)
      BY <1>3 DEF StagesAfter
    <2> HIDE DEF after, rest, g, status
    <2>4. CASE after # rest BY <1>1, <1>2, <1>3, <2>1, <2>3, <2>4, Zenon DEF after, g, status
    <2>5. CASE after = rest
      <3>1. /\ after \in BlockTodos /\ Head(after) # "more"
            /\ \/ Head(after) \in {"comb", "finish"}
               \/ Head(after) = "exec" /\ g = "zero" /\ ~f.halt
               \/ Head(after) \in {"som", "eod"} /\ "TERMINATED" \notin status
        BY <1>1, <2>2, <2>3, <2>5, Zenon
      <3> QED BY <3>1, <1>3, <2>1, Zenon DEF after, g, status
    <2> QED BY <2>4, <2>5, Zenon
  <1>4. CASE f.op # "block" /\ f.todo \in ScanTodos
    <2>1. ScanTodos \subseteq TodosOf(f.op) /\ f.op \notin EodCalls
      <3>1. f.todo \notin EodTodos \/ Head(f.todo) = "som"
        BY <1>4, ScanOrder, EodOrder, Zenon
      <3>2. f.todo \notin EodTodos
        <4>1. CASE Head(f.todo) = "som"
          <5>1. Head(Tail(f.todo)) = "store" BY <1>4, <4>1, ScanOrder, Zenon DEF LastStages
          <5> QED BY <4>1, <5>1, EodOrder, Zenon DEF LastStages
        <4> QED BY <3>1, <4>1, Zenon
      <3> QED BY <3>2, <1>4, Zenon DEF Shape, TodosOf, EodCalls
    <2>2. /\ g \in {"zero", "exec", "som"} /\ rest \in ScanTodos
          /\ g = "zero" => Head(rest) = "exec"
          /\ g = "exec" => Head(rest) = "som"
          /\ g = "som"  => Head(rest) = "store"
      BY <1>4, ScanOrder, Zenon DEF LastStages
    <2>3. after = <<"store">> \/ (after = rest /\ ~(g = "zero" /\ f.halt))
      BY <1>4, <2>2, Zenon DEF StagesAfter
    <2> HIDE DEF after, rest, g, status
    <2>4. /\ after \in ScanTodos /\ Head(after) # "more"
          /\ \/ Head(after) \in {"som", "comb", "finish", "store"}
             \/ Head(after) = "exec" /\ g = "zero" /\ ~f.halt
      BY <1>1, <1>2, <2>2, <2>3, Zenon
    <2> QED BY <2>4, <1>4, <2>1, Zenon DEF after, g, status
  <1>5. CASE f.op # "block" /\ f.todo \in EodTodos
    <2>1. EodTodos \subseteq TodosOf(f.op)
      <3>1. f.op # "scan"
        <4> SUFFICES ASSUME f.todo \in ScanTodos PROVE FALSE BY <1>5, Zenon DEF Shape, TodosOf, EodCalls
        <4>1. Head(f.todo) = "som" BY <1>5, ScanOrder, EodOrder, Zenon DEF LastStages
        <4>2. Head(Tail(f.todo)) = "store" BY <4>1, ScanOrder, Zenon DEF LastStages
        <4>3. Head(Tail(f.todo)) = "comb" BY <4>1, <1>5, EodOrder, Zenon DEF LastStages
        <4> QED BY <4>2, <4>3, Zenon
      <3> QED BY <3>1, <1>5, Zenon DEF Shape, TodosOf, EodCalls
    <2>2. /\ g \in {"eod", "eodExec", "som", "comb"} /\ rest \in EodTodos
          /\ g = "eod"     => Head(rest) = "eodExec"
          /\ g = "eodExec" => Head(rest) = "som"
          /\ g = "som"     => Head(rest) = "comb"
          /\ g = "comb"    => Head(rest) = "finish"
      BY <1>5, EodOrder, Zenon DEF LastStages
    <2>3. (after = <<"finish">> /\ g = "eod") \/ (after = rest /\ ~(g = "eod" /\ f.halt))
      BY <1>5, <2>2, Zenon DEF StagesAfter
    <2> HIDE DEF after, rest, g, status
    <2>4. /\ after \in EodTodos /\ Head(after) # "more"
          /\ \/ Head(after) \in {"som", "comb", "finish", "store"}
             \/ Head(after) = "eodExec" /\ g = "eod" /\ ~f.halt
          /\ (f.halt /\ g = "eod") \/ g = "comb" => Head(after) = "finish"
      BY <1>1, <1>2, <2>2, <2>3, Zenon
    <2> QED BY <2>4, <1>5, <2>1, Zenon DEF after, g, status
  <1>6. f.todo # <<"more">> BY DEF LastStages
  <1> QED BY <1>3, <1>4, <1>5, <1>6, Zenon DEF Shape, TodosOf, EodCalls

(* A new frame, or a changed one, on top of frames that stay. *)
LEMMA ShapeTop ==
    ASSUME IInv, ShapeInv
    PROVE  /\ Pop /\ stack # <<>> => ShapeInv'
           /\ \A f \in Frames : Shape(f) /\ Push(f) => ShapeInv'
           /\ \A f \in Frames : Shape(f) /\ SetTop(f) /\ stack # <<>> => ShapeInv'
  <1>1. stack \in Seq(Frames) /\ Len(stack) \in Nat BY DEF IInv, TypeOK
  <1>2. ASSUME Pop, stack # <<>> PROVE ShapeInv'
    <2>1. /\ Len(stack') = Len(stack) - 1
          /\ \A i \in 1 .. Len(stack) - 1 : stack'[i] = stack[i]
      BY <1>1, <1>2, PopTop, Zenon DEF Pop, Below
    <2> QED BY <1>1, <2>1 DEF ShapeInv, Shape
  <1>3. ASSUME NEW f \in Frames, Shape(f), Push(f) PROVE ShapeInv'
    <2>1. /\ Len(stack') = Len(stack) + 1 /\ stack'[Len(stack) + 1] = f
          /\ \A i \in 1 .. Len(stack) : stack'[i] = stack[i]
      BY <1>1, <1>3, PushTop DEF Push
    <2> QED BY <1>1, <1>3, <2>1 DEF ShapeInv, Shape
  <1>4. ASSUME NEW f \in Frames, Shape(f), SetTop(f), stack # <<>> PROVE ShapeInv'
    <2>1. /\ Len(stack') = Len(stack) /\ stack'[Len(stack)] = f
          /\ \A i \in 1 .. Len(stack) - 1 : stack'[i] = stack[i]
      BY <1>1, <1>4, ReplaceTop DEF SetTop, Below
    <2> QED BY <1>1, <1>4, <2>1 DEF ShapeInv, Shape
  <1> QED BY <1>2, <1>3, <1>4, Zenon

(* Every call starts with one of the stage lists. *)
LEMMA ShapeCalls ==
    ASSUME IInv, ShapeInv, Call
    PROVE  ShapeInv'
  <1>1. /\ ScanStages \in ScanTodos /\ EodStages \in EodTodos /\ <<"finish">> \in EodTodos
        /\ BlockStages \in BlockTodos /\ EmptyBlockStages \in BlockTodos
    BY Zenon DEF ScanTodos, EodTodos, BlockTodos
  <1>2. ASSUME UNCHANGED stack PROVE ShapeInv' BY <1>2, Zenon DEF ShapeInv, Shape
  <1>3. Streams \subseteq Ids /\ Scratches \subseteq Ids BY Zenon DEF Ids
  <1>4. ASSUME NEW id \in Streams, NEW x \in Scratches, NEW buf \in Chunks,
               hs_scan_stream(id, x, buf)
        PROVE  ShapeInv'
    <2> DEFINE f == Frame("scan", id, NULL, x, buf, ScanStages)
    <2>1. buf \in Seq(Bytes) /\ id \in Ids BY <1>3, ChunksAreSeqs, Zenon
    <2>2. f \in Frames /\ f.op = "scan" /\ f.todo = ScanStages
      BY <2>1, StagesTyped, Zenon DEF AllCalls, Frame, Frames
    <2>3. Push(f) /\ "scan" \in Calls BY <1>4, Zenon DEF hs_scan_stream, MayCall
    <2> HIDE DEF f
    <2>4. Shape(f) BY <1>1, <2>2, <2>3, Zenon DEF Shape, TodosOf, EodCalls
    <2> QED BY <2>2, <2>3, <2>4, ShapeTop, Zenon
  <1>5. ASSUME NEW x \in Scratches, NEW buf \in Chunks, hs_scan(x, buf) PROVE ShapeInv'
    <2> DEFINE todo == IF buf = <<>> THEN EmptyBlockStages ELSE BlockStages
               f == Frame("block", x, NULL, x, buf, todo)
    <2>1. buf \in Seq(Bytes) /\ x \in Ids /\ todo \in Todos /\ todo \in BlockTodos
      BY <1>1, <1>3, ChunksAreSeqs, StagesTyped, Zenon
    <2>2. Push(f) /\ "block" \in Calls BY <1>5, Zenon DEF hs_scan, MayCall
    <2> HIDE DEF todo
    <2>3. f \in Frames /\ f.op = "block" /\ f.todo = todo
      BY <2>1, Zenon DEF AllCalls, Frame, Frames
    <2> HIDE DEF f
    <2>4. Shape(f) BY <2>1, <2>2, <2>3, Zenon DEF Shape, TodosOf, EodCalls
    <2> QED BY <2>2, <2>3, <2>4, ShapeTop, Zenon
  <1>6. ASSUME NEW x \in Scratches, hs_scan_vector(x) PROVE ShapeInv'
    <2> DEFINE f == Frame("vector", x, NULL, x, <<>>, <<"more">>)
    <2>1. x \in Ids /\ <<>> \in Seq(Bytes) BY <1>3
    <2>2. f \in Frames /\ f.op = "vector" /\ f.todo = <<"more">>
      BY <2>1, StagesTyped, Zenon DEF AllCalls, Frame, Frames
    <2>3. Push(f) /\ "vector" \in Calls BY <1>6, Zenon DEF hs_scan_vector, MayCall
    <2> HIDE DEF f
    <2>4. Shape(f) BY <2>2, <2>3, Zenon DEF Shape, TodosOf, EodCalls
    <2> QED BY <2>2, <2>3, <2>4, ShapeTop, Zenon
  <1>7. ASSUME NEW op \in EodCalls, NEW id \in Streams,
               NEW from \in Streams \cup Blobs \cup {NULL},
               NEW x \in Scratches, CallWithEod(op, id, from, x)
        PROVE  ShapeInv'
    <2> DEFINE todo == IF Broken(stream[id].status) THEN <<"finish">> ELSE EodStages
               f == Frame(op, id, from, x, <<>>, todo)
    <2>1. /\ id \in Ids /\ op \in AllCalls /\ <<>> \in Seq(Bytes)
          /\ todo \in Todos /\ todo \in EodTodos
      BY <1>1, <1>3, StagesTyped DEF AllCalls
    <2>2. Push(f) /\ op \in Calls BY <1>7, Zenon DEF CallWithEod, MayCall
    <2> HIDE DEF todo
    <2>3. f \in Frames /\ f.op = op /\ f.todo = todo BY <2>1, Zenon DEF Frame, Frames
    <2> HIDE DEF f
    <2>4. Shape(f) BY <2>1, <2>2, <2>3, Zenon DEF Shape, TodosOf, EodCalls
    <2> QED BY <2>2, <2>3, <2>4, ShapeTop, Zenon
  <1> QED BY <1>2, <1>4, <1>5, <1>6, <1>7, Zenon
          DEF Call, hs_open_stream, hs_compress_stream, CallWithoutEod, CallIntoNew

(* A step of a call keeps to the stage lists. *)
LEMMA ShapeSteps ==
    ASSUME IInv, ShapeInv, Step
    PROVE  ShapeInv'
  <1>1. /\ ScanStages \in ScanTodos /\ EodStages \in EodTodos /\ <<"finish">> \in EodTodos
    BY Zenon DEF ScanTodos, EodTodos
  <1>2. stack # <<>> BY Zenon DEF Step, Report, CallbackContinue, CallbackHalt, Exhaust,
            InternalError, EndStage, Store, VectorBlock, VectorEod, Finish, Working
  <1>3. Top \in Frames /\ FrameOK(Top, stream, blob) /\ Top.todo \in Todos BY <1>2, TopFrame, Zenon
  <1>4. Shape(Top)
    <2>1. Len(stack) \in 1 .. Len(stack) BY <1>2 DEF IInv, TypeOK
    <2> QED BY <2>1, Zenon DEF ShapeInv, Top
  <1>5. ASSUME NEW f \in Frames, SetTop(f), f.op = Top.op, f.todo = Top.todo PROVE ShapeInv'
    <2>1. Shape(f) BY <1>4, <1>5, Zenon DEF Shape
    <2> QED BY <1>2, <1>5, <2>1, ShapeTop, Zenon
  <1>6. CASE Report
    <2> DEFINE f == [Top EXCEPT !.cb = TRUE]
    <2>1. f \in Frames /\ f.op = Top.op /\ f.todo = Top.todo BY <1>3, Zenon DEF Frames
    <2>2. SetTop(f) BY <1>6, Zenon DEF Report
    <2> HIDE DEF f
    <2> QED BY <1>5, <2>1, <2>2, Zenon
  <1>7. CASE CallbackContinue
    <2> DEFINE f == [Top EXCEPT !.cb = FALSE]
    <2>1. f \in Frames /\ f.op = Top.op /\ f.todo = Top.todo BY <1>3, Zenon DEF Frames
    <2>2. SetTop(f) BY <1>7, Zenon DEF CallbackContinue
    <2> HIDE DEF f
    <2> QED BY <1>5, <2>1, <2>2, Zenon
  <1>8. CASE CallbackHalt
    <2> DEFINE f == [Top EXCEPT !.cb = FALSE, !.halt = TRUE]
    <2>1. f \in Frames /\ f.op = Top.op /\ f.todo = Top.todo BY <1>3, Zenon DEF Frames
    <2>2. SetTop(f) BY <1>8, Zenon DEF CallbackHalt
    <2> HIDE DEF f
    <2> QED BY <1>5, <2>1, <2>2, Zenon
  <1>9. CASE Exhaust
    <2> DEFINE f == [Top EXCEPT !.halt = TRUE]
    <2>1. f \in Frames /\ f.op = Top.op /\ f.todo = Top.todo BY <1>3, Zenon DEF Frames
    <2>2. SetTop(f) BY <1>9, Zenon DEF Exhaust
    <2> HIDE DEF f
    <2> QED BY <1>5, <2>1, <2>2, Zenon
  <1>10. CASE InternalError
    <2> DEFINE f == [Top EXCEPT !.halt = TRUE]
    <2>1. f \in Frames /\ f.op = Top.op /\ f.todo = Top.todo BY <1>3, Zenon DEF Frames
    <2>2. SetTop(f) BY <1>10, Zenon DEF InternalError
    <2> HIDE DEF f
    <2> QED BY <1>5, <2>1, <2>2, Zenon
  <1>11. CASE EndStage
    <2> DEFINE todo == StagesAfter(Top, Stage)
               f == [Top EXCEPT !.todo = todo, !.halt = FALSE]
    <2>1. SetTop(f) /\ Stage \notin LastStages BY <1>11, Zenon DEF EndStage
    <2>2. Top.op = "block" => LastStage(Top) = "finish" BY <1>3, Zenon DEF FrameOK
    <2>3. todo \in Todos BY <1>3, <2>1, <2>2, StagesAfterTyped, Zenon DEF Stage, IInv
    <2>4. todo \in TodosOf(Top.op) BY <1>4, <2>1, NextStage, Zenon DEF Stage
    <2> HIDE DEF todo
    <2>5. f \in Frames /\ f.op = Top.op /\ f.todo = todo BY <1>3, <2>3, Zenon DEF Frames
    <2> HIDE DEF f
    <2>6. Shape(f) BY <1>4, <2>4, <2>5, Zenon DEF Shape
    <2> QED BY <1>2, <2>1, <2>5, <2>6, ShapeTop, Zenon
  <1>12. ASSUME Stage = "more" PROVE Top.op = "vector" /\ "vector" \in Calls
    <2>1. Top.todo \notin BlockTodos /\ Top.todo \notin ScanTodos /\ Top.todo \notin EodTodos
      BY <1>12, BlockOrder, ScanOrder, EodOrder, Zenon DEF Stage
    <2> QED BY <1>4, <2>1, Zenon DEF Shape, TodosOf, EodCalls
  <1>13. ASSUME Stage = "store", Top.op # "scan"
         PROVE  Top.op = "vector" /\ "vector" \in Calls
    <2>1. Top.todo \notin BlockTodos /\ Top.todo \notin EodTodos
      BY <1>13, BlockOrder, EodOrder, Zenon DEF Stage
    <2> QED BY <1>4, <1>13, <2>1, Zenon DEF Shape, TodosOf, EodCalls
  <1>14. ASSUME Top.op = "vector", "vector" \in Calls, NEW buf \in Seq(Bytes),
                NEW todo \in Todos, todo \in ScanTodos \cup {<<"more">>} \cup EodTodos,
                SetTop([Top EXCEPT !.buf = buf, !.todo = todo])
         PROVE  ShapeInv'
    <2> DEFINE f == [Top EXCEPT !.buf = buf, !.todo = todo]
    <2>1. f \in Frames /\ f.op = Top.op /\ f.todo = todo BY <1>3, Zenon DEF Frames
    <2>2. SetTop(f) BY <1>14, Zenon
    <2> HIDE DEF f
    <2>3. Shape(f) BY <1>14, <2>1, Zenon DEF Shape, TodosOf, EodCalls
    <2> QED BY <1>2, <2>1, <2>2, <2>3, ShapeTop, Zenon
  <1>15. CASE Store
    <2>1. CASE Pop BY <1>2, <2>1, ShapeTop, Zenon
    <2>2. CASE ~Pop
      <3>1. /\ Stage = "store" /\ Top.op # "scan"
            /\ SetTop([Top EXCEPT !.todo = <<"more">>, !.buf = <<>>])
        BY <1>15, <2>2, Zenon DEF Store
      <3> DEFINE f == [Top EXCEPT !.todo = <<"more">>, !.buf = <<>>]
      <3>2. <<>> \in Seq(Bytes) OBVIOUS
      <3>3. f \in Frames /\ f.op = Top.op /\ f.todo = <<"more">>
        BY <1>3, <3>2, StagesTyped, Zenon DEF Frames
      <3>4. SetTop(f) BY <3>1, Zenon
      <3> HIDE DEF f
      <3>5. Shape(f) BY <1>13, <3>1, <3>3, Zenon DEF Shape, TodosOf, EodCalls
      <3> QED BY <1>2, <3>3, <3>4, <3>5, ShapeTop, Zenon
    <2> QED BY <2>1, <2>2, Zenon
  <1>16. ASSUME NEW buf \in Chunks, VectorBlock(buf) PROVE ShapeInv'
    <2>1. Stage = "more" /\ SetTop([Top EXCEPT !.buf = buf, !.todo = ScanStages])
      BY <1>16, Zenon DEF VectorBlock
    <2> QED BY <1>1, <1>12, <1>14, <2>1, ChunksAreSeqs, StagesTyped, Zenon
  <1>17. ASSUME NEW onEvent \in BOOLEAN, VectorEod(onEvent) PROVE ShapeInv'
    <2>1. Stage = "more" BY <1>17, Zenon DEF VectorEod
    <2>2. PICK todo \in {EodStages, <<"finish">>} : SetTop([Top EXCEPT !.todo = todo])
      BY <1>17, Zenon DEF VectorEod
    <2> DEFINE f == [Top EXCEPT !.todo = todo]
    <2>3. f \in Frames /\ f.op = Top.op /\ f.todo = todo BY <1>3, StagesTyped, Zenon DEF Frames
    <2>4. SetTop(f) BY <2>2, Zenon
    <2> HIDE DEF f
    <2>5. Shape(f) BY <1>1, <1>12, <2>1, <2>3, Zenon DEF Shape, TodosOf, EodCalls
    <2> QED BY <1>2, <2>3, <2>4, <2>5, ShapeTop, Zenon
  <1>18. CASE Finish BY <1>2, <1>18, ShapeTop, Zenon DEF Finish
  <1> QED BY <1>6, <1>7, <1>8, <1>9, <1>10, <1>11, <1>15, <1>16, <1>17, <1>18, Zenon DEF Step

(* Every call in progress has an end of its stage list, or an early return,  *)
(* left to do.                                                               *)
THEOREM StagesInOrder == Spec => []ShapeInv
  <1>1. Init => ShapeInv
    <2> SUFFICES ASSUME Init PROVE ShapeInv BY Zenon
    <2>1. Len(stack) = 0 BY Zenon DEF Init
    <2> QED BY <2>1 DEF ShapeInv
  <1>2. IInv /\ ShapeInv /\ [Next]_vars => ShapeInv'
    <2> SUFFICES ASSUME IInv, ShapeInv, [Next]_vars PROVE ShapeInv' BY Zenon
    <2>1. CASE Call BY <2>1, ShapeCalls, Zenon
    <2>2. CASE Step BY <2>2, ShapeSteps, Zenon
    <2>3. CASE UNCHANGED vars BY <2>3, Zenon DEF vars, ShapeInv, Shape
    <2> QED BY <2>1, <2>2, <2>3, Zenon DEF Next
  <1> QED BY <1>1, <1>2, Wellformed, PTL DEF Spec

-----------------------------------------------------------------------------
(* The inductive invariant about halting. *)

Terminated(status) == "TERMINATED" \in status

(* The stages that are reached after a callback asked to stop: none of them  *)
(* delivers a match, because it is over or tests told_to_stop_matching.      *)
AfterHalt(op, g) == g \in {"comb", "finish", "store"} \/ (g = "som" /\ op # "block")

(* What a frame f knows about halting: c is the status in its scratch, t     *)
(* whether a callback for its stream asked to stop, s the status stored in   *)
(* the stream.  Until the call finishes, the scratch has the truth and the   *)
(* stream, which was not broken when the call began, has yet to be told.  An *)
(* internal error leaves the stream as it is, so the stored status must tell *)
(* the truth then.                                                           *)
HaltOK(f, c, t, s) ==
    LET g == Head(f.todo) IN
    /\ f.cb => ~t /\ g \notin LastStages
    /\ g \notin {"finish", "more"} => (t <=> Terminated(c)) /\ (f.op # "block" => s = {})
    /\ g = "more" => ~t /\ ~Terminated(s)
    /\ t => f.halt \/ AfterHalt(f.op, g)
    /\ f.op \in EodCalls /\ "ERROR" \in c =>
          /\ t <=> Terminated(s)
          /\ ~f.cb
          /\ g = "finish" \/ (f.halt /\ g \in {"eod", "comb"})

FramesHalt(stk, co, to, st) ==
    \A i \in 1 .. Len(stk) :
        HaltOK(stk[i], co[stk[i].scratch], to[stk[i].id], st[stk[i].id].status)

(* The source of a copy is no call's own stream. *)
SourcesApart(stk) ==
    \A i, j \in 1 .. Len(stk) : stk[i].op = "copyTo" => stk[i].from # stk[j].id

(* A stream that no call works on has the truth in its stored status. *)
Remembered(stk, to, st) ==
    \A id \in Streams :
        st[id] # NULL /\ (\A i \in 1 .. Len(stk) : stk[i].id # id)
            => (to[id] <=> Terminated(st[id].status))

HaltInv ==
    /\ FramesHalt(stack, core, told, stream)
    /\ SourcesApart(stack)
    /\ Remembered(stack, told, stream)
    /\ \A b \in Blobs : blob[b] # NULL => (blob[b].told <=> Terminated(blob[b].status))

(* A step that changes the status of one scratch x and one stream id only    *)
(* leaves the other frames as they are.                                      *)
OnlyAt(x, id) ==
    /\ \A y \in Scratches : y # x => core'[y] = core[y]
    /\ \A d \in Ids : d # id => told'[d] = told[d] /\ stream'[d] = stream[d]

(* A call in progress below the one that stops or goes on keeps its status  *)
(* and what its callbacks asked for.                                        *)
LEMMA OthersHalt ==
    ASSUME IInv, HaltInv, NEW x, NEW id, OnlyAt(x, id), NEW i \in 1 .. Len(stack),
           stack[i].scratch # x, stack[i].id # id
    PROVE  HaltOK(stack[i], core'[stack[i].scratch], told'[stack[i].id],
                  stream'[stack[i].id].status)
  <1>1. stack[i] \in Frames BY DEF IInv, TypeOK
  <1>2. stack[i].scratch \in Scratches /\ stack[i].id \in Ids BY <1>1, Zenon DEF Frames
  <1>3. HaltOK(stack[i], core[stack[i].scratch], told[stack[i].id],
               stream[stack[i].id].status)
    BY Zenon DEF HaltInv, FramesHalt
  <1> QED BY <1>2, <1>3, Zenon DEF OnlyAt

(* The frames below the innermost one work on other scratches and streams. *)
LEMMA BelowApart ==
    ASSUME IInv, stack # <<>>, NEW i \in 1 .. Len(stack) - 1
    PROVE  /\ i \in 1 .. Len(stack) /\ Len(stack) \in 1 .. Len(stack)
           /\ stack[i].scratch # Top.scratch /\ stack[i].id # Top.id
  <1>1. stack \in Seq(Frames) /\ Len(stack) \in Nat \ {0} BY DEF IInv, TypeOK
  <1>2. i \in 1 .. Len(stack) /\ Len(stack) \in 1 .. Len(stack) /\ i < Len(stack) BY <1>1
  <1>3. Apart(stack[i], stack[Len(stack)]) BY <1>2, Zenon DEF IInv, StackOK
  <1> QED BY <1>2, <1>3, Zenon DEF Apart, Top

(* A step of the innermost call that does not return. *)
LEMMA HaltSetTop ==
    ASSUME IInv, HaltInv, stack # <<>>, NEW f \in Frames, SetTop(f), SameCall(f, Top),
           OnlyAt(Top.scratch, Top.id), UNCHANGED blob,
           HaltOK(f, core'[Top.scratch], told'[Top.id], stream'[Top.id].status)
    PROVE  HaltInv'
  <1>1. stack \in Seq(Frames) /\ Len(stack) \in Nat \ {0} BY DEF IInv, TypeOK
  <1>2. /\ Len(stack') = Len(stack) /\ stack'[Len(stack)] = f
        /\ \A i \in 1 .. Len(stack) - 1 : stack'[i] = stack[i]
    BY <1>1, ReplaceTop DEF SetTop, Below
  <1>3. \A i \in 1 .. Len(stack) : i = Len(stack) \/ i \in 1 .. Len(stack) - 1 BY <1>1
  <1>4. \A i \in 1 .. Len(stack) :
           /\ stack'[i].op = stack[i].op /\ stack'[i].id = stack[i].id
           /\ stack'[i].from = stack[i].from
    BY <1>2, <1>3, Zenon DEF SameCall, Top
  <1>5. FramesHalt(stack', core', told', stream')
    <2> SUFFICES ASSUME NEW i \in 1 .. Len(stack)
                 PROVE  HaltOK(stack'[i], core'[stack'[i].scratch], told'[stack'[i].id],
                               stream'[stack'[i].id].status)
      BY <1>2, Zenon DEF FramesHalt
    <2>1. CASE i = Len(stack) BY <1>2, <2>1, Zenon DEF SameCall
    <2>2. CASE i \in 1 .. Len(stack) - 1
      <3>1. stack[i].scratch # Top.scratch /\ stack[i].id # Top.id BY <2>2, BelowApart, Zenon
      <3>2. HaltOK(stack[i], core'[stack[i].scratch], told'[stack[i].id],
                   stream'[stack[i].id].status)
        BY <3>1, OthersHalt, Zenon
      <3> QED BY <1>2, <2>2, <3>2, Zenon
    <2> QED BY <1>3, <2>1, <2>2, Zenon
  <1>6. SourcesApart(stack') BY <1>2, <1>4 DEF HaltInv, SourcesApart
  <1>7. Remembered(stack', told', stream')
    <2> SUFFICES ASSUME NEW id \in Streams, stream'[id] # NULL,
                        \A i \in 1 .. Len(stack) : stack'[i].id # id
                 PROVE  told'[id] <=> Terminated(stream'[id].status)
      BY <1>2, Zenon DEF Remembered
    <2>1. \A i \in 1 .. Len(stack) : stack[i].id # id BY <1>4, Zenon
    <2>2. id # Top.id BY <1>1, <2>1 DEF Top
    <2>3. told'[id] = told[id] /\ stream'[id] = stream[id] BY <2>2, Zenon DEF OnlyAt, Ids
    <2> QED BY <2>1, <2>3, Zenon DEF HaltInv, Remembered
  <1> QED BY <1>5, <1>6, <1>7, Zenon DEF HaltInv

(* The innermost call returns. *)
LEMMA HaltPop ==
    ASSUME IInv, HaltInv, stack # <<>>, Pop, OnlyAt(Top.scratch, Top.id), UNCHANGED blob,
           Top.id \in Streams /\ stream'[Top.id] # NULL =>
               (told'[Top.id] <=> Terminated(stream'[Top.id].status))
    PROVE  HaltInv'
  <1>1. stack \in Seq(Frames) /\ Len(stack) \in Nat \ {0} BY DEF IInv, TypeOK
  <1>2. /\ Len(stack') = Len(stack) - 1
        /\ \A i \in 1 .. Len(stack) - 1 : stack'[i] = stack[i]
    BY <1>1, PopTop, Zenon DEF Pop, Below
  <1>3. \A i \in 1 .. Len(stack) - 1 : i \in 1 .. Len(stack) BY <1>1
  <1>4. FramesHalt(stack', core', told', stream')
    <2> SUFFICES ASSUME NEW i \in 1 .. Len(stack) - 1
                 PROVE  HaltOK(stack[i], core'[stack[i].scratch], told'[stack[i].id],
                               stream'[stack[i].id].status)
      BY <1>2, Zenon DEF FramesHalt
    <2>1. stack[i].scratch # Top.scratch /\ stack[i].id # Top.id BY BelowApart, Zenon
    <2> QED BY <1>3, <2>1, OthersHalt, Zenon
  <1>5. SourcesApart(stack') BY <1>2, <1>3 DEF HaltInv, SourcesApart
  <1>6. Remembered(stack', told', stream')
    <2> SUFFICES ASSUME NEW id \in Streams, stream'[id] # NULL,
                        \A i \in 1 .. Len(stack) - 1 : stack[i].id # id
                 PROVE  told'[id] <=> Terminated(stream'[id].status)
      BY <1>2, Zenon DEF Remembered
    <2>1. CASE id = Top.id BY <2>1, Zenon
    <2>2. CASE id # Top.id
      <3>1. \A i \in 1 .. Len(stack) : i = Len(stack) \/ i \in 1 .. Len(stack) - 1 BY <1>1
      <3>2. \A i \in 1 .. Len(stack) : stack[i].id # id BY <2>2, <3>1, Zenon DEF Top
      <3>3. told'[id] = told[id] /\ stream'[id] = stream[id] BY <2>2, Zenon DEF OnlyAt, Ids
      <3> QED BY <3>2, <3>3, Zenon DEF HaltInv, Remembered
    <2> QED BY <2>1, <2>2, Zenon
  <1> QED BY <1>4, <1>5, <1>6, Zenon DEF HaltInv

(* A call starts on a stream that no call in progress was given. *)
LEMMA HaltPush ==
    ASSUME IInv, HaltInv, NEW f \in Frames, Push(f), Free(f.id), ~inUse[f.scratch],
           OnlyAt(f.scratch, f.id), UNCHANGED blob,
           f.op = "copyTo" => Free(f.from) /\ f.from # f.id,
           HaltOK(f, core'[f.scratch], told'[f.id], stream'[f.id].status)
    PROVE  HaltInv'
  <1>1. stack \in Seq(Frames) /\ Len(stack) \in Nat BY DEF IInv, TypeOK
  <1>2. /\ Len(stack') = Len(stack) + 1 /\ stack'[Len(stack) + 1] = f
        /\ \A i \in 1 .. Len(stack) : stack'[i] = stack[i]
    BY <1>1, PushTop DEF Push
  <1>3. \A i \in 1 .. Len(stack) + 1 : i = Len(stack) + 1 \/ i \in 1 .. Len(stack) BY <1>1
  <1>4. \A i \in 1 .. Len(stack) :
           /\ f.id # stack[i].id /\ f.id # stack[i].from
           /\ f.op = "copyTo" => f.from # stack[i].id
    BY <1>1 DEF Free
  <1>5. FramesHalt(stack', core', told', stream')
    <2> SUFFICES ASSUME NEW i \in 1 .. Len(stack) + 1
                 PROVE  HaltOK(stack'[i], core'[stack'[i].scratch], told'[stack'[i].id],
                               stream'[stack'[i].id].status)
      BY <1>2, Zenon DEF FramesHalt
    <2>1. CASE i = Len(stack) + 1 BY <1>2, <2>1, Zenon
    <2>2. CASE i \in 1 .. Len(stack)
      <3>1. f.scratch \in Scratches BY Zenon DEF Frames
      <3>2. stack[i].scratch # f.scratch /\ stack[i].id # f.id
        BY <1>4, <2>2, <3>1, Zenon DEF IInv, Held
      <3>3. HaltOK(stack[i], core'[stack[i].scratch], told'[stack[i].id],
                   stream'[stack[i].id].status)
        BY <2>2, <3>2, OthersHalt, Zenon
      <3> QED BY <1>2, <2>2, <3>3, Zenon
    <2> QED BY <1>3, <2>1, <2>2, Zenon
  <1>6. SourcesApart(stack')
    <2> SUFFICES ASSUME NEW i \in 1 .. Len(stack) + 1, NEW j \in 1 .. Len(stack) + 1,
                        stack'[i].op = "copyTo"
                 PROVE  stack'[i].from # stack'[j].id
      BY <1>2, Zenon DEF SourcesApart
    <2>1. CASE i = Len(stack) + 1 BY <1>2, <1>3, <1>4, <2>1, Zenon
    <2>2. CASE i \in 1 .. Len(stack)
      BY <1>2, <1>3, <1>4, <2>2, Zenon DEF HaltInv, SourcesApart
    <2> QED BY <1>3, <2>1, <2>2, Zenon
  <1>7. Remembered(stack', told', stream')
    <2> SUFFICES ASSUME NEW id \in Streams, stream'[id] # NULL,
                        \A i \in 1 .. Len(stack) + 1 : stack'[i].id # id
                 PROVE  told'[id] <=> Terminated(stream'[id].status)
      BY <1>2, Zenon DEF Remembered
    <2>1. Len(stack) + 1 \in 1 .. Len(stack) + 1
          /\ \A i \in 1 .. Len(stack) : i \in 1 .. Len(stack) + 1
      BY <1>1
    <2>2. id # f.id /\ \A i \in 1 .. Len(stack) : stack[i].id # id BY <1>2, <2>1, Zenon
    <2>3. told'[id] = told[id] /\ stream'[id] = stream[id] BY <2>2, Zenon DEF OnlyAt, Ids
    <2> QED BY <2>2, <2>3, Zenon DEF HaltInv, Remembered
  <1> QED BY <1>5, <1>6, <1>7, Zenon DEF HaltInv

(* A call that returns at once writes a stream that no call in progress was  *)
(* given.                                                                    *)
LEMMA HaltAtomic ==
    ASSUME IInv, HaltInv, NEW id \in Streams, Free(id), UNCHANGED <<core, blob, stack>>,
           \A d \in Ids : d # id => told'[d] = told[d] /\ stream'[d] = stream[d],
           stream'[id] # NULL => (told'[id] <=> Terminated(stream'[id].status))
    PROVE  HaltInv'
  <1>1. stack \in Seq(Frames) BY Zenon DEF IInv, TypeOK
  <1>2. \A i \in 1 .. Len(stack) : stack[i].id # id BY <1>1 DEF Free
  <1>3. FramesHalt(stack', core', told', stream')
    <2> SUFFICES ASSUME NEW i \in 1 .. Len(stack)
                 PROVE  HaltOK(stack[i], core[stack[i].scratch], told'[stack[i].id],
                               stream'[stack[i].id].status)
      BY Zenon DEF FramesHalt
    <2>1. stack[i] \in Frames BY <1>1
    <2>2. /\ told'[stack[i].id] = told[stack[i].id]
          /\ stream'[stack[i].id] = stream[stack[i].id]
      BY <1>2, <2>1, Zenon DEF Frames
    <2>3. HaltOK(stack[i], core[stack[i].scratch], told[stack[i].id],
                 stream[stack[i].id].status)
      BY Zenon DEF HaltInv, FramesHalt
    <2> QED BY <2>2, <2>3, Zenon
  <1>4. SourcesApart(stack') BY Zenon DEF HaltInv, SourcesApart
  <1>5. Remembered(stack', told', stream')
    <2> SUFFICES ASSUME NEW d \in Streams, stream'[d] # NULL, d # id,
                        \A i \in 1 .. Len(stack) : stack[i].id # d
                 PROVE  told'[d] <=> Terminated(stream'[d].status)
      BY Zenon DEF Remembered
    <2>1. told'[d] = told[d] /\ stream'[d] = stream[d] BY Zenon DEF Ids
    <2> QED BY <2>1, Zenon DEF HaltInv, Remembered
  <1> QED BY <1>3, <1>4, <1>5, Zenon DEF HaltInv

(* Close, reset, copy and expand leave a stream whose status tells the truth *)
(* about the stream it now stands for.                                       *)
LEMMA ReplaceHalt ==
    ASSUME TypeOK, HaltInv, NEW op, NEW id \in Streams, NEW from, Replace(op, id, from),
           op \in EodCalls \cup {"copy", "expand"},
           op \in {"copyTo", "copy"} =>
               /\ from \in Streams /\ stream[from] # NULL
               /\ \A i \in 1 .. Len(stack) : stack[i].id # from,
           op \in {"expandTo", "expand"} => from \in Blobs /\ blob[from] # NULL
    PROVE  /\ \A d \in Ids : d # id => told'[d] = told[d] /\ stream'[d] = stream[d]
           /\ stream'[id] # NULL => (told'[id] <=> Terminated(stream'[id].status))
  <1>1. id \in Ids BY Zenon DEF Ids
  <1>2. CASE op = "close"
    <2>1. stream' = [stream EXCEPT ![id] = NULL] /\ told' = [told EXCEPT ![id] = FALSE]
      BY <1>2, Zenon DEF Replace
    <2> QED BY <2>1, <1>1, Zenon DEF TypeOK
  <1>3. CASE op = "reset"
    <2> DEFINE s == init_stream(stream[id].hist)
    <2>1. stream' = [stream EXCEPT ![id] = s] /\ told' = [told EXCEPT ![id] = FALSE]
      BY <1>3, Zenon DEF Replace
    <2>2. s.status = {} BY Zenon DEF init_stream
    <2> HIDE DEF s
    <2> QED BY <2>1, <2>2, <1>1, Zenon DEF TypeOK, Terminated
  <1>4. CASE op \in {"copyTo", "copy"}
    <2>1. /\ stream' = [stream EXCEPT ![id] = stream[from]]
          /\ told' = [told EXCEPT ![id] = told[from]]
      BY <1>4, Zenon DEF Replace
    <2>2. told[from] <=> Terminated(stream[from].status)
      BY <1>4, Zenon DEF HaltInv, Remembered
    <2>3. /\ told'[id] = told[from] /\ stream'[id] = stream[from]
          /\ \A d \in Ids : d # id => told'[d] = told[d] /\ stream'[d] = stream[d]
      BY <2>1, <1>1, Zenon DEF TypeOK
    <2> QED BY <2>2, <2>3, Zenon
  <1>5. CASE op \in {"expandTo", "expand"}
    <2> DEFINE hist == IF op = "expand" THEN Uninitialised ELSE stream[id].hist
               s == expand_stream(blob[from], hist)
    <2>1. /\ stream' = [stream EXCEPT ![id] = s]
          /\ told' = [told EXCEPT ![id] = blob[from].told]
      BY <1>5, Zenon DEF Replace
    <2>2. s.status = blob[from].status BY Zenon DEF expand_stream
    <2>3. blob[from].told <=> Terminated(blob[from].status) BY <1>5, Zenon DEF HaltInv
    <2> HIDE DEF s
    <2>4. /\ told'[id] = blob[from].told /\ stream'[id] = s
          /\ \A d \in Ids : d # id => told'[d] = told[d] /\ stream'[d] = stream[d]
      BY <2>1, <1>1, Zenon DEF TypeOK
    <2> QED BY <2>2, <2>3, <2>4, Zenon
  <1> QED BY <1>2, <1>3, <1>4, <1>5, Zenon DEF EodCalls

(* Starting a call. *)
LEMMA HaltCalls ==
    ASSUME IInv, HaltInv, Call
    PROVE  HaltInv'
  <1>1. TypeOK BY Zenon DEF IInv
  <1>2. Streams \subseteq Ids /\ Scratches \subseteq Ids BY Zenon DEF Ids
  <1>3. /\ Head(ScanStages) = "zero" /\ Head(EodStages) = "eod"
        /\ Head(BlockStages) = "zero" /\ Head(EmptyBlockStages) = "eod"
        /\ Head(<<"more">>) = "more" /\ Head(<<"finish">>) = "finish"
    <2>1. Head(ScanStages) = "zero" BY DEF ScanStages
    <2>2. Head(EodStages) = "eod" BY DEF EodStages
    <2>3. Head(BlockStages) = "zero" BY DEF BlockStages
    <2>4. Head(EmptyBlockStages) = "eod" BY DEF EmptyBlockStages
    <2>5. Head(<<"more">>) = "more" /\ Head(<<"finish">>) = "finish" BY SMTT(30)
    <2> QED BY <2>1, <2>2, <2>3, <2>4, <2>5, Zenon
  <1>4. ASSUME NEW id \in Streams, Open(id)
        PROVE  told[id] <=> Terminated(stream[id].status)
    <2>1. \A i \in 1 .. Len(stack) : stack[i].id # id BY <1>1, <1>4 DEF Open, Free, TypeOK
    <2> QED BY <1>4, <2>1, Zenon DEF Open, HaltInv, Remembered
  <1>5. ASSUME NEW id \in Streams, hs_open_stream(id) PROVE HaltInv'
    <2> DEFINE s == init_stream(Uninitialised)
    <2>1. /\ Free(id) /\ UNCHANGED <<core, blob, stack>> /\ id \in Ids
          /\ stream' = [stream EXCEPT ![id] = s] /\ told' = [told EXCEPT ![id] = FALSE]
      BY <1>2, <1>5, Zenon DEF hs_open_stream
    <2>2. s.status = {} BY Zenon DEF init_stream
    <2> HIDE DEF s
    <2>3. /\ told'[id] = FALSE /\ stream'[id] = s
          /\ \A d \in Ids : d # id => told'[d] = told[d] /\ stream'[d] = stream[d]
      BY <1>1, <2>1, Zenon DEF TypeOK
    <2>4. told'[id] <=> Terminated(stream'[id].status) BY <2>2, <2>3, Zenon DEF Terminated
    <2> QED BY <2>1, <2>3, <2>4, HaltAtomic, ZenonT(30)
  <1>6. ASSUME NEW id \in Streams, NEW x \in Scratches, NEW buf \in Chunks,
               hs_scan_stream(id, x, buf)
        PROVE  HaltInv'
    <2> DEFINE f == Frame("scan", id, NULL, x, buf, ScanStages)
    <2>1. buf \in Seq(Bytes) /\ id \in Ids BY <1>2, ChunksAreSeqs, Zenon
    <2>2. /\ f \in Frames /\ f.id = id /\ f.scratch = x /\ f.op = "scan"
          /\ f.todo = ScanStages /\ f.cb = FALSE
      BY <2>1, StagesTyped, Zenon DEF AllCalls, Frame, Frames
    <2>3. /\ Push(f) /\ Free(id) /\ Open(id) /\ ~inUse[x] /\ stream[id].status = {}
          /\ core' = [core EXCEPT ![x] = stream[id].status]
          /\ UNCHANGED <<stream, blob, told>>
      BY <1>6, Zenon DEF hs_scan_stream, Open, markScratchInUse, populateCoreInfo, Broken
    <2>4. OnlyAt(x, id) /\ core'[x] = {} BY <1>1, <2>3, Zenon DEF OnlyAt, TypeOK
    <2>5. ~told[id] BY <1>4, <2>3, Zenon DEF Terminated
    <2> HIDE DEF f
    <2>6. HaltOK(f, core'[x], told'[id], stream'[id].status)
      BY <1>3, <2>2, <2>3, <2>4, <2>5, Zenon DEF HaltOK, Terminated, EodCalls
    <2> QED BY <2>2, <2>3, <2>4, <2>6, HaltPush, Zenon
  <1>7. ASSUME NEW x \in Scratches, NEW buf \in Chunks, hs_scan(x, buf) PROVE HaltInv'
    <2> DEFINE todo == IF buf = <<>> THEN EmptyBlockStages ELSE BlockStages
               f == Frame("block", x, NULL, x, buf, todo)
    <2>1. buf \in Seq(Bytes) /\ x \in Ids /\ todo \in Todos /\ Head(todo) \in {"eod", "zero"}
      BY <1>2, <1>3, ChunksAreSeqs, StagesTyped, Zenon
    <2>2. /\ Push(f) /\ Free(x) /\ ~inUse[x] /\ core' = [core EXCEPT ![x] = {}]
          /\ told' = [told EXCEPT ![x] = FALSE] /\ UNCHANGED <<stream, blob>>
      BY <1>7, UnusedScratchIsFree, Zenon DEF hs_scan, markScratchInUse, populateCoreInfo
    <2> HIDE DEF todo
    <2>3. /\ f \in Frames /\ f.id = x /\ f.scratch = x /\ f.op = "block"
          /\ f.todo = todo /\ f.cb = FALSE
      BY <2>1, Zenon DEF AllCalls, Frame, Frames
    <2>4. OnlyAt(x, x) /\ core'[x] = {} /\ told'[x] = FALSE
      BY <1>1, <2>1, <2>2, Zenon DEF OnlyAt, TypeOK
    <2> HIDE DEF f
    <2>5. HaltOK(f, core'[x], told'[x], stream'[x].status)
      BY <2>1, <2>3, <2>4, Zenon DEF HaltOK, Terminated, EodCalls
    <2> QED BY <2>2, <2>3, <2>4, <2>5, HaltPush, Zenon
  <1>8. ASSUME NEW x \in Scratches, hs_scan_vector(x) PROVE HaltInv'
    <2> DEFINE f == Frame("vector", x, NULL, x, <<>>, <<"more">>)
               s == init_stream(Uninitialised)
    <2>1. x \in Ids /\ <<>> \in Seq(Bytes) BY <1>2
    <2>2. /\ f \in Frames /\ f.id = x /\ f.scratch = x /\ f.op = "vector"
          /\ f.todo = <<"more">> /\ f.cb = FALSE
      BY <2>1, StagesTyped, Zenon DEF AllCalls, Frame, Frames
    <2>3. /\ Push(f) /\ Free(x) /\ ~inUse[x] /\ stream' = [stream EXCEPT ![x] = s]
          /\ told' = [told EXCEPT ![x] = FALSE] /\ UNCHANGED <<core, blob>>
      BY <1>8, UnusedScratchIsFree, Zenon DEF hs_scan_vector, markScratchInUse
    <2>4. s.status = {} BY Zenon DEF init_stream
    <2> HIDE DEF f, s
    <2>5. OnlyAt(x, x) /\ stream'[x] = s /\ told'[x] = FALSE
      BY <1>1, <2>1, <2>3, Zenon DEF OnlyAt, TypeOK
    <2>6. HaltOK(f, core'[x], told'[x], stream'[x].status)
      BY <1>3, <2>2, <2>4, <2>5, Zenon DEF HaltOK, Terminated, EodCalls
    <2> QED BY <2>2, <2>3, <2>5, <2>6, HaltPush, Zenon
  <1>9. ASSUME NEW id \in Streams, NEW b \in Blobs, hs_compress_stream(id, b) PROVE HaltInv'
    <2> DEFINE c == compress_stream(id)
    <2>1. /\ blob' = [blob EXCEPT ![b] = c] /\ Open(id)
          /\ UNCHANGED <<stream, core, stack, told>>
      BY <1>9, Zenon DEF hs_compress_stream
    <2>2. c.told = told[id] /\ c.status = stream[id].status BY Zenon DEF compress_stream
    <2>3. c.told <=> Terminated(c.status) BY <1>4, <2>1, <2>2, Zenon
    <2> HIDE DEF c
    <2>4. \A e \in Blobs : blob'[e] # NULL => (blob'[e].told <=> Terminated(blob'[e].status))
      BY <1>1, <2>1, <2>3, Zenon DEF HaltInv, TypeOK
    <2> QED BY <2>1, <2>4, Zenon DEF HaltInv, FramesHalt, SourcesApart, Remembered
  <1>10. ASSUME NEW op \in EodCalls, NEW id \in Streams,
                NEW from \in Streams \cup Blobs \cup {NULL}, Source(op, id, from),
                NEW x \in Scratches, CallWithEod(op, id, from, x)
         PROVE  HaltInv'
    <2> DEFINE broken == Broken(stream[id].status)
               todo == IF broken THEN <<"finish">> ELSE EodStages
               f == Frame(op, id, from, x, <<>>, todo)
    <2>1. id \in Ids /\ op \in AllCalls /\ todo \in Todos /\ <<>> \in Seq(Bytes)
      BY <1>2, StagesTyped DEF AllCalls
    <2>2. /\ Push(f) /\ Free(id) /\ Open(id) /\ ~inUse[x]
          /\ broken => UNCHANGED core
          /\ ~broken => core' = [core EXCEPT ![x] = stream[id].status]
          /\ UNCHANGED <<stream, blob, told>>
      BY <1>10, Zenon DEF CallWithEod, Open, markScratchInUse, populateCoreInfo
    <2>3. Head(todo) = IF broken THEN "finish" ELSE "eod" BY <1>3, Zenon
    <2>4. ~broken => stream[id].status = {} BY Zenon DEF Broken
    <2> HIDE DEF todo, broken
    <2>5. /\ f \in Frames /\ f.id = id /\ f.scratch = x /\ f.op = op /\ f.from = from
          /\ f.todo = todo /\ f.cb = FALSE
      BY <2>1, Zenon DEF Frame, Frames
    <2>6. OnlyAt(x, id) /\ (~broken => core'[x] = {})
      BY <1>1, <2>2, <2>4, Zenon DEF OnlyAt, TypeOK
    <2>7. told[id] <=> Terminated(stream[id].status) BY <1>4, <2>2, Zenon
    <2>8. f.op = "copyTo" => Free(f.from) /\ f.from # f.id
      BY <1>10, <2>5, Zenon DEF Source, Open
    <2> HIDE DEF f
    <2>9. HaltOK(f, core'[x], told'[id], stream'[id].status)
      <3>1. CASE broken
        BY <2>2, <2>3, <2>5, <2>7, <3>1, Zenon DEF HaltOK, AfterHalt
      <3>2. CASE ~broken
        BY <2>2, <2>3, <2>4, <2>5, <2>6, <2>7, <3>2, Zenon DEF HaltOK, Terminated, EodCalls
      <3> QED BY <3>1, <3>2, Zenon
    <2> QED BY <2>2, <2>5, <2>6, <2>8, <2>9, HaltPush, Zenon
  <1>11. ASSUME NEW op \in EodCalls \cup {"copy", "expand"}, NEW id \in Streams,
                NEW from, Source(op, id, from), Free(id), Replace(op, id, from),
                UNCHANGED <<core, blob, stack>>
         PROVE  HaltInv'
    <2>1. /\ op \in {"copyTo", "copy"} =>
               /\ from \in Streams /\ stream[from] # NULL
               /\ \A i \in 1 .. Len(stack) : stack[i].id # from
          /\ op \in {"expandTo", "expand"} => from \in Blobs /\ blob[from] # NULL
      BY <1>1, <1>11 DEF Source, Open, Free, TypeOK
    <2>2. /\ \A d \in Ids : d # id => told'[d] = told[d] /\ stream'[d] = stream[d]
          /\ stream'[id] # NULL => (told'[id] <=> Terminated(stream'[id].status))
      BY <1>1, <1>11, <2>1, ReplaceHalt, Zenon
    <2> QED BY <1>11, <2>2, HaltAtomic, Zenon
  <1>12. ASSUME NEW op \in EodCalls, NEW id \in Streams,
                NEW from \in Streams \cup Blobs \cup {NULL}, Source(op, id, from),
                CallWithoutEod(op, id, from)
         PROVE  HaltInv'
    BY <1>11, <1>12, Zenon DEF CallWithoutEod, Open
  <1>13. ASSUME NEW op \in {"copy", "expand"}, NEW id \in Streams,
                NEW from \in Streams \cup Blobs, Source(op, id, from),
                CallIntoNew(op, id, from)
         PROVE  HaltInv'
    BY <1>11, <1>13, Zenon DEF CallIntoNew
  <1> QED BY <1>5, <1>6, <1>7, <1>8, <1>9, <1>10, <1>12, <1>13, Zenon DEF Call

(* An internal error is not raised by the engines that run at the end of a   *)
(* stream: its call would return without storing the status, and a later     *)
(* stage of that call may still have asked the user to stop.                 *)
ErrorsStopTheCall == "ERROR" \notin EngineEvents \/ "eodExec" \notin Programs

(* Block scans flush logical combinations whatever the callback returned. *)
CombsOnlyInStreams == "comb" \notin Programs \/ "block" \notin Calls

(* A stage that runs and was not stopped works for a stream whose callback   *)
(* has not asked to stop.                                                    *)
LEMMA RunsUntold ==
    ASSUME CombsOnlyInStreams, NEW f, NEW t, NEW s, Shape(f),
           HaltOK(f, core[f.scratch], t, s), StageRuns(f, Head(f.todo)), ~f.halt
    PROVE  /\ ~t /\ Head(f.todo) \notin LastStages
           /\ Head(f.todo) \in {"zero", "exec", "som", "eod", "eodExec", "comb"}
           /\ Head(f.todo) = "eodExec" => "eodExec" \in Programs
  <1> DEFINE g == Head(f.todo)
  <1>1. /\ g \in {"zero", "exec", "som", "eod", "eodExec", "comb"}
        /\ g = "som" => "TERMINATED" \notin core[f.scratch]
        /\ g = "comb" => "comb" \in Programs
                         /\ (f.op = "block" \/ "TERMINATED" \notin core[f.scratch])
        /\ g = "eodExec" => "eodExec" \in Programs
    BY Zenon DEF StageRuns
  <1>2. g \notin LastStages BY <1>1, Zenon DEF LastStages
  <1>3. /\ t <=> "TERMINATED" \in core[f.scratch]
        /\ t => f.halt \/ AfterHalt(f.op, g)
    BY <1>1, Zenon DEF HaltOK, Terminated
  <1>4. ASSUME t PROVE FALSE
    <2>1. g \in {"som", "comb"} BY <1>1, <1>3, <1>4, Zenon DEF AfterHalt
    <2>2. g = "comb" /\ "comb" \in Programs /\ f.op = "block" BY <1>1, <1>3, <1>4, <2>1, Zenon
    <2> QED BY <2>2, Zenon DEF CombsOnlyInStreams, Shape
  <1> QED BY <1>1, <1>2, <1>4, Zenon

(* The stages of the calls that end a stream. *)
LEMMA EodCallStages ==
    ASSUME NEW f, Shape(f), f.op \in EodCalls
    PROVE  f.todo \in EodTodos
  BY Zenon DEF Shape, TodosOf, EodCalls

(* The end of hs_scan_stream_internal stores the status of the scratch,      *)
(* whether the write went through or was stopped.                            *)
LEMMA StoredStatus ==
    ASSUME TypeOK, NEW id \in Ids, stream[id] # NULL, NEW status, NEW buf,
           StoreStream(id, status, buf)
    PROVE  \E s : stream' = [stream EXCEPT ![id] = s] /\ s.status = status
  <1> DEFINE u == stream[id]
  <1>1. u \in StreamState BY Zenon DEF TypeOK
  <1>2. CASE Broken(status)
    <2>1. stream' = [stream EXCEPT ![id] = [u EXCEPT !.status = status]]
      BY <1>2, Zenon DEF StoreStream
    <2>2. [u EXCEPT !.status = status].status = status BY <1>1, Zenon DEF StreamState
    <2> HIDE DEF u
    <2> QED BY <2>1, <2>2, Zenon
  <1>3. CASE ~Broken(status)
    <2> DEFINE new == [offset |-> u.offset + Len(buf), status |-> status,
                       hist |-> maintainHistoryBuffer(u.hist, buf)]
    <2>1. stream' = [stream EXCEPT ![id] = new] BY <1>3, Zenon DEF StoreStream, TypeOK
    <2>2. new.status = status BY Zenon
    <2> HIDE DEF new
    <2> QED BY <2>1, <2>2, Zenon
  <1> QED BY <1>2, <1>3, Zenon

(* The steps of a call in progress. *)
LEMMA HaltSteps ==
    ASSUME ErrorsStopTheCall, CombsOnlyInStreams, IInv, ShapeInv, HaltInv, Step
    PROVE  HaltInv'
  <1> DEFINE c == core[Top.scratch]
             t == told[Top.id]
             s == stream[Top.id].status
  <1>1. TypeOK BY Zenon DEF IInv
  <1>2. stack # <<>> BY Zenon DEF Step, Report, CallbackContinue, CallbackHalt, Exhaust,
            InternalError, EndStage, Store, VectorBlock, VectorEod, Finish, Working
  <1>3. /\ Top \in Frames /\ FrameOK(Top, stream, blob) /\ Top.todo \in Todos
        /\ Top.scratch \in Scratches /\ Top.id \in Ids
    BY <1>2, TopFrame, Zenon
  <1>4. Shape(Top) /\ HaltOK(Top, c, t, s)
    <2>1. Len(stack) \in 1 .. Len(stack) BY <1>1, <1>2 DEF TypeOK
    <2> QED BY <2>1, Zenon DEF ShapeInv, HaltInv, FramesHalt, Top
  <1>5. ASSUME NEW f \in Frames, SetTop(f), SameCall(f, Top),
               UNCHANGED <<stream, core, told, blob>>, HaltOK(f, c, t, s)
        PROVE  HaltInv'
    <2>1. OnlyAt(Top.scratch, Top.id) BY <1>5, Zenon DEF OnlyAt
    <2> QED BY <1>2, <1>5, <2>1, HaltSetTop, Zenon
  <1>6. CASE Report
    <2> DEFINE f == [Top EXCEPT !.cb = TRUE]
    <2>1. /\ SetTop(f) /\ UNCHANGED <<stream, core, told, blob>>
          /\ StageRuns(Top, Head(Top.todo)) /\ ~Top.halt
      BY <1>6, Zenon DEF Report, Stage
    <2>2. ~t /\ Head(Top.todo) \notin LastStages BY <1>4, <2>1, RunsUntold, Zenon
    <2>3. /\ f \in Frames /\ SameCall(f, Top) /\ f.op = Top.op /\ f.todo = Top.todo
          /\ f.halt = Top.halt
      BY <1>3, Zenon DEF Frames, SameCall
    <2>4. ~(Top.op \in EodCalls /\ "ERROR" \in c)
      BY <1>4, <2>1, <2>2, Zenon DEF HaltOK, LastStages
    <2> HIDE DEF f, c, t, s
    <2>5. HaltOK(f, c, t, s) BY <1>4, <2>2, <2>3, <2>4, Zenon DEF HaltOK
    <2> QED BY <1>5, <2>1, <2>3, <2>5, Zenon
  <1>7. CASE CallbackContinue
    <2> DEFINE f == [Top EXCEPT !.cb = FALSE]
    <2>1. SetTop(f) /\ UNCHANGED <<stream, core, told, blob>> BY <1>7, Zenon DEF CallbackContinue
    <2>2. /\ f \in Frames /\ SameCall(f, Top) /\ f.op = Top.op /\ f.todo = Top.todo
          /\ f.halt = Top.halt /\ f.cb = FALSE
      BY <1>3, Zenon DEF Frames, SameCall
    <2> HIDE DEF f, c, t, s
    <2>3. HaltOK(f, c, t, s) BY <1>4, <2>2, Zenon DEF HaltOK
    <2> QED BY <1>5, <2>1, <2>2, <2>3, Zenon
  <1>8. CASE CallbackHalt
    <2> DEFINE f == [Top EXCEPT !.cb = FALSE, !.halt = TRUE]
    <2>1. /\ SetTop(f) /\ Top.cb /\ UNCHANGED <<stream, blob>>
          /\ core' = [core EXCEPT ![Top.scratch] = c \cup {"TERMINATED"}]
          /\ told' = [told EXCEPT ![Top.id] = TRUE]
      BY <1>8, Zenon DEF CallbackHalt
    <2>2. /\ f \in Frames /\ SameCall(f, Top) /\ f.op = Top.op /\ f.todo = Top.todo
          /\ f.halt = TRUE /\ f.cb = FALSE
      BY <1>3, Zenon DEF Frames, SameCall
    <2>3. /\ OnlyAt(Top.scratch, Top.id)
          /\ core'[Top.scratch] = c \cup {"TERMINATED"} /\ told'[Top.id] = TRUE
      BY <1>1, <1>3, <2>1, Zenon DEF OnlyAt, TypeOK
    <2> HIDE DEF f, c, t, s
    <2>4. HaltOK(f, c \cup {"TERMINATED"}, TRUE, s)
      <3>1. Head(Top.todo) \notin LastStages /\ ~(Top.op \in EodCalls /\ "ERROR" \in c)
        BY <1>4, <2>1, Zenon DEF HaltOK
      <3>2. Terminated(c \cup {"TERMINATED"}) BY Zenon DEF Terminated
      <3>3. "ERROR" \in c \cup {"TERMINATED"} => "ERROR" \in c BY Zenon
      <3> QED BY <1>4, <2>2, <3>1, <3>2, <3>3, Zenon DEF HaltOK, LastStages
    <2> QED BY <1>2, <2>1, <2>2, <2>3, <2>4, HaltSetTop, Zenon DEF s
  <1>9. CASE Exhaust
    <2> DEFINE f == [Top EXCEPT !.halt = TRUE]
    <2>1. /\ SetTop(f) /\ ~Top.cb /\ ~Top.halt /\ StageRuns(Top, Head(Top.todo))
          /\ core' = [core EXCEPT ![Top.scratch] = c \cup {"EXHAUSTED"}]
          /\ UNCHANGED <<stream, blob, told>>
      BY <1>9, Zenon DEF Exhaust, Working, Stage
    <2>2. /\ f \in Frames /\ SameCall(f, Top) /\ f.op = Top.op /\ f.todo = Top.todo
          /\ f.halt = TRUE /\ f.cb = Top.cb
      BY <1>3, Zenon DEF Frames, SameCall
    <2>3. OnlyAt(Top.scratch, Top.id) /\ core'[Top.scratch] = c \cup {"EXHAUSTED"}
      BY <1>1, <1>3, <2>1, Zenon DEF OnlyAt, TypeOK
    <2>4. ~t /\ Head(Top.todo) \notin LastStages BY <1>4, <2>1, RunsUntold, Zenon
    <2> HIDE DEF f, c, t, s
    <2>5. HaltOK(f, c \cup {"EXHAUSTED"}, t, s)
      <3>1. Terminated(c \cup {"EXHAUSTED"}) <=> Terminated(c) BY Zenon DEF Terminated
      <3>2. "ERROR" \in c \cup {"EXHAUSTED"} => "ERROR" \in c BY Zenon
      <3>3. ~(Top.op \in EodCalls /\ "ERROR" \in c)
        BY <1>4, <2>1, <2>4, Zenon DEF HaltOK, LastStages
      <3> QED BY <1>4, <2>1, <2>2, <2>4, <3>1, <3>2, <3>3, Zenon DEF HaltOK
    <2> QED BY <1>2, <2>1, <2>2, <2>3, <2>5, HaltSetTop, Zenon DEF s, t
  <1>10. CASE InternalError
    <2> DEFINE f == [Top EXCEPT !.halt = TRUE]
    <2>1. /\ SetTop(f) /\ ~Top.cb /\ ~Top.halt /\ StageRuns(Top, Head(Top.todo))
          /\ core' = [core EXCEPT ![Top.scratch] = c \cup {"ERROR"}]
          /\ "ERROR" \in EngineEvents /\ Head(Top.todo) # "som"
          /\ UNCHANGED <<stream, blob, told>>
      BY <1>10, Zenon DEF InternalError, Working, Stage
    <2>2. /\ f \in Frames /\ SameCall(f, Top) /\ f.op = Top.op /\ f.todo = Top.todo
          /\ f.halt = TRUE /\ f.cb = Top.cb
      BY <1>3, ZenonT(30) DEF Frames, SameCall
    <2>3. OnlyAt(Top.scratch, Top.id) /\ core'[Top.scratch] = c \cup {"ERROR"}
      BY <1>1, <1>3, <2>1, Zenon DEF OnlyAt, TypeOK
    <2>4. /\ ~t /\ Head(Top.todo) \notin LastStages
          /\ Head(Top.todo) = "eodExec" => "eodExec" \in Programs
      BY <1>4, <2>1, RunsUntold, Zenon
    <2>5. Top.op \in EodCalls => Head(Top.todo) \in {"eod", "comb"}
      BY <1>4, <2>1, <2>4, EodCallStages, EodOrder, Zenon DEF ErrorsStopTheCall, LastStages
    <2> HIDE DEF f, c, t, s
    <2>6. HaltOK(f, c \cup {"ERROR"}, t, s)
      <3>1. Terminated(c \cup {"ERROR"}) <=> Terminated(c) BY Zenon DEF Terminated
      <3>2. Top.op \in EodCalls => s = {}
        BY <1>4, <2>4, Zenon DEF HaltOK, LastStages, EodCalls
      <3>3. Top.op \in EodCalls => (t <=> Terminated(s)) BY <2>4, <3>2, Zenon DEF Terminated
      <3> QED BY <1>4, <2>1, <2>2, <2>4, <2>5, <3>1, <3>3 DEF HaltOK
    <2> QED BY <1>2, <2>1, <2>2, <2>3, <2>6, HaltSetTop, Zenon DEF s, t
  <1>11. CASE EndStage
    <2> DEFINE todo == StagesAfter(Top, Head(Top.todo))
               f == [Top EXCEPT !.todo = todo, !.halt = FALSE]
    <2>1. /\ SetTop(f) /\ ~Top.cb /\ Head(Top.todo) \notin LastStages
          /\ UNCHANGED <<stream, core, told, blob>>
      BY <1>11, Zenon DEF EndStage, Working, Stage
    <2>2. Top.op = "block" => LastStage(Top) = "finish" BY <1>3, Zenon DEF FrameOK
    <2>3. todo \in Todos BY <1>1, <1>3, <2>1, <2>2, StagesAfterTyped, Zenon
    <2>4. /\ Head(todo) # "more"
          /\ Top.op = "block" =>
                \/ Head(todo) \in {"comb", "finish"}
                \/ Head(todo) = "exec" /\ Head(Top.todo) = "zero" /\ ~Top.halt
                \/ Head(todo) \in {"som", "eod"} /\ ~Terminated(c)
          /\ Top.op # "block" =>
                \/ Head(todo) \in {"som", "comb", "finish", "store"}
                \/ Head(todo) = "exec" /\ Head(Top.todo) = "zero" /\ ~Top.halt
                \/ Head(todo) = "eodExec" /\ Head(Top.todo) = "eod" /\ ~Top.halt
          /\ Top.op \in EodCalls
                /\ ((Top.halt /\ Head(Top.todo) = "eod") \/ Head(Top.todo) = "comb") =>
                Head(todo) = "finish"
      BY <1>4, <2>1, NextStage, Zenon DEF Terminated
    <2> HIDE DEF todo
    <2>5. /\ f \in Frames /\ SameCall(f, Top) /\ f.op = Top.op /\ f.todo = todo
          /\ f.halt = FALSE /\ f.cb = Top.cb
      BY <1>3, <2>3, ZenonT(30) DEF Frames, SameCall
    <2>6. /\ t <=> Terminated(c)
          /\ Top.op # "block" => s = {}
          /\ t => Top.halt \/ AfterHalt(Top.op, Head(Top.todo))
      BY <1>4, <2>1, Zenon DEF HaltOK, LastStages
    <2> HIDE DEF f, c, t, s
    <2>7. t => AfterHalt(Top.op, Head(todo))
      BY <2>4, <2>6, Zenon DEF AfterHalt
    <2>8. Top.op \in EodCalls /\ "ERROR" \in c =>
             (t <=> Terminated(s)) /\ Head(todo) = "finish"
      BY <1>4, <2>1, <2>4, Zenon DEF HaltOK, LastStages
    <2>9. HaltOK(f, c, t, s) BY <2>1, <2>4, <2>5, <2>6, <2>7, <2>8, Zenon DEF HaltOK
    <2> QED BY <1>5, <2>1, <2>5, <2>9, Zenon
  <1>12. ASSUME Stage \in {"store", "more"}
         PROVE  Top.op \notin EodCalls /\ Top.op # "block" /\ stream[Top.id] # NULL
    <2>1. Top.todo \notin BlockTodos /\ Top.todo \notin EodTodos
      BY <1>12, BlockOrder, EodOrder, Zenon DEF Stage
    <2>2. Top.op \notin EodCalls /\ Top.op # "block"
      BY <1>4, <2>1, EodCallStages, Zenon DEF Shape, TodosOf, EodCalls
    <2> QED BY <1>3, <2>2, Zenon DEF FrameOK
  <1>13. CASE Store
    <2>1. /\ Head(Top.todo) = "store" /\ ~Top.cb /\ UNCHANGED <<core, blob, told>>
          /\ StoreStream(Top.id, c, Top.buf)
          /\ IF Top.op = "scan" \/ {"TERMINATED", "ERROR"} \cap c # {}
             THEN Pop
             ELSE SetTop([Top EXCEPT !.todo = <<"more">>, !.buf = <<>>])
      BY <1>13, Zenon DEF Store, Working, Stage
    <2>2. Top.op \notin EodCalls /\ Top.op # "block" /\ stream[Top.id] # NULL
      BY <1>12, <2>1, Zenon DEF Stage
    <2>4. stream'[Top.id].status = c /\ \A d \in Ids : d # Top.id => stream'[d] = stream[d]
      <3> HIDE DEF c
      <3>1. PICK u : stream' = [stream EXCEPT ![Top.id] = u] /\ u.status = c
        BY <1>1, <1>3, <2>1, <2>2, StoredStatus, Zenon
      <3> QED BY <1>1, <1>3, <3>1, Zenon DEF TypeOK
    <2>5. OnlyAt(Top.scratch, Top.id) BY <2>1, <2>4, Zenon DEF OnlyAt
    <2>6. t <=> Terminated(c) BY <1>4, <2>1, Zenon DEF HaltOK
    <2>7. CASE Pop BY <1>2, <2>1, <2>4, <2>5, <2>6, <2>7, HaltPop, Zenon
    <2>8. CASE ~Pop
      <3> DEFINE f == [Top EXCEPT !.todo = <<"more">>, !.buf = <<>>]
      <3>1. SetTop(f) /\ {"TERMINATED", "ERROR"} \cap c = {} BY <2>1, <2>8, Zenon
      <3>2. <<>> \in Seq(Bytes) OBVIOUS
      <3>3. /\ f \in Frames /\ SameCall(f, Top) /\ f.op = Top.op /\ f.todo = <<"more">>
            /\ f.cb = Top.cb
        BY <1>3, <3>2, StagesTyped, Zenon DEF Frames, SameCall
      <3>4. Head(<<"more">>) = "more" OBVIOUS
      <3> HIDE DEF f, c, t, s
      <3>5. ~Terminated(c) /\ ~t BY <2>6, <3>1, Zenon DEF Terminated
      <3>6. HaltOK(f, c, t, c) BY <2>1, <2>2, <3>3, <3>4, <3>5, Zenon DEF HaltOK
      <3>7. HaltOK(f, core'[Top.scratch], told'[Top.id], stream'[Top.id].status)
        BY <2>1, <2>4, <3>6, Zenon DEF c, t
      <3> QED BY <1>2, <2>1, <2>5, <3>1, <3>3, <3>7, HaltSetTop, Zenon
    <2> QED BY <2>7, <2>8, Zenon
  <1>14. ASSUME NEW buf \in Seq(Bytes), NEW todo \in {ScanStages, EodStages},
                Stage = "more", ~Top.cb, ~Broken(s), UNCHANGED <<stream, blob, told>>,
                core' = [core EXCEPT ![Top.scratch] = s],
                SetTop([Top EXCEPT !.buf = buf, !.todo = todo])
         PROVE  HaltInv'
    <2> DEFINE f == [Top EXCEPT !.buf = buf, !.todo = todo]
    <2>1. todo \in Todos /\ Head(todo) \in {"zero", "eod"}
      BY <1>14, StagesTyped, SMTT(30) DEF ScanStages, EodStages
    <2>2. /\ f \in Frames /\ SameCall(f, Top) /\ f.op = Top.op /\ f.todo = todo
          /\ f.cb = Top.cb
      BY <1>3, <2>1, Zenon DEF Frames, SameCall
    <2>3. SetTop(f) BY <1>14, Zenon
    <2>4. s = {} BY <1>14, Zenon DEF Broken
    <2>5. OnlyAt(Top.scratch, Top.id) /\ core'[Top.scratch] = {}
      BY <1>1, <1>3, <1>14, <2>4, Zenon DEF OnlyAt, TypeOK
    <2>6. ~t BY <1>4, <1>14, Zenon DEF HaltOK, Stage
    <2> HIDE DEF f, c, t, s
    <2>7. HaltOK(f, {}, t, s)
      BY <1>12, <1>14, <2>1, <2>2, <2>4, <2>6, Zenon DEF HaltOK, Terminated
    <2>8. HaltOK(f, core'[Top.scratch], told'[Top.id], stream'[Top.id].status)
      BY <1>14, <2>5, <2>7, Zenon DEF s, t
    <2> QED BY <1>2, <1>14, <2>2, <2>3, <2>5, <2>8, HaltSetTop, Zenon
  <1>15. ASSUME NEW buf \in Chunks, VectorBlock(buf) PROVE HaltInv'
    <2>1. /\ Stage = "more" /\ ~Top.cb /\ ~Broken(s) /\ UNCHANGED <<stream, blob, told>>
          /\ core' = [core EXCEPT ![Top.scratch] = s]
          /\ SetTop([Top EXCEPT !.buf = buf, !.todo = ScanStages])
      BY <1>15, Zenon DEF VectorBlock, Working, populateCoreInfo
    <2> HIDE DEF s
    <2> QED BY <1>14, <2>1, ChunksAreSeqs, Zenon
  <1>16. ASSUME NEW onEvent \in BOOLEAN, VectorEod(onEvent) PROVE HaltInv'
    <2>1. Stage = "more" /\ ~Top.cb /\ UNCHANGED <<stream, blob, told>>
      BY <1>16, Zenon DEF VectorEod, Working
    <2>2. CASE onEvent /\ ~Broken(s)
      <3>1. /\ SetTop([Top EXCEPT !.todo = EodStages])
            /\ core' = [core EXCEPT ![Top.scratch] = s]
        BY <1>16, <2>2, Zenon DEF VectorEod, populateCoreInfo
      <3>2. [Top EXCEPT !.todo = EodStages] = [Top EXCEPT !.buf = Top.buf, !.todo = EodStages]
        BY <1>3, Zenon DEF Frames
      <3>3. Top.buf \in Seq(Bytes) BY <1>3, Zenon DEF Frames
      <3> HIDE DEF s
      <3> QED BY <1>14, <2>1, <2>2, <3>1, <3>2, <3>3, Zenon
    <2>3. CASE ~(onEvent /\ ~Broken(s))
      <3> DEFINE f == [Top EXCEPT !.todo = <<"finish">>]
      <3>1. SetTop(f) /\ UNCHANGED core BY <1>16, <2>3, Zenon DEF VectorEod
      <3>2. /\ f \in Frames /\ SameCall(f, Top) /\ f.op = Top.op /\ f.todo = <<"finish">>
            /\ f.cb = Top.cb
        BY <1>3, StagesTyped, Zenon DEF Frames, SameCall
      <3>3. Head(<<"finish">>) = "finish" OBVIOUS
      <3>4. ~t BY <1>4, <2>1, Zenon DEF HaltOK, Stage
      <3> HIDE DEF f, c, t, s
      <3>5. HaltOK(f, c, t, s) BY <1>12, <2>1, <3>2, <3>3, <3>4, Zenon DEF HaltOK
      <3> QED BY <1>5, <2>1, <3>1, <3>2, <3>5, Zenon
    <2> QED BY <2>2, <2>3, Zenon
  <1>17. CASE Finish
    <2>1. /\ Head(Top.todo) = "finish" /\ Pop /\ UNCHANGED <<core, blob>>
          /\ IF Top.op \in EodCalls /\ (Top.op = "close" \/ "ERROR" \notin c)
             THEN Replace(Top.op, Top.id, Top.from)
             ELSE UNCHANGED <<stream, data, told>>
      BY <1>17, Zenon DEF Finish, Stage
    <2>2. CASE Top.op \in EodCalls /\ (Top.op = "close" \/ "ERROR" \notin c)
      <3>1. Replace(Top.op, Top.id, Top.from) BY <2>1, <2>2, Zenon
      <3>2. /\ Top.id \in Streams
            /\ Top.op \in {"copyTo", "copy"} =>
                  /\ Top.from \in Streams /\ stream[Top.from] # NULL
                  /\ \A i \in 1 .. Len(stack) : stack[i].id # Top.from
            /\ Top.op \in {"expandTo", "expand"} => Top.from \in Blobs /\ blob[Top.from] # NULL
        <4>1. Len(stack) \in 1 .. Len(stack) BY <1>1, <1>2 DEF TypeOK
        <4>2. Top.op = "copyTo" => \A i \in 1 .. Len(stack) : stack[i].id # Top.from
          BY <4>1, Zenon DEF HaltInv, SourcesApart, Top
        <4> QED BY <1>3, <2>2, <4>2, Zenon DEF FrameOK, EodCalls
      <3>3. /\ \A d \in Ids : d # Top.id => told'[d] = told[d] /\ stream'[d] = stream[d]
            /\ stream'[Top.id] # NULL =>
                  (told'[Top.id] <=> Terminated(stream'[Top.id].status))
        BY <1>1, <2>2, <3>1, <3>2, ReplaceHalt, Zenon
      <3>4. OnlyAt(Top.scratch, Top.id) BY <2>1, <3>3, Zenon DEF OnlyAt
      <3> QED BY <1>2, <2>1, <3>3, <3>4, HaltPop, Zenon
    <2>3. CASE ~(Top.op \in EodCalls /\ (Top.op = "close" \/ "ERROR" \notin c))
      <3>1. UNCHANGED <<stream, told>> BY <2>1, <2>3, Zenon
      <3>2. OnlyAt(Top.scratch, Top.id) BY <2>1, <3>1, Zenon DEF OnlyAt
      <3>3. Top.op = "scan" => Top.todo \in ScanTodos BY <1>4, Zenon DEF Shape, TodosOf, EodCalls
      <3>4. Top.op # "scan" BY <2>1, <3>3, ScanOrder, Zenon
      <3>5. Top.op \in {"block", "vector"} => Top.id \notin Streams
        BY <1>3, HandlesAssumption, Zenon DEF FrameOK
      <3>6. Top.op \in EodCalls \/ Top.op \in {"block", "vector"}
        BY <1>4, <3>4, Zenon DEF Shape, TodosOf, EodCalls
      <3>7. Top.id \in Streams => (t <=> Terminated(s))
        BY <1>4, <2>3, <3>5, <3>6, Zenon DEF HaltOK
      <3> QED BY <1>2, <2>1, <3>1, <3>2, <3>7, HaltPop, Zenon
    <2> QED BY <2>2, <2>3, Zenon
  <1> QED BY <1>6, <1>7, <1>8, <1>9, <1>10, <1>11, <1>13, <1>15, <1>16, <1>17, Zenon DEF Step

(* The status bits and what the callbacks asked for agree. *)
THEOREM Halting ==
    ASSUME ErrorsStopTheCall, CombsOnlyInStreams
    PROVE  Spec => []HaltInv
  <1>1. Init => HaltInv
    <2> SUFFICES ASSUME Init PROVE HaltInv BY Zenon
    <2>1. Len(stack) = 0 BY Zenon DEF Init
    <2>2. FramesHalt(stack, core, told, stream) /\ SourcesApart(stack)
      BY <2>1 DEF FramesHalt, SourcesApart
    <2>3. Remembered(stack, told, stream) BY Zenon DEF Init, Remembered, Ids
    <2> QED BY <2>2, <2>3, Zenon DEF Init, HaltInv
  <1>2. IInv /\ ShapeInv /\ HaltInv /\ [Next]_vars => HaltInv'
    <2> SUFFICES ASSUME IInv, ShapeInv, HaltInv, [Next]_vars PROVE HaltInv' BY Zenon
    <2>1. CASE Call BY <2>1, HaltCalls, Zenon
    <2>2. CASE Step BY <2>2, HaltSteps, Zenon
    <2>3. CASE UNCHANGED vars
      BY <2>3, Zenon DEF vars, HaltInv, FramesHalt, SourcesApart, Remembered
    <2> QED BY <2>1, <2>2, <2>3, Zenon DEF Next
  <1> QED BY <1>1, <1>2, Wellformed, StagesInOrder, PTL DEF Spec

(* Once a callback has returned non-zero no callback is made again for that  *)
(* stream, nor in the rest of that block or vector scan, through every early *)
(* return, nested call, copy, compression and expansion.  Both hypotheses    *)
(* are needed (HsStream_eod_error.cfg, HsStream_block_comb.cfg).             *)
THEOREM HaltsForGood ==
    ASSUME ErrorsStopTheCall, CombsOnlyInStreams
    PROVE  Spec => []NoCallbackAfterHalt
  <1>1. IInv /\ HaltInv => NoCallbackAfterHalt
    <2> SUFFICES ASSUME IInv, HaltInv PROVE NoCallbackAfterHalt BY Zenon
    <2>1. DOMAIN stack = 1 .. Len(stack) BY SMTT(30) DEF IInv, TypeOK
    <2> QED BY <2>1, Zenon DEF HaltInv, FramesHalt, HaltOK, NoCallbackAfterHalt
  <1> QED BY <1>1, Wellformed, Halting, PTL

(* A stream at rest has STATUS_TERMINATED set exactly if a callback stopped  *)
(* it: what makes the next hs_scan_stream return HS_SCAN_TERMINATED.         *)
THEOREM HaltStored ==
    ASSUME ErrorsStopTheCall, CombsOnlyInStreams
    PROVE  Spec => []HaltIsRemembered
  <1>1. IInv /\ HaltInv => HaltIsRemembered
    <2> SUFFICES ASSUME IInv, HaltInv, NEW id \in Streams, stream[id] # NULL, Free(id)
                 PROVE  told[id] <=> "TERMINATED" \in stream[id].status
      BY Zenon DEF HaltIsRemembered
    <2>1. DOMAIN stack = 1 .. Len(stack) BY DEF IInv, TypeOK
    <2>2. \A i \in 1 .. Len(stack) : stack[i].id # id BY <2>1, Zenon DEF Free
    <2> QED BY <2>2, Zenon DEF HaltInv, Remembered, Terminated
  <1> QED BY <1>1, Wellformed, Halting, PTL

=============================================================================
