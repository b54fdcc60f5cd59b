----------------------------- MODULE MCStateOps -----------------------------
(* Instances of StateRecords, and with it of StateOps, for TLC: the values
   of its constants. *)
EXTENDS StateRecords

\* Some bytes are also tags and lengths of the encoding.
MCCode ==
  ("a" :> 1) @@ ("b" :> 2) @@ ("c" :> 4) @@ ("x" :> 5) @@ ("y" :> 6) @@
  ("0" :> 3) @@ ("1" :> 0) @@ ("." :> 9) @@ ("[" :> 10) @@ ("]" :> 11) @@
  ("$" :> 7) @@ ("ref" :> 8) @@ ("pass" :> 12) @@ ("exec" :> 13) @@
  ("instruction" :> 14) @@ ("params" :> 15) @@ ("item" :> 16) @@ ("keys" :> 17) @@
  ("intersection" :> 18) @@ ("diff" :> 19) @@ ("union" :> 20)
MCDigits == ("0" :> 0) @@ ("1" :> 1)
MCNonFinite == {7}

Obj2(k, v, l, w) == VObj((k :> v) @@ (l :> w))
Obj1(k, v) == VObj(k :> v)
A == <<"a">>
B == <<"b">>
C == <<"c">>
AB == <<"a", ".", "b">>
A0 == <<"a", "[", "0", "]">>
A1 == <<"a", "[", "1", "]">>
A1C == <<"a", "[", "1", "]", ".", "c">>
A0B == <<"a", "[", "0", "]", ".", "b">>
A0C == <<"a", "[", "0", "]", ".", "c">>
B0C == <<"b", ".", "0", ".", "c">>
BA == <<"b", ".", "a">>
Deep == <<"a", ".", "b", ".", "c", ".", "a">>

MCInitial ==
  {(A :> VInt(14)) @@ (B :> Obj1(A, VInt(-15))),
   (A :> VList(<<Text("y"), Text("x"), Text("x")>>)) @@ (B :> VList(<<Text("x"), VInt(1), Text("x")>>)),
   (A :> Ref(VStr(BA))) @@ (B :> Obj1(A, Ref(VStr(A)))),
   (A :> VList(<<Ref(VStr(B)), VInt(1)>>)) @@ (B :> Ref(VStr(C))) @@ (C :> Text("a")),
   (A :> Pass(Text("a"))) @@
     (<<"exec">> :> Obj1(<<"instruction">>, Obj1(<<"params">>, Obj1(A, Ref(VStr(B)))))),
   A :> VList(<<>>),
   A :> VList(<<Obj2(B, VInt(1), C, VNull)>>)}

MCPaths == {A, B, AB, A0, A0B, A0C, A1, A1C, B0C, BA, Deep, <<>>}
Nested(v) == VList(<<VList(<<VList(<<VList(<<VList(<<v>>)>>)>>)>>)>>)
MCSamples ==
  {VNull, VInt(2), Text("x"), VStr(<<>>), Ref(VStr(A)), Ref(VInt(1)), Pass(Text("a")),
   VList(<<Ref(VStr(B)), VStr(<<"x", "a", "1">>)>>), VList(<<Text("x"), VNull>>),
   Obj1(A, VList(<<VNull>>)), Obj2(A, Ref(VStr(A)), B, VList(<<>>)), VFloat(2), VFloat(7),
   VBytes(<<"a", "x">>), VStr(<<"a", "x">>),
   Nested(VInt(1)), Nested(VNull)}
MCProbes == {Nested(VInt(1)), Obj2(A, Ref(VStr(A)), B, VList(<<>>)), VFloat(2), VFloat(7)}
MCTicks == {17}
MCAuditKey == <<1>>

MCAttrs == {VStr(A), VStr(A1C), VStr(B0C), Ref(VStr(C))}
MCOperands == {None, VInt(3), VInt(-1), Ref(VStr(A)), VList(<<Text("x")>>)}
MCOperations ==
  {VStr(op) : op \in ComputeOperations \cup ValidOperations} \cup {None}
MCLists == {VStr(A), VStr(<<"$", "b">>), VList(<<Text("x"), Text("a"), Text("x")>>), None}
MCIndexes == {VInt(-1), VInt(1), VStr(B)}
=============================================================================
