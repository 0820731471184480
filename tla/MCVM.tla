-------------------------------- MODULE MCVM --------------------------------
(***************************************************************************)
(* Compiler and VM together, on families of programs, against the meaning  *)
(* of the program.  A program is a record of choices; Source builds it.    *)
(***************************************************************************)
EXTENDS VM

LOCAL INSTANCE Syntax
C == INSTANCE Compiler
S == INSTANCE Semantics

\* How a block goes on after it has shown its tag.
Leaf(l, tag) ==
  CASE l = "ok"       -> <<>>
    [] l = "throw"    -> <<Throw(Const(tag))>>
    [] l = "boom"     -> <<ExprStmt(CallOf("show", <<Const(tag), CallOf("boom", <<>>)>>))>>
    [] l = "return"   -> <<Return(Const(tag))>>
    [] l = "break"    -> <<Break(EmptyName)>>
    [] l = "leave"    -> <<Break("outer")>>
    [] l = "continue" -> <<Continue>>
Block(tag, l) == <<Show(Const(tag))>> \o Leaf(l, tag)
OptCatch(tag, l) == IF l = "absent" THEN NoBlock ELSE <<Show(CatchVar)>> \o Leaf(l, tag)
OptFinally(tag, l) == IF l = "absent" THEN NoBlock ELSE Block(tag, l)

RECURSIVE Weight(_, _)
Weight(lists, i) == IF i = 0 THEN 1 ELSE Weight(lists, i - 1) * Len(lists[i])
Size(lists) == Weight(lists, Len(lists))
Pick(lists, n) ==
  [i \in DOMAIN lists |-> lists[i][1 + ((n \div Weight(lists, i - 1)) % Len(lists[i]))]]

\* Family "try": in a loop, a try statement around another, the inner one perhaps
\* in a loop or a switch of its own; every block may leave in every way.
Catches   == <<"absent", "ok", "throw", "return", "break", "leave">>
Finallies == <<"absent", "ok", "boom", "return", "break", "continue">>
TryLists ==
  <<<<"none", "loop", "switch">>,
    <<"ok", "boom", "return", "break", "continue", "leave">>,
    [i \in 1 .. 35 |-> <<Catches[1 + (i % 6)], Finallies[1 + (i \div 6)]>>],  \* not both absent
    <<<<"absent", "ok">>, <<"throw", "absent">>, <<"ok", "return">>, <<"throw", "continue">>>>>>

TrySource(n) ==
  LET p       == Pick(TryLists, n)
      inner   == <<Try(Block("a", p[2]), OptCatch("b", p[3][1]), OptFinally("c", p[3][2]))>>
      wrapped == CASE p[1] = "none"   -> inner
                   [] p[1] = "loop"   -> <<Loop(EmptyName, inner)>>
                   [] p[1] = "switch" -> <<Switch("x", <<Case("x", inner)>>, <<>>)>>
      outer   == Try(Append(wrapped, Show(Const("after"))),
                     OptCatch("d", p[4][1]), OptFinally("e", p[4][2]))
  IN  [main |-> <<Loop("outer", <<outer>>), Show(Const("end"))>>]

\* Family "call": f, with two deferred calls, ends in some way or waits; main calls
\* it in the middle of an expression, once inside a try statement and once outside.
CallLists ==
  <<<<"show", "boom", "recv", "acquire", "fail", "g">>,
    <<"show", "boom", "g">>,
    <<"return", "boom", "recv", "fail", "acquire", "g", "each", "f", "nothing">>,
    <<"show", "boom", "recv", "acquire", "catch", "defer", "module", "cycle">>>>

Say(tag, f, args) == ExprStmt(CallOf("show", <<Const(tag), CallOf(f, args)>>))
CallSource(p) ==
  LET args == <<Const("deferred")>>
      fEnds ==
        CASE p[3] = "return" -> <<Return(Const("f"))>>
          [] p[3] = "each"   -> <<Say("each", "each", <<Const("g")>>)>>
          [] p[3] = "nothing" -> <<Try(<<Say("f", "nothing", <<>>)>>, <<Show(CatchVar)>>, NoBlock),
                                   Say("each", "each", <<Const("nothing")>>)>>
          [] OTHER           -> <<Say("f", p[3], <<>>)>>
      gEnds ==
        CASE p[4] = "show"   -> <<Show(Const("g"))>>
          [] p[4] = "catch"  -> <<Try(<<Say("g", "fail", <<>>)>>, <<Show(CatchVar)>>, NoBlock)>>
          [] p[4] = "defer"  -> <<Defer("show", args), Throw(Const("g"))>>
          [] p[4] = "module" -> <<Import("m"), Import("m")>>
          [] p[4] = "cycle"  -> <<Import("c")>>
          [] OTHER           -> <<Say("g", p[4], <<>>)>>
  IN  [main |-> <<Try(<<Say("main", "f", <<>>)>>, <<Show(CatchVar)>>, <<Show(Const("finally"))>>),
                  Say("main", "f", <<>>)>>,
       f |-> <<Defer(p[1], args), Defer(p[2], args)>> \o fEnds,
       g |-> gEnds,
       m |-> <<Show(Const("m"))>>,
       c |-> <<Show(Const("c")), Import("c")>>]

\* No callback waits for a permit: Scheduler_callback_wait shows what comes of it.
Settled(p) == IF p[3] = "each" /\ p[4] = "acquire" THEN [p EXCEPT ![4] = "show"] ELSE p

\* Family "switch": a switch at the top level of the program or of the module m, or in
\* the function f that imports m in the middle of an expression; the block that has the
\* value, of a case or the default, is plain or holds a try statement, which may itself
\* be in a loop or in a switch, and leaves in every way.
SwitchLists ==
  <<<<"main", "module", "function">>,
    <<"second", "other">>,
    <<"plain", "try", "loop", "switch">>,
    <<"ok", "throw", "boom", "break", "return">>,
    <<<<"absent", "ok">>, <<"ok", "absent">>, <<"break", "ok">>, <<"throw", "break">>,
      <<"ok", "boom">>, <<"break", "absent">>>>>>

SwitchSource(p) ==
  LET try    == <<Try(Block("a", p[4]), OptCatch("b", p[5][1]), OptFinally("c", p[5][2]))>>
      inside ==
        CASE p[3] = "plain"  -> Block("a", p[4])
          [] p[3] = "try"    -> try
          [] p[3] = "loop"   -> <<Loop(EmptyName, try), Show(Const("looped"))>>
          [] p[3] = "switch" -> <<Switch("y", <<Case("x", <<>>)>>, try), Show(Const("left"))>>
      switch == Switch(p[2], <<Case("first", inside), Case("second", inside)>>, inside)
      At(place) == IF p[1] = place THEN <<switch, Show(Const("after"))>> ELSE <<>>
  IN  [main |-> At("main")
                  \o <<Try(<<Say("main", "f", <<>>)>>, <<Show(CatchVar)>>, NoBlock), ExprStmt(Const("end"))>>,
       f |-> <<Import("m")>> \o At("function"),
       m |-> At("module")]

\* A return in a switch at the top level leaves an operand: see ReturnInSwitch.
InFunction(p) == IF p[1] # "function" /\ p[4] = "return" THEN [p EXCEPT ![4] = "ok"] ELSE p

\* On the main thread, the "try" programs, the "switch" programs and the "call" programs;
\* in a task, the "call" programs again, and one whose module waits; on the main thread,
\* one whose module returns from a switch.
Tries    == Size(TryLists)
Switches == Tries + Size(SwitchLists)
Calls    == Switches + Size(CallLists)
Tasks    == Calls + Size(CallLists)
AllPrograms    == 0 .. Tasks - 1
TaskPrograms   == Calls .. Tasks - 1
WaitingModule  == {Tasks}
ReturnInSwitch == {Tasks + 1}
Source(n) ==
  CASE n < Tries -> TrySource(n)
    [] n \in Tries .. Switches - 1 -> SwitchSource(InFunction(Pick(SwitchLists, n - Tries)))
    [] n \in Switches .. Tasks - 1 -> CallSource(Settled(Pick(CallLists, n - Switches)))
    [] n \in WaitingModule ->
         [main |-> <<Import("m"), Show(Const("main"))>>, m |-> <<Say("m", "recv", <<>>)>>]
    [] n \in ReturnInSwitch ->
         [main |-> <<Say("main", "f", <<>>)>>, f |-> <<Import("m"), Return(Const("f"))>>,
          m |-> <<Switch("x", <<Case("x", <<Return(Const("m"))>>)>>, <<>>)>>]

-----------------------------------------------------------------------------
CompiledCode(n) ==
  LET P == Source(n)
  IN  [f \in DOMAIN P |->
         IF f \in {"main", "m", "c"} THEN C!CompileProgram(P[f]) ELSE C!CompileFunction(P[f])]
Meant(n) == S!Meaning(Source(n), n \in InTask, MaxDepth)
=============================================================================
