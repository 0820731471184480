------------------------------ MODULE Compiler ------------------------------
(***************************************************************************)
(* compiler.rs: the instructions emitted for calls, loops, try statements  *)
(* and the jumps out of them.                                              *)
(*                                                                         *)
(* An instruction takes one address whatever its operands' width.  Those   *)
(* that only compute data (a loop's condition and counter, the comparison  *)
(* of a switch's value with a case's) are one instruction each, or none.   *)
(*                                                                         *)
(* nest and height are not in the code: they note the try blocks an        *)
(* instruction stands in, outermost first, each with the address of its    *)
(* PushTry (their number is the compiler's open_tries), and how many       *)
(* operands of its function it finds on the stack.                         *)
(*                                                                         *)
(* Operators named Bug... are plausible mistakes that the runs are tried   *)
(* against; no specification uses them.                                    *)
(***************************************************************************)
EXTENDS Syntax, Naturals

\* catch, finally, end: addresses, 0 if there is none; n: argument count, number
\* of try statements left, the loop's counter, or whether the case has the value.
Instr(op, val, target, n, c) ==
  [op |-> op, val |-> val, target |-> target, n |-> n, catch |-> 0, finally |-> 0,
   nest |-> c.nest, height |-> c.height]

\* What surrounds the code; scoped: it is in a function or a block, and may have
\* local variables.
Ctx(scoped) == [nest |-> <<>>, loops |-> <<>>, height |-> 0, scoped |-> scoped]
LoopCtx(label, isSwitch, brk, cnt, tries) ==
  [label |-> label, isSwitch |-> isSwitch, brk |-> brk, cnt |-> cnt, tries |-> tries]
InLoop(c, l) == [c EXCEPT !.loops = Append(@, l), !.scoped = TRUE]
Inside(c, phase, at) ==
  [c EXCEPT !.nest = Append(@, [phase |-> phase, at |-> at]), !.scoped = TRUE]
Holding(c, operands) == [c EXCEPT !.height = @ + operands]
OpenTries(c) == Len(c.nest)

\* The loop a break or continue leaves or repeats: the labelled one, or the
\* innermost; continue passes through a switch.
Eligible(c, s) ==
  {i \in 1 .. Len(c.loops) :
     IF s.name # EmptyName THEN c.loops[i].label = s.name
     ELSE s.op = "continue" => ~c.loops[i].isSwitch}
Innermost(S) == CHOOSE i \in S : \A j \in S : j <= i

BugCrossed(c, loop) == Len(SelectSeq(c.nest, LAMBDA p : p.phase # "Finally")) - loop.tries
\* emit_break_continue: a plain jump, unless try statements are left on the way.
Crossed(c, loop) == OpenTries(c) - loop.tries
CompileJump(s, c) ==
  LET loop   == c.loops[Innermost(Eligible(c, s))]
      target == IF s.op = "break" THEN loop.brk ELSE loop.cnt
  IN  <<IF Crossed(c, loop) > 0
          THEN Instr("LeaveLoop", "", target, Crossed(c, loop), c)
          ELSE Instr("Jump", "", target, 0, c)>>

RECURSIVE CompileExpr(_, _), CompileArgs(_, _), CompileStmt(_, _, _), CompileBlock(_, _, _)
RECURSIVE CompileCases(_, _, _, _, _)

CompileArgs(args, c) ==
  IF args = <<>> THEN <<>> ELSE CompileExpr(Head(args), c) \o CompileArgs(Tail(args), Holding(c, 1))

\* Callee and arguments, left on the operand stack for Call or Defer.
CompileCallee(e, c) == <<Instr("Const", e.val, 0, 0, c)>> \o CompileArgs(e.args, Holding(c, 1))

CompileExpr(e, c) ==
  IF e.op = "call"
    THEN CompileCallee(e, c) \o <<Instr("Call", "", 0, Len(e.args), Holding(c, Len(e.args) + 1))>>
    ELSE <<Instr(IF e.op = "local" THEN "LoadLocal" ELSE "Const", e.val, 0, 0, c)>>

\* for: counter := 0; start: test; body; continue target: counter + 1; jump start.
CompileLoop(s, at, c) ==
  LET counter == Len(c.loops) + 1
      Body(brk, cnt) ==
        CompileBlock(s.body, at + 2, InLoop(c, LoopCtx(s.name, FALSE, brk, cnt, OpenTries(c))))
      cnt == at + 2 + Len(Body(0, 0))
      end == cnt + 2
  IN  <<Instr("Reset", "", 0, counter, c), Instr("Test", "", end, counter, c)>>
        \o Body(end, cnt)
        \o <<Instr("Inc", "", 0, counter, c), Instr("Jump", "", at + 1, 0, c)>>

\* A case: the comparison, which leads on to the next, the body and the jump to the end.
CompileCases(v, cases, at, end, c) ==
  IF cases = <<>> THEN <<>>
  ELSE LET body == CompileBlock(Head(cases).body, at + 1, c)
           next == at + Len(body) + 2
       IN  <<Instr("Case", "", next, IF Head(cases).val = v THEN 1 ELSE 0, c)>>
             \o body \o <<Instr("Jump", "", end, 0, c)>>
             \o CompileCases(v, Tail(cases), next, end, c)

\* The value of a switch is kept in a variable; at the top level of a program or a
\* module, where there is none, on the operand stack until the end.
BugSwitchEnd(c) == <<>>
SwitchStart(c) == IF c.scoped THEN <<Instr("Pop", "", 0, 0, Holding(c, 1))>> ELSE <<>>
SwitchEnd(c)   == IF c.scoped THEN <<>> ELSE <<Instr("Pop", "", 0, 0, Holding(c, 1))>>

\* switch: the cases, then the default; break leaves it.
CompileSwitch(s, at, c) ==
  LET value == CompileExpr(s.expr, c) \o SwitchStart(c)
      held  == IF c.scoped THEN c ELSE Holding(c, 1)
      In(brk) == InLoop(held, LoopCtx(EmptyName, TRUE, brk, 0, OpenTries(c)))
      Cases(brk) == CompileCases(s.expr.val, s.body, at + Len(value), brk, In(brk))
      defaultAt == at + Len(value) + Len(Cases(0))
      Default(brk) == CompileBlock(s.catch, defaultAt, In(brk))
      end == defaultAt + Len(Default(0))
  IN  value \o Cases(end) \o Default(end) \o SwitchEnd(c)

\* The catch block binds the exception, which the dispatch has pushed.
CompileCatch(s, at, c) ==
  IF s.catch = NoBlock THEN <<>>
  ELSE <<Instr("Bind", "", 0, 0, Holding(c, 1))>>
         \o CompileBlock(s.catch, at + 1, c)
         \o <<Instr("CatchEnd", "", 0, 0, c)>>

CompileFinally(s, at, c) ==
  IF s.finally = NoBlock THEN <<>>
  ELSE CompileBlock(s.finally, at, c) \o <<Instr("ExitFinally", "", 0, 0, c)>>

CompileTry(s, at, c) ==
  LET In(phase)  == Inside(c, phase, at)
      body    == CompileBlock(s.body, at + 1, In("Body"))
      catch   == at + Len(body) + 3
      handler == CompileCatch(s, catch, In("Catch"))
      finally == catch + Len(handler)
      final   == CompileFinally(s, finally, In("Finally"))
      end     == finally + Len(final)
  IN  <<[Instr("PushTry", "", end, 0, c) EXCEPT
           !.catch = IF s.catch = NoBlock THEN 0 ELSE catch,
           !.finally = IF s.finally = NoBlock THEN 0 ELSE finally]>>
        \o body
        \o <<Instr("TryBodyEnd", "", 0, 0, In("Body")), Instr("Jump", "", end, 0, c)>>
        \o handler
        \o final

CompileStmt(s, at, c) ==
  CASE s.op = "expr"   -> CompileExpr(s.expr, c) \o <<Instr("Pop", "", 0, 0, Holding(c, 1))>>
    [] s.op = "throw"  -> CompileExpr(s.expr, c) \o <<Instr("Throw", "", 0, 0, Holding(c, 1))>>
    [] s.op = "return" -> CompileExpr(s.expr, c) \o <<Instr("Return", "", 0, 0, Holding(c, 1))>>
    [] s.op = "defer"  -> CompileCallee(s.expr, c)
                            \o <<Instr("Defer", "", 0, Len(s.expr.args),
                                       Holding(c, Len(s.expr.args) + 1))>>
    [] s.op = "import" -> <<Instr("Import", s.name, 0, 0, c)>>
    [] s.op \in {"break", "continue"} -> CompileJump(s, c)
    [] s.op = "loop"   -> CompileLoop(s, at, c)
    [] s.op = "switch" -> CompileSwitch(s, at, c)
    [] s.op = "try"    -> CompileTry(s, at, c)

CompileBlock(b, at, c) ==
  IF b = <<>> THEN <<>>
  ELSE LET first == CompileStmt(Head(b), at, c)
       IN  first \o CompileBlock(Tail(b), at + Len(first), c)

CompileBody(b, c) == CompileBlock(b, 1, c) \o <<Instr("ReturnVoid", "", 0, 0, c)>>
CompileFunction(b) == CompileBody(b, Ctx(TRUE))
\* A program or an imported module.
CompileProgram(b) == CompileBody(Valued(b), Ctx(FALSE))
=============================================================================
