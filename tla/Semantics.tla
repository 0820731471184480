----------------------------- MODULE Semantics -----------------------------
(***************************************************************************)
(* What an Sflang program means: a reference that knows neither frames nor *)
(* instructions nor slices.  try, catch, finally and defer mean what the   *)
(* comments of compiler.rs (at TryStmt) and vm.rs (PendingFlow,            *)
(* finish_frame_with_defers) promise: a finally block runs once on every   *)
(* way out of its statement and its own jump, return or throw replaces the *)
(* one under way; deferred calls run last in first out on every way out of *)
(* the function, an error in one does not stop the others and replaces the *)
(* function's result.                                                      *)
(*                                                                         *)
(* Evaluation threads a state: what was shown, the catch variable, the     *)
(* deferred calls, the modules loaded, and how the last step ended ("ok",  *)
(* "throw", "return", "break", "continue") with which value or label.  A   *)
(* context says how deep the calls are and whether a wait is possible.     *)
(***************************************************************************)
EXTENDS Syntax, Naturals

End(st, how, v) == [st EXCEPT !.how = how, !.val = v]
Ok(st, v) == End(st, "ok", v)
Bind(st, v) == [Ok(st, "undefined") EXCEPT !.e = v]

\* room: calls left before max_call_depth; task: the program runs in a task, which may wait only
\* outside of callbacks and deferred calls; loading: modules under way.
Context(task, room) == [room |-> room, task |-> task, callback |-> FALSE, loading |-> {}]

\* Builtins: show notes its last argument, boom throws, recv waits for a value
\* (refused in a callback or as a deferred call), read and fail block, acquire waits
\* for a permit.
BuiltinMeaning(f, args, refused, st) ==
  CASE f = "show" -> Ok([st EXCEPT !.shown = Append(@, args[Len(args)])], "undefined")
    [] f = "boom" -> End(st, "throw", "boom")
    [] f = "recv" -> IF refused THEN End(st, "throw", "refused") ELSE Ok(st, "message")
    [] f = "read" -> Ok(st, "data")
    [] f = "fail" -> End(st, "throw", "io")
    [] f = "acquire" -> Ok(st, "undefined")
    [] OTHER -> End(st, "throw", "not callable")

\* What came before goes on, unless the block or the call run meanwhile has the last word.
Resume(before, r) == IF r.how = "ok" THEN End(r, before.how, before.val) ELSE r

RECURSIVE Eval(_, _, _, _), EvalArgs(_, _, _, _, _), Apply(_, _, _, _, _, _)
RECURSIVE RunDefers(_, _, _), ExecBlock(_, _, _, _), Repeat(_, _, _, _, _)

\* Argument values, left to right; the first that throws ends the evaluation.
MoreArgs(P, args, vals, r, c) ==
  IF r.how = "ok" THEN EvalArgs(P, args, Append(vals, r.val), r, c) ELSE [st |-> r, vals |-> vals]
EvalArgs(P, args, vals, st, c) ==
  IF args = <<>> THEN [st |-> st, vals |-> vals]
  ELSE MoreArgs(P, Tail(args), vals, Eval(P, Head(args), st, c), c)

ApplyTo(P, f, a, c) == IF a.st.how = "ok" THEN Apply(P, f, a.vals, FALSE, a.st, c) ELSE a.st
Eval(P, e, st, c) ==
  CASE e.op = "const" -> Ok(st, e.val)
    [] e.op = "local" -> Ok(st, st.e)
    [] e.op = "call"  -> ApplyTo(P, e.val, EvalArgs(P, e.args, <<>>, st, c), c)

\* The deferred calls, last first; an error replaces the way the function ended.
RunDefers(P, st, c) ==
  IF st.defers = <<>> THEN st
  ELSE LET d    == st.defers[Len(st.defers)]
           left == [st EXCEPT !.defers = SubSeq(@, 1, Len(@) - 1)]
       IN  RunDefers(P, Resume(st, Apply(P, d.callee, d.args, TRUE, Ok(left, "undefined"), c)), c)

\* The body of f with a catch variable and deferred calls of its own.
Ended(r) == IF r.how = "throw" THEN r ELSE Ok(r, IF r.how = "return" THEN r.val ELSE "undefined")
Invoke(P, f, st, c, dc) ==
  LET fresh == [Bind(st, "undefined") EXCEPT !.defers = <<>>]
  IN  [RunDefers(P, Ended(ExecBlock(P, P[f], fresh, c)), dc) EXCEPT !.e = st.e, !.defers = st.defers]

\* A call of f from the program text, or as a deferred call.  A function's own
\* deferred calls are made at its caller's depth; those of a function that a
\* builtin calls back at its own.
Apply(P, f, args, deferred, st, c) ==
  LET called == [c EXCEPT !.room = @ - 1]
      back   == [called EXCEPT !.callback = TRUE]
  IN  IF f \in DOMAIN P \cup {"each"}
        THEN IF f = "each" /\ args[1] \notin DOMAIN P THEN End(st, "throw", "not callable")
             ELSE IF c.room = 0 THEN End(st, "throw", "too deep")
             ELSE IF f = "each" THEN Invoke(P, args[1], st, back, back)
             ELSE Invoke(P, f, st, called, c)
        ELSE BuiltinMeaning(f, args, c.task /\ (deferred \/ c.callback), st)

\* A module runs once; a cycle is an error.
Loaded(m, r) == IF r.how = "ok" THEN [r EXCEPT !.loaded = @ \cup {m}] ELSE r
ExecImport(P, m, st, c) ==
  LET inner == [c EXCEPT !.loading = @ \cup {m}]
  IN  IF m \in st.loaded THEN st
      ELSE IF m \in c.loading THEN End(st, "throw", "cycle")
      ELSE Loaded(m, Invoke(P, m, st, inner, inner))

Deferred(f, a) ==
  IF a.st.how = "ok" THEN [a.st EXCEPT !.defers = Append(@, [callee |-> f, args |-> a.vals])] ELSE a.st
ExecDefer(P, d, st, c) == Deferred(d.val, EvalArgs(P, d.args, <<>>, st, c))

\* finally runs whatever happened, and has the last word if it does not end normally.
Caught(P, s, r, c) ==
  IF r.how = "throw" /\ s.catch # NoBlock THEN ExecBlock(P, s.catch, Bind(r, r.val), c) ELSE r
Finally(P, s, r, c) ==
  IF s.finally = NoBlock THEN r ELSE Resume(r, ExecBlock(P, s.finally, Ok(r, "undefined"), c))
ExecTry(P, s, st, c) == Finally(P, s, Caught(P, s, ExecBlock(P, s.body, st, c), c), c)

\* A break is for the labelled loop, or for the innermost loop or switch.
Left(r, s) ==
  IF r.how = "break" /\ r.val \in {s.name, EmptyName} THEN End(r, "left", "undefined") ELSE r
Done(r) == IF r.how = "left" THEN Ok(r, "undefined") ELSE r
NextTurn(P, s, n, r, c) ==
  IF r.how \in {"ok", "continue"} THEN Repeat(P, s, n, Ok(r, "undefined"), c) ELSE Done(r)
Repeat(P, s, n, st, c) ==
  IF n = 0 THEN st ELSE NextTurn(P, s, n - 1, Left(ExecBlock(P, s.body, st, c), s), c)

\* The body of the first case that has the value, or the default.
RECURSIVE Chosen(_, _, _)
Chosen(v, cases, default) ==
  IF cases = <<>> THEN default
  ELSE IF Head(cases).val = v THEN Head(cases).body ELSE Chosen(v, Tail(cases), default)
ExecSwitch(P, s, st, c) == Done(Left(ExecBlock(P, Chosen(s.expr.val, s.body, s.catch), st, c), s))

\* throw and return hand on the value of their expression.
HandOn(how, r) == IF r.how = "ok" THEN End(r, how, r.val) ELSE r

Exec(P, s, st, c) ==
  CASE s.op = "expr"     -> Eval(P, s.expr, st, c)
    [] s.op \in {"throw", "return"} -> HandOn(s.op, Eval(P, s.expr, st, c))
    [] s.op = "break"    -> End(st, "break", s.name)
    [] s.op = "continue" -> End(st, "continue", EmptyName)
    [] s.op = "defer"    -> ExecDefer(P, s.expr, st, c)
    [] s.op = "import"   -> ExecImport(P, s.name, st, c)
    [] s.op = "loop"     -> Repeat(P, s, 2, st, c)
    [] s.op = "switch"   -> ExecSwitch(P, s, st, c)
    [] s.op = "try"      -> ExecTry(P, s, st, c)

After(P, b, r, c) == IF r.how = "ok" THEN ExecBlock(P, b, r, c) ELSE r
ExecBlock(P, b, st, c) ==
  IF b = <<>> THEN st ELSE After(P, Tail(b), Exec(P, Head(b), st, c), c)

Outcome(r) == [shown |-> r.shown, how |-> r.how, val |-> r.val]

\* What the program P shows and how its text, main, ends, in a task or not, with at
\* most maxDepth calls in progress.
Meaning(P, task, maxDepth) ==
  LET start == [shown |-> <<>>, e |-> "undefined", defers |-> <<>>, loaded |-> {},
                how |-> "ok", val |-> "undefined"]
      top == Context(task, maxDepth)
  IN  Outcome(Invoke([P EXCEPT !["main"] = Valued(@)], "main", start, top, top))
=============================================================================
