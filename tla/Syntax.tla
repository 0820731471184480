------------------------------- MODULE Syntax -------------------------------
(***************************************************************************)
(* Sflang programs, as far as their control flow goes: the part of the     *)
(* syntax tree of ast.rs that the compiler turns into calls, jumps and try *)
(* entries.  Values are strings; a function's value is its name.           *)
(*                                                                         *)
(* A loop stands for a `for` whose condition holds twice: what a condition *)
(* computes is data.                                                       *)
(***************************************************************************)
EXTENDS Sequences

EmptyName == ""      \* no label

\* Expressions: a constant, the variable a catch binds, a call.
Const(v) == [op |-> "const", val |-> v, args |-> <<>>]
\* (one variable a frame: a catch block uses it before the next one binds it)
CatchVar == [op |-> "local", val |-> "e", args |-> <<>>]
CallOf(f, args) == [op |-> "call", val |-> f, args |-> args]

\* Statements.
Stmt(op, e, name, body, handler, final) ==
  [op |-> op, expr |-> e, name |-> name, body |-> body, catch |-> handler, finally |-> final]
\* A catch or finally block that is not written.
NoBlock == <<Stmt("absent", Const(""), EmptyName, <<>>, <<>>, <<>>)>>
Plain(op, e, name) == Stmt(op, e, name, <<>>, NoBlock, NoBlock)

ExprStmt(e)    == Plain("expr", e, EmptyName)
Throw(e)       == Plain("throw", e, EmptyName)
Return(e)      == Plain("return", e, EmptyName)
Break(label)   == Plain("break", Const(""), label)
Continue       == Plain("continue", Const(""), EmptyName)
Defer(f, args) == Plain("defer", CallOf(f, args), EmptyName)
Import(module) == Plain("import", Const(""), module)
Loop(label, body) == Stmt("loop", Const(""), label, body, NoBlock, NoBlock)
\* The cases of a switch are values with their bodies; a default that is not written is empty.
Case(v, body) == [val |-> v, body |-> body]
Switch(v, cases, default) == Stmt("switch", Const(v), EmptyName, cases, default, NoBlock)
Try(body, handler, final) == Stmt("try", Const(""), EmptyName, body, handler, final)

Show(v) == ExprStmt(CallOf("show", <<v>>))

\* The text of a program or a module: an expression that ends it is its value.
Valued(b) ==
  IF b # <<>> /\ b[Len(b)].op = "expr"
    THEN [b EXCEPT ![Len(b)] = Return(b[Len(b)].expr)] ELSE b
=============================================================================
