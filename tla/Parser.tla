------------------------------- MODULE Parser -------------------------------
(***************************************************************************)
(* Expressions in sflang/src/parser.rs: the recursive descent from         *)
(* parse_assign down to parse_primary, as the stack of its activations     *)
(* that wait for an operand.                                               *)
(*                                                                         *)
(* The token stream is chosen as it is read.  An expression is a span of   *)
(* tokens; what the parser builds is the set of nodes, each with the token *)
(* of its operator.  Statements end where no activation takes the next     *)
(* token: neither a semicolon nor a line's end is needed.                  *)
(***************************************************************************)
EXTENDS Naturals, Sequences

CONSTANTS
  Kinds,      \* token kinds the stream is made of
  MaxTokens   \* bound: tokens before the end of the input

VARIABLES
  toks,   \* tokens read, the one peeked at last
  stack,  \* activations that wait for an operand, the outermost first
  mode,   \* "operand", "postfix", "operator", or how it ended: "done", "error"
  span,   \* the expression that is complete, in the last two modes
  nodes   \* what was built

vars == <<toks, stack, mode, span, nodes>>

\* A bug for the checks: comparisons bind as tightly as equality.
BugLevel(kind) ==
  CASE kind = "??" -> 1 [] kind = "||" -> 2 [] kind = "&&" -> 3 [] kind = "|" -> 4
    [] kind = "^" -> 5 [] kind = "&" -> 6 [] kind \in {"==", "<"} -> 7
    [] kind = "<<" -> 9 [] kind = "-" -> 10 [] kind = "*" -> 11 [] OTHER -> 0

\* The binary operators by the procedure that takes them, parse_nullcoal to
\* parse_multiplicative; one kind stands for the others of its level.
Level(kind) ==
  CASE kind = "??" -> 1 [] kind = "||" -> 2 [] kind = "&&" -> 3 [] kind = "|" -> 4
    [] kind = "^" -> 5 [] kind = "&" -> 6 [] kind = "==" -> 7 [] kind = "<" -> 8
    [] kind = "<<" -> 9 [] kind = "-" -> 10 [] kind = "*" -> 11 [] OTHER -> 0

\* An activation: of a level's loop, a prefix operator, a branch of ?:, an assignment's
\* value, or what stands in brackets.  from: its expression's first token, at: its operator.
Waiting(for, from, at, target) == [for |-> for, from |-> from, at |-> at, target |-> target]
Statement == Waiting("statement", 1, 0, FALSE)

Span(from, to, target) == [from |-> from, to |-> to, target |-> target]
Node(kind, from, at, to) == [kind |-> kind, from |-> from, at |-> at, to |-> to]

Binary == {"??", "||", "&&", "|", "^", "&", "==", "<", "<<", "-", "*"}

\* Where parse_expr or parse_assign was called: an assignment may follow.
TakesAssign(for) == for \notin Binary \cup {"prefix", "++", "else"}

here == Len(toks)
look == toks[here]
top == stack[Len(stack)]
outer == SubSeq(stack, 1, Len(stack) - 1)

Init ==
  /\ toks \in [1..1 -> Kinds]
  /\ stack = <<Statement>>
  /\ mode = "operand"
  /\ span = Span(0, 0, FALSE)
  /\ nodes = {}

\* advance: the token peeked at is taken and the next one comes up.
Advance ==
  \E kind \in Kinds \cup {"eof"} :
    /\ kind # "eof" => here < MaxTokens
    /\ toks' = Append(toks, kind)

\* An activation takes the token and waits for its operand.
Await(activations, frame) ==
  /\ Advance
  /\ stack' = Append(activations, frame)
  /\ mode' = "operand"
  /\ UNCHANGED <<span, nodes>>

\* An expression is complete, with the token at hand or before it.
Complete(expr, next) ==
  /\ span' = expr
  /\ mode' = next

Fail ==
  /\ mode' = "error"
  /\ UNCHANGED <<toks, stack, span, nodes>>

-----------------------------------------------------------------------------
\* parse_unary and parse_primary: what begins an operand, or ends an empty list or a
\* slice without an end.
Prefixes == {"-", "!", "++"}

Empty ==
  \/ top.for = "array" /\ look = "]"
  \/ top.for = "call" /\ look = ")"
  \/ top.for = "slice" /\ look = "]"

NoLowBound == top.for = "index" /\ look = ":" /\ here = top.at + 1

Name ==
  /\ mode = "operand" /\ look \in {"name", "literal"}
  /\ Advance
  /\ Complete(Span(here, here, look = "name"), "postfix")
  /\ UNCHANGED <<stack, nodes>>

Prefix ==
  /\ mode = "operand" /\ look \in Prefixes
  /\ Await(stack, Waiting(IF look = "++" THEN "++" ELSE "prefix", here, here, FALSE))

Open ==
  /\ mode = "operand" /\ look \in {"(", "["}
  /\ Await(stack, Waiting(IF look = "(" THEN "paren" ELSE "array", here, here, FALSE))

CloseEmpty ==
  /\ mode = "operand" /\ Empty
  /\ Advance
  /\ Complete(Span(top.from, here, FALSE), "postfix")
  /\ stack' = outer
  /\ nodes' = nodes \cup {Node(top.for, top.from, top.at, here)}

SliceFromStart ==
  /\ mode = "operand" /\ NoLowBound
  /\ Await(outer, [top EXCEPT !.for = "slice"])

NoOperand ==
  /\ mode = "operand"
  /\ look \notin Prefixes \cup {"name", "literal", "(", "["} /\ ~ Empty /\ ~ NoLowBound
  /\ Fail

-----------------------------------------------------------------------------
\* parse_postfix: calls, indexes and slices, and x++.
PostfixOpen ==
  /\ mode = "postfix" /\ look \in {"(", "["}
  /\ Await(stack, Waiting(IF look = "(" THEN "call" ELSE "index", span.from, here, FALSE))

PostfixIncrement ==
  /\ mode = "postfix" /\ look = "++"
  /\ IF span.target
     THEN /\ Advance
          /\ Complete(Span(span.from, here, FALSE), "postfix")
          /\ nodes' = nodes \cup {Node("x++", span.from, here, here)}
          /\ UNCHANGED stack
     ELSE Fail

EndPostfix ==
  /\ mode = "postfix" /\ look \notin {"(", "[", "++"}
  /\ mode' = "operator"
  /\ UNCHANGED <<toks, stack, span, nodes>>

-----------------------------------------------------------------------------
\* A level's loop takes an operator that binds tighter than what the expression is the
\* operand of; parse_ternary takes "?", parse_assign "=" and, after a bare name, ":=".
\* The target of an assignment is looked at when its value has been parsed.
Bound == IF top.for = "prefix" \/ top.for = "++" THEN 12 ELSE Level(top.for)

IsBare == span.from = span.to /\ toks[span.from] = "name"

TakesLook ==
  \/ look \in Binary /\ Level(look) > Bound
  \/ look = "?" /\ (TakesAssign(top.for) \/ top.for = "else")
  \/ look = "=" /\ TakesAssign(top.for)
  \/ look = ":=" /\ TakesAssign(top.for) /\ IsBare

Operator ==
  /\ mode = "operator" /\ TakesLook
  /\ Await(stack, Waiting(CASE look = "?" -> "then" [] look = ":=" -> "=" [] OTHER -> look,
                          span.from, here, span.target))

\* The expression is the last operand of an activation, whose procedure returns it, or
\* refuses the target.
Reduces == top.for \in Binary \cup {"prefix", "++", "else", "="}

Reduce ==
  /\ mode = "operator" /\ ~ TakesLook /\ Reduces
  /\ IF (top.for = "++" /\ ~ span.target) \/ (top.for = "=" /\ ~ top.target)
     THEN Fail
     ELSE /\ nodes' = nodes \cup {Node(top.for, top.from, top.at, span.to)}
          /\ Complete(Span(top.from, span.to, FALSE), "operator")
          /\ stack' = outer
          /\ UNCHANGED toks

\* ":" after the first branch of ?: or the low bound of a slice, "," in a list.
Between ==
  /\ mode = "operator" /\ ~ TakesLook
  /\ \/ /\ top.for = "then" /\ look = ":"
        /\ Await(outer, [top EXCEPT !.for = "else"])
     \/ /\ top.for = "index" /\ look = ":"
        /\ Await(outer, [top EXCEPT !.for = "slice"])
     \/ /\ top.for \in {"array", "call"} /\ look = ","
        /\ Await(outer, top)

\* The closing bracket; parentheses leave no node and keep the target.
Closers(for) ==
  CASE for \in {"paren", "call"} -> {")"}
    [] for \in {"array", "index", "slice"} -> {"]"}
    [] OTHER -> {}

Close ==
  /\ mode = "operator" /\ ~ TakesLook /\ look \in Closers(top.for)
  /\ Advance
  /\ Complete(Span(top.from, here, IF top.for = "paren" THEN span.target ELSE top.for = "index"),
              "postfix")
  /\ nodes' = IF top.for = "paren" THEN nodes
              ELSE nodes \cup {Node(top.for, top.from, top.at, here)}
  /\ stack' = outer

\* parse_stmt has its expression.
End ==
  /\ mode = "operator" /\ ~ TakesLook /\ top.for = "statement"
  /\ mode' = "done"
  /\ UNCHANGED <<toks, stack, span, nodes>>

Unclosed ==
  /\ mode = "operator" /\ ~ TakesLook /\ ~ Reduces /\ top.for # "statement"
  /\ look \notin Closers(top.for)
  /\ ~ (top.for \in {"then", "index"} /\ look = ":")
  /\ ~ (top.for \in {"array", "call"} /\ look = ",")
  /\ Fail

Next ==
  \/ Name \/ Prefix \/ Open \/ CloseEmpty \/ SliceFromStart \/ NoOperand
  \/ PostfixOpen \/ PostfixIncrement \/ EndPostfix
  \/ Operator \/ Reduce \/ Between \/ Close \/ End \/ Unclosed

Spec == Init /\ [][Next]_vars

-----------------------------------------------------------------------------
TypeOK ==
  /\ toks \in Seq(Kinds \cup {"eof"}) /\ here \in 1..(MaxTokens + 1)
  /\ mode \in {"operand", "postfix", "operator", "done", "error"}
  /\ \A i \in 1..Len(stack) : stack[i].from \in 1..here /\ stack[i].at \in 0..here
  /\ \A n \in nodes : n.from <= n.at /\ n.at <= n.to /\ n.to <= here

\* The table of docs/LANGUAGE.md, section 5, loosest first.
Table == <<{"="}, {"else"}, {"??"}, {"||"}, {"&&"}, {"|"}, {"^"}, {"&"}, {"=="}, {"<"},
           {"<<"}, {"-"}, {"*"}, {"prefix", "++"}, {"array", "call", "index", "slice", "x++"}>>

Row(node) == CHOOSE r \in 1..15 : node.kind \in Table[r]

\* What stands unbracketed at the left end and at the right end of a node.
AtLeft(n) == {m \in nodes : m.from = n.from /\ m.to < n.at}
AtRight(n) == {m \in nodes : m.from > n.at /\ m.to = n.to}

\* A parsed expression is grouped by the table: left to right within a row, but from the
\* right for assignments, ?: and prefix operators.
GroupedByTable ==
  mode = "done" => \A n \in nodes :
    /\ \A m \in AtLeft(n) :
         IF n.kind = "else" THEN Row(m) > Row(n)
         ELSE IF n.kind = "=" THEN Row(m) = 15 /\ (m.to = n.at - 1 => m.kind = "index")
         ELSE Row(m) >= Row(n)
    /\ \A m \in AtRight(n) :
         IF n.kind \in Binary THEN Row(m) > Row(n) ELSE Row(m) >= Row(n)

\* Every operator of a parsed expression made one node, nodes do not cross, and the
\* expression ends only where its statement cannot go on.
NothingLeftOut ==
  mode = "done" =>
    /\ span.from = 1 /\ span.to = here - 1
    /\ \A p \in 1..span.to :
         toks[p] \in Binary \cup Prefixes \cup {"?", "=", ":="} =>
           \E n \in nodes : n.at = p /\ \A m \in nodes : m.at = p => m = n
    /\ \A m, n \in nodes :
         m.from < n.from /\ n.from <= m.to => n.to <= m.to
    /\ look \notin Binary \cup {"?", "=", "(", "[", "++"}
=============================================================================
