------------------------------- MODULE Scopes -------------------------------
(***************************************************************************)
(* How compiler.rs finds the variable a name stands for: scopes with       *)
(* numbered slots, a compiler of its own for each function, which works on *)
(* a copy of the scopes around it, and lists of captured variables that    *)
(* are carried back into those scopes when the function is complete.       *)
(*                                                                         *)
(* A behaviour is the walk over one program, from left to right, as        *)
(* compile_stmt and compile_func_lit make it.  Parameters, and the name of *)
(* a declared function, are declared like variables and are not steps of   *)
(* their own.  Beside it runs the rule of the language: a name stands for  *)
(* the innermost variable of that name declared so far.                    *)
(*                                                                         *)
(* Bounds: Names, MaxFunctions, MaxVars, MaxBlocks, MaxNames (names        *)
(* looked up).                                                             *)
(***************************************************************************)
EXTENDS Naturals, Sequences, FiniteSetsExt

CONSTANTS Names, MaxFunctions, MaxVars, MaxBlocks, MaxNames

VARIABLES
  compilers,  \* the Compilers under way, the innermost last; the first is the program's
  sources,    \* of each function, in the order they begin: its Code.free_sources
  parent,     \* of each function: the function around it, 0 for the program
  env,        \* the language's scopes, innermost last: name -> variable
  home,       \* of each variable: the function and slot it was given
  looked_up,  \* what each name was compiled to, and the variable it should be
  blocks,     \* number of blocks so far
  repeated    \* a function around was given a name it had captured before

vars == <<compilers, sources, parent, env, home, looked_up, blocks, repeated>>

Last(s)        == s[Len(s)]
Front(s)       == SubSeq(s, 1, Len(s) - 1)
WithLast(s, e) == Append(Front(s), e)
Put(f, x, v)   == [n \in DOMAIN f \cup {x} |-> IF n = x THEN v ELSE f[n]]
Nothing        == [n \in {} |-> 0]

Scope(is_function) == [slots |-> Nothing, free_vars |-> <<>>, is_function |-> is_function]
Compiler(fn, scopes) == [fn |-> fn, scopes |-> scopes, func_local_count |-> 0]

Init ==
  /\ compilers = <<Compiler(0, <<>>)>>
  /\ sources = <<>> /\ parent = <<>>
  /\ env = <<>> /\ home = <<>> /\ looked_up = {} /\ blocks = 0 /\ repeated = FALSE

Now    == Last(compilers)
scopes == Now.scopes
Become(c) == compilers' = WithLast(compilers, c)

\* Programs of one function, perhaps in a block, with all that is in it.
Ended == Len(compilers) = 1 /\ scopes = <<>> /\ parent # <<>>

-----------------------------------------------------------------------------
(* Declarations.                                                           *)

\* A new name gets the function's next slot; block scopes share the numbering.
declare_local(x) ==
  LET declaring == [Last(scopes) EXCEPT !.slots = Put(@, x, Now.func_local_count)]
  IN  [Now EXCEPT !.scopes = WithLast(@, declaring), !.func_local_count = @ + 1]

Declare(x) ==
  /\ ~Ended /\ scopes # <<>> /\ Len(home) < MaxVars
  /\ x \notin DOMAIN Last(scopes).slots
  /\ Become(declare_local(x))
  /\ env' = WithLast(env, Put(Last(env), x, Len(home) + 1))
  /\ home' = Append(home, <<Now.fn, Now.func_local_count>>)
  /\ UNCHANGED <<sources, parent, looked_up, blocks, repeated>>

-----------------------------------------------------------------------------
(* resolve_var.                                                            *)

FunctionScopes == {i \in DOMAIN scopes : scopes[i].is_function}
cur_func_idx   == Max(FunctionScopes \cup {0})
Declaring(x)   == {i \in DOMAIN scopes : x \in DOMAIN scopes[i].slots}
SlotIn(i, x)   == scopes[i].slots[x]

BugResolveLocal(x) == Declaring(x)
\* resolve_local looks no further than the function's own scope.
resolve_local(x) == {i \in Declaring(x) : i >= cur_func_idx}

\* The position of x among what a scope captures, from 0.
Captures(i, x) == \E k \in DOMAIN scopes[i].free_vars : scopes[i].free_vars[k].name = x
CaptureOf(i, x) ==
  Min({k \in DOMAIN scopes[i].free_vars : scopes[i].free_vars[k].name = x}) - 1

\* Captured through every function between the declaration and the name: the
\* outermost takes the slot, each of the others what the one around it has just got.
decl_idx(x) == Max({i \in Declaring(x) : i < cur_func_idx})
Between(x)  == {m \in FunctionScopes : m > decl_idx(x)}
FreeVarEntry(x, m) ==
  LET around == {n \in Between(x) : n < m}
  IN  IF around = {} THEN [name |-> x, is_local |-> TRUE, index |-> SlotIn(decl_idx(x), x)]
      ELSE [name |-> x, is_local |-> FALSE, index |-> Len(scopes[Max(around)].free_vars)]
Capturing(x) ==
  [m \in DOMAIN scopes |->
     IF m \in Between(x) THEN [scopes[m] EXCEPT !.free_vars = Append(@, FreeVarEntry(x, m))]
                         ELSE scopes[m]]

Reference(x, kind, index) ==
  [fn |-> Now.fn, kind |-> kind, index |-> index, name |-> x,
   meant |-> LET i == Max({0} \cup {j \in DOMAIN env : x \in DOMAIN env[j]})
             IN  IF i = 0 THEN 0 ELSE env[i][x]]
LookedUp(x, kind, index) == looked_up' = looked_up \cup {Reference(x, kind, index)}

ResolveLocal(x) ==
  /\ resolve_local(x) # {}
  /\ LookedUp(x, "Local", SlotIn(Max(resolve_local(x)), x))
  /\ UNCHANGED <<compilers, repeated>>

ResolveCaptured(x) ==
  /\ resolve_local(x) = {} /\ cur_func_idx # 0 /\ Captures(cur_func_idx, x)
  /\ LookedUp(x, "Free", CaptureOf(cur_func_idx, x))
  /\ UNCHANGED <<compilers, repeated>>

ResolveFree(x) ==
  /\ resolve_local(x) = {} /\ cur_func_idx # 0 /\ ~Captures(cur_func_idx, x)
  /\ \E i \in Declaring(x) : i < cur_func_idx
  /\ Become([Now EXCEPT !.scopes = Capturing(x)])
  /\ LookedUp(x, "Free", Len(scopes[cur_func_idx].free_vars))
  /\ repeated' = (repeated \/ \E m \in Between(x) : Captures(m, x))

ResolveGlobal(x) ==
  /\ Declaring(x) = {}
  /\ LookedUp(x, "Global", 0)
  /\ UNCHANGED <<compilers, repeated>>

\* emit_load_var and emit_assign_var.
LookUp(x) ==
  /\ ~Ended /\ Cardinality(looked_up) < MaxNames
  /\ ResolveLocal(x) \/ ResolveCaptured(x) \/ ResolveFree(x) \/ ResolveGlobal(x)
  /\ UNCHANGED <<sources, parent, env, home, blocks>>

-----------------------------------------------------------------------------
(* Blocks and functions.                                                   *)

OpenBlock ==
  /\ ~Ended /\ blocks < MaxBlocks
  /\ Become([Now EXCEPT !.scopes = Append(@, Scope(FALSE))])
  /\ env' = Append(env, Nothing) /\ blocks' = blocks + 1
  /\ UNCHANGED <<sources, parent, home, looked_up, repeated>>

BugPopScope(c) == [c EXCEPT !.scopes = Front(@), !.func_local_count = @ - Cardinality(DOMAIN Last(c.scopes).slots)]
\* The slots of a block are not given back.
pop_scope(c) == [c EXCEPT !.scopes = Front(@)]

CloseBlock ==
  /\ scopes # <<>> /\ ~Last(scopes).is_function
  /\ Become(pop_scope(Now))
  /\ env' = Front(env)
  /\ UNCHANGED <<sources, parent, home, looked_up, blocks, repeated>>

\* compile_func_lit: a compiler for the function, with a copy of the scopes.
OpenFunction ==
  /\ ~Ended /\ Len(parent) < MaxFunctions
  /\ compilers' = Append(compilers, Compiler(Len(parent) + 1, Append(scopes, Scope(TRUE))))
  /\ parent' = Append(parent, Now.fn) /\ sources' = Append(sources, <<>>)
  /\ env' = Append(env, Nothing)
  /\ UNCHANGED <<home, looked_up, blocks, repeated>>

BugCarriedBack(outer, sub) == outer
\* What the copy captured is added to the scope it was copied from, names that the
\* scope captures already left out.
Merged(outer, sub) ==
  LET list[k \in 0 .. Len(sub)] ==
        IF k = 0 THEN outer
        ELSE IF \E j \in DOMAIN outer : outer[j].name = sub[k].name THEN list[k - 1]
        ELSE Append(list[k - 1], sub[k])
  IN  list[Len(sub)]

CarriedBack(outer, sub) ==
  [i \in DOMAIN outer |->
     [outer[i] EXCEPT !.free_vars = Merged(@, sub[i].free_vars)]]

CloseFunction ==
  LET around == compilers[Len(compilers) - 1]
  IN  /\ Len(compilers) > 1 /\ Last(scopes).is_function
      /\ sources' = [sources EXCEPT ![Now.fn] =
           [k \in DOMAIN Last(scopes).free_vars |->
              [is_local |-> Last(scopes).free_vars[k].is_local, index |-> Last(scopes).free_vars[k].index]]]
      /\ compilers' = WithLast(Front(compilers),
                         [around EXCEPT !.scopes = CarriedBack(@, Front(scopes))])
      /\ env' = Front(env)
      /\ UNCHANGED <<parent, home, looked_up, blocks, repeated>>

Next ==
  \/ \E x \in Names : Declare(x) \/ LookUp(x)
  \/ OpenBlock \/ CloseBlock \/ OpenFunction \/ CloseFunction

Spec == Init /\ [][Next]_vars

-----------------------------------------------------------------------------
TypeOK ==
  /\ \A c \in DOMAIN compilers :
       /\ compilers[c].fn \in 0 .. Len(parent) /\ compilers[c].func_local_count \in Nat
       /\ \A i \in DOMAIN compilers[c].scopes :
            DOMAIN compilers[c].scopes[i].slots \subseteq Names
  /\ Len(sources) = Len(parent) /\ Len(parent) <= MaxFunctions
  /\ \A f \in DOMAIN parent : parent[f] \in 0 .. (f - 1)
  /\ Len(env) = Len(scopes) /\ blocks \in 0 .. MaxBlocks /\ repeated \in BOOLEAN

\* Opcode::Closure, LoadFree and StoreFree: the function that makes a closure hands it
\* its own slots and what it captured itself.
Missing == <<0, 0, 0>>
Captured[at \in (0 .. Len(parent)) \X Nat] ==
  LET f == at[1]
      index == at[2]
  IN  IF f = 0 \/ index >= Len(sources[f]) THEN Missing
      ELSE LET source == sources[f][index + 1]
           IN  IF source.is_local THEN <<parent[f], source.index>>
               ELSE Captured[<<parent[f], source.index>>]

Found(r) == IF r.kind = "Local" THEN <<r.fn, r.index>> ELSE Captured[<<r.fn, r.index>>]

\* Every name reads and writes the variable it stands for: "captures outer variables,
\* sharing their state" (LANGUAGE.md 417), through any number of functions.
NamesAreRight ==
  Ended => \A r \in looked_up :
    IF r.meant = 0 THEN r.kind = "Global"
    ELSE r.kind # "Global" /\ Found(r) = home[r.meant]

\* So it is unless a function had the name captured already when a function inside it
\* captured it once more.
RightUnlessRepeated == ~repeated => NamesAreRight

\* Two variables of a function never share a slot, not even those of blocks that have
\* ended: a closure may still hold the first (LANGUAGE.md 1073).
SlotsAreOwn == \A i, j \in DOMAIN home : home[i] = home[j] => i = j
=============================================================================
