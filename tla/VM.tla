--------------------------------- MODULE VM ---------------------------------
(***************************************************************************)
(* The control flow of vm.rs: execute_frames drives a stack of frames      *)
(* through calls, try statements, deferred calls, callbacks from builtins  *)
(* and imports, and may leave at any instruction (fuel) or when a builtin  *)
(* parks the task, to go on in a later slice.                              *)
(*                                                                         *)
(* The steps of one round of execute_frames are actions; `ctl` says which  *)
(* comes next.  A nested execute_frames (call_function_value, run) is an   *)
(* entry of `native`, the Rust stack.  Data instructions are abstracted to *)
(* those of module Compiler.  Names of functions and builtins are values;  *)
(* the builtins are show (notes its last argument), boom (throws), recv    *)
(* (an empty channel: waits for a value), acquire (may wait, then repeats  *)
(* the call), read and fail (blocking, offloaded from a task) and each     *)
(* (calls its argument back once).                                         *)
(*                                                                         *)
(* Bounds: the programs, MaxDepth, MaxWaits parks in acquire.              *)
(*                                                                         *)
(* Operators named Bug... are plausible mistakes that the runs are tried   *)
(* against; no specification uses them.                                    *)
(***************************************************************************)
EXTENDS Naturals, Sequences, FiniteSets

CONSTANTS
  Programs,   \* the programs
  InTask,     \* those that run in a task; the others run on the main thread
  CodeOf(_),  \* a program's code: function or module -> instructions
  MeaningOf(_), \* what it should show and how it should end: [shown, how, val]
  MaxDepth,   \* max_call_depth
  MaxWaits,
  None

Code    == [p \in Programs |-> CodeOf(p)]
Meaning == [p \in Programs |-> MeaningOf(p)]

Builtins == {"show", "boom", "recv", "read", "fail", "acquire", "each"}

ASSUME VMAssumption ==
  /\ MaxDepth \in Nat /\ MaxWaits \in Nat
  /\ InTask \subseteq Programs
  /\ None \notin Builtins
  /\ \A p \in Programs : "main" \in DOMAIN Code[p]

VARIABLES
  prog,            \* the program
  frames,          \* VM.frames, the top frame last
  stack,           \* VM.stack
  depth,           \* VM.depth
  native,          \* the nested execute_frames, innermost last
  pause,           \* VM.pause
  pending_throw,   \* VM.pending_throw
  imported,        \* VM.imported_modules
  ctl,             \* the step of execute_frames that comes next
  flow,            \* the event, result or builtin result it is about
  call,            \* the builtin call that returns
  awaited,         \* the builtin whose answer the task waits for
  waits,           \* number of parks in acquire so far
  shown            \* what the program has shown

frameVars == <<frames, stack, depth, native>>
pauseVars == <<pause, pending_throw, awaited, waits>>
libVars   == <<imported, shown>>
ctlVars   == <<ctl, flow, call>>
vars == <<prog, frameVars, pauseVars, libVars, ctlVars>>

Functions == DOMAIN Code[prog]
inTask    == prog \in InTask

\* Control flow under way: an event, a result or a pending one.
Flow(kind, v) == [kind |-> kind, val |-> v, target |-> 0, leave |-> 0]
NoFlow == Flow("none", "undefined")
Jump(target, leave) == [kind |-> "jump", val |-> "undefined", target |-> target, leave |-> leave]
NoCall == [callee |-> "none", args |-> <<>>, by |-> "instr"]

NoFinish == [result |-> NoFlow, rest |-> <<>>, err |-> NoFlow]
Finishing(f) == f.finish # NoFinish

\* base is not in the code: the height of the operand stack below the frame.
Frame(fn, resume, base) ==
  [fn |-> fn, ip |-> 1, e |-> "undefined", count |-> [i \in 1 .. 3 |-> 0],
   defers |-> <<>>, try |-> <<>>, resume |-> resume, finish |-> NoFinish, base |-> base]

Init ==
  /\ prog \in Programs
  /\ frames = <<Frame("main", "TopLevel", 0)>>
  /\ stack = <<>> /\ depth = 0 /\ native = <<>>
  /\ pause = "None" /\ pending_throw = None /\ awaited = None /\ waits = 0
  /\ imported = {} /\ shown = <<>>
  /\ ctl = "machine" /\ flow = NoFlow /\ call = NoCall

-----------------------------------------------------------------------------
Last(s)      == s[Len(s)]
Front(s)     == SubSeq(s, 1, Len(s) - 1)
BugKeep(s, n) == s
Keep(s, n)   == IF Len(s) > n THEN SubSeq(s, 1, n) ELSE s    \* Vec::truncate
WithLast(s, x) == Append(Front(s), x)

Top == Last(frames)
Ins == Code[prog][Top.fn][Top.ip]
Advanced == [Top EXCEPT !.ip = @ + 1]
Become(f) == frames' = WithLast(frames, f)

Goto(c) == ctl' = c /\ UNCHANGED <<flow, call>>
Raise(c, f) == ctl' = c /\ flow' = f /\ UNCHANGED call

BugParkDisabled == FALSE
ParkDisabled == \E i \in DOMAIN native : native[i].what = "callback"
\* park_current_task_inject refuses, can_offload_blocking says no.
Refused == Finishing(Top) \/ ParkDisabled

-----------------------------------------------------------------------------
(* The instructions of the top frame.                                      *)

Running(op) ==
  /\ ctl = "machine" /\ pending_throw = None /\ ~Finishing(Top)
  /\ Ins.op = op

\* An instruction that changes only its frame and the operand stack.
Local(f, stk) ==
  /\ Become(f) /\ stack' = stk
  /\ UNCHANGED <<prog, depth, native, pauseVars, libVars, ctlVars>>

Data ==
  \/ Running("Const") /\ Local(Advanced, Append(stack, Ins.val))
  \/ Running("LoadLocal") /\ Local(Advanced, Append(stack, Top.e))
  \/ Running("Bind") /\ Local([Advanced EXCEPT !.e = Last(stack)], Front(stack))
  \/ Running("Pop") /\ Local(Advanced, Front(stack))
  \/ Running("Jump") /\ Local([Top EXCEPT !.ip = Ins.target], stack)
  \/ Running("Reset") /\ Local([Advanced EXCEPT !.count[Ins.n] = 0], stack)
  \/ Running("Inc") /\ Local([Advanced EXCEPT !.count[Ins.n] = @ + 1], stack)
  \/ Running("Test")
     /\ Local(IF Top.count[Ins.n] < 2 THEN Advanced ELSE [Top EXCEPT !.ip = Ins.target], stack)
  \/ Running("Case")
     /\ Local(IF Ins.n # 0 THEN Advanced ELSE [Top EXCEPT !.ip = Ins.target], stack)

\* Callee and arguments on the operand stack, as the entry of a later call.
Called(n) == [callee |-> stack[Len(stack) - n], args |-> SubSeq(stack, Len(stack) - n + 1, Len(stack))]
Below(n)  == SubSeq(stack, 1, Len(stack) - n - 1)

DeferCall ==
  /\ Running("Defer")
  /\ Local([Advanced EXCEPT !.defers = Append(@, Called(Ins.n))], Below(Ins.n))

\* at, the address of the statement's PushTry, is not in the code.
TryEntry ==
  [catch |-> Ins.catch, finally |-> Ins.finally, end |-> Ins.target, phase |-> "Body",
   snapshot |-> Len(stack), pending |-> NoFlow, at |-> Top.ip]

PushTry ==
  /\ Running("PushTry")
  /\ Local([Advanced EXCEPT !.try = Append(@, TryEntry)], stack)

\* TryBodyEnd and CatchEnd: into the finally block, or on without the entry.
BlockEnd ==
  LET te == Last(Top.try)
  IN  /\ Running("TryBodyEnd") \/ Running("CatchEnd")
      /\ IF te.finally # 0
           THEN Local([Top EXCEPT !.ip = te.finally,
                                  !.try = WithLast(@, [te EXCEPT !.phase = "Finally", !.pending = NoFlow])],
                      Keep(stack, te.snapshot))
           ELSE Local([Advanced EXCEPT !.try = Front(@)], stack)

\* The end of a finally block takes up what was pending.
ExitFinally ==
  LET te == Last(Top.try)
      left == [Top EXCEPT !.try = Front(@)]
  IN  /\ Running("ExitFinally")
      /\ IF te.pending = NoFlow
           THEN Local([left EXCEPT !.ip = te.end], stack)
           ELSE /\ Become(left) /\ Raise("event", te.pending)
                /\ UNCHANGED <<prog, stack, depth, native, pauseVars, libVars>>

\* Throw, Return, ReturnVoid and LeaveLoop raise an event.
RaiseEvent(f, stk, ev) ==
  /\ Become(f) /\ stack' = stk /\ Raise("event", ev)
  /\ UNCHANGED <<prog, depth, native, pauseVars, libVars>>

Events ==
  \/ Running("Throw") /\ RaiseEvent(Advanced, Front(stack), Flow("throw", Last(stack)))
  \/ Running("Return") /\ RaiseEvent(Top, Front(stack), Flow("return", Last(stack)))
  \/ Running("ReturnVoid") /\ RaiseEvent(Top, stack, Flow("return", "undefined"))
  \/ Running("LeaveLoop") /\ RaiseEvent(Advanced, stack, Jump(Ins.target, Ins.n))

-----------------------------------------------------------------------------
(* start_call, from a Call instruction or for a deferred call: fs is the   *)
(* frame stack with the caller already past the call, stk the operands     *)
(* below callee and arguments.                                             *)

Answer(r) == ctl' = "returned" /\ flow' = r
Undefined == Flow("return", "undefined")

BugMayCall == depth <= MaxDepth
MayCall == depth < MaxDepth

\* A script function gets a frame; a builtin that calls back, one of its own run.
Enter(fs, stk, fn, resume, runs) ==
  /\ frames' = Append(fs, Frame(fn, resume, Len(stk))) /\ stack' = stk
  /\ depth' = depth + 1 /\ native' = runs
  /\ Goto("machine")
  /\ UNCHANGED <<prog, pauseVars, libVars>>

\* (A builtin that is itself called back is not modelled.)
CallsBack(c) == c.callee = "each" /\ c.args # <<>> /\ c.args[1] \in Functions
EnterFunction(fs, stk, c) ==
  /\ c.callee \in Functions /\ MayCall
  /\ Enter(fs, stk, c.callee, "PushResult", native)
CallBack(fs, stk, c) ==
  /\ CallsBack(c) /\ MayCall
  /\ Enter(fs, stk, c.args[1], "TopLevel", Append(native, [what |-> "callback", call |-> c]))

\* The call returns to its site at once, with an error or a result.
ReturnsAtOnce(fs, stk, c, r) ==
  /\ frames' = fs /\ stack' = stk /\ call' = c /\ Answer(r)
  /\ UNCHANGED <<prog, depth, native>>

TooDeep(fs, stk, c) ==
  /\ c.callee \in Functions \/ CallsBack(c)
  /\ ~MayCall
  /\ ReturnsAtOnce(fs, stk, c, Flow("throw", "too deep"))
  /\ UNCHANGED <<pauseVars, libVars>>

NotCallable(fs, stk, c) ==
  LET fn == IF c.callee = "each" /\ c.args # <<>> THEN c.args[1] ELSE c.callee
  IN  /\ fn \notin Functions \cup Builtins \/ (c.callee = "each" /\ c.args = <<>>)
      /\ ReturnsAtOnce(fs, stk, c, Flow("throw", "not callable"))
      /\ UNCHANGED <<pauseVars, libVars>>

\* What a builtin returns if it need not or cannot park.
Blocking == {"read", "fail"}
Result(b) ==
  CASE b = "boom" -> Flow("throw", "boom")
    [] b = "fail" -> Flow("throw", "io")
    [] b = "read" -> Flow("return", "data")
    [] b = "recv" -> Flow("return", "message")
    [] b \in {"show", "acquire"} -> Undefined

InPlace(fs, stk, c) ==
  LET refused == Refused \* of the frame that calls
  IN  /\ c.callee \in Builtins \ {"each"}
      /\ inTask => /\ c.callee = "recv" => refused
                   /\ c.callee \in Blocking => refused
      /\ ReturnsAtOnce(fs, stk, c, IF c.callee = "recv" /\ inTask THEN Flow("throw", "refused")
                                   ELSE Result(c.callee))
      /\ shown' = IF c.callee = "show" THEN Append(shown, Last(c.args)) ELSE shown
      /\ UNCHANGED <<imported, pauseVars>>

\* recv and the blocking builtins park for a value, acquire to be called again.
ParkInject(fs, stk, c) ==
  /\ inTask /\ ~Refused /\ c.callee \in Blocking \cup {"recv"}
  /\ pause' = "ParkedInject" /\ awaited' = c.callee
  /\ ReturnsAtOnce(fs, stk, c, Undefined)
  /\ UNCHANGED <<pending_throw, waits, libVars>>

ParkRetry(fs, stk, c) ==
  /\ inTask /\ c.callee = "acquire" /\ waits < MaxWaits
  /\ pause' = "Parked" /\ awaited' = "acquire" /\ waits' = waits + 1
  /\ ReturnsAtOnce(fs, stk, c, Undefined)
  /\ UNCHANGED <<pending_throw, libVars>>

StartCall(fs, stk, c) ==
  \/ EnterFunction(fs, stk, c)
  \/ CallBack(fs, stk, c)
  \/ TooDeep(fs, stk, c)
  \/ NotCallable(fs, stk, c)
  \/ InPlace(fs, stk, c)
  \/ ParkInject(fs, stk, c)
  \/ ParkRetry(fs, stk, c)

Site(d, by) == [callee |-> d.callee, args |-> d.args, by |-> by]

CallInstr ==
  /\ Running("Call")
  /\ StartCall(WithLast(frames, Advanced), Below(Ins.n), Site(Called(Ins.n), "instr"))

\* The top frame has ended and calls its deferred functions, last first.
NextDefer ==
  /\ ctl = "machine" /\ pending_throw = None
  /\ Finishing(Top) /\ Top.finish.rest # <<>>
  /\ StartCall(WithLast(frames, [Top EXCEPT !.finish.rest = Front(@)]), stack,
               Site(Last(Top.finish.rest), "defer"))

\* A builtin that parked to be called again: the call is put back.
PutBack ==
  /\ IF call.by = "instr"
       THEN Become([Top EXCEPT !.ip = @ - 1]) /\ stack' = stack \o <<call.callee>> \o call.args
       ELSE /\ Become([Top EXCEPT !.finish.rest =
                         Append(@, [callee |-> call.callee, args |-> call.args])])
            /\ UNCHANGED stack
  /\ ctl' = "yield"

\* The result goes to the operand stack, an error is thrown at the call.
ToCaller ==
  /\ IF flow.kind = "return"
       THEN /\ stack' = Append(stack, flow.val)
            /\ ctl' = IF pause = "ParkedInject" THEN "yield" ELSE "machine"
       ELSE ctl' = "event" /\ UNCHANGED stack
  /\ UNCHANGED frames

\* A deferred call's result is dropped, its error kept for the end of the frame.
ToFinish ==
  /\ frames' = IF flow.kind = "return" THEN frames
               ELSE WithLast(frames, [Top EXCEPT !.finish.err = flow])
  /\ ctl' = "machine" /\ UNCHANGED stack

Returned ==
  /\ ctl = "returned"
  /\ IF pause = "Parked" /\ call.callee \in Builtins THEN PutBack
     ELSE IF call.by = "instr" THEN ToCaller
     ELSE ToFinish
  /\ call' = NoCall /\ flow' = IF ctl' = "event" THEN flow ELSE NoFlow
  /\ UNCHANGED <<prog, depth, native, pauseVars, libVars>>

-----------------------------------------------------------------------------
(* dispatch_event_parts: an event looks for a try entry of the top frame   *)
(* that takes it, from the innermost outwards; a jump only among those it  *)
(* leaves.                                                                 *)

Takes(te, kind) ==
  \/ kind = "throw" /\ te.phase = "Body" /\ te.catch # 0
  \/ te.phase # "Finally" /\ te.finally # 0
Reach ==
  {i \in DOMAIN Top.try : flow.kind = "jump" => i > Len(Top.try) - flow.leave}
Takers == {i \in Reach : Takes(Top.try[i], flow.kind)}
Innermost == CHOOSE i \in Takers : \A j \in Takers : j <= i

BugPending(i) ==
  IF flow.kind = "jump" THEN [flow EXCEPT !.leave = @ - (Len(Top.try) - i)] ELSE flow
\* What is left of a jump when it enters the finally block of entry i.
Pending(i) ==
  IF flow.kind = "jump" THEN [flow EXCEPT !.leave = @ - (Len(Top.try) - i) - 1] ELSE flow

EnterCatch(i) ==
  LET te == Top.try[i]
  IN  /\ flow.kind = "throw" /\ te.phase = "Body" /\ te.catch # 0
      /\ Become([Top EXCEPT !.ip = te.catch,
                            !.try = Append(SubSeq(@, 1, i - 1), [te EXCEPT !.phase = "Catch"])])
      /\ stack' = Append(Keep(stack, te.snapshot), flow.val)

EnterFinally(i) ==
  LET te == Top.try[i]
  IN  /\ ~(flow.kind = "throw" /\ te.phase = "Body" /\ te.catch # 0)
      /\ Become([Top EXCEPT !.ip = te.finally,
                            !.try = Append(SubSeq(@, 1, i - 1),
                                      [te EXCEPT !.phase = "Finally", !.pending = Pending(i)])])
      /\ stack' = Keep(stack, te.snapshot)

TakeEvent ==
  /\ ctl = "event" /\ Takers # {}
  /\ EnterCatch(Innermost) \/ EnterFinally(Innermost)
  /\ ctl' = "machine" /\ flow' = NoFlow /\ UNCHANGED call
  /\ UNCHANGED <<prog, depth, native, pauseVars, libVars>>

FinishJump ==
  /\ ctl = "event" /\ Takers = {} /\ flow.kind = "jump"
  /\ Become([Top EXCEPT !.ip = flow.target, !.try = Keep(@, Len(@) - flow.leave)])
  /\ ctl' = "machine" /\ flow' = NoFlow /\ UNCHANGED call
  /\ UNCHANGED <<prog, stack, depth, native, pauseVars, libVars>>

BugDepthWithout(f) == IF f.resume = "PushResult" /\ f.defers = <<>> THEN depth - 1 ELSE depth
\* A called frame gives its level of depth back when it ends; a callback's is given
\* back by whoever called it.
DepthWithout(f) == IF f.resume = "PushResult" THEN depth - 1 ELSE depth

\* Nobody takes it: the frame ends, at once or after its deferred calls.
EndFrame ==
  /\ ctl = "event" /\ Takers = {} /\ flow.kind # "jump"
  /\ depth' = DepthWithout(Top)
  /\ IF Top.defers # <<>>
       THEN /\ Become([Top EXCEPT !.try = <<>>, !.defers = <<>>,
                         !.finish = [result |-> flow, rest |-> Top.defers, err |-> NoFlow]])
            /\ ctl' = "machine" /\ flow' = NoFlow /\ UNCHANGED call
       ELSE Become([Top EXCEPT !.try = <<>>]) /\ Goto("deliver")
  /\ UNCHANGED <<prog, stack, native, pauseVars, libVars>>

\* The last deferred call has been made: the frame's result, or the last error.
Finished ==
  /\ ctl = "machine" /\ pending_throw = None
  /\ Finishing(Top) /\ Top.finish.rest = <<>>
  /\ Raise("deliver", IF Top.finish.err # NoFlow THEN Top.finish.err ELSE Top.finish.result)
  /\ UNCHANGED <<prog, frameVars, pauseVars, libVars>>

\* deliver_frame_result: to the frame below, or to whoever ran execute_frames.
DeliverToFrame ==
  LET under  == Front(frames)
      caller == Last(under)
  IN  /\ ctl = "deliver" /\ Top.resume = "PushResult"
      /\ IF Finishing(caller)
           THEN /\ frames' = IF flow.kind = "throw"
                               THEN WithLast(under, [caller EXCEPT !.finish.err = flow]) ELSE under
                /\ ctl' = "machine" /\ flow' = NoFlow /\ UNCHANGED stack
           ELSE /\ frames' = under
                /\ IF flow.kind = "return"
                     THEN stack' = Append(stack, flow.val) /\ ctl' = "machine" /\ flow' = NoFlow
                     ELSE ctl' = "event" /\ UNCHANGED <<stack, flow>>
      /\ UNCHANGED <<prog, depth, native, pauseVars, libVars, call>>

\* A nested execute_frames ends with its frame: call_function_value counts the
\* depth down and its builtin returns the result, do_import drops it.
EndNested(run, r) ==
  /\ native' = Front(native)
  /\ IF run.what = "callback"
       THEN depth' = depth - 1 /\ call' = run.call /\ Answer(r) /\ UNCHANGED imported
       ELSE /\ imported' = IF r.kind = "return" THEN imported \cup {run.call.callee} ELSE imported
            /\ IF r.kind = "return" THEN ctl' = "machine" /\ flow' = NoFlow
               ELSE ctl' = "event" /\ flow' = r
            /\ UNCHANGED <<depth, call>>

DeliverToRun ==
  /\ ctl = "deliver" /\ Top.resume = "TopLevel" /\ native # <<>>
  /\ frames' = Front(frames)
  /\ EndNested(Last(native), flow)
  /\ UNCHANGED <<prog, stack, pauseVars, shown>>

\* The first run's frame: the program ends.
EndProgram ==
  /\ ctl = "deliver" /\ Top.resume = "TopLevel" /\ native = <<>>
  /\ frames' = <<>> /\ ctl' = "done"
  /\ UNCHANGED <<prog, stack, depth, native, pauseVars, libVars, flow, call>>

-----------------------------------------------------------------------------
(* do_import: a module runs once, in an execute_frames of its own.         *)

Loading == {native[i].call.callee : i \in {j \in DOMAIN native : native[j].what = "import"}}

ImportModule ==
  /\ Running("Import")
  /\ IF Ins.val \in imported
       THEN Local(Advanced, stack)
     ELSE IF Ins.val \in Loading
       THEN RaiseEvent(Advanced, stack, Flow("throw", "cycle"))
     ELSE /\ frames' = Append(WithLast(frames, Advanced), Frame(Ins.val, "TopLevel", Len(stack)))
          /\ native' = Append(native, [what |-> "import", call |-> [NoCall EXCEPT !.callee = Ins.val]])
          /\ UNCHANGED <<prog, stack, depth, pauseVars, libVars, ctlVars>>

-----------------------------------------------------------------------------
(* Slices.                                                                 *)

\* Out of fuel.  Only the outermost run has a budget, and only in a task.
OutOfFuel ==
  /\ ctl = "machine" /\ pending_throw = None /\ ~Finishing(Top)
  /\ inTask /\ native = <<>>
  /\ pause' = "YieldFuel" /\ Goto("yield")
  /\ UNCHANGED <<prog, frameVars, pending_throw, awaited, waits, libVars>>

\* execute_frames returns Yield: the slice ends, or a nested run, whose caller takes
\* it for the end of its frame.
Yield ==
  /\ ctl = "yield"
  /\ IF native = <<>>
       THEN Goto("paused") /\ UNCHANGED <<depth, native, imported>>
       ELSE EndNested(Last(native), Undefined)
  /\ UNCHANGED <<prog, frames, stack, pauseVars, shown>>

\* The next slice: the value that was waited for replaces the placeholder, an
\* error is thrown in the top frame.
NextSlice ==
  /\ ctl = "paused"
  /\ stack' = IF awaited \in {"recv", "read"} THEN WithLast(stack, Result(awaited).val) ELSE stack
  /\ pending_throw' = IF awaited = "fail" THEN Result("fail").val ELSE None
  /\ pause' = "None" /\ awaited' = None
  /\ Goto("machine")
  /\ UNCHANGED <<prog, frames, depth, native, waits, libVars>>

DeliverError ==
  /\ ctl = "machine" /\ pending_throw # None
  /\ pending_throw' = None /\ Raise("event", Flow("throw", pending_throw))
  /\ UNCHANGED <<prog, frameVars, pause, awaited, waits, libVars>>

-----------------------------------------------------------------------------
Execute ==
  \/ Data \/ DeferCall \/ PushTry \/ BlockEnd \/ ExitFinally \/ Events \/ CallInstr
  \/ NextDefer \/ Finished \/ Returned
  \/ TakeEvent \/ FinishJump \/ EndFrame
  \/ DeliverToFrame \/ DeliverToRun \/ EndProgram
  \/ ImportModule \/ Yield \/ DeliverError

\* The program has ended.
Terminated == ctl = "done" /\ UNCHANGED vars

Next == Execute \/ OutOfFuel \/ NextSlice \/ Terminated

Spec == Init /\ [][Next]_vars

-----------------------------------------------------------------------------
FlowKinds == {"none", "return", "throw", "jump"}
TypeOK ==
  /\ prog \in Programs
  /\ depth \in 0 .. MaxDepth /\ waits \in 0 .. MaxWaits
  /\ pause \in {"None", "Parked", "ParkedInject", "YieldFuel"}
  /\ awaited \in Builtins \cup {None}
  /\ imported \subseteq Functions
  /\ ctl \in {"machine", "event", "deliver", "returned", "yield", "paused", "done"}
  /\ flow.kind \in FlowKinds /\ flow.leave \in Nat
  /\ ctl \in {"event", "deliver", "returned"} => flow # NoFlow
  /\ \A i \in DOMAIN frames :
       /\ frames[i].fn \in Functions
       /\ frames[i].ip \in DOMAIN Code[prog][frames[i].fn]
       /\ frames[i].resume \in {"TopLevel", "PushResult"}
       /\ frames[i].base \in 0 .. Len(stack)

Ended(i) == Finishing(frames[i]) \/ (ctl = "deliver" /\ i = Len(frames))

\* The call depth is the number of calls in progress, a call whose deferred calls
\* run not counted, a callback counted to its very end.  If a way out of a
\* function missed its decrement, long programs would fail with "max call depth".
DepthMatches ==
  depth = Cardinality({i \in DOMAIN frames : frames[i].resume = "PushResult" /\ ~Ended(i)})
          + Cardinality({i \in DOMAIN native : native[i].what = "callback"})

\* Every running execute_frames has one frame to end with: the one it was started
\* for.  Otherwise the wrong run takes a result, or the task ends in the middle.
EveryRunHasItsFrame ==
  ctl # "done" =>
    Cardinality({i \in DOMAIN frames : frames[i].resume = "TopLevel"}) = Len(native) + 1

\* Only a slice is left before its end: "a Yield is out of reach" in a callback, where
\* waiting is refused (call_function_value), and in a module (run).
NestedRunsEnd == ctl = "yield" => native = <<>>

Blocks(try) == [j \in DOMAIN try |-> [phase |-> try[j].phase, at |-> try[j].at]]

\* Between two instructions, a frame's try entries and their phases are the try
\* blocks the next instruction stands in: the number of try statements the compiler
\* lets a break or continue leave is the number of entries there are.
TryEntriesMatchCode ==
  ctl \in {"machine", "paused"} =>
    \A i \in DOMAIN frames :
      LET f == frames[i]
      IN  ~Finishing(f) /\ (i = Len(frames) => pending_throw = None) =>
            Code[prog][f.fn][f.ip].nest = Blocks(f.try)

\* A function that returns leaves nothing on the operand stack, whatever
\* half-evaluated expressions were abandoned on the way, and a try statement goes
\* back to the operands the code around it has there.
OperandsBalanced ==
  /\ ctl = "deliver" /\ flow.kind = "return" => Len(stack) = Top.base
  /\ \A i \in DOMAIN frames : \A j \in DOMAIN frames[i].try :
       LET te == frames[i].try[j]
       IN  te.snapshot = frames[i].base + Code[prog][frames[i].fn][te.at].height

-----------------------------------------------------------------------------
(* What the compiler promises of the code: wherever an instruction leads,  *)
(* the code there expects the try blocks and the operands it will find.    *)

\* Control may come to address i in these try blocks, with so many operands.
Expects(code, i, nest, height) ==
  i \in DOMAIN code /\ code[i].nest = nest /\ code[i].height = height

\* At address i the function has k operands to give, above those that the try
\* statements it stands in go back to.
Spare(code, i, k) ==
  /\ k <= code[i].height
  /\ \A j \in DOMAIN code[i].nest : code[code[i].nest[j].at].height + k <= code[i].height

PushTryOK(code, i) ==
  LET I == code[i]
      In(phase) == Append(I.nest, [phase |-> phase, at |-> i])
  IN  /\ I.catch \in Nat /\ I.finally \in Nat
      /\ Expects(code, i + 1, In("Body"), I.height)
      /\ I.catch # 0 => Expects(code, I.catch, In("Catch"), I.height + 1)
      /\ I.finally # 0 => Expects(code, I.finally, In("Finally"), I.height)
      /\ Expects(code, I.target, I.nest, I.height)

\* A block of a try statement ends with the operands the statement began with.
BlockEndOK(code, i) ==
  LET I == code[i]
      te == code[Last(I.nest).at]
  IN  /\ I.nest # <<>> /\ I.height = te.height
      /\ te.finally = 0 => Expects(code, i + 1, Front(I.nest), I.height)

\* A jump out of try statements finds as many operands at its target, and no statement
\* it leaves has gone back to fewer.
LeaveLoopOK(code, i) ==
  LET I == code[i]
      m == Len(I.nest) - I.n
  IN  /\ I.n <= Len(I.nest) /\ i + 1 \in DOMAIN code
      /\ Expects(code, I.target, SubSeq(I.nest, 1, m), I.height)
      /\ \A j \in m + 1 .. Len(I.nest) : code[I.nest[j].at].height = I.height

\* By what they do to the operands and where they lead.
InstrOK(fns, code, i) ==
  LET I == code[i]
      OnWith(n) == Expects(code, i + 1, I.nest, n)
      h == I.height
  IN  \/ I.op \in {"Const", "LoadLocal"} /\ OnWith(h + 1)
      \/ I.op \in {"Bind", "Pop"} /\ Spare(code, i, 1) /\ OnWith(h - 1)
      \/ I.op = "Jump" /\ Expects(code, I.target, I.nest, h)
      \/ I.op \in {"Reset", "Inc"} /\ OnWith(h)
      \/ I.op \in {"Test", "Case"} /\ OnWith(h) /\ Expects(code, I.target, I.nest, h)
      \/ I.op = "Call" /\ Spare(code, i, I.n + 1) /\ OnWith(h - I.n)
      \/ I.op = "Defer" /\ Spare(code, i, I.n + 1) /\ OnWith(h - I.n - 1)
      \/ I.op = "PushTry" /\ PushTryOK(code, i)
      \/ I.op \in {"TryBodyEnd", "CatchEnd"} /\ BlockEndOK(code, i)
      \/ I.op = "ExitFinally" /\ I.nest # <<>> /\ h = code[Last(I.nest).at].height
      \/ I.op = "Throw" /\ Spare(code, i, 1) /\ i + 1 \in DOMAIN code
      \/ I.op = "Return" /\ h = 1 /\ Spare(code, i, 1)
      \/ I.op = "ReturnVoid" /\ h = 0
      \/ I.op = "LeaveLoop" /\ LeaveLoopOK(code, i)
      \/ I.op = "Import" /\ I.val \in DOMAIN fns /\ OnWith(h)

\* A verifier would accept the functions and modules fns: none falls off its end, and
\* every way to an instruction brings the try blocks and the operands it expects.
Verified(fns) ==
  \A fn \in DOMAIN fns :
    LET code == fns[fn]
    IN  /\ DOMAIN code = 1 .. Len(code)
        /\ Expects(code, 1, <<>>, 0)
        /\ \A i \in DOMAIN code :
             /\ code[i].height \in Nat /\ code[i].n \in Nat
             /\ Spare(code, i, 0) /\ InstrOK(fns, code, i)

VerifiedPrograms == {p \in Programs : Verified(Code[p])}

\* The compiler's code passes it: whatever the nesting of try statements, loops and
\* switches, however a break, a continue, a return or a throw leaves it, and whether a
\* switch keeps its value in a variable or on the operand stack, both ways into an
\* instruction agree.  The VM itself never looks.  One kind of code does not pass, and
\* no program of this run has it: a return in a switch at the top level of a program
\* or a module, which leaves the switch's value behind (run VM_switch_return).
CodeIsVerified == prog \in VerifiedPrograms

\* The program shows what it means, in that order, whatever slices it is cut into
\* and wherever it waits; and it ends as it should: every finally block and every
\* deferred call has run exactly once, on every way out.
RunsAsWritten ==
  LET m == Meaning[prog]
  IN  /\ Len(shown) <= Len(m.shown) /\ shown = SubSeq(m.shown, 1, Len(shown))
      /\ ctl = "done" =>
           /\ shown = m.shown
           /\ flow.kind = (IF m.how = "ok" THEN "return" ELSE "throw")
           /\ flow.val = m.val
=============================================================================
