------------------------------ MODULE Library ------------------------------
(***************************************************************************)
(* The builtin library, the parser and the compiler's scopes around the    *)
(* core of Sflang, side by side: what scripts use to serve and make        *)
(* connections, to run programs, to print, to keep settings, cookies and   *)
(* files, and to calculate.                                                *)
(*                                                                         *)
(* A behaviour is about one part, chosen in Init: the parts share nothing  *)
(* but the scripts that call them.  Each has its own module; this one      *)
(* states what they promise together.                                      *)
(***************************************************************************)
EXTENDS Integers, Sequences, FiniteSets

CONSTANTS
  None,
  About,                             \* the parts that are looked at
  AsyncCalls, Sessions, MaxChunks,   \* of runAsync and SSH sessions
  Conns, MaxRequests, MaxStarts,     \* of the servers
  MaxBytes, Buffer,                  \* of a pipe
  Users, MaxWrites, ProcessCalls,    \* of a connection, and of a process
  ByteValues, Code, AddLen, EncIndex, Writes, Chunk,    \* of an encrypted connection
  Clients, Hosts, Paths, Parents, Values,               \* of a session of HTTP clients
  Visits, Offers, MaxTime,
  MaxRetries, Retrying, ClientCalls, MaxResets,         \* of HTTP requests
  Processes, Threads, Keys, MaxChanges, MaxStops,       \* of the configuration
  MaxParts, UploadCalls,                                \* of an S3 upload
  LimbBase, MaxLimbs, MaxMagnitude,                            \* of big integers
  Epochs, MaxYears, Shifts,                                 \* of the calendar
  TokenKinds, MaxTokens,                                \* of the parser
  Names, MaxFunctions, MaxVars, MaxBlocks, MaxNames,    \* of the compiler's scopes
  Capacity, MaxTail, MaxTexts                           \* of the console

ASSUME NoneIsNobody == None \notin Values \cup Threads \cup Users /\ None \notin Int
ASSUME BoundsAreCounts ==
  /\ {MaxRequests, MaxParts, UploadCalls, Chunk, MaxTokens} \subseteq Nat \ {0}
  /\ {AsyncCalls, MaxChunks, MaxStarts, MaxBytes, Buffer, MaxWrites, ProcessCalls, MaxTime,
      MaxRetries, ClientCalls, MaxResets, MaxChanges, MaxStops, MaxTail, MaxTexts,
      MaxFunctions, MaxBlocks, MaxLimbs, MaxMagnitude} \subseteq Nat
ASSUME ClientsAreFinite == IsFiniteSet(Clients)
ASSUME NoneIsNoMap == None \notin [Keys -> Values \cup {None}]
ASSUME CodeIsBytes ==
  /\ ByteValues \in Nat \ {0}
  /\ Code \in Seq(0..(ByteValues - 1)) /\ Len(Code) > 0
  /\ Writes \subseteq Seq(0..(ByteValues - 1))
ASSUME HeadHasKey == AddLen \in Nat /\ EncIndex \in 0..(AddLen - 1)
ASSUME BaseHasTwoDigits == LimbBase \in Nat /\ LimbBase > 1

VARIABLES
  part,  \* what this behaviour is about
  as_next_id, as_running, as_queue, as_taken, as_pushed, as_events, as_frame, as_batch,
  as_shown, as_streamed, as_lost, as_missed,
  hs_running, hs_stop, hs_starts, hs_loop, hs_pc, hs_left, hs_context, hs_paraMap,
  hs_active, hs_killed, hs_misled, hs_alone,
  ts_kind, ts_loop, ts_stop_flag, ts_pc, ts_protocol, ts_allowed, ts_told,
  ts_to_target,
  pi_peer, pi_sent, pi_inbox, pi_have, pi_outbox, pi_got, pi_shut, pi_pc, pi_first,
  pi_caller,
  tc_kind, tc_lock, tc_op, tc_inside, tc_timed, tc_limited, tc_inbox, tc_asked,
  tc_writes, tc_closed,
  ec_method, ec_sent, ec_writes, ec_cut, ec_empty, ec_closed, ec_flight, ec_wire,
  ec_read_buf, ec_read_pos, ec_received, ec_broken, ec_outcome,
  pr_child, pr_running, pr_exit_code, pr_lock, pr_pc, pr_op, pr_seen, pr_answer,
  pr_early, pr_overtaken, pr_calls,
  cj_now, cj_jar, cj_pc, cj_request, cj_sent, cj_began, cj_latest,
  hr_pc, hr_retries, hr_attempt, hr_calls, hr_response, hr_file, hr_result,
  hr_total_requests, hr_success_count, hr_failure_count, hr_retry_attempts,
  hr_resetting, hr_resets, hr_retried, hr_mixed,
  cf_memory, cf_holder, cf_pc, cf_json, cf_key, cf_disk, cf_overlaid, cf_changes,
  cf_stops, cf_expected, cf_calm,
  su_pc, su_size, su_total, su_part_no, su_parts, su_id, su_uploads, su_object,
  su_result, su_calls, su_shrunk, su_excused,
  bi_x, bi_v,
  ca_year, ca_month, ca_first, ca_weekday, ca_origin,
  ps_toks, ps_stack, ps_mode, ps_span, ps_nodes,
  sc_compilers, sc_sources, sc_parent, sc_env, sc_home, sc_looked_up, sc_blocks,
  sc_repeated,
  co_writer, co_texts, co_left, co_said, co_shown

As == INSTANCE AsyncResults WITH
  MaxCalls <- AsyncCalls, next_id <- as_next_id, running <- as_running,
  queue <- as_queue, taken <- as_taken, pushed <- as_pushed, events <- as_events,
  frame <- as_frame, batch <- as_batch, shown <- as_shown, streamed <- as_streamed,
  lost <- as_lost, missed <- as_missed
Hs == INSTANCE HttpServer WITH
  running <- hs_running, stop <- hs_stop, starts <- hs_starts, loop <- hs_loop,
  pc <- hs_pc, left <- hs_left, context <- hs_context, paraMap <- hs_paraMap,
  active <- hs_active, killed <- hs_killed, misled <- hs_misled, alone <- hs_alone
Ts == INSTANCE TcpServer WITH
  kind <- ts_kind, loop <- ts_loop, stop_flag <- ts_stop_flag, pc <- ts_pc,
  protocol <- ts_protocol, allowed <- ts_allowed, told <- ts_told,
  to_target <- ts_to_target
Pi == INSTANCE Pipe WITH
  peer <- pi_peer, sent <- pi_sent, inbox <- pi_inbox, have <- pi_have,
  outbox <- pi_outbox, got <- pi_got, shut <- pi_shut, pc <- pi_pc, first <- pi_first,
  caller <- pi_caller
Tc == INSTANCE TcpConn WITH
  kind <- tc_kind, lock <- tc_lock, op <- tc_op, inside <- tc_inside,
  timed <- tc_timed, limited <- tc_limited, inbox <- tc_inbox, asked <- tc_asked,
  writes <- tc_writes, closed <- tc_closed
Ec == INSTANCE EncryptedConn WITH
  Base <- ByteValues, method <- ec_method, sent <- ec_sent, writes <- ec_writes,
  cut <- ec_cut, empty <- ec_empty, closed <- ec_closed, flight <- ec_flight,
  wire <- ec_wire, read_buf <- ec_read_buf, read_pos <- ec_read_pos,
  received <- ec_received, broken <- ec_broken, outcome <- ec_outcome
Pr == INSTANCE Process WITH
  MaxCalls <- ProcessCalls, child <- pr_child, running <- pr_running,
  exit_code <- pr_exit_code, lock <- pr_lock, pc <- pr_pc, op <- pr_op,
  seen <- pr_seen, answer <- pr_answer, early <- pr_early,
  overtaken <- pr_overtaken, calls <- pr_calls
Cj == INSTANCE CookieJar WITH
  now <- cj_now, jar <- cj_jar, pc <- cj_pc, request <- cj_request, sent <- cj_sent,
  began <- cj_began, latest <- cj_latest
Hr == INSTANCE HttpRetry WITH
  MaxCalls <- ClientCalls, pc <- hr_pc, retries <- hr_retries, attempt <- hr_attempt,
  calls <- hr_calls, response <- hr_response, file <- hr_file, result <- hr_result,
  total_requests <- hr_total_requests, success_count <- hr_success_count,
  failure_count <- hr_failure_count, retry_attempts <- hr_retry_attempts,
  resetting <- hr_resetting, resets <- hr_resets, retried <- hr_retried,
  mixed <- hr_mixed
Cf == INSTANCE Config WITH
  memory <- cf_memory, holder <- cf_holder, pc <- cf_pc, json <- cf_json,
  key <- cf_key, disk <- cf_disk, overlaid <- cf_overlaid, changes <- cf_changes,
  stops <- cf_stops, expected <- cf_expected, calm <- cf_calm
Su == INSTANCE S3Upload WITH
  MaxCalls <- UploadCalls, pc <- su_pc, size <- su_size, total <- su_total,
  part_no <- su_part_no, parts <- su_parts, id <- su_id, uploads <- su_uploads,
  object <- su_object, result <- su_result, calls <- su_calls, shrunk <- su_shrunk,
  excused <- su_excused
Bi == INSTANCE BigInt WITH
  Base <- LimbBase, Bound <- MaxMagnitude, x <- bi_x, v <- bi_v
Ca == INSTANCE Calendar WITH
  Span <- MaxYears, year <- ca_year, month <- ca_month, first <- ca_first, weekday <- ca_weekday,
  origin <- ca_origin
Ps == INSTANCE Parser WITH
  Kinds <- TokenKinds, toks <- ps_toks, stack <- ps_stack, mode <- ps_mode,
  span <- ps_span, nodes <- ps_nodes
Sc == INSTANCE Scopes WITH
  compilers <- sc_compilers, sources <- sc_sources, parent <- sc_parent, env <- sc_env,
  home <- sc_home, looked_up <- sc_looked_up, blocks <- sc_blocks,
  repeated <- sc_repeated
Co == INSTANCE Console WITH
  Threads <- Users, writer <- co_writer, texts <- co_texts, left <- co_left,
  said <- co_said, shown <- co_shown

ASSUME ClientsAsk == Visits \subseteq Cj!Requests /\ Offers \subseteq Cj!SetCookies

\* An epoch is the first day of a month, with its number and its day of the week as the
\* calendar has them, the 1st of January 1970 being day 0 and a Thursday.
ASSUME CalendarIsAnchored ==
  /\ Shifts \subseteq Int
  /\ \A e \in Epochs :
       /\ e.year \in Int /\ e.month \in 1 .. 12
       /\ e.day = Ca!FirstOf(e.year, e.month) /\ e.weekday = (4 + e.day) % 7

Parts == {"runAsync", "HTTP server", "TCP server", "pipe", "TCP connection",
          "encrypted connection", "process", "cookie jar", "HTTP client",
          "configuration", "S3 upload", "big integer", "calendar", "parser",
          "scopes", "console"}

ASSUME AboutParts == About \subseteq Parts

as == <<as_next_id, as_running, as_queue, as_taken, as_pushed, as_events, as_frame,
        as_batch, as_shown, as_streamed, as_lost, as_missed>>
hs == <<hs_running, hs_stop, hs_starts, hs_loop, hs_pc, hs_left, hs_context, hs_paraMap,
        hs_active, hs_killed, hs_misled, hs_alone>>
ts == <<ts_kind, ts_loop, ts_stop_flag, ts_pc, ts_protocol, ts_allowed,
        ts_told, ts_to_target>>
pi == <<pi_peer, pi_sent, pi_inbox, pi_have, pi_outbox, pi_got, pi_shut, pi_pc, pi_first,
        pi_caller>>
tc == <<tc_kind, tc_lock, tc_op, tc_inside, tc_timed, tc_limited, tc_inbox, tc_asked,
        tc_writes, tc_closed>>
ec == <<ec_method, ec_sent, ec_writes, ec_cut, ec_empty, ec_closed, ec_flight, ec_wire,
        ec_read_buf, ec_read_pos, ec_received, ec_broken, ec_outcome>>
pr == <<pr_child, pr_running, pr_exit_code, pr_lock, pr_pc, pr_op, pr_seen, pr_answer,
        pr_early, pr_overtaken, pr_calls>>
cj == <<cj_now, cj_jar, cj_pc, cj_request, cj_sent, cj_began, cj_latest>>
hr == <<hr_pc, hr_retries, hr_attempt, hr_calls, hr_response, hr_file, hr_result,
        hr_total_requests, hr_success_count, hr_failure_count, hr_retry_attempts,
        hr_resetting, hr_resets, hr_retried, hr_mixed>>
cf == <<cf_memory, cf_holder, cf_pc, cf_json, cf_key, cf_disk, cf_overlaid, cf_changes,
        cf_stops, cf_expected, cf_calm>>
su == <<su_pc, su_size, su_total, su_part_no, su_parts, su_id, su_uploads, su_object,
        su_result, su_calls, su_shrunk, su_excused>>
bi == <<bi_x, bi_v>>
ca == <<ca_year, ca_month, ca_first, ca_weekday, ca_origin>>
ps == <<ps_toks, ps_stack, ps_mode, ps_span, ps_nodes>>
sc == <<sc_compilers, sc_sources, sc_parent, sc_env, sc_home, sc_looked_up, sc_blocks,
        sc_repeated>>
co == <<co_writer, co_texts, co_left, co_said, co_shown>>
vars == <<part, as, hs, ts, pi, tc, ec, pr, cj, hr, cf, su, bi, ca, ps, sc, co>>

\* What a behaviour is not about begins in one way only.
Unused(name, variable, value) == part = name \/ variable = value

Init ==
  /\ part \in About
  /\ As!Init /\ Hs!Init /\ Ts!Init /\ Pi!Init /\ Tc!Init /\ Ec!Init /\ Pr!Init
  /\ Cj!Init /\ Hr!Init /\ Cf!Init /\ Su!Init /\ Bi!Init /\ Ca!Init /\ Ps!Init
  /\ Sc!Init /\ Co!Init
  /\ Unused("TCP server", ts_kind, "tcpListen")
  /\ Unused("TCP connection", tc_kind, "plain")
  /\ Unused("encrypted connection", ec_method, "txdef")
  /\ Unused("S3 upload", su_size, 1)
  /\ Unused("calendar", ca_origin, CHOOSE e \in Epochs : TRUE)
  /\ Unused("parser", ps_toks, [i \in {1} |-> CHOOSE kind \in TokenKinds : TRUE])

Next ==
  \/ /\ part = "runAsync" /\ As!Next
     /\ UNCHANGED <<part, hs, ts, pi, tc, ec, pr, cj, hr, cf, su, bi, ca, ps, sc, co>>
  \/ /\ part = "HTTP server" /\ Hs!Next
     /\ UNCHANGED <<part, as, ts, pi, tc, ec, pr, cj, hr, cf, su, bi, ca, ps, sc, co>>
  \/ /\ part = "TCP server" /\ Ts!Next
     /\ UNCHANGED <<part, as, hs, pi, tc, ec, pr, cj, hr, cf, su, bi, ca, ps, sc, co>>
  \/ /\ part = "pipe" /\ Pi!Next
     /\ UNCHANGED <<part, as, hs, ts, tc, ec, pr, cj, hr, cf, su, bi, ca, ps, sc, co>>
  \/ /\ part = "TCP connection" /\ Tc!Next
     /\ UNCHANGED <<part, as, hs, ts, pi, ec, pr, cj, hr, cf, su, bi, ca, ps, sc, co>>
  \/ /\ part = "encrypted connection" /\ Ec!Next
     /\ UNCHANGED <<part, as, hs, ts, pi, tc, pr, cj, hr, cf, su, bi, ca, ps, sc, co>>
  \/ /\ part = "process" /\ Pr!Next
     /\ UNCHANGED <<part, as, hs, ts, pi, tc, ec, cj, hr, cf, su, bi, ca, ps, sc, co>>
  \/ /\ part = "cookie jar" /\ Cj!Next
     /\ UNCHANGED <<part, as, hs, ts, pi, tc, ec, pr, hr, cf, su, bi, ca, ps, sc, co>>
  \/ /\ part = "HTTP client" /\ Hr!Next
     /\ UNCHANGED <<part, as, hs, ts, pi, tc, ec, pr, cj, cf, su, bi, ca, ps, sc, co>>
  \/ /\ part = "configuration" /\ Cf!Next
     /\ UNCHANGED <<part, as, hs, ts, pi, tc, ec, pr, cj, hr, su, bi, ca, ps, sc, co>>
  \/ /\ part = "S3 upload" /\ Su!Next
     /\ UNCHANGED <<part, as, hs, ts, pi, tc, ec, pr, cj, hr, cf, bi, ca, ps, sc, co>>
  \/ /\ part = "big integer" /\ Bi!Next
     /\ UNCHANGED <<part, as, hs, ts, pi, tc, ec, pr, cj, hr, cf, su, ca, ps, sc, co>>
  \/ /\ part = "calendar" /\ Ca!Next
     /\ UNCHANGED <<part, as, hs, ts, pi, tc, ec, pr, cj, hr, cf, su, bi, ps, sc, co>>
  \/ /\ part = "parser" /\ Ps!Next
     /\ UNCHANGED <<part, as, hs, ts, pi, tc, ec, pr, cj, hr, cf, su, bi, ca, sc, co>>
  \/ /\ part = "scopes" /\ Sc!Next
     /\ UNCHANGED <<part, as, hs, ts, pi, tc, ec, pr, cj, hr, cf, su, bi, ca, ps, co>>
  \/ /\ part = "console" /\ Co!Next
     /\ UNCHANGED <<part, as, hs, ts, pi, tc, ec, pr, cj, hr, cf, su, bi, ca, ps, sc>>

-----------------------------------------------------------------------------
(* Fairness, of the chosen part: its threads and loops go on, peers and        *)
(* handlers answer, a mutex that is free again and again is got.  No script    *)
(* has to call anything, and no client has to come.                            *)
Fairness ==
  /\ \A l \in Hs!Loops : WF_(hs)(part = "HTTP server" /\ Hs!RunLoop(l))
  /\ WF_(ts)(part = "TCP server" /\ Ts!LoopStep)
  /\ \A c \in Conns : WF_(ts)(part = "TCP server" /\ Ts!Thread(c))
  /\ \A s \in Pi!Sides :
       /\ WF_(pi)(part = "pipe" /\ Pi!Thread(s))
       /\ WF_(pi)(part = "pipe" /\ Pi!Receive(s))
  /\ WF_(pi)(part = "pipe" /\ Pi!Caller)
  /\ \A u \in Users :
       /\ WF_(tc)(part = "TCP connection"
                    /\ \/ Tc!Read(u) \/ Tc!Write(u) \/ Tc!Flush(u)
                       \/ Tc!Close(u) \/ Tc!SetTimeout(u))
       /\ SF_<<tc, pr>>(\/ part = "TCP connection" /\ Tc!Enter(u) /\ UNCHANGED pr
                        \/ part = "process" /\ Pr!Step(u) /\ UNCHANGED tc)
  /\ WF_(tc)(part = "TCP connection" /\ Tc!Answer)

Spec == Init /\ [][Next]_vars
FairSpec == Spec /\ Fairness

-----------------------------------------------------------------------------
\* Every variable of the chosen part keeps to its type.
TypeOK ==
  /\ part \in Parts
  /\ part = "runAsync" => As!TypeOK
  /\ part = "HTTP server" => Hs!TypeOK
  /\ part = "TCP server" => Ts!TypeOK
  /\ part = "pipe" => Pi!TypeOK
  /\ part = "TCP connection" => Tc!TypeOK
  /\ part = "encrypted connection" => Ec!TypeOK
  /\ part = "process" => Pr!TypeOK
  /\ part = "cookie jar" => Cj!TypeOK
  /\ part = "HTTP client" => Hr!TypeOK
  /\ part = "configuration" => Cf!TypeOK
  /\ part = "S3 upload" => Su!TypeOK
  /\ part = "big integer" => Bi!TypeOK
  /\ part = "calendar" => Ca!TypeOK
  /\ part = "parser" => Ps!TypeOK
  /\ part = "scopes" => Sc!TypeOK
  /\ part = "console" => Co!TypeOK

\* runAsync: a result goes to one place, to the script or to the window, and is not
\* delivered again; a session's output is shown in order and nothing after its end.
ResultsOnce == part = "runAsync" => As!ResultsOnce /\ As!StreamsInOrder

\* HTTP server: the registry of handlers names those that run, whatever ends them, and
\* a handler that has the server to itself finds the context of its own request.
HandlersAreKept == part = "HTTP server" => Hs!RegistryIsExact /\ Hs!ContextWhenAlone

\* Streams: no byte reaches a target the proxy's handler refused; tcpPipe loses and
\* invents nothing and ends without cutting off what the first side to finish has sent;
\* an encrypted connection decrypts to what was written; printed texts are shown whole,
\* one after the other, but for a long tail.
BytesArrive ==
  /\ part = "TCP server" => Ts!OnlyAllowedArePiped
  /\ part = "pipe" => Pi!BytesConserved /\ Pi!LastBytesArrive
  /\ part = "encrypted connection" => Ec!StreamIntact
  /\ part = "console" => Co!TextsAreShown

\* Compiler: a name reads and writes the variable it stands for, unless a function had
\* captured it before a function inside it did; variables do not share a slot.
NamesAreFound == part = "scopes" => Sc!RightUnlessRepeated /\ Sc!SlotsAreOwn

\* HTTP client: cookies go only where they belong, one of a key at a time; requests are
\* counted once each, the response returned is the one saved, retries are bounded.
ClientBooksAreRight ==
  /\ part = "cookie jar" => Cj!CookiesStayHome /\ Cj!OneCookiePerKey
  /\ part = "HTTP client" => Hr!RequestsAreCounted /\ Hr!SavedIsReturned /\ Hr!AttemptsAreBounded

\* What was answered is so: a saved setting is in the file, a true upload is the whole
\* object, an exit code is the child's.
AnswersAreTrue ==
  /\ part = "configuration" => Cf!ConfigSurvives /\ Cf!TornOnlyInTrouble
  /\ part = "S3 upload" => Su!TrueMeansWhole /\ Su!NothingLeftOpen
  /\ part = "process" => Pr!OneExitCode

\* Algorithms agree with what they are to compute: big integers with the integers,
\* dates with the calendar's rules, parsed expressions with the table of operators.
AlgorithmsAgree ==
  /\ part = "big integer" => Bi!Exact
  /\ part = "calendar" => Ca!DatesAreRight /\ Ca!ShiftsAreOrdered
  /\ part = "parser" => Ps!GroupedByTable /\ Ps!NothingLeftOut

\* What is told to stop ends, and every call returns: server loops, served connections,
\* pipes, calls on a shared connection and on a process that has ended.
EndsWhenStopped ==
  /\ Hs!StopEndsLoops
  /\ Ts!EndsWhenStopped /\ Ts!AcceptedAreServed
  /\ Pi!PipeReturns
  /\ Tc!CallsReturn
  /\ Pr!CallsReturn
=============================================================================
