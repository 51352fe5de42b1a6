------------------------------ MODULE ModelCall ------------------------------
(***************************************************************************)
(* One call of the language model: structured_completion with its schema   *)
(* fallback and its one repair (llm/structured_output.py) over chat_once,  *)
(* a plain chat_once, and chat_stream (llm/client.py), with the attempts   *)
(* of a request and the memory of servers that refuse stream_options.      *)
(*                                                                         *)
(* Tokens are counted in units of 256, the least allowance worth asking    *)
(* for.  A text is the sequence of the requests its pieces came from.      *)
(***************************************************************************)
EXTENDS Integers, Sequences, FiniteSets, FiniteSetsExt

CONSTANTS
  Attempts,    \* request_retry_attempts
  Requested,   \* max_tokens of the caller
  Ceilings,    \* token_ceiling of the caller, 0 for none
  Rooms,       \* output tokens the window leaves beside the messages
  RepairCost,  \* tokens of the request to correct the answer
  MaxDeltas    \* bound: pieces of one answer

ASSUME CallAssumption ==
  /\ {Attempts, Requested, MaxDeltas} \subseteq Nat \ {0}
  /\ Ceilings \subseteq Nat /\ Rooms \subseteq Nat /\ RepairCost \in Nat

VARIABLES
  kind,       \* "json", "plain" or "stream"
  room, ceiling,
  schema,     \* the request still carries a JSON schema
  refused,    \* _STREAM_OPTIONS_REJECTED holds this server
  ask,        \* 1, or 2 for the repair
  allowance,  \* max_tokens of this ask
  withUsage,  \* the payload carries stream_options
  resend,      \* sendings of the request before this one
  posts,      \* history: requests sent
  brought,       \* what this answer has brought
  place,      \* where the call stands
  verdict,    \* why it failed, "" otherwise
  sensitive   \* history: the content filter ended an answer

callVars == <<kind, room, ceiling, schema, refused, ask, allowance, withUsage,
              resend, posts, brought, place, verdict, sensitive>>
callSetting == <<kind, room, ceiling>>

\* fit_output_tokens: the allowance the window leaves, 0 when it is too small
Fit(left, wanted) ==
  LET fitted == Min({left, wanted}) IN IF fitted < 1 THEN 0 ELSE fitted

CallInit ==
  /\ kind \in {"json", "plain", "stream"}
  /\ room \in Rooms /\ ceiling \in Ceilings
  /\ schema \in (IF kind = "json" THEN BOOLEAN ELSE {FALSE})
  /\ refused \in BOOLEAN /\ withUsage = FALSE
  /\ ask = 1 /\ allowance = 0 /\ resend = 0 /\ posts = 0 /\ brought = <<>>
  /\ place = "begin" /\ verdict = "" /\ sensitive = FALSE

Fail(why) == place' = "failed" /\ verdict' = why

\* the messages must fit, and only the output is ever reduced
BeginCall ==
  /\ place = "begin"
  /\ allowance' = (IF kind = "json" THEN Fit(room, Requested) ELSE Requested)
  /\ IF allowance' \notin 1..room
     THEN Fail("budget")
     ELSE place' = "ask" /\ UNCHANGED verdict
  /\ UNCHANGED <<callSetting, sensitive, schema, refused, ask, withUsage, resend, posts, brought>>

\* Mutant of Build: the server's refusal is not remembered.
BuildWithUsage ==
  /\ place = "ask"
  /\ withUsage' = (kind # "plain")
  /\ resend' = 0 /\ brought' = <<>> /\ place' = "post"
  /\ UNCHANGED <<callSetting, sensitive, schema, refused, ask, allowance, posts, verdict>>

\* build_chat_payload
Build ==
  /\ place = "ask"
  /\ withUsage' = (kind # "plain" /\ ~refused)
  /\ resend' = 0 /\ brought' = <<>> /\ place' = "post"
  /\ UNCHANGED <<callSetting, sensitive, schema, refused, ask, allowance, posts, verdict>>

\* another call to the same server learns that it takes no stream_options
LearnedElsewhere ==
  /\ ~refused /\ refused' = TRUE
  /\ UNCHANGED <<callSetting, sensitive, schema, ask, allowance, withUsage, resend, posts, brought, place, verdict>>

\* _open_stream: the field is dropped and the request sent once more
UsageRefused ==
  /\ place = "post" /\ withUsage
  /\ posts' = posts + 1 /\ refused' = TRUE /\ withUsage' = FALSE
  /\ UNCHANGED <<callSetting, sensitive, schema, ask, allowance, resend, brought, place, verdict>>

\* the next attempt, or the error of the last one
Retry(why) ==
  IF resend + 1 < Attempts
  THEN resend' = resend + 1 /\ brought' = <<>> /\ place' = "post" /\ UNCHANGED verdict
  ELSE Fail(why) /\ UNCHANGED <<resend, brought>>

\* a retryable status, or no connection at all
Unavailable ==
  /\ place = "post"
  /\ posts' = posts + 1
  /\ Retry("unavailable")
  /\ UNCHANGED <<callSetting, sensitive, schema, refused, ask, allowance, withUsage>>

\* an empty account answers 429 and stays empty; other statuses are final too
Denied ==
  /\ place = "post"
  /\ posts' = posts + 1
  /\ Fail("denied")
  /\ UNCHANGED <<callSetting, sensitive, schema, refused, ask, allowance, withUsage, resend, brought>>

\* 400 under constrained decoding: the same ask without the schema
SchemaRefused ==
  /\ place = "post" /\ schema
  /\ posts' = posts + 1 /\ schema' = FALSE
  /\ place' = "ask"
  /\ UNCHANGED <<callSetting, sensitive, refused, ask, allowance, withUsage, resend, brought, verdict>>

Accepted ==
  /\ place = "post"
  /\ posts' = posts + 1 /\ place' = "stream"
  /\ UNCHANGED <<callSetting, sensitive, schema, refused, ask, allowance, withUsage, resend, brought, verdict>>

Delta ==
  /\ place = "stream" /\ kind # "plain" /\ Len(brought) < MaxDeltas
  /\ brought' = Append(brought, posts)
  /\ UNCHANGED <<callSetting, sensitive, schema, refused, ask, allowance, withUsage, resend, posts, place, verdict>>

\* the first complete JSON object ends the reading, but for the usage chunk
AnswerComplete ==
  /\ place = "stream" /\ kind = "json" /\ brought # <<>>
  /\ place' = (IF withUsage THEN "drain" ELSE "parse")
  /\ UNCHANGED <<callSetting, sensitive, schema, refused, ask, allowance, withUsage, resend, posts, brought, verdict>>

\* Mutant of Drained: a connection lost while draining counts as a failure.
DrainedOrLost ==
  /\ place = "drain"
  /\ \/ place' = "parse" /\ UNCHANGED <<resend, brought, verdict>>
     \/ Retry("lost")
  /\ UNCHANGED <<callSetting, sensitive, schema, refused, ask, allowance, withUsage, posts>>

\* [DONE], the usage, 48 events, 1.5 seconds, or a lost connection
Drained ==
  /\ place = "drain"
  /\ place' = "parse"
  /\ UNCHANGED <<callSetting, sensitive, schema, refused, ask, allowance, withUsage, resend, posts, brought, verdict>>

\* Mutant of Repair: the allowance is grown past the window.
RepairUnfitted(truncated) ==
  LET grown == IF truncated THEN 2 * allowance ELSE allowance + 1
      most  == IF ceiling # 0 THEN ceiling ELSE IF truncated THEN 2 * allowance ELSE 32
      next  == Min({most, grown}) IN
  IF ask = 2
  THEN Fail("rejected") /\ UNCHANGED <<ask, allowance>>
  ELSE ask' = 2 /\ allowance' = next /\ place' = "ask" /\ UNCHANGED verdict

\* the answer is not accepted: one more request that says why, with twice the
\* room if there was too little
Repair(truncated) ==
  LET grown == IF truncated THEN 2 * allowance ELSE allowance + 1
      most  == IF ceiling # 0 THEN ceiling ELSE IF truncated THEN 2 * allowance ELSE 32
      next  == Fit(room - RepairCost, Min({most, grown})) IN
  IF ask = 2
  THEN Fail("rejected") /\ UNCHANGED <<ask, allowance>>
  ELSE IF next = 0
  THEN Fail("budget") /\ UNCHANGED <<ask, allowance>>
  ELSE ask' = 2 /\ allowance' = next /\ place' = "ask" /\ UNCHANGED verdict

\* Mutant of FilterHit: the filter is one more reason to ask again.
FilterRepaired ==
  /\ place = "stream" /\ sensitive' = TRUE
  /\ IF kind = "json" THEN Repair(FALSE) ELSE Fail("filtered") /\ UNCHANGED <<ask, allowance>>
  /\ UNCHANGED <<callSetting, schema, refused, withUsage, resend, posts, brought>>

FilterHit ==
  /\ place = "stream" /\ sensitive' = TRUE
  /\ Fail("filtered")
  /\ UNCHANGED <<callSetting, schema, refused, ask, allowance, withUsage, resend, posts, brought>>

\* finish_reason "length"; prose is returned, its reader looks at the outcome
OutOfTokens ==
  /\ place = "stream"
  /\ CASE kind = "json"   -> Repair(TRUE)
       [] kind = "plain"  -> Fail("truncated") /\ UNCHANGED <<ask, allowance>>
       [] kind = "stream" -> place' = "done" /\ UNCHANGED <<ask, allowance, verdict>>
  /\ UNCHANGED <<callSetting, sensitive, schema, refused, withUsage, resend, posts, brought>>

\* the end of the answer, or an error event inside it
EndOfAnswer ==
  /\ place = "stream"
  /\ \/ kind = "json" /\ Repair(FALSE)
     \/ kind # "json" /\ place' = "done" /\ UNCHANGED <<ask, allowance, verdict>>
     \/ kind # "json" /\ Fail("error") /\ UNCHANGED <<ask, allowance>>
  /\ UNCHANGED <<callSetting, sensitive, schema, refused, withUsage, resend, posts, brought>>

\* Mutant of Lost: emitted text does not stop the retry.
LostAnywhere ==
  /\ place = "stream"
  /\ \/ Retry("lost")
     \/ kind = "stream" /\ resend + 1 < Attempts /\ resend' = resend + 1
        /\ place' = "post" /\ UNCHANGED <<brought, verdict>>
  /\ UNCHANGED <<callSetting, sensitive, schema, refused, ask, allowance, withUsage, posts>>

\* the connection ends before the answer does; text that a caller of
\* chat_stream has been given cannot be taken back
Lost ==
  /\ place = "stream"
  /\ IF kind = "stream" /\ brought # <<>>
     THEN Fail("lost") /\ UNCHANGED <<resend, brought>>
     ELSE Retry("lost")
  /\ UNCHANGED <<callSetting, sensitive, schema, refused, ask, allowance, withUsage, posts>>

\* parse_json_response and the validator of the caller
Parsed ==
  /\ place = "parse"
  /\ \/ place' = "done" /\ UNCHANGED <<ask, allowance, verdict>>
     \/ Repair(FALSE)
  /\ UNCHANGED <<callSetting, sensitive, schema, refused, withUsage, resend, posts, brought>>

TimedOut ==
  /\ place \in {"post", "stream", "drain"}
  /\ Fail("timeout")
  /\ UNCHANGED <<callSetting, sensitive, schema, refused, ask, allowance, withUsage, resend, posts, brought>>

CallStep ==
  \/ BeginCall \/ Build \/ UsageRefused \/ Unavailable \/ Denied \/ SchemaRefused \/ Accepted
  \/ Delta \/ AnswerComplete \/ Drained \/ FilterHit \/ OutOfTokens \/ EndOfAnswer \/ Lost
  \/ Parsed \/ TimedOut

CallNext == CallStep \/ LearnedElsewhere

CallSpec == CallInit /\ [][CallNext]_callVars

----------------------------------------------------------------------------
(* Properties.                                                             *)

\* A call costs a bounded number of requests: the attempts of the first ask,
\* of the same ask without a schema and of the repair, and one for a server
\* that did not know stream_options, however the failures are mixed.
PostsBounded == posts <= 3 * Attempts + 1

\* What an answer was refused for by the content filter is never sent again.
FilteredIsFinal ==
  [][sensitive => posts' = posts]_callVars

\* No text is put together from two answers: neither the JSON that is
\* parsed nor the prose that was handed on piece by piece.
OneAnswer == \A i, j \in DOMAIN brought : brought[i] = brought[j]

\* A complete object is never thrown away for the sake of its usage chunk.
CompleteIsKept == [][place = "drain" /\ verdict' # "timeout" => place' \in {"drain", "parse"}]_callVars

\* What is asked for fits the window, the correction of the repair included.
AllowanceFits ==
  place \in {"ask", "post", "stream"} => allowance + (ask - 1) * RepairCost <= room

\* However a call's requests fail and in whatever order, it ends within its allowances, with one whole
\* answer or none: the five parts above.
CallIsSound ==
  /\ [](PostsBounded /\ OneAnswer /\ AllowanceFits)
  /\ FilteredIsFinal /\ CompleteIsKept
=============================================================================
