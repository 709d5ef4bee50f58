------------------------------- MODULE Agent -------------------------------
(***************************************************************************)
(* The code agent (src/agent/src): a loop that sends a conversation to an  *)
(* LLM, runs the tools it asks for as requests of one nREPL connection,    *)
(* and adds their results to the conversation.                             *)
(*                                                                         *)
(* The LLM is external: it answers anything.  The nREPL server answers     *)
(* every request once and in turn (see Nrepl), but may take longer than    *)
(* the read timeout of the client.                                         *)
(***************************************************************************)
EXTENDS Naturals, Sequences, FiniteSets, SequencesExt

CONSTANTS
  MaxTurns,   \* bound: answers of the LLM
  MaxCalls    \* bound: tool calls of one answer

ASSUME AgentAssumption == MaxTurns \in Nat /\ MaxCalls \in Nat

VARIABLES
  stage,      \* "start", "ask", "tools" or "stopped"
  talk,       \* messages
  todo,       \* the call of the last message to be run next
  awaited,    \* the call whose answer the client reads, or NoCall
  responses,  \* what recv_until_done has read
  requested,  \* the calls sent, in order
  served,     \* how many of them the server has answered
  inbox,      \* messages of the server on the connection
  late        \* some read has timed out

agentVars == <<stage, talk, todo, awaited, responses, requested, served, inbox, late>>

\* A call is known by its number; NoCall is none, and the request for a session.
NoCall == <<0, 0>>
Calls == (1 .. MaxTurns) \X (1 .. MaxCalls)

\* The tools, by how the server answers: an evaluation in two messages, the value
\* and the end; all other operations in one.  A name that is no tool's is not sent.
Tools == {"eval", "op", "unknown"}

Call == [id : Calls, tool : Tools]

\* Messages of the conversation.
User == [role |-> "user"]
Assistant(calls) == [role |-> "assistant", calls |-> calls]
ToolResults(results) == [role |-> "tool", results |-> results]

\* What the client reads: a part of the answer to a call.
Part(c, kind) == [of |-> c, kind |-> kind]
AnswerTo(c) ==
  IF c.tool = "eval" THEN <<Part(c.id, "value"), Part(c.id, "done")>>
                     ELSE <<Part(c.id, "whole")>>
\* Mutant: the first message of an answer ends it.
AnyEnds(part) == TRUE
Ends(part) == part.kind \in {"done", "whole"}
\* Texts of the client itself.
Own(kind) == Part(NoCall, kind)

\* Candidates for the port file in the order they are tried: the first one that
\* holds a number is used, whether or not its peer still runs.
Place == <<"project", "current", "home">>
PortFrom(files) ==
  LET found == SelectSeq(Place, LAMBDA p : files[p] = "number") IN
  IF found = << >> THEN "none" ELSE Head(found)

\* The value of a variable: that of the process, else of the first line of .env
\* that gives it one.
SettingOf(process, lines) ==
  LET given == SelectSeq(<<process>> \o lines, LAMBDA v : v # "") IN
  IF given = << >> THEN "" ELSE Head(given)

AgentInit ==
  /\ stage = "start"
  /\ talk = <<User>>
  /\ todo = 1
  /\ awaited = NoCall
  /\ responses = << >>
  /\ requested = << >>
  /\ served = 0
  /\ inbox = << >>
  /\ late = FALSE

\* main: the settings, the port and the session, or exit.
Start ==
  /\ stage = "start"
  /\ \E files \in [{Place[i] : i \in 1 .. 3} -> {"missing", "text", "number"}],
        process \in {"", "key"}, lines \in {<< >>, <<"", "key">>}, up \in BOOLEAN :
       stage' = IF /\ SettingOf(process, lines) # ""
                   /\ PortFrom(files) # "none" /\ up
                THEN "ask" ELSE "stopped"
  /\ UNCHANGED <<talk, todo, awaited, responses, requested, served, inbox, late>>

\* call_claude returned an error.
LlmFails ==
  /\ stage = "ask"
  /\ stage' = "stopped"
  /\ UNCHANGED <<talk, todo, awaited, responses, requested, served, inbox, late>>

Turn == Cardinality({k \in DOMAIN talk : talk[k].role = "assistant"}) + 1

\* convert_response_from_openai: the reason the loop goes on.
RunsTools(finish) == finish \in {"tool_calls", "function_call"}

\* The first n of the calls have results: the LLM is asked when these are all.
After(calls, n) == IF n = Len(calls) THEN "ask" ELSE "tools"

\* The LLM answers with text and calls.  A reason that names no tools ends the
\* loop and leaves the calls without results; a reason that names tools with no
\* call makes the loop ask again.
LlmAnswers ==
  /\ stage = "ask"
  /\ Turn <= MaxTurns
  /\ \E n \in 0 .. MaxCalls :
       \E tools \in [1 .. n -> Tools], finish \in {"tool_calls", "stop", "length"} :
         LET calls == [i \in 1 .. n |-> [id |-> <<Turn, i>>, tool |-> tools[i]]] IN
         /\ talk' = Append(talk, Assistant(calls))
                      \o (IF RunsTools(finish) THEN <<ToolResults(<< >>)>> ELSE << >>)
         /\ todo' = 1
         /\ stage' = IF RunsTools(finish) THEN After(calls, 0) ELSE "stopped"
  /\ UNCHANGED <<awaited, responses, requested, served, inbox, late>>

CallsOfLast == talk[Len(talk) - 1].calls
ResultsOfLast == talk[Len(talk)].results

\* The tool_result block of a call.
ResultOf(c, answer) == <<[of |-> c.id, answer |-> answer]>>

\* The result of a call is known: the next one is run, or all go to the LLM.
Finish(c, answer) ==
  /\ talk' = [talk EXCEPT ![Len(talk)].results = @ \o ResultOf(c, answer)]
  /\ todo' = todo + 1
  /\ stage' = After(CallsOfLast, todo)
  /\ awaited' = NoCall
  /\ responses' = << >>

Current == CallsOfLast[todo]

\* execute_tool sends the request of the next call; every request has the id "tool".
SendRequest ==
  /\ stage = "tools" /\ awaited = NoCall
  /\ Current.tool # "unknown"
  /\ requested' = Append(requested, Current)
  /\ awaited' = Current.id
  /\ UNCHANGED <<stage, talk, todo, responses, served, inbox, late>>

\* A name of no tool, or a connection that is closed.
CannotSend ==
  /\ stage = "tools" /\ awaited = NoCall
  /\ \/ Current.tool = "unknown" /\ Finish(Current, Own("unknown"))
     \/ Current.tool # "unknown" /\ Finish(Current, Own("error"))
  /\ UNCHANGED <<requested, served, inbox, late>>

\* The server answers the requests in turn.
ServerAnswers ==
  /\ served < Len(requested)
  /\ served' = served + 1
  /\ inbox' = inbox \o AnswerTo(requested[served + 1])
  /\ UNCHANGED <<stage, talk, todo, awaited, responses, requested, late>>

\* The text of a result: what the last message read holds; of an evaluation the
\* first value, or "ok" if there is none.
Formatted(tool, parts) ==
  LET values == {i \in DOMAIN parts : parts[i].kind = "value"} IN
  CASE tool # "eval" -> Last(parts)
    [] tool = "eval" /\ values # {} -> parts[CHOOSE i \in values : \A j \in values : i <= j]
    [] OTHER -> Own("ok")

Consumed(box) == Tail(box)

\* recv_until_done takes one message, of whichever request it is.
ReadMessage ==
  /\ awaited # NoCall
  /\ inbox # << >>
  /\ inbox' = Consumed(inbox)
  /\ LET parts == Append(responses, Head(inbox)) IN
     IF Ends(Head(inbox))
     THEN Finish(Current, Formatted(Current.tool, parts))
     ELSE responses' = parts /\ UNCHANGED <<stage, talk, todo, awaited>>
  /\ UNCHANGED <<requested, served, late>>

\* Nothing came for 5 seconds: what was read is dropped, the answer will still come.
ReadTimesOut ==
  /\ awaited # NoCall
  /\ inbox = << >>
  /\ Finish(Current, Own("error"))
  /\ late' = TRUE
  /\ UNCHANGED <<requested, served, inbox>>

AgentNext ==
  \/ Start \/ LlmFails \/ LlmAnswers
  \/ SendRequest \/ CannotSend \/ ServerAnswers \/ ReadMessage \/ ReadTimesOut

AgentSpec == AgentInit /\ [][AgentNext]_agentVars

-----------------------------------------------------------------------------
(***************************************************************************)
(* Properties                                                              *)
(***************************************************************************)

\* Type invariant; a request is awaited only while the results of the last
\* message are being collected, and the server is never ahead of the requests.
AgentTypeOK ==
  /\ stage \in {"start", "ask", "tools", "stopped"}
  /\ \A k \in DOMAIN talk : talk[k].role \in {"user", "assistant", "tool"}
  /\ awaited = NoCall \/ (stage = "tools" /\ awaited = Current.id)
  /\ stage = "tools" => todo \in DOMAIN CallsOfLast
  /\ served \in 0 .. Len(requested)
  /\ \A k \in DOMAIN inbox : inbox[k].of \in {requested[j].id : j \in 1 .. served}

\* Whenever the conversation is sent, the calls of an assistant message are
\* answered by the message right behind it, each once and in order, as the API
\* requires (convert_messages_to_openai writes them as they are).
CallsAreAnswered ==
  stage = "ask" =>
    \A k \in DOMAIN talk : talk[k].role = "assistant" =>
      /\ k < Len(talk) /\ talk[k + 1].role = "tool"
      /\ LET results == talk[k + 1].results IN
         /\ Len(results) = Len(talk[k].calls)
         /\ \A i \in DOMAIN results : results[i].of = talk[k].calls[i].id

\* The results in a message of the conversation that hold something the server sent.
Held(k) ==
  IF talk[k].role # "tool" THEN {}
  ELSE {i \in DOMAIN talk[k].results : talk[k].results[i].answer.of # NoCall}

\* As long as no read has timed out, what a result holds is the server's answer
\* to its own call (answers are told apart by nothing but their order).
AnswersAreOwn ==
  ~late => \A k \in DOMAIN talk : \A i \in Held(k) :
             talk[k].results[i].answer.of = talk[k].results[i].of

Before(c, d) == c[1] < d[1] \/ (c[1] = d[1] /\ c[2] < d[2])

\* After a timeout results lag behind, but an answer is given to the LLM at most
\* once, in the order of the calls, and never before its call.
AnswersMoveForward ==
  \A k \in DOMAIN talk : \A i \in Held(k) :
    LET given == talk[k].results[i] IN
    /\ ~Before(given.of, given.answer.of)
    /\ \A l \in DOMAIN talk : \A j \in Held(l) :
         k < l \/ (k = l /\ i < j) => Before(given.answer.of, talk[l].results[j].answer.of)

\* The conversation is one the LLM's API accepts, and says what the tools said.
ConversationIsSound == AgentTypeOK /\ CallsAreAnswered /\ AnswersAreOwn /\ AnswersMoveForward
=============================================================================
