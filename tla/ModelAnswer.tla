---------------------------- MODULE ModelAnswer ----------------------------
(***************************************************************************)
(* How the three provider adapters turn what came back from a language     *)
(* model into one recommendation or a failure category.  They agree on the *)
(* categories and not on the envelope: each provider marks a refusal, a    *)
(* cut-off or an error in a way of its own, and may send text with it.     *)
(*                                                                         *)
(* An utterance is what the model did: it finished ("whole"), declined     *)
(* ("refused"), ran out of room ("cut"), did not answer in time ("late"),  *)
(* or could not be reached ("lost"); texts are the blocks it sent, each a  *)
(* document, wrapped in an object or not.                                  *)
(***************************************************************************)
EXTENDS Recommendation

Providers == {"claude", "openai", "openrouter"}

Kinds == {"whole", "refused", "cut", "late", "lost"}

Unreadable == [outcome |-> "unreadable"]    \* not JSON, or not an object

Failed(status) == [status |-> status, doc |-> Unreadable]

-----------------------------------------------------------------------------
(* The providers' envelopes (external: the adapters' use of their APIs).   *)

ClaudeEnvelope(u) ==
  [stop_reason |-> CASE u.kind = "whole"   -> "end_turn"
                     [] u.kind = "refused" -> "refusal"
                     [] OTHER              -> "max_tokens",
   texts |-> u.texts]

OpenAIEnvelope(u) ==
  [status |-> IF u.kind = "cut" THEN "incomplete" ELSE "completed",
   refusal |-> u.kind = "refused",
   texts |-> u.texts]

OpenRouterEnvelope(u) ==
  [finish_reason |-> CASE u.kind = "cut"     -> "length"
                       [] u.kind = "refused" -> "content_filter"
                       [] OTHER              -> "stop",
   choices |-> u.texts]

-----------------------------------------------------------------------------
(* The adapters' _output_text: a status and the one text.                  *)

OneText(texts) ==
  IF Len(texts) = 1 THEN [status |-> "succeeded", text |-> texts[1]]
                    ELSE [status |-> "invalid_response"]

\* Mutant: the stop reason is not looked at.
ClaudeTextOfAny(e) == OneText(e.texts)

ClaudeText(e) ==
  CASE e.stop_reason = "refusal"   -> [status |-> "refusal"]
    [] e.stop_reason = "max_tokens" -> [status |-> "provider_failure"]
    [] OTHER                       -> OneText(e.texts)

OpenAIText(e) ==
  CASE e.refusal                             -> [status |-> "refusal"]
    [] ~e.refusal /\ e.status # "completed" -> [status |-> "provider_failure"]
    [] OTHER                                 -> OneText(e.texts)

OpenRouterText(e) ==
  CASE Len(e.choices) # 1 -> [status |-> "invalid_response"]
    [] OTHER ->
         CASE e.finish_reason = "content_filter" -> [status |-> "refusal"]
           [] e.finish_reason = "length" -> [status |-> "provider_failure"]
           [] OTHER                      -> OneText(e.choices)

OutputText(provider, u) ==
  CASE provider = "claude"     -> ClaudeText(ClaudeEnvelope(u))
    [] provider = "openai"     -> OpenAIText(OpenAIEnvelope(u))
    [] provider = "openrouter" -> OpenRouterText(OpenRouterEnvelope(u))

\* OpenRouter is asked for the bare document, the others for one in an
\* object; those two take either.
Document(provider, text) ==
  IF text.wrapped /\ provider = "openrouter" THEN Unreadable ELSE text.doc

\* generate: the transport's outcome, the envelope, the document, the schema.
Generated(provider, scenario, u) ==
  CASE u.kind = "late" -> Failed("timeout")
    [] u.kind = "lost" -> Failed("provider_failure")
    [] OTHER ->
         LET output == OutputText(provider, u) IN
         IF output.status # "succeeded" THEN Failed(output.status)
         ELSE LET doc == Document(provider, output.text) IN
              IF SchemaValid(scenario, doc)
              THEN [status |-> "succeeded", doc |-> doc]
              ELSE Failed("invalid_response")
=============================================================================
