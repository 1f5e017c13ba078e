--------------------------- MODULE CompilerService ---------------------------
(***************************************************************************)
(* One request from its arrival at CompilerService.Execute to its          *)
(* response, with the Firecracker backend: the language is normalised, the *)
(* code decoded and sanitized, and the guest asked to execute it.  How the *)
(* requests of several workers interact is the matter of FirecrackerPool;  *)
(* this module is about what is sent and what is made of the answer.       *)
(*                                                                         *)
(* Initialize makes calls of VsockClient without a request: its pings.     *)
(***************************************************************************)
EXTENDS VsockClient

CONSTANTS
  Names,     \* languages as requests name them, in lower case
  Contains,  \* for each of them, which of the tokens below is a part of it
  Codes      \* the code of the requests, see Code

Tokens == {"py", "js", "go", "c"}
MaxCodeLength == 10000

\* DangerousPatterns: the categories for all languages and for each of them.
DangerousPatterns == [
  common |-> {"systemOperations", "codeExecution", "resourceDepletion", "forkBombs"},
  python |-> {"dangerousModules", "dangerousOperations", "pythonResourceDepletion"},
  go     |-> {"infiniteLoops", "dangerousOsFunctions", "goResourceDepletion"},
  js     |-> {"dangerousModules", "dangerousOperations", "jsResourceDepletion"},
  cpp    |-> {"dangerousOperations", "cppResourceDepletion"}]

Languages == DOMAIN DangerousPatterns \ {"common"}
Categories == UNION {{t} \X DangerousPatterns[t] : t \in DOMAIN DangerousPatterns}

\* A text: whether it is base64, its length when decoded, and the categories with
\* a pattern that compiles and matches it.
Code == [base64 : BOOLEAN, length : Nat, matches : SUBSET Categories]

\* languageConfigs of the Docker backend, with the timeouts in seconds.
languageConfigs == [go |-> 20, js |-> 10, python |-> 10, cpp |-> 20]

ASSUME CompilerServiceAssumption ==
  /\ Languages \subseteq Names
  /\ Contains \in [Names -> SUBSET Tokens]
  /\ Contains["python"] = {"py"} /\ Contains["js"] = {"js"}
  /\ Contains["go"] = {"go"} /\ Contains["cpp"] = {"c"}
  /\ "common" \notin Names
  /\ Codes \subseteq Code

VARIABLES
  name,      \* the language of the request
  code,      \* its code
  step,      \* progress of the request
  executed,  \* the language the code is to be executed as
  response   \* CompilerResponse: Success, and what StatusMessage is about

requestVars == <<name, code, step, executed, response>>
serviceVars == <<requestVars, vsockVars>>

NoLanguage == "none"
NoResponse == [Success |-> FALSE, StatusMessage |-> "none"]

-----------------------------------------------------------------------------
\* The first case that applies.
normalizeLanguage(lang) ==
  CASE "py" \in Contains[lang] -> "python"
    [] "py" \notin Contains[lang] /\ "js" \in Contains[lang] -> "js"
    [] Contains[lang] \cap {"py", "js"} = {} /\ "go" \in Contains[lang] -> "go"
    [] Contains[lang] = {"c"} -> "cpp"
    [] OTHER -> lang

\* A pattern of table t matches.
hasMatchingPattern(c, t) == \E category \in DangerousPatterns[t] : <<t, category>> \in c.matches

\* Mutant: a language without patterns of its own is let through.
SanitizeCodeOpen(c, lang) ==
  IF c.length > MaxCodeLength THEN "too long"
  ELSE IF hasMatchingPattern(c, "common") THEN "prohibited"
  ELSE IF lang \in Languages /\ hasMatchingPattern(c, lang) THEN "prohibited"
  ELSE "fine"

SanitizeCode(c, lang) ==
  IF c.length > MaxCodeLength THEN "too long"
  ELSE IF hasMatchingPattern(c, "common") THEN "prohibited"
  ELSE IF lang \notin Languages THEN "unsupported language"
  ELSE IF hasMatchingPattern(c, lang) THEN "prohibited"
  ELSE "fine"

-----------------------------------------------------------------------------
ServiceInit ==
  /\ VsockInit
  /\ name \in Names
  /\ code \in Codes
  /\ step = IF op = "Execute" THEN "received" ELSE "pinging"
  /\ executed = NoLanguage
  /\ response = NoResponse

Respond(success, message) ==
  /\ step' = "responded"
  /\ response' = [Success |-> success, StatusMessage |-> message]
  /\ UNCHANGED <<name, code, executed, vsockVars>>

\* Execute, up to the call of ExecuteJob.
DecodeFails ==
  /\ step = "received"
  /\ ~code.base64
  /\ Respond(FALSE, "Failed to decode base64")

Refuse ==
  /\ step = "received"
  /\ code.base64
  /\ SanitizeCode(code, normalizeLanguage(name)) # "fine"
  /\ Respond(FALSE, SanitizeCode(code, normalizeLanguage(name)))

Submit ==
  /\ step = "received"
  /\ code.base64
  /\ SanitizeCode(code, normalizeLanguage(name)) = "fine"
  /\ step' = "queued"
  /\ executed' = normalizeLanguage(name)
  /\ UNCHANGED <<name, code, response, vsockVars>>

\* ExecuteJob finds the queue full.
QueueFull ==
  /\ step = "received"
  /\ code.base64
  /\ SanitizeCode(code, normalizeLanguage(name)) = "fine"
  /\ Respond(FALSE, "Failed to execute code")

\* A worker takes the job from p.jobs and has its place among the warm machines:
\* when it comes to that, if ever, is up to the other requests and to Shutdown.
TakeJob ==
  /\ step = "queued"
  /\ step' = "executing"
  /\ UNCHANGED <<name, code, executed, response, vsockVars>>

\* The machine cannot be started, restored or found.
ExecuteJobFails ==
  /\ step = "executing"
  /\ stage = "dial"
  /\ Respond(FALSE, "Failed to execute code")

\* The call of VsockClient.
Exchange ==
  /\ step \in {"executing", "pinging"}
  /\ VsockNext
  /\ UNCHANGED requestVars

\* The end of executeCode and of Execute.
ExecuteJobReturns ==
  /\ step = "executing"
  /\ stage \in Ended
  /\ IF stage = "done" /\ answer = "success" THEN Respond(TRUE, "Success")
     ELSE Respond(FALSE, "Failed to execute code")

ServiceStep ==
  DecodeFails \/ Refuse \/ Submit \/ QueueFull \/ ExecuteJobFails \/ ExecuteJobReturns

ServiceNext == ServiceStep \/ TakeJob \/ Exchange

ServiceSpec == ServiceInit /\ [][ServiceNext]_serviceVars

\* The goroutines of the request and of the worker run when they can, and deadlines
\* expire; nothing is assumed of the other side, and not that a worker comes.
ClientExchange == Exchange /\ ClientStep

ServiceFairness ==
  /\ WF_serviceVars(ServiceStep)
  /\ WF_serviceVars(ClientExchange)

ServiceFairSpec == ServiceSpec /\ ServiceFairness

-----------------------------------------------------------------------------
ServiceTypeOK ==
  /\ VsockTypeOK
  /\ name \in Names
  /\ code \in Codes
  /\ step \in {"received", "queued", "executing", "responded", "pinging"}
  /\ executed \in Languages \cup {NoLanguage}
  /\ response \in [Success : BOOLEAN, StatusMessage : STRING]

\* Code is executed only as the language it was checked for, whatever the request
\* calls it, and every language the sanitizer knows has a command in the backends.
VettedAsExecuted ==
  executed # NoLanguage =>
    /\ executed \in DOMAIN languageConfigs
    /\ code.length <= MaxCodeLength
    /\ \A t \in {"common", executed}, c \in code.matches : c[1] # t

\* A response with Success goes with a request that was vetted and with the whole
\* answer of the guest, of a program that has succeeded; never with what is left
\* of a connection that was cut or closed.
SuccessIsGenuine ==
  response.Success =>
    executed # NoLanguage /\ answer = "success" /\ length > 0 /\ consumed = StreamEnd

\* But for the wait in the queue and the response to CONNECT, nothing keeps the
\* goroutines of the request from their next step.
RequestMoves ==
  /\ step = "received" \/ (step = "executing" /\ stage \in Ended)
       => ENABLED <<ServiceStep>>_serviceVars
  /\ step = "executing" /\ stage \in {"dial", "request", "length", "body"}
       => ENABLED <<ClientExchange>>_serviceVars

\* A request is responded to, whatever the other side does, unless no worker ever
\* takes its job (all of them hang, or the pool is shut down) or the response to
\* CONNECT never comes.
RequestEndsOrHangs ==
  step = "received" ~>
    (step = "responded" \/ [](step = "queued") \/ [](stage = "handshake"))

-----------------------------------------------------------------------------
\* README.md names the languages the engine supports: a request that is executed
\* is executed as the language it names.
Supported == [n \in {"python", "javascript", "node.js", "c++", "go"} |->
  CASE n = "python" -> "python" [] n = "go" -> "go" [] n = "c++" -> "cpp" [] OTHER -> "js"]

ExecutedAsNamed ==
  executed # NoLanguage /\ name \in DOMAIN Supported => executed = Supported[name]

\* VsockHandshakeTimeout: the handshake ends.
HandshakeEnds == stage = "handshake" ~> stage # "handshake"

=============================================================================
