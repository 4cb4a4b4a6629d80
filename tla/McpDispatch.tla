---------------------------- MODULE McpDispatch ----------------------------
(***************************************************************************)
(* POST /mcp (http.rs): a request is authenticated, one token of the demo  *)
(* bucket is taken for it when it carries the demo key, and its JSON-RPC   *)
(* items are dispatched one after another, each awaited.  Clients connect  *)
(* and go away at any time; a tool that has run has run.                   *)
(*                                                                         *)
(* The authentication is the function of the credentials in auth.rs; the   *)
(* keyset it may wait for is module JwksCache.  The answer of the bucket   *)
(* is any answer here, and module RateLimiter says which.                  *)
(***************************************************************************)
EXTENDS Integers, Sequences, SequencesExt

CONSTANTS
    Items,        \* JSON-RPC items: [envelope, id, method]
    Credentials,  \* what a request carries: "bearer", "main", "demo", "wrong"
    Configs,      \* configurations: [oauth, keys, production]
    MaxItems      \* bound: items of a batch

ASSUME ItemsAssumption ==
    /\ MaxItems \in Nat
    /\ Items \subseteq [envelope : {"ok", "unreadable", "version"}, id : BOOLEAN,
                       method : {"plain", "notice", "tool", "unknown", "no_params"}]

VARIABLES
    config,   \* is OAuth enabled, which keys are set, is it production?
    body,     \* the items of the request, in order
    batch,    \* was the body an array?
    handling,    \* "auth", "limit", "dispatch", "tool", "sent" or "closed"
    scheme,   \* the scheme it was authenticated by
    turn,     \* the item being dispatched
    responses,  \* the answers so far: [to, kind], to the item or to 0, no id;
                \* from, a history, is the item whose dispatch gave it
    ran,      \* history: the items whose tool was run
    reply     \* the HTTP reply: its status, and whether the body is an array

mcpVars == <<config, body, batch, handling, scheme, turn, responses, ran, reply>>

NoReply == [status |-> 0, array |-> FALSE]

McpInit ==
    /\ config \in Configs
    /\ body = <<>> /\ batch = FALSE
    /\ handling = "closed" /\ scheme = "none"
    /\ turn = 1 /\ responses = <<>> /\ ran = {} /\ reply = NoReply

-----------------------------------------------------------------------------
Accept ==
    /\ handling \in {"sent", "closed"}
    /\ batch' \in BOOLEAN
    /\ body' \in IF batch' THEN UNION {[1 .. n -> Items] : n \in 0 .. MaxItems}
                 ELSE [1 .. 1 -> Items]
    /\ handling' = "auth" /\ scheme' = "none"
    /\ turn' = 1 /\ responses' = <<>> /\ ran' = {} /\ reply' = NoReply
    /\ UNCHANGED config

Send(status, array) ==
    /\ handling' = "sent"
    /\ reply' = [status |-> status, array |-> array]

\* A bearer token is judged by the key set; a key by comparison; without any
\* configured scheme everybody is let in, except in production.
AuthOutcomes(c) ==
    CASE config.oauth /\ c = "bearer" -> {"oauth", "refused"}
      [] config.oauth /\ c # "bearer" /\ "main" \notin config.keys -> {"refused"}
      [] ~(config.oauth /\ (c = "bearer" \/ "main" \notin config.keys)) ->
             IF config.keys # {} THEN {IF c \in config.keys THEN c ELSE "refused"}
             ELSE {IF config.production THEN "refused" ELSE "none"}
Authenticate(c) ==
    /\ handling = "auth"
    /\ \E s \in AuthOutcomes(c) :
          /\ scheme' = s
          /\ IF s = "refused" THEN Send(401, FALSE)
             ELSE handling' = (IF s = "demo" THEN "limit" ELSE "dispatch") /\ UNCHANGED reply
    /\ UNCHANGED <<config, body, batch, turn, responses, ran>>

TakeToken ==
    /\ handling = "limit"
    /\ \/ handling' = "dispatch" /\ UNCHANGED <<reply, responses>>
       \/ Send(429, FALSE) /\ responses' = <<[to |-> 0, kind |-> "error", from |-> 0]>>
    /\ UNCHANGED <<config, body, batch, scheme, turn, ran>>

\* Dispatch of an item ends with this answer, or none.
Answer(kind, id) ==
    /\ responses' =
           IF kind = "none" THEN responses
           ELSE Append(responses, [to |-> IF id THEN turn ELSE 0, kind |-> kind, from |-> turn])
    /\ turn' = turn + 1
    /\ handling' = "dispatch"

\* Mutant: an item without an id is answered too, with an id of null.
AnswerEveryone(item, kind) == Answer(kind, item.id)

\* Notifications: no response even if the method succeeded.
AnswerResult(item, kind) == Answer(IF item.id THEN kind ELSE "none", item.id)

\* dispatch_one, up to the await of a tool.
DispatchOne ==
    /\ handling = "dispatch"
    /\ turn <= Len(body)
    /\ LET item == body[turn] IN
       IF item.envelope = "unreadable" THEN Answer("error", FALSE)
       ELSE IF item.envelope = "version" THEN Answer("error", item.id)
       ELSE \/ item.method = "notice" /\ Answer("none", FALSE)
            \/ item.method = "plain" /\ AnswerResult(item, "result")
            \/ item.method \in {"unknown", "no_params"} /\ AnswerResult(item, "error")
            \/ item.method = "tool" /\ handling' = "tool" /\ UNCHANGED <<responses, turn>>
    /\ UNCHANGED <<config, body, batch, scheme, ran, reply>>

\* handle_tools_call after its await.  A tool nobody registered was not run.
ToolEnds ==
    /\ handling = "tool"
    /\ \/ ran' = ran \cup {turn} /\ AnswerResult(body[turn], "result")
       \/ ran' = ran \cup {turn} /\ AnswerResult(body[turn], "isError")
       \/ ran' \in {ran, ran \cup {turn}} /\ AnswerResult(body[turn], "error")
    /\ UNCHANGED <<config, body, batch, scheme, reply>>

Respond ==
    /\ handling = "dispatch"
    /\ turn > Len(body)
    /\ IF responses = <<>> THEN Send(204, FALSE) ELSE Send(200, Len(responses) > 1)
    /\ UNCHANGED <<config, body, batch, scheme, turn, responses, ran>>

\* The connection closes, and the handler is dropped at its await.
HangUp ==
    /\ handling \in {"auth", "tool"}
    /\ handling' = "closed"
    /\ UNCHANGED <<config, body, batch, scheme, turn, responses, ran, reply>>

McpNext ==
    \/ Accept \/ TakeToken \/ DispatchOne \/ ToolEnds \/ Respond \/ HangUp
    \/ \E c \in Credentials : Authenticate(c)

McpSpec == McpInit /\ [][McpNext]_mcpVars

-----------------------------------------------------------------------------
\* An answer is owed to every item but a well-formed one that has no id or
\* whose method is a notice.
Owed(item) ==
    item.envelope # "ok" \/ (item.id /\ item.method # "notice")

\* The id an answer carries: the item's own, or null when none could be read.
Id(i) == IF body[i].envelope # "unreadable" /\ body[i].id THEN i ELSE 0

OwedItems == {i \in 1 .. Len(body) : Owed(body[i])}

\* A reply carries one answer for each item that is owed one, in the order of
\* the items and under the item's own id; it is an array for two answers or
\* more, and empty exactly when none is owed.  A tool that ran for such an item
\* is answered for.  A refused request has run no tool and is told so once
\* (http.rs:236-314, 333-383).
RepliesMatchItems ==
    handling = "sent" =>
        IF reply.status \in {401, 429} THEN ran = {} /\ Len(responses) <= 1
        ELSE /\ {responses[k].from : k \in 1 .. Len(responses)} = OwedItems
             /\ \A k, l \in 1 .. Len(responses) : k < l => responses[k].from < responses[l].from
             /\ \A k \in 1 .. Len(responses) : responses[k].to = Id(responses[k].from)
             /\ reply.status = 204 <=> OwedItems = {}
             /\ reply.array <=> \E i, j \in OwedItems : i # j
             /\ \A i \in ran \cap OwedItems : \E k \in 1 .. Len(responses) : responses[k].to = i

\* What the comment at http.rs:317-320 says: an answered batch is answered with
\* an array.
BatchesGetArrays ==
    handling = "sent" /\ batch /\ reply.status = 200 => reply.array
=============================================================================
