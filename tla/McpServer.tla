----------------------------- MODULE McpServer -----------------------------
(***************************************************************************)
(* `snp mcp serve` (src/src/mcp/protocol.rs, tools.rs): one JSON-RPC       *)
(* message per line, read from a pipe in whatever pieces it gives.  A byte *)
(* is <<i, j>>, the j-th of the i-th line; the last of a line is its end.  *)
(***************************************************************************)
EXTENDS Naturals, FiniteSets, Sequences, SequencesExt

CONSTANTS Line,      \* [method, id, sound, length] the client may write
          MaxBytes,  \* MAX_MESSAGE_BYTES
          MaxLines   \* bound: lines of a session

VARIABLES sent,        \* what the client has written
          pipe,
          open,        \* the client may write more
          listening,   \* the client reads the replies
          buffer,      \* what fill_buf has and has not been consumed
          line,        \* read_bounded_line
          discarding,  \* discard_until_newline
          state,       \* ServerState
          replies,
          at           \* of the server: "serving", "ended", "failed"
mcpVars == <<sent, pipe, open, listening, buffer, line, discarding, state, replies, at>>

Tool == {"snippets_list", "snippets_search", "snippet_get"}
Reply == [to : 0..MaxLines, kind : {"result", "error", "tool", "toolError"}]
TypeOK ==
    /\ sent \in Seq(Line) /\ Len(sent) <= MaxLines
    /\ open \in BOOLEAN /\ listening \in BOOLEAN /\ discarding \in BOOLEAN
    /\ \A b \in ToSet(pipe \o buffer \o line) :
         /\ b[1] \in DOMAIN sent /\ b[2] \in 1..sent[b[1]].length
    /\ Len(line) <= MaxBytes
    /\ state \in [initialized : BOOLEAN, clientInitialized : BOOLEAN]
    /\ replies \in Seq(Reply)
    /\ at \in {"serving", "ended", "failed"}

Init == /\ sent = <<>> /\ pipe = <<>> /\ open = TRUE /\ listening = TRUE
        /\ buffer = <<>> /\ line = <<>> /\ discarding = FALSE
        /\ state = [initialized |-> FALSE, clientInitialized |-> FALSE]
        /\ replies = <<>> /\ at = "serving"
---------------------------------------------------------------------------
(* The client *)

Bytes(i, l, n) == [j \in 1..n |-> <<i, j>>]

\* A line, and perhaps the last one, whose end is missing.
Write == \E l \in Line : \E whole \in BOOLEAN :
    /\ open /\ Len(sent) < MaxLines
    /\ sent' = Append(sent, l)
    /\ pipe' = pipe \o Bytes(Len(sent) + 1, l, IF whole THEN l.length ELSE l.length - 1)
    /\ open' = whole
    /\ UNCHANGED <<listening, buffer, line, discarding, state, replies, at>>

Leave == /\ open /\ open' = FALSE /\ listening' \in BOOLEAN
         /\ UNCHANGED <<sent, pipe, buffer, line, discarding, state, replies, at>>
---------------------------------------------------------------------------
(* handle_message *)

\* write_json: it fails, and the server ends, when nobody reads.
Write_json(i, kind) ==
    IF listening
    THEN replies' = Append(replies, [to |-> i, kind |-> kind]) /\ UNCHANGED at
    ELSE at' = "failed" /\ UNCHANGED replies
\* A message without an id is answered only when it is not understood.
Answer(i, l, kind) ==
    IF l.id THEN Write_json(i, kind) ELSE UNCHANGED <<replies, at>>

Ready == state.initialized /\ state.clientInitialized

\* Mutant of Initialize: a second handshake begins the session anew.
InitializeAgain(i, l) ==
    IF l.id /\ l.sound
    THEN /\ state' = [initialized |-> TRUE, clientInitialized |-> FALSE]
         /\ Write_json(i, "result")
    ELSE Answer(i, l, "error") /\ UNCHANGED state
Initialize(i, l) ==
    IF l.id /\ l.sound /\ ~state.initialized
    THEN /\ state' = [state EXCEPT !.initialized = TRUE]
         /\ Write_json(i, "result")
    ELSE Answer(i, l, "error") /\ UNCHANGED state

\* tools.rs: wrong arguments, a library that cannot be read, and a snippet_get
\* that matches none or several are results marked as errors; the libraries
\* may be changing, so that any number may match.
Call(i, l) ==
    \E read \in BOOLEAN : \E matches \in 0..2 :
        LET fine == /\ l.sound /\ read
                    /\ l.method = "snippet_get" => matches = 1
        IN Answer(i, l, IF fine THEN "tool" ELSE "toolError")

Handle_message(i, l) ==
    \/ /\ l.method = "initialized"
       /\ state' = [state EXCEPT !.clientInitialized = @ \/ state.initialized]
       /\ UNCHANGED <<replies, at>>
    \/ /\ l.method = "ping" /\ Answer(i, l, "result") /\ UNCHANGED state
    \/ /\ l.method = "initialize" /\ Initialize(i, l)
    \/ /\ l.method \in Tool \cup {"tools/list", "other"} /\ ~Ready
       /\ Answer(i, l, "error") /\ UNCHANGED state
    \/ /\ l.method = "tools/list" /\ Ready
       /\ Answer(i, l, IF l.sound THEN "result" ELSE "error") /\ UNCHANGED state
    \/ /\ l.method \in Tool /\ Ready /\ Call(i, l) /\ UNCHANGED state
    \/ /\ l.method = "other" /\ Ready /\ Answer(i, l, "error") /\ UNCHANGED state

Body(i) == Bytes(i, sent[i], sent[i].length - 1)
\* The line that some bytes are, with or without its end; 0 if it is none.
Whose(bytes) ==
    LET text == SelectSeq(bytes, LAMBDA b : b[2] < sent[b[1]].length)
    IN IF text # <<>> /\ text = Body(text[1][1]) THEN text[1][1] ELSE 0

\* An object without "jsonrpc" or a method is refused to its id.
Handle(bytes) ==
    LET i == Whose(bytes)
    IN IF i = 0 \/ sent[i].method \in {"text", "object"}
       THEN /\ Write_json(IF i # 0 /\ sent[i].method = "object" /\ sent[i].id THEN i ELSE 0,
                          "error")
            /\ UNCHANGED state
       ELSE Handle_message(i, sent[i])
HandleOversized == Write_json(0, "error") /\ UNCHANGED state
---------------------------------------------------------------------------
(* read_bounded_line *)

Ends(b) == b[2] = sent[b[1]].length
Newline == {k \in DOMAIN buffer : Ends(buffer[k])}
Taken == IF Newline = {} THEN Len(buffer)
         ELSE CHOOSE k \in Newline : \A m \in Newline : k <= m
Consume == buffer' = SubSeq(buffer, Taken + 1, Len(buffer))

Fill == /\ at = "serving" /\ buffer = <<>> /\ pipe # <<>>
        /\ \E k \in DOMAIN pipe :
             buffer' = SubSeq(pipe, 1, k) /\ pipe' = SubSeq(pipe, k + 1, Len(pipe))
        /\ UNCHANGED <<sent, open, listening, line, discarding, state, replies, at>>

Fits == Len(line) + Taken <= MaxBytes

Read == /\ at = "serving" /\ buffer # <<>> /\ ~discarding /\ Fits
        /\ Consume
        /\ \/ Newline = {} /\ line' = line \o buffer /\ UNCHANGED <<state, replies, at>>
           \/ Newline # {} /\ line' = <<>> /\ Handle(line \o SubSeq(buffer, 1, Taken))
        /\ UNCHANGED <<sent, pipe, open, listening, discarding>>

\* Mutant of Oversized: the rest of the line is taken for the next one.
OversizedAtOnce ==
    /\ at = "serving" /\ buffer # <<>> /\ ~discarding /\ ~Fits
    /\ Consume /\ line' = <<>> /\ HandleOversized
    /\ UNCHANGED <<sent, pipe, open, listening, discarding>>
Oversized ==
    /\ at = "serving" /\ buffer # <<>> /\ ~discarding /\ ~Fits
    /\ Consume /\ line' = <<>>
    /\ \/ Newline = {} /\ discarding' = TRUE /\ UNCHANGED <<state, replies, at>>
       \/ Newline # {} /\ HandleOversized /\ UNCHANGED discarding
    /\ UNCHANGED <<sent, pipe, open, listening>>

Discard ==
    /\ at = "serving" /\ buffer # <<>> /\ discarding
    /\ Consume
    /\ \/ Newline = {} /\ UNCHANGED <<discarding, state, replies, at>>
       \/ Newline # {} /\ discarding' = FALSE /\ HandleOversized
    /\ UNCHANGED <<sent, pipe, open, listening, line>>

\* The end of the input: of the line at hand, or of the session.
End ==
    /\ at = "serving" /\ ~open /\ pipe = <<>> /\ buffer = <<>>
    /\ line' = <<>> /\ discarding' = FALSE
    /\ \/ discarding /\ HandleOversized
       \/ ~discarding /\ line # <<>> /\ Handle(line)
       \/ ~discarding /\ line = <<>> /\ at' = "ended" /\ UNCHANGED <<state, replies>>
    /\ UNCHANGED <<sent, pipe, open, listening, buffer>>

Next == Write \/ Leave \/ Fill \/ Read \/ Oversized \/ Discard \/ End
McpSpec == Init /\ [][Next]_mcpVars
---------------------------------------------------------------------------
(* Properties *)

\* What a line is answered, from the lines before it alone.
Long(i) == sent[i].length > MaxBytes
Opening(i) == sent[i].method = "initialize" /\ sent[i].id /\ sent[i].sound /\ ~Long(i)
Opened(i) == \E k \in 1..i-1 : Opening(k)
Readied(i) == \E k \in 1..i-1 : sent[k].method = "initialized" /\ ~Long(k) /\ Opened(k)
Served(i) ==
    \/ sent[i].method = "ping"
    \/ Opening(i) /\ ~Opened(i)
    \/ sent[i].method = "tools/list" /\ sent[i].sound /\ Readied(i)
    \/ sent[i].method \in Tool /\ Readied(i)
Owed(i) ==
    CASE Long(i) \/ sent[i].method = "text" -> <<[to |-> 0, served |-> FALSE]>>
      [] sent[i].method = "object" /\ ~Long(i) ->
            <<[to |-> IF sent[i].id THEN i ELSE 0, served |-> FALSE]>>
      [] ~Long(i) /\ sent[i].method \notin {"text", "object"} ->
            IF sent[i].id /\ sent[i].method # "initialized"
            THEN <<[to |-> i, served |-> Served(i)]>> ELSE <<>>

Replied == [k \in DOMAIN replies |-> [to |-> replies[k].to, served |-> replies[k].kind # "error"]]
Quiet == at # "failed" /\ pipe = <<>> /\ buffer = <<>> /\ line = <<>> /\ discarding = FALSE

\* protocol.rs: when all that was written has been read, every request has
\* had one reply, in the order of the requests, and so has every line that
\* is none; which it was, and whether it was served, depends on the lines and
\* never on the pieces in which the pipe gave them.  A cut line of no more
\* than the limit without its end is still one of the limit.
Whole == \A i \in DOMAIN sent : open \/ i < Len(sent) \/ sent[i].length # MaxBytes + 1
AnsweredInTurn ==
    Quiet /\ Whole =>
        Replied = FlattenSeq([i \in DOMAIN sent |-> Owed(i)])
=============================================================================
