----------------------------- MODULE ResponseStream -----------------------------
(***************************************************************************)
(* A streamed response on its way through ObservedStream                   *)
(* (src/metrics/stream.rs): cut into chunks by the network wherever it     *)
(* likes, each chunk through the rewriter that gives the client its own    *)
(* model name back (src/proxy/model_rewrite.rs), a copy kept for the       *)
(* thinking registry.                                                      *)
(*                                                                         *)
(* The bytes are tokens: the first line of a named event, the two halves   *)
(* of its data line, and newlines.  A chunk ends between two tokens.  That *)
(* between the halves of a wide event is inside a character of UTF-8.      *)
(***************************************************************************)
EXTENDS Naturals, Sequences, SequencesExt

CONSTANT Responses  \* what backends may answer: sequences of events

\* "block_..." is of a thinking block, "redacted" the only event of a redacted one
\* that matters, "other" what neither the rewriter nor the registry looks at: a ping,
\* blocks of text and their deltas.
Kinds == {"message_start", "block_start", "redacted", "block_delta", "block_stop",
          "completion", "other"}

\* text: the event has text for its block, which an empty string is not.
EventType ==
    [kind : Kinds, index : Nat, text : BOOLEAN, wide : BOOLEAN, model_known : BOOLEAN]

\* A message starts once.
ASSUME ResponsesAssumption ==
    /\ Responses \subseteq Seq(EventType)
    /\ \A r \in Responses : \A e, f \in DOMAIN r :
         r[e].kind = "message_start" /\ r[f].kind = "message_start" => e = f

VARIABLES
    response,           \* external: the events of this response
    mapping,            \* Option<ModelMapping>: the request's model was mapped
    source,             \* external: the tokens that have not arrived
    anthropic_done,     \* of the rewriter
    on_complete,        \* the callback that registers thinking, not yet called
    response_buffer,    \* the copy for the callback
    delivered,          \* the tokens handed to the client
    ended,              \* how the stream ended, or "no"
    registered,         \* the blocks that were registered: of each, the events
                        \*          that brought its text
    torn, cut           \* history: a rewritten chunk had a bad edge; the events
                        \*          whose data line came in two chunks

streamVars == <<response, mapping, source, anthropic_done, on_complete,
                response_buffer, delivered, ended, registered, torn, cut>>

-----------------------------------------------------------------------------
(* Server-sent events as tokens. *)

Token(part, e) == [part |-> part, event |-> e, original |-> FALSE, damaged |-> FALSE]

NL == Token("newline", 0)

IsNamed(e) == response[e].kind # "completion"

TokensOf(e) ==
    (IF IsNamed(e) THEN <<Token("name", e), NL>> ELSE <<>>)
    \o <<Token("head", e), Token("tail", e), NL, NL>>

Whole(r) == FlattenSeq([e \in DOMAIN r |-> TokensOf(e)])

\* A token more: a newline begins a line, any other token goes on with the last.
LinesWith(lines, t) ==
    IF t.part = "newline" THEN Append(lines, <<>>)
    ELSE Append(Front(lines), Append(Last(lines), t))

\* The lines of a text; the last one is what follows the last newline.
Lines(s) ==
    LET upTo[n \in 0..Len(s)] ==
            IF n = 0 THEN << <<>> >> ELSE LinesWith(upTo[n - 1], s[n])
    IN  upTo[Len(s)]

\* The line is "data:" and one complete JSON value.
IsDataLine(line) ==
    Len(line) = 2 /\ line[1].part = "head" /\ line[2].part = "tail"

StartsWithData(line) == line # <<>> /\ line[1].part = "head"

\* The events a client dispatches: data lines up to a blank line.  An event of
\* several data lines, or of one that is not JSON, is garbage.
Garbage == [event |-> 0, original |-> FALSE, damaged |-> TRUE]

Dispatched(data) ==
    IF Len(data) = 1 /\ IsDataLine(data[1])
    THEN [ event    |-> data[1][2].event,
           original |-> data[1][2].original,
           damaged  |-> data[1][1].damaged \/ data[1][2].damaged ]
    ELSE Garbage

\* What the client has read: the data lines of the event it reads, and the
\* events before.
ReadWith(read, line) ==
    IF StartsWithData(line)
    THEN [data |-> Append(read.data, line), events |-> read.events]
    ELSE IF line = <<>> /\ read.data # <<>>
    THEN [data |-> <<>>, events |-> Append(read.events, Dispatched(read.data))]
    ELSE read

\* A line is read when its newline is there.
Read(lines) ==
    LET upTo[n \in 0..Len(lines)] ==
            IF n = 0 THEN [data |-> <<>>, events |-> <<>>]
            ELSE ReadWith(upTo[n - 1], lines[n])
    IN  upTo[Len(lines)]

Seen(s) == Read(Front(Lines(s))).events

-----------------------------------------------------------------------------
(* make_reverse_model_rewriter *)

Has(chunk, part, kinds) ==
    \E i \in DOMAIN chunk : chunk[i].part = part /\ response[chunk[i].event].kind \in kinds

\* The bytes that make the rewriter look at a chunk at all.
HasMarker(chunk) ==
    \/ ~anthropic_done /\ Has(chunk, "head", {"message_start"})
    \/ Has(chunk, "head", {"completion"}) /\ Has(chunk, "tail", {"completion"})

\* A data line of a kind that names the model, in the backend's words.
NamesModel(line) ==
    /\ IsDataLine(line)
    /\ response[line[1].event].kind \in {"message_start", "completion"}
    /\ response[line[1].event].model_known

Renamed(line) ==
    IF NamesModel(line) THEN [line EXCEPT ![2].original = TRUE] ELSE line

\* Mutant of Joined: the lines are put together without what separates them.
Concatenated(lines) == FlattenSeq(lines)

JoinedWith(text, line) == IF text = <<>> THEN line ELSE text \o <<NL>> \o line

\* The lines put together again: a newline goes before every line that is not
\* the first of the text so far, so that newlines at the start are lost.
Joined(lines) ==
    LET upTo[n \in 0..Len(lines)] ==
            IF n = 0 THEN <<>> ELSE JoinedWith(upTo[n - 1], lines[n])
    IN  upTo[Len(lines)]

\* String::from_utf8_lossy: half a character at an edge is replaced.
TornStart(chunk) == chunk[1].part = "tail" /\ response[chunk[1].event].wide

TornEnd(chunk) == LET t == chunk[Len(chunk)] IN t.part = "head" /\ response[t.event].wide

Lossy(chunk) ==
    [i \in DOMAIN chunk |->
        IF (i = 1 /\ TornStart(chunk)) \/ (i = Len(chunk) /\ TornEnd(chunk))
        THEN [chunk[i] EXCEPT !.damaged = TRUE] ELSE chunk[i]]

IsRewritten(chunk) ==
    /\ mapping /\ HasMarker(chunk)
    /\ \E i \in DOMAIN Lines(chunk) : NamesModel(Lines(chunk)[i])

Rewritten(chunk) ==
    IF IsRewritten(chunk)
    THEN LET lines == Lines(Lossy(chunk)) IN
         Joined([i \in DOMAIN lines |-> Renamed(lines[i])])
    ELSE chunk

\* Mutant of StartIsOver: any chunk that could hold the event will do.
FirstChunkIsOver(chunk) == TRUE

\* The event message_start was in the chunk as a whole.
StartIsOver(chunk) ==
    /\ HasMarker(chunk)
    /\ \E i \in DOMAIN Lines(chunk) :
         /\ IsDataLine(Lines(chunk)[i])
         /\ response[Lines(chunk)[i][1].event].kind = "message_start"

-----------------------------------------------------------------------------
(* ObservedStream *)

StreamInit ==
    /\ response \in Responses
    /\ mapping \in BOOLEAN /\ on_complete \in BOOLEAN
    /\ source = Whole(response)
    /\ anthropic_done = FALSE
    /\ response_buffer = <<>> /\ delivered = <<>>
    /\ ended = "no"
    /\ registered = {}
    /\ torn = FALSE /\ cut = {}

\* History: edges of a rewritten chunk at which something was lost.
BadEdge(chunk) ==
    IsRewritten(chunk) /\ (chunk[1] = NL \/ TornStart(chunk) \/ TornEnd(chunk))

CutBehind(chunk) ==
    LET t == chunk[Len(chunk)] IN IF t.part = "head" THEN {t.event} ELSE {}

\* poll_next: the next n tokens arrive.
PollChunk(n) ==
    LET chunk == SubSeq(source, 1, n) IN
    /\ ended = "no"
    /\ source' = SubSeq(source, n + 1, Len(source))
    /\ anthropic_done' = (anthropic_done \/ (mapping /\ StartIsOver(chunk)))
    /\ delivered' = delivered \o Rewritten(chunk)
    /\ response_buffer' = IF on_complete THEN response_buffer \o Rewritten(chunk)
                          ELSE response_buffer
    /\ torn' = (torn \/ BadEdge(chunk))
    /\ cut' = cut \cup CutBehind(chunk)
    /\ UNCHANGED <<response, mapping, on_complete, ended, registered>>

\* parse_sse_events, which goes by lines: the events of a text.
Parsed(s) ==
    {Lines(s)[i][1].event : i \in {j \in DOMAIN Lines(s) : IsDataLine(Lines(s)[j])}}

\* The starts and stops that come after s for the index of s.
Boundaries(events, s) ==
    {f \in events : /\ f > s /\ response[f].index = response[s].index
                    /\ response[f].kind \in {"block_start", "block_stop"}}

\* The accumulator of the block that s starts: what it brings itself, and every
\* delta of its index up to the next boundary.
Text(events, s) ==
    {d \in events :
        /\ response[d].text
        /\ \/ d = s
           \/ /\ response[d].kind = "block_delta" /\ d > s
              /\ response[d].index = response[s].index
        /\ \A f \in Boundaries(events, s) : d < f}

\* The first boundary after s, if there is one, is of this kind.
EndsWith(events, s, kind) ==
    \E f \in Boundaries(events, s) :
        response[f].kind = kind /\ \A g \in Boundaries(events, s) : f <= g

Starts(events) == {s \in events : response[s].kind = "block_start"}

RedactedBlocks(events) == {{e} : e \in {f \in events : response[f].kind = "redacted"}}

\* The blocks that are registered while the stream goes on.
StoppedBlocks(events) ==
    LET stopped == {s \in Starts(events) : EndsWith(events, s, "block_stop")} IN
    ({Text(events, s) : s \in stopped} \ {{}}) \cup RedactedBlocks(events)

\* register_from_sse_stream, each block by its text.  A start discards the
\* accumulator of its index; those that are left at the end are registered too.
Blocks(events) ==
    LET kept == {s \in Starts(events) : ~EndsWith(events, s, "block_start")} IN
    ({Text(events, s) : s \in kept} \ {{}}) \cup RedactedBlocks(events)

\* Mutant of Finish: a stream that breaks off registers nothing.
FinishWhenDone(how) ==
    /\ ended' = how
    /\ registered' = IF on_complete /\ how = "done" THEN Blocks(Parsed(response_buffer))
                     ELSE registered
    /\ on_complete' = FALSE

\* finish, which takes the callback; the drop that follows finds none.
Finish(how) ==
    /\ ended' = how
    /\ registered' = IF on_complete THEN Blocks(Parsed(response_buffer)) ELSE registered
    /\ on_complete' = FALSE

\* The stream is done; it breaks off; the backend was silent for too long; or
\* the client is gone and the stream dropped.
StreamEnds ==
    /\ ended = "no"
    /\ \/ source = <<>> /\ Finish("done")
       \/ Finish("error")
       \/ Finish("idle_timeout")
       \/ Finish("dropped")
    /\ UNCHANGED <<response, mapping, source, anthropic_done, response_buffer,
                   delivered, torn, cut>>

StreamNext == (\E n \in 1..Len(source) : PollChunk(n)) \/ StreamEnds

StreamSpec == StreamInit /\ [][StreamNext]_streamVars

-----------------------------------------------------------------------------
(* What must hold. *)

TokenType ==
    [part : {"newline", "name", "head", "tail"}, event : Nat, original : BOOLEAN,
     damaged : BOOLEAN]

StreamTypeOK ==
    /\ response \in Responses
    /\ {source, delivered, response_buffer} \subseteq Seq(TokenType)
    /\ {mapping, anthropic_done, on_complete, torn} \subseteq BOOLEAN
    /\ ended \in {"no", "done", "error", "idle_timeout", "dropped"}
    /\ registered \subseteq SUBSET DOMAIN response /\ cut \subseteq DOMAIN response
    /\ ended # "no" => ~on_complete

Events == Seen(delivered)

\* docs/design/reverse-model-mapping.md:45: the rewriter reconstructs what it has
\* taken apart.  The client gets the events of the backend, unharmed, in order
\* and all of them when the stream is done, unless a chunk that was rewritten
\* began with a newline or with half a character, or ended with one.
EventsReachClient ==
    /\ StreamTypeOK
    /\ ~torn =>
          /\ \A i \in DOMAIN Events : Events[i].event = i /\ ~Events[i].damaged
          /\ ended = "done" => Len(Events) = Len(response)

\* docs/design/reverse-model-mapping.md:51: with full line reconstruction, no event is
\* lost.  The code does not keep this when a rewritten chunk begins with a newline,
\* and no run checks it.
NoEventLost == ended = "done" => Len(Events) = Len(response)

\* docs/design/reverse-model-mapping.md:86: the client reads the name of the
\* model it asked for, and the backend's name only in an event that came in two
\* chunks.
ClientModelNamed ==
    mapping => \A i \in DOMAIN Events :
        LET e == Events[i].event IN
        e # 0 /\ e \notin cut => (Events[i].original <=> NamesModel(<<Token("head", e), Token("tail", e)>>))

SeenEvents == {Events[i].event : i \in DOMAIN Events} \ {0}

\* Every block that has ended for the client is registered with the text it read.
\* A block that broke off is registered as the client has it, but for one event
\* whose blank line did not come.
RegistersSeen ==
    /\ StoppedBlocks(SeenEvents) \subseteq registered'
    /\ \/ registered' = Blocks(SeenEvents)
       \/ \E e \in DOMAIN response : registered' = Blocks(SeenEvents \cup {e})

\* src/proxy/pipeline/response.rs:102: the thinking the client has got is registered
\* when the stream is over, however it ended and however it was cut: otherwise the
\* next request would lose it.
SeenIsRegistered ==
    [][ended # ended' /\ on_complete => RegistersSeen]_streamVars
=============================================================================
