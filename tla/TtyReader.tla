------------------------------- MODULE TtyReader -------------------------------
(***************************************************************************)
(* TtyReader::read of crates/term_input/src/reader.rs, called for ever by  *)
(* the input thread, with the terminal at the other end.  A key or a paste *)
(* is one thing to the user and a run of bytes to the terminal; it arrives *)
(* in pieces of any size, at any time, and only two timeouts tell a lone   *)
(* Escape from the first byte of a sequence that is still on its way.      *)
(***************************************************************************)
EXTENDS InputParser

CONSTANTS
    Units,      \* what the user can type: [raw |-> bytes, kinds |-> events]
    BufSize,    \* size of the read buffer
    MaxTyped    \* bound, for model checking only: units typed

------------------------------------------------------------------------------
(* What the user can type: keys in the forms terminals send them, each     *)
(* with its kind and said of its bytes, not of the states of the parser.   *)

ParamBytes == Digits \cup {";"}

Introducer == <<"esc", "[">>
SgrIntroducer == <<"esc", "[", "<">>

\* raw is the introducer, parameters and one byte that ends them.
Framed(raw, introducer, params, final) ==
    /\ raw = introducer \o params \o <<final>>
    /\ params \in Seq(ParamBytes)

Middle(raw, introducer) == SubSeq(raw, Len(introducer) + 1, Len(raw) - 1)

PlainKey(raw, kind) ==
    Len(raw) = 1 /\ raw[1] \notin {"esc"} \cup DOMAIN Lead /\ kind = KeyOf(raw[1])

EscapeKey(raw, kind) == raw = <<"esc">> /\ kind = Kind("Escape")

AltBytes == (Printable \ {"[", "O"}) \cup Controls \cup {"cr", "tab", "del"}

AltKey(raw, kind) ==
    /\ Len(raw) = 2 /\ raw[1] = "esc" /\ raw[2] \in AltBytes
    /\ kind = Alt(IF raw[2] \in {"cr", "tab"} THEN Kind("Control") ELSE KeyOf(raw[2]))

Ss3Key(raw, kind) ==
    /\ Len(raw) = 3 /\ raw[1] = "esc" /\ raw[2] = "O"
    /\ kind = IF raw[3] \in DOMAIN Ss3Keys THEN Kind(Ss3Keys[raw[3]]) ELSE Unknown

CsiKey(raw, kind) ==
    LET params == Middle(raw, Introducer)
        final == Last(raw)
    IN  /\ Framed(raw, Introducer, params, final)
        /\ final \in Finals
        /\ \/ params = <<>> /\ final # "M" /\ kind = ClassifyCsiFinal(final, <<>>)
           \/ /\ params # <<>> /\ final # "~"
              /\ kind = ClassifyCsiFinal(final, Params(params))
           \/ /\ params # <<>> /\ final = "~" /\ Params(params)[1] # "200"
              /\ kind = ClassifyTildeKey(Params(params))

\* Any three bytes after the introducer, or numbers in the SGR encoding.
MouseKey(raw, kind) ==
    \/ /\ Len(raw) = 6 /\ SubSeq(raw, 1, 3) = <<"esc", "[", "M">>
       /\ kind = Kind("Mouse")
    \/ /\ Framed(raw, SgrIntroducer, Middle(raw, SgrIntroducer), Last(raw))
       /\ Last(raw) \in {"M", "m"}
       /\ kind = IF Len(Params(Middle(raw, SgrIntroducer))) < 3
                 THEN Unknown ELSE Kind("Mouse")

\* Any text up to the first end marker.
PasteKey(raw, kind) ==
    LET text == SubSeq(raw, Len(PasteStart) + 1, Len(raw))
    IN  /\ raw = PasteStart \o text
        /\ \A n \in 0..Len(text) :
              IsSuffix(PasteEnd, SubSeq(text, 1, n)) <=> n = Len(text)
        /\ kind = Kind("Paste")

\* The lead of a character and some of the bytes it asks for.
BeginsChar(raw, n) ==
    /\ raw[1] \in DOMAIN Lead /\ n \in 1..Len(raw) /\ n <= Lead[raw[1]] + 1
    /\ \A i \in 2..n : raw[i] = "cont"

CharKey(raw, kind) ==
    /\ BeginsChar(raw, Len(raw)) /\ Len(raw) = Lead[raw[1]] + 1
    /\ kind = Kind("Char")

\* What ends before its last byte.
Unfinished(raw, kind) ==
    /\ \/ raw = <<"esc", "O">>
       \/ \E introducer \in {Introducer, SgrIntroducer} :
             LET params == SubSeq(raw, Len(introducer) + 1, Len(raw))
             IN  raw = introducer \o params /\ params \in Seq(ParamBytes)
       \/ Len(raw) \in 3..5 /\ SubSeq(raw, 1, 3) = <<"esc", "[", "M">>
       \/ BeginsChar(raw, Len(raw)) /\ Len(raw) <= Lead[raw[1]]
    /\ kind = Unknown

Key(raw, kind) ==
    \/ PlainKey(raw, kind) \/ EscapeKey(raw, kind) \/ AltKey(raw, kind)
    \/ Ss3Key(raw, kind)   \/ CsiKey(raw, kind)    \/ MouseKey(raw, kind)
    \/ PasteKey(raw, kind) \/ CharKey(raw, kind)   \/ Unfinished(raw, kind)

\* One key, or one behind a character that is broken off.
Typeable(raw, kinds) ==
    \/ kinds = <<kinds[1]>> /\ Key(raw, kinds[1])
    \/ /\ Len(kinds) = 2 /\ kinds = <<Unknown, kinds[2]>>
       /\ \E n \in 1..(Len(raw) - 1) :
             /\ BeginsChar(raw, n) /\ n <= Lead[raw[1]]
             /\ raw[n + 1] # "cont"
             /\ Key(SubSeq(raw, n + 1, Len(raw)), kinds[2])

\* A run of digits is one byte, and a sequence whose first parameter is 200
\* is the start of a paste, with no other parameter.
WellFormed(raw) ==
    \A i \in 1..Len(raw) :
        raw[i] = "200" =>
            /\ i > 1 /\ raw[i - 1] \notin Digits
            /\ raw[i - 1] = "[" => (i < Len(raw) /\ raw[i + 1] = "~")

ASSUME ReaderAssumption ==
    /\ \A u \in Units : /\ u.raw \in Seq(Bytes) /\ u.raw # <<>>
                        /\ WellFormed(u.raw)
                        /\ Typeable(u.raw, u.kinds)
    /\ BufSize \in Nat \ {0}
    /\ MaxTyped \in Nat

VARIABLES
    line,       \* bytes of the last unit that are still on their way
    tty,        \* bytes that have arrived and have not been read
    parser,     \* TtyReader.parser
    pending,    \* TtyReader.pending
    reading,    \* where read() is
    delivered,  \* history: the events read() has returned
    entered,    \* history: the units typed
    torn        \* history: a timeout struck within a unit

readerVars == <<line, tty, parser, pending, reading, delivered, entered, torn>>

Points == {"called",  \* about to look at pending, and to select
           "paste",   \* in the loop that reads on to the end of a paste
           "esc"}     \* in the select that waits for the rest of a sequence

ReaderInit ==
    /\ line = <<>> /\ tty = <<>>
    /\ parser = NewParser /\ pending = <<>> /\ reading = "called"
    /\ delivered = <<>> /\ entered = <<>> /\ torn = FALSE

------------------------------------------------------------------------------
(* The terminal. *)

\* The bytes of the unit are the beginning of another, as those of Escape.
LeftOpen(unit) == \E fed \in Feed(NewParser, unit.raw) : fed.state # "Ground"

\* Nobody types on within two milliseconds of such a unit, unless Escape twice.
TypedApart(unit) ==
    entered # <<>> =>
        LET last == Last(entered)
        IN  (LeftOpen(last) /\ {last.raw, unit.raw} # {<<"esc">>})
                => (tty = <<>> /\ parser.state = "Ground")

TypeUnit(unit) ==
    /\ Len(entered) < MaxTyped
    /\ line = <<>>
    /\ TypedApart(unit)
    /\ line' = unit.raw
    /\ entered' = Append(entered, unit)
    /\ UNCHANGED <<tty, parser, pending, reading, delivered, torn>>

Arrive ==
    /\ \E n \in 1..Len(line) :
          /\ tty' = tty \o SubSeq(line, 1, n)
          /\ line' = SubSeq(line, n + 1, Len(line))
    /\ UNCHANGED <<parser, pending, reading, delivered, entered, torn>>

------------------------------------------------------------------------------
(* read() *)

\* read() returns the first of the events, if there is one, and keeps the rest.
Return(events) ==
    /\ delivered' = IF events = <<>> THEN delivered ELSE Append(delivered, Head(events))
    /\ pending' = IF events = <<>> THEN <<>> ELSE Tail(events)
    /\ reading' = "called"

\* One read of the file, and what the parser is once it is fed.
Chunk == IF Len(tty) < BufSize THEN Len(tty) ELSE BufSize

ReadAndFeed(fed) ==
    /\ tty' = SubSeq(tty, Chunk + 1, Len(tty))
    /\ parser' = Drained(fed)
    /\ UNCHANGED <<line, entered, torn>>

\* Lines 100 to 113: where read() stands once the parser has been fed.
GoOn(fed) ==
    LET events == pending \o fed.out
    IN  CASE IsInPaste(fed)  -> /\ reading' = "paste" /\ pending' = events
                                /\ UNCHANGED delivered
          [] HasPending(fed) -> /\ reading' = "esc" /\ pending' = events
                                /\ UNCHANGED delivered
          [] OTHER           -> Return(events)

ReturnPending ==
    /\ reading = "called"
    /\ pending # <<>>
    /\ Return(pending)
    /\ UNCHANGED <<line, tty, parser, entered, torn>>

ReadData(fed) ==
    /\ reading = "called"
    /\ pending = <<>>
    /\ ReadAndFeed(fed)
    /\ GoOn(fed)

ReadPaste(fed) ==
    /\ reading = "paste"
    /\ ReadAndFeed(fed)
    /\ GoOn(fed)

\* The second read: whatever it leaves the parser in, read() returns.
ReadRest(fed) ==
    /\ reading = "esc"
    /\ ReadAndFeed(fed)
    /\ Return(pending \o fed.out)

FlushAndReturn ==
    /\ parser' = Drained(Flush(parser))
    /\ Return(pending \o Flush(parser).out)
    /\ torn' = (torn \/ (line # <<>> /\ line # Last(entered).raw))
    /\ UNCHANGED <<line, tty, entered>>

\* Two milliseconds without a byte.
EscTimeout ==
    /\ reading = "esc"
    /\ tty = <<>>
    /\ FlushAndReturn

\* The caller's timeout without a byte.
IdleTimeout ==
    /\ reading = "called"
    /\ pending = <<>>
    /\ tty = <<>>
    /\ IF HasPending(parser) THEN FlushAndReturn ELSE UNCHANGED readerVars

Read ==
    \/ ReturnPending
    \/ /\ tty # <<>>
       /\ \E fed \in Feed(parser, SubSeq(tty, 1, Chunk)) :
             ReadData(fed) \/ ReadPaste(fed) \/ ReadRest(fed)
    \/ EscTimeout
    \/ IdleTimeout

ReaderNext ==
    \/ \E unit \in Units : TypeUnit(unit)
    \/ Arrive
    \/ Read

ReaderSpec == ReaderInit /\ [][ReaderNext]_readerVars

(* The terminal delivers what was typed and the input thread goes on       *)
(* calling read(), whose timeouts expire.                                  *)
ReaderFairSpec == ReaderSpec /\ WF_readerVars(Arrive) /\ WF_readerVars(Read)

------------------------------------------------------------------------------
(* Properties *)

Raws(events) == FlattenSeq([i \in DOMAIN events |-> events[i].raw])

Kinds(events) == [i \in DOMAIN events |-> events[i].kind]

KindsTyped == FlattenSeq([i \in DOMAIN entered |-> entered[i].kinds])

(* Types, and that the parser holds bytes only within a sequence, the      *)
(* counted ones only where they are counted.                               *)
ReaderTypeOK ==
    /\ line \in Seq(Bytes) /\ tty \in Seq(Bytes)
    /\ parser.state \in ParserStates /\ parser.left \in 0..3
    /\ parser.out = <<>>
    /\ (parser.left > 0) <=> parser.state \in {"MouseX10", "Utf8"}
    /\ (parser.state = "Ground") => parser.buf = <<>>
    /\ reading \in Points
    /\ (reading = "paste") => IsInPaste(parser)
    /\ (reading = "esc") => HasPending(parser)
    /\ torn \in BOOLEAN

(* However the bytes are cut and whatever times out, each is given to one  *)
(* event, once and in the order typed: what parser.rs emits as Unknown is  *)
(* still forwarded byte for byte (event.rs: "raw bytes exactly as received *)
(* from terminal").                                                        *)
EveryByteKept ==
    /\ ReaderTypeOK
    /\ Raws(delivered \o pending) \o Held(parser) \o tty \o line = Raws(entered)

(* Unless a timeout strikes within a unit, the events are those of the     *)
(* keys typed, whatever the pieces they arrive in: a sequence is no lone   *)
(* Escape, an escape within a mouse report or a paste starts no key, and   *)
(* a broken character costs no key after it.                               *)
KeysRecognised ==
    ~torn => IsPrefix(Kinds(delivered \o pending), KindsTyped)

(* Everything typed is returned in the end, a lone Escape and a sequence   *)
(* that never completes included: no state of the parser waits for a byte  *)
(* that will not come.                                                     *)
EverythingReturned ==
    []<>(Raws(delivered) = Raws(entered))

=============================================================================
