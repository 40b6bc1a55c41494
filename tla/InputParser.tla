------------------------------ MODULE InputParser ------------------------------
(***************************************************************************)
(* The parser of terminal input, crates/term_input/src/parser.rs: a state  *)
(* machine without I/O that is fed bytes and collects events.              *)
(*                                                                         *)
(* A byte is named for the class the parser tells it by, and a run of      *)
(* digits is one byte.  A collected UTF-8 character is taken to be valid,  *)
(* and a mouse event keeps no button and no position.  The raw bytes of a  *)
(* mouse event or a paste are history: the program does not store them.    *)
(***************************************************************************)
EXTENDS Naturals, SequencesExt

Digits == {"1", "3", "15", "200", "201"}
Controls == {"ctrl"}                           \* 0x01..0x1a but CR and TAB
Letters == {"A", "H", "M", "O", "P", "m", "x"}
Finals == Letters \cup {"[", "~"}              \* 0x40..0x7e
Printable == Finals \cup Digits \cup {";", "<"}
Lead == [lead2 |-> 1, lead3 |-> 2]             \* continuations each asks for
Others == {"cont", "nul"}
Bytes == Printable \cup Controls \cup DOMAIN Lead \cup Others
            \cup {"esc", "cr", "tab", "del"}

ParserStates == {"Ground", "EscReceived", "CsiEntry", "CsiParam",
                 "Ss3Pending", "MouseX10", "SgrMouse", "PasteBuf", "Utf8"}

Kind(key) == [key |-> key, alt |-> FALSE]
Alt(kind) == [kind EXCEPT !.alt = TRUE]
Unknown == Kind("Unknown")

\* left: the bytes MouseX10 or Utf8 still waits for, 0 elsewhere.
NewParser == [state |-> "Ground", left |-> 0, buf |-> <<>>, out |-> <<>>]

\* Plausible bug: only Escape itself is thought to need a timeout.
HasPendingEscape(p) == p.state = "EscReceived"

HasPending(p) == p.state \notin {"Ground", "PasteBuf"}

IsInPaste(p) == p.state = "PasteBuf"

Push(p, byte) == [p EXCEPT !.buf = Append(@, byte)]

PushTo(p, byte, state) == [Push(p, byte) EXCEPT !.state = state]

\* The raw bytes leave as one event, and the parser is back in Ground.
Emit(p, raw, kind) ==
    [state |-> "Ground", left |-> 0, buf |-> <<>>,
     out   |-> Append(p.out, [raw |-> raw, kind |-> kind])]

\* The byte ends the sequence in buf.
EmitWith(p, byte, kind) == Emit(p, Append(p.buf, byte), kind)

(* A single byte that is a key of its own. *)
KeyOf(byte) ==
    CASE byte = "cr"         -> Kind("Enter")
      [] byte = "tab"        -> Kind("Tab")
      [] byte = "del"        -> Kind("Backspace")
      [] byte \in Controls   -> Kind("Control")
      [] byte \in Printable  -> Kind(byte)
      [] OTHER               -> Unknown

StartUtf8(p, byte) ==
    [p EXCEPT !.state = "Utf8", !.left = Lead[byte], !.buf = <<byte>>]

Ground(p, byte) ==
    CASE byte = "esc"          -> [p EXCEPT !.state = "EscReceived", !.buf = <<byte>>]
      [] byte \in DOMAIN Lead  -> StartUtf8(p, byte)
      [] OTHER                 -> Emit(p, <<byte>>, KeyOf(byte))

\* Plausible bug: a byte that cannot continue the character is dropped with it.
Utf8ContDrops(p, byte) ==
    IF byte # "cont" THEN Emit(p, p.buf, Unknown)
    ELSE IF p.left > 1 THEN [Push(p, byte) EXCEPT !.left = @ - 1]
    ELSE EmitWith(p, byte, Kind("Char"))

(* A byte that cannot continue the character is taken again, from Ground. *)
Utf8Cont(p, byte) ==
    IF byte # "cont" THEN Ground(Emit(p, p.buf, Unknown), byte)
    ELSE IF p.left > 1 THEN [Push(p, byte) EXCEPT !.left = @ - 1]
    ELSE EmitWith(p, byte, Kind("Char"))

EscReceived(p, byte) ==
    CASE byte = "["   -> PushTo(p, byte, "CsiEntry")
      [] byte = "O"   -> PushTo(p, byte, "Ss3Pending")
      [] byte = "esc" -> [Emit(p, <<"esc">>, Kind("Escape"))
                            EXCEPT !.state = "EscReceived", !.buf = <<"esc">>]
      [] byte \in (Printable \ {"[", "O"}) \cup Controls \cup {"cr", "tab", "del"}
            -> EmitWith(p, byte,
                   Alt(IF byte \in {"cr", "tab"} THEN Kind("Control") ELSE KeyOf(byte)))
      [] OTHER        -> EmitWith(p, byte, Unknown)

(* The numbers between the introducer and the final byte; none is "0". *)
Params(sequence) ==
    LET params[n \in 0..Len(sequence)] ==
            CASE n = 0             -> <<"0">>
              [] n > 0 /\ sequence[n] = ";" -> Append(params[n - 1], "0")
              [] OTHER             -> Append(Front(params[n - 1]), sequence[n])
    IN  params[Len(sequence)]

\* xterm's modifier is 1 plus a mask in which 2 is Alt.
WrapModifier(kind, params) ==
    IF Len(params) >= 2 /\ params[2] = "3" THEN Alt(kind) ELSE kind

FinalKeys == [A |-> "Arrow", H |-> "Nav"]

ClassifyCsiFinal(final, params) ==
    IF final \in DOMAIN FinalKeys
    THEN WrapModifier(Kind(FinalKeys[final]), params)
    ELSE Unknown

ClassifyTildeKey(params) ==
    CASE params[1] = "3"  -> WrapModifier(Kind("Nav"), params)
      [] params[1] = "15" -> WrapModifier(Kind("Function"), params)
      [] OTHER            -> Unknown

CsiEntry(p, byte) ==
    CASE byte = "M"                  -> [PushTo(p, byte, "MouseX10") EXCEPT !.left = 3]
      [] byte = "<"                  -> PushTo(p, byte, "SgrMouse")
      [] byte \in Digits \cup {";"}  -> PushTo(p, byte, "CsiParam")
      [] OTHER                       -> EmitWith(p, byte, ClassifyCsiFinal(byte, <<>>))

CsiParams(p) == Params(SubSeq(p.buf, 3, Len(p.buf)))

PasteStart == <<"esc", "[", "200", "~">>
PasteEnd == <<"esc", "[", "201", "~">>

CsiParam(p, byte) ==
    CASE byte \in Digits \cup {";"} -> Push(p, byte)
      [] byte = "~" /\ CsiParams(p)[1] = "200"
                    -> [p EXCEPT !.state = "PasteBuf", !.buf = <<>>]
      [] byte = "~" /\ CsiParams(p)[1] # "200"
                    -> EmitWith(p, byte, ClassifyTildeKey(CsiParams(p)))
      [] byte \in Finals \ {"~"}
                    -> EmitWith(p, byte, ClassifyCsiFinal(byte, CsiParams(p)))
      [] OTHER      -> EmitWith(p, byte, Unknown)

Ss3Keys == [A |-> "Arrow", H |-> "Nav", P |-> "Function"]

Ss3Pending(p, byte) ==
    EmitWith(p, byte, IF byte \in DOMAIN Ss3Keys THEN Kind(Ss3Keys[byte]) ELSE Unknown)

\* Plausible bug: an escape within the report starts a sequence.
MouseX10Escapes(p, byte) ==
    IF byte = "esc" THEN Ground(Emit(p, p.buf, Unknown), byte)
    ELSE IF p.left > 1 THEN [Push(p, byte) EXCEPT !.left = @ - 1]
    ELSE EmitWith(p, byte, Kind("Mouse"))

\* Plausible bug: the bytes of the report stay behind in buf.
MouseX10LeavesBuf(p, byte) ==
    IF p.left > 1 THEN [Push(p, byte) EXCEPT !.left = @ - 1]
    ELSE [EmitWith(p, byte, Kind("Mouse")) EXCEPT !.buf = Append(p.buf, byte)]

(* Whatever the three bytes after the introducer are, they are its own. *)
MouseX10(p, byte) ==
    IF p.left > 1 THEN [Push(p, byte) EXCEPT !.left = @ - 1]
    ELSE EmitWith(p, byte, Kind("Mouse"))

SgrMouse(p, byte) ==
    CASE byte \in Digits \cup {";"} -> Push(p, byte)
      [] byte \in {"M", "m"} ->
            EmitWith(p, byte, IF Len(Params(SubSeq(p.buf, 4, Len(p.buf)))) < 3
                              THEN Unknown ELSE Kind("Mouse"))
      [] OTHER -> EmitWith(p, byte, Unknown)

InPaste(p, byte) ==
    IF IsSuffix(PasteEnd, Append(p.buf, byte))
    THEN Emit(p, PasteStart \o Append(p.buf, byte), Kind("Paste"))
    ELSE Push(p, byte)

Step(p, byte) ==
    CASE p.state = "Ground"      -> Ground(p, byte)
      [] p.state = "EscReceived" -> EscReceived(p, byte)
      [] p.state = "CsiEntry"    -> CsiEntry(p, byte)
      [] p.state = "CsiParam"    -> CsiParam(p, byte)
      [] p.state = "Ss3Pending"  -> Ss3Pending(p, byte)
      [] p.state = "MouseX10"    -> MouseX10(p, byte)
      [] p.state = "SgrMouse"    -> SgrMouse(p, byte)
      [] p.state = "PasteBuf"    -> InPaste(p, byte)
      [] p.state = "Utf8"        -> Utf8Cont(p, byte)

(* The parser fed with data, as the set that has it as its one element.    *)
(* What feed leaves in out is what it returns; TtyReader takes it there.   *)
Feed(p, data) ==
    LET fed[n \in 0..Len(data)] ==
            IF n = 0 THEN {p} ELSE {Step(q, data[n]) : q \in fed[n - 1]}
    IN  fed[Len(data)]

Flush(p) ==
    CASE p.state = "EscReceived" -> Emit(p, <<"esc">>, Kind("Escape"))
      [] p.state \in {"Ground", "PasteBuf"} -> p
      [] OTHER -> Emit(p, p.buf, Unknown)

Drained(p) == [p EXCEPT !.out = <<>>]

(* The bytes the parser has taken and has not given out. *)
Held(p) == IF IsInPaste(p) THEN PasteStart \o p.buf ELSE p.buf
=============================================================================
