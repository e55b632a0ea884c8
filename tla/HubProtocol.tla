----------------------------- MODULE HubProtocol -----------------------------
(***************************************************************************)
(* The text the SignalR client reads and writes (signalr.js:                   *)
(* TextMessageFormat, HandshakeProtocol, JsonHubProtocol).  A serialized        *)
(* message is one token of a text, the record itself; a text is a sequence of   *)
(* tokens, with a RecordSeparator token after each message.                     *)
(***************************************************************************)
EXTENDS Integers, Sequences

\* A hub message: its MessageType, its invocation id (0: none) and, of an invocation, the ids
\* of the streams it announces.  A handshake response has no type.
Message(type, id, streams) == [type |-> type, id |-> id, streams |-> streams]

RecordSeparator == [type |-> "RecordSeparator"]
Handshake == [type |-> "none"]

\* The messages of s that have one of the types, in their order; a separator has none of them.
OfType(s, types) ==
    LET kept[n \in 0..Len(s)] ==
            IF n = 0 THEN << >>
            ELSE IF s[n].type \in types THEN Append(kept[n - 1], s[n]) ELSE kept[n - 1]
    IN  kept[Len(s)]

\* TextMessageFormat
Write(message) == <<message, RecordSeparator>>
IsComplete(text) == text # << >> /\ text[Len(text)] = RecordSeparator

\* The transport joins the messages that are ready into one text.
Join(messages) ==
    [i \in 1..2 * Len(messages) |-> Write(messages[(i + 1) \div 2])[2 - (i % 2)]]

\* Mutant: what arrived together with the handshake response is dropped.
HandshakeRestLost(text) == << >>

\* parseHandshakeResponse: the text up to the first separator is the response, the rest is
\* parsed as usual.
HandshakeRest(text) ==
    LET first == CHOOSE i \in DOMAIN text :
                     text[i] = RecordSeparator /\ \A j \in 1..i - 1 : text[j] # RecordSeparator
    IN  SubSeq(text, first + 1, Len(text))
IsHandshake(text) ==
    /\ \E i \in DOMAIN text : text[i] = RecordSeparator
    /\ text[1].type = "none"

\* parseMessages throws on a text that is not complete and on a record without a type or with
\* an invalid payload, and skips the types a later protocol may add.
Readable(text) == IsComplete(text) /\ \A i \in DOMAIN text : text[i].type # "none"
ParseMessages(text) == OfType(text, {"Invocation", "StreamItem", "Completion", "Ping", "Close"})
=============================================================================
