----------------------------- MODULE HttpParser -----------------------------
(***************************************************************************)
(* server/src/http/HttpParser.cpp run by HttpContext::ParseInput on the    *)
(* byte stream of one connection, which arrives in pieces of any size: the *)
(* read callback fills the Buffer, then the state machine goes as far as   *)
(* it can and leaves the rest of the input for the next call.              *)
(*                                                                         *)
(* A byte is a delimiter, a word (a method, a URL, a value, most of a      *)
(* header name) or the last letter of a name: wherever the code looks for  *)
(* one byte the model does, and words hold no delimiter.                   *)
(***************************************************************************)
EXTENDS Buffer, SequencesExt

CONSTANTS
    Scripts,    \* what the client sends: sequences of requests
    Numbers,    \* the words std::stoul reads a number from, and the number
    SizeMod,    \* the size_t's there are: 2^64
    MaxRead     \* bound: bytes of one readv

SP == " "
COLON == ":"
CR == "\r"
LF == "\n"
GET == "GET"
VERSION_11 == "HTTP/1.1"
PATH_ERR == "/err"
ContentLength == <<"content-lengt", "h">>
Connection == <<"connectio", "n">>
Close == "close"

(* The client. A name is a sequence of bytes, a value is one.              *)
Token == Byte \ {SP, COLON, CR, LF}

Header == [key : Seq(Token), value : Token]

Request ==
    [method : Token, url : Token, version : Token, headers : Seq(Header), body : Seq(Byte)]

HeaderBytes(h) == h.key \o <<COLON, SP, h.value, CR, LF>>

HeadBytes(r) ==
    <<r.method, SP, r.url, SP, r.version, CR, LF>>
        \o FlattenSeq([i \in DOMAIN r.headers |-> HeaderBytes(r.headers[i])])
        \o <<CR, LF>>

RequestBytes(r) == HeadBytes(r) \o r.body

StreamOf(s) == FlattenSeq([i \in DOMAIN s |-> RequestBytes(s[i])])

ASSUME ParserAssumption ==
    /\ {SP, COLON, CR, LF, GET, PATH_ERR, "content-lengt", "connectio"} \subseteq Byte
    /\ MaxRead \in Nat
    /\ SizeMod \in Nat \ {0}
    /\ Numbers \in [DOMAIN Numbers -> 0 .. SizeMod - 1]
    /\ DOMAIN Numbers \subseteq
          Token \ {"CONTENT-LENGT", "content-lengt", "CONNECTIO", "connectio"}
    /\ "0" \in DOMAIN Numbers /\ Numbers["0"] = 0

VARIABLES
    script,    \* the requests of the client
    stream,    \* their bytes
    got,       \* how many of them readv has returned
    buf,       \* the connection's read_buffer_
    packet,    \* RequestHandlerPacket: current_state_ and content_buffer_
    pc,        \* "read", "parse", "undefined" once the code's behaviour is,
               \* or "aborted" by an exception nobody catches
    out,       \* the contents ParseInput has dispatched
    taken,     \* (history) what update_read_pos has been called with, in all
    seen,      \* (history) got when the parser was last run
    cut        \* (history) it was once run without the whole body of a request

vars == <<script, stream, got, buf, packet, pc, out, taken, seen, cut>>

Word == Seq(Byte)

ContentType ==
    [method : Word, url : Word, version : Word, keep_alive : BOOLEAN,
     content_length : Nat, headers : SUBSET (Word \X Word), body : Word]

NewContent ==
    [method |-> <<>>, url |-> <<>>, version |-> <<>>, keep_alive |-> FALSE,
     content_length |-> 0, headers |-> {}, body |-> <<>>]

NewPacket == [state |-> "START", content |-> NewContent]

States == {"START", "METHOD", "PATH", "VERSION", "HEADER", "BODY", "END"}

(* Where the requests of the script begin and end in the stream. *)
EndOf(i) == Len(StreamOf(SubSeq(script, 1, i)))
BodyOf(i) == EndOf(i) - Len(script[i].body)

LowerByte(c) ==
    CASE c = "CONTENT-LENGT" -> "content-lengt"
      [] c = "CONNECTIO" -> "connectio"
      [] OTHER -> c

Lowered(key) == [i \in DOMAIN key |-> LowerByte(key[i])]

Named(r, key) == {i \in DOMAIN r.headers : Lowered(r.headers[i].key) = key}

LastValue(r, key, default) ==
    IF Named(r, key) = {} THEN default ELSE r.headers[Max(Named(r, key))].value

(* One bad Content-Length is enough to refuse a request; of several good   *)
(* ones the last counts.                                                   *)
Malformed(r) == \E i \in Named(r, ContentLength) : r.headers[i].value \notin DOMAIN Numbers

Announced(r) == Numbers[LastValue(r, ContentLength, "0")]

(* It announces more than it has, "-1" for one: its body is never whole.   *)
Short(r) == ~Malformed(r) /\ Len(r.body) < Announced(r)

(* The first n bytes end in the body of a request, or after one that is    *)
(* never whole.                                                            *)
MidBody(n) ==
    \E i \in DOMAIN script : BodyOf(i) <= n /\ (n < EndOf(i) \/ Short(script[i]))

Init ==
    /\ script \in Scripts
    /\ stream = StreamOf(script)
    /\ got = 0 /\ taken = 0 /\ seen = 0 /\ cut = FALSE
    /\ buf = EmptyBuffer
    /\ packet = NewPacket
    /\ pc = "read"
    /\ out = <<>>

-----------------------------------------------------------------------------
(* read_channel_buffer *)

(* One readv, and update_write_pos. *)
Receive(n) ==
    /\ pc = "read"
    /\ got + n <= Len(stream)
    /\ Writable(buf, SubSeq(stream, got + 1, got + n))
    /\ buf' = Received(buf, SubSeq(stream, got + 1, got + n))
    /\ got' = got + n
    /\ UNCHANGED <<script, stream, packet, pc, out, taken, seen, cut>>

(* The move of a range that ends before it begins. *)
ReceiveUndefined(n) ==
    /\ pc = "read"
    /\ got + n <= Len(stream)
    /\ ~Writable(buf, SubSeq(stream, got + 1, got + n))
    /\ pc' = "undefined"
    /\ UNCHANGED <<script, stream, got, buf, packet, out, taken, seen, cut>>

(* The socket is drained for now, and the parse callback is called. *)
ParseReady ==
    /\ pc = "read" /\ got > seen
    /\ pc' = "parse"
    /\ seen' = got
    /\ cut' = (cut \/ MidBody(got))
    /\ UNCHANGED <<script, stream, got, buf, packet, out, taken>>

-----------------------------------------------------------------------------
(* The handlers of fsm_excute. *)

InState(s) == pc = "parse" /\ packet.state = s

(* A handler returns INCOMPLETE: the input is left for the next call. *)
Incomplete ==
    /\ pc' = "read"
    /\ UNCHANGED <<script, stream, got, buf, packet, out, taken, seen, cut>>

(* A handler moves past n bytes and goes on in state s. *)
Consume(n, s, content) ==
    /\ buf' = UpdateReadPos(buf, n)
    /\ taken' = taken + n
    /\ packet' = [state |-> s, content |-> content]
    /\ UNCHANGED <<script, stream, got, pc, out, seen, cut>>

IsPair(b, pos, first, second) == At(b, pos) = first /\ At(b, pos + 1) = second

Spaces == {p \in buf.rp .. buf.wp - 1 : At(buf, p) = SP}

Crlfs(from) == {p \in from .. buf.wp - 2 : IsPair(buf, p, CR, LF)}

(* get_content_upto_colon_sp stops at the last pair without looking at it. *)
Colons ==
    LET hits == {p \in buf.rp .. buf.wp - 3 : IsPair(buf, p, COLON, SP)}
    IN  IF hits # {} THEN Min(hits) ELSE Max({buf.rp, buf.wp - 2})

Text(from, to) == Bytes(buf, from, to - from)

ParseStart ==
    /\ InState("START")
    /\ packet' = [packet EXCEPT !.state = "METHOD"]
    /\ UNCHANGED <<script, stream, got, buf, pc, out, taken, seen, cut>>

(* Mutation of ParseMethod: the bytes looked at are skipped. *)
ParseMethodSkips ==
    /\ InState("METHOD")
    /\ IF Spaces = {}
       THEN /\ pc' = "read"
            /\ buf' = UpdateReadPos(buf, buf.wp - buf.rp)
            /\ taken' = taken + (buf.wp - buf.rp)
            /\ UNCHANGED <<script, stream, got, packet, out, seen, cut>>
       ELSE Consume(Min(Spaces) + 1 - buf.rp, "PATH",
                    [packet.content EXCEPT !.method = Text(buf.rp, Min(Spaces))])

ParseMethod ==
    /\ InState("METHOD")
    /\ IF Spaces = {} THEN Incomplete
       ELSE Consume(Min(Spaces) + 1 - buf.rp, "PATH",
                    [packet.content EXCEPT !.method = Text(buf.rp, Min(Spaces))])

ParseUrl ==
    /\ InState("PATH")
    /\ IF Spaces = {} THEN Incomplete
       ELSE Consume(Min(Spaces) + 1 - buf.rp, "VERSION",
                    [packet.content EXCEPT !.url = Text(buf.rp, Min(Spaces))])

ParseVersion ==
    /\ InState("VERSION")
    /\ IF Crlfs(buf.rp) = {} THEN Incomplete
       ELSE LET version == Text(buf.rp, Min(Crlfs(buf.rp)))
            IN  Consume(Min(Crlfs(buf.rp)) + 2 - buf.rp, "HEADER",
                        [packet.content EXCEPT !.version = version,
                            !.keep_alive = @ \/ version = <<VERSION_11>>])

(* key_to_lower: all but the last letter of the name, in the buffer. *)
KeyToLower(b, from, to) ==
    [b EXCEPT !.data = [i \in 1 .. Len(b.data) |->
        IF i \in from + 1 .. to - 1 THEN LowerByte(b.data[i]) ELSE b.data[i]]]

Emplace(headers, key, value) ==
    IF \E h \in headers : h[1] = key THEN headers ELSE headers \union {<<key, value>>}

(* std::stoul: white space is skipped, and what follows the number ignored. *)
Solid(value) == {i \in DOMAIN value : value[i] \notin {SP, CR, LF}}
IsNumber(value) == Solid(value) # {} /\ value[Min(Solid(value))] \in DOMAIN Numbers
NumberOf(value) == Numbers[value[Min(Solid(value))]]

WithHeader(content, key, value) ==
    IF key = Connection THEN [content EXCEPT !.keep_alive = value # <<Close>>]
    ELSE IF key = ContentLength THEN [content EXCEPT !.content_length = NumberOf(value)]
    ELSE [content EXCEPT !.headers = Emplace(@, key, value)]

(* The empty line: it stays in the buffer for the body's handler. *)
HeadersEnd ==
    /\ InState("HEADER")
    /\ buf.rp \in Crlfs(buf.rp)
    /\ packet' = [packet EXCEPT !.state = "BODY"]
    /\ UNCHANGED <<script, stream, got, buf, pc, out, taken, seen, cut>>

HeaderIncomplete ==
    /\ InState("HEADER")
    /\ buf.rp \notin Crlfs(buf.rp)
    /\ Colons + 1 >= buf.wp \/ Crlfs(Colons + 2) = {}
    /\ Incomplete

(* A whole line that is not empty: its separator, its end, and what is     *)
(* left of it once the name is in lower case.                              *)
HasLine ==
    /\ InState("HEADER")
    /\ buf.rp \notin Crlfs(buf.rp)
    /\ Colons + 1 < buf.wp
    /\ Crlfs(Colons + 2) # {}

LineEnd == Min(Crlfs(Colons + 2))
Low == KeyToLower(buf, buf.rp, Colons)
Key == Bytes(Low, buf.rp, Colons - buf.rp)
Value == Bytes(Low, Colons + 2, LineEnd - Colons - 2)

BadLength == Key = ContentLength /\ ~IsNumber(Value)

(* A name that is empty: key_to_lower is given an end before its begin,    *)
(* and runs on through whatever memory follows.                            *)
ParseHeaderUndefined ==
    /\ HasLine /\ Colons = buf.rp
    /\ pc' = "undefined"
    /\ UNCHANGED <<script, stream, got, buf, packet, out, taken, seen, cut>>

ParseHeader ==
    /\ HasLine /\ Colons > buf.rp /\ ~BadLength
    /\ buf' = UpdateReadPos(Low, LineEnd + 2 - buf.rp)
    /\ taken' = taken + (LineEnd + 2 - buf.rp)
    /\ packet' = [packet EXCEPT !.content = WithHeader(@, Key, Value)]
    /\ UNCHANGED <<script, stream, got, pc, out, seen, cut>>

(* ParseInput's last part: what was parsed so far is sent to /err. *)
Fault(content) ==
    [content EXCEPT !.method = <<GET>>, !.url = <<PATH_ERR>>, !.keep_alive = FALSE]

(* Mutation of ParseHeaderFails: the bad line is dropped. *)
ParseHeaderDropsLine ==
    /\ HasLine /\ Colons > buf.rp /\ BadLength
    /\ buf' = UpdateReadPos(Low, LineEnd + 2 - buf.rp)
    /\ taken' = taken + (LineEnd + 2 - buf.rp)
    /\ out' = Append(out, Fault(packet.content))
    /\ packet' = [packet EXCEPT !.content = NewContent]
    /\ pc' = "read"
    /\ UNCHANGED <<script, stream, got, seen, cut>>

(* A content-length that is no number: ERROR. The line stays unread and    *)
(* the state stays HEADER.                                                 *)
ParseHeaderFails ==
    /\ HasLine /\ Colons > buf.rp /\ BadLength
    /\ buf' = Low
    /\ out' = Append(out, Fault(packet.content))
    /\ packet' = [packet EXCEPT !.content = NewContent]
    /\ pc' = "read"
    /\ UNCHANGED <<script, stream, got, taken, seen, cut>>

(* The body's handler eats the empty line, every time it is entered, ...   *)
BodyBuffer == UpdateReadPos(buf, 2)

BodyLength == packet.content.content_length

BodyNone ==
    /\ InState("BODY")
    /\ BodyLength = 0
    /\ Consume(2, "END", packet.content)

(* The end of the body, a size_t. *)
BodyEnd == (BodyBuffer.rp + BodyLength) % SizeMod
BodyWraps == BodyBuffer.rp + BodyLength >= SizeMod

(* ... waits for the whole body, ... *)
BodyIncomplete ==
    /\ InState("BODY")
    /\ BodyLength > 0
    /\ BodyEnd > BodyBuffer.wp
    /\ buf' = BodyBuffer
    /\ taken' = taken + 2
    /\ pc' = "read"
    /\ UNCHANGED <<script, stream, got, packet, out, seen, cut>>

(* ... and takes it. *)
BodyWhole ==
    /\ InState("BODY")
    /\ BodyLength > 0
    /\ BodyEnd <= BodyBuffer.wp /\ ~BodyWraps
    /\ buf' = UpdateReadPos(BodyBuffer, BodyLength)
    /\ taken' = taken + 2 + BodyLength
    /\ packet' = [state |-> "END",
                  content |-> [packet.content EXCEPT
                                 !.body = Bytes(BodyBuffer, BodyBuffer.rp, BodyLength)]]
    /\ UNCHANGED <<script, stream, got, pc, out, seen, cut>>

(* A length so large that the end wraps around: std::string throws         *)
(* length_error, and nobody on the loop's thread catches it.               *)
BodyAborts ==
    /\ InState("BODY")
    /\ BodyLength > 0
    /\ BodyEnd <= BodyBuffer.wp /\ BodyWraps
    /\ buf' = BodyBuffer
    /\ taken' = taken + 2
    /\ pc' = "aborted"
    /\ UNCHANGED <<script, stream, got, packet, out, seen, cut>>

(* fsm_excute returns COMPLETE; ParseInput pops the content, dispatches it *)
(* and goes on.                                                            *)
FsmOver ==
    /\ InState("END")
    /\ out' = Append(out, packet.content)
    /\ packet' = NewPacket
    /\ UNCHANGED <<script, stream, got, buf, pc, taken, seen, cut>>

Parse ==
    \/ ParseStart \/ ParseMethod \/ ParseUrl \/ ParseVersion
    \/ HeadersEnd \/ HeaderIncomplete
    \/ ParseHeaderUndefined \/ ParseHeader \/ ParseHeaderFails
    \/ BodyNone \/ BodyIncomplete \/ BodyWhole \/ BodyAborts
    \/ FsmOver

ParserNext ==
    \/ \E n \in 1 .. MaxRead : Receive(n) \/ ReceiveUndefined(n)
    \/ ParseReady
    \/ Parse

-----------------------------------------------------------------------------
(* The variables are what they are meant to be; write_pos_ stays within    *)
(* the vector, and a length is a size_t.                                   *)
ParserTypeOK ==
    /\ script \in Scripts /\ stream \in Seq(Byte)
    /\ got \in 0 .. Len(stream) /\ seen \in 0 .. got
    /\ taken \in Nat /\ cut \in BOOLEAN
    /\ buf \in BufferType /\ buf.wp <= Len(buf.data)
    /\ packet \in [state : States, content : ContentType]
    /\ pc \in {"read", "parse", "undefined", "aborted"}
    /\ out \in Seq(ContentType)

(* Whatever compaction, growth, shrinking and position resets have done,   *)
(* the readable part of the buffer is the stream from the first byte not   *)
(* consumed to the last one received (up to the case of a header name that *)
(* is being parsed): nothing is lost, repeated or moved.                   *)
StreamKept ==
    /\ taken - buf.rp = got - buf.wp
    /\ \A i \in buf.rp + 1 .. buf.wp :
         LowerByte(buf.data[i]) = LowerByte(stream[i + (got - buf.wp)])

(* The reference: what a request of the client means, whoever parses it.   *)
(* The last Connection counts, and of every name but Connection and        *)
(* Content-Length the first.                                               *)
Firsts(r) ==
    {i \in DOMAIN r.headers :
        LET key == Lowered(r.headers[i].key)
        IN  /\ key \notin {Connection, ContentLength}
            /\ \A j \in 1 .. i - 1 : j \notin Named(r, key)}

Meaning(r) ==
    [method |-> <<r.method>>, url |-> <<r.url>>, version |-> <<r.version>>,
     keep_alive |-> IF Named(r, Connection) = {} THEN r.version = VERSION_11
                    ELSE LastValue(r, Connection, Close) # Close,
     content_length |-> Announced(r),
     headers |-> {<<Lowered(r.headers[i].key), <<r.headers[i].value>>>> : i \in Firsts(r)},
     body |-> r.body]

(* What the reference takes for granted: a name ends in a lower-case       *)
(* letter (key_to_lower leaves the last one as it was), a body is no       *)
(* longer than its head says (what follows it is another request), two     *)
(* numbers do not touch (they would be one), and nobody sends 2^64 bytes.  *)
ASSUME ClientAssumption ==
    \A s \in Scripts :
        /\ s \in Seq(Request)
        /\ Len(StreamOf(s)) < SizeMod
        /\ \A i \in 1 .. Len(StreamOf(s)) - 1 :
              ~({StreamOf(s)[i], StreamOf(s)[i + 1]} \subseteq DOMAIN Numbers)
        /\ \A i \in DOMAIN s :
              /\ \A h \in Range(s[i].headers) : h.key # <<>> => LowerByte(Last(h.key)) = Last(h.key)
              /\ ~Malformed(s[i]) => Len(s[i].body) <= Announced(s[i])

(* The well-formed requests before the first malformed one, and those of   *)
(* them whose last byte is among the first n.                              *)
Good == {i \in DOMAIN script : \A j \in 1 .. i : ~Malformed(script[j])}
Whole(n) == {i \in Good : EndOf(i) <= n}

Nameless(r) == \E i \in DOMAIN r.headers : r.headers[i].key = <<>>

(* However the stream is cut into reads, the parser has dispatched exactly *)
(* the whole requests it was shown, each with its meaning, in order, and   *)
(* none early: half a line, half a separator or several requests in one    *)
(* read make no difference. It runs off the buffer only at a name that is  *)
(* empty, when it has dispatched what came before it, and never aborts.    *)
(* The exception is a body that is not all there when the parser is run    *)
(* (see BodySurvivesCut), because the rest is to come or because its       *)
(* length was wrong.                                                       *)
FragmentsDoNotMatter ==
    ~cut =>
        /\ pc = "read" =>
              /\ Len(out) >= Cardinality(Whole(seen))
              /\ Good = DOMAIN script => Len(out) = Cardinality(Whole(seen))
              /\ \A i \in Whole(seen) : out[i] = Meaning(script[i])
        /\ pc = "undefined" =>
              \E i \in DOMAIN script :
                 /\ Nameless(script[i])
                 /\ 1 .. i - 1 \subseteq Good /\ Len(out) = i - 1
                 /\ \A j \in 1 .. i - 1 : out[j] = Meaning(script[j])
        /\ pc # "aborted"

IsFault(c) == c.method = <<GET>> /\ c.url = <<PATH_ERR>> /\ ~c.keep_alive

(* After a malformed request nothing but faults is dispatched: the bytes   *)
(* that follow it are never taken for a request. HttpPipeline rests on     *)
(* this (its stuck parser).                                                *)
NothingAfterMalformed ==
    ~cut => \A i \in DOMAIN out : i \notin Good => IsFault(out[i])

(* What the code says of a body whose rest has not arrived: it is half a   *)
(* packet, to be completed by the next read. The code does not keep it.    *)
BodySurvivesCut ==
    \A i \in DOMAIN out : i \in Good => out[i] = Meaning(script[i])

=============================================================================
