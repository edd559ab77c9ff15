---------------------------- MODULE HttpExchange ----------------------------
(***************************************************************************)
(* From bytes to bytes: the parser of one connection (HttpParser), what    *)
(* HttpContext::save_respond_chunk makes of each request it dispatches     *)
(* with the router's response (HttpRouter), and the writes that take the   *)
(* response to the peer (OutputChunk). The three share nothing but their   *)
(* inputs, so each response is written before the parser goes on: the      *)
(* order in which the pool finishes requests, and what waits for the       *)
(* socket meanwhile, are HttpPipeline's matter.                            *)
(***************************************************************************)
EXTENDS HttpParser, HttpRouter, OutputChunk

ASSUME ExchangeAssumption == Byte \union {""} \subseteq DOMAIN Components

VARIABLES
    answers,   \* the responses made, the path each was asked for, whether the
               \* connection was then shut down, and what the peer has received
    chunk      \* the last one's OutputChunk

allVars == <<vars, answers, chunk>>

(* The bytes of a response: two lines of a head, then the body.            *)
HeadOf(resp) ==
    <<[status |-> resp.status, type |-> resp.type],
      [length |-> resp.length, connection |-> resp.connection]>>

BodyBytes(resp) == [i \in DOMAIN resp.body |-> [byte |-> resp.body[i]]]

ChunkOf(resp) ==
    IF resp.mapped THEN MMapFileChunk(HeadOf(resp), BodyBytes(resp))
    ELSE StringChunk(HeadOf(resp) \o BodyBytes(resp))

ExchangeInit == Init /\ answers = <<>> /\ chunk = StringChunk(<<>>)

(* save_respond_chunk: the response is queued, then the connection is shut *)
(* down if the request does not keep it alive.                             *)
Answer ==
    /\ Len(answers) < Len(out) /\ Complete(chunk)
    /\ LET req == out[Len(answers) + 1]
       IN  \E parts \in Paths(req) :
             \E resp \in Responses(req, parts) :
               /\ answers' = Append(answers,
                     [resp |-> resp, parts |-> parts, shut |-> ~req.keep_alive, wire |-> <<>>])
               /\ chunk' = ChunkOf(resp)
    /\ UNCHANGED vars

(* The kernel takes n bytes of what it is offered, now or when the socket  *)
(* is writable again.                                                      *)
Write(n) ==
    /\ ~Complete(chunk) /\ n <= Len(Offered(chunk))
    /\ answers' = [answers EXCEPT ![Len(answers)].wire = @ \o SubSeq(Offered(chunk), 1, n)]
    /\ chunk' = Took(chunk, n)
    /\ UNCHANGED vars

(* The next read comes when everything dispatched is answered and written.  *)
Next == \/ /\ Len(answers) = Len(out) /\ Complete(chunk)
           /\ ParserNext
           /\ UNCHANGED <<answers, chunk>>
        \/ Answer
        \/ \E n \in 1 .. chunk.pending : Write(n)

Spec == ExchangeInit /\ [][Next]_allVars

-----------------------------------------------------------------------------
(* The parser's state is well formed, nothing is answered that was not     *)
(* dispatched, and no more is written than there is.                       *)
TypeOK == ParserTypeOK /\ Len(answers) <= Len(out) /\ chunk.written \in 0 .. chunk.pending

(* A file is served only if walking its path never leaves the root, and    *)
(* then it is the file the path means; a path that leaves the root is      *)
(* refused, never clamped to it (validate_static_path).                    *)
PathsResolved ==
    \A i \in DOMAIN answers :
        LET a == answers[i]
        IN  SenderOf(out[i]) = "file" /\ Suffix[UrlOf(out[i])] \in DOMAIN RespondTypes =>
              /\ a.resp.status = 400 <=> ~StaysInside(a.parts)
              /\ a.resp.status = 200 => a.resp.body = Files[Resolved(a.parts)]

(* However the kernel cuts the writes, within the head, between head and   *)
(* file or within the file: what the peer has received and what is still   *)
(* offered to the kernel are together the response, whole and in order,    *)
(* and the head announces the length of the body that follows it.          *)
AnswersArrive ==
    \A i \in DOMAIN answers :
        LET a == answers[i]
            rest == IF i = Len(answers) /\ ~Complete(chunk) THEN Offered(chunk) ELSE <<>>
        IN  /\ a.wire \o rest = HeadOf(a.resp) \o BodyBytes(a.resp)
            /\ a.resp.length = Len(a.resp.body)

(* A client whose connection is shut down after a response has been told   *)
(* so in that response.                                                    *)
CloseAnnounced ==
    \A i \in DOMAIN answers : answers[i].shut => answers[i].resp.connection = "close"

(* What the fault sender says of its response: a 400 closes the connection *)
(* directly. The code does not keep it for a path that is refused: the     *)
(* shutdown looks at the request, which keeps its connection alive.        *)
BadRequestCloses == \A i \in DOMAIN answers : answers[i].resp.status = 400 => answers[i].shut

=============================================================================
