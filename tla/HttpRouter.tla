----------------------------- MODULE HttpRouter -----------------------------
(***************************************************************************)
(* server/src/http/HttpRouter.cpp: from a parsed request to its response,  *)
(* as operators. The table finds a sender; the sender builds a head and a  *)
(* body. A URL is a word that may stand for several paths: Components is   *)
(* the set of what its parts between slashes may be, Suffix what follows   *)
(* its last dot (with the dot, "" without one).                            *)
(***************************************************************************)
EXTENDS Naturals, Sequences, SequencesExt

CONSTANTS
    Components,   \* URL -> the sequences of parts it stands for
    Suffix,       \* URL -> its suffix
    Files         \* the files under SRC_PATH: path -> contents

ASSUME RouterAssumption ==
    /\ \A u \in DOMAIN Components : Components[u] \subseteq Seq(STRING)
    /\ \A p \in DOMAIN Files : Files[p] \in Seq(STRING)

NotFound == "HTTP/1.1 Not Found"

(* Requests are looked up by method and URL, then by method alone. *)
Register(table, key, sender) ==
    IF key \in DOMAIN table THEN table ELSE table @@ (key :> sender)

Registered ==
    LET t1 == Register(<<>>, <<NotFound>>, "default")
        t2 == Register(t1, <<"GET", "/ping">>, "ping")
        t3 == Register(t2, <<"POST", "/echo">>, "echo")
        t4 == Register(t3, <<"GET", "/err">>, "fault")
    IN  Register(t4, <<"GET">>, "file")

SenderOf(req) ==
    IF req.method \o req.url \in DOMAIN Registered THEN Registered[req.method \o req.url]
    ELSE IF req.method \in DOMAIN Registered THEN Registered[req.method]
    ELSE Registered[<<NotFound>>]

-----------------------------------------------------------------------------
(* Responses: what append_common_headers writes, and the body.             *)

(* Mutation of Response: the head does not tell that the answer is last. *)
ResponseKeeps(status, type, keep, body) ==
    [status |-> status, type |-> type, length |-> Len(body),
     connection |-> "keep-alive", body |-> body, mapped |-> FALSE]

Response(status, type, keep, body) ==
    [status |-> status, type |-> type, length |-> Len(body),
     connection |-> IF keep THEN "keep-alive" ELSE "close", body |-> body, mapped |-> FALSE]

NotFoundResponse(req) == Response(404, "text/html", req.keep_alive, <<"Not", "Found">>)

PingResponse(req) == Response(200, "text/html", req.keep_alive, <<"pong">>)

EchoResponse(req) == Response(200, "application/json", req.keep_alive, req.body)

FaultResponse(req) == Response(400, "text/plain", FALSE, <<"Bad", "Request">>)

-----------------------------------------------------------------------------
(* Files.                                                                  *)

RespondTypes ==
    (".html" :> "text/html") @@ (".jpg" :> "image/jpeg") @@ (".jpeg" :> "image/jpeg")
    @@ (".png" :> "image/png") @@ (".gif" :> "image/gif") @@ (".css" :> "text/css")
    @@ (".js" :> "application/javascript")

(* validate_static_path keeps a stack of the parts seen so far; it fails   *)
(* as soon as ".." finds the stack empty.                                  *)
Refused == <<"..">>

(* Mutation of PathStep: ".." at the root stays at the root. *)
PathStepClamps(stack, part) ==
    IF stack = Refused \/ part \in {"", "."} THEN stack
    ELSE IF part # ".." THEN Append(stack, part)
    ELSE IF stack = <<>> THEN <<>>
    ELSE Front(stack)

PathStep(stack, part) ==
    IF stack = Refused \/ part \in {"", "."} THEN stack
    ELSE IF part # ".." THEN Append(stack, part)
    ELSE IF stack = <<>> THEN Refused
    ELSE Front(stack)

(* The path in its shortest form, Refused when there is none: above the    *)
(* root, or nothing left.                                                  *)
ValidPath(parts) ==
    LET stack == FoldLeft(PathStep, <<>>, parts)
    IN  IF stack = <<>> THEN Refused ELSE stack

(* The URL as Components and Suffix know it. *)
UrlOf(req) == IF req.url = <<>> THEN "" ELSE req.url[1]

(* The body of a file's response is mapped, not copied.                    *)
FileResponse(req, type, contents) ==
    [Response(200, type, req.keep_alive, contents) EXCEPT !.mapped = TRUE]

(* open, fstat and mmap may fail on any file; mmap fails on an empty one.  *)
FileResponses(req, parts) ==
    LET type == Suffix[UrlOf(req)]
        path == ValidPath(parts)
    IN  IF type \notin DOMAIN RespondTypes THEN {NotFoundResponse(req)}
        ELSE IF path = Refused THEN {FaultResponse(req)}
        ELSE {NotFoundResponse(req)} \union
             {FileResponse(req, RespondTypes[type], Files[path]) :
                 p \in {q \in DOMAIN Files : q = path /\ Files[q] # <<>>}}

(* Only the file sender looks into the URL. *)
Paths(req) == IF SenderOf(req) = "file" THEN Components[UrlOf(req)] ELSE {<<>>}

(* HttpRouter::get_response *)
Responses(req, parts) ==
    LET sender == SenderOf(req)
    IN  CASE sender = "ping" -> {PingResponse(req)}
          [] sender = "echo" -> {EchoResponse(req)}
          [] sender = "fault" -> {FaultResponse(req)}
          [] sender = "file" -> FileResponses(req, parts)
          [] OTHER -> {NotFoundResponse(req)}

-----------------------------------------------------------------------------
(* The reference: a path names something under the root iff walking it     *)
(* never leaves the root and does not end there; its parts are then those  *)
(* that no later ".." takes back.                                          *)
Ups(parts, i, j) == Cardinality({k \in i .. j : parts[k] = ".."})
Downs(parts, i, j) == Cardinality({k \in i .. j : parts[k] \notin {"", ".", ".."}})

StaysInside(parts) ==
    /\ \A n \in DOMAIN parts : Ups(parts, 1, n) <= Downs(parts, 1, n)
    /\ Ups(parts, 1, Len(parts)) < Downs(parts, 1, Len(parts))

Kept(parts) ==
    {i \in DOMAIN parts :
        /\ parts[i] \notin {"", ".", ".."}
        /\ \A j \in i .. Len(parts) : Ups(parts, i, j) < Downs(parts, i, j)}

Resolved(parts) ==
    IF StaysInside(parts)
    THEN [n \in 1 .. Cardinality(Kept(parts)) |->
            parts[CHOOSE i \in Kept(parts) : Cardinality({j \in Kept(parts) : j < i}) = n - 1]]
    ELSE Refused

=============================================================================
