--------------------------- MODULE MCHttpExchange ---------------------------
EXTENDS HttpExchange

Field(key, value) == [key |-> key, value |-> value]
Req(method, url, version, headers, body) ==
    [method |-> method, url |-> url, version |-> version, headers |-> headers, body |-> body]

Length(n) == Field(<<"CONTENT-LENGT", "h">>, n)
Host == Field(<<"hos", "t">>, "x")

Ping == Req("GET", "/ping", "HTTP/1.1", <<Host>>, <<>>)
Bare == Req("GET", "/any.png", "HTTP/1.1", <<>>, <<>>)
Old == Req("GET", "/ping", "HTTP/1.0", <<>>, <<>>)
Echo == Req("POST", "/echo", "HTTP/1.1", <<Length("3"), Host>>, <<"x", "\r", "\n">>)
Closing == Req("GET", "/e.css", "HTTP/1.1", <<Field(<<"connectio", "n">>, "close")>>, <<>>)
Bad == Req("POST", "/echo", "HTTP/1.1", <<Length("x"), Length("1")>>, <<"x">>)
Other == Req("POST", "/ping", "HTTP/1.0", <<Field(<<"CONNECTIO", "n">>, "keep"), Host, Field(<<"hos", "t">>, "keep")>>, <<>>)

Nobody == Req("GET", "/ping", "HTTP/1.1", <<Field(<<>>, "x")>>, <<>>)
Huge == Req("POST", "/echo", "HTTP/1.1", <<Length("-1")>>, <<"x">>)

MCScripts ==
    {<<Ping, Bare>>, <<Echo, Closing>>, <<Other, Bad>>, <<Old, Nobody>>, <<Huge>>}

MCNumbers == ("0" :> 0) @@ ("1" :> 1) @@ ("3" :> 3) @@ ("-1" :> SizeMod - 1)

MCByte == {SP, COLON, CR, LF, "GET", "POST", "/ping", "/echo", "/err", "/any.png",
           "/e.css", "HTTP/1.1", "HTTP/1.0", "CONTENT-LENGT", "content-lengt",
           "h", "CONNECTIO", "connectio", "n", "hos", "t", "x", "close", "keep", "0", "1", "3", "-1"}

(* "/any.png" stands for every path of up to three parts. *)
MCComponents ==
    ("/e.css" :> {<<"", "e.css">>})
    @@ ("/any.png" :> {<<"">> \o p : p \in BoundedSeq({"", ".", "..", "a", "b.png"}, 3)})
    @@ [u \in MCByte \union {""} |-> {<<u>>}]

MCSuffix ==
    [u \in DOMAIN MCComponents |->
        IF u = "/e.css" THEN ".css" ELSE IF u = "/any.png" THEN ".png" ELSE ""]

MCFiles == (<<"b.png">> :> <<"x", "x">>) @@ (<<"e.css">> :> <<>>)
=============================================================================
