------------------------------- MODULE MCForward -------------------------------
(* Small exchanges for Forward, with windows of two bytes for 65535.       *)
EXTENDS Forward

Exchange(client, service, request, response, head, stated) ==
  [client |-> client, service |-> service, request |-> request, response |-> response,
   head |-> head, stated |-> stated]

(* None, one frame of a whole window, an empty one between others, and     *)
(* more than two windows, which a service that echoes cannot hold.         *)
Bodies == {<<>>, <<2>>, <<1, 1, 3>>}
Long   == <<1, 2, 4, 5, 6>>

(* A content-length that is missing, too small and right; a head that      *)
(* fills its buffer, and one that leaves room.                             *)
OverHttp11 ==
  {Exchange("chunked", "patient", <<1, 3>>, res, h, st) :
     res \in {<<>>, <<1, 2>>, <<1, 1, 2>>, <<2, 3>>}, h \in {1, 3}, st \in {{}, {1}, {2}}}
    \cup {Exchange("plain", s, req, res, 1, st) :
            s \in {"patient", "early"}, req \in {<<>>, <<2>>, <<1, 3>>},
            res \in {<<>>, <<1, 2>>}, st \in {{}, {2}}}

AllExchanges ==
  {Exchange("h2", s, req, res, 1, {}) : s \in {"patient", "early"}, req \in Bodies,
                                        res \in Bodies}
    \cup {Exchange(c, "echo", b, b, 1, {}) : c \in {"h2", "plain", "chunked"},
                                             b \in {<<2>>, Long}}
    \cup OverHttp11

(* A response of one byte more than the window.                            *)
BeyondWindow == {Exchange("chunked", "patient", <<1>>, <<2, 3>>, 3, {})}

===============================================================================
