-------------------------- MODULE MCHttp11Connection --------------------------
(* Small streams for Http11Connection.  PREAUTH_LEN = 12, the preface of   *)
(* 24 bytes and the buffers of 16384 are scaled down, in the same order.   *)
EXTENDS Http11Connection

(* The bytes of a request with a head of h and a body of b bytes.          *)
Request(h, b) ==
  Times(h - 1, HeadByte) \o <<HeadEnd(b)>> \o Times(b, BodyByte)

(* Nothing, a request that is cut short of the preface, one without and    *)
(* one with a body, two without (the second one may already be buffered),  *)
(* a body before a second head, a head that the buffer cannot hold, and    *)
(* one that no request can be built from.                                  *)
OneOrTwo ==
  { <<>>,
    Request(3, 0),
    Request(4, 2),
    Request(2, 0) \o Request(4, 1),
    Request(3, 1) \o Request(4, 0),
    Request(8, 0),
    Times(4, HeadByte) \o <<BadEnd>> }

OneWithBody == { Request(4, 2) }

===============================================================================
