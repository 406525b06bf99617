------------------------------- MODULE MCChunked -------------------------------
(* Small bodies for Chunked.  Ten and sixteen are scaled to 2 and 3, so    *)
(* that sizes from 2 on tell the bases apart, and MAX_READ_SIZE to 4.      *)
EXTENDS Chunked

Frame(first, n) == [i \in 1..n |-> Data(first + i)]

By(encoder, frames) == [by |-> encoder, frames |-> frames]

(* Sizes of one digit, numeric or not, and a size of two numeric digits;   *)
(* line feeds and digits in the payload; no frames, and an empty frame.    *)
(* ChunkedEncoder only writes sizes that are the same in both bases.       *)
Agreed ==
  { By("client", <<Frame(0, 1), Frame(1, 2)>>),
    By("client", <<Frame(0, 3), <<LF, Digit(1)>>>>),
    By("client", <<Frame(0, 4), <<LF>>>>),
    By("client", <<>>),
    By("lolb", <<Frame(0, 1), <<LF>>, <<Digit(0)>>>>),
    By("lolb", <<Frame(0, 1), <<>>, Frame(1, 1)>>) }

(* The bodies that the theorems of ChunkedProofs are about. *)
ASSUME AgreedAssumption == \A b \in Agreed : Decodable(b)

TwoInDecimal == { By("lolb", <<Frame(0, 2), Frame(2, 1)>>) }

===============================================================================
