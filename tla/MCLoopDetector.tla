---------------------------- MODULE MCLoopDetector ----------------------------
(* Small texts over two letters, some longer than what is compared. *)
EXTENDS LoopDetector

CONSTANTS a, b

MCText ==
  { <<>>, <<a>>, <<b>>, <<a, a>>, <<a, b>>, <<b, a>>, <<a, a, b>>, <<a, b, a>>,
    <<b, a, b>>, <<a, b, a, a>>, <<a, b, a, b>> }

TwoThirds == <<2, 3>>

OneThird == <<1, 3>>
===============================================================================
