----------------------------- MODULE MCFootnotes -----------------------------
(***************************************************************************)
(* GroundedAnswers with two sections of one document as evidence, numbered   *)
(* 18 and 2 in the database.                                                *)
(***************************************************************************)
EXTENDS GroundedAnswers

Piece(target, word) ==
  [doc |-> 1, target |-> target, text |-> <<Word(word)>>, title |-> {}, score |-> target,
   picture |-> FALSE, table |-> 0, result |-> 0]
MCPacks == {<<Piece(18, "a"), Piece(2, "b")>>}
MCPayloads ==
  {[text |-> <<Word("a"), Alias(1)>>, insufficient |-> FALSE,
    sections |-> <<[text |-> <<Word("a")>>, ids |-> <<1>>], [text |-> <<Word("b")>>, ids |-> <<2>>]>>]}
=============================================================================
