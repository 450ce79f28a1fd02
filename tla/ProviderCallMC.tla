---------------------------- MODULE ProviderCallMC ----------------------------
(* A small instance of ProviderCall: answers with texts, reasoning of each *)
(* kind, and up to two calls with and without identifiers.                 *)
EXTENDS ProviderCall

Delta(r, c, d) == [reasoning |-> r, content |-> c, details |-> d]

Detail(plain, t) == [plain |-> plain, text |-> <<t>>]

Reasonings ==
  {<<>>, <<Delta(<<"x">>, <<>>, <<Detail(TRUE, "x")>>)>>,
   <<Delta(<<"x">>, <<>>, <<>>), Delta(<<>>, <<"y">>, <<Detail(TRUE, "y")>>)>>,
   <<Delta(<<>>, <<>>, <<Detail(TRUE, "x")>>), Delta(<<>>, <<>>, <<Detail(TRUE, "y")>>)>>,
   <<Delta(<<"x">>, <<>>, <<Detail(TRUE, "y")>>)>>,
   <<Delta(<<"x">>, <<>>, <<Detail(TRUE, "x"), Detail(FALSE, "x")>>)>>}

Call(id, args) == [id |-> id, args |-> args]

CallLists ==
  {<<>>, <<Call(<<"c1">>, Whole)>>, <<Call(<<"c1">>, Whole), Call(<<"c2">>, Whole)>>,
   <<Call(None, <<>>), Call(None, Whole)>>,
   <<Call(<<"c1">>, Whole), Call(None, Whole)>>, <<Call(<<"c1">>, <<>>), Call(<<"c1">>, Whole)>>}

Answers ==
  [text : {<<>>, <<"a", "b">>}, reasoning : Reasonings, calls : CallLists,
   finish : {"stop", "length"}]
=============================================================================
