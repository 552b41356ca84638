--------------------------- MODULE MCSemanticBank ---------------------------
(***************************************************************************)
(* An application for SemanticBank: a home page, the products one and two, *)
(* a cart, and a page without a usable profile.  Home and product two are  *)
(* equivalent with confidence, and so are product one and the cart; home   *)
(* and product one are alike, but not confidently equivalent; the products *)
(* are neither.  Sessions are interchangeable.                             *)
(***************************************************************************)
EXTENDS SemanticBank, TLC

McState == {"home", "one", "two", "cart", "blank"}
McLinks ==
  [home |-> {"one", "cart"}, one |-> {"two"}, cart |-> {}, two |-> {"blank"}, blank |-> {}]
Pair(h, k, a, b) == {h, k} = {a, b}
McConfidence ==
  [h \in McState |-> [k \in McState |->
     CASE h = k -> 3
       [] Pair(h, k, "home", "two") -> 2
       [] Pair(h, k, "one", "cart") -> 2
       [] Pair(h, k, "home", "one") -> 1
       [] Pair(h, k, "one", "two") -> 1
       [] OTHER -> 0]]
McAlike == {<<"one", "home">>, <<"home", "one">>}
McSymmetry == Permutations(Session)
=============================================================================
