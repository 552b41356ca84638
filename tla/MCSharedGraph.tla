---------------------------- MODULE MCSharedGraph ----------------------------
(***************************************************************************)
(* A site for SharedGraph.  On the home page (address 1) a menu opens; the *)
(* menu leads to a list (address 2), and a search to a result (address 4). *)
(* The address of the list shows the list when it is loaded; that of the   *)
(* result shows home, and so does the one it has when it is ordered (3).   *)
(* An ordered result is the same state with a recipe that looks better and *)
(* leads nowhere; then a session that explores it goes astray, and so does *)
(* one at the menu, which is slow to open.  Home and the result share a    *)
(* button, and so do home and the menu, with different effects: what a     *)
(* session does astray it stores for a state where it does something else. *)
(* That of the result leads to the list without a change of address, where *)
(* a second action makes a recipe that repeats actions.                    *)
(* Buttons change between renders: of three versions of one, neighbours    *)
(* share a key or a locator.                                               *)
(***************************************************************************)
EXTENDS SharedGraph

Button(k, l) == [key |-> k, locator |-> l]
To(h, u) == [hash |-> h, url |-> u]
Single(a, e) == [x \in {a} |-> e]
And(f, g) == [x \in DOMAIN f \union DOMAIN g |-> IF x \in DOMAIN f THEN f[x] ELSE g[x]]

CONSTANTS s1, s2, One, Two
McActions == [s \in Session |-> IF s = s1 THEN One ELSE Two]

McHash == {"home", "menu", "list", "result"}
McLoad == [u \in 1 .. 4 |-> <<"home", "list", "home", "home">>[u]]
McFlaky == {"menu"}
McEffect ==
  [home |-> And(Single(Button("m", "m1"), To("menu", Stay)),
            And(Single(Button("m", "m2"), To("menu", Stay)),
            And(Single(Button("n", "m2"), To("menu", Stay)),
                Single(Button("s", "s1"), To("result", 4))))),
   menu |-> Single(Button("s", "s1"), To("list", 2)),
   list |-> Single(Button("s", "s1"), To("menu", Stay)),
   result |-> And(Single(Button("o", "o1"), To("result", 3)),
                  Single(Button("m", "m1"), To("list", Stay)))]
=============================================================================
