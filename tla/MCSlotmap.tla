----------------------------- MODULE MCSlotmap -----------------------------
(* A small instance of Slotmap: three addresses, two slots.                *)
EXTENDS Slotmap, TLC

CONSTANTS a1, a2, a3

Reply(ms, r1, r2) ==
  [masters |-> ms,
   ranges |-> [a \in ms |-> CASE a = a1 -> r1 [] a = a2 -> r2 [] OTHER -> {}]]

(* One node with all slots, a split map, a map that moved to the other     *)
(* node with a slot not served, a master without slots, a map without any, *)
(* and the maps the code refuses: a slot claimed twice, a range past the   *)
(* last slot, and one that ends before it starts.  The third address is    *)
(* known only from the options and from redirects.                         *)
MCReplies ==
  { Reply({a1}, {<<0, 1>>}, {}),
    Reply({a1, a2}, {<<0, 0>>}, {<<1, 1>>}),
    Reply({a2}, {}, {<<1, 1>>}),
    Reply({a1, a2}, {}, {<<0, 0>>, <<1, 1>>}),
    Reply({a1}, {}, {}),
    Reply({a1, a2}, {<<0, 1>>}, {<<1, 1>>}),
    Reply({a1}, {<<0, 2>>}, {}),
    Reply({a2}, {}, {<<1, 0>>}) }

Symmetry == Permutations(NodeId) \union Permutations(Conn)
=============================================================================
