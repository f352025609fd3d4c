----------------------------- MODULE MCTopology -----------------------------
(* A small instance of Topology: two slots, two addresses of masters and   *)
(* one that only replicas have, two names.                                 *)
EXTENDS Topology

CONSTANTS a1, a2, a3, x, y

Line(role, addr, name, of, fields) ==
  [role |-> role, addr |-> addr, name |-> name, of |-> of, fields |-> fields]

(* A master's fields: none; both slots in one range; one slot next to one  *)
(* that is being moved; a range that is none and one that ends too late.   *)
SlotRange(a, b) == [kind |-> "range", range |-> <<a, b>>]

Open(kind) == [kind |-> kind, range |-> <<1, 1>>]

Fields ==
  { <<>>, <<SlotRange(0, 1)>>, <<SlotRange(1, 1), Open("migrating")>>,
    <<Open("importing"), SlotRange(1, 0), SlotRange(1, 2)>> }

MCLines ==
  { Line("master", a, n, n, f) : a \in {a1, a2}, n \in {x, y}, f \in Fields }
    \union { Line("slave", a3, x, n, <<>>) : n \in {x, y} }
    \union { Line("short", NULL, x, x, <<>>),
             Line("noaddr", NULL, x, x, <<>>),
             Line("other", NULL, x, x, <<>>),
             Line("master", NULL, x, x, <<>>),
             Line("slave", NULL, x, x, <<>>) }

Region(shape, range, ns) == [shape |-> shape, range |-> range, nodes |-> ns]

MCRegions ==
  { Region("ok", r, ns) :
      r \in {<<0, 0>>, <<1, 1>>},
      ns \in {<<a1>>, <<a2, a3>>, <<a1, a3, a3>>, <<a2, NULL>>, <<NULL>>} }
    \union { Region("ok", <<1, 0>>, <<a1>>),
             Region("ok", <<-1, 0>>, <<a1>>),
             Region("ok", <<UInt32, UInt32 + 1>>, <<a1>>),
             Region("notint", <<0, 0>>, <<a1>>),
             Region("short", <<0, 0>>, <<>>) }
=============================================================================
