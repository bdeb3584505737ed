-------------------------------- MODULE Overlay --------------------------------
(* Functions laid over one another, as a spread of one object after another: *)
(* the TLC module's @@, with a definition that can be reasoned about.        *)

Over(f, g) == [x \in DOMAIN f \union DOMAIN g |-> IF x \in DOMAIN f THEN f[x] ELSE g[x]]
Only(f, S) == [x \in DOMAIN f \intersect S |-> f[x]]
Without(f, S) == [x \in DOMAIN f \ S |-> f[x]]
At(x, v) == [y \in {x} |-> v]
================================================================================
