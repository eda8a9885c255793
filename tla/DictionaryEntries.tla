------------------------- MODULE DictionaryEntries -------------------------
(***************************************************************************)
(* A dictionary as a function from the keys it has.                        *)
(***************************************************************************)

(* One entry; and the entries of f, and those of g for other keys.         *)
Entry(k, value) == [x \in {k} |-> value]
Overlay(f, g) ==
  [k \in DOMAIN f \union DOMAIN g |-> IF k \in DOMAIN f THEN f[k] ELSE g[k]]
=============================================================================
